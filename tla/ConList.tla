------------------------------ MODULE ConList ------------------------------
(***************************************************************************)
(* The connection list of linklist/testlink.c: a doubly linked list sorted *)
(* by CID with global head, last and current pointers.  Every operation    *)
(* walks from con_current_node.                                            *)
(*                                                                         *)
(* The caller is external: it allocates the node it inserts, and frees the *)
(* node remove_con_node hands back.  A step that would dereference NULL or *)
(* freed memory, or that never ends, sets fault and the model stops.       *)
(***************************************************************************)
EXTENDS Naturals, Sequences, FiniteSets, FiniteSetsExt, Functions

CONSTANTS
  Addrs,      \* addresses malloc may return
  NULL,
  CIDs        \* connection IDs

ASSUME ConListAssumption ==
  /\ IsFiniteSet(Addrs)
  /\ NULL \notin Addrs
  /\ CIDs \subseteq Nat

VARIABLES
  heap,       \* struct CON_list of each address
  allocated,
  head, last, current,
  fault,      \* "none", or how the program failed
  careful     \* the caller calls find_con_node before it removes the head

pointers == <<head, last, current>>
vars == <<heap, allocated, pointers, fault, careful>>

Pointer == Addrs \cup {NULL}
Node(c, p, n) == [cid |-> c, previous |-> p, next |-> n]
Blank == Node(0, NULL, NULL)

Init ==
  /\ heap = [a \in Addrs |-> Blank]
  /\ allocated = {}
  /\ head = NULL /\ last = NULL /\ current = NULL
  /\ fault = "none"
  /\ careful \in BOOLEAN

-----------------------------------------------------------------------------
(* Walking.                                                                *)

Steps == 0 .. Cardinality(Addrs)

\* The nodes met by following one link from a; it stays at the first pointer
\* that leads to no node.
Trail(a, link) ==
  LET at[n \in Steps] ==
        IF n = 0 THEN a
        ELSE IF at[n - 1] \in allocated THEN heap[at[n - 1]][link] ELSE at[n - 1]
  IN at

Endless == "endless"

\* do { if (tmp->link == NULL) leave; tmp = tmp->link; } while (tmp is not in stops),
\* from con_current_node: where it leaves, which is no allocated node when
\* the walk goes wrong.
Walk(link, stops) ==
  LET at == Trail(current, link)
      ends == {n \in Steps : \/ at[n] \notin allocated
                             \/ heap[at[n]][link] = NULL
                             \/ n > 0 /\ at[n] \in stops}
  IN IF ends = {} THEN Endless ELSE at[Min(ends)]

\* How a program fails that uses p as a node.
FaultOf(p) == IF p = NULL THEN "null" ELSE IF p = Endless THEN "hang" ELSE "freed"

Crash(p) ==
  /\ p \notin allocated
  /\ fault' = FaultOf(p)
  /\ UNCHANGED <<heap, allocated, pointers>>

cid(a) == heap[a].cid

-----------------------------------------------------------------------------
(* insert_con_node, with the node a that the caller allocated.             *)

InsertEmpty(a, c) ==
  /\ head = NULL
  /\ allocated' = allocated \cup {a}
  /\ heap' = [heap EXCEPT ![a] = Node(c, NULL, NULL)]
  /\ head' = a /\ last' = a /\ current' = a
  /\ UNCHANGED fault

\* Greater than the node under the cursor: walk right, then append after the
\* last node or link in before the node reached.
InsertRight(a, c) ==
  LET tmp == Walk("next", {n \in allocated : c <= cid(n)})
      tmp1 == heap[tmp].previous
  IN /\ head # NULL /\ current \in allocated
     /\ c > cid(current)
     /\ \/ Crash(tmp)
        \/ /\ tmp \in allocated
           /\ tmp = last /\ c > cid(last)
           /\ allocated' = allocated \cup {a}
           /\ heap' = [heap EXCEPT ![last].next = a, ![a] = Node(c, last, NULL)]
           /\ last' = a /\ current' = a
           /\ UNCHANGED <<head, fault>>
        \/ /\ tmp \in allocated
           /\ ~(tmp = last /\ c > cid(last))
           /\ \/ Crash(tmp1)
              \/ /\ tmp1 \in allocated
                 /\ allocated' = allocated \cup {a}
                 /\ heap' = [heap EXCEPT ![a] = Node(c, tmp1, tmp),
                                         ![tmp].previous = a, ![tmp1].next = a]
                 /\ current' = a
                 /\ UNCHANGED <<head, last, fault>>

\* Mutated form of InsertLeft: the walk also stops at the first node it meets.
InsertLeftOneStep(a, c) ==
  LET tmp == Walk("previous", allocated)
      tmp1 == heap[tmp].next
  IN /\ head # NULL /\ current \in allocated
     /\ c < cid(current)
     /\ \/ Crash(tmp)
        \/ /\ tmp \in allocated
           /\ tmp = head /\ c < cid(head)
           /\ allocated' = allocated \cup {a}
           /\ heap' = [heap EXCEPT ![head].previous = a, ![a] = Node(c, NULL, head)]
           /\ head' = a /\ current' = a
           /\ UNCHANGED <<last, fault>>
        \/ /\ tmp \in allocated
           /\ ~(tmp = head /\ c < cid(head))
           /\ tmp1 \in allocated
           /\ allocated' = allocated \cup {a}
           /\ heap' = [heap EXCEPT ![a] = Node(c, tmp, tmp1),
                                   ![tmp1].previous = a, ![tmp].next = a]
           /\ current' = a
           /\ UNCHANGED <<head, last, fault>>

\* Smaller: walk left, then put it before the head or after the node reached.
InsertLeft(a, c) ==
  LET tmp == Walk("previous", {n \in allocated : c >= cid(n)})
      tmp1 == heap[tmp].next
  IN /\ head # NULL /\ current \in allocated
     /\ c < cid(current)
     /\ \/ Crash(tmp)
        \/ /\ tmp \in allocated
           /\ tmp = head /\ c < cid(head)
           /\ allocated' = allocated \cup {a}
           /\ heap' = [heap EXCEPT ![head].previous = a, ![a] = Node(c, NULL, head)]
           /\ head' = a /\ current' = a
           /\ UNCHANGED <<last, fault>>
        \/ /\ tmp \in allocated
           /\ ~(tmp = head /\ c < cid(head))
           /\ \/ Crash(tmp1)
              \/ /\ tmp1 \in allocated
                 /\ allocated' = allocated \cup {a}
                 /\ heap' = [heap EXCEPT ![a] = Node(c, tmp, tmp1),
                                         ![tmp1].previous = a, ![tmp].next = a]
                 /\ current' = a
                 /\ UNCHANGED <<head, last, fault>>

\* Equal to the node under the cursor: no branch takes it, and the caller,
\* who is told nothing, still has the node allocated.
InsertDropped(a, c) ==
  /\ head # NULL /\ current \in allocated
  /\ c = cid(current)
  /\ allocated' = allocated \cup {a}
  /\ heap' = [heap EXCEPT ![a] = Node(c, NULL, NULL)]
  /\ UNCHANGED <<pointers, fault>>

InsertLost(a, c) == head # NULL /\ Crash(current)

insert_con_node(a, c) ==
  \/ InsertEmpty(a, c) \/ InsertRight(a, c) \/ InsertLeft(a, c)
  \/ InsertDropped(a, c) \/ InsertLost(a, c)

-----------------------------------------------------------------------------
(* find_con_node and the walk of remove_con_node.                          *)

\* Mutated form of Search: it only walks right.
SearchRight(c) ==
  IF c = cid(current) THEN current
  ELSE Walk("next", {n \in allocated : cid(n) = c})

\* The walk away from the cursor towards c; a miss ends at the list's end.
Search(c) ==
  IF c = cid(current) THEN current
  ELSE Walk(IF c > cid(current) THEN "next" ELSE "previous", {n \in allocated : cid(n) = c})

Found(c) == Search(c) \in allocated /\ cid(Search(c)) = c

\* A search that misses changes nothing; one that meets the ID moves the cursor.
find_con_node(c) ==
  \/ Crash(current)
  \/ /\ current \in allocated
     /\ \/ Crash(Search(c))
        \/ /\ Found(c)
           /\ current' = Search(c)
           /\ UNCHANGED <<heap, allocated, head, last, fault>>

-----------------------------------------------------------------------------
(* remove_con_node; the caller then frees the node t it returns.           *)

Freed(t, h) ==
  /\ allocated' = allocated \ {t}
  /\ heap' = [h EXCEPT ![t] = Blank]

RemoveOnly(t) ==
  /\ t = current /\ heap[t].next = NULL /\ heap[t].previous = NULL
  /\ head' = NULL /\ last' = NULL /\ current' = NULL
  /\ Freed(t, heap)
  /\ UNCHANGED fault

\* The cursor is at the head or was moved there.  Reached from its right, the
\* head is unlinked by clearing the previous pointer of the last node, not
\* that of the new head.
RemoveHead(t) ==
  LET new == heap[head].next
      cleared == IF t = current THEN new ELSE last
  IN /\ t = head
     /\ \/ Crash(cleared)
        \/ /\ cleared \in allocated
           /\ head' = new /\ current' = new
           /\ Freed(t, [heap EXCEPT ![cleared].previous = NULL])
           /\ UNCHANGED <<last, fault>>

RemoveLast(t) ==
  LET new == heap[last].previous
  IN /\ t = last
     /\ \/ Crash(new)
        \/ /\ new \in allocated
           /\ last' = new /\ current' = new
           /\ Freed(t, [heap EXCEPT ![new].next = NULL])
           /\ UNCHANGED <<head, fault>>

\* Mutated form of Relink: only the forward link is mended.
RelinkForward(t) ==
  LET tmp1 == heap[t].next
      tmp2 == heap[t].previous
  IN /\ tmp1 \in allocated /\ tmp2 \in allocated
     /\ current' = tmp1
     /\ Freed(t, [heap EXCEPT ![tmp2].next = tmp1])
     /\ UNCHANGED <<head, last, fault>>

\* remove_and_relink_node.
Relink(t) ==
  LET tmp1 == heap[t].next
      tmp2 == heap[t].previous
  IN \/ Crash(tmp1)
     \/ tmp1 \in allocated /\ Crash(tmp2)
     \/ /\ tmp1 \in allocated /\ tmp2 \in allocated
        /\ current' = tmp1
        /\ Freed(t, [heap EXCEPT ![tmp1].previous = tmp2, ![tmp2].next = tmp1])
        /\ UNCHANGED <<head, last, fault>>

RemoveAtCursor(t) ==
  LET only == heap[t].next = NULL /\ heap[t].previous = NULL
  IN \/ RemoveOnly(t)
     \/ ~only /\ RemoveHead(t)
     \/ ~only /\ t # head /\ RemoveLast(t)
     \/ ~only /\ t # head /\ t # last /\ Relink(t)

RemoveRight(t) == RemoveLast(t) \/ (t # last /\ Relink(t))
RemoveLeft(t)  == RemoveHead(t) \/ (t # head /\ Relink(t))

remove_con_node(c) ==
  \/ Crash(current)
  \/ /\ current \in allocated
     /\ careful /\ Search(c) = head => current = head
     /\ \/ Crash(Search(c))
        \/ /\ Found(c)
           /\ LET t == Search(c) IN
              \/ c = cid(current) /\ RemoveAtCursor(t)
              \/ c > cid(current) /\ RemoveRight(t)
              \/ c < cid(current) /\ RemoveLeft(t)

-----------------------------------------------------------------------------
Next ==
  /\ fault = "none"
  /\ \E c \in CIDs :
       \/ \E a \in Addrs \ allocated : insert_con_node(a, c)
       \/ find_con_node(c)
       \/ remove_con_node(c)
  /\ UNCHANGED careful

Spec == Init /\ [][Next]_vars

-----------------------------------------------------------------------------
(* Properties.                                                             *)

\* The nodes from the head on, as a sequence of addresses.
Chain ==
  LET at == Trail(head, "next")
      ends == {n \in Steps : at[n] \notin allocated}
  IN IF ends = {} THEN <<>> ELSE [i \in 1 .. Min(ends) |-> at[i - 1]]

\* A sorted doubly linked list: its nodes are distinct, its ends are NULL both
\* ways, previous inverts next, and the cursor is on it.
WellFormed ==
  LET n == Len(Chain) IN
  IF n = 0
  THEN head = NULL /\ last = NULL /\ current = NULL
  ELSE /\ head = Chain[1] /\ last = Chain[n]
       /\ current \in Range(Chain)
       /\ heap[head].previous = NULL /\ heap[last].next = NULL
       /\ \A i \in 1 .. n - 1 :
            /\ heap[Chain[i]].next = Chain[i + 1]
            /\ heap[Chain[i + 1]].previous = Chain[i]
            /\ cid(Chain[i]) <= cid(Chain[i + 1])

\* remove_con_node takes the head away from the cursor's left while at least
\* two nodes follow it.
HeadTakenFromTheRight == head \notin allocated' /\ current # head /\ Len(Chain) > 2

\* Whatever mix of inserts, finds and removes is called, with repeated IDs
\* too, the list stays a sorted list, and no operation on a sound list touches
\* NULL or freed memory or runs forever: only a head taken from its right,
\* when the wrong previous pointer is cleared, spoils it, and only the use of
\* an empty list fails.  A careful caller takes no head that way.
OnlyAHeadTakenFromTheRightBreaksTheList ==
  [][WellFormed =>
       /\ WellFormed' \/ (HeadTakenFromTheRight /\ ~careful)
       /\ fault' # fault => head = NULL /\ fault' = "null"]_vars

\* On a sound list a search from any cursor finds a CID if it is there.
SearchIsComplete ==
  WellFormed /\ current # NULL =>
    \A c \in CIDs : Found(c) <=> \E a \in Range(Chain) : cid(a) = c

\* What the pointers of a careful caller stand for.
IDsInOrder == IF careful THEN [i \in DOMAIN Chain |-> cid(Chain[i])] ELSE <<>>
CursorIndex ==
  IF ~careful \/ current = NULL THEN 0 ELSE CHOOSE i \in DOMAIN Chain : Chain[i] = current

Sequence == INSTANCE ConSequence WITH
  Capacity <- Cardinality(Addrs), list <- IDsInOrder, cursor <- CursorIndex

\* The pointer code of a careful caller implements a sorted sequence of IDs
\* with a cursor.
ImplementsSequence == Sequence!Spec
=============================================================================
