------------------------------ MODULE LinkList ------------------------------
(***************************************************************************)
(* The doubly linked list of linklist/linklist.c.  add_first and add_last  *)
(* set only one of the two links between neighbours, and remove_node sets  *)
(* one of two as well, so each end works alone and few mixtures do.        *)
(*                                                                         *)
(* malloc is external: it returns any address that is not allocated.  What *)
(* is not allocated or leaked is never read, and is kept blank here.  A    *)
(* step that would dereference NULL or freed memory or that never ends     *)
(* sets fault, and the model stops.                                        *)
(***************************************************************************)
EXTENDS Naturals, Sequences, FiniteSets, FiniteSetsExt

CONSTANTS
  Addrs,       \* addresses malloc may return
  NULL,
  Indexes,
  Habits       \* the sets of functions callers keep to

Operations == {"add_first", "add_last", "insert_after", "insert_before",
               "remove_first", "remove_last", "remove_node", "find_node"}

ASSUME LinkListAssumption ==
  /\ IsFiniteSet(Addrs) /\ NULL \notin Addrs
  /\ Indexes # {}
  /\ Habits \subseteq SUBSET Operations

VARIABLES
  heap,        \* struct Node of each address
  allocated,
  head_node, last_node,
  fault,       \* "none", or how the program failed
  used         \* the functions the callers of this run keep to

vars == <<heap, allocated, head_node, last_node, fault, used>>

Pointer == Addrs \cup {NULL}
Node(i, p, n) == [index |-> i, previous |-> p, next |-> n]
Nodes == [index : Indexes, previous : Pointer, next : Pointer]

Blank == Node(CHOOSE i \in Indexes : TRUE, NULL, NULL)

Init ==
  /\ heap = [a \in Addrs |-> Blank]
  /\ allocated = {}
  /\ head_node = NULL /\ last_node = NULL
  /\ fault = "none"
  /\ used \in Habits

\* The node reached by following one link n times from a; it stays at the
\* first pointer that leads to no node.
Trail(a, link) ==
  LET at[n \in 0 .. Cardinality(Addrs)] ==
        IF n = 0 THEN a
        ELSE IF at[n - 1] \in allocated THEN heap[at[n - 1]][link] ELSE at[n - 1]
  IN  at

Endless == "endless"

\* while (temp->index != i) with a way out at the last node: where it leaves,
\* which is no allocated node when the walk goes wrong.
Walk(i) ==
  LET at == Trail(head_node, "next")
      ends == {n \in DOMAIN at : \/ at[n] \notin allocated
                                 \/ heap[at[n]].index = i
                                 \/ heap[at[n]].next = NULL}
  IN  IF ends = {} THEN Endless ELSE at[Min(ends)]

Crash(p) ==
  /\ p \notin allocated
  /\ fault' = IF p = NULL THEN "null" ELSE IF p = Endless THEN "hang" ELSE "freed"
  /\ UNCHANGED <<heap, allocated, head_node, last_node>>

Malloc(a) == a \in Addrs \ allocated /\ allocated' = allocated \cup {a}

\* free(a), with the memory as it is but for a.
Free(a, memory) ==
  /\ allocated' = allocated \ {a}
  /\ heap' = [memory EXCEPT ![a] = Blank]

-----------------------------------------------------------------------------
\* Mutated form of add_first: head_node is moved before it is linked to.
AddFirstSelf(a, i) ==
  /\ Malloc(a)
  /\ heap' = [heap EXCEPT ![a] = Node(i, NULL, IF head_node = NULL THEN NULL ELSE a)]
  /\ head_node' = a
  /\ last_node' = IF head_node = NULL THEN a ELSE last_node
  /\ UNCHANGED fault

add_first(a, i) ==
  /\ Malloc(a)
  /\ heap' = [heap EXCEPT ![a] = Node(i, NULL, head_node)]
  /\ head_node' = a
  /\ last_node' = IF head_node = NULL THEN a ELSE last_node
  /\ UNCHANGED fault

\* Mutated form of add_last: last_node is moved before it is linked to.
AddLastSelf(a, i) ==
  /\ Malloc(a)
  /\ heap' = [heap EXCEPT ![a] = Node(i, IF last_node = NULL THEN NULL ELSE a, NULL)]
  /\ last_node' = a
  /\ head_node' = IF last_node = NULL THEN a ELSE head_node
  /\ UNCHANGED fault

add_last(a, i) ==
  /\ Malloc(a)
  /\ heap' = [heap EXCEPT ![a] = Node(i, last_node, NULL)]
  /\ last_node' = a
  /\ head_node' = IF last_node = NULL THEN a ELSE head_node
  /\ UNCHANGED fault

\* The node an insertion into an empty list leaves, its index never set.
InsertFirst(a, u) ==
  /\ head_node = NULL
  /\ Malloc(a)
  /\ heap' = [heap EXCEPT ![a] = Node(u, NULL, NULL)]
  /\ head_node' = a /\ last_node' = a
  /\ UNCHANGED fault

\* location is not in the list: the new node is leaked.
InsertNowhere(a, location) ==
  LET temp1 == Walk(location)
  IN  /\ head_node # NULL
      /\ temp1 \in allocated /\ heap[temp1].index # location
      /\ Malloc(a)
      /\ UNCHANGED <<heap, head_node, last_node, fault>>

\* Between temp1, where location was found, and its neighbour by a link; back
\* is the other link.
InsertBeside(a, u, location, link, back) ==
  LET temp1 == Walk(location)
      temp2 == heap[temp1][link]
  IN  /\ head_node # NULL
      /\ \/ Crash(temp1)
         \/ /\ temp1 \in allocated /\ heap[temp1].index = location
            /\ \/ Crash(temp2)
               \/ /\ temp2 \in allocated
                  /\ Malloc(a)
                  /\ heap' = [heap EXCEPT
                       ![a] = [Node(u, NULL, NULL) EXCEPT ![link] = temp2, ![back] = temp1],
                       ![temp1][link] = a, ![temp2][back] = a]
                  /\ UNCHANGED <<head_node, last_node, fault>>

insert_after(a, u, location) ==
  \/ InsertFirst(a, u) \/ InsertNowhere(a, location)
  \/ InsertBeside(a, u, location, "next", "previous")

insert_before(a, u, location) ==
  \/ InsertFirst(a, u) \/ InsertNowhere(a, location)
  \/ InsertBeside(a, u, location, "previous", "next")

-----------------------------------------------------------------------------
\* Both links equal: taken for the only node.
RemoveOnly(temp) ==
  /\ heap[temp].previous = heap[temp].next
  /\ head_node' = NULL /\ last_node' = NULL
  /\ Free(temp, heap)
  /\ UNCHANGED fault

\* Mutated form of remove_first: the new head keeps its link to the old.
RemoveFirstDangling ==
  /\ head_node # NULL
  /\ \/ Crash(head_node)
     \/ /\ head_node \in allocated
        /\ \/ RemoveOnly(head_node)
           \/ /\ heap[head_node].previous # heap[head_node].next
              /\ head_node' = heap[head_node].next
              /\ Free(head_node, heap)
              /\ UNCHANGED <<last_node, fault>>

remove_first ==
  LET new == heap[head_node].next
  IN  /\ head_node # NULL
      /\ \/ Crash(head_node)
         \/ /\ head_node \in allocated
            /\ \/ RemoveOnly(head_node)
               \/ /\ heap[head_node].previous # new
                  /\ \/ Crash(new)
                     \/ /\ new \in allocated
                        /\ head_node' = new
                        /\ Free(head_node, [heap EXCEPT ![new].previous = NULL])
                        /\ UNCHANGED <<last_node, fault>>

remove_last ==
  LET new == heap[last_node].previous
  IN  /\ last_node # NULL
      /\ \/ Crash(last_node)
         \/ /\ last_node \in allocated
            /\ \/ RemoveOnly(last_node)
               \/ /\ heap[last_node].next # new
                  /\ \/ Crash(new)
                     \/ /\ new \in allocated
                        /\ last_node' = new
                        /\ Free(last_node, [heap EXCEPT ![new].next = NULL])
                        /\ UNCHANGED <<head_node, fault>>

\* Removing the head drops the whole list; removing another node mends the
\* link to it from the left only, and never moves last_node.
remove_node(i) ==
  LET temp == Walk(i)
      left == heap[temp].previous
  IN  /\ head_node # NULL
      /\ \/ Crash(temp)
         \/ /\ temp \in allocated /\ heap[temp].index = i
            /\ \/ /\ temp = head_node
                  /\ head_node' = NULL /\ last_node' = NULL
                  /\ Free(temp, heap)
                  /\ UNCHANGED fault
               \/ /\ temp # head_node /\ Crash(left)
               \/ /\ temp # head_node /\ left \in allocated
                  /\ Free(temp, [heap EXCEPT ![left].next = heap[temp].next])
                  /\ UNCHANGED <<head_node, last_node, fault>>

\* It changes nothing but may fail.
find_node(i) == head_node # NULL /\ Crash(Walk(i))

\* malloc fails, and none of the four callers looks.
OutOfMemory ==
  /\ allocated = Addrs
  /\ used \cap {"add_first", "add_last", "insert_after", "insert_before"} # {}
  /\ fault' = "memory"
  /\ UNCHANGED <<heap, allocated, head_node, last_node>>

Next ==
  /\ fault = "none"
  /\ \/ \E a \in Addrs, i \in Indexes :
          \/ "add_first" \in used /\ add_first(a, i)
          \/ "add_last" \in used /\ add_last(a, i)
          \/ "insert_after" \in used /\ \E u \in Indexes : insert_after(a, u, i)
          \/ "insert_before" \in used /\ \E u \in Indexes : insert_before(a, u, i)
     \/ "remove_first" \in used /\ remove_first
     \/ "remove_last" \in used /\ remove_last
     \/ \E i \in Indexes :
          \/ "remove_node" \in used /\ remove_node(i)
          \/ "find_node" \in used /\ find_node(i)
     \/ OutOfMemory
  /\ UNCHANGED used

Spec == Init /\ [][Next]_vars

-----------------------------------------------------------------------------
\* The nodes met from a along a link, if that ends at NULL.
Chain(a, link) ==
  LET at == Trail(a, link)
      n == Min({k \in DOMAIN at : at[k] \notin allocated} \cup {Cardinality(Addrs)})
  IN  [k \in 1 .. n |-> at[k - 1]]
Ends(a, link) == Trail(a, link)[Cardinality(Addrs)] = NULL

\* The list reads the same both ways.
Sound ==
  LET there == Chain(head_node, "next")
      back == Chain(last_node, "previous")
      n == Len(there)
  IN  /\ Ends(head_node, "next") /\ Ends(last_node, "previous")
      /\ Len(back) = n /\ \A k \in 1 .. n : back[k] = there[n + 1 - k]

\* A list that reads the same both ways fails and is spoilt only so.
SpoiltByFew ==
  Sound =>
    /\ fault' \in {"null", "freed", "hang"} =>
         /\ ~remove_first /\ ~remove_last
         /\ \A i \in Indexes :
              /\ ~remove_node(i) /\ ~find_node(i)
              /\ \A a \in Addrs, u \in Indexes :
                   /\ insert_after(a, u, i) => Walk(i) = last_node
                   /\ insert_before(a, u, i) => Walk(i) = head_node
    /\ ~Sound' =>
         \/ \E a \in Addrs, i \in Indexes :
              head_node # NULL /\ (add_first(a, i) \/ add_last(a, i))
         \/ \E i \in Indexes : remove_node(i)

\* On a list that reads the same both ways no removal and no search can fail,
\* and an insertion only beyond one of the ends (linklist.c:74 and 103).  Only
\* an addition at an end of a list with nodes (lines 28 and 45) and
\* remove_node (lines 160 and 163) can spoil such a list.
SoundListsAreSpoiltByFew == [][SpoiltByFew]_vars

Indices(nodes) == [k \in DOMAIN nodes |-> heap[nodes[k]].index]

KeepTo(names) == used # {} /\ used \subseteq names
AtFirst == KeepTo({"add_first", "remove_first", "find_node"})
AtLast == KeepTo({"add_last", "remove_last"})

\* What the list is to such a caller.
FirstIndices == IF AtFirst THEN Indices(Chain(head_node, "next")) ELSE <<>>
LastIndices == IF AtLast THEN Indices(Chain(last_node, "previous")) ELSE <<>>

FirstStack == INSTANCE IndexStack WITH stack <- FirstIndices
LastStack == INSTANCE IndexStack WITH stack <- LastIndices

\* A caller that keeps to add_first, remove_first and find_node has a stack
\* that fails only for want of memory, although no previous link is ever right.
ImplementsFirstStack ==
  FirstStack!Spec /\ [](AtFirst => fault \in {"none", "memory"})

\* A caller that keeps to add_last and remove_last has a stack that fails only
\* for want of memory, although head_node never moves.
ImplementsLastStack ==
  LastStack!Spec /\ [](AtLast => fault \in {"none", "memory"})

\* Each end of the list, used alone, is a stack.
ImplementsStacks == ImplementsFirstStack /\ ImplementsLastStack
=============================================================================
