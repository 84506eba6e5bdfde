---------------------------- MODULE IndexStack -----------------------------
(* What one end of the list of linklist/linklist.c promises to a caller    *)
(* that uses no other: a stack.                                            *)
EXTENDS Sequences

CONSTANT Indexes
VARIABLE stack       \* the last pushed comes first

Init == stack = <<>>

Push(i) == stack' = <<i>> \o stack
Pop == stack # <<>> /\ stack' = Tail(stack)

Next == Pop \/ \E i \in Indexes : Push(i)

Spec == Init /\ [][Next]_stack
=============================================================================
