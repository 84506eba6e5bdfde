---------------------------- MODULE MessageStore ----------------------------
(***************************************************************************)
(* What the hello device promises its callers: one message, replaced by    *)
(* each write and returned by each read in one indivisible step between    *)
(* the call and its return, and forgotten only when no call is under way   *)
(* (the module is unloaded).                                               *)
(***************************************************************************)
CONSTANTS
  Tasks,
  Requests,        \* records: what is asked (kind) and what a write brings (msg)
  NoRequest        \* a task that has not called yet

VARIABLES
  store,           \* the message
  phase,           \* "idle", "called" (no effect yet) or "done" (effect taken)
  request,
  result           \* what the last call of each task copied out

vars == <<store, phase, request, result>>

Init ==
  /\ store = <<>>
  /\ phase = [t \in Tasks |-> "idle"]
  /\ request = [t \in Tasks |-> NoRequest]
  /\ result = [t \in Tasks |-> <<>>]

Call(t) ==
  /\ phase[t] = "idle"
  /\ phase' = [phase EXCEPT ![t] = "called"]
  /\ \E r \in Requests : request' = [request EXCEPT ![t] = r]
  /\ UNCHANGED <<store, result>>

Effect(t, kinds, newStore, out) ==
  /\ phase[t] = "called"
  /\ request[t].kind \in kinds
  /\ phase' = [phase EXCEPT ![t] = "done"]
  /\ store' = newStore
  /\ result' = [result EXCEPT ![t] = out]
  /\ UNCHANGED request

Read(t) == Effect(t, {"read"}, store, store)

\* A caller whose buffer cannot be written gets nothing.
BlindRead(t) == Effect(t, {"blind"}, store, <<>>)

Write(t) == Effect(t, {"write"}, request[t].msg, <<>>)

\* A request that is neither is answered, and changes nothing.
Ignore(t) == Effect(t, {"other"}, store, <<>>)

Refuse(t) ==
  /\ phase[t] = "called"
  /\ request[t].kind = "bad"
  /\ phase' = [phase EXCEPT ![t] = "idle"]
  /\ result' = [result EXCEPT ![t] = <<>>]
  /\ UNCHANGED <<store, request>>

Return(t) ==
  /\ phase[t] = "done"
  /\ phase' = [phase EXCEPT ![t] = "idle"]
  /\ UNCHANGED <<store, request, result>>

Forget ==
  /\ \A t \in Tasks : phase[t] = "idle"
  /\ store' = <<>>
  /\ UNCHANGED <<phase, request, result>>

Next ==
  \/ \E t \in Tasks : \/ Call(t) \/ Return(t)
                      \/ Read(t) \/ BlindRead(t) \/ Write(t)
                      \/ Ignore(t) \/ Refuse(t)
  \/ Forget

Spec == Init /\ [][Next]_vars
=============================================================================
