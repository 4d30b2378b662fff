---------------------------- MODULE SessionLease ----------------------------
(* What the session locks promise, whatever they are made of: a client is   *)
(* in one session at most, and a session has one client at most.            *)
CONSTANTS Clients, Sessions, None

VARIABLE holds      \* the session each client holds, or None

Init == holds = [c \in Clients |-> None]

Enter(c, s) ==
    /\ \A d \in Clients \ {c} : holds[d] # s
    /\ holds' = [holds EXCEPT ![c] = s]

Leave(c) == holds' = [holds EXCEPT ![c] = None]

Next == \E c \in Clients : Leave(c) \/ \E s \in Sessions : Enter(c, s)

Spec == Init /\ [][Next]_holds
=============================================================================
