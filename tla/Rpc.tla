-------------------------------- MODULE Rpc --------------------------------
(***************************************************************************)
(* What a server task promises its callers, without slots, buffers or      *)
(* interrupts: a caller has at most one call, the server works on at most  *)
(* one call at a time, and every call it takes gets exactly one reply,     *)
(* made for that call.                                                     *)
(***************************************************************************)
CONSTANTS Caller, Request, None

VARIABLES
    phase,            \* how far each caller's call is
    req,              \* what it asked
    got               \* the request its reply was made for

vars == <<phase, req, got>>

Init ==
    /\ phase = [c \in Caller |-> "idle"]
    /\ req = [c \in Caller |-> None]
    /\ got = [c \in Caller |-> None]

ServerFree == \A c \in Caller : phase[c] # "taken"

(* A waiting server takes the call at once.                                *)
Ask(c, r) ==
    /\ phase[c] = "idle"
    /\ req' = [req EXCEPT ![c] = r]
    /\ \/ phase' = [phase EXCEPT ![c] = "pending"]
       \/ ServerFree /\ phase' = [phase EXCEPT ![c] = "taken"]
    /\ UNCHANGED got

Accept(c) ==
    /\ phase[c] = "pending"
    /\ ServerFree
    /\ phase' = [phase EXCEPT ![c] = "taken"]
    /\ UNCHANGED <<req, got>>

Reply(c) ==
    /\ phase[c] = "taken"
    /\ phase' = [phase EXCEPT ![c] = "answered"]
    /\ got' = [got EXCEPT ![c] = req[c]]
    /\ UNCHANGED req

Return(c) ==
    /\ phase[c] = "answered"
    /\ phase' = [phase EXCEPT ![c] = "idle"]
    /\ got' = [got EXCEPT ![c] = None]
    /\ UNCHANGED req

Next ==
    \E c \in Caller :
        (\E r \in Request : Ask(c, r)) \/ Accept(c) \/ Reply(c) \/ Return(c)

Spec == Init /\ [][Next]_vars

(* The server goes on taking calls, but may prefer some callers for ever.  *)
FairSpec ==
    /\ Spec
    /\ WF_vars(\E c \in Caller : Accept(c))
    /\ \A c \in Caller : WF_vars(Reply(c)) /\ WF_vars(Return(c))
=============================================================================
