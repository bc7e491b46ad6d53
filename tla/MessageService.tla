---------------------------- MODULE MessageService ----------------------------
(***************************************************************************)
(* What the library promises an application: a client asks, the server's   *)
(* client_func gets each request once and in order, and the client         *)
(* receives the answers to its own requests, in order, each after its      *)
(* request was delivered.  A step concerns one client only.                *)
(***************************************************************************)
EXTENDS Integers, Sequences

CONSTANTS Clients, MaxRequests

VARIABLES asked,      \* how many requests each client has made
          delivered,  \* the requests client_func got of it
          received    \* the answers it received

serviceVars == <<asked, delivered, received>>

Init ==
    /\ asked = [c \in Clients |-> 0]
    /\ delivered = [c \in Clients |-> << >>]
    /\ received = [c \in Clients |-> << >>]

Ask(c) ==
    /\ asked[c] < MaxRequests
    /\ asked' = [asked EXCEPT ![c] = @ + 1]
    /\ UNCHANGED <<delivered, received>>

Deliver(c) ==
    /\ Len(delivered[c]) < asked[c]
    /\ delivered' = [delivered EXCEPT ![c] = Append(@, Len(@) + 1)]
    /\ UNCHANGED <<asked, received>>

Receive(c) ==
    /\ Len(received[c]) < Len(delivered[c])
    /\ received' = [received EXCEPT ![c] =
                        Append(@, [asker |-> c, seq |-> Len(@) + 1])]
    /\ UNCHANGED <<asked, delivered>>

Next == \E c \in Clients : Ask(c) \/ Deliver(c) \/ Receive(c)

Spec == Init /\ [][Next]_serviceVars

\* The service answers every request.
Fairness ==
    \A c \in Clients : WF_serviceVars(Deliver(c)) /\ WF_serviceVars(Receive(c))

FairSpec == Spec /\ Fairness
=============================================================================
