------------------------------ MODULE Requests ------------------------------
(***************************************************************************)
(* What the service promises to its HTTP clients, without transactions,    *)
(* attempts, store or locks: a request is answered at most once, with what *)
(* the DHCP server has said about that request, or with 408 once its web   *)
(* timeout has expired.  A release is answered with what became of its     *)
(* packet.  The process may die at any time.                               *)
(***************************************************************************)
CONSTANTS LeaseReqs, RenewReqs, ReleaseReqs

Reqs == LeaseReqs \cup RenewReqs \cup ReleaseReqs

VARIABLES
    state,      \* per request: idle, busy, done
    out,        \* HTTP status, 0 before it is answered
    expired,    \* its web timeout has expired, or it was answered
    said,       \* what the DHCP server has said: a set of message types
    packet,     \* the packet of a release: none, sent, failed
    dead        \* the process has died

vars == <<state, out, expired, said, packet, dead>>

Init ==
    /\ state   = [r \in Reqs |-> "idle"]
    /\ out     = [r \in Reqs |-> 0]
    /\ expired = [r \in Reqs |-> FALSE]
    /\ said    = [r \in Reqs |-> {}]
    /\ packet  = [r \in ReleaseReqs |-> "none"]
    /\ dead    = FALSE

Arrive(r) ==
    /\ state[r] = "idle"
    /\ state' = [state EXCEPT ![r] = "busy"]
    /\ UNCHANGED <<out, expired, said, packet, dead>>

Expire(r) ==
    /\ state[r] = "busy"
    /\ expired' = [expired EXCEPT ![r] = TRUE]
    /\ UNCHANGED <<state, out, said, packet, dead>>

\* The DHCP server offers to those who discover, and accepts or refuses
\* the requests of those who renew or have its offer.
Say(r, t) ==
    /\ state[r] # "idle"
    /\ t = "Offer" => r \in LeaseReqs
    /\ t # "Offer" => r \in RenewReqs \/ (r \in LeaseReqs /\ "Offer" \in said[r])
    /\ said' = [said EXCEPT ![r] = @ \cup {t}]
    /\ UNCHANGED <<state, out, expired, packet, dead>>

Transmit(r) ==
    /\ packet[r] = "none"
    /\ \E p \in {"sent", "failed"} : packet' = [packet EXCEPT ![r] = p]
    /\ UNCHANGED <<state, out, expired, said, dead>>

\* The statuses a request may be answered with.
Statuses(r) ==
    IF r \in ReleaseReqs
      THEN (IF packet[r] = "sent" THEN {200} ELSE {}) \cup
           (IF packet[r] = "failed" \/ expired[r] THEN {400} ELSE {})
      ELSE (IF "Ack" \in said[r] THEN {200} ELSE {}) \cup
           (IF "Nak" \in said[r] THEN {406} ELSE {}) \cup
           (IF expired[r] THEN {408} ELSE {})

Respond(r) ==
    /\ state[r] = "busy"
    /\ \E s \in Statuses(r) : out' = [out EXCEPT ![r] = s]
    /\ state'   = [state EXCEPT ![r] = "done"]
    /\ expired' = [expired EXCEPT ![r] = TRUE]
    /\ UNCHANGED <<said, packet, dead>>

Die == dead' = TRUE /\ UNCHANGED <<state, out, expired, said, packet>>

Next ==
    /\ ~dead
    /\ \/ \E r \in Reqs : Arrive(r) \/ Expire(r) \/ Respond(r)
       \/ \E r \in Reqs, t \in {"Offer", "Ack", "Nak"} : Say(r, t)
       \/ \E r \in ReleaseReqs : Transmit(r)
       \/ Die

Spec == Init /\ [][Next]_vars
=============================================================================
