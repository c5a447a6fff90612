---------------------------- MODULE Transmission ----------------------------
(***************************************************************************)
(* What Connection.Send and Connection.Block promise, without goroutines,  *)
(* channels, mutex and deadlines: a packet is transmitted at most once and *)
(* never while traffic is blocked; a caller is told "ok" only of a packet  *)
(* that was transmitted, "error" only when it never will be or when the    *)
(* caller's context has ended.                                             *)
(***************************************************************************)
CONSTANTS Sends, Blocks

VARIABLES
    caller,     \* per send: idle, select, ok, error, ctx
    ended,      \* contexts that have ended
    wire,       \* sends whose packet has been transmitted
    failed,     \* sends whose packet never will be
    blocking    \* blocks in force

vars == <<caller, ended, wire, failed, blocking>>

Init ==
    /\ caller = [s \in Sends |-> "idle"]
    /\ ended = {} /\ wire = {} /\ failed = {} /\ blocking = {}

Begin(s) ==
    /\ caller[s] = "idle"
    /\ caller' = [caller EXCEPT ![s] = "select"]
    /\ UNCHANGED <<ended, wire, failed, blocking>>

Transmit(s) ==
    /\ caller[s] # "idle"
    /\ s \notin wire \cup failed
    /\ blocking = {}
    /\ wire' = wire \cup {s}
    /\ UNCHANGED <<caller, ended, failed, blocking>>

Fail(s) ==
    /\ caller[s] # "idle"
    /\ s \notin wire
    /\ failed' = failed \cup {s}
    /\ UNCHANGED <<caller, ended, wire, blocking>>

Report(s) ==
    /\ caller[s] = "select"
    /\ \E c \in {"ok", "error", "ctx"} :
          /\ c = "ok" => s \in wire
          /\ c = "error" => s \in failed \cup ended
          /\ c = "ctx" => s \in ended
          /\ caller' = [caller EXCEPT ![s] = c]
    /\ UNCHANGED <<ended, wire, failed, blocking>>

\* One block at a time.
Start(b) ==
    /\ blocking = {}
    /\ blocking' = {b}
    /\ UNCHANGED <<caller, ended, wire, failed>>

Finish(b) ==
    /\ b \in blocking
    /\ b \in ended
    /\ blocking' = blocking \ {b}
    /\ UNCHANGED <<caller, ended, wire, failed>>

End(p) ==
    /\ ended' = ended \cup {p}
    /\ UNCHANGED <<caller, wire, failed, blocking>>

Next ==
    \/ \E s \in Sends : Begin(s) \/ Transmit(s) \/ Fail(s) \/ Report(s)
    \/ \E b \in Blocks : Start(b) \/ Finish(b)
    \/ \E p \in Sends \cup Blocks : End(p)

Spec == Init /\ [][Next]_vars
=============================================================================
