----------------------------- MODULE CommandCall -----------------------------
(***************************************************************************)
(* What Hub.SendCommand promises its callers, without hub, streams or      *)
(* agent: an on-demand command is executed at most once; a caller is told  *)
(* "not delivered" only for a command that has not run and never will; a   *)
(* result handed to a caller is what executing that very command produced; *)
(* and whoever stops waiting learns nothing about whether it ran.          *)
(* hub.go:113-121 words a timeout more strongly, the node had the command: *)
(* a stream that dies with the command still in its buffer ends in a       *)
(* timeout too, so that much is not promised here.                         *)
(***************************************************************************)
CONSTANTS Calls     \* SendCommand calls, each with a command id of its own

VARIABLES
    ran,        \* "no", "running", or the body its execution produced
    told        \* what SendCommand has returned to the caller

Bodies == {"ok", "failed", "unrecognised"}

callVars == <<ran, told>>

CallInit ==
    /\ ran = [c \in Calls |-> "no"]
    /\ told = [c \in Calls |-> "nothing"]

\* The agent starts a command nobody was told is undelivered.
Start(c) ==
    /\ ran[c] = "no"
    /\ told[c] # "not delivered"
    /\ ran' = [ran EXCEPT ![c] = "running"]
    /\ UNCHANGED told

Complete(c) ==
    /\ ran[c] = "running"
    /\ \E body \in Bodies : ran' = [ran EXCEPT ![c] = body]
    /\ UNCHANGED told

Return(c) ==
    /\ told[c] = "nothing"
    /\ \/ ran[c] = "no" /\ told' = [told EXCEPT ![c] = "not delivered"]
       \/ ran[c] \in Bodies /\ told' = [told EXCEPT ![c] = ran[c]]
       \/ \E v \in {"timeout", "cancelled"} : told' = [told EXCEPT ![c] = v]
    /\ UNCHANGED ran

CallNext == \E c \in Calls : Start(c) \/ Complete(c) \/ Return(c)

CallSpec == CallInit /\ [][CallNext]_callVars
=============================================================================
