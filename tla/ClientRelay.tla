---------------------------- MODULE ClientRelay ----------------------------
(***************************************************************************)
(* What doorman promises to its clients (doorman/main.cpp:7-9): a client   *)
(* that has connected stays, whatever becomes of the MUD, until it leaves, *)
(* is sent away or doorman itself ends; it is connected to the MUD exactly *)
(* while there is one; and a client that has gone does not come back.      *)
(***************************************************************************)
EXTENDS Naturals

CONSTANT NumClients

Clients == 1 .. NumClients

VARIABLES
    up,      \* is there a MUD that has booted?
    client   \* the stage of each client

relayVars == <<up, client>>

RelayTypeOK ==
    /\ up \in BOOLEAN
    /\ client \in [Clients -> {"absent", "waiting", "connected", "gone"}]

RelayInit ==
    /\ up = FALSE
    /\ client = [k \in Clients |-> "absent"]

Present == {k \in Clients : client[k] \in {"waiting", "connected"}}

Stay(S, stage) ==
    client' = [k \in Clients |-> IF k \in S THEN stage
                                 ELSE IF k \in Present THEN "gone"
                                 ELSE client[k]]

\* A client arrives, and is connected if it can be, or is not taken on at all.
Arrive(k) ==
    /\ client[k] = "absent"
    /\ client' = [client EXCEPT ![k] = IF up THEN "connected" ELSE "waiting"]
    /\ UNCHANGED up

Refuse(k) ==
    /\ client[k] = "absent"
    /\ client' = [client EXCEPT ![k] = "gone"]
    /\ UNCHANGED up

\* Clients leave, or are sent away.
Leave(S) ==
    /\ client' = [k \in Clients |-> IF k \in S THEN "gone" ELSE client[k]]
    /\ UNCHANGED up

\* The MUD is back: everyone who has been waiting is connected at once.
MudUp ==
    /\ ~up
    /\ up' = TRUE
    /\ Stay(Present, "connected")

\* The MUD is gone: all but some that are found gone wait for the next.
MudDown(S) ==
    /\ up
    /\ up' = FALSE
    /\ Stay(S, "waiting")

RelayNext ==
    \/ \E k \in Clients : Arrive(k) \/ Refuse(k)
    \/ \E S \in SUBSET Present : Leave(S) \/ MudDown(S)
    \/ MudUp

RelaySpec == RelayInit /\ [][RelayNext]_relayVars

\* The promise behind "while there is a MUD": nobody waits in vain.  Not part
\* of RelaySpec; it needs the fairness of the processes that implement it.
Reconnects ==
    \A k \in Clients : client[k] = "waiting" ~> client[k] \in {"connected", "gone"}
=============================================================================
