------------------------------ MODULE BrokerSet ------------------------------
(***************************************************************************)
(* What the rest of the client relies on of alive_brokers_, whoever        *)
(* changes it: it starts with brokers of the list, loses them one at a     *)
(* time, and is replaced as a whole by what a broker of the set has        *)
(* answered.  Network implements it with its handlers, and Connections     *)
(* with its descriptors, in many steps for one of these.                   *)
(***************************************************************************)
CONSTANTS Bootstrap,  \* ids of the brokers of the broker list
          Brokers     \* ids of the brokers of the cluster

VARIABLES ready,      \* the constructor is done
          alive       \* ids in alive_brokers_

vars == <<ready, alive>>

Init ==
    \/ ready = FALSE /\ alive = {}
    \/ ready = TRUE /\ alive \in SUBSET Bootstrap

(* Brokers of the list that could not be given a connection are left out. *)
Start ==
    /\ ~ready
    /\ ready' = TRUE
    /\ alive' \in SUBSET Bootstrap

(* A request or its response failed. *)
Erase(b) ==
    /\ ready
    /\ alive' = alive \ {b}
    /\ UNCHANGED ready

(* A broker of the set has named the brokers of the cluster. *)
Refresh ==
    /\ ready
    /\ alive # {}
    /\ alive' \in (SUBSET Brokers) \ {{}}
    /\ UNCHANGED ready

Next ==
    \/ Start
    \/ \E b \in alive : Erase(b)
    \/ Refresh

Spec == Init /\ [][Next]_vars
=============================================================================
