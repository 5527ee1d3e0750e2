---------------------------- MODULE NetworkClaims ----------------------------
(* What a comment of network.cc says of the client and the client does not *)
(* do.                                                                     *)
EXTENDS Network

(* "coordinator still up": when REFRESH_METADATA goes straight to          *)
(* JoinGroup, the coordinator is the one the client had before.            *)
CoordinatorStillUp ==
    [][(In("Initial") /\ current_state_' = "JoinGroup") => coordinator_' = coordinator_]_vars
=============================================================================
