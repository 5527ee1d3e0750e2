-------------------------- MODULE ConnectionsClaims --------------------------
(* What a comment of network.cc says of the connections and the code does  *)
(* not do.                                                                 *)
EXTENDS MCConnections

(* "This may happen when broker down", over the continue of                *)
(* ConnectNewBroker: a broker whose connect failed is left without a       *)
(* descriptor.                                                             *)
DownBrokerHasNoFd ==
    [][\A id \in todo_ :
        (step_ = "connect" /\ id \notin todo_' /\ socket_' = socket_)
            => updated_brokers_'[id] < 0]_vars
=============================================================================
