---------------------------- MODULE MCConnections ----------------------------
(* Connections with brokers 1 .. 3 behind two ids of the broker list, for  *)
(* TLC.                                                                    *)
EXTENDS Connections

CONSTANTS s1, s2

(* s1 and s2 are the addresses of brokers 1 and 2. *)
MCServer(id) == CASE id = s1 -> 1 [] id = s2 -> 2 [] OTHER -> id

(* 2 and 3 run on one host, at different ports. *)
MCIp(broker) == IF broker = 3 THEN 2 ELSE broker
=============================================================================
