----------------------------- MODULE Connections -----------------------------
(***************************************************************************)
(* The connections of the client: the descriptors alive_brokers_ holds,    *)
(* against the kernel's table of open sockets.  The broker list opens the  *)
(* first ones, a request that fails closes one, and RefreshAliveBrokers    *)
(* reuses, opens and closes them after a metadata response.                *)
(*                                                                         *)
(* The kernel gives the lowest free descriptor, so a number the client     *)
(* still holds after closing it comes back as another connection.  Whether *)
(* a connect succeeds is the cluster's choice.                             *)
(***************************************************************************)
EXTENDS Integers, FiniteSets

CONSTANTS Bootstrap,   \* ids of the brokers of the broker list
          Brokers,     \* ids of the brokers of the cluster
          Server(_),   \* the broker an id's address leads to
          Ip(_),       \* the ip of a broker
          MaxFd,       \* descriptors are 3 .. MaxFd; beyond, socket() fails
          Closed       \* a descriptor that is not open

ASSUME FdAssumption == MaxFd \in Nat /\ MaxFd >= 3
ASSUME IdsAssumption == Bootstrap \cap Brokers = {} /\ Closed \notin Brokers
ASSUME ServerAssumption ==
    /\ \A id \in Bootstrap : Server(id) \in Brokers
    /\ \A id \in Brokers : Server(id) = id

Ids  == Bootstrap \cup Brokers
Fds  == 3 .. MaxFd
NoFd == -1

VARIABLES step_,            \* where the client is in the constructor or RefreshAliveBrokers
          todo_,            \* ids the current loop has still to visit
          alive_brokers_,   \* id -> fd_ of its Broker
          updated_brokers_, \* the same for the metadata response's brokers
          socket_,          \* the kernel: the broker at the other end of each descriptor
          connectFailed,    \* history: a connect has failed
          sharedFd          \* history: a broker got the descriptor of another on its ip

vars == <<step_, todo_, alive_brokers_, updated_brokers_, socket_, connectFailed, sharedFd>>

NoBrokers == [id \in {} |-> NoFd]
Open      == {fd \in Fds : socket_[fd] # Closed}
Alive     == DOMAIN alive_brokers_
Held      == {alive_brokers_[id] : id \in Alive}
Collected == {updated_brokers_[id] : id \in DOMAIN updated_brokers_}
-----------------------------------------------------------------------------
Init ==
    /\ step_ = "construct"
    /\ todo_ = Bootstrap
    /\ alive_brokers_ = NoBrokers
    /\ updated_brokers_ = NoBrokers
    /\ socket_ = [fd \in Fds |-> Closed]
    /\ connectFailed = FALSE
    /\ sharedFd = FALSE

(* NetUtil::NewTcpClient, given back as fd.  The descriptor of a failed    *)
(* connect is closed, but the variable keeps it: the loop ends, and the    *)
(* number is returned.  Only when socket() itself fails ten times is the   *)
(* result negative.                                                        *)
NewTcpClient(server, fd) ==
    IF Open = Fds
    THEN fd = NoFd /\ UNCHANGED <<socket_, connectFailed>>
    ELSE /\ fd \in Fds \ Open
         /\ \A other \in Fds \ Open : fd <= other
         /\ \/ socket_' = [socket_ EXCEPT ![fd] = server] /\ UNCHANGED connectFailed
            \/ connectFailed' = TRUE /\ UNCHANGED socket_

(* close(2), of a descriptor that may not be open. *)
CloseAll(fds) == [fd \in Fds |-> IF fd \in fds THEN Closed ELSE socket_[fd]]

(* Network::Network: one broker of the list. *)
Construct(id) ==
    /\ step_ = "construct"
    /\ id \in todo_
    /\ \E fd \in Fds \cup {NoFd} :
        /\ NewTcpClient(Server(id), fd)
        /\ alive_brokers_' = IF fd < 0 THEN alive_brokers_
                             ELSE [b \in Alive \cup {id} |->
                                    IF b = id THEN fd ELSE alive_brokers_[b]]
    /\ todo_' = todo_ \ {id}
    /\ step_' = (IF todo_' = {} THEN "idle" ELSE "construct")
    /\ UNCHANGED <<updated_brokers_, sharedFd>>

(* Fault: the descriptor is closed, but the broker is not erased. *)
FailureKeepsBroker(id) ==
    /\ step_ = "idle"
    /\ id \in Alive
    /\ socket_' = CloseAll({alive_brokers_[id]})
    /\ UNCHANGED <<step_, todo_, alive_brokers_, updated_brokers_, connectFailed, sharedFd>>

(* SendRequestHandler and ReceiveResponseHandler: the exchange with a      *)
(* broker fails; its descriptor is closed and the broker erased.           *)
ExchangeFails(id) ==
    /\ step_ = "idle"
    /\ id \in Alive
    /\ socket_' = CloseAll({alive_brokers_[id]})
    /\ alive_brokers_' = [b \in Alive \ {id} |-> alive_brokers_[b]]
    /\ UNCHANGED <<step_, todo_, updated_brokers_, connectFailed, sharedFd>>

(* Fault: the brokers of the response are added to the ones known before. *)
RefreshAddsBrokers(ids) ==
    /\ step_ = "idle"
    /\ \E id \in Alive : alive_brokers_[id] \in Open
    /\ ids # {}
    /\ updated_brokers_' = [id \in ids \cup Alive |-> NoFd]
    /\ todo_' = ids \cup Alive
    /\ step_' = "reuse"
    /\ UNCHANGED <<alive_brokers_, socket_, connectFailed, sharedFd>>

(* A metadata response, which somebody has to have answered. *)
RefreshAliveBrokers(ids) ==
    /\ step_ = "idle"
    /\ \E id \in Alive : alive_brokers_[id] \in Open
    /\ ids # {}
    /\ updated_brokers_' = [id \in ids |-> NoFd]
    /\ todo_' = ids
    /\ step_' = "reuse"
    /\ UNCHANGED <<alive_brokers_, socket_, connectFailed, sharedFd>>

(* GetFdFromIp: the first broker found with the ip of server, in the order *)
(* the map is iterated.                                                    *)
FdsFromIp(server) ==
    LET found == {alive_brokers_[id] : id \in {b \in Alive : Ip(Server(b)) = Ip(server)}}
    IN  IF found = {} THEN {NoFd} ELSE found

(* The first loop of RefreshAliveBrokers. *)
Reuse(id) ==
    /\ step_ = "reuse"
    /\ id \in todo_
    /\ \E fd \in FdsFromIp(id) :
        /\ updated_brokers_' = [updated_brokers_ EXCEPT ![id] = fd]
        /\ sharedFd' = (sharedFd \/ \E b \in Alive :
                alive_brokers_[b] = fd /\ fd # NoFd /\ Server(b) # id)
    /\ todo_' = todo_ \ {id}
    /\ step_' = "reuse"
    /\ UNCHANGED <<alive_brokers_, socket_, connectFailed>>

ToConnect ==
    /\ step_ = "reuse" /\ todo_ = {}
    /\ step_' = "connect"
    /\ todo_' = {id \in DOMAIN updated_brokers_ : updated_brokers_[id] <= 0}
    /\ UNCHANGED <<alive_brokers_, updated_brokers_, socket_, connectFailed, sharedFd>>

(* Fault: broker is a copy of the entry in the map, not a reference to it. *)
ConnectForgets(id) ==
    /\ step_ = "connect"
    /\ id \in todo_
    /\ \E fd \in Fds \cup {NoFd} : NewTcpClient(id, fd)
    /\ todo_' = todo_ \ {id}
    /\ UNCHANGED <<step_, alive_brokers_, updated_brokers_, sharedFd>>

(* ConnectNewBroker *)
Connect(id) ==
    /\ step_ = "connect"
    /\ id \in todo_
    /\ \E fd \in Fds \cup {NoFd} :
        /\ NewTcpClient(id, fd)
        /\ updated_brokers_' = [updated_brokers_ EXCEPT ![id] = fd]
    /\ todo_' = todo_ \ {id}
    /\ UNCHANGED <<step_, alive_brokers_, sharedFd>>

(* DisconnectDownBroker, and the assignment of the map.  Ids of the broker *)
(* list are negative and skipped.                                          *)
Disconnect ==
    /\ step_ = "connect" /\ todo_ = {}
    /\ socket_' = CloseAll({alive_brokers_[id] : id \in (Alive \ Bootstrap) \ DOMAIN updated_brokers_})
    /\ alive_brokers_' = updated_brokers_
    /\ updated_brokers_' = NoBrokers
    /\ step_' = "idle"
    /\ UNCHANGED <<todo_, connectFailed, sharedFd>>

(* Without a broker that answers the client asks for metadata for ever. *)
Stuck ==
    /\ step_ = "idle" /\ Alive = {}
    /\ UNCHANGED vars

Next ==
    \/ \E id \in todo_ : Construct(id) \/ Reuse(id) \/ Connect(id)
    \/ \E id \in Alive : ExchangeFails(id)
    \/ \E ids \in SUBSET Brokers : RefreshAliveBrokers(ids)
    \/ ToConnect
    \/ Disconnect
    \/ Stuck

Spec == Init /\ [][Next]_vars

-----------------------------------------------------------------------------
TypeOK ==
    /\ step_ \in {"construct", "idle", "reuse", "connect"}
    /\ todo_ \in SUBSET Ids
    /\ Alive \in SUBSET Ids
    /\ Held \in SUBSET (Fds \cup {NoFd})
    /\ DOMAIN updated_brokers_ \in SUBSET Brokers
    /\ \A id \in DOMAIN updated_brokers_ : updated_brokers_[id] \in Fds \cup {NoFd}
    /\ socket_ \in [Fds -> Brokers \cup {Closed}]
    /\ connectFailed \in BOOLEAN /\ sharedFd \in BOOLEAN

(* As long as every connect has succeeded and no broker was given the      *)
(* descriptor of another one on its ip, the descriptor of a broker in      *)
(* alive_brokers_ is a connection to that broker: a request never reaches, *)
(* and a failure never closes, the connection of another one.              *)
OwnConnection ==
    (step_ = "idle" /\ ~connectFailed /\ ~sharedFd) =>
        \A id \in Alive : alive_brokers_[id] # NoFd => socket_[alive_brokers_[id]] = Server(id)

(* Open sockets that neither map knows of. *)
Leaked == Open \ (Held \cup Collected)

OnlyOneOnItsIp(id) ==
    \A other \in Alive : Ip(Server(other)) = Ip(Server(id)) => other = id

(* An open connection is lost, from the time it is opened, in two ways     *)
(* only, and both when a refresh assigns alive_brokers_: it is of the      *)
(* broker list, and no broker of the response has its ip; or its ip is     *)
(* that of another connection, and GetFdFromIp has found that one.         *)
LossesKnown ==
    [][\A fd \in Leaked' \ Leaked :
        /\ step_ = "connect" /\ step_' = "idle"
        /\ \E id \in Alive :
            /\ alive_brokers_[id] = fd
            /\ \/ id \in Bootstrap /\ \A b \in DOMAIN updated_brokers_ : Ip(b) # Ip(Server(id))
               \/ ~OnlyOneOnItsIp(id)]_vars

BrokerSet == INSTANCE BrokerSet WITH
                ready <- step_ # "construct",
                alive <- IF step_ = "construct" THEN {} ELSE Alive

(* The loops of the constructor, of RefreshAliveBrokers and of             *)
(* ConnectNewBroker, with connections that cannot be opened, are together  *)
(* the single steps of BrokerSet.                                          *)
BrokersAsPromised == BrokerSet!Spec
=============================================================================
