-------------------------- MODULE ConnectionsProofs --------------------------
(***************************************************************************)
(* Theorems of Connections, for every value of its constants.              *)
(*                                                                         *)
(* That a descriptor in alive_brokers_ is a connection to its broker is    *)
(* not inductive: a failure must not close a descriptor two brokers share, *)
(* and what a refresh collects in updated_brokers_ must be true of the     *)
(* sockets too.  That connections are lost only in the known ways needs    *)
(* what the loop over the response has found for a broker it has visited.  *)
(* Nothing is assumed of the ips: brokers may share them.                  *)
(***************************************************************************)
EXTENDS Connections, TLAPS

USE FdAssumption, IdsAssumption, ServerAssumption DEF Fds, NoFd, Ids, Alive

-----------------------------------------------------------------------------
(* Type correctness *)

(* In the constructor only ids of the list are left to visit, each once,   *)
(* in a refresh only brokers of the response, which nothing is collected   *)
(* for otherwise; the loops of a refresh visit those that have nothing.    *)
TodoOK ==
    /\ step_ \in {"construct", "idle"} => DOMAIN updated_brokers_ = {}
    /\ step_ = "construct" => todo_ \subseteq Bootstrap /\ todo_ \cap Alive = {}
    /\ step_ \in {"reuse", "connect"} => todo_ \subseteq DOMAIN updated_brokers_
    /\ step_ \in {"reuse", "connect"} => \A id \in todo_ : updated_brokers_[id] = NoFd

Inv == TypeOK /\ TodoOK

LEMMA NewTcpClientType ==
    ASSUME TypeOK, NEW server \in Brokers, NEW fd, NewTcpClient(server, fd)
    PROVE  /\ socket_' \in [Fds -> Brokers \cup {Closed}]
           /\ connectFailed' \in BOOLEAN
           /\ fd \in Fds \cup {NoFd}
<1>1. CASE Open = Fds
  BY <1>1 DEF TypeOK, NewTcpClient
<1>2. CASE Open # Fds
  <2>1. fd \in Fds
    BY <1>2 DEF NewTcpClient
  <2>2. \/ socket_' = [socket_ EXCEPT ![fd] = server] /\ UNCHANGED connectFailed
        \/ connectFailed' = TRUE /\ UNCHANGED socket_
    BY <1>2 DEF NewTcpClient
  <2>3. socket_' \in [Fds -> Brokers \cup {Closed}]
    <3>1. socket_ \in [Fds -> Brokers \cup {Closed}]
      BY DEF TypeOK
    <3>2. [socket_ EXCEPT ![fd] = server] \in [Fds -> Brokers \cup {Closed}]
      BY <3>1
    <3>3. QED
      BY <2>2, <3>1, <3>2
  <2>4. connectFailed' \in BOOLEAN
    BY <2>2 DEF TypeOK
  <2>5. QED
    BY <2>1, <2>3, <2>4
<1>3. QED
  BY <1>1, <1>2

LEMMA CloseAllType ==
    ASSUME TypeOK, NEW fds PROVE CloseAll(fds) \in [Fds -> Brokers \cup {Closed}]
BY DEF TypeOK, CloseAll

LEMMA ServerType == ASSUME NEW id \in Ids PROVE Server(id) \in Brokers
OBVIOUS

LEMMA FdsFromIpType ==
    ASSUME TypeOK, NEW server PROVE FdsFromIp(server) \subseteq Fds \cup {NoFd}
BY DEF TypeOK, FdsFromIp, Held

LEMMA HeldType ==
    ASSUME TypeOK, NEW id \in Bootstrap, NEW fd \in Fds \cup {NoFd},
           alive_brokers_' = IF fd < 0 THEN alive_brokers_
                             ELSE [b \in Alive \cup {id} |->
                                    IF b = id THEN fd ELSE alive_brokers_[b]]
    PROVE  Alive' \in SUBSET Ids /\ Held' \in SUBSET (Fds \cup {NoFd})
<1>1. \A b \in Alive : b \in Ids /\ alive_brokers_[b] \in Fds \cup {NoFd}
  BY DEF TypeOK, Held
<1>2. \A b \in Alive' : b \in Ids /\ alive_brokers_'[b] \in Fds \cup {NoFd}
  BY <1>1
<1>3. Held' \subseteq Fds \cup {NoFd}
  BY ONLY <1>2 DEF Held
<1>4. Alive' \subseteq Ids
  BY ONLY <1>2
<1>5. QED
  BY <1>3, <1>4

LEMMA InvStep == Inv /\ [Next]_vars => Inv'
<1> SUFFICES ASSUME Inv, [Next]_vars PROVE Inv'
  OBVIOUS
<1> USE DEF Inv, TodoOK
<1>1. ASSUME NEW id \in todo_, Construct(id) PROVE Inv'
  <2>1. PICK fd \in Fds \cup {NoFd} :
            /\ NewTcpClient(Server(id), fd)
            /\ alive_brokers_' = IF fd < 0 THEN alive_brokers_
                                 ELSE [b \in Alive \cup {id} |->
                                        IF b = id THEN fd ELSE alive_brokers_[b]]
    BY <1>1 DEF Construct
  <2>2. id \in Bootstrap /\ Server(id) \in Brokers
    BY <1>1 DEF Construct
  <2>3. socket_' \in [Fds -> Brokers \cup {Closed}] /\ connectFailed' \in BOOLEAN
    BY <2>1, <2>2, NewTcpClientType
  <2>4. Alive' \in SUBSET Ids /\ Held' \in SUBSET (Fds \cup {NoFd})
    BY <2>1, <2>2, HeldType
  <2>5. QED
    BY <1>1, <2>3, <2>4 DEF TypeOK, Construct
<1>2. ASSUME NEW id \in Alive, ExchangeFails(id) PROVE Inv'
  <2>1. Alive' \in SUBSET Ids /\ Held' \in SUBSET (Fds \cup {NoFd})
    BY <1>2 DEF TypeOK, Held, ExchangeFails
  <2>2. QED
    BY <1>2, <2>1, CloseAllType DEF TypeOK, ExchangeFails
<1>3. ASSUME NEW ids \in SUBSET Brokers, RefreshAliveBrokers(ids) PROVE Inv'
  BY <1>3 DEF TypeOK, Held, RefreshAliveBrokers
<1>4. ASSUME NEW id \in todo_, Reuse(id) PROVE Inv'
  <2>1. PICK fd \in FdsFromIp(id) : updated_brokers_' = [updated_brokers_ EXCEPT ![id] = fd]
    BY <1>4 DEF Reuse
  <2>2. fd \in Fds \cup {NoFd}
    BY FdsFromIpType
  <2>3. QED
    BY <1>4, <2>1, <2>2 DEF TypeOK, Held, Reuse
<1>5. CASE ToConnect
  BY <1>5 DEF TypeOK, Held, ToConnect
<1>6. ASSUME NEW id \in todo_, Connect(id) PROVE Inv'
  <2>1. PICK fd \in Fds \cup {NoFd} :
            NewTcpClient(id, fd) /\ updated_brokers_' = [updated_brokers_ EXCEPT ![id] = fd]
    BY <1>6 DEF Connect
  <2>2. id \in Brokers
    BY <1>6 DEF TypeOK, Connect
  <2>3. socket_' \in [Fds -> Brokers \cup {Closed}] /\ connectFailed' \in BOOLEAN
    BY <2>1, <2>2, NewTcpClientType
  <2>4. QED
    BY <1>6, <2>1, <2>3 DEF TypeOK, Held, Connect
<1>7. CASE Disconnect
  <2>1. Alive' \in SUBSET Ids /\ Held' \in SUBSET (Fds \cup {NoFd})
    BY <1>7 DEF TypeOK, Held, Disconnect
  <2>2. QED
    BY <1>7, <2>1, CloseAllType DEF TypeOK, Disconnect, NoBrokers
<1>8. CASE UNCHANGED vars
  BY <1>8 DEF TypeOK, Held, vars
<1>9. QED
  BY <1>1, <1>2, <1>3, <1>4, <1>5, <1>6, <1>7, <1>8 DEF Next, Stuck

LEMMA InvHolds == Spec => []Inv
<1>1. Init => Inv
  BY DEF Init, Inv, TypeOK, TodoOK, NoBrokers, Held
<1>2. QED
  BY <1>1, InvStep, PTL DEF Spec

(* Every descriptor held is one the kernel can have given, or -1, and only *)
(* brokers of the metadata response are in updated_brokers_.               *)
THEOREM TypeCorrect == Spec => []TypeOK
BY InvHolds, PTL DEF Inv

-----------------------------------------------------------------------------
(* Refinement *)

(* The constructor has met ids of the list only, and a refresh is under    *)
(* way only if a broker answered and named some.                           *)
RefreshAnswered ==
    /\ step_ = "construct" => Alive \subseteq Bootstrap
    /\ step_ \in {"reuse", "connect"} => Alive # {} /\ DOMAIN updated_brokers_ # {}

LEMMA ConstructMeets ==
    ASSUME Inv, RefreshAnswered, NEW id \in todo_, Construct(id)
    PROVE  Alive' \subseteq Bootstrap
BY DEF Inv, TodoOK, RefreshAnswered, Construct

LEMMA AnsweredStep == Inv /\ RefreshAnswered /\ [Next]_vars => RefreshAnswered'
<1> SUFFICES ASSUME Inv, RefreshAnswered, [Next]_vars PROVE RefreshAnswered'
  OBVIOUS
<1>0. ASSUME NEW id \in todo_, Construct(id) PROVE RefreshAnswered'
  BY <1>0, ConstructMeets DEF RefreshAnswered, Construct
<1>1. ASSUME NEW id \in todo_, Reuse(id) \/ Connect(id) PROVE RefreshAnswered'
  BY <1>1 DEF RefreshAnswered, Reuse, Connect
<1>2. ASSUME NEW id \in Alive, ExchangeFails(id) PROVE RefreshAnswered'
  BY <1>2 DEF RefreshAnswered, ExchangeFails
<1>3. ASSUME NEW ids \in SUBSET Brokers, RefreshAliveBrokers(ids) PROVE RefreshAnswered'
  BY <1>3 DEF RefreshAnswered, RefreshAliveBrokers
<1>4. CASE ToConnect \/ Disconnect \/ UNCHANGED vars
  BY <1>4 DEF RefreshAnswered, ToConnect, Disconnect, vars
<1>5. QED
  BY <1>0, <1>1, <1>2, <1>3, <1>4 DEF Next, Stuck

LEMMA BrokerSetStep ==
    Inv /\ Inv' /\ RefreshAnswered /\ [Next]_vars => [BrokerSet!Next]_(BrokerSet!vars)
<1> SUFFICES ASSUME Inv, Inv', RefreshAnswered, Next PROVE [BrokerSet!Next]_(BrokerSet!vars)
  BY DEF BrokerSet!vars, vars
<1> USE DEF BrokerSet!vars, BrokerSet!Next
<1>1. ASSUME NEW id \in todo_, Construct(id) PROVE [BrokerSet!Next]_(BrokerSet!vars)
  <2>1. step_ = "construct" /\ todo_ \subseteq Bootstrap
    BY <1>1 DEF Construct, Inv, TodoOK
  <2>2. CASE step_' = "construct"
    BY <2>1, <2>2
  <2>3. CASE step_' # "construct"
    BY <1>1, <2>1, <2>3, ConstructMeets DEF BrokerSet!Start
  <2>4. QED
    BY <2>2, <2>3
<1>2. ASSUME NEW id \in Alive, ExchangeFails(id) PROVE [BrokerSet!Next]_(BrokerSet!vars)
  BY <1>2 DEF ExchangeFails, BrokerSet!Erase
<1>3. ASSUME NEW ids \in SUBSET Brokers, RefreshAliveBrokers(ids)
      PROVE  [BrokerSet!Next]_(BrokerSet!vars)
  BY <1>3 DEF RefreshAliveBrokers
<1>4. ASSUME NEW id \in todo_, Reuse(id) \/ Connect(id)
      PROVE  [BrokerSet!Next]_(BrokerSet!vars)
  BY <1>4 DEF Reuse, Connect
<1>5. CASE ToConnect
  BY <1>5 DEF ToConnect
<1>6. CASE Disconnect
  <2>1. DOMAIN updated_brokers_ \in (SUBSET Brokers) \ {{}} /\ Alive # {}
    BY <1>6 DEF Disconnect, Inv, TypeOK, RefreshAnswered
  <2>2. QED
    BY <1>6, <2>1 DEF Disconnect, BrokerSet!Refresh
<1>7. CASE Stuck
  BY <1>7 DEF Stuck, vars
<1>8. QED
  BY <1>1, <1>2, <1>3, <1>4, <1>5, <1>6, <1>7 DEF Next

(* The client's connections implement BrokerSet: the ids it holds a        *)
(* connection for are replaced by those of a response, or lose one, never  *)
(* anything else.                                                          *)
THEOREM ImplementsBrokerSet == Spec => BrokersAsPromised
<1>1. Init => BrokerSet!Init
  BY DEF Init, BrokerSet!Init
<1>2. Init => RefreshAnswered
  BY DEF Init, RefreshAnswered, NoBrokers
<1>3. QED
  BY <1>1, <1>2, InvHolds, AnsweredStep, BrokerSetStep, PTL
     DEF Spec, BrokersAsPromised, BrokerSet!Spec

-----------------------------------------------------------------------------
(* Connections *)

(* What the descriptors in a map of brokers lead to.                       *)
Leads(map) ==
    \A id \in DOMAIN map : map[id] # NoFd => map[id] \in Fds /\ socket_[map[id]] = Server(id)

(* Brokers that share a descriptor have none.                              *)
Unshared ==
    \A a, b \in Alive : a # b /\ alive_brokers_[a] # NoFd => alive_brokers_[a] # alive_brokers_[b]

Connected ==
    ~connectFailed /\ ~sharedFd => Leads(alive_brokers_) /\ Unshared /\ Leads(updated_brokers_)

(* A new connection takes a descriptor nobody leads anywhere with.         *)
LEMMA NewTcpClientOwn ==
    ASSUME TypeOK, NEW server \in Brokers, NEW fd, NewTcpClient(server, fd), ~connectFailed'
    PROVE  /\ ~connectFailed
           /\ \A other \in Fds : socket_[other] # Closed
                    => socket_'[other] = socket_[other] /\ other # fd
           /\ fd # NoFd => fd \in Fds /\ socket_'[fd] = server
<1>1. CASE Open = Fds
  BY <1>1 DEF NewTcpClient
<1>2. CASE Open # Fds
  <2>1. fd \in Fds \ Open /\ socket_' = [socket_ EXCEPT ![fd] = server] /\ ~connectFailed
    BY <1>2 DEF NewTcpClient
  <2>2. QED
    BY <2>1 DEF TypeOK, Open
<1>3. QED
  BY <1>1, <1>2

LEMMA ConnectedStep == Inv /\ Connected /\ [Next]_vars => Connected'
<1> SUFFICES ASSUME Inv, Connected, [Next]_vars, ~connectFailed', ~sharedFd' PROVE Connected'
  BY DEF Connected
<1>0. ASSUME NEW id \in Ids PROVE Server(id) \in Brokers /\ Server(id) # Closed
  OBVIOUS
<1>1. ASSUME NEW id \in todo_, Construct(id) PROVE Connected'
  <2>1. PICK fd \in Fds \cup {NoFd} :
            /\ NewTcpClient(Server(id), fd)
            /\ alive_brokers_' = IF fd < 0 THEN alive_brokers_
                                 ELSE [b \in Alive \cup {id} |->
                                        IF b = id THEN fd ELSE alive_brokers_[b]]
    BY <1>1 DEF Construct
  <2>2. id \in Bootstrap /\ Server(id) \in Brokers
    BY <1>1 DEF Construct, Inv, TodoOK
  <2>3. /\ ~connectFailed /\ ~sharedFd
        /\ \A other \in Fds : socket_[other] # Closed
                => socket_'[other] = socket_[other] /\ other # fd
        /\ fd # NoFd => fd \in Fds /\ socket_'[fd] = Server(id)
    BY <1>1, <2>1, <2>2, NewTcpClientOwn DEF Inv, Construct
  <2>4. Leads(alive_brokers_)'
    BY <1>0, <2>1, <2>3 DEF Leads, Connected, Inv, TypeOK
  <2>5. Unshared'
    BY <1>0, <2>1, <2>3 DEF Leads, Unshared, Connected, Inv, TypeOK
  <2>6. Leads(updated_brokers_)'
    BY <1>0, <1>1, <2>3 DEF Leads, Connected, Construct, Inv, TypeOK
  <2>7. QED
    BY <2>4, <2>5, <2>6 DEF Connected
<1>2. ASSUME NEW id \in Alive, ExchangeFails(id) PROVE Connected'
  <2>1. /\ ~connectFailed /\ ~sharedFd
        /\ alive_brokers_' = [b \in Alive \ {id} |-> alive_brokers_[b]]
        /\ socket_' = CloseAll({alive_brokers_[id]})
    BY <1>2 DEF ExchangeFails
  <2>2. Unshared'
    BY <2>1 DEF Unshared, Connected
  <2>3. Leads(alive_brokers_)'
    BY <2>1 DEF Leads, Unshared, Connected, CloseAll
  <2>4. Leads(updated_brokers_)'
    BY <1>2 DEF ExchangeFails, Leads, Inv, TodoOK
  <2>5. QED
    BY <2>2, <2>3, <2>4 DEF Connected
<1>3. ASSUME NEW ids \in SUBSET Brokers, RefreshAliveBrokers(ids) PROVE Connected'
  BY <1>3 DEF RefreshAliveBrokers, Connected, Leads, Unshared
<1>4. ASSUME NEW id \in todo_, Reuse(id) PROVE Connected'
  <2>1. PICK fd \in FdsFromIp(id) :
            /\ updated_brokers_' = [updated_brokers_ EXCEPT ![id] = fd]
            /\ ~sharedFd
            /\ \A b \in Alive : alive_brokers_[b] = fd /\ fd # NoFd => Server(b) = id
    BY <1>4 DEF Reuse
  <2>2. UNCHANGED <<alive_brokers_, socket_, connectFailed>> /\ id \in Brokers
    BY <1>4 DEF Reuse, Inv, TypeOK, TodoOK
  <2>3. fd # NoFd => fd \in Fds /\ socket_[fd] = Server(id)
    <3>1. SUFFICES ASSUME fd # NoFd PROVE fd \in Fds /\ socket_[fd] = Server(id)
      OBVIOUS
    <3>2. PICK b \in Alive : fd = alive_brokers_[b]
      BY <2>1, <3>1 DEF FdsFromIp
    <3>3. Server(b) = id
      BY <2>1, <3>1, <3>2
    <3>4. QED
      BY <2>1, <2>2, <3>1, <3>2, <3>3 DEF Connected, Leads
  <2>4. QED
    BY <2>1, <2>2, <2>3 DEF Connected, Leads, Unshared
<1>5. CASE ToConnect
  BY <1>5 DEF ToConnect, Connected, Leads, Unshared
<1>6. ASSUME NEW id \in todo_, Connect(id) PROVE Connected'
  <2>1. PICK fd \in Fds \cup {NoFd} :
            NewTcpClient(id, fd) /\ updated_brokers_' = [updated_brokers_ EXCEPT ![id] = fd]
    BY <1>6 DEF Connect
  <2>2. id \in Brokers /\ Server(id) = id
    BY <1>6 DEF Connect, Inv, TypeOK, TodoOK
  <2>3. /\ ~connectFailed /\ ~sharedFd
        /\ \A other \in Fds : socket_[other] # Closed
                => socket_'[other] = socket_[other] /\ other # fd
        /\ fd # NoFd => fd \in Fds /\ socket_'[fd] = Server(id)
    BY <1>6, <2>1, <2>2, NewTcpClientOwn DEF Inv, Connect
  <2>4. Leads(alive_brokers_)' /\ Unshared'
    BY <1>0, <1>6, <2>3 DEF Leads, Unshared, Connected, Connect, Inv, TypeOK
  <2>5. Leads(updated_brokers_)'
    BY <1>0, <2>1, <2>3 DEF Leads, Connected, Inv, TypeOK
  <2>6. QED
    BY <2>4, <2>5 DEF Connected
<1>7. CASE Disconnect
  <2> DEFINE closed == {alive_brokers_[id] : id \in (Alive \ Bootstrap) \ DOMAIN updated_brokers_}
  <2>1. ~connectFailed /\ ~sharedFd /\ alive_brokers_' = updated_brokers_ /\ socket_' = CloseAll(closed)
    BY <1>7 DEF Disconnect
  <2>2. ASSUME NEW id \in DOMAIN updated_brokers_, updated_brokers_[id] # NoFd
        PROVE  updated_brokers_[id] \in Fds /\ socket_'[updated_brokers_[id]] = Server(id)
    <3>1. updated_brokers_[id] \in Fds /\ socket_[updated_brokers_[id]] = id /\ id \in Brokers
      BY <2>1, <2>2 DEF Connected, Leads, Inv, TypeOK
    <3>2. updated_brokers_[id] \notin closed
      BY <2>1, <3>1 DEF Connected, Leads, Inv, TypeOK
    <3>3. QED
      BY <2>1, <3>1, <3>2 DEF CloseAll
  <2>3. Leads(alive_brokers_)'
    BY <2>1, <2>2 DEF Leads
  <2>4. Unshared'
    BY <2>1 DEF Unshared, Connected, Leads, Inv, TypeOK
  <2>5. Leads(updated_brokers_)'
    BY <1>7 DEF Disconnect, NoBrokers, Leads
  <2>6. QED
    BY <2>3, <2>4, <2>5 DEF Connected
<1>8. CASE UNCHANGED vars
  BY <1>8 DEF vars, Connected, Leads, Unshared
<1>9. QED
  BY <1>1, <1>2, <1>3, <1>4, <1>5, <1>6, <1>7, <1>8 DEF Next, Stuck

(* As long as every connect has succeeded and no broker was given the      *)
(* descriptor of another one on its ip, a request reaches the broker it is *)
(* for, and a failure closes the connection of no other.                   *)
THEOREM OwnConnections == Spec => []OwnConnection
<1>1. Init => Connected
  BY DEF Init, Connected, NoBrokers, Leads, Unshared
<1>2. Connected => OwnConnection
  BY DEF Connected, Leads, OwnConnection
<1>3. QED
  BY <1>1, <1>2, InvHolds, ConnectedStep, PTL DEF Spec

-----------------------------------------------------------------------------
(* Losses *)

(* If a broker was visited by the first loop, and one connection has its   *)
(* ip, of a broker of the list or not, it has got that connection.         *)
Taken(id, b) ==
    \/ step_ = "reuse" /\ b \in todo_
    \/ alive_brokers_[id] = NoFd
    \/ updated_brokers_[b] = alive_brokers_[id]

Reused ==
    step_ \in {"reuse", "connect"} =>
        \A id \in Alive, b \in DOMAIN updated_brokers_ :
            Ip(b) = Ip(Server(id)) /\ OnlyOneOnItsIp(id) => Taken(id, b)

LEMMA ReusedStep == Inv /\ Reused /\ [Next]_vars => Reused'
<1> SUFFICES ASSUME Inv, Reused, [Next]_vars PROVE Reused'
  OBVIOUS
<1>1. ASSUME NEW id \in todo_, Construct(id) PROVE Reused'
  BY <1>1 DEF Construct, Reused
<1>2. ASSUME NEW id \in Alive, ExchangeFails(id) PROVE Reused'
  BY <1>2 DEF ExchangeFails, Reused
<1>3. ASSUME NEW ids \in SUBSET Brokers, RefreshAliveBrokers(ids) PROVE Reused'
  BY <1>3 DEF RefreshAliveBrokers, Reused, Taken
<1>4. ASSUME NEW visited \in todo_, Reuse(visited) PROVE Reused'
  <2>1. PICK fd \in FdsFromIp(visited) :
            updated_brokers_' = [updated_brokers_ EXCEPT ![visited] = fd]
    BY <1>4 DEF Reuse
  <2>2. /\ step_ = "reuse" /\ step_' = "reuse" /\ todo_' = todo_ \ {visited}
        /\ UNCHANGED alive_brokers_ /\ visited \in DOMAIN updated_brokers_
    BY <1>4 DEF Reuse, Inv, TodoOK
  <2>3. ASSUME NEW id \in Alive, NEW b \in DOMAIN updated_brokers_,
               Ip(b) = Ip(Server(id)), OnlyOneOnItsIp(id)
        PROVE  Taken(id, b)'
    <3>1. CASE b # visited
      BY <2>1, <2>2, <2>3, <3>1 DEF Reused, Taken
    <3>2. CASE b = visited
      <4>1. \A other \in Alive : Ip(Server(other)) = Ip(b) <=> other = id
        BY <2>3 DEF OnlyOneOnItsIp
      <4>2. FdsFromIp(b) = {alive_brokers_[id]}
        BY <4>1 DEF FdsFromIp
      <4>3. QED
        BY <2>1, <2>2, <3>2, <4>2 DEF Taken
    <3>3. QED
      BY <3>1, <3>2
  <2>4. QED
    BY <2>1, <2>2, <2>3 DEF Reused, OnlyOneOnItsIp
<1>5. CASE ToConnect
  BY <1>5 DEF ToConnect, Reused, Taken, OnlyOneOnItsIp
<1>6. ASSUME NEW new \in todo_, Connect(new) PROVE Reused'
  <2>1. /\ step_ = "connect" /\ step_' = "connect" /\ UNCHANGED alive_brokers_
        /\ updated_brokers_[new] = NoFd
    BY <1>6 DEF Connect, Inv, TodoOK
  <2>2. PICK fd : updated_brokers_' = [updated_brokers_ EXCEPT ![new] = fd]
    BY <1>6 DEF Connect
  <2>3. QED
    BY <2>1, <2>2 DEF Reused, Taken, OnlyOneOnItsIp
<1>7. CASE Disconnect
  BY <1>7 DEF Disconnect, Reused
<1>8. CASE UNCHANGED vars
  BY <1>8 DEF vars, Reused, Taken, OnlyOneOnItsIp
<1>9. QED
  BY <1>1, <1>2, <1>3, <1>4, <1>5, <1>6, <1>7, <1>8 DEF Next, Stuck

LEMMA NewTcpClientOpens ==
    ASSUME NEW server, NEW fd, NewTcpClient(server, fd)
    PROVE  Open' \subseteq Open \cup {fd}
<1>1. \/ UNCHANGED socket_
      \/ socket_' = [socket_ EXCEPT ![fd] = server]
  BY DEF NewTcpClient
<1>2. CASE UNCHANGED socket_
  BY <1>2 DEF Open
<1>3. ASSUME socket_' = [socket_ EXCEPT ![fd] = server], NEW other \in Open', other # fd
      PROVE  other \in Open
  BY <1>3 DEF Open
<1>4. QED
  BY <1>1, <1>2, <1>3

LEMMA CloseAllOpens ==
    ASSUME NEW fds, socket_' = CloseAll(fds)
    PROVE  Open' = Open \ fds
BY DEF CloseAll, Open

(* What is said of the broker a lost connection was for. *)
Losable(id) ==
    \/ id \in Bootstrap /\ \A b \in DOMAIN updated_brokers_ : Ip(b) # Ip(Server(id))
    \/ ~OnlyOneOnItsIp(id)

(* A broker the refresh is going to lose no connection of keeps it. *)
LEMMA KeptInRefresh ==
    ASSUME Inv, Reused, step_ = "connect", todo_ = {},
           NEW id \in Alive, alive_brokers_[id] # NoFd, ~Losable(id)
    PROVE  \/ alive_brokers_[id] \in Collected
           \/ id \in (Alive \ Bootstrap) \ DOMAIN updated_brokers_
<1>1. OnlyOneOnItsIp(id) /\ id \in Ids
  BY DEF Losable, Inv, TypeOK
<1>2. ASSUME NEW b \in DOMAIN updated_brokers_, Ip(b) = Ip(Server(id))
      PROVE  alive_brokers_[id] \in Collected
  BY <1>1, <1>2 DEF Reused, Taken, Collected
<1>3. CASE id \in Bootstrap
  BY <1>2, <1>3 DEF Losable
<1>4. CASE id \in DOMAIN updated_brokers_
  <2>1. Server(id) = id
    BY <1>4 DEF Inv, TypeOK
  <2>2. QED
    BY <1>2, <1>4, <2>1
<1>5. QED
  BY <1>3, <1>4

LEMMA LossStep ==
    ASSUME Inv, Reused, Next, NEW fd \in Leaked' \ Leaked
    PROVE  /\ step_ = "connect" /\ step_' = "idle"
           /\ \E id \in Alive : alive_brokers_[id] = fd /\ Losable(id)
<1>0. fd \in Fds /\ fd # NoFd
  BY DEF Leaked, Open
<1>1. ASSUME NEW id \in todo_, Construct(id) PROVE FALSE
  <2>1. PICK new \in Fds \cup {NoFd} :
            /\ NewTcpClient(Server(id), new)
            /\ alive_brokers_' = IF new < 0 THEN alive_brokers_
                                 ELSE [b \in Alive \cup {id} |->
                                        IF b = id THEN new ELSE alive_brokers_[b]]
    BY <1>1 DEF Construct
  <2>2. Open' \subseteq Open \cup {new} /\ id \notin Alive /\ Collected' = Collected
    BY <1>1, <2>1, NewTcpClientOpens DEF Construct, Inv, TodoOK, Collected
  <2>3. CASE new < 0
    BY <1>0, <2>1, <2>2, <2>3 DEF Leaked, Held
  <2>4. CASE new \in Fds
    <3>1. alive_brokers_' = [b \in Alive \cup {id} |->
                                IF b = id THEN new ELSE alive_brokers_[b]]
      BY <2>1, <2>4
    <3>2. Held \cup {new} \subseteq Held'
      BY <2>2, <3>1 DEF Held
    <3>3. QED
      BY <2>2, <3>2 DEF Leaked
  <2>5. QED
    BY <2>3, <2>4
<1>2. ASSUME NEW id \in Alive, ExchangeFails(id) PROVE FALSE
  <2>1. Open' = Open \ {alive_brokers_[id]} /\ Collected' = Collected
    BY <1>2, CloseAllOpens DEF ExchangeFails, Collected
  <2>2. Held \ {alive_brokers_[id]} \subseteq Held'
    BY <1>2 DEF ExchangeFails, Held
  <2>3. QED
    BY <2>1, <2>2 DEF Leaked
<1>3. ASSUME NEW ids \in SUBSET Brokers, RefreshAliveBrokers(ids) PROVE FALSE
  <2>1. Open' = Open /\ Held' = Held /\ Collected = {}
    BY <1>3 DEF RefreshAliveBrokers, Open, Held, Collected, Inv, TodoOK
  <2>2. QED
    BY <2>1 DEF Leaked
<1>4. ASSUME NEW id \in todo_, Reuse(id) \/ Connect(id) PROVE FALSE
  <2>1. /\ id \in DOMAIN updated_brokers_ /\ updated_brokers_[id] = NoFd
        /\ Held' = Held
    BY <1>4 DEF Reuse, Connect, Inv, TodoOK, Held
  <2>2. PICK new :
            /\ updated_brokers_' = [updated_brokers_ EXCEPT ![id] = new]
            /\ Open' \subseteq Open \cup {new}
    <3>1. CASE Reuse(id)
      BY <3>1 DEF Reuse, Open
    <3>2. CASE Connect(id)
      BY <3>2, NewTcpClientOpens DEF Connect
    <3>3. QED
      BY <1>4, <3>1, <3>2
  <2>3. (Collected \ {NoFd}) \cup {new} \subseteq Collected'
    BY <2>1, <2>2 DEF Collected
  <2>4. QED
    BY <1>0, <2>1, <2>2, <2>3 DEF Leaked
<1>5. CASE ToConnect \/ Stuck
  BY <1>5 DEF ToConnect, Stuck, vars, Leaked, Open, Held, Collected
<1>6. CASE Disconnect
  <2> DEFINE closed == {alive_brokers_[id] : id \in (Alive \ Bootstrap) \ DOMAIN updated_brokers_}
  <2>1. /\ step_ = "connect" /\ step_' = "idle" /\ todo_ = {}
        /\ Open' = Open \ closed
        /\ Held' = Collected
    BY <1>6, CloseAllOpens DEF Disconnect, Held, Collected
  <2>2. fd \in Open /\ fd \notin closed /\ fd \notin Collected /\ fd \in Held
    BY <2>1 DEF Leaked
  <2>3. PICK id \in Alive : alive_brokers_[id] = fd
    BY <2>2 DEF Held
  <2>4. Losable(id)
    BY <1>0, <2>1, <2>2, <2>3, KeptInRefresh
  <2>5. QED
    BY <2>1, <2>3, <2>4
<1>7. QED
  BY <1>1, <1>2, <1>3, <1>4, <1>5, <1>6 DEF Next

(* From the time it is opened no connection is lost but in a refresh, and  *)
(* there only one of the list that no broker of the response has the ip    *)
(* of, or one whose ip another connection has: whichever connects fail,    *)
(* whatever descriptors are stale, and also if brokers share ips.          *)
THEOREM LossesAreKnown == Spec => LossesKnown
<1>1. Init => Reused
  BY DEF Init, Reused
<1>2. ASSUME Inv, Reused, [Next]_vars
      PROVE  [\A fd \in Leaked' \ Leaked :
                /\ step_ = "connect" /\ step_' = "idle"
                /\ \E id \in Alive :
                    /\ alive_brokers_[id] = fd
                    /\ \/ id \in Bootstrap
                            /\ \A b \in DOMAIN updated_brokers_ : Ip(b) # Ip(Server(id))
                       \/ ~OnlyOneOnItsIp(id)]_vars
  BY <1>2, LossStep DEF Losable
<1>3. QED
  BY <1>1, <1>2, InvHolds, ReusedStep, PTL DEF Spec, LossesKnown
=============================================================================
