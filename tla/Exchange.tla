------------------------------- MODULE Exchange -------------------------------
(***************************************************************************)
(* One request and its response at a time, over the connections of         *)
(* alive_brokers_: SendRequestHandler and ReceiveResponseHandler with Send,*)
(* Receive and CompleteRead, down to the bytes read(2) returns.            *)
(*                                                                         *)
(* The broker answers, closes or resets its end whenever it likes, and     *)
(* what it has sent arrives in pieces.  read(2) waits while the connection *)
(* is up and nothing has arrived: no timeout is set on a socket.           *)
(***************************************************************************)
EXTENDS Integers

CONSTANTS Brokers,           \* ids of the brokers
          RequestsSent,      \* the requests the client sends
          NoRequest,         \* none
          CorrelationId(_),  \* of a request
          PacketSize(_),     \* of a request: CountSize, and 4
          Understands(_),    \* whether a broker reads the request that was meant
          Answers(_),        \* what it may answer, with its size, the size it
                             \* announces, the correlation id, and what the
                             \* constructor of the response, and the handler
                             \* it is for, come to
          Cuts(_)            \* where an answer of a size may be cut on its way

ASSUME NoRequestAssumption == NoRequest \notin RequestsSent
ASSUME AnswersAssumption ==
    \A request \in RequestsSent : \A answer \in Answers(request) :
        /\ answer.announced \in Nat \ {0}
        /\ answer.size = 4 + answer.announced
        /\ answer.comes \in {"response", "error", "overread", "terminate"}
ASSUME CutsAssumption ==
    \A request \in RequestsSent : \A answer \in Answers(request) :
        answer.size \in Cuts(answer.size) /\ Cuts(answer.size) \subseteq Nat

VARIABLES phase_,          \* "idle", waiting for "header" or "body", or "ended"
          request_,        \* the request of this exchange
          broker_,         \* the broker of the last one
          alive_brokers_,  \* the brokers with a connection
          last_correlation_id_,
          total_len,       \* Receive: what the header announced
          sum_read,        \* CompleteRead
          end_,            \* why the process ended
          peer,            \* the other end: "open", "closed", "reset", and "broken"
                           \* when the client has been told of the reset
          asked,           \* what the broker has still to answer
          inbound          \* the answer on its way: bytes that arrived, bytes read

vars == <<phase_, request_, broker_, alive_brokers_, last_correlation_id_, total_len,
          sum_read, end_, peer, asked, inbound>>
network == <<peer, asked, inbound>>

BufferSize == 2048
TooLong(request) == PacketSize(request) > BufferSize

Response == UNION {Answers(request) : request \in RequestsSent}
Nothing == [answer |-> NoRequest, size |-> 0, arrived |-> 0, taken |-> 0]
InFlight(answer) == [answer |-> answer, size |-> answer.size, arrived |-> 0, taken |-> 0]

(* Bytes read(2) can return now. *)
Available(b) == inbound[b].arrived - inbound[b].taken

-----------------------------------------------------------------------------
Init ==
    /\ phase_ = "idle"
    /\ request_ = NoRequest
    /\ broker_ \in Brokers
    /\ alive_brokers_ = Brokers
    /\ last_correlation_id_ = 0
    /\ total_len = 0
    /\ sum_read = 0
    /\ end_ = "none"
    /\ peer = [b \in Brokers |-> "open"]
    /\ asked = [b \in Brokers |-> NoRequest]
    /\ inbound = [b \in Brokers |-> Nothing]

(* The handlers return: their locals are gone. *)
Return ==
    /\ phase_' = "idle"
    /\ request_' = NoRequest
    /\ total_len' = 0
    /\ sum_read' = 0
    /\ UNCHANGED end_

(* The broker is erased, and its descriptor closed. *)
Erase(b) ==
    /\ alive_brokers_' = alive_brokers_ \ {b}
    /\ peer' = [peer EXCEPT ![b] = "closed"]
    /\ asked' = [asked EXCEPT ![b] = NoRequest]
    /\ inbound' = [inbound EXCEPT ![b] = Nothing]
    /\ Return

End(how) ==
    /\ phase_' = "ended"
    /\ end_' = how
    /\ UNCHANGED <<alive_brokers_, total_len, sum_read>>

Starts(b) ==
    /\ phase_ = "idle"
    /\ b \in alive_brokers_
    /\ broker_' = b

(* Send: the request is packaged into buf, whatever its size. *)
SendOverflows(b, request) ==
    /\ Starts(b)
    /\ TooLong(request)
    /\ End("overflow")
    /\ request_' = request
    /\ UNCHANGED <<last_correlation_id_, network>>

(* A connection the broker has closed still takes the request. *)
SendWrites(b, request) ==
    /\ Starts(b)
    /\ ~TooLong(request)
    /\ peer[b] \in {"open", "closed"}
    /\ phase_' = "header"
    /\ request_' = request
    /\ last_correlation_id_' = CorrelationId(request)
    /\ asked' = [asked EXCEPT ![b] = IF peer[b] = "open" THEN request ELSE NoRequest]
    /\ UNCHANGED <<alive_brokers_, total_len, sum_read, end_, peer, inbound>>

(* write(2) reports a reset nothing has been told of, *)
SendFails(b, request) ==
    /\ Starts(b)
    /\ ~TooLong(request)
    /\ peer[b] = "reset"
    /\ Erase(b)
    /\ UNCHANGED last_correlation_id_

(* and raises SIGPIPE after that.  Nothing handles the signal. *)
SendKills(b, request) ==
    /\ Starts(b)
    /\ ~TooLong(request)
    /\ peer[b] = "broken"
    /\ End("killed")
    /\ request_' = request
    /\ UNCHANGED <<last_correlation_id_, network>>

-----------------------------------------------------------------------------
(* The brokers and the network. *)

AnswerRequest(b) ==
    /\ asked[b] # NoRequest
    /\ IF Understands(asked[b])
       THEN /\ \E answer \in Answers(asked[b]) :
                inbound' = [inbound EXCEPT ![b] = InFlight(answer)]
            /\ UNCHANGED peer
       ELSE peer' = [peer EXCEPT ![b] = "closed"] /\ UNCHANGED inbound
    /\ asked' = [asked EXCEPT ![b] = NoRequest]
    /\ UNCHANGED <<phase_, request_, broker_, alive_brokers_, last_correlation_id_,
                   total_len, sum_read, end_>>

Deliver(b) ==
    /\ peer[b] = "open"
    /\ inbound[b] # Nothing
    /\ \E cut \in Cuts(inbound[b].size) :
        /\ cut > inbound[b].arrived
        /\ cut <= inbound[b].size
        /\ inbound' = [inbound EXCEPT ![b].arrived = cut]
    /\ UNCHANGED <<phase_, request_, broker_, alive_brokers_, last_correlation_id_,
                   total_len, sum_read, end_, peer, asked>>

(* What has not arrived by then is lost. *)
Leave(b, how) ==
    /\ b \in alive_brokers_
    /\ peer[b] = "open"
    /\ peer' = [peer EXCEPT ![b] = how]
    /\ asked' = [asked EXCEPT ![b] = NoRequest]
    /\ UNCHANGED <<phase_, request_, broker_, alive_brokers_, last_correlation_id_,
                   total_len, sum_read, end_, inbound>>

(* ConnectNewBroker, of a broker that was erased. *)
Connect(b) ==
    /\ phase_ = "idle"
    /\ b \notin alive_brokers_
    /\ alive_brokers_' = alive_brokers_ \cup {b}
    /\ peer' = [peer EXCEPT ![b] = "open"]
    /\ UNCHANGED <<phase_, request_, broker_, last_correlation_id_, total_len, sum_read,
                   end_, asked, inbound>>

-----------------------------------------------------------------------------
Took(b, bytes) == inbound' = [inbound EXCEPT ![b].taken = @ + bytes]

(* Fault: the connection is kept when the header is incomplete. *)
HeaderIsKept ==
    /\ phase_ = "header"
    /\ IF Available(broker_) >= 4
       THEN /\ Took(broker_, 4)
            /\ total_len' = inbound[broker_].answer.announced
            /\ sum_read' = 0
            /\ phase_' = "body"
            /\ UNCHANGED <<request_, end_>>
       ELSE /\ Available(broker_) > 0 \/ peer[broker_] # "open"
            /\ Took(broker_, Available(broker_))
            /\ Return
    /\ UNCHANGED <<broker_, alive_brokers_, last_correlation_id_, peer, asked>>

(* Receive: the four bytes of the length in one read, or the broker counts *)
(* as down, as it does when it has closed or reset the connection.         *)
ReadHeader ==
    /\ phase_ = "header"
    /\ IF Available(broker_) >= 4
       THEN /\ Took(broker_, 4)
            /\ total_len' = inbound[broker_].answer.announced
            /\ sum_read' = 0
            /\ phase_' = "body"
            /\ UNCHANGED <<request_, alive_brokers_, end_, peer, asked>>
       ELSE /\ Available(broker_) > 0 \/ peer[broker_] # "open"
            /\ Erase(broker_)
    /\ UNCHANGED <<broker_, last_correlation_id_>>

(* Fault: the bytes of the last read are what has been read. *)
ReadBodyForgets ==
    /\ phase_ = "body"
    /\ sum_read # total_len
    /\ Available(broker_) > 0
    /\ Took(broker_, Available(broker_))
    /\ sum_read' = Available(broker_)
    /\ UNCHANGED <<phase_, request_, broker_, alive_brokers_, last_correlation_id_, total_len,
                   end_, peer, asked>>

(* Fault: the bytes of the header are counted too. *)
ReadBodyCountsHeader ==
    /\ phase_ = "body"
    /\ sum_read # total_len
    /\ Available(broker_) > 0
    /\ Took(broker_, Available(broker_))
    /\ sum_read' = sum_read + Available(broker_) + 4
    /\ UNCHANGED <<phase_, request_, broker_, alive_brokers_, last_correlation_id_, total_len,
                   end_, peer, asked>>

(* CompleteRead: another read, of up to total_len bytes. *)
ReadBody ==
    /\ phase_ = "body"
    /\ sum_read # total_len
    /\ Available(broker_) > 0
    /\ LET nread == IF Available(broker_) < total_len THEN Available(broker_) ELSE total_len
       IN  Took(broker_, nread) /\ sum_read' = sum_read + nread
    /\ UNCHANGED <<phase_, request_, broker_, alive_brokers_, last_correlation_id_, total_len,
                   end_, peer, asked>>

(* The connection closed by the broker is erased. *)
BodyIsCut ==
    /\ phase_ = "body"
    /\ sum_read # total_len
    /\ Available(broker_) = 0
    /\ peer[broker_] = "closed"
    /\ Erase(broker_)
    /\ UNCHANGED <<broker_, last_correlation_id_>>

(* The one that was reset is kept: the result of read(2) is negative. *)
BodyFails ==
    /\ phase_ = "body"
    /\ sum_read # total_len
    /\ Available(broker_) = 0
    /\ peer[broker_] = "reset"
    /\ Return
    /\ peer' = [peer EXCEPT ![broker_] = "broken"]
    /\ inbound' = [inbound EXCEPT ![broker_] = Nothing]
    /\ UNCHANGED <<broker_, alive_brokers_, last_correlation_id_, asked>>

(* GetLastApiKey: an answer with another correlation id is an error. *)
ComesTo(answer) ==
    IF answer.correlation_id = last_correlation_id_ THEN answer.comes ELSE "error"

(* The constructor of the class, and what the handler reads of the object. *)
ParseResponse ==
    /\ phase_ = "body"
    /\ sum_read = total_len
    /\ LET comes == ComesTo(inbound[broker_].answer)
       IN  IF comes \in {"response", "error"}
           THEN Return /\ UNCHANGED alive_brokers_
           ELSE End(comes) /\ UNCHANGED request_
    /\ inbound' = [inbound EXCEPT ![broker_] =
            IF @.taken = @.size THEN Nothing ELSE @]
    /\ UNCHANGED <<broker_, last_correlation_id_, peer, asked>>

Ended == phase_ = "ended" /\ UNCHANGED vars

-----------------------------------------------------------------------------
Next ==
    \/ \E b \in alive_brokers_, request \in RequestsSent :
        \/ SendOverflows(b, request)
        \/ SendWrites(b, request)
        \/ SendFails(b, request)
        \/ SendKills(b, request)
    \/ \E b \in Brokers :
        \/ AnswerRequest(b)
        \/ Deliver(b)
        \/ Leave(b, "closed")
        \/ Leave(b, "reset")
        \/ Connect(b)
    \/ ReadHeader
    \/ ReadBody
    \/ BodyIsCut
    \/ BodyFails
    \/ ParseResponse
    \/ Ended

(* A broker answers or leaves, what it sends arrives, and the client goes  *)
(* on whenever read(2) returns.                                            *)
Fairness ==
    /\ \A b \in Brokers : WF_vars(AnswerRequest(b)) /\ WF_vars(Deliver(b))
    /\ WF_vars(ReadHeader)
    /\ WF_vars(ReadBody)
    /\ WF_vars(BodyIsCut)
    /\ WF_vars(BodyFails)
    /\ WF_vars(ParseResponse)

Spec == Init /\ [][Next]_vars /\ Fairness

-----------------------------------------------------------------------------
(* The type invariant: the client is in one exchange or in none, reads no  *)
(* more than was announced, and no more than has arrived.                  *)
TypeOK ==
    /\ phase_ \in {"idle", "header", "body", "ended"}
    /\ IF phase_ = "idle" THEN request_ = NoRequest ELSE request_ \in RequestsSent
    /\ broker_ \in Brokers
    /\ alive_brokers_ \subseteq Brokers
    /\ total_len \in Nat
    /\ sum_read \in 0 .. total_len
    /\ end_ \in {"none", "overflow", "killed", "overread", "terminate"}
    /\ phase_ = "ended" <=> end_ # "none"
    /\ peer \in [Brokers -> {"open", "closed", "reset", "broken"}]
    /\ asked \in [Brokers -> RequestsSent \cup {NoRequest}]
    /\ inbound \in [Brokers -> [answer : Response \cup {NoRequest},
                                size : Nat, arrived : Nat, taken : Nat]]
    /\ \A b \in Brokers :
        inbound[b].taken <= inbound[b].arrived /\ inbound[b].arrived <= inbound[b].size

(* What a broker gets is the request the client constructed: the sizes the *)
(* classes add up are the bytes their Package writes, at every level of    *)
(* nesting, and every field is where the announced version has it.         *)
RequestsUnderstood == \A b \in Brokers : asked[b] # NoRequest => Understands(asked[b])

(* Between two exchanges nothing is left on a connection that is up: the   *)
(* next four bytes read from it are the length of the answer to the next   *)
(* request, however the last exchange with it ended.                       *)
Drained ==
    phase_ = "idle" =>
        \A b \in alive_brokers_ : peer[b] = "open" => asked[b] = NoRequest /\ inbound[b] = Nothing

(* An exchange comes to an end, as long as brokers answer or leave.        *)
ExchangeEnds == phase_ \in {"header", "body"} ~> phase_ \in {"idle", "ended"}
=============================================================================
