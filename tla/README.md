# kafkaconsumer: a TLA+ verification project

The program is a Kafka consumer: one thread that runs a state machine
(`network.cc`), sends one request at a time over blocking sockets and waits for
the response. It joins a consumer group, computes the group's assignment when it
is the leader, fetches messages, prints them and commits offsets. There is no
test suite; the comments over the functions are its only documentation.

## The system

| Part | Code | State | Operations |
|---|---|---|---|
| Consumer state machine | `network.cc`, `network.h` | `current_state_`, `event_`, `alive_brokers_`, `coordinator_`, `all_partitions_`, `my_partitions_id_`, `broker_owned_partition_`, `partition_offset_`, generation, member id, assignment | `Initial`, `DiscoverCoordinator`, `JoinGroup`, `SyncGroup`, `PartOfGroup` and what they call |
| Partition assignment | `network.cc:307-335` | two iterators, a remainder | one call, when a join makes this client the leader |
| Connections | `network.cc:34-63, 99-150, 368-425`, `utils/net_util.cc` | `alive_brokers_` (id to descriptor), the kernel's sockets | constructor, `RefreshAliveBrokers`, erasure after a failed exchange |
| Requests, responses | `protocol/` | none (values) | construct, `CountSize`, `Package`; parse, compare sizes, the accessors the handlers use |
| Message sets | `protocol/message_set.cc` | none | parse up to a cut-off message |
| Framing | `network.cc:152-302, 347-365` | last correlation id and api key | `SendRequestHandler`, `ReceiveResponseHandler`, `Send`, `Receive`, `CompleteRead` |
| Group coordinator, brokers | not in the repository | members, generations, offsets | answer requests |
| `KafkaClient`, `main`, utilities, logging | | none that matters | start the machine |
| `StateMachine`, `BlockingQueue` | `state_machine.cc`, `blocking_queue.h` | | not part of the program that is built |

`Start` calls `current_state_(event_)` for ever. A handler reads and writes the
fields of `Network`, exchanges messages with the brokers, and sets the next
handler and event. All handlers share `alive_brokers_`; `coordinator_` is a
pointer into it, and any failed exchange erases from it.

What is hard: the sequence of handlers, each of which can fail at each exchange
and leave what the earlier ones set; the pointer and the maps that go stale when
an exchange or a refresh changes `alive_brokers_`; the error codes of responses,
which are partly ignored and partly overwritten; descriptors, whose numbers the
kernel hands out again. The sizes of requests are added up, not measured, and
written into a buffer that is not checked; responses arrive in pieces and are
read by their own announcements. Several clients wait on one another through the
coordinator, which hands partitions from one to the other while each still acts
on what it last heard. There are no threads, no timers and nothing persistent in
the client.

What makes each part correct:

- state machine: every handler is called with an event it knows, uses no pointer
  that was never set, fetches exactly what it was assigned from the right
  broker, joins through a coordinator it has a connection to, never commits
  backwards, ends its rounds and comes back into the group;
- assignment: each partition has one owner, shares are balanced, the iterator
  stays in the map;
- connections: a descriptor held for a broker is a connection to that broker,
  and open connections are lost in known ways only;
- wire: a broker reads the request that was constructed, an exchange leaves
  nothing behind on a connection, ends, and ends the process in known cases only;
- message sets: what is complete is kept, what is cut off is counted;
- group: one owner per partition and generation, an assignment for every member,
  no message passed over, no circle of clients that wait.

`PROJECT.json` lists the hazards at their lines, with the property that covers
each or why none does.

## Modules

| Module | Models | Checked by | Proved in |
|---|---|---|---|
| `Network` | the client, one action per exchange | `MCNetwork` (runs `client`, `recovery`) | `NetworkProofs` |
| `BrokerSet` | what the client relies on of `alive_brokers_`, abstractly | implemented by `Network` and `Connections` | `NetworkProofs`, `ConnectionsProofs` |
| `Connections` | descriptors and sockets | `MCConnections` (run `connections`) | `ConnectionsProofs` |
| `RangeAssignment` | the closed form of the assignment | through the modules that use it | |
| `PartitionAssignment` | the assignment's loop | run `assignment` | `PartitionAssignmentProofs` |
| `Sums` | adding up the bytes of elements | through the modules below | `WireProofs` |
| `MessageSet` | parsing message sets of a fetch response | run `message_sets` | `MessageSetProofs` |
| `Wire` | fields, strings and arrays on the wire | through the modules below | `WireProofs` |
| `Requests` | what each request class stores, counts and packages | `WireExchange` | `ExchangeProofs` |
| `Formats` | reading a wire item by item, as the constructors do | `WireExchange` | `WireProofs` |
| `Responses` | what each response class reads and counts | `WireExchange` | `ExchangeProofs` |
| `Accessors` | what the handlers take out of a response | `WireExchange` | `ExchangeProofs` |
| `Protocol` | the broker's side of the wire (external) | `WireExchange` | `ExchangeProofs` |
| `Exchange` | one request and its response over sockets, bytes included | `WireExchange` | `ExchangeProofs` |
| `WireExchange` | `Exchange` with the requests and responses above | `MCExchange` (run `exchange`) | `ExchangeProofs` |
| `GroupCoordinator` | members, rounds, generations, sessions (external) | `ConsumerGroup` | `ConsumerGroupProofs` |
| `GroupClient` | `Network` as one member of a group | `ConsumerGroup` | `GroupClientProofs` |
| `ConsumerGroup` | two clients, the coordinator and the log | `MCConsumerGroup` (runs `group`, `group_split`, `group_live`) | `ConsumerGroupProofs` |
| `NetworkClaims`, `ConnectionsClaims` | what comments say and the code does not do | runs `coordinator_up`, `down_broker` | |

`ConsumerGroup` composes two instances of `GroupClient`, which extends `Network`,
with `GroupCoordinator`. `WireExchange` composes `Exchange` with the classes of
`protocol/`. `Network` takes an exchange as one step with the outcomes `Exchange`
shows it has, and a fetch with the outcomes of `MessageSet`.

### Network

One variable per field of `Network` (same names), plus where the program is
inside `PartOfGroup`: `step_` names the exchange that comes next, `unresolved_`
and `unfetched_` are what the loops of `FetchValidOffset` and `FetchMessage`
have still to visit, `committing_` the commit request being built, `error_code_`
the local of that name. `process_` says whether the process still runs.

One action is one exchange with a broker and the code that runs until the next
one; this is where the environment can interfere, as the thread shares nothing.
The response is a parameter of the action and `Next` ranges over every response
the parser lets through (`MetadataReplies`, `JoinReplies`, `SyncReplies`,
`OffsetReplies`, `FetchReplies`). An exchange fails as the code sees it: the send
fails or the peer closed (`SendRequestHandler`, `ReceiveResponseHandler` erase
the broker), or the response is of no use (the broker stays). An exception that
nobody catches (`at()` on a missing key) and undefined behaviour that stops the
program end it: `Terminate`.

Choices a reader may want to check:

- `coordinator_` is an id. It dangles when the id is not in `alive_brokers_`. The
  freed node still holds the number of a descriptor that was closed, and no
  socket is opened between the erasure and the use, so a send through it fails
  and erases nothing. A `Broker` node is smaller than the request objects that
  are allocated meanwhile, so these do not overwrite it.
- `Initial` reads `coordinator_->id_` after `alive_brokers_` was assigned. The
  assignment reuses the nodes of the old map in any order; `InitialRefresh`
  lets the pointer read the id of any new broker, or the old id.
- `generation_id_` is not initialised: `Init` lets it be anything.
- A member without partitions asks for the offsets of none, and the coordinator
  may answer with those of the whole group, which enter `partition_offset_`.
- An unordered map is iterated in any order: the loops visit any remaining
  element, and the assignment ranges over all orders of the partitions.
- `HeartbeatTask` reads the error code after deleting the response. The
  allocator leaves these bytes alone, so the model reads the value.
- Definitions marked "Fault" (in every module) are variants of the action below
  them with a defect a slip could cause. They are not part of `Next`; they show
  that the properties can fail.

### PartitionAssignment and RangeAssignment

`PartitionAssignment` runs the loop with positions for iterators. `Network` uses
`RangeAssignment!PartitionAssignment`, which gives the result in closed form;
`StoresShares` says, and `LoopComputesShares` proves, that the two agree.

### Connections and BrokerSet

`alive_brokers_` and `updated_brokers_` map ids to descriptors; `socket_` is the
kernel's table, whose lowest free entry is handed out. The loops of the
constructor and of `RefreshAliveBrokers` take one step per broker. Which connects
succeed and what the metadata lists is arbitrary. `Server` and `Ip` say where an
address leads (what `Split` and `HostnameToIp` find out). `GetFdFromIp` compares
nothing but ips, so brokers with one ip share a descriptor, as do those whose names
cannot be resolved: they have the ip `""`. In `MCConnections` brokers 2 and 3 share
one. `connectFailed` and `sharedFd` are history variables: a connect has failed, or a
broker was given the descriptor of another on its ip.

`Network` keeps only the set of ids, as the handlers see nothing more. That the
two agree is what `BrokerSet` says: the set starts with brokers of the list, loses
one member at a time, and is replaced as a whole by an answer of a member.
`BrokersAsPromised` is checked and proved of both modules. `Connections` takes
many steps for one of `BrokerSet`.

### MessageSet

The state is the position `buf` in the response and the counters `sum` and
`invalid_bytes_`; one action per iteration of the loop of `MessageSet`, split by
whether the constructor `OffsetAndMessage` returns (`Message`) or throws (`Cut`),
and one per `PartitionInfo`. A message is its size. The sets are those a broker
sends: only the last message of a set may be incomplete. `Network` takes its two
outcomes: a last offset, or the end of the process (`FetchUnusable`). The
constructor reads up to seven bytes beyond a set that ends inside an offset
before it gives up; these bytes have no effect on the result and are not
modelled.

### The wire

A wire is a sequence of fields with their widths; a string is known by its length.
`Requests` has for each class the record its constructor makes, `CountSize`, and
the fields `Package` writes, nested classes included. `Protocol` reads them as
Kafka's brokers read the announced versions. `Responses` lists for each
constructor what it reads in which order, its `CountSize`, and what a difference
to the announced size does: Metadata, like an error in a SyncGroup answer, throws
what `Receive` catches (`-1`), Heartbeat compares nothing, and the others throw what
nobody catches or, with `throw;`, no exception at all, which ends the process.
Reading past the end of an answer is "overread". A reader (`Formats`) is a function
of the wire: what it gets off the front, what is left, and how it went. Readers are
put together from readers, so nothing is recursive but the repetition within an
array; an array of numbers is read as plain numbers.
`Accessors` has the methods the handlers call on the object; they follow arrays
to element 0, which may be missing: what is found there is a sequence of one, or
empty.

`Exchange` is `SendRequestHandler` and `ReceiveResponseHandler` down to the bytes
`read(2)` returns. Brokers answer, close or reset whenever they like, and `Cuts`
says where an answer is split. A header in two pieces counts as a broken
connection; a body is read in any number of pieces, each read asking for
`total_len` bytes; a reset inside a body is reported, the broker kept, and the next
write to it raises SIGPIPE, which ends the process ("killed"). The correlation id
is the api key. `Connect` stands for `ConnectNewBroker`.

### The group

`GroupCoordinator` is what the requests and the error codes of the client rely on:
a round ("preparing") ends when every member has joined and makes a generation
("completing") whose leader sends the assignment ("stable"). A JoinGroup or
SyncGroup call blocks until it is answered. A member returns to its generation
without a new round, unless it leads a stable group. A session may end whenever no
SyncGroup call of the member is blocked and it has not joined the round. It is
modelled on Kafka's coordinator of the announced versions.

`GroupClient` adds nothing to the client: each of its actions is one of `Network`
with the response the coordinator, the log or the committed offsets give. A call
that blocks is two steps (`JoinSent`, `Joined`), and a failed exchange may have had
its effect or not (`Reset`, `Commit`). `printed`, `resetTo` and `disturbed` are
history variables. One broker leads every partition and is the coordinator, so
what a second broker adds is left to `Network`. `disturbed` has the partitions whose
committed offset was put there by a reset of a client that does not own them; the next
commit of an owner takes them out again.

## Runs

| Run | Shows | Size |
|---|---|---|
| `client` | the invariants of one client, that a join has a connection but in one case, that a round shrinks with every exchange, that its two traps are final, and that it implements `BrokerSet` | 2 brokers, 2 partitions, 1 member id, 1 generation, offsets 0..1 |
| `recovery` | the client comes back into the group | 2 brokers, 1 partition |
| `assignment` | the leader's loop: one owner, balance, no step past the end, the closed form, an end | every order of up to 5 partitions, up to 6 members |
| `connections` | no aliasing while connects succeed and no descriptor is shared; the two ways an open connection is lost; the loops implement `BrokerSet` | 3 brokers, two of them on one ip, 2 ids of the list, 4 descriptors |
| `message_sets` | complete messages kept, next partition found, size check agrees, one case without a last offset | up to 2 partitions of up to 2 messages of 14 or 17 bytes, cut at every byte |
| `exchange` | brokers read what was meant, nothing is left on a connection, an exchange ends, and how it may end the process | 2 brokers, 21 requests, answers cut in five places |
| `group` | one owner, nobody left out, no message lost, an expelled client stays out | 2 clients, 3 member ids, 5 generations, 1 partition, 1 fault |
| `group_split` | no message lost while two partitions are shared and handed over; which resets overwrite a committed offset | the same, 2 partitions, no fault |
| `group_live` | somebody fetches again and again | 1 partition, no fault |
| `coordinator_up` | a refresh can change the coordinator silently | violation |
| `down_broker` | a failed connect returns a closed descriptor | violation |
| `expelled_rejoins` | an expelled client never gets in again | violation |

What some of the properties say of the code:

- `RoundStartsConnected` says that a round in the group begins with a connection to
  the coordinator, `JoinsConnected` that a join does, with one exception, which the run
  reaches: a reset commit of `FetchValidOffset` is refused with a fencing error, which is
  remembered; the offset exchange of a later entry erases that entry's leader, which is
  the coordinator (`network.cc:768-778`); and the remembered error sends the client to
  `JoinGroup`. The join fails, and `SyncGroup` is one of the two traps.
- `LossesKnown`: an open connection is lost only when a refresh assigns
  `alive_brokers_`, and then for one of two reasons: it is of the broker list and no
  broker of the response has its ip, so that `DisconnectDownBroker` skips its negative
  id; or another connection has the same ip, and `GetFdFromIp` has given that one to
  both. A connection counts from the time it is opened; one opened in the refresh itself
  is not lost.
- `EndingsKnown`: an exchange ends the process only in these ways: a request that
  overflows the 2048 bytes of `Send` (about more than 120 partitions, or of a leader
  with more than ten members or more than 80 partitions to hand out), and an answer with
  nothing for the member: a SyncGroup answer that stops where the assignment should be
  (its length is `NoAssignment`), or an OffsetFetch or Fetch answer for no partition,
  whose element 0 is read. Besides there is SIGPIPE, which may end any exchange and of
  which it says nothing.
- `NothingLost`: every message before a committed offset has been printed by
  somebody or was skipped by a reset, whoever commits and whatever is lost. The
  exception is real: `FetchValidOffset` resets every entry of `partition_offset_`,
  also of a partition that has gone to another member, and commits the newest
  offset over what the owner has committed; `group_split` reaches that.
  `OwnResetsSpareCommitted` is about the resets of the owner: they replace no offset that
  an owner has committed. They may replace one that such a reset of somebody else has put
  there just before (`disturbed`).
- `ExpelledForGood`: the error of a join response is not read, the one of a sync
  response throws before it can be, so the client rejoins with an id the
  coordinator does not know. `expelled_rejoins` holds the comment "rejoin" against
  that. Both are about a cluster whose every metadata answer lists the coordinator, as
  the one broker of `GroupClient` does. In a larger one a refresh that misses it goes on
  to `DiscoverCoordinator` and a join with an empty id (`network.cc:521-526`), which is a
  way back.
- `KeepsFetching` says "somebody": a follower may starve. A leader that goes back to
  `JoinGroup` after each refresh starts a round whose assignment a follower may
  miss each time.

Comments that are not what the code does, and are in no run because the
difference is in one expression: `FetchValidOffset` returns 1 for success and for
an error of the response where `network.cc:726-729` says 0 and the error; the
picture of "Range" (`network.cc:307-311`) has partitions in the order of their
numbers, the code in that of the map; `DisconnectDownBroker` is to disconnect what
is "in old, but not in new" (`network.cc:390`) and leaves the ids of the broker
list open.

### Bounds

Two brokers separate the coordinator from a leader and allow a pointer to read
the wrong one of two; two partitions give the loops two elements in two orders,
with the same or different leaders, and let one commit hold two entries. One
member id is enough for one client: with a second one only the size of its own
share changes. One generation: the client compares no two generations. Offsets 0
and 1 tell "at" from "past". Three brokers and four descriptors are one descriptor
short of what two connections of the list and three brokers need, so that
`socket()` fails too. Message sizes 14 (the smallest message) and 17 differ; two
messages put a cut in the first and after a complete one, and two partitions put
a header after a cut.

`exchange` sends every kind of request: about no, one and two partitions where the
client can, with assignments for no, one and two members, and three that do not
fit into the buffer (27 members, 140 commits, 125 fetches). Answers are cut inside
and behind the header, behind the first byte of the body and before its last, which
are the places where `Receive` and `CompleteRead` decide; names have 5 and 4
characters, so that a swap shows.

Two clients are what a hand-over, a leader and a follower take. Three member ids
let one client have a left-over member. The coordinator counts generations without
end; what the client can tell is only whether two numbers are the same. So a round
takes any number that nobody has and nobody is being told (`FreeGenerations`). Five
numbers are enough: the coordinator's, two clients' and those of two answers never
are five different ones in these runs, so a round is never held up for a number. One fault (`MaxFaults`) is a failed exchange or the end of a session
in use, at any point; resets, hand-overs and clients that end are reached without. With two
partitions the fault is left out for the size.

Symmetry is used in `client`, `group` and `group_split`, which check no liveness.

## Fairness

`LiveSpec` of `Network` has weak fairness of `Next`: `Start` calls the handlers
without a pause and the thread is the whole program. It assumes that a blocking
read ends some day; there is no timeout on a socket. `Recovers` adds
`Cooperation`, strong fairness of successful answers: an exchange that is tried
again and again succeeds some day. It is an assumption about the brokers, stated
per handler. It leaves out a coordinator that has forgotten the member id, which
`ExpelledForGood` is about. `TrapsAreFinal` is about two states the code cannot
leave: `Initial` with no broker left, and `SyncGroup` after the coordinator was
erased. `Recovers` shows there is no third. That a round ends needs no fairness
but that of `Next`: `RoundsShrink` gives every exchange inside a round a measure
that falls.

`Exchange`: a broker answers, what it sends arrives, and the client's reads go on
when there is something to return. A broker may leave instead.

`ConsumerGroup`: each client goes on (`Start` again), the coordinator completes a
round when all have joined and expels members that are not in use (their
sessions have a time limit). Strong fairness of `Beat(TRUE)`: heartbeats come back
with more than ten seconds since the last refresh, for time passes. Nothing is
assumed of the session of a member in use.

`PartitionAssignment` and `MessageSet` are loops of one thread: weak fairness of
`Next`.

## Proofs

`NetworkProofs`, for every set of brokers, partitions, members and generations,
from `IdsAssumption` and `OffsetAssumption`: the type invariant, the other five
invariants of `client`, and its action properties with `BrokersAsPromised`.
The type invariant is inductive and is split in two halves (`ControlOK`,
`DataOK`), because most actions change one of them. The safety invariants are not
inductive one by one. That an event matches its handler depends on where it was
set; that `coordinator_` is set depends on the event being matched; that a commit
concerns owned partitions depends on the map by leader being in step with the
assignment. `Inv` is their conjunction with the type invariant and is inductive.
Per group of actions there is a lemma for types and one for safety; `TrapsStay`
goes by the handler each action belongs to. `JoinsAreConnected` needs one fact more, which
is inductive given `Inv`: while `FetchValidOffset` runs, a coordinator that has been
erased has left a negative error code or is the leader of a partition (`ErasureKnown`).

`ConnectionsProofs`, for any brokers, any ips, shared ones included, and any number of
descriptors: the type invariant, `BrokersAsPromised` (initial states map to initial
states, and every step of a loop to a stutter but the last), `OwnConnection`, which says, as
in the run, "while every connect succeeds and no broker was given another's descriptor",
and `LossesKnown`, which holds whatever fails.

`PartitionAssignmentProofs`, for every number of partitions and members and every
order: the type invariant, the iterator never is dereferenced at the end, every
partition has exactly one owner, shares are balanced, the loop computes the closed
form. `Position` says where the iterator is after so many members and pushes
(`DealtBefore`), `Deals` that what was handed out is exactly what lies before the
iterator, each once, and `Shares` that the stored sets are the closed form.
`SharesBalanced` counts a share by the positions it is dealt from (`DealtSize`).
The arithmetic of division is in lemmas.

`ExchangeProofs`, for every set of requests and answers and all cuts, from the
assumption that an answer has the size it announces: the type invariant, with
`sum_read` never beyond `total_len`, and `Drained`. Drained says nothing of an
exchange under way; `Quiet` (only the broker of the exchange has anything to answer
or on its way), `OneAnswer` and `Counted` (bytes read are counted from the
beginning of the answer) make it inductive.

The module also has what is proved of the requests and the answers, for names and ids
of any length, and for any number of partitions, brokers, replicas, offsets and members.

- `RequestsFit`: with names of at most 80 characters together, member ids of at most 60
  and at most 120 partitions, every request but a leader's SyncGroup fits the buffer.
- `SizesCounted`: `CountSize` of every class counts just the bytes `Package` writes.
  `Send` writes `CountSize() + 4` bytes whatever `Package` has written, so this is what
  keeps a broker in step with the client. There is a lemma per nested class
  (`Takes(wire, bytes)`), and the arrays go by the bytes of a concatenation.
- `BrokersReadWhatWasMeant`: a broker that expects the announced version gets from those
  bytes the object the class has packaged, and nothing is left. There is a lemma per
  nested class again (`Reads(reader, wire, value)`: the reader gets the value off the
  front of the wire, whatever comes behind it). `RequestsAreUnderstood` says so of
  what is asked in an exchange, which is always one of the requests that were sent.
- `AnswersAreRead`: whatever a broker may answer to a request, the constructor reads it to
  its end, its size is the announced one, and the handler finds what it asks the
  object for, with two kinds of exceptions: a SyncGroup answer with an error or without an
  assignment, and the answers to an OffsetFetch or a Fetch about no partitions. Per class of
  response, a lemma has what it reads (`Gets`: what is read and how many bytes it
  takes), compares the sizes, and looks into the object (`...Answered`). The size and the
  correlation id in front of every answer are dealt with once (`HeadThen`).
- `EndingsAreKnown` is `EndingsKnown`, with the length of the one SyncGroup answer that is
  read past its end (`OverreadStops`). `Endings` makes it inductive: what a broker has still
  to answer is the request of the exchange (`Asked`), what is on its way is an answer to
  it (`Answered`), and the process ended on a request that was too long, or on one with
  an answer that comes to that end (`EndedBy`). Which answers do is `AnswersAreRead`, and
  which requests are too long is `LongAreMany`.

The assumptions are on the lists the requests and answers are about (`ProtocolAssumption`,
`ListsAssumption`: of integers, or of lengths) and that the exchange is the one of these
requests and answers (`WireAssumption`, which TLC evaluates on the instance). Hypotheses of
theorems are that the names of topic and group have at most 80 characters together
(`ShortNames`) and, in `EndingsAreKnown`, that member ids have at most 60 (`ShortIds`; they
have 47): with longer names fewer partitions fill the buffer.

`WireProofs` has the facts about sums, wires and readers that this and the parser of
message sets need. Sums, flattened arrays and readers in turn are recursive functions of a
number. That there is such a function and what it returns are proved by induction over a
set of numbers (`SetInduction`, from the well-foundedness of `<`): how many bytes a
concatenation has (`BytesOfBoth`, `BytesOfAll`), that elements that were written one after
the other are read one after the other, and that a format behind another is read as it is
alone (`ObjectBehind`).

`MessageSetProofs`, for any sizes of messages, any bounds and every cut: all
invariants of `message_sets`. They rest on where the parser is: in front of the message
after those it has pushed (`InSet`), or of the header after the sets it has left
(`AtHeader`). `Pushed` says what every partition has, and `Accounted` that the
invalid bytes and the kept ones make up what has been passed. `HeadersFound` needs
nothing else; `SizesAgree` is `Accounted` at the end. That the last message alone may be cut
is in `Sets`, from `Init`. The assumptions are that a message has at least one byte
and that the bounds are numbers.

`ConsumerGroupProofs` and `GroupClientProofs`, for any partitions, member ids,
generations, offsets and number of faults, and for two clients: all invariants and
action properties of `group` and `group_split`. What a client may rely on is split
from what the others may do to it: `GroupClientProofs` has, for each fact, a lemma on
the client's own steps (`...Step`) and one on any step that leaves its variables alone
(`...Else`); `ConsumerGroup` makes an instance for each client, and
`ConsumerGroupProofs` puts the pairs together.

- `IInv`: each client satisfies the inductive invariant of `Network` and `MemberOK`, the
  coordinator `GroupOK`, the log `LogOK`, and no two clients are the same member or are
  being told so (`Apart`). `MemberOK` is what a client knows against what the
  coordinator has sent: in the current generation its partitions are the coordinator's
  assignment of it, a leader that is to send the assignment knows every
  member, and an answer on its way agrees with the round it was made in.
  `OwnersDisjoint` follows from `Apart`, and from the assignment giving a partition to
  one member. That a client with an old generation is not taken for one of the new rests
  on the number being fresh.
  `NobodyLeftOut` is in `GroupOK`.
- `LogInv`: what is committed, what a client is about to commit and what it fetches from
  is covered by printed messages or by a reset. It is inductive given `IInv`.
- `ResetInv`: when a client that owns a partition is about to reset it, nothing is
  committed of it but what a reset of a client that does not own it has put there
  (`disturbed`), as no other owner can commit it in the meantime (`OwnersDisjoint`).
- `ExpelledForGood` goes by the steps of each client: an expelled id is not given again
  while the client has it.

The assumptions are `IdsAssumption`, `OffsetAssumption` and `GroupAssumption` (a broker
exists, the partitions are finitely many, "no answer" and "no bytes" are neither an
answer nor an assignment).

Only model-checked: `Recovers`, `Terminates`, `Ends`, `ExchangeEnds`,
`KeepsFetching`, which are liveness under fairness and out of the prover's reach. Every
invariant and action property of the runs that pass is a theorem.

## Not modelled

`KafkaClient` and `main` construct `Network` and call `Start`; their flag and signal
handler are not used. `StateMachine` and `Node` are not part of the program that is
built; nothing instantiates `BlockingQueue`; nothing calls `NewTcpServer`. `Split`
and `HostnameToIp` are constants of `Connections`. `PrintAll`, the log, the content
and the checksums of messages have no effect on the state. The SIGPIPE that ends
a process after a reset is in `Exchange` and not in `Network`, where the end of the
process adds nothing to the other ends. Two hazards have no property, because
nothing says what the code should do: `at()` with a leader that was erased, and the
deleted response of `HeartbeatTask`.

## Plan

1. Two brokers in `ConsumerGroup`: a coordinator that is not the leader of a
   partition.
2. The contents of a message set in `Responses`, which are bytes there: `MessageSet` has
   them, and that the two fit together (`SizesAgree`) is said of `MessageSet` alone.
3. `BlockingQueue`, if the program comes to use it.
