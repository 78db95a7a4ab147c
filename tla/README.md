# klevret in TLA+

klevret is a network appliance in three processes: a command line (`src/cli`), a
core that forwards its commands (`src/core`), and a DHCP server (`src/dhcp`);
`src/common` holds the connections between them. This directory models the
program's own logic in TLA+, checks it with TLC on small instances and proves
theorems about it with TLAPS for every instance. Everything is written from the
C++ source; `PROJECT.json` names, for each definition, the lines it stands for.

## 1. The system

    operator -> CLI ---- tcp ----> core ---- tcp ----> dhcp: API thread ---+
                (ApiConnector)   (ApiListener,       (ApiListener)         | add_address_pool
                                  ApiConnector)                            v
    DHCP clients ---- udp ----> dhcp: UDP thread -> queue -> dhcp: main_loop -> pools
                <--------------------- broadcast ------------------+

### Components

| component | state | operations | who calls it | modelled in |
|---|---|---|---|---|
| `AddressPool` (dhcp) | range, sets of included and excluded addresses, two maps of reservations, two of leases, a cache | constructor, `get_address`, `reserve_ip`, `unreserve_ip`, `exclude_ip`, `exclude_ip_range`, `release_address` | `DhcpServer`; only the constructor and `get_address` have callers in the repository, the rest is public | `PoolMethods`, `AddressPool`; proved |
| `DhcpServer` | `_address_pools`, `_state_change_mutex`, the local `xids` | `main_loop`, `add_address_pool`, `have_free_address`, `take_address` | the main thread, and the API thread through `dhcp_pool_create` | `DhcpServer`; proved |
| `UdpServer` (`UdpListener.cpp`) | a queue of datagrams and its mutex, a stop flag, sockets | receiving thread, `is_input_queue_blank`, `get_next_datagram`, `broadcast_send_to` | `main_loop` | `DhcpServer` |
| `DhcpMessage`, `DhcpOption` (dhcp) | fields and options of a message | parse, serialise | `main_loop`, `make_offer`, `make_acknowledge` | `DhcpOption`, `DhcpMessage`; proved |
| `ApiServer`, `ApiHandlers` (dhcp) | a table of handlers | the request loop, `dhcp_pool_create`, `dhcp_pool_list` | its own thread | `ControlPlane`, `Connections`; proved |
| core (`core/src/main.cpp`) | one listener, one connector | forward a request, send the reply back | its main loop | `ControlPlane`, `Connections`; proved |
| CLI handlers (`command_handlers.cpp`) | a global connector | take the arguments, send a request and wait, print OK or ERROR | the CLI main loop | `Cli`, `ControlPlane`, `Connections` |
| command tree, line editor (cli) | a tree of commands; a line and a cursor | resolve a line, edit a line | the CLI main loop | `Cli`; proved |
| `ApiListener`, `ApiConnector` (common) | socket, queue, stop flag, thread | accept once, read, queue; connect, send and wait | core, CLI, dhcp | `Connections` (start, failure, restart), `ControlPlane` (once connected); proved |
| `ApiEndpoint`, `TcpListener`, `TcpConnector` (common) | as `ApiListener` and `ApiConnector`, with a thread for each client | start, accept, read, queue, send, stop | tests; `ApiEndpoint` has no user | `Endpoints`; safety proved |
| `IPv4Address`, `IPv4SubnetMask` (dhcp) | 32 bits | order, increment, bytes; masks, prefixes, parsing | the pool, the options | the first three, in `PoolMethods` and `DhcpOption` |
| `NetworkInterface`, `HardwareAddress`, `Defer`, `utils` | the host's interfaces, read once | helpers | the above | not modelled: no behaviour over time; what the server needs of them is whether a datagram's interface was known at startup (`known` in `DhcpServer.tla`) |
| `config`, frontend | | | | not in the repository |

### What is hard, and what makes a component correct

* **One pool, many calls.** Reservations, leases and exclusions overlap on one
  address. No sequence of calls may give an address to two clients, a lease may
  never stand in the way of a reservation, and an exclusion must be complete.
  The loops run on a `uint32_t` that wraps around.
* **Three threads on one server.** `main_loop` checks for a pool and for a
  datagram under locks it lets go of before it acts; the API thread grows the
  vector of pools meanwhile. What was checked must still hold, and a client's
  offers must not depend on the pools added later.
* **One exception ends the service.** Every exception of `main_loop` leaves
  `main`: a datagram that does not parse, a failed send, an exhausted pool.
  The process must end for those causes and for no other.
* **A chain of blocking calls.** The CLI waits in `recv` for the core, the core
  for the dhcp process. A reply that is not sent hangs the chain, a reply too
  many would be taken for the answer to the next request.
* **Start, restart and stop of the connections.** Threads start in member
  initialisers, `accept` is called once, a failed `connect` costs a descriptor,
  `stop` joins threads that are blocked in system calls. A restarted process must
  not be given the answer to a request of its predecessor.
* **Bytes.** The parser moves an iterator by lengths the datagram names, a table
  of 76 options says what is legal, and numbers change their byte order twice.
* **A line and what runs.** The line is edited in one place and the cursor in
  another, an escape sequence may come in pieces, words that match nothing are
  passed over; the handler that runs in the end takes its arguments off a stack
  and throws, uncaught, when they are not there.

`PROJECT.json` lists each hazard with its line and the properties about it.

## 2. The modules

| module | what it is |
|---|---|
| `PoolMethods` | class `AddressPool` as a value: a record with one field per data member, each method an operator on it |
| `Leases` | the abstract specification: a client is granted a usable address nobody else holds; addresses may be withdrawn |
| `AddressPool` | the state machine of one pool under any sequence of calls; refines `Leases` |
| `DhcpServer` | the dhcp process: main, UDP and API threads over a sequence of pools; its first pool refines `Leases` |
| `PoolService` | the abstract specification of the three processes: a command is one procedure call, carried out at most once and answered with its own outcome |
| `ControlPlane` | CLI, core and API thread around an `INSTANCE` of `DhcpServer`; refines `PoolService` |
| `Connections` | start, failure and restart of the three processes and of the connections between them |
| `Endpoints` | `ApiEndpoint`s that face each other, and the threads of a `TcpListener` up to its stop |
| `DhcpOption` | the table of options, the constructor of an option and its bytes, as operators |
| `DhcpMessage` | the parser of a datagram step by step, the reply, and the client that parses it; uses `DhcpOption` |
| `Cli` | the table of commands, the line editor, the analysis of a line and the arguments of a handler |
| `PoolLemmas` | every method of the pool preserves the pool invariant |
| `AddressPoolProofs`, `DhcpServerProofs`, `ControlPlaneProofs`, `ConnectionsProofs`, `EndpointsProofs`, `DhcpMessageProofs`, `CliProofs` | the theorems |
| `MCAddressPool`, `MCDhcpServer`, `MCControlPlane`, `MCDhcpMessage`, `MCCli` | the small instances TLC checks; `Connections` and `Endpoints` need only constants |

`PoolMethods` is shared on purpose: the single pool and the pools inside the
server run the same operators, so the lemmas about them are proved once.

### AddressPool

An address is the number `to_uint32_t()` gives; `AddressSpace` is 2^32 in the
code and a parameter here, so that `NextIp` wraps around where the code does. A
`std::map` is a total function with `NoIp` / `NoMac` for an absent key.
`get_address` returns a set with the one address, or the empty set when the call
throws; `Take` is what the call does to the maps. The constructor and
`exclude_ip_range` take one step per address (`ConstructInsert`,
`ExcludeRangeStep`), all other methods one step. A pool is used by one thread at
a time (under the server's lock), so calls do not overlap. `_options` is left
out, nothing reads it back except the unfinished `to_ptree`.

### DhcpServer

Each critical section is one action, named after the code where it has a name.
`pc` is where main stands between two of them:

    have_free_address -> is_input_queue_blank -> get_next_datagram -> handle -> send
           ^                    | (empty)                              |        |
           +--------------------+--------------------------------------+--------+

`handle` covers the code from the lookup of the interface to the construction of
the reply: it touches no state other threads write except inside `take_address`,
which holds the lock. A datagram is reduced to what this code tells apart (known
interface, parses or not, op, option 53, transaction, client). Undefined
behaviour is a choice: for an unknown interface, `UnknownInterface` ends the
process, and the other actions of `handle` are the process going on. `offers` is
a history variable; the code does not have it and no action reads it.
The API thread builds its pool before it takes the lock (`CreatePool`, then
`add_address_pool`). For a range that ends with the last address the constructor
does not return, so `add_address_pool` is never enabled; that the service goes on
meanwhile is the behaviour until memory runs out, which is not modelled.

### ControlPlane

The behaviour starts with both connections up. Each direction of each connection
is a sequence of messages; a message is far shorter than the 10 KB buffers, and
`OneUnderWay` shows that two never meet in one `recv`, which is why a `recv` can
be modelled as taking one message. The listeners' threads move messages to their
queues (`CoreListen`, `DhcpListen`). The core stays in `send_and_whait_reply`
(`waiting`) until there is a reply or the dhcp process is gone. After such a
failure the core sends no reply, so the CLI waits for good and sends nothing
more: that is why the `SIGPIPE` of a second send over the broken connection
cannot happen in this model. A handler without a reply (`ApiUnknown`) consumes
the request. The server inside is `DhcpServer`'s own actions, conjoined with what
the API thread does to its connection.

The CLI always sends the component `dhcp` (the core answers no other one).
`CliSend` asks for a pool only while `Len(pools) < MaxPools`, and the API thread's
own guard is then never the reason for a wait.

### Connections

`ControlPlane` begins where everybody is connected; this module has how they get
there and what is left when one of them dies. Each process is its main thread
(`pc`), with the thread of its `ApiListener`; `gen` counts how often it was
started, and a request, a waiting connection and an accepted one are told by the
`gen` of their owner. The order of the members in `ApiListener.hpp` makes the
thread start before `_stop_flag` is initialised: what it reads there is a choice
(`SeesGarbage` is the thread that found true and left). `Accept` happens once, and
takes whoever waits longest, dead or alive. `ConnectFails` leaks the socket; at
`MaxFds` neither it nor `Connect` is possible, and the constructor goes round for
ever. `Die` is what the kernel does for a process: its descriptors close, its
peers see the end of the stream or a reset. The first send after an end of stream
fails in the `recv` that follows (`CoreSendFails`: caught, request forgotten), the
second raises `SIGPIPE` (`CoreSendKills`). A `socket`, `bind`, `listen` or `accept`
that fails throws and ends the process, which `Kill` stands for. `ConnectFails`
needs no reason: a refused connection fails at once, one for which the backlog has
no room after the kernel's timeout. `SendReply` reaches whoever was
accepted, and nobody if that incarnation is gone.

### Endpoints

Any wiring is an initial state: a client's `remote` is an endpoint, itself
included, or a listener outside. The connector is constructed first, so
`Connect` is what lets an endpoint's listener exist. `acceptor` is where the
thread of a `TcpListener` is, `conn` where a client's connection is (waiting,
accepted, with a handler in `read`, left, reset before it was accepted or when its
listener's process ended, or broken: reset, and written to once). The
loops look at `_stop_flag` only after `accept` or `read` has returned; since it is
set as long as `stop` has not returned, `Stopping` stands for it. Messages are
numbered on their connection, and a `read` takes any number of those that are
there: two of them make one packet, which does not parse. The properties are
about the packets. Each client is a process of its own: its first `send` on a reset
connection is lost unnoticed (`SendFails`), the next raises `SIGPIPE` and ends it
with all its threads (`SendKills`). A visitor may also reset its connection
(`ReadFails`: the `break` on -1), which a `TcpConnector` never does.

### DhcpOption and DhcpMessage

A value is its type and its bytes; for a number these are its digits, most
significant first, so that `network_to_host_endian` is the identity on them and
writing the host's memory reverses them on a little-endian host. A client's
message is a record with a sequence of entries; `Encode` writes it as RFC 2131
and 2132 say, which is the reference the parser is held to. The parser is one
action per turn of its loop. `Reply` builds the answer of `make_offer` or
`make_acknowledge` from the fields that were read, and the same parser then runs
on the client's side. The choice of the address is in `DhcpServer`. A message may end
in a `tail`: an option that breaks off, without a length, with a payload that runs
past the end of the datagram or with a list whose last element is not whole; with
the tails every sequence of bytes behind the cookie is an input. The code compares
no iterator with `data.end()` while it reads an option, so that what it does with a
tail is undefined unless the constructor throws first (`RefusedUnread`): `Overrun`
lets it throw, end the process or go `"astray"`, of which nothing more is said. The
question is then when it gets there: `StaysInside`. Lengths of `sname` and `file` are parameters, their
content is zero on both ways.

### Cli

A word of a command and an address are one character each; with spaces and other
characters this keeps all the ways a line can be taken apart. The tree is the set
of prefixes of the commands (`childs`). A stroke is what the terminal sends at
once; `Escape` gives each of the two bytes the code reads after ESC the choice to
come too late. `analyze_command` runs part by part (`Take`, `Skip`), `pc` says
which key called it. `ran` is a history variable: the last line entered, the
command that ran and its arguments. "dead" is an exception nothing catches.

## 3. What the runs check

| run | instance | shows |
|---|---|---|
| `AddressPool` | 4 addresses, every range, 2 clients, fairness | the type invariant and `OneHolderPerAddress`, `ReservationsHonoured`, `RangeAccounted`, `RangeExclusionComplete`; the pool implements `Leases`; the loops end (`LoopsTerminate`), except the constructor's for a range that ends with the last address |
| `AddressPool_inclusive` | 3 addresses, fairness | violation: a range that ends with the last address is never constructed |
| `AddressPool_taken_maps` | 3 addresses, 1 client | violation: a client that moves to its reservation leaves its old address in the other map of leases |
| `DhcpServer` | 5 addresses, 2 clients, 2 transactions one of which both use, 5 ranges, 2 pools, queue of 2, every kind of datagram, fairness | `ChecksStillHold` while both the queue and the vector of pools grow between check and use; `TerminatesOnlyWhen`, `AckNamesOwnLease`; pools overlap only by enclosure; offers are exclusive and later pools do not disturb them, and the first pool implements `Leases`; a queued DHCPDISCOVER is answered or the process ends (`DiscoverAnswered`) |
| `DhcpServer_disjoint` | 2 pools | violation: a pool around an existing one is accepted |
| `ControlPlane` | 5 ranges, 2 pools, 3 commands, a server that may die, fairness | `OneUnderWay`, `AnswerTruthful`; the three processes implement `PoolService`; every command is answered except in three cases |
| `ControlPlane_unanswered` | commands without pools, fairness | violation: `ip address` is never answered |
| `Connections` | 3 starts of each process in any order, kills at any time, 3 descriptors, fairness | `NoStaleReply`, `OnePlace`; processes that stay connected answer every command, whatever came before (`ConnectedIsServed`); the first start connects everybody but for two causes, exhausted descriptors and a listener's thread that has left (`StartsInAnyOrder`) |
| `Endpoints` | 2 endpoints and a visitor, every wiring, 2 messages each, fairness | `FacingNeverStand`: endpoints that face only each other never stand; `MessagesInOrder`: threads that share a queue neither lose nor reorder the messages of a client; `StopReturns`: a stop returns if one more connection comes and all clients close |
| `DhcpMessage` | 1 to 3 options of every payload type, at the edges of lengths and values, pads, ends, options that break off in each way, short and foreign messages, fairness | `ReadsWhatWasSent` at every turn of the loop; `RefusesOnlyIllegal`, `AcceptsOnlyLegalOrShort`: whatever the order of the options, what is refused is illegal and what is passed is legal but for minimum lengths; `StaysInside`: the loop leaves the datagram only for an option that breaks off before the end option; `ReplyIsUnderstood`: the client finds its transaction, address and options in the answer; `OptionsSurvive` being written and read again; `ParseEnds` for datagrams without such an option |
| `DhcpMessage_lease_time` | same | violation: the lease time arrives with its bytes reversed |
| `Cli` | lines of the words of the six commands, addresses and spaces, arrows, ESC sequences in pieces, BACKSPACE, TAB and ENTER | the cursor stays on the line (in `TypeOK`); `NeverDies`; `RunsWhatWasTyped`: a command that runs was on the line, with its arguments in order; `WholeCommandRuns`: no command hides another |

**Bounds.** `MaxQueue` and `MaxPools` bound memory, which the code does not; the
ranges, commands and datagrams offered are small sets that contain one of each
kind the code tells apart: inside, around, beside, reversed, and up to the last
address for ranges; for datagrams each way through `main_loop`. Four addresses
give a range a first, an inner and a last address and room outside; a conflict
over an address needs two clients, and pools of one address are exhausted by two.
An overlap is between two pools; a pool or datagram that comes between a check of
`main_loop` and its use needs room for a second one. Three starts let a connection of a dead
incarnation be accepted while a later one waits; two endpoints face each other or
one another in a chain, and a visitor is the connection `stop` waits for. Three
options put a pad, an end or another option before and after each kind. In `Cli`
there is room for every line of four characters over the words of the ip commands,
every line of three with the bytes of an arrow key, and the longer commands with
any of their words and spaces left out or a stray word between (`MCCli`). `SnameLength` and `FileLength`
shorten fields nobody reads. The theorems of section 5 do away with the bounds
for the safety properties they cover.

**Deadlock** is checked for `AddressPool`, whose caller can always make another
call. `DhcpServer` and `ControlPlane` really stop: the process ends, and the
control plane hangs after a command without an answer. So do `Connections` (each
process has used its starts and nobody can be killed or connect), `Endpoints`
(all destroyed, or waiting for each other) and `DhcpMessage` (one datagram, and
its reply, have been read). In `Cli` a line that has no room among `Lines` cannot
be typed on. Their cfgs say `CHECK_DEADLOCK FALSE`.

**Fairness.** `AddressPool`: a call that has begun keeps running. `DhcpServer`:
the scheduler runs main (it never blocks: it spins, sends on UDP sockets, and
takes mutexes that are held for short sections) and the API thread once a request
is in its hands. Nobody is obliged to send anything. `ControlPlane`: each thread
that can go on does; nothing is assumed of `main_loop`, the network or the
operator. All of it is weak fairness: no thread here needs a lock that others
could keep taking from it, each section being short. `Connections`: a process that
was started is scheduled, with the threads of its listener; nobody has to start,
restart or kill one, or to enter a command. `Endpoints`: the threads run, and a
`stop` that may return does; nobody has to connect, send, close or destroy.
`DhcpMessage`: the parser keeps running. `Cli` has no liveness property.

## 4. Where the code and its words differ

The five `violation` runs are these; `PROJECT.json` quotes the lines. A range
"inclusive" of the last address is never built. A client that has a lease and then
a reservation is given the reserved address, and its old one stays in
`_taken_ip_addresses`, lost to the pool, though `AddressPool.hpp` says that the
maps go together. Pools that intersect are accepted when the later encloses the
earlier. One command of the CLI, `ip address`, has no handler in the server, whose
catch-all sends no reply, so the CLI and the core wait for ever. An option with a
number goes out in the byte order of the host: the lease time of a day arrives as
2152792320 seconds.

Other differences, which no run is about:

* The table of options gives lists and strings a minimum length, and
  `DhcpOption.hpp:68` says it is "for arrays and lists of fields"; the constructor
  enforces it for byte arrays alone, and not for an empty one. `Short` says which
  options pass that way, and `AcceptsOnlyLegalOrShort` that no others do.
* `reserve_ip` leaves the address of an earlier reservation in
  `_reserved_ip_addresses`, though those maps go together as well.
* The cache a comment in `get_address` speaks of is never filled.

## 5. What is proved

For every address space, set of clients and transactions, traffic and bound, from
`AddressSpaceAssumption` (there is an address), `NoIpAssumption` and
`NoMacAssumption` (the sentinels are not addresses and not clients), and for the
server `TrafficAssumption` and `RequestsAssumption` (what comes in has its type;
`DhcpAssumption` and `CommandsAssumption` say the same in `ControlPlane`).

*The pool* (`PoolLemmas`, `AddressPoolProofs`). `OneHolderPerAddress` is not
inductive: to know that `get_address` cannot hand out a held address one needs
that leases are recorded in `taken_ip`, that reservations are recorded in
`reserved_ip`, and that nobody else holds a reserved address. `PoolInv` says
exactly that, in one direction only: each client's entry is mirrored by its
address's entry. The other direction is false (section 4). It also says
that the cache is empty, which the argument needs because `get_address` would
hand out a cached address unchecked. Each method preserves `PoolInv`
(`TakePreserves`, `ReservePreserves`, `UnreservePreserves`, `ExcludeFields`); the
inductive invariant `IInv` of the state machine adds the two loop invariants, for
which `UptoNext` is the arithmetic of a wrapping range. Theorems: `TypeCorrect`,
`OneHolder`, `ReservationHonoured`, `RangeAlwaysAccounted`, `RangeExclusion`,
and `Refinement` (the pool implements `Leases`).
`LeasesExclusive` is what the refinement is for: that no two leases share an address
follows from `Leases` alone (`AbstractLeasesExclusive`), and the pool inherits it.

*The server* (`DhcpServerProofs`). The server only constructs pools and calls
`get_address` on the first, so its pools satisfy `ServedPool`, which is stronger
than `PoolInv`: no reservations, nothing excluded, and the two maps of leases
mirror each other in both directions. `MainHolds` says which datagram and reply
main has in its hands at each `pc`, which `TerminatesOnlyWhen` refers to. `OffersExclusive` speaks of the
history and needs `OffersHeld`: each offer, and the one main is about to send, is
the lease of its client in the first pool, where leases are permanent.
`XidsOffered` ties `xids` to the offers for `AckNamesOwnLease`. `LeastElement` (a
nonempty set of naturals has a least element, from the library's
`WFMin`) shows that `get_address` throws only when every address of the pool is
leased, hence `TerminationCauses`. `Overlap` is arithmetic on ranges, carried from
pool to pool; `Refinement` follows from what a step does to the first pool
(`NextFirstPoolStep`).

*The control plane* (`ControlPlaneProofs`). `OneUnderWay` counts messages; the
invariant `Alone` says the same without counting (a message in one place excludes
one in each later place), which is inductive together with the fact that whatever
is under way belongs to the command the CLI waits on. `AnswerTruthful` needs that
already of the replies on their way (`ReplyHere`), and survives the server's steps
because a pool is never removed or resized (`PoolsStay` of the server, used in
`TruthKept`). `ServerStep` shows that each step is a step of the server or leaves
it alone; with it the server's invariant is not proved again but taken over from
`DhcpServerProofs`, instantiated as `Server`. `PoolService` knows nothing of
connections, queues and threads: a call is pending, then it has an outcome, then it
is answered. Its calls are requests somewhere on the way in, its outcomes replies
somewhere on the way back, its ranges those of all pools. That a step which moves a
message is a stutter, that the handler's is one call carried out and the CLI's the
answer to that call, all need `Alone`; that `main_loop` leaves the ranges alone is
`ServingKeepsRanges`. Theorems: `TypeCorrect`, `OneMessage`, `TruthfulAnswers`,
`Refinement`.

*The connections* (`ConnectionsProofs`), from `BoundsAssumption`. `NoStaleReply` is
about the moment a process does not wait; what makes it true lies where its request
was before. The invariant follows the request: while it is unread, queued, or in
the hands of the core, its owner waits and has no reply (`OwnerWaits`); a listener
holds one request at most, of the connection it accepted (`OneRequest`). A restart
must not let an old connection pass for a new one, hence `Known` (whatever is left
of a connector is of an earlier incarnation) and `Unconnected` (an incarnation
that has not connected is neither accepted nor in the backlog), and `Unaccepted`
for the listener's side. One lemma per action shows the six conjuncts. Theorems:
`ConnectionsTypeCorrect`, `NoReplyIsStale`, `RequestsInOnePlace`.

*Endpoints* (`EndpointsProofs`), from `NamesAssumption` and `MaxSentAssumption`. The
invariant adds `NoListenerYet` (an endpoint still in its connector has no
listener) to `FacingNeverStand`: the first of a set to leave its connector would
need the listener of another one of the set. Theorems: `EndpointsTypeCorrect`,
`FacingEndpointsDeadlock`, for any number of endpoints and any wiring.
`MessagesInOrder` holds of one queue that the threads of all clients fill:
`Carries` says that the packets of a client in it follow each other without a gap,
from the last message taken to the last one read; `CarriesAppend`,
`CarriesAppendOther` and `CarriesTail` are what a push of the client, a push of
another one and a pop do to that, and `QueuedAtRemote` keeps a client's packets in
the one queue of the listener it connected to, so that what is popped there is all
that was taken of it. Theorem: `MessagesStayInOrder`.

*Messages and options* (`DhcpMessageProofs`), from `LengthsAssumption`,
`SentAssumption`, `AddressesAssumption` (what clients send and the server gives has
its type: `Messages` are those of any number of entries of any payload) and
`LittleEndianAssumption`. The properties compare what the parser has with a message
it never sees, so the invariant `Inv` has to say where that message lies in the
bytes. `DataInv` does so for either side: the server's datagram is `Datagram(sent)`,
and of the client's, `AnswerIs` says which fields and entries lie in it. `Placed` is
the layout of a sequence of entries behind the cookie. `ParserInv` follows the loop:
between two options there is a number n such that the parser stands where the entry
n + 1 begins and its options are those of the first n entries without the pads, each
accepted (`ReadSoFar`); it stops at the end of the entries or at an end option,
throws only for a bad header, an entry the constructor refuses or the tail, and
gets out of the datagram only at the tail. One lemma per action shows that; that the
parser stands at the tail exactly when an option breaks off there, and nowhere
before, is what `WholeOption` and `LeftIsTail` say of the bytes that are left. What lies where comes down to `FlattenLayout`: in a flattened
sequence the i-th part lies behind the ones before it. `FlattenSeq` is a fold, and
inductions over its steps are made for sets (`UpTo`, from the library's `WFMin`).
About the constructor: `AcceptsIsLegal` (what it refuses is what the table forbids,
but for the minimum lengths in `Short`), `PayloadIsRead` (its values are the
bytes of its payload in their order) and `OptionSurvives` (they come back when they
are written and read again), over the whole table and for payloads of any length.
Theorems: `DhcpMessageTypeCorrect`, `WhatWasSentIsRead`, `OnlyIllegalIsRefused`,
`OnlyLegalOrShortIsAccepted`, `ParserStaysInside`, `ReplyIsRead`, `OptionsAreKept`,
and `DhcpMessageInvariant` they follow from.

*The command line* (`CliProofs`), from `CharactersAssumption` and
`StrokesAssumption`. `NeverDies` needs that the stack mirrors the node
(`StackMatches`: it is as long, and where an element is an address so is the value); with the table
of commands it gives each handler its arguments, and with the cursor on the line
erase its position. `RunsWhatWasTyped` needs to know that each element of the node was found in
the line behind the one before it, and its value put on the stack (`FoundAt`): the
arguments a handler pops are then the last addresses found (`ArgumentsAreLast`).
`WholeCommandRuns` needs the converse for a line that is a command: the node is
always as far along that command as the line is analysed (`OnCommand`), since at each
node a word fits one child at most (`OneElement`), and a command that ends has no
longer one behind it (`NoPrefix`), both of which are read off the table. Theorems:
`CliTypeCorrect`, `CliNeverDies`, `CliRunsWhatWasTyped`, `CliWholeCommandRuns`, for any characters, addresses, keys and lines.

*Only model-checked:* the liveness properties (`LoopsTerminate`,
`DiscoverAnswered`, `AnsweredUnless`, `ConnectedIsServed`, `StartsInAnyOrder`,
`StopReturns`, `ParseEnds`), which need fairness and `ENABLED`, out of the
prover's reach. Every other property of a passing run is a theorem.

## 6. What is not modelled

* What the parser does once an option has run past the end of its datagram: the
  code's iterators are then in foreign memory and anything may follow. `Overrun`
  leaves it at "thrown", "dead" or "astray". In `DhcpServer` such a datagram is one
  that does not parse.
* Writing a flag option (`UndefinedData`): the function has no return for it, and
  the server writes none.
* Parsing of addresses: `dhcp_pool_create` parses both ends of the range
  (`ApiHandlers.cpp:8-9`), and for a text that is no address the exception is
  caught at `ApiServer.cpp:69` and no reply is sent, as for an unknown command. The
  CLI sends only what its own check has found to be addresses (one step of `Cli`),
  so that no request of `ControlPlane` gets there.
* Printing of addresses, masks, prefixes, decrement, IPv6: nothing in the server
  calls them.
* A UDP socket that cannot be created or bound at startup: it throws, and the
  process has not begun.
* `_options` of a pool (written, never read), `to_ptree` and the configuration
  (never called, nothing is persisted: a restarted server begins anew, and there
  is nothing to state about it that is not stated of a first start).
* The destructors of `UdpServer` and `ApiListener`: their owners run for ever, or
  end by an exception nobody catches, which does not unwind.
* The descriptors of a `TcpListener`, whose handlers never close them; memory
  exhaustion; logging; the enumeration of interfaces; what the CLI draws.
* Errors of `recvmsg`, which end an iteration of the receiving thread without an
  effect.

## 7. Plan

Done: the pool, the server and the control plane with their refinements; the
connections with restarts; endpoints and their stop; messages and options; the
command line. Left, in this order:

1. `DhcpExchange`: clients that retry over a lossy network against `DhcpServer`,
   with colliding transactions: a client binds only an address it was offered,
   and two bound clients differ within one life of the server.
2. `ControlPlane` with the restarts of `Connections`, to join the two views of the
   same connections by a refinement.
3. Masks and prefixes as functions against a reference definition, once something
   uses them.
