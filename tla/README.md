# Communication-Protocols: a verification project

The repository holds three independent C/C++ programs:

| program | where | what it is |
|---|---|---|
| pub/sub | `src/Client-Server-TCP-UDP/` | a `select()` server that takes datagrams from UDP publishers and forwards them to TCP subscribers, with store&forward for absent ones; the subscriber program; a Python load generator |
| router | `src/Packet-Routing-IP-Eth/` | the dataplane of an IP router: forwarding, ARP cache, packet queue, routing-table lookup |
| REST client | `src/Client-Web-RestAPI/` | a command-line client of a library web service over HTTP |

This directory models the three of them, checks them with TLC and proves, with
TLAPS, every safety property the runs check of the pub/sub server, the router,
its routing table and the REST client, and that the pub/sub server refines an
abstract broker. Of the JSON library the REST client is built with, all calls are
modelled and model-checked against a contract, and the calls that work on one
object or array are proved to keep to it.

## 1. Inventory

### 1.1 Pub/sub server (`server.cpp`, `helpers.cpp`)

*State.* `active_fds`, `tmp_fds`, `fdmax` (the `select()` sets); `buffer` (one
receive buffer for everything); `s_message` (the last decoded command);
`online_clients`, a map socket -> client; `all_clients`, a list of
`struct client` (identifier, online flag, list of topics with a store&forward
flag, list of pending messages).

*Operations.* One branch of the loop body per event: accept a connection and
read its identifier (admit or refuse); a datagram (broadcast and store, or
refuse); a line on stdin; a subscriber's command; a subscriber's end of file.

*Interactions.* TCP connections with subscribers, a UDP receive queue. The
subscribers and publishers are other processes: they act between any two steps
of the loop, also between the `select()` that reports a descriptor and the
branch that serves it.

*What is hard.* The order of events within one sweep; what happens between a
subscriber's leaving and the server's noticing; identifiers that come back; TCP
streams without message boundaries; half-closed and reset connections; state
left over from an earlier event (`buffer`, `s_message`, freed heap blocks).

*What makes it correct.* The map, the flags and the descriptor set agree; no
handler of a sweep blocks; a message reaches each subscriber at most once, is
stored only for those who are away and asked, and leaves the store only by
being sent; subscriptions survive reconnection; whatever waits is served.

### 1.2 Subscriber (`subscriber.cpp`)

State: the socket, the line being read. Operations: connect, announce the
identifier, send a line, print a message, leave (on `exit`, on the server's
notice, at end of file). Stdin is served before the socket.

### 1.3 Publisher (`udp_client.py`, `utils/`)

A load generator; for the server it is any sequence of datagrams.

### 1.4 Router (`router.c`, `queue.c`, `list.c`, `skel.c`)

*State.* The routing table (read, then sorted once); the ARP cache; a queue of
packets; one receive buffer.

*Operations.* Sort; look a destination up (binary search, then a walk back over
equal prefixes); per frame: answer an ICMP echo for the router, report an
unreachable destination or an expired time to live, forward, answer an ARP
request, take an ARP answer and go through the queue.

*Interactions.* Frames on the wires of its interfaces, hosts on them, which are
not part of the repository.

*What is hard.* The queue holds pointers to the one receive buffer; what the
cache becomes depends on the order of answers; frames are rewritten in place
before they leave; the search compares a destination under a different mask at
each step; bounds computed by hand.

*What makes it correct.* What it passes on was offered, intact, one less to
live, on a route to its destination; its own messages go back to who caused
them; what a host takes from the wire is for it; ARP says the truth; packets that
wait for an address leave when it is known (they do not, section 5); the sort is a
sort; a route that is returned matches,
and is the longest of its prefix.

### 1.5 REST client (`client.c`, `helpers.c`, `buffer.c`)

*State.* `cookies[0]` (session cookie) and `cookies[1]` (access token); the
rest of the last response `strtok()` was given; one socket per command; per
exchange the locals of `receive_from_server()` and the buffer.

*Operations.* One per command (register, login, enter_library, get_books,
get_book, add_book, delete_book, logout, exit): connect, ask what the command
asks, send a request in as many writes as it takes, read a response in as many
reads as it takes, and do with it what the command does.

*Interactions.* A web service at the other end of the connection, which is not
part of the repository: it answers, refuses, closes or resets at any time.

*What is hard.* Framing over arbitrary reads, with and without a length; signed
and unsigned positions; a connection that ends early; credentials kept over
failed, repeated and refused commands; null pointers where a response lacks what
is looked for; descriptors that are never closed.

*What makes it correct.* It acts on whole responses; it takes nothing for
success or for a credential that is not; cookie and token belong together; every
command ends.

### 1.6 JSON library (`parson.c`, `parson.h`)

*State.* Trees of values: objects with tables of names and values, arrays,
strings, numbers, words; a parent pointer per value.

*Operations.* Make, parse, serialise, compare, copy, link (`set`, `dotset`,
`append`, `replace`), look up, remove, clear, free.

*What is hard.* `malloc()` may fail in the middle of each of them; who frees
what, once; a pair that is removed is replaced by the last one; a dotted name
makes objects on its way and takes them away when it fails; what is escaped when
written must be unescaped when read.

*What makes it correct.* Every value has one owner, nothing leaks or is freed
twice, names are unique, a call that fails changes nothing, a copy is whole, and
what is written is read back.

## 2. Modules

| module | models | role |
|---|---|---|
| `Network` | kernel TCP and UDP (external) | connections, byte streams, resets, UDP queue; the constants shared by all |
| `Server` | `server.cpp`, `helpers.cpp` | the loop, one action per branch and per way of ending |
| `Subscriber` | `subscriber.cpp` | one run of `./subscriber` |
| `PubSub` | their composition | `Next`, fairness, the properties |
| `Broker` | the promise of the server | abstract specification |
| `PubSubInv` | | the two inductive invariants, `IndInv` of the server and `DeliveryInv` of what reaches a subscriber, in named parts |
| `BrokerProofs`, `PubSubProofs`, `RefinementProofs`, `DeliveryProofs` | | the theorems |
| `RouteTable` | `router.c` 21-145 | sorting and lookup, one action per call, round or probe; its inductive invariant |
| `RouteTableProofs` | | the theorems about the routing table |
| `Router` | `router.c` 147-406, `skel.c`, `queue.c` | the forwarding loop, one action per branch |
| `RouterNet` | hosts and wires (external) | the router among hosts, its properties and inductive invariant |
| `RouterProofs` | | the theorems about the router |
| `HttpExchange` | `helpers.c`, `buffer.c`, the service (external) | one connection, request and response, in parts |
| `RestClient` | `client.c`, the requests of `helpers.c` | the loop of commands, credentials, properties, inductive invariant |
| `RestProofs` | | the theorems about the REST client |
| `JsonHeap` | `parson.c`: values in memory | pure operators from heap to heap; `malloc()` succeeds `fuel` times |
| `JsonTree` | `parson.c`: dotted names, deep copy | the recursive ones |
| `JsonText` | `parson.c`: parser, serialiser, comparison | pure operators on texts and heaps |
| `JsonForest` | what `parson.h` promises of the values | the state of a program, its properties, and `Contract`: what any call may do |
| `JsonCalls` | a program that uses `parson.h` (external) | the calls that work on one object or array; `PlainSpec` |
| `Json` | such a program (external) | all calls; text, copies, names |
| `JsonProofs` | | the theorems about the JSON library |
| `MCPubSub`, `MCBroker`, `MCRouteTable`, `MCRouter`, `MCRest`, `MCJson` | | instances for TLC |

`PubSub` EXTENDS `Server` and `Subscriber`, which EXTEND `Network`. `Broker` is
instantiated in `PubSub` as `Promise` with the refinement mapping. `RouterNet`
EXTENDS `Router`. `Router` takes what `get_best_route()` may return for a
destination as the constant `Lookup`, so that its theorems hold for whatever
`RouteTable` computes. `RestClient` EXTENDS `HttpExchange`. `JsonTree` and
`JsonForest` EXTEND `JsonHeap`, `JsonText` `JsonTree`, `JsonCalls` `JsonForest`,
and `Json` EXTENDS `JsonText` and `JsonCalls`; `JsonProofs` is about `JsonCalls`,
which reaches no recursive operator. `RestClient` takes of the library the one
fact it uses, that a text that is cut gives nothing (`Parsed`); it is part of
`RoundTrip` in the run `json` (`CutIsRejected`).

### 2.1 How the model corresponds to the code

* `srv = "recvId"` is the server blocked in the `recv()` of `server.cpp:96`, the
  only call of a sweep that waits. `AcceptConnection` ends there, `AdmitClient`
  or `RefuseClient` continues when the identifier or the end of file is there.
  Every other branch runs to its end without giving others a chance to be seen,
  so it is one action.
* `tmp_fds` holds the descriptors of the sweep that are still to be served;
  `Turn(f)` says `f` is the lowest of them, which is the order of the `for`.
* A subscriber run is a member of `Procs`; running the program again under the
  same identifier is another member. `peer[f]` is the run behind descriptor `f`.
* `up[p]` is the stream from `p`: its identifier, then lines. One `recv()` takes
  any non-empty prefix: the model has every split and every merge at line
  boundaries. A split in the middle of a line is not modelled (`send()` of a
  line of at most 100 bytes).
* `online_clients[f]`, `known`, `online`, `topics`, `pending_messages` are the
  map and the fields of `struct client`, keyed by identifier. `pending_messages`
  is a list whose head is the newest (`add_string_to_list`).
* A line of `InputLines` is what `decode_message` tells apart: a verb with a topic
  and how the line goes on (a flag, the newline, the end of the input, something
  else), a bare verb, any other word. `decode_message` gives whether the command is
  accepted and what it leaves in `s_message`, which it writes while it reads: a
  refused `subscribe foo 5` has set the topic and a refused `unsubscribe foo 1`
  the topic and the flag (`helpers.cpp:194-206`). A bare `subscribe` or
  `unsubscribe`, which only the end of the input gives without a newline, is
  accepted and takes the topic that is there. `s_message` keeps whether the
  newline still ends the topic (`eol`), because an accepted `unsubscribe` cuts
  off its last character, newline or not (`Shortened`, `server.cpp:208`). Lines
  that come in one `recv()` are one command; the word where two of them meet is
  none of the topics (`RunOn`).
* `buffer` keeps what the last event left in the receive buffer, because
  `memset(buffer, BUFLEN - 1, 0)` clears nothing: when a connection ends before
  it sent its identifier, that string is taken for it. Strings that are not
  identifiers of subscribers are `StrayWords`, a string longer than ten
  characters is `TooLong`.
* `freed` and `wild` follow the uninitialised `struct client` of
  `helpers.cpp:161`: a new client may reuse a freed block that held a message
  text (then the pending list is followed into text, the process ends) or a
  long FLOAT payload (then the topics field is wild until it is followed).
* `link[p]` is the state of `p`'s end: "pipe" allows the next `send()` to raise
  SIGPIPE, "rst" makes `recv()` and `send()` fail. `AdmitDies`, `PublishDies`,
  `RecvFails`, `CommandDies`, `AcceptFails` are the ways the process ends.
* `handed`, `typed`, `printed` are history variables the properties read.
* `fdmax` starts at `tcp_sock` as in the code: until a subscriber is admitted
  the UDP socket is not watched.

For the router:

* A frame is taken and handled in one step: the program has one thread and waits
  only in `get_packet()`. `Received` serves the lowest interface, as
  `skel.c:62` does.
* Each element of `q` is in the code the address of the same buffer `m`. When
  the answer branch goes through the queue, what it finds is the answer itself;
  `AnswerCopies` is what it then sends. The packet that was queued is kept in
  `q` as history only.
* `SendGarbled` is the branch without an ARP entry: the hardware address is five
  bytes from before the cache (`arp_table[-1]`), bookkeeping of the heap. Nothing
  is assumed of them (`Garbled`): they may form a group address, to which every
  host on the wire listens, so `HostAccepts` has a host take such a packet when it
  is for its IP address, and `Vanishes` has the frame end unheard.
* `Found` has the sense `memcmp` without `== 0` gives it.
* `word` is what stands in an ARP frame at the offset of an IP destination,
  which is where the answer branch looks a route up.
* Addresses in `RouteTable` are the numbers the code compares: `inet_addr()`
  keeps network order, so the first octet is the least significant. MCRouteTable
  has addresses of two octets of two bits and all contiguous masks.
* `WalkOff` is the read of `rtable[-1]`, possible when the first entry has
  prefix 0: what is there is the header of a heap block.
* A checksum is the flag `good`; lengths and payloads are left out.

For the REST client:

* A response is a sequence of symbols. Each thing the client searches for, line
  ends included, is a symbol of its own, so a read can end inside the header's
  terminator or between a field and its value. `buffer_find` is the search of
  `buffer.c`, with its -1.
* `open_connection` has the three ends of the function: a connection, a
  `connect()` that fails (peer "refused", the program ends, `helpers.c:42-43`) and
  no descriptor left.
* `stage` is the place in the program: "connect", "prompt" (waiting for a
  command), "entry" (the questions of add_book), "send", "header" and "body" (the
  two loops of `receive_from_server()`), "got", "crashed" (a null pointer was
  followed), "exited".
* `ReadSome` is one `read()` with any number of symbols up to `BUFLEN`; one turn
  of each loop is one action, as is one `write()`.
* `SizeT` is the conversion to `size_t`: with `header_end` -1 the total is
  `SizeMod - 1`, which only the end of the stream can stop.
* `cookies`: a cookie and a token are written as the user they were given to;
  `JUNK` is a part of a response that is neither, `NULLTEXT` is what `sprintf()`
  makes of a null pointer. The first blocks `malloc()` gives a new process are
  zeroed: before the first login both are empty (`NULL`). `compute_delete_request`
  writes no Cookie line, although `README:5` of the client says requests get one.
* `saved` says whether `strtok(NULL)` has something to go on with.
* The service (`ServiceAnswers`, `ServiceCloses`, `ServiceResets`) gives the
  answers in `Answers`, closes or resets the connection anywhere, also before or
  in the middle of an answer (`cut`).

For the JSON library:

* A heap is a record: live values (`cells`), blocks in use, blocks nobody can
  free any more, and `fuel`, the number of calls of `malloc()` that will still
  succeed. Each function of the library is an operator that gives the heap after
  the call, and one step of `Json` is a call with any `fuel` (`Results`): it
  fails at every place where it can.
* A block is counted where the code calls `malloc()`: a value, its object, array
  or characters, a name, the tables of names and values.
* A text is a sequence of characters; a number, a word, the four digits of a
  `\u` and a level of indentation are one character.
* The program keeps to what `parson.h` expects of a caller: it frees what it holds,
  nothing it has given away, and makes no value a part of itself.
* To free a value (`FreeAll`) is not recursive in the model: what is below it is
  the least set that holds it and all that is in a member (`Below`), and it must
  be a tree (`EachOnce`), or the code would free a value twice; the model's heap
  is then wrong by a thousand blocks, which `NothingLeaks` sees.
* `Contract` describes a call by what it does to the values and not by how: it
  makes a tree (`Make`), hangs one or nothing held into a container, perhaps in
  the place of another (`Put`), cuts some of one off (`Cut`), frees one
  (`Discard`), or fails and leaves every value what it was (`Fail`; a table may
  have grown). Copying, parsing and dotted names are steps of these kinds too.

Bounds: `Size` (entries of the table), `MaxTtl`, `MaxSends` (frames the hosts
send of their own accord), `Offers` and `Words` (which packets, which bytes). In
pub/sub: `Procs`, `Ids`, `Topics`, `MaxMsgs` (datagrams), `MaxLines` (lines per
run) and `MaxFd` (descriptors: 5..`MaxFd` for clients). In the REST client:
`MaxFds` (descriptors, so commands), `ReqLen` (units a request is written in),
`BUFLEN` (symbols per read), `SizeMod` and `IntMod` (the width of `size_t` and
`int`). In the JSON library: `MaxValues`, `MaxContainers`, `MaxFuel`,
`STARTING_CAPACITY`, `MAX_NESTING`.

## 3. Runs

| run | instance | what it checks |
|---|---|---|
| `pubsub_reconnect` | 3 runs, 2 identifiers, 1 message, 2 client descriptors | registry, sets and flags agree; a reported descriptor is still ready at its turn; what is printed was meant for its reader and comes once (`MeantAndOnce`); only refused connections leak descriptors; subscriptions survive |
| `pubsub_order` | 2 runs, 2 identifiers, 3 messages, every accepted command, the bare verbs, and each way of refusing a line that still changes `s_message` | stored until sent; order on a connection (`BacklogThenLive`); subscriptions are what was asked (`OnlyNamedTopics`); the inductive invariant of the delivery proofs |
| `pubsub_faults` | 2 runs, 2 identifiers, malformed lines and datagrams, console | the inductive invariant of the proofs, types and stored-only-while-away among its parts; the server implements `Broker`; every way of dying is taken |
| `pubsub_progress` | 2 runs, 2 identifiers, 1 message | liveness under `FairSpec`: connections, commands, ends and datagrams are served (`NothingWaits`) |
| `broker` | 2 clients, 4 messages | the abstract broker hands over and keeps nothing twice |
| `table` | every list of 3 routes out of those with 4 prefixes and 5 masks, 16 destinations, lookups repeated | sorted, nothing lost (`Sorts`); the inductive invariant of the proofs, accesses inside the table among its parts; a returned route matches, is the longest of its prefix, and is found if all masks are equal (`BestRoute`); every call returns |
| `router` | 2 interfaces, a host on each that may announce itself, 8 kinds of packet, 3 frames sent | the inductive invariant, types and the one cached address among its parts; ARP (`ArpIsTrue`); what is passed on (`ForwardedWell`) and answered (`AnswersGoHome`); what a host takes from the wire in the end (`ReceivedWell`) |
| `rest` | 2 users, every command, every answer with and without a length, granted or refused, reads of up to 4 symbols, 4 descriptors | the inductive invariant of the proofs; whole answers; no misreading without a cut; credentials; page counts; every command ends |
| `json` | 3 values, 2 of them containers, tables that grow from 1, `malloc()` failing anywhere in every call | the heap is well formed, nothing leaks, parents match, texts are read back (every string of up to 3 of the characters that matter, every cut of every text), copies are whole; every call keeps to `Contract` (failure changes nothing), and changes only what was named |
| `doc_exit_only`, `doc_match_found`, `doc_queue_sent` | small instances of the same modules | what the documentation says and the code does not do (section 5) |

Distinct states: 413,525 in `pubsub_reconnect`, 1,927,000 in `pubsub_order`,
944,357 in `pubsub_faults`, 52,386 in `pubsub_progress`, 181,612 in `router`,
255,131 in `rest`, 27,296 in `json`.

Why the bounds are enough: two runs under one identifier give reconnection,
refusal and a takeover while the old connection is not yet noticed; a third run
with two client descriptors gives reuse of a descriptor and exhaustion; three
messages give a stored list of two followed by a live one; two identifiers give
a broadcast that is cut between two targets; one line a run is enough for a
refused line of one client and the bare word of the other, and for any line after
what an earlier run left. Two lines of one run in one `recv()` need
`MaxLines` = 2, which makes the instances too large: `RunOn` is in the proofs, which
have no such bound, and the merge of an identifier with a line is in the runs. Client identifiers and runs are
symmetric and no definition orders them (descriptors are numbers and are not in
the symmetry); the runs that check liveness use no symmetry. Three routes give
every shape of partition and a search with both halves; equal prefixes with
different masks, nested prefixes and the default route are among them. Three
frames give an announcement, a packet that is queued because of it, and the
answer that goes through the queue; one packet for each branch is offered.

In `rest`, four descriptors give login, enter_library and two more commands, or a
login on top of another; an `int` of 3 bits and page counts up to 9 give a count
that becomes negative and one that becomes another number; answers end at every
symbol. In `json`, two containers and a third value give a replaced value, a
moved last pair, a dotted name that makes an object and a nesting deeper than the
parser goes; `MaxFuel` = 100 calls of `malloc()` are more than any call makes, and a
call that makes n of them is tried with all n succeeding and with each of them the
first to fail; a text is read back for a value held alone, which every value is in
some state. `VIEW View`
leaves the history of the last call out of what tells two states apart: the two
action properties read it only in the step that writes it, so no step is missed.

`CHECK_DEADLOCK FALSE` where the system may stop: in pub/sub when the server has
ended and the subscribers have left, or nobody acts any more; the router when no
frame is left and the hosts have sent theirs; the REST client when it has ended;
a program that uses the JSON library has no steps left over only when every table
is full. The table never stops, lookups go
on.

### 3.1 Fairness

`FairSpec` assumes: the server's loop runs (weak fairness of `ServerStep`; it is
one thread that only ever waits in `select()` and in the `recv()` of line 96);
a subscriber that connected sends its identifier (lines 29-38 of
`subscriber.cpp` have nothing between the two calls that waits for others).
Nothing is assumed of people: lines are typed, programs started and closed,
datagrams sent, or not. Nor is anything assumed of a subscriber's reading: it
serves stdin first, and at the end of its input stdin is ready for ever and
`fgets()` not asked whether it read anything (`subscriber.cpp:53-63`), so that it
never reads the socket again. Therefore no property says that what is sent is
printed, and `NothingWaits` holds also with subscribers that do not read.
For `RouteTable` it assumes that a call that was begun goes on (one
thread, no waiting), and nothing of when the next lookup starts. For the router
the only fair specification is that a frame that arrived is handled.
`DatagramsHandled` carries the condition `fdmax > UDP`: `fdmax` starts at
`tcp_sock` (`server.cpp:67`), below `udp_sock`, so that `select()` does not watch
UDP until a first subscriber has been admitted. For the REST client: the program
goes on when it can, the service answers a request it has received, and closes
the connection in the end; nobody has to type a command. Without the last of these
a response without a length would be waited for by right.

## 4. Proofs

For every value of the constants allowed by the ASSUMEs (disjointness of names,
`MaxFd >= 5`, a starting capacity of at least 1):

* `PubSubProofs!Invariance`: `Spec => []IndInv`. None of the properties is
  inductive alone: that a reported descriptor is still ready
  (`ReadyStaysReady`) needs that a run has only one place in the server
  (`OnePlaceEach`), or another descriptor's `recv()` could drain it; that in
  turn needs who may connect (`SubscriberShape`); that the map is injective
  needs that an awaited connection is not yet watched (`AwaitedIsOpen`);
  command handling needs that what a watched connection carries are lines, the
  identifier having been read (`WatchedAreOpen`). `IndInv` is their conjunction;
  one lemma per conjunct shows every action preserves it. From it:
  `TypeCorrect`, `RegistryCorrect`, `SweepNeverBlocks`, `StoreCorrect`.
* `RefinementProofs!Implementation`: `Spec => Promise!Spec`. `AdmitClient` is
  `Arrive`, `Disconnect` is `Leave`, a valid command is `Choose`, a datagram is
  `Deliver`, `Drop` or (the server dies in the broadcast) `Fail`, the other ways
  of ending are `Stop`, everything else stutters. The broker numbers what it
  settles: `QueueIsRecent` shows the datagram at the head of the UDP queue is
  the next number. `SubscriptionsKept` and `StoredAreSent` follow from the
  simulation by cases on the broker's actions.
* `BrokerProofs`: the broker never hands over or keeps a message twice, keeps
  newest first, keeps nothing for who is present. Its strengthening
  (`Ledger` in the module) bounds every handed or kept number by `settled`.
* `DeliveryProofs!Delivery`: `Spec => []DeliveryInv`, what reaches a subscriber.
  That the server sends and stores nothing twice, with falling numbers in the
  store, is not proved again for it: `PubSub` implements the broker, so the
  broker's theorems hold of it. The module instantiates `BrokerProofs` with the
  refinement mapping (`Promised`), `SameBroker` says that this is the broker of
  `Implementation`, and `LedgerKept` is `Spec => []Promised!Ledger`.
  What the connections add is in the other parts. A subscriber prints only what
  was sent under its own identifier (`CarriedWasHanded`) because a watched
  descriptor is served under the identifier its run announced, or the run was
  gone before it sent one and nothing can be sent to it any more
  (`ServedByName`); that in turn because the identifier is the first thing a run
  sends and nothing is read or sent before it (`IdentifierComesFirst`). What was
  sent was asked for because commands come from lines somebody typed
  (`LinesWereTyped`) and the topic in `s_message`, which a bare word takes up, was
  named in some line, accepted or refused (`LastTopicNamed`). The lemmas about
  `decode_message` (`Decoding`, `LineForms`, `AcceptedSubscribe`) hold for any
  lines and any number of them in one `recv()`. What a connection carries is a stack,
  then a queue: what is sent has a larger number than everything it carries (the
  ledger), and the notice goes only to connections that carry nothing else
  (`RefusedGetNotice`, `OnlyRefusedGetNotice`).
  From it: `SubscribedAsAsked` (`OnlyNamedTopics`), `OrderKept`
  (`BacklogThenLive`), `MeantForIt` (`MeantAndOnce`), `LeaksAreRefused`
  (`OnlyRefusedLeak`).

* `RouteTableProofs!Invariance`: for any routes, table, destinations and nested
  masks, `Spec => []IndInv`. While
  `quicksort()` runs, the ranges on its stack follow each other
  (`RangesFollow`) and two entries that are out of order lie in one of them
  (`NearlyInOrder`), so that none is left when the stack is empty; that
  splitting a range keeps this is what `partition()` establishes
  (`Partitioned`: what goes before the pivot stands before `pIndex`). Every
  exchange composes a permutation (`Permuted`). From it `TableSorted` (`Sorts`).
  For the lookup, the walk starts at an entry that matches (`FoundMatches`),
  stays in the table (`InsideTable`) and, in a sorted table, ends at the longest
  of its prefix; with one mask the search never passes a match
  (`NotPassedBy`). From it `RouteIsBest` (`BestRoute`), which speaks of the
  longest only where no prefix is listed twice with one mask (`ListedOnce`), as
  the walk stops between two such entries. The walk compares masks
  of neighbours only, so that the entry it stops at has the longest mask needs
  that masks are nested: `NetmaskAssumption` says that of two netmasks the larger
  has all the ones of the other. `read_rtable` checks no masks; with one that is
  no netmask the walk can stop early.

* `RouterProofs!Invariance`: for any addresses, interfaces, routes, hosts and any
  `Lookup`, `Spec => []IndInv`. `IndInv` says of each frame that waits to be
  read that its sender is honest and its packet is in the history (`Inbound`),
  of each frame sent what is claimed of it (`Outbound`), and of each packet a host
  took that it is for this host and what it should be (`ReceivedWell`). A packet
  reaches a host only in a frame to its own hardware address, which the router
  writes only on its own messages, or to bytes of the heap, and then the IP
  destination decides: nothing is assumed of those bytes. That the answers sent
  for the packets of the queue are counted as the code sends them needs that the
  cache holds one address, so that all of its entries match a next hop or none
  does; `OneAddress` is part of `IndInv` for this and is no merit of the code
  (section 5). From it: `TypeCorrect`, `CacheCorrect` (`ArpIsTrue`),
  `ReceivedIsRight` (`ReceivedWell`), `WiresCorrect` (`ForwardedWell` and
  `AnswersGoHome`), `AnswersComeHome`.

* `RestProofs!RestInvariance`: for any users, answers, request length, read size,
  widths and number of descriptors, `Spec => []IndInv`. That the client acts on
  whole responses (`WholeAnswer`) is not inductive: at the end of the second loop
  one must know that what was read and what can still be read make up the answer
  (`StreamInv`), and that the total the first loop computed is the length of the
  answer (`LoopInv`). The second needs a lemma about the search: the header's
  terminator and the length's field, once they stand in a part of the answer, are
  found at the same place in all of it. That cookie and token belong to one user needs what
  the commands so far have done (`SessionInv`). The proof rests on `RestAssumption`: the
  service frames its answers (a length that is there is right), names the right
  user in them, and what it says can be found. From the invariant:
  `RestWholeAnswer`, `RestNotMisled`, `RestMixed`, `RestCredentials`, `RestPages`,
  `RestEnds`.

* `JsonProofs`: the library, in two steps. First, whatever a program calls, if
  every step keeps to `Contract` then `WellFormed` and `ParentsMatch` always hold
  (`ContractWellFormed`, `ContractParentsMatch`). They are proved together, as
  one invariant (`Whole`): a value can only know where it is if it is in one
  place and nothing frees it there. That there
  are no cycles is not a statement about paths, which would need induction over
  data: the values are the least set that holds the roots and all below
  (`IsForest`), so a value that only values outside of a set link to is not in it
  (`OnlyFromAbove`), and trees with different roots are disjoint
  (`TreesDisjoint`); one lemma per kind of step shows that the union of the trees
  is again the least such set (`MakeForest`, `PutForest`, `CutForest`,
  `DiscardForest`). Second, the calls of `PlainSpec` keep to it
  (`PlainKeepsContract`): creating values, `set`, `append`, `replace` (of values
  and of strings made in the call), `remove`, `clear` and `free`, for any names
  and strings, any `STARTING_CAPACITY` and any number of values, and
  wherever `malloc()` fails. Each function of `JsonHeap` has a lemma of its own
  about the heap it gives (`AddPairFacts`, `SwapFacts`, `RoomFacts`,
  `FreeFacts` ...), and each call one that says which step of the contract it is.
  From both: `PlainWellFormed` and `PlainParentsMatch`.
* `JsonProofs!PlainNothingLeaks`: after each of these calls the blocks in use are
  those the live values are made of. The invariant (`Exact`) is a sum over the
  values; a sum is the size of a set of places (`Places`, `BlocksCounted`), so that
  adding, changing and freeing values is arithmetic on disjoint finite sets
  (`ExactMore`, `ExactChange`, `ExactLess`).

These theorems assume that the names and strings are sequences of strings
(`NamesAssumption`, `StringsAssumption`). `MaxValues`, `MaxContainers` and
`MaxFuel` are arbitrary: they only bound what is looked at.

Only model-checked: liveness (`NothingWaits` in `pubsub_progress`, `Returns` in `table`, `CommandEnds` in `rest`); of the JSON
library, that dotted names, copies and the parser keep to `Contract` and leak
nothing, and what they compute (`RoundTrip`, `CopyIsWhole`, `OnlyTheNamed`). Those
functions are recursive over trees and texts, and what they compute is an
induction over data. What `Contract` implies holds of them as soon as they keep to
it, which the run `json` checks.
Sorting and lookup are loops, one round a step, so their induction is over the
steps and is proved.

## 5. What the code does and the documentation does not say

1. `doc_exit_only`: the server ends not only on `exit`: a subscriber that leaves
   with messages unread ends it.
2. `doc_match_found`: the binary search can miss a route that matches. Where a
   probe does not match, the half to go on in is chosen by the destination under
   the mask of the route just probed, and a route with a shorter mask may match in
   the other half: the run loses the default route behind a longer prefix. The
   byte order of the addresses plays no part in it.
3. `doc_queue_sent`: packets in the queue are never sent. The queue holds the
   address of the one receive buffer (`router.c:296`), so what is taken out of it
   when an answer comes is that answer, which is sent back to the interface it came
   in on, once for each packet ever queued and each entry of its address.
   `README.txt:10` of the router promises the packets. In the run a host announces
   itself, a packet to it is queued, it announces itself again, and what goes out is
   the announcement.

Others are in the models and have no run of their own.

* `README.txt:16-17` of the router: without an ARP entry it asks, with one it sends.
  The code does the opposite (`SendGarbled`, `QueueAndAsk`, `router.c:284-323`), and
  sends the request to the interface the packet came in on.
* `router.c:368` takes an entry that differs from the address for one that is
  equal, so the cache takes a second address never, and the first again and
  again (`Found`; `OneAddress` in `IndInv`).
* `README.txt:14` reports a timeout for a time to live below 1, the code for one of
  1 too (`Over`, `router.c:225`). `ForwardedWell` leaves open which is meant.
* `README.txt:12` has the checksum of an echo request verified, which the code does
  not look at (`EchoReply`, `router.c:165-192`).
* `readme.txt:24-26` of pub/sub has a subscriber print all messages; at the end of
  its input it prints none (section 3.1).
* `server.cpp:25` says `fdmax` is the largest descriptor of `active_fds`; at the
  start it is not.
* A subscribe line that arrives with the identifier, or with another line, is lost
  (`readme.txt:62-63`; `DrainsId`, `FirstWord`), and a refused line changes what
  a bare `subscribe` of another client subscribes to (`decode_message`;
  `OnlyNamedTopics` says exactly what is left of the promise).
* `delete_book` goes out without the cookie that `README:5` of the REST client says
  is added.

## 6. What the properties say of the REST client and the library

* Nothing is misread unless the connection was cut. When it was, the client
  says "OK" to a command that was never done, takes a part of a response for a
  cookie, or follows a null pointer: `MisledOnlyIfCut` and `CredentialsAreGiven`
  name the cut as the one exception.
* A login on top of another session keeps the old token: `MixedOnlyWithoutLogout`
  says there is no other way to get a cookie and a token of two users.
* A page count is what was typed only below half of `IntMod` (`PagesAsTyped`).
* A key with `\u0000` in it is lost by the parser (`lost` in `NothingLeaks`), and
  a value `json_object_dotset_value()` failed to set may keep a parent that is
  gone, so that nothing takes it any more (`refused` in `ParentsMatch`).
* A value nested deeper than the parser goes is written and not read back
  (`ReadBack`).

## 7. Not modelled

In pub/sub: `send()` blocking on a full socket buffer; allocation failures;
start-up failures; lines split in the middle; the formatting of payload numbers;
a topic of exactly 50 characters. A message that is handled between a
subscriber's leaving and the server's noticing is lost, by design of the code; no
property forbids it.

In the router: lengths and contents of payloads, frames too short for their
headers, the parsing of `rtable.txt`, a cache of 100000 entries and the limit
nothing compares it with. The lowest interface with a frame is always served
first (`Received`); nothing promises the others a turn.

In the REST client: the lengths of names, requests and answers against the
blocks they are copied to; the wording of requests.

In the JSON library: schema validation (`json_validate`), comments, files, the
digits of numbers, the bytes of UTF-8, serialising into a caller's buffer, the
getters that convert. Its recursion is in `JsonTree` and `JsonText` and stays out
of reach of the proofs.

## 8. What could be added

1. An abstract router (what README.txt promises: queue while unknown, send when
   known), for a router.c whose queue, comparison and branches are put right.
2. An abstract store of named values that `Json` refines: `Contract` says what
   happens to the trees, not what is found in them.
3. Dotted names, copies and parsing one level a step, as sorting is, so that
   their induction is over the steps and `Contract` can be proved of them too.
