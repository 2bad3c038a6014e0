------------------------------ MODULE Server -------------------------------
(***************************************************************************)
(* The server: the select() loop of server.cpp with the registry of        *)
(* subscribers of helpers.cpp. One action per branch of the loop body. The *)
(* loop handles the descriptors select() reported in ascending order, so   *)
(* subscribers and publishers act between any two of these actions.        *)
(***************************************************************************)
EXTENDS Network

CONSTANT MaxFd     \* bound: the highest descriptor the process may open

STDIN == 0
TCP   == 3         \* tcp_sock, the first descriptor socket() returns
UDP   == 4         \* udp_sock, the second
NoFd  == 1         \* newsockfd while no connection is being set up
ClientFds == 5..MaxFd

NoProc  == "noproc"
NoTopic == "notopic"

ASSUME ServerAssumption ==
  /\ MaxFd \in Nat /\ MaxFd >= 5
  /\ NoProc \notin Procs

VARIABLES
  srv,            \* "running", "recvId" (blocked in recv on newsockfd),
                  \* "exited" (by command) or "died" (DIE or a signal)
  console,        \* the line waiting on stdin, "" when there is none
  active_fds, tmp_fds, fdmax, newsockfd,
  peer,           \* peer[fd]: the subscriber run behind an open descriptor
  online_clients, \* the map socket -> client, by identifier
  known,          \* identifiers in the list all_clients
  online, topics, pending_messages,   \* the fields of struct client
  wild,           \* clients whose topics field was never initialised
  buffer,         \* the string left in buffer by the last event
  s_message,      \* what the last command left: topic, whether the newline
                  \* still ends it, and sf
  freed,          \* freed heap blocks that fit a struct client and hold text
  handed          \* history: messages passed to send() for an identifier

registry   == <<online_clients, known, online, topics, pending_messages, wild>>
serverVars == <<srv, console, active_fds, tmp_fds, fdmax, newsockfd, peer,
                registry, buffer, s_message, freed, handed>>

ServerTypeOK ==
  /\ srv \in {"running", "recvId", "exited", "died"}
  /\ console \in {"", "exit", "other"}
  /\ active_fds \subseteq {STDIN, TCP, UDP} \cup ClientFds
  /\ tmp_fds \subseteq {STDIN, TCP, UDP} \cup ClientFds
  /\ fdmax \in {TCP} \cup ClientFds
  /\ newsockfd \in {NoFd} \cup ClientFds
  /\ peer \in [ClientFds -> Procs \cup {NoProc}]
  /\ online_clients \in [ClientFds -> IdSpace \cup {NoId}]
  /\ known \subseteq IdSpace
  /\ online \in [IdSpace -> BOOLEAN]
  /\ topics \in [IdSpace -> [Topics -> Modes]]
  /\ pending_messages \in [IdSpace -> Seq(Messages)]
  /\ wild \subseteq IdSpace
  /\ buffer \in Texts
  /\ s_message \in [topic: Topics \cup {NoTopic}, eol: BOOLEAN, sf: Flags]
  /\ freed \subseteq {"value", "payload"}
  /\ handed \in [IdSpace -> Seq(Messages)]

(***************************************************************************)
(* server.cpp:17-76. fdmax starts at tcp_sock although udp_sock is larger; *)
(* s_message is not initialised: its topic is no topic, its sf any.        *)
(***************************************************************************)
ServerInit ==
  /\ srv = "running"
  /\ console = ""
  /\ active_fds = {STDIN, TCP, UDP}
  /\ tmp_fds = {}
  /\ fdmax = TCP
  /\ newsockfd = NoFd
  /\ peer = [f \in ClientFds |-> NoProc]
  /\ online_clients = [f \in ClientFds |-> NoId]
  /\ known = {}
  /\ online = [i \in IdSpace |-> FALSE]
  /\ topics = [i \in IdSpace |-> [t \in Topics |-> "off"]]
  /\ pending_messages = [i \in IdSpace |-> <<>>]
  /\ wild = {}
  /\ buffer = ""
  /\ s_message \in [topic: {NoTopic}, eol: {FALSE}, sf: Flags]
  /\ freed = {}
  /\ handed = [i \in IdSpace |-> <<>>]
-----------------------------------------------------------------------------
(***************************************************************************)
(* helpers.cpp.                                                            *)
(***************************************************************************)

\* Mutants of the next operator: behind the head, without the rest of the
\* list.
AddBehind(m, list) == IF list = <<>> THEN <<m>> ELSE <<Head(list), m>> \o Tail(list)
AddAlone(m, list)  == <<m>>

\* add_string_to_list: the new string becomes the head of the list.
add_string_to_list(m, list) == <<m>> \o list

\* Mutant: the client keeps the list.
KeepList(list) == list

\* free_string_list, and the NULL the caller stores next.
free_string_list(list) == <<>>

add_topic(name, sf, list) == [list EXCEPT ![name] = sf]
remove_topic(name, list)  == [list EXCEPT ![name] = "off"]

\* Mutant: every online client is a subscriber.
AnySubscription(i, name) == name \in DOMAIN topics[i]

check_subscription(i, name) == topics[i][name] # "off"
check_sf_active(i, name)    == topics[i][name] = "sf1"

\* Mutant: the search stops before the last descriptor.
UniqueBelowMax(i) == \A f \in ClientFds : f < fdmax => online_clients[f] # i

\* check_unique_id searches the online clients only.
check_unique_id(i) == \A f \in ClientFds : online_clients[f] # i

is_valid_udp_message(m) == m.kind # "invalid"

\* Mutant: sf is not assigned.
StaleFlag(line) == s_message.sf

\* What a command line leaves in sf, also when it is an unsubscribe.
FlagAfter(line) == IF line.rest \in Flags THEN line.rest ELSE s_message.sf

Decoded(ok, name, eol, sf) ==
  [ok |-> ok, left |-> [topic |-> name, eol |-> eol, sf |-> sf]]

\* The topic of the first line and the verb of the next are one word.
RunOn == [ok: BOOLEAN, left: [topic: {NoTopic}, eol: {FALSE}, sf: Flags]]

(***************************************************************************)
(* decode_message on what one recv() returned: what it may return and leave*)
(* in s_message. Topic and sf are written as they are met, also by a line  *)
(* that is then refused; a bare verb writes neither. Lines that arrive     *)
(* together are one command for it: the parameter that should end the first*)
(* line runs on into the next. A flag that does is refused; a topic that   *)
(* does is some other name, and the next line's words are its parameters.  *)
(***************************************************************************)
decode_message(chunk) ==
  LET line  == chunk[1]
      alone == Len(chunk) = 1
  IN IF line.verb \in {"junk", "bare"}
     THEN {[ok |-> line.verb = "bare" /\ alone, left |-> s_message]}
     ELSE IF line.rest \notin {"eol", "cut"}
     THEN {Decoded(alone /\ line.verb = "subscribe" /\ line.rest # "bad", line.topic,
                   FALSE, IF alone THEN FlagAfter(line) ELSE s_message.sf)}
     ELSE IF alone
     THEN {Decoded(line.verb = "unsubscribe", line.topic, line.rest = "eol", s_message.sf)}
     ELSE RunOn

\* The verb of an accepted command.
Verb(line) == IF line.verb = "bare" THEN line.word ELSE line.verb

\* strtok leaves the first word of the command in buffer.
FirstWord(chunk) ==
  CASE chunk[1].verb = "junk"                     -> chunk[1].word
    [] chunk[1].verb = "bare" /\ Len(chunk) > 1   -> TooLong
    [] OTHER -> IF Verb(chunk[1]) = "subscribe" THEN "subscribe" ELSE TooLong

\* server.cpp:208: the last character of the topic goes, newline or not.
Shortened(m) == [topic |-> IF m.eol THEN m.topic ELSE NoTopic, eol |-> FALSE, sf |-> m.sf]

\* s_message, and the topics of client i, after a command that left m:
\* server.cpp:204-211.
MessageAfter(verb, m) == IF verb = "unsubscribe" THEN Shortened(m) ELSE m

TopicsAfter(i, verb, m) ==
  LET name == MessageAfter(verb, m).topic
  IN IF name = NoTopic THEN topics[i]
     ELSE IF verb = "unsubscribe" THEN remove_topic(name, topics[i])
     ELSE IF m.eol THEN topics[i]
     ELSE add_topic(name, m.sf, topics[i])
-----------------------------------------------------------------------------
(***************************************************************************)
(* server.cpp:78-86: a new sweep over the descriptors.                     *)
(***************************************************************************)
IsReady(f) ==
  \/ f = STDIN /\ console # ""
  \/ f = TCP /\ backlog # <<>>
  \/ f = UDP /\ udp_queue # <<>>
  \/ f \in ClientFds /\ Readable(peer[f])

\* Mutants: FD_ISSET on active_fds; select() given fdmax.
AllWatched   == {f \in active_fds : f <= fdmax}
BelowFdmax   == {f \in active_fds : f < fdmax /\ IsReady(f)}

Reported == {f \in active_fds : f <= fdmax /\ IsReady(f)}

Select ==
  /\ srv = "running"
  /\ tmp_fds = {}
  /\ tmp_fds' = Reported
  /\ tmp_fds' # {}
  /\ UNCHANGED <<srv, console, active_fds, fdmax, newsockfd, peer, registry,
                 buffer, s_message, freed, handed, netVars>>

\* Descriptor f is the next one of the sweep.
Turn(f) == srv = "running" /\ f \in tmp_fds /\ \A g \in tmp_fds : f <= g

(***************************************************************************)
(* server.cpp:87-94: accept() takes the lowest free descriptor.            *)
(***************************************************************************)
FreeFds == {f \in ClientFds : peer[f] = NoProc}

AcceptConnection ==
  /\ Turn(TCP)
  /\ \E f \in FreeFds :
       /\ \A g \in FreeFds : f <= g
       /\ newsockfd' = f
       /\ peer' = [peer EXCEPT ![f] = Head(backlog)]
  /\ backlog' = Tail(backlog)
  /\ tmp_fds' = tmp_fds \ {TCP}
  /\ srv' = "recvId"
  /\ UNCHANGED <<console, active_fds, fdmax, registry, buffer, s_message,
                 freed, handed, up, down, link, udp_queue, arrived>>

\* DIE at server.cpp:91 when the process has no descriptor left.
AcceptFails ==
  /\ Turn(TCP)
  /\ FreeFds = {}
  /\ srv' = "died"
  /\ UNCHANGED <<console, active_fds, tmp_fds, fdmax, newsockfd, peer,
                 registry, buffer, s_message, freed, handed, netVars>>

(***************************************************************************)
(* server.cpp:96-131: the identifier of the new connection. One recv()     *)
(* takes the identifier and every line that arrived with it; the lines are *)
(* lost. When the subscriber is gone already recv() returns 0 and the      *)
(* string left in buffer is taken for the identifier.                      *)
(***************************************************************************)
ReceivedId(p) == IF up[p] = <<>> THEN buffer ELSE Head(up[p])

\* One recv() on p's connection empties some prefix of what p sent.
DrainsId(p) ==
  \/ /\ up[p] = <<>>
     /\ link[p] # "open"
     /\ UNCHANGED up
  \/ \E k \in 1..Len(up[p]) :
       up' = [up EXCEPT ![p] = SubSeq(up[p], k + 1, Len(up[p]))]

\* The identifier is online: "exit" is sent and the descriptor forgotten.
RefuseClient ==
  LET p == peer[newsockfd] IN
  /\ srv = "recvId"
  /\ ReceivedId(p) \in IdSpace
  /\ ~check_unique_id(ReceivedId(p))
  /\ DrainsId(p)
  /\ down' = [down EXCEPT ![p] = Sent(p, <<Notice>>)]
  /\ link' = [link EXCEPT ![p] = LinkAfter(p)]
  /\ buffer' = "exit"
  /\ newsockfd' = NoFd
  /\ srv' = "running"
  /\ UNCHANGED <<console, active_fds, tmp_fds, fdmax, peer, registry,
                 s_message, freed, handed, backlog, udp_queue, arrived>>

\* Mutant: a new struct client even for a known identifier.
FreshTopics(i) == [t \in Topics |-> "off"]

\* The topics of the client add_client_to_clients finds or allocates.
TopicsOnArrival(i) ==
  IF i \in known THEN topics[i] ELSE [t \in Topics |-> "off"]

\* Mutants: FD_ZERO before FD_SET; fdmax is not raised.
WatchOnly(f)    == {STDIN, TCP, f}
FdmaxKept(f)    == fdmax

Watch(f)        == active_fds \cup {f}
FdmaxAfter(f)   == IF f > fdmax THEN f ELSE fdmax

(***************************************************************************)
(* The identifier is free: add_client_to_clients marks the known client    *)
(* online, or allocates one, whose topics field then holds whatever the    *)
(* block held. Pending messages are sent from the head of the list, the    *)
(* list is freed, which leaves blocks of text of the size of a client.     *)
(***************************************************************************)
AdmitClient ==
  LET p    == peer[newsockfd]
      i    == ReceivedId(p)
      list == pending_messages[i]
  IN
  /\ srv = "recvId"
  /\ i \in IdSpace
  /\ check_unique_id(i)
  /\ DrainsId(p)
  /\ active_fds' = Watch(newsockfd)
  /\ fdmax' = FdmaxAfter(newsockfd)
  /\ online_clients' = [online_clients EXCEPT ![newsockfd] = i]
  /\ known' = known \cup {i}
  /\ online' = [online EXCEPT ![i] = TRUE]
  /\ topics' = [topics EXCEPT ![i] = TopicsOnArrival(i)]
  /\ \/ UNCHANGED wild
     \/ i \notin known /\ "payload" \in freed /\ wild' = wild \cup {i}
  /\ down' = [down EXCEPT ![p] = Sent(p, list)]
  /\ link' = [link EXCEPT ![p] = IF list = <<>> THEN @ ELSE LinkAfter(p)]
  /\ handed' = [handed EXCEPT ![i] = @ \o list]
  /\ pending_messages' = [pending_messages EXCEPT ![i] = free_string_list(@)]
  /\ freed' = IF list = <<>> THEN freed ELSE freed \cup {"value"}
  /\ buffer' = i
  /\ newsockfd' = NoFd
  /\ srv' = "running"
  /\ UNCHANGED <<console, tmp_fds, peer, s_message, backlog, udp_queue,
                 arrived>>

(***************************************************************************)
(* The process ends while it admits a client: a string longer than an      *)
(* identifier runs over the struct and is not found again; a fresh struct  *)
(* reuses a freed block of text, which is followed as pending_messages; or *)
(* the second of several pending messages goes to a connection that was    *)
(* reset after the first (SIGPIPE).                                        *)
(***************************************************************************)
AdmitDies ==
  LET p == peer[newsockfd]
      i == ReceivedId(p)
  IN
  /\ srv = "recvId"
  /\ Readable(p)
  /\ \/ i = TooLong
     \/ /\ i \in IdSpace
        /\ check_unique_id(i)
        /\ \/ i \notin known /\ "value" \in freed
           \/ link[p] # "open" /\ Len(pending_messages[i]) >= 2
  /\ srv' = "died"
  /\ UNCHANGED <<console, active_fds, tmp_fds, fdmax, newsockfd, peer,
                 registry, buffer, s_message, freed, handed, netVars>>
-----------------------------------------------------------------------------
(***************************************************************************)
(* server.cpp:134-168: one datagram per sweep.                             *)
(***************************************************************************)
Online(f) == online_clients[f] # NoId

Targets(t) == {f \in ClientFds : Online(f) /\ check_subscription(online_clients[f], t)}

\* Messages are sent to the targets below cut, in the order of the map.
Broadcast(m, cut) ==
  LET sent == {f \in Targets(m.topic) : f < cut} IN
  /\ down' = [p \in Procs |-> IF \E f \in sent : peer[f] = p
                              THEN Sent(p, <<m>>) ELSE down[p]]
  /\ link' = [p \in Procs |-> IF \E f \in sent : peer[f] = p
                              THEN LinkAfter(p) ELSE link[p]]
  /\ handed' = [i \in IdSpace |-> IF \E f \in sent : online_clients[f] = i
                                  THEN Append(handed[i], m) ELSE handed[i]]

\* Mutant: the online flag is not read.
WaitingAlways(t) == {i \in known : check_sf_active(i, t)}

\* Every known offline client with store&forward keeps the message.
Waiting(t) == {i \in known : ~online[i] /\ check_sf_active(i, t)}

Store(m) ==
  pending_messages' =
    [i \in IdSpace |->
       IF i \in Waiting(m.topic) THEN add_string_to_list(m, pending_messages[i])
       ELSE pending_messages[i]]

PublishDatagram ==
  LET m == Head(udp_queue) IN
  /\ Turn(UDP)
  /\ is_valid_udp_message(m)
  /\ wild = {}
  /\ \A f \in Targets(m.topic) : link[peer[f]] # "rst"
  /\ Broadcast(m, MaxFd + 1)
  /\ Store(m)
  /\ udp_queue' = Tail(udp_queue)
  /\ tmp_fds' = tmp_fds \ {UDP}
  /\ buffer' = TooLong
  /\ freed' = IF m.kind = "float" THEN freed \cup {"payload"} ELSE freed
  /\ UNCHANGED <<srv, console, active_fds, fdmax, newsockfd, peer,
                 online_clients, known, online, topics, wild, s_message,
                 backlog, up, arrived>>

(***************************************************************************)
(* The process ends in the middle of the broadcast: send() fails or raises *)
(* SIGPIPE, or an uninitialised topics field is followed. Targets served   *)
(* before keep the message, the others never see it.                       *)
(***************************************************************************)
Fatal(m) ==
  {f \in Targets(m.topic) : link[peer[f]] \in {"pipe", "rst"}}
  \cup {f \in ClientFds : online_clients[f] \in wild}
  \cup {f \in {MaxFd + 1} : \E i \in wild : ~online[i]}

Certain(m) == {f \in Fatal(m) : f \in ClientFds => \/ online_clients[f] \in wild
                                                   \/ link[peer[f]] = "rst"}

PublishDies ==
  LET m == Head(udp_queue) IN
  /\ Turn(UDP)
  /\ is_valid_udp_message(m)
  /\ \E cut \in Fatal(m) :
       /\ \A f \in Certain(m) : cut <= f
       /\ Broadcast(m, cut)
  /\ udp_queue' = Tail(udp_queue)
  /\ srv' = "died"
  /\ UNCHANGED <<console, active_fds, tmp_fds, fdmax, newsockfd, peer,
                 registry, buffer, s_message, freed, backlog, up, arrived>>

\* server.cpp:138,166-168. The datagram, whose topic may be any word, stays
\* in buffer.
RefuseDatagram ==
  /\ Turn(UDP)
  /\ ~is_valid_udp_message(Head(udp_queue))
  /\ buffer' \in {"junk", TooLong} \cup Ids
  /\ udp_queue' = Tail(udp_queue)
  /\ tmp_fds' = tmp_fds \ {UDP}
  /\ UNCHANGED <<srv, console, active_fds, fdmax, newsockfd, peer, registry,
                 s_message, freed, handed, backlog, up, down, link, arrived>>
-----------------------------------------------------------------------------
(***************************************************************************)
(* server.cpp:169-178 and 218-229: a line on stdin. "exit" ends the loop.  *)
(***************************************************************************)
ConsoleLine(line) ==
  /\ srv \in {"running", "recvId"}
  /\ console = ""
  /\ console' = line
  /\ UNCHANGED <<srv, active_fds, tmp_fds, fdmax, newsockfd, peer, registry,
                 buffer, s_message, freed, handed, netVars>>

HandleStdin ==
  /\ Turn(STDIN)
  /\ console' = ""
  /\ buffer' \in {"junk", TooLong}
  /\ srv' = IF console = "exit" THEN "exited" ELSE srv
  /\ tmp_fds' = tmp_fds \ {STDIN}
  /\ UNCHANGED <<active_fds, fdmax, newsockfd, peer, registry, s_message,
                 freed, handed, netVars>>
-----------------------------------------------------------------------------
\* Mutant: the socket is not closed.
LeaveOpen(f) == peer

Close(f) == [peer EXCEPT ![f] = NoProc]

(***************************************************************************)
(* server.cpp:186-195: recv() returned 0.                                  *)
(***************************************************************************)
Disconnect(f) ==
  /\ Turn(f)
  /\ f \in ClientFds
  /\ up[peer[f]] = <<>>
  /\ link[peer[f]] \in {"fin", "pipe"}
  /\ online' = [online EXCEPT ![online_clients[f]] = FALSE]
  /\ online_clients' = [online_clients EXCEPT ![f] = NoId]
  /\ active_fds' = active_fds \ {f}
  /\ peer' = Close(f)
  /\ tmp_fds' = tmp_fds \ {f}
  /\ buffer' = ""
  /\ UNCHANGED <<srv, console, fdmax, newsockfd, known, topics,
                 pending_messages, wild, s_message, freed, handed, netVars>>

\* DIE at server.cpp:184: recv() failed on a reset connection.
RecvFails(f) ==
  /\ Turn(f)
  /\ f \in ClientFds
  /\ up[peer[f]] = <<>>
  /\ link[peer[f]] = "rst"
  /\ srv' = "died"
  /\ UNCHANGED <<console, active_fds, tmp_fds, fdmax, newsockfd, peer,
                 registry, buffer, s_message, freed, handed, netVars>>

(***************************************************************************)
(* server.cpp:182-183 and 196-212: one recv() is one command, whatever it  *)
(* holds.                                                                  *)
(***************************************************************************)
HandleCommand(f) ==
  LET p == peer[f]
      i == online_clients[f]
  IN
  /\ Turn(f)
  /\ f \in ClientFds
  /\ \E k \in 1..Len(up[p]) :
       LET chunk == SubSeq(up[p], 1, k) IN
       \E d \in decode_message(chunk) :
         /\ up' = [up EXCEPT ![p] = SubSeq(up[p], k + 1, Len(up[p]))]
         /\ buffer' = FirstWord(chunk)
         /\ IF d.ok
            THEN /\ i \notin wild
                 /\ topics' = [topics EXCEPT ![i] =
                                 TopicsAfter(i, Verb(chunk[1]), d.left)]
                 /\ s_message' = MessageAfter(Verb(chunk[1]), d.left)
            ELSE UNCHANGED topics /\ s_message' = d.left
  /\ tmp_fds' = tmp_fds \ {f}
  /\ UNCHANGED <<srv, console, active_fds, fdmax, newsockfd, peer,
                 online_clients, known, online, pending_messages, wild, freed,
                 handed, backlog, down, link, udp_queue, arrived>>

\* The command walks a topics field that was never initialised.
CommandDies(f) ==
  /\ Turn(f)
  /\ f \in ClientFds
  /\ online_clients[f] \in wild
  /\ \E k \in 1..Len(up[peer[f]]) :
       \E d \in decode_message(SubSeq(up[peer[f]], 1, k)) : d.ok
  /\ srv' = "died"
  /\ UNCHANGED <<console, active_fds, tmp_fds, fdmax, newsockfd, peer,
                 registry, buffer, s_message, freed, handed, netVars>>
-----------------------------------------------------------------------------
ClientStep(f) ==
  Disconnect(f) \/ RecvFails(f) \/ HandleCommand(f) \/ CommandDies(f)

ServerStep ==
  \/ Select
  \/ AcceptConnection \/ AcceptFails
  \/ RefuseClient \/ AdmitClient \/ AdmitDies
  \/ PublishDatagram \/ PublishDies \/ RefuseDatagram
  \/ HandleStdin
  \/ \E f \in ClientFds : ClientStep(f)
=============================================================================
