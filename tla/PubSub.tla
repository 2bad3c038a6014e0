------------------------------ MODULE PubSub -------------------------------
(***************************************************************************)
(* The server, the subscribers and the publishers together.                *)
(***************************************************************************)
EXTENDS Server, Subscriber

CONSTANT ConsoleLines   \* what the operator may type, a subset of
                        \* {"exit", "other"}

ASSUME PubSubAssumption == ConsoleLines \subseteq {"exit", "other"}

vars == <<netVars, serverVars, subscriberVars>>

Init == NetInit /\ ServerInit /\ SubscriberInit

Serving == srv \in {"running", "recvId"}

\* Subscribers start and type while the server runs.
SubscriberStep(p) ==
  \/ Serving /\ \E i \in Ids : Connect(p, i)
  \/ SendId(p)
  \/ KilledEarly(p)
  \/ Serving /\ \E line \in Lines : TypeLine(p, line)
  \/ Exit(p)
  \/ Receive(p)
  \/ ~Serving /\ EndOfStream(p)

Publish == \E t \in Topics, k \in Kinds : DatagramArrives(t, k)

Next ==
  \/ ServerStep /\ UNCHANGED subscriberVars
  \/ \E line \in ConsoleLines : ConsoleLine(line) /\ UNCHANGED subscriberVars
  \/ \E p \in Procs : SubscriberStep(p) /\ UNCHANGED serverVars
  \/ Serving /\ Publish /\ UNCHANGED <<serverVars, subscriberVars>>

Spec == Init /\ [][Next]_vars

(***************************************************************************)
(* The server's loop keeps running, and a subscriber that connected sends  *)
(* its identifier. Nothing says that a subscriber reads what it is sent: it*)
(* serves stdin first, and at the end of that input nothing else, for ever *)
(* (subscriber.cpp:53-63).                                                 *)
(***************************************************************************)
Fairness ==
  /\ WF_vars(ServerStep /\ UNCHANGED subscriberVars)
  /\ \A p \in Procs : WF_vars(SendId(p) /\ UNCHANGED serverVars)

FairSpec == Spec /\ Fairness
-----------------------------------------------------------------------------
(* Every variable has its type. *)
TypeOK == NetTypeOK /\ ServerTypeOK /\ SubscriberTypeOK

(***************************************************************************)
(* The descriptor set, the socket -> client map and the online flags agree:*)
(* a client descriptor is watched exactly when it has an entry in the map  *)
(* (so the find() of server.cpp:188 and 202 never yields end()), no client *)
(* has two sockets, and a client is flagged online exactly when it has one.*)
(***************************************************************************)
WatchedAreOnline ==
  \A f \in ClientFds : f \in active_fds <=> online_clients[f] # NoId

OneSocketEach ==
  \A f, g \in ClientFds :
    online_clients[f] # NoId /\ online_clients[f] = online_clients[g] => f = g

FlagsMatchMap ==
  \A i \in IdSpace : online[i] <=> \E f \in ClientFds : online_clients[f] = i

OnlineAreKnown == \A i \in IdSpace : online[i] => i \in known

RegistryConsistent ==
  WatchedAreOnline /\ OneSocketEach /\ FlagsMatchMap /\ OnlineAreKnown

(***************************************************************************)
(* A descriptor select() reported is still open and still ready when its   *)
(* turn in the sweep comes, whatever the handlers before it and the        *)
(* subscribers did meanwhile: no accept() or recv() of the sweep blocks.   *)
(***************************************************************************)
ReadyStaysReady ==
  Serving => \A f \in tmp_fds : f \in active_fds /\ IsReady(f)

(***************************************************************************)
(* An online client has no pending messages, and only a known client has   *)
(* any: what was stored is sent as a whole on reconnection, before any     *)
(* newer message.                                                          *)
(***************************************************************************)
StoredOnlyOffline ==
  \A i \in IdSpace :
    pending_messages[i] # <<>> => ~online[i] /\ i \in known

(***************************************************************************)
(* No message is sent twice, or sent and stored, or stored twice for the   *)
(* same identifier, over any number of reconnections.                      *)
(***************************************************************************)
AtMostOnce ==
  \A i \in IdSpace :
    LET all == handed[i] \o pending_messages[i]
    IN \A a, b \in DOMAIN all : all[a] = all[b] => a = b

(***************************************************************************)
(* A run with identifier i typed the line; some run named the topic, in a  *)
(* command that was accepted or refused; a run with identifier i asked for *)
(* the topic. The bare word "subscribe" asks for the topic of the command  *)
(* before it, whoever sent that and whatever became of it (server.cpp:     *)
(* 198-209 keep s_message from one command to the next, and decode_message *)
(* has written the topic when it refuses a line, helpers.cpp:195-224).     *)
(***************************************************************************)
Typed(i, line) ==
  \E p \in Procs : id[p] = i /\ \E k \in DOMAIN typed[p] : typed[p][k] = line

Subscribe(t, mode) == [verb |-> "subscribe", topic |-> t, rest |-> mode]
BareWord           == [verb |-> "bare", word |-> "subscribe"]

Named(t) == \E i \in Ids, line \in CommandLines : line.topic = t /\ Typed(i, line)

AskedFor(i, t, mode) ==
  \/ Typed(i, Subscribe(t, mode))
  \/ Typed(i, BareWord) /\ Named(t)

Asked(i, t) == \E mode \in Flags : AskedFor(i, t, mode)

(***************************************************************************)
(* What a run of ./subscriber prints was sent for its own identifier, on a *)
(* topic that a run with this identifier asked for.                        *)
(***************************************************************************)

PrintedWasMeant ==
  \A p \in Procs : \A k \in DOMAIN printed[p] :
    /\ \E j \in DOMAIN handed[id[p]] : handed[id[p]][j] = printed[p][k]
    /\ Asked(id[p], printed[p][k].topic)

(***************************************************************************)
(* Both together: what a subscriber gets was meant for it and comes once,  *)
(* however often it leaves, is refused and comes back, and whoever else    *)
(* has used its descriptor (server.cpp:116-123 and 144-157).               *)
(***************************************************************************)
MeantAndOnce == AtMostOnce /\ PrintedWasMeant

(***************************************************************************)
(* What a connection carries: the stored messages first, newest first (the *)
(* list of pending messages is a stack), then newer messages in the order  *)
(* in which they reached the server.                                       *)
(***************************************************************************)
Carried(p) == printed[p] \o down[p]

MessagesIn(s) == {k \in DOMAIN s : s[k] # Notice}

StackThenQueue(s) ==
  \E k \in 0..Len(s) : \A a, b \in MessagesIn(s) :
    a < b => IF b <= k THEN s[a].n > s[b].n ELSE s[a].n < s[b].n

BacklogThenLive == \A p \in Procs : StackThenQueue(Carried(p))

(***************************************************************************)
(* A descriptor the process holds without watching it belongs to the       *)
(* connection being set up or to a refused one, which never got a message: *)
(* the descriptor of a client that disconnects is always given back.       *)
(***************************************************************************)
OnlyRefusedLeak ==
  \A f \in ClientFds :
    peer[f] # NoProc /\ f \notin active_fds =>
      \/ f = newsockfd
      \/ /\ MessagesIn(Carried(peer[f])) = {}
         /\ down[peer[f]] # <<>> \/ link[peer[f]] # "open"

(***************************************************************************)
(* A client is subscribed only to topics that a run with its identifier    *)
(* asked for, with the store&forward choice it made for them; the one other*)
(* way is its bare "subscribe", for a topic somebody named before, were it *)
(* in a line that was refused.                                             *)
(***************************************************************************)
OnlyNamedTopics ==
  \A i \in IdSpace, t \in Topics :
    topics[i][t] # "off" => AskedFor(i, t, topics[i][t])

(***************************************************************************)
(* A stored message leaves the store only by being sent for the client it  *)
(* was stored for, and nothing sent is taken back.                         *)
(***************************************************************************)
KeptOrSent(i) ==
  \A k \in DOMAIN pending_messages[i] :
    \/ \E j \in DOMAIN pending_messages'[i] :
         pending_messages'[i][j] = pending_messages[i][k]
    \/ \E j \in DOMAIN handed'[i] : handed'[i][j] = pending_messages[i][k]

NothingTakenBack(i) ==
  /\ Len(handed[i]) <= Len(handed'[i])
  /\ SubSeq(handed'[i], 1, Len(handed[i])) = handed[i]

StoredUntilSent ==
  [][\A i \in IdSpace : KeptOrSent(i) /\ NothingTakenBack(i)]_vars

(***************************************************************************)
(* Disconnecting, reconnecting and being refused leave subscriptions alone:*)
(* they change only while the client is online and stays so.               *)
(***************************************************************************)
SubscriptionsSurvive ==
  [][\A i \in IdSpace : topics'[i] # topics[i] => online[i] /\ online'[i]]_vars

(***************************************************************************)
(* Seen through its registry, the server is the broker of module Broker: a *)
(* client is present while its flag says online, a message is settled when *)
(* its datagram leaves the UDP queue.                                      *)
(***************************************************************************)
Promise == INSTANCE Broker WITH
  Clients <- IdSpace,
  subs    <- topics,
  present <- online,
  store   <- pending_messages,
  settled <- arrived - Len(udp_queue),
  open    <- Serving

ImplementsBroker == Promise!Spec
-----------------------------------------------------------------------------
(* readme.txt:46-47: the loop ends only on the command "exit". *)
EndsOnlyByCommand == srv # "died"
-----------------------------------------------------------------------------
(***************************************************************************)
(* A connection waiting to be accepted is accepted.                        *)
(***************************************************************************)
ConnectionsAccepted ==
  \A p \in Procs :
    (\E k \in DOMAIN backlog : backlog[k] = p)
      ~> (~Serving \/ \A k \in DOMAIN backlog : backlog[k] # p)

(* What a watched subscriber sends is read, its end is noticed. *)
CommandsServed ==
  \A f \in ClientFds :
    (online_clients[f] # NoId /\ Readable(peer[f]))
      ~> (~Serving \/ online_clients[f] = NoId \/ up[peer[f]] = <<>>)

ClosedNoticed ==
  \A f \in ClientFds :
    (online_clients[f] # NoId /\ link[peer[f]] # "open")
      ~> (~Serving \/ online_clients[f] = NoId)

(***************************************************************************)
(* Once a subscriber has ever connected, waiting datagrams are handled.    *)
(***************************************************************************)
DatagramsHandled ==
  (udp_queue # <<>> /\ fdmax > UDP) ~> (~Serving \/ udp_queue = <<>>)

(***************************************************************************)
(* Nothing waits for the server for ever: a connection, a command, the end *)
(* of a subscriber and a datagram are each reached by some sweep of the    *)
(* loop, whatever the others do (server.cpp:83-209).                       *)
(***************************************************************************)
NothingWaits ==
  ConnectionsAccepted /\ CommandsServed /\ ClosedNoticed /\ DatagramsHandled
=============================================================================
