------------------------------ MODULE Network ------------------------------
(***************************************************************************)
(* What the server and the subscribers share: the kernel's TCP connections *)
(* and the server's UDP receive queue (code outside the repository, as     *)
(* server.cpp and subscriber.cpp use it).                                  *)
(*                                                                         *)
(* A connection belongs to one run of ./subscriber, a member of Procs. TCP *)
(* is reliable and ordered but keeps no message boundaries: one recv()     *)
(* returns whatever prefix of the stream has arrived.                      *)
(***************************************************************************)
EXTENDS Integers, Sequences, FiniteSets

CONSTANTS
  Procs,      \* runs of ./subscriber, each connects at most once
  Ids,        \* subscriber identifiers (argv[1])
  Topics,     \* topic names
  Lines,      \* the lines subscribers may type, a subset of InputLines
  Kinds,      \* the kinds of datagram publishers may send
  MaxMsgs     \* bound: datagrams that reach the server

(***************************************************************************)
(* Strings the server can take for an identifier although no subscriber    *)
(* announced them: what earlier events left in its receive buffer. A       *)
(* string longer than an identifier is TooLong, whatever it says.          *)
(***************************************************************************)
StrayWords == {"", "exit", "subscribe", "junk"}
IdSpace    == Ids \cup StrayWords
TooLong    == "text"
NoId       == "none"
Texts      == IdSpace \cup {TooLong}

(***************************************************************************)
(* A subscription is absent, present without store&forward, or with it.    *)
(***************************************************************************)
Modes == {"off", "sf0", "sf1"}

(***************************************************************************)
(* The lines fgets() can deliver, as far as decode_message tells them      *)
(* apart. A command with a topic goes on with "0\n" ("sf0") or "1\n"       *)
(* ("sf1"), with the newline at once ("eol"), with nothing when the input  *)
(* ends there ("cut"), or with something else ("bad"). A bare line is a    *)
(* verb before the end of the input. Of any other line only the first word *)
(* matters (strtok cuts there). Lines begin with their first word, and no  *)
(* topic is another with something added or taken away at its end.         *)
(***************************************************************************)
Flags        == {"sf0", "sf1"}
CommandLines == [verb: {"subscribe", "unsubscribe"}, topic: Topics,
                 rest: Flags \cup {"eol", "cut", "bad"}]
BareLines    == [verb: {"bare"}, word: {"subscribe", "unsubscribe"}]
JunkLines    == [verb: {"junk"}, word: Ids \cup {"junk", TooLong}]
InputLines   == CommandLines \cup BareLines \cup JunkLines

(***************************************************************************)
(* Datagrams, numbered in the order in which they reach the server. "float"*)
(* is one whose formatted payload is a long FLOAT, "invalid" one whose type*)
(* byte is not 0..3.                                                       *)
(***************************************************************************)
Messages == [n: 1..MaxMsgs, topic: Topics, kind: Kinds]

ASSUME NetworkAssumption ==
  /\ Ids \cap (StrayWords \cup {TooLong, NoId}) = {}
  /\ Ids \cap InputLines = {}
  /\ Lines \subseteq InputLines
  /\ Kinds \subseteq {"plain", "float", "invalid"}
  /\ MaxMsgs \in Nat

VARIABLES
  backlog,    \* connections completed by the kernel, not yet accepted
  up,         \* up[p]: what p sent and the server has not received: its
              \* identifier first, then the lines it typed
  down,       \* down[p]: what the server sent and p has not read
  link,       \* link[p]: how p's end of the connection stands
  udp_queue,  \* datagrams in the server's UDP receive buffer
  arrived     \* number of datagrams that have reached the server

netVars == <<backlog, up, down, link, udp_queue, arrived>>

Notice == [text |-> "exit"]   \* what a refused subscriber is sent

(***************************************************************************)
(* "open"   p holds its end open                                           *)
(* "fin"    p closed: once the data is read, recv() returns 0              *)
(* "pipe"   p closed and data went to it since, or was on its way when it  *)
(*          did: a reset may have come back and another send() may raise   *)
(*          SIGPIPE; recv() still ends with 0                              *)
(* "rst"    p closed with unread data: recv() and send() fail              *)
(***************************************************************************)
LinkStates == {"open", "fin", "pipe", "rst"}

NetTypeOK ==
  /\ backlog \in Seq(Procs)
  /\ up \in [Procs -> Seq(Ids \cup Lines)]
  /\ down \in [Procs -> Seq(Messages \cup {Notice})]
  /\ link \in [Procs -> LinkStates]
  /\ udp_queue \in Seq(Messages)
  /\ arrived \in 0..MaxMsgs

NetInit ==
  /\ backlog = <<>>
  /\ up = [p \in Procs |-> <<>>]
  /\ down = [p \in Procs |-> <<>>]
  /\ link = [p \in Procs |-> "open"]
  /\ udp_queue = <<>>
  /\ arrived = 0

(***************************************************************************)
(* A publisher's datagram reaches the server's socket. UDP may lose,       *)
(* duplicate or reorder before this point; a duplicate is a datagram of its*)
(* own here.                                                               *)
(***************************************************************************)
DatagramArrives(t, k) ==
  /\ arrived < MaxMsgs
  /\ arrived' = arrived + 1
  /\ udp_queue' = Append(udp_queue, [n |-> arrived + 1, topic |-> t, kind |-> k])
  /\ UNCHANGED <<backlog, up, down, link>>

(***************************************************************************)
(* recv() on p's connection returns at once with data, end of file or an   *)
(* error.                                                                  *)
(***************************************************************************)
Readable(p) == up[p] # <<>> \/ link[p] # "open"

(***************************************************************************)
(* The outcome of sending the sequence ms to p: delivered while p is open, *)
(* lost otherwise.                                                         *)
(***************************************************************************)
Sent(p, ms)     == IF link[p] = "open" THEN down[p] \o ms ELSE down[p]
LinkAfter(p)    == IF link[p] = "fin" THEN "pipe" ELSE link[p]
=============================================================================
