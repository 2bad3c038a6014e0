---------------------------- MODULE Subscriber -----------------------------
(***************************************************************************)
(* Runs of ./subscriber (subscriber.cpp). Running the program again with   *)
(* the identifier of an earlier run is another member of Procs.            *)
(***************************************************************************)
EXTENDS Network

CONSTANT MaxLines  \* bound: lines typed in one run

ASSUME SubscriberAssumption == MaxLines \in Nat

VARIABLES
  stage,     \* "new", "connected" (identifier not sent), "running", "gone"
  id,        \* argv[1]
  typed,     \* history: the lines sent to the server
  printed    \* history: the messages printed

subscriberVars == <<stage, id, typed, printed>>

SubscriberTypeOK ==
  /\ stage \in [Procs -> {"new", "connected", "running", "gone"}]
  /\ id \in [Procs -> Ids \cup {NoId}]
  /\ typed \in [Procs -> Seq(Lines)]
  /\ printed \in [Procs -> Seq(Messages)]

SubscriberInit ==
  /\ stage = [p \in Procs |-> "new"]
  /\ id = [p \in Procs |-> NoId]
  /\ typed = [p \in Procs |-> <<>>]
  /\ printed = [p \in Procs |-> <<>>]

\* subscriber.cpp:24-35: connect() returns once the kernel queues p.
Connect(p, i) ==
  /\ stage[p] = "new"
  /\ stage' = [stage EXCEPT ![p] = "connected"]
  /\ id' = [id EXCEPT ![p] = i]
  /\ backlog' = Append(backlog, p)
  /\ UNCHANGED <<typed, printed, up, down, link, udp_queue, arrived>>

\* subscriber.cpp:37-38.
SendId(p) ==
  /\ stage[p] = "connected"
  /\ stage' = [stage EXCEPT ![p] = "running"]
  /\ up' = [up EXCEPT ![p] = Append(@, id[p])]
  /\ UNCHANGED <<id, typed, printed, backlog, down, link, udp_queue, arrived>>

\* The process is killed between connect() and send().
KilledEarly(p) ==
  /\ stage[p] = "connected"
  /\ stage' = [stage EXCEPT ![p] = "gone"]
  /\ link' = [link EXCEPT ![p] = "fin"]
  /\ UNCHANGED <<id, typed, printed, backlog, up, down, udp_queue, arrived>>

\* subscriber.cpp:53-62: any line but "exit" goes to the server as it is.
TypeLine(p, line) ==
  /\ stage[p] = "running"
  /\ Len(typed[p]) < MaxLines
  /\ typed' = [typed EXCEPT ![p] = Append(@, line)]
  /\ up' = [up EXCEPT ![p] = Append(@, line)]
  /\ UNCHANGED <<stage, id, printed, backlog, down, link, udp_queue, arrived>>

(***************************************************************************)
(* subscriber.cpp:57-59 and 81: "exit" (or a kill) closes the socket, even *)
(* with messages still to be read: stdin is served first. What is unread   *)
(* is lost; close() resets the connection if it had reached the socket.    *)
(***************************************************************************)
Exit(p) ==
  /\ stage[p] = "running"
  /\ stage' = [stage EXCEPT ![p] = "gone"]
  /\ \E s \in (IF down[p] = <<>> THEN {"fin"} ELSE {"pipe", "rst"}) :
       link' = [link EXCEPT ![p] = s]
  /\ down' = [down EXCEPT ![p] = <<>>]
  /\ UNCHANGED <<id, typed, printed, backlog, up, udp_queue, arrived>>

MessageWaits(p) == stage[p] = "running" /\ down[p] # <<>>

(***************************************************************************)
(* subscriber.cpp:63-77: print a message; the notice of a refused          *)
(* identifier ends the run (DIE).                                          *)
(***************************************************************************)
Receive(p) ==
  /\ MessageWaits(p)
  /\ down' = [down EXCEPT ![p] = Tail(@)]
  /\ IF Head(down[p]) = Notice
     THEN /\ stage' = [stage EXCEPT ![p] = "gone"]
          /\ link' = [link EXCEPT ![p] = "fin"]
          /\ UNCHANGED printed
     ELSE /\ printed' = [printed EXCEPT ![p] = Append(@, Head(down[p]))]
          /\ UNCHANGED <<stage, link>>
  /\ UNCHANGED <<id, typed, backlog, up, udp_queue, arrived>>

\* subscriber.cpp:66-70 and 81: the server closed the connection.
EndOfStream(p) ==
  /\ stage[p] = "running"
  /\ down[p] = <<>>
  /\ stage' = [stage EXCEPT ![p] = "gone"]
  /\ link' = [link EXCEPT ![p] = "fin"]
  /\ UNCHANGED <<id, typed, printed, backlog, up, down, udp_queue, arrived>>
=============================================================================
