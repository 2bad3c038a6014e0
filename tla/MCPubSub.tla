----------------------------- MODULE MCPubSub ------------------------------
(***************************************************************************)
(* Small instances of PubSub for TLC. The runs of ./subscriber and the     *)
(* identifiers are model values, interchangeable where a run checks no     *)
(* liveness.                                                               *)
(***************************************************************************)
EXTENDS PubSubInv, TLC

CONSTANTS p1, p2, p3, alice, bob, news

Command(verb, rest) == [verb |-> verb, topic |-> news, rest |-> rest]
Bare(word)          == [verb |-> "bare", word |-> word]

Keep    == Command("subscribe", "sf1")
Follow  == Command("subscribe", "sf0")
Leave   == Command("unsubscribe", "eol")
Hello   == [verb |-> "junk", word |-> alice]

\* Refused, but for the last, and yet they change s_message.
Slips == {Command("subscribe", "bad"), Command("subscribe", "eol"),
          Command("unsubscribe", "sf1"), Command("unsubscribe", "cut")}

KeepOnly == {Keep}
AnyLine  == {Keep, Follow, Leave, Bare("subscribe"), Bare("unsubscribe")} \cup Slips
WithJunk == {Keep, Hello}

Symmetry == Permutations(Procs) \cup Permutations(Ids)
=============================================================================
