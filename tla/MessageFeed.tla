---------------------------- MODULE MessageFeed ----------------------------
(***************************************************************************)
(* What a user is promised about the text of messages: a text appears only *)
(* after the server holds the message, and it appears at most once, however *)
(* many times and along however many paths (the websocket, a history fetch, *)
(* a refresh after a send) the client is handed the message.               *)
(*                                                                         *)
(* InboundPipeline implements this specification (Feed there).             *)
(***************************************************************************)
EXTENDS Naturals

CONSTANT Msgs

VARIABLES
  onServer,  \* messages the server stores
  shown      \* shown[m]: how many times the text of m has been displayed

vars == <<onServer, shown>>

Init ==
  /\ onServer = {}
  /\ shown = [m \in Msgs |-> 0]

Post(m) ==
  /\ m \notin onServer
  /\ onServer' = onServer \union {m}
  /\ UNCHANGED shown

Show(m) ==
  /\ m \in onServer
  /\ shown[m] = 0
  /\ shown' = [shown EXCEPT ![m] = 1]
  /\ UNCHANGED onServer

Next == \E m \in Msgs : Post(m) \/ Show(m)

Spec == Init /\ [][Next]_vars
=============================================================================
