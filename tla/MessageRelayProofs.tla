------------------------- MODULE MessageRelayProofs -------------------------
(***************************************************************************)
(* Proofs about MessageRelay, for any number of users and messages and any  *)
(* size of the ring, the page and the sockets' buffers.                     *)
(*                                                                         *)
(* NoHoles and JoinIsHeard are not inductive: what a client lacks now must  *)
(* still be on its way.  The key lemma is CoveredStays: as long as its      *)
(* socket lasts, an event that a member has, that is on its way to it or    *)
(* that the server is known to have lost stays so, whatever step is taken.  *)
(* IInv adds what makes that lemma and the steps that make new promises go  *)
(* through:                                                                *)
(*   HeldInv    a task has one event in hand, so writing it writes it all; *)
(*   LinkInv    without a subscription nothing is promised;                *)
(*   MemberInv  what is promised the visibility check lets through, and    *)
(*              the client can take in;                                    *)
(*   PageInv    a page in flight still makes one piece with the events     *)
(*              after it, whatever was stored since it was read.           *)
(* InOrder needs that what a message came after was answered, so on the    *)
(* ring or past it, before the message got its row (BusKnown, LineKnown),   *)
(* and the order of a user's line taken apart by where its events are:     *)
(* on the wire, in the task's hand, on the ring (LineInv).                 *)
(***************************************************************************)
EXTENDS MessageRelay, SequenceTheorems, TLAPS

\* A task has one event in hand at most.
HeldInv == \A u \in Users : held[u] = {} \/ \E e \in Events : held[u] = {e}

\* The parts of TypeOK.
TableTypes == member \subseteq Users /\ mapped \subseteq Users /\ last \in 0..MaxMsgs
BusTypes ==
  /\ sending \subseteq Events /\ unsent \subseteq Events /\ answered \subseteq Events
  /\ log \in Seq(Events) /\ prior \in [Msgs -> SUBSET Events]
TaskTypes ==
  /\ link \in [Users -> {"none", "down", "accepted", "open"}]
  /\ next \in [Users -> Nat \ {0}] /\ \A u \in Users : next[u] <= Len(log) + 1
  /\ held \in [Users -> SUBSET Events]
WireTypes == wire \in [Users -> Seq(Events)] /\ \A u \in Users : Len(wire[u]) <= WireCap
ViewTypes ==
  /\ got \in [Users -> SUBSET Events] /\ lost \in [Users -> SUBSET Events]
  /\ owed \in [Users -> SUBSET Users] /\ from \in [Users -> 1..Beyond]
Fetches == [stage : {"idle", "asked", "answered"}, before : 1..Beyond,
            ids : SUBSET Msgs, fresh : BOOLEAN]
FetchTypes == fetch \in [Users -> Fetches] /\ failures \in 0..MaxFailures

\* What u has, will have, or is excused from having.
Covered(u) == got[u] \union OnTheWay(u) \union Excused(u)

\* A page in flight is complete from its floor up to its bound, and what the
\* table got after it was read is on the way.
PageInv ==
  \A u \in Users :
    LET ids == fetch[u].ids IN
    fetch[u].stage = "answered" =>
      /\ Floor(ids) \in 1..Beyond
      /\ IF fetch[u].fresh
         THEN \A i \in Floor(ids)..last : i < fetch[u].before => i \in ids \union Covered(u)
         ELSE from[u] = Beyond

\* Without a subscription nothing is under way and nothing is promised.
LinkInv ==
  \A u \in Users : link[u] # "open" =>
    /\ held[u] = {} /\ wire[u] = <<>>
    /\ from[u] = Beyond /\ owed[u] = {} /\ ~ fetch[u].fresh

\* What a client is promised it may see and can take in.
MemberInv ==
  \A u \in Users :
    /\ from[u] # Beyond => u \in member /\ u \in mapped
    /\ owed[u] # {} => u \in member
    /\ fetch[u].stage # "idle" => u \in mapped
    /\ fetch[u].stage = "answered" => u \in member
    /\ fetch[u].fresh => fetch[u].stage = "answered"

\* x is a message sent after y was answered.
Clash(x, y) == x \in Msgs /\ y \in prior[x]

\* Whatever was answered has its row and is out of its handler's hands.
BusKnown ==
  /\ sending \subseteq 1..last \union member /\ answered \subseteq 1..last \union member
  /\ sending \cap answered = {}
  /\ \A i \in Msgs : prior[i] \subseteq answered

\* Whatever is on the ring or past it was answered.
LineKnown ==
  /\ \A k \in 1..Len(log) : log[k] \in answered
  /\ \A u \in Users : held[u] \subseteq answered
  /\ \A u \in Users : \A k \in DOMAIN wire[u] : wire[u][k] \in answered

\* The parts of a user's line, each before the next.
LineOf(u) ==
  /\ \A a, b \in DOMAIN wire[u] : a < b => ~ Clash(wire[u][a], wire[u][b])
  /\ \A a \in DOMAIN wire[u] : \A e \in held[u] : ~ Clash(wire[u][a], e)
  /\ \A a \in DOMAIN wire[u] : \A k \in next[u]..Len(log) : ~ Clash(wire[u][a], log[k])
  /\ \A e \in held[u] : \A k \in next[u]..Len(log) : ~ Clash(e, log[k])

LineInv ==
  /\ \A j, k \in 1..Len(log) : j < k => ~ Clash(log[j], log[k])
  /\ \A u \in Users : LineOf(u)

\* The type invariant, taken apart by who writes what.
LEMMA TypeParts ==
  TypeOK <=> TableTypes /\ BusTypes /\ TaskTypes /\ WireTypes /\ ViewTypes /\ FetchTypes
  BY DEF TypeOK, TableTypes, BusTypes, TaskTypes, WireTypes, ViewTypes, Fetches, FetchTypes

\* The smaller of two numbers.
LEMMA TwoLeast ==
  ASSUME NEW a \in Nat, NEW b \in Nat
  PROVE  /\ Least({a, b}) \in {a, b} /\ Least({a, b}) <= a /\ Least({a, b}) <= b
<1>1. \E i \in {a, b} : \A j \in {a, b} : i <= j
  <2>1. CASE a <= b BY <2>1
  <2>2. CASE ~ (a <= b) BY <2>2
  <2> QED BY <2>1, <2>2
<1> QED BY <1>1 DEF Least

\* A page holds every row from its floor up to its bound.
LEMMA PageLemma ==
  ASSUME TypeOK, NEW b \in 1..Beyond
  PROVE  /\ PageBefore(b) \subseteq Msgs
         /\ Floor(PageBefore(b)) \in 1..Beyond
         /\ \A i \in Floor(PageBefore(b))..last : i < b => i \in PageBefore(b)
<1> DEFINE top == Least({b, last + 1})
           ids == PageBefore(b)
           low == IF top > Page THEN top - Page ELSE 1
<1>0. last \in 0..MaxMsgs /\ MaxMsgs \in Nat /\ Page \in Nat \ {0} /\ b \in Nat \ {0}
  BY BoundAssumption DEF TypeOK, Beyond
<1>1. top \in {b, last + 1} /\ top <= b /\ top <= last + 1 /\ top \in Nat \ {0}
  BY <1>0, TwoLeast
<1>2. ids = {i \in 1..last : i < top /\ top - i <= Page}
  BY DEF PageBefore
<1>3. ids \subseteq Msgs
  BY <1>0, <1>2 DEF Msgs
<1>4. CASE ids = {}
  <2>1. \A i \in 1..last : ~ (i < b)
    <3> SUFFICES ASSUME NEW i \in 1..last, i < b PROVE FALSE
      OBVIOUS
    <3>1. top - 1 \in 1..last /\ top - 1 < top /\ top - (top - 1) = 1
      BY <1>0, <1>1
    <3> HIDE DEF top
    <3> QED
      BY <1>0, <1>2, <1>4, <3>1
  <2> QED
    BY <2>1, <1>4, <1>3, <1>0 DEF Floor, Beyond
<1>5. CASE ids # {}
  <2>1. low \in ids /\ \A i \in ids : low <= i
    <3>1. PICK i \in ids : TRUE
      BY <1>5
    <3> HIDE DEF top
    <3>2. low \in 1..last /\ low < top /\ top - low <= Page
      BY <1>0, <1>1, <1>2, <3>1
    <3> QED
      BY <1>0, <1>1, <1>2, <3>2
  <2>2. Least(ids) \in ids /\ \A i \in ids : Least(ids) <= i
    BY <2>1 DEF Least
  <2>3. Floor(ids) = Least(ids)
    BY <1>5 DEF Floor
  <2>4. \A i \in Least(ids)..last : i < b => i \in ids
    <3> SUFFICES ASSUME NEW i \in Least(ids)..last, i < b PROVE i \in ids
      OBVIOUS
    <3>1. Least(ids) \in 1..last /\ top - Least(ids) <= Page
      BY <2>2, <1>2
    <3>2. i \in 1..last /\ i < top /\ top - i <= Page
      BY <3>1, <1>0, <1>1
    <3> HIDE DEF top
    <3> QED
      BY <3>2, <1>2
  <2> QED
    BY <2>2, <2>3, <2>4, <1>3, <1>0 DEF Beyond, Msgs
<1> QED
  BY <1>4, <1>5

\* No step breaks the type of the relay's state.
LEMMA TypeStep ==
  ASSUME TypeOK, PageInv, [Next]_vars
  PROVE  TypeOK'
<1> USE DEF tableVars, busVars, taskVars, clientVars
<1>0. /\ TableTypes /\ BusTypes /\ TaskTypes /\ WireTypes /\ ViewTypes /\ FetchTypes
      /\ Beyond \in Nat \ {0}
  BY TypeParts, BoundAssumption DEF Beyond
<1>1. ASSUME NEW u \in Users, Join(u) PROVE TypeOK'
  <2>1. TableTypes'
    BY <1>0, <1>1, BoundAssumption DEF TableTypes, Join, Events, Msgs
  <2>2. BusTypes'
    BY <1>0, <1>1, BoundAssumption DEF BusTypes, Join, Events, Msgs
  <2>3. TaskTypes'
    BY <1>0, <1>1, BoundAssumption DEF TaskTypes, Join, Events, Msgs
  <2>4. WireTypes'
    BY <1>0, <1>1, BoundAssumption DEF WireTypes, Join, Events, Msgs
  <2>5. ViewTypes'
    BY <1>0, <1>1, BoundAssumption DEF ViewTypes, Join, Events, Msgs
  <2>6. FetchTypes'
    BY <1>0, <1>1, BoundAssumption DEF FetchTypes, Join, Events, Msgs
  <2> QED BY <2>1, <2>2, <2>3, <2>4, <2>5, <2>6 DEF TypeOK, TableTypes, BusTypes, TaskTypes, WireTypes, ViewTypes, FetchTypes, Fetches
<1>2. ASSUME NEW u \in Users, Insert(u) PROVE TypeOK'
  <2>1. TableTypes'
    BY <1>0, <1>2, BoundAssumption DEF TableTypes, Insert, Events, Msgs
  <2>2. BusTypes'
    <3>1. last + 1 \in Events
      BY <1>0, <1>2, BoundAssumption DEF TableTypes, Insert, Events, Msgs
    <3> QED
      BY <1>0, <1>2, <3>1 DEF BusTypes, Insert
  <2>3. TaskTypes'
    BY <1>0, <1>2, BoundAssumption DEF TaskTypes, Insert, Events, Msgs
  <2>4. WireTypes'
    BY <1>0, <1>2, BoundAssumption DEF WireTypes, Insert, Events, Msgs
  <2>5. ViewTypes'
    BY <1>0, <1>2, BoundAssumption DEF ViewTypes, Insert, Events, Msgs
  <2>6. FetchTypes'
    BY <1>0, <1>2, BoundAssumption DEF FetchTypes, Insert, Events, Msgs
  <2> QED BY <2>1, <2>2, <2>3, <2>4, <2>5, <2>6 DEF TypeOK, TableTypes, BusTypes, TaskTypes, WireTypes, ViewTypes, FetchTypes, Fetches
<1>3. ASSUME NEW u \in Users, Subscribe(u) PROVE TypeOK'
  <2>1. TableTypes'
    BY <1>0, <1>3, BoundAssumption DEF TableTypes, Subscribe, Events, Msgs
  <2>2. BusTypes'
    BY <1>0, <1>3, BoundAssumption DEF BusTypes, Subscribe, Events, Msgs
  <2>3. TaskTypes'
    BY <1>0, <1>3, BoundAssumption DEF TaskTypes, Subscribe, Events, Msgs
  <2>4. WireTypes'
    BY <1>0, <1>3, BoundAssumption DEF WireTypes, Subscribe, Events, Msgs
  <2>5. ViewTypes'
    BY <1>0, <1>3, BoundAssumption DEF ViewTypes, Subscribe, Events, Msgs
  <2>6. FetchTypes'
    BY <1>0, <1>3, BoundAssumption DEF FetchTypes, Subscribe, Events, Msgs
  <2> QED BY <2>1, <2>2, <2>3, <2>4, <2>5, <2>6 DEF TypeOK, TableTypes, BusTypes, TaskTypes, WireTypes, ViewTypes, FetchTypes, Fetches
<1>4. ASSUME NEW u \in Users, Receive(u) PROVE TypeOK'
  <2>1. TableTypes'
    BY <1>0, <1>4, BoundAssumption DEF TableTypes, Receive, Idle, Behind, Events, Msgs
  <2>2. BusTypes'
    BY <1>0, <1>4, BoundAssumption DEF BusTypes, Receive, Idle, Behind, Events, Msgs
  <2>3. TaskTypes'
    <3>1. next[u] \in Nat \ {0} /\ Len(log) \in Nat /\ next[u] <= Len(log)
      BY <1>0, <1>4, BoundAssumption DEF Receive, Idle, Behind, TaskTypes, BusTypes
    <3>2. log[next[u]] \in Events
      BY <1>0, <3>1 DEF BusTypes
    <3> QED
      BY <1>0, <1>4, <3>1, <3>2 DEF Receive, TaskTypes
  <2>4. WireTypes'
    BY <1>0, <1>4, BoundAssumption DEF WireTypes, Receive, Idle, Behind, Events, Msgs
  <2>5. ViewTypes'
    BY <1>0, <1>4, BoundAssumption DEF ViewTypes, Receive, Idle, Behind, Events, Msgs
  <2>6. FetchTypes'
    BY <1>0, <1>4, BoundAssumption DEF FetchTypes, Receive, Idle, Behind, Events, Msgs
  <2> QED BY <2>1, <2>2, <2>3, <2>4, <2>5, <2>6 DEF TypeOK, TableTypes, BusTypes, TaskTypes, WireTypes, ViewTypes, FetchTypes, Fetches
<1>5. ASSUME NEW u \in Users, Lag(u) PROVE TypeOK'
  <2>1. TableTypes'
    BY <1>0, <1>5, BoundAssumption DEF TableTypes, Lag, Idle, Behind, Events, Msgs
  <2>2. BusTypes'
    BY <1>0, <1>5, BoundAssumption DEF BusTypes, Lag, Idle, Behind, Events, Msgs
  <2>3. TaskTypes'
    BY <1>0, <1>5, BoundAssumption DEF TaskTypes, Lag, Idle, Behind, Events, Msgs
  <2>4. WireTypes'
    BY <1>0, <1>5, BoundAssumption DEF WireTypes, Lag, Idle, Behind, Events, Msgs
  <2>5. ViewTypes'
    <3>1. next[u] \in Nat \ {0} /\ Len(log) \in Nat
      BY <1>0, <1>5 DEF TaskTypes, BusTypes
    <3>2. {log[k] : k \in next[u]..(Len(log) - Cap)} \subseteq Events
      BY <1>0, <3>1, BoundAssumption DEF BusTypes
    <3> QED
      BY <1>0, <1>5, <3>2 DEF Lag, ViewTypes
  <2>6. FetchTypes'
    BY <1>0, <1>5, BoundAssumption DEF FetchTypes, Lag, Idle, Behind, Events, Msgs
  <2> QED BY <2>1, <2>2, <2>3, <2>4, <2>5, <2>6 DEF TypeOK, TableTypes, BusTypes, TaskTypes, WireTypes, ViewTypes, FetchTypes, Fetches
<1>6. ASSUME NEW u \in Users, Forward(u) PROVE TypeOK'
  <2>1. TableTypes'
    BY <1>0, <1>6, BoundAssumption DEF TableTypes, Forward, Events, Msgs
  <2>2. BusTypes'
    BY <1>0, <1>6, BoundAssumption DEF BusTypes, Forward, Events, Msgs
  <2>3. TaskTypes'
    BY <1>0, <1>6, BoundAssumption DEF TaskTypes, Forward, Events, Msgs
  <2>4. WireTypes'
    <3> DEFINE e == CHOOSE x \in held[u] : TRUE
    <3>1. e \in Events
      BY <1>0, <1>6 DEF Forward, TaskTypes
    <3>2. wire[u] \in Seq(Events) /\ Len(wire[u]) \in Nat
      BY <1>0 DEF WireTypes
    <3>3. wire' = [wire EXCEPT ![u] = @ \o <<e>>] /\ Len(wire[u]) < WireCap
      BY <1>6 DEF Forward
    <3> HIDE DEF e
    <3>4. wire[u] \o <<e>> \in Seq(Events) /\ Len(wire[u] \o <<e>>) = Len(wire[u]) + 1
      BY <3>1, <3>2
    <3> QED
      BY <1>0, <3>2, <3>3, <3>4, BoundAssumption DEF WireTypes
  <2>5. ViewTypes'
    BY <1>0, <1>6, BoundAssumption DEF ViewTypes, Forward, Events, Msgs
  <2>6. FetchTypes'
    BY <1>0, <1>6, BoundAssumption DEF FetchTypes, Forward, Events, Msgs
  <2> QED BY <2>1, <2>2, <2>3, <2>4, <2>5, <2>6 DEF TypeOK, TableTypes, BusTypes, TaskTypes, WireTypes, ViewTypes, FetchTypes, Fetches
<1>7. ASSUME NEW u \in Users, Filter(u) PROVE TypeOK'
  <2>1. TableTypes'
    BY <1>0, <1>7, BoundAssumption DEF TableTypes, Filter, Events, Msgs
  <2>2. BusTypes'
    BY <1>0, <1>7, BoundAssumption DEF BusTypes, Filter, Events, Msgs
  <2>3. TaskTypes'
    BY <1>0, <1>7, BoundAssumption DEF TaskTypes, Filter, Events, Msgs
  <2>4. WireTypes'
    BY <1>0, <1>7, BoundAssumption DEF WireTypes, Filter, Events, Msgs
  <2>5. ViewTypes'
    BY <1>0, <1>7, BoundAssumption DEF ViewTypes, Filter, Events, Msgs
  <2>6. FetchTypes'
    BY <1>0, <1>7, BoundAssumption DEF FetchTypes, Filter, Events, Msgs
  <2> QED BY <2>1, <2>2, <2>3, <2>4, <2>5, <2>6 DEF TypeOK, TableTypes, BusTypes, TaskTypes, WireTypes, ViewTypes, FetchTypes, Fetches
<1>8. ASSUME NEW u \in Users, CheckFails(u) PROVE TypeOK'
  <2>1. TableTypes'
    BY <1>0, <1>8, BoundAssumption DEF TableTypes, CheckFails, Fail, Events, Msgs
  <2>2. BusTypes'
    BY <1>0, <1>8, BoundAssumption DEF BusTypes, CheckFails, Fail, Events, Msgs
  <2>3. TaskTypes'
    BY <1>0, <1>8, BoundAssumption DEF TaskTypes, CheckFails, Fail, Events, Msgs
  <2>4. WireTypes'
    BY <1>0, <1>8, BoundAssumption DEF WireTypes, CheckFails, Fail, Events, Msgs
  <2>5. ViewTypes'
    <3>1. held[u] \in SUBSET Events
      BY <1>0 DEF TaskTypes
    <3> QED
      BY <1>0, <1>8, <3>1 DEF CheckFails, ViewTypes
  <2>6. FetchTypes'
    BY <1>0, <1>8, BoundAssumption DEF FetchTypes, CheckFails, Fail, Events, Msgs
  <2> QED BY <2>1, <2>2, <2>3, <2>4, <2>5, <2>6 DEF TypeOK, TableTypes, BusTypes, TaskTypes, WireTypes, ViewTypes, FetchTypes, Fetches
<1>9. ASSUME NEW u \in Users, Disconnect(u) PROVE TypeOK'
  <2>1. TableTypes'
    BY <1>0, <1>9, BoundAssumption DEF TableTypes, Disconnect, Hangup, Fail, Events, Msgs
  <2>2. BusTypes'
    BY <1>0, <1>9, BoundAssumption DEF BusTypes, Disconnect, Hangup, Fail, Events, Msgs
  <2>3. TaskTypes'
    BY <1>0, <1>9, BoundAssumption DEF TaskTypes, Disconnect, Hangup, Fail, Events, Msgs
  <2>4. WireTypes'
    BY <1>0, <1>9, BoundAssumption DEF WireTypes, Disconnect, Hangup, Fail, Events, Msgs
  <2>5. ViewTypes'
    BY <1>0, <1>9, BoundAssumption DEF ViewTypes, Disconnect, Hangup, Fail, Events, Msgs
  <2>6. FetchTypes'
    <3>1. \A v \in Users : [fetch[v] EXCEPT !.fresh = FALSE] \in Fetches
      BY <1>0 DEF FetchTypes, Fetches
    <3> QED
      BY <1>0, <1>9, <3>1, BoundAssumption DEF Disconnect, Hangup, Fail, FetchTypes
  <2> QED BY <2>1, <2>2, <2>3, <2>4, <2>5, <2>6 DEF TypeOK, TableTypes, BusTypes, TaskTypes, WireTypes, ViewTypes, FetchTypes, Fetches
<1>10. ASSUME NEW u \in Users, Login(u) PROVE TypeOK'
  <2>1. TableTypes'
    BY <1>0, <1>10, BoundAssumption DEF TableTypes, Login, NoFetch, Events, Msgs
  <2>2. BusTypes'
    BY <1>0, <1>10, BoundAssumption DEF BusTypes, Login, NoFetch, Events, Msgs
  <2>3. TaskTypes'
    BY <1>0, <1>10, BoundAssumption DEF TaskTypes, Login, NoFetch, Events, Msgs
  <2>4. WireTypes'
    BY <1>0, <1>10, BoundAssumption DEF WireTypes, Login, NoFetch, Events, Msgs
  <2>5. ViewTypes'
    BY <1>0, <1>10, BoundAssumption DEF ViewTypes, Login, NoFetch, Events, Msgs
  <2>6. FetchTypes'
    <3>1. NoFetch \in Fetches
      BY <1>0 DEF NoFetch, Fetches
    <3> QED
      BY <1>0, <1>10, <3>1, BoundAssumption DEF Login, Fail, FetchTypes
  <2> QED BY <2>1, <2>2, <2>3, <2>4, <2>5, <2>6 DEF TypeOK, TableTypes, BusTypes, TaskTypes, WireTypes, ViewTypes, FetchTypes, Fetches
<1>11. ASSUME NEW u \in Users, Read(u) PROVE TypeOK'
  <2>1. TableTypes'
    BY <1>0, <1>11, BoundAssumption DEF TableTypes, Read, Events, Msgs
  <2>2. BusTypes'
    BY <1>0, <1>11, BoundAssumption DEF BusTypes, Read, Events, Msgs
  <2>3. TaskTypes'
    BY <1>0, <1>11, BoundAssumption DEF TaskTypes, Read, Events, Msgs
  <2>4. WireTypes'
    BY <1>0, <1>11, BoundAssumption DEF WireTypes, Read, Events, Msgs
  <2>5. ViewTypes'
    <3>1. Head(wire[u]) \in Events
      BY <1>0, <1>11 DEF WireTypes, Read
    <3> QED
      BY <1>0, <1>11, <3>1 DEF Read, ViewTypes
  <2>6. FetchTypes'
    BY <1>0, <1>11, BoundAssumption DEF FetchTypes, Read, Events, Msgs
  <2> QED BY <2>1, <2>2, <2>3, <2>4, <2>5, <2>6 DEF TypeOK, TableTypes, BusTypes, TaskTypes, WireTypes, ViewTypes, FetchTypes, Fetches
<1>12. ASSUME NEW u \in Users, Map(u) PROVE TypeOK'
  <2>1. TableTypes'
    BY <1>0, <1>12, BoundAssumption DEF TableTypes, Map, Events, Msgs
  <2>2. BusTypes'
    BY <1>0, <1>12, BoundAssumption DEF BusTypes, Map, Events, Msgs
  <2>3. TaskTypes'
    BY <1>0, <1>12, BoundAssumption DEF TaskTypes, Map, Events, Msgs
  <2>4. WireTypes'
    BY <1>0, <1>12, BoundAssumption DEF WireTypes, Map, Events, Msgs
  <2>5. ViewTypes'
    BY <1>0, <1>12, BoundAssumption DEF ViewTypes, Map, Events, Msgs
  <2>6. FetchTypes'
    BY <1>0, <1>12, BoundAssumption DEF FetchTypes, Map, Events, Msgs
  <2> QED BY <2>1, <2>2, <2>3, <2>4, <2>5, <2>6 DEF TypeOK, TableTypes, BusTypes, TaskTypes, WireTypes, ViewTypes, FetchTypes, Fetches
<1>13. ASSUME NEW u \in Users, Open(u) PROVE TypeOK'
  <2>1. TableTypes'
    BY <1>0, <1>13, BoundAssumption DEF TableTypes, Open, Ask, NoFetch, Events, Msgs
  <2>2. BusTypes'
    BY <1>0, <1>13, BoundAssumption DEF BusTypes, Open, Ask, NoFetch, Events, Msgs
  <2>3. TaskTypes'
    BY <1>0, <1>13, BoundAssumption DEF TaskTypes, Open, Ask, NoFetch, Events, Msgs
  <2>4. WireTypes'
    BY <1>0, <1>13, BoundAssumption DEF WireTypes, Open, Ask, NoFetch, Events, Msgs
  <2>5. ViewTypes'
    BY <1>0, <1>13, BoundAssumption DEF ViewTypes, Open, Ask, NoFetch, Events, Msgs
  <2>6. FetchTypes'
    <3>1. Beyond \in 1..Beyond
      BY <1>0
    <3>3. [NoFetch EXCEPT !.stage = "asked", !.before = Beyond] \in Fetches
      BY <3>1 DEF NoFetch, Fetches
    <3> QED
      BY <1>0, <1>13, <3>3 DEF Open, Ask, FetchTypes
  <2> QED BY <2>1, <2>2, <2>3, <2>4, <2>5, <2>6 DEF TypeOK, TableTypes, BusTypes, TaskTypes, WireTypes, ViewTypes, FetchTypes, Fetches
<1>14. ASSUME NEW u \in Users, LoadOlder(u) PROVE TypeOK'
  <2>1. TableTypes'
    BY <1>0, <1>14, BoundAssumption DEF TableTypes, LoadOlder, Ask, NoFetch, Events, Msgs
  <2>2. BusTypes'
    BY <1>0, <1>14, BoundAssumption DEF BusTypes, LoadOlder, Ask, NoFetch, Events, Msgs
  <2>3. TaskTypes'
    BY <1>0, <1>14, BoundAssumption DEF TaskTypes, LoadOlder, Ask, NoFetch, Events, Msgs
  <2>4. WireTypes'
    BY <1>0, <1>14, BoundAssumption DEF WireTypes, LoadOlder, Ask, NoFetch, Events, Msgs
  <2>5. ViewTypes'
    BY <1>0, <1>14, BoundAssumption DEF ViewTypes, LoadOlder, Ask, NoFetch, Events, Msgs
  <2>6. FetchTypes'
    <3>1. PICK b \in got[u] \cap Msgs : Ask(u, b)
      BY <1>14 DEF LoadOlder
    <3>2. b \in 1..Beyond
      BY <3>1, BoundAssumption DEF Msgs, Beyond
    <3>3. [NoFetch EXCEPT !.stage = "asked", !.before = b] \in Fetches
      BY <3>2 DEF NoFetch, Fetches
    <3> QED
      BY <1>0, <3>1, <3>3 DEF Ask, FetchTypes
  <2> QED BY <2>1, <2>2, <2>3, <2>4, <2>5, <2>6 DEF TypeOK, TableTypes, BusTypes, TaskTypes, WireTypes, ViewTypes, FetchTypes, Fetches
<1>15. ASSUME NEW u \in Users, Answer(u) PROVE TypeOK'
  <2>1. TableTypes'
    BY <1>0, <1>15, BoundAssumption DEF TableTypes, Answer, Events, Msgs
  <2>2. BusTypes'
    BY <1>0, <1>15, BoundAssumption DEF BusTypes, Answer, Events, Msgs
  <2>3. TaskTypes'
    BY <1>0, <1>15, BoundAssumption DEF TaskTypes, Answer, Events, Msgs
  <2>4. WireTypes'
    BY <1>0, <1>15, BoundAssumption DEF WireTypes, Answer, Events, Msgs
  <2>5. ViewTypes'
    BY <1>0, <1>15, BoundAssumption DEF ViewTypes, Answer, Events, Msgs
  <2>6. FetchTypes'
    <3>1. fetch[u] \in Fetches /\ fetch[u].before \in 1..Beyond
      BY <1>0 DEF FetchTypes, Fetches
    <3>2. PageBefore(fetch[u].before) \in SUBSET Msgs
      BY <3>1, PageLemma
    <3>3. [fetch[u] EXCEPT !.stage = "answered", !.ids = PageBefore(fetch[u].before),
                           !.fresh = (link[u] = "open")] \in Fetches
      BY <3>1, <3>2 DEF Fetches
    <3>4. fetch' = [fetch EXCEPT ![u] = [fetch[u] EXCEPT !.stage = "answered",
                      !.ids = PageBefore(fetch[u].before), !.fresh = (link[u] = "open")]]
      BY <1>15 DEF Answer
    <3> QED
      BY <1>0, <1>15, <3>3, <3>4 DEF Answer, FetchTypes
  <2> QED BY <2>1, <2>2, <2>3, <2>4, <2>5, <2>6 DEF TypeOK, TableTypes, BusTypes, TaskTypes, WireTypes, ViewTypes, FetchTypes, Fetches
<1>16. ASSUME NEW u \in Users, Absorb(u) PROVE TypeOK'
  <2>1. TableTypes'
    BY <1>0, <1>16, BoundAssumption DEF TableTypes, Absorb, NoFetch, Events, Msgs
  <2>2. BusTypes'
    BY <1>0, <1>16, BoundAssumption DEF BusTypes, Absorb, NoFetch, Events, Msgs
  <2>3. TaskTypes'
    BY <1>0, <1>16, BoundAssumption DEF TaskTypes, Absorb, NoFetch, Events, Msgs
  <2>4. WireTypes'
    BY <1>0, <1>16, BoundAssumption DEF WireTypes, Absorb, NoFetch, Events, Msgs
  <2>5. ViewTypes'
    <3>1. fetch[u].ids \in SUBSET Msgs /\ from[u] \in 1..Beyond
      BY <1>0 DEF FetchTypes, Fetches, ViewTypes
    <3>2. Floor(fetch[u].ids) \in 1..Beyond
      BY <1>16 DEF Absorb, PageInv
    <3>3. Least({from[u], Floor(fetch[u].ids)}) \in 1..Beyond
      BY <3>1, <3>2, <1>0, TwoLeast
    <3>4. got[u] \union fetch[u].ids \in SUBSET Events
      BY <1>0, <3>1 DEF ViewTypes, Events
    <3> QED
      BY <1>0, <1>16, <3>3, <3>4 DEF Absorb, ViewTypes
  <2>6. FetchTypes'
    <3>1. NoFetch \in Fetches
      BY <1>0 DEF NoFetch, Fetches
    <3> QED
      BY <1>0, <1>16, <3>1, BoundAssumption DEF Absorb, Fail, FetchTypes
  <2> QED BY <2>1, <2>2, <2>3, <2>4, <2>5, <2>6 DEF TypeOK, TableTypes, BusTypes, TaskTypes, WireTypes, ViewTypes, FetchTypes, Fetches
<1>17. ASSUME NEW u \in Users, FetchFails(u) PROVE TypeOK'
  <2>1. TableTypes'
    BY <1>0, <1>17, BoundAssumption DEF TableTypes, FetchFails, Fail, NoFetch, Events, Msgs
  <2>2. BusTypes'
    BY <1>0, <1>17, BoundAssumption DEF BusTypes, FetchFails, Fail, NoFetch, Events, Msgs
  <2>3. TaskTypes'
    BY <1>0, <1>17, BoundAssumption DEF TaskTypes, FetchFails, Fail, NoFetch, Events, Msgs
  <2>4. WireTypes'
    BY <1>0, <1>17, BoundAssumption DEF WireTypes, FetchFails, Fail, NoFetch, Events, Msgs
  <2>5. ViewTypes'
    BY <1>0, <1>17, BoundAssumption DEF ViewTypes, FetchFails, Fail, NoFetch, Events, Msgs
  <2>6. FetchTypes'
    <3>1. NoFetch \in Fetches
      BY <1>0 DEF NoFetch, Fetches
    <3> QED
      BY <1>0, <1>17, <3>1, BoundAssumption DEF FetchFails, Fail, FetchTypes
  <2> QED BY <2>1, <2>2, <2>3, <2>4, <2>5, <2>6 DEF TypeOK, TableTypes, BusTypes, TaskTypes, WireTypes, ViewTypes, FetchTypes, Fetches
<1>18. ASSUME NEW e \in Events, Broadcast(e) PROVE TypeOK'
  <2>1. TableTypes'
    BY <1>0, <1>18, BoundAssumption DEF TableTypes, Broadcast, Events, Msgs
  <2>2. BusTypes'
    BY <1>0, <1>18, BoundAssumption DEF BusTypes, Broadcast, Events, Msgs
  <2>3. TaskTypes'
    BY <1>0, <1>18, BoundAssumption DEF TaskTypes, Broadcast, Events, Msgs
  <2>4. WireTypes'
    BY <1>0, <1>18, BoundAssumption DEF WireTypes, Broadcast, Events, Msgs
  <2>5. ViewTypes'
    BY <1>0, <1>18, BoundAssumption DEF ViewTypes, Broadcast, Events, Msgs
  <2>6. FetchTypes'
    BY <1>0, <1>18, BoundAssumption DEF FetchTypes, Broadcast, Events, Msgs
  <2> QED BY <2>1, <2>2, <2>3, <2>4, <2>5, <2>6 DEF TypeOK, TableTypes, BusTypes, TaskTypes, WireTypes, ViewTypes, FetchTypes, Fetches
<1>19. ASSUME NEW e \in Events, Die(e) PROVE TypeOK'
  <2>1. TableTypes'
    BY <1>0, <1>19, BoundAssumption DEF TableTypes, Die, Fail, Events, Msgs
  <2>2. BusTypes'
    BY <1>0, <1>19, BoundAssumption DEF BusTypes, Die, Fail, Events, Msgs
  <2>3. TaskTypes'
    BY <1>0, <1>19, BoundAssumption DEF TaskTypes, Die, Fail, Events, Msgs
  <2>4. WireTypes'
    BY <1>0, <1>19, BoundAssumption DEF WireTypes, Die, Fail, Events, Msgs
  <2>5. ViewTypes'
    BY <1>0, <1>19, BoundAssumption DEF ViewTypes, Die, Fail, Events, Msgs
  <2>6. FetchTypes'
    BY <1>0, <1>19, BoundAssumption DEF FetchTypes, Die, Fail, Events, Msgs
  <2> QED BY <2>1, <2>2, <2>3, <2>4, <2>5, <2>6 DEF TypeOK, TableTypes, BusTypes, TaskTypes, WireTypes, ViewTypes, FetchTypes, Fetches
<1>20. CASE Restart
  <2>1. TableTypes'
    BY <1>0, <1>20, BoundAssumption DEF TableTypes, Restart, Hangup, Fail, Events, Msgs
  <2>2. BusTypes'
    BY <1>0, <1>20, BoundAssumption DEF BusTypes, Restart, Hangup, Fail, Events, Msgs
  <2>3. TaskTypes'
    BY <1>0, <1>20, BoundAssumption DEF TaskTypes, Restart, Hangup, Fail, Events, Msgs
  <2>4. WireTypes'
    BY <1>0, <1>20, BoundAssumption DEF WireTypes, Restart, Hangup, Fail, Events, Msgs
  <2>5. ViewTypes'
    BY <1>0, <1>20, BoundAssumption DEF ViewTypes, Restart, Hangup, Fail, Events, Msgs
  <2>6. FetchTypes'
    <3>1. \A v \in Users : [fetch[v] EXCEPT !.fresh = FALSE] \in Fetches
      BY <1>0 DEF FetchTypes, Fetches
    <3> QED
      BY <1>0, <1>20, <3>1, BoundAssumption DEF Restart, Hangup, Fail, FetchTypes
  <2> QED BY <2>1, <2>2, <2>3, <2>4, <2>5, <2>6 DEF TypeOK, TableTypes, BusTypes, TaskTypes, WireTypes, ViewTypes, FetchTypes, Fetches
<1>21. CASE UNCHANGED vars
  BY <1>0, <1>21 DEF vars, TypeOK, Beyond
<1> QED
  BY <1>1, <1>2, <1>3, <1>4, <1>5, <1>6, <1>7, <1>8, <1>9, <1>10, <1>11, <1>12, <1>13,
     <1>14, <1>15, <1>16, <1>17, <1>18, <1>19, <1>20, <1>21 DEF Next

\* Nothing on its way to a member gets lost while its socket lasts.
LEMMA CoveredStays ==
  ASSUME TypeOK, HeldInv, [Next]_vars, NEW u \in Users,
         link[u] = "open", link'[u] = "open", u \in member,
         NEW e \in Covered(u), e \in Users \/ u \in mapped
  PROVE  e \in Covered(u)'
<1> USE DEF tableVars, busVars, taskVars, clientVars
<1>0. /\ log \in Seq(Events) /\ Len(log) \in Nat /\ next[u] \in Nat \ {0} /\ next[u] <= Len(log) + 1
      /\ wire[u] \in Seq(Events) /\ Len(wire[u]) \in Nat /\ DOMAIN wire[u] = 1..Len(wire[u])
      /\ got \in [Users -> SUBSET Events] /\ lost \in [Users -> SUBSET Events]
      /\ held \in [Users -> SUBSET Events] /\ link \in [Users -> {"none", "down", "accepted", "open"}]
      /\ next \in [Users -> Nat \ {0}] /\ wire \in [Users -> Seq(Events)]
      /\ Cap \in Nat \ {0}
  BY BoundAssumption DEF TypeOK
<1> DEFINE A == {log[k] : k \in next[u]..Len(log)}
           W == {wire[u][k] : k \in DOMAIN wire[u]}
<1>01. e \in got[u] \union sending \union A \union held[u] \union W \union unsent \union lost[u]
  BY DEF Covered, OnTheWay, Excused
<1> DEFINE Goal == e \in got'[u] \union sending' \union A' \union held'[u] \union W' \union unsent' \union lost'[u]
<1>02. Goal => e \in Covered(u)'
  BY DEF Covered, OnTheWay, Excused
<1>1. ASSUME NEW v \in Users, Join(v) PROVE Goal
  BY <1>0, <1>01, <1>1 DEF Join
<1>2. ASSUME NEW v \in Users, Insert(v) PROVE Goal
  BY <1>0, <1>01, <1>2 DEF Insert
<1>3. ASSUME NEW v \in Users, Subscribe(v) PROVE Goal
  <2>1. v # u
    BY <1>0, <1>3 DEF Subscribe
  <2> QED
    BY <1>0, <1>01, <1>3, <2>1 DEF Subscribe
<1>4. ASSUME NEW v \in Users, Receive(v) PROVE Goal
  <2>1. CASE v # u
    BY <1>0, <1>01, <1>4, <2>1 DEF Receive
  <2>2. CASE v = u
    <3>1. held[u] = {} /\ next[u] <= Len(log) /\ held'[u] = {log[next[u]]} /\ next'[u] = next[u] + 1
      BY <1>0, <1>4, <2>2 DEF Receive, Idle, Behind
    <3>2. A \subseteq A' \union held'[u]
      BY <1>0, <1>4, <3>1 DEF Receive
    <3> HIDE DEF A
    <3> QED
      BY <1>0, <1>01, <1>4, <3>1, <3>2 DEF Receive
  <2> QED
    BY <2>1, <2>2
<1>5. ASSUME NEW v \in Users, Lag(v) PROVE Goal
  <2>1. CASE v # u
    BY <1>0, <1>01, <1>5, <2>1 DEF Lag
  <2>2. CASE v = u
    <3>1. next'[u] = Len(log) + 1 - Cap /\ lost'[u] = lost[u] \union {log[k] : k \in next[u]..(Len(log) - Cap)}
      BY <1>0, <1>5, <2>2 DEF Lag
    <3>2. A \subseteq A' \union lost'[u]
      BY <1>0, <1>5, <3>1 DEF Lag
    <3> HIDE DEF A
    <3> QED
      BY <1>0, <1>01, <1>5, <3>1, <3>2 DEF Lag
  <2> QED
    BY <2>1, <2>2
<1>6. ASSUME NEW v \in Users, Forward(v) PROVE Goal
  <2>1. CASE v # u
    BY <1>0, <1>01, <1>6, <2>1 DEF Forward
  <2>2. CASE v = u
    <3>1. PICK x \in Events : held[u] = {x}
      BY <1>6, <2>2 DEF Forward, HeldInv
    <3>2. (CHOOSE y \in held[u] : TRUE) = x
      BY <3>1
    <3>3. wire'[u] = wire[u] \o <<x>>
      BY <1>0, <1>6, <2>2, <3>2 DEF Forward
    <3>4. /\ Len(wire'[u]) = Len(wire[u]) + 1 /\ DOMAIN wire'[u] = 1..(Len(wire[u]) + 1)
          /\ wire'[u][Len(wire[u]) + 1] = x
          /\ \A k \in DOMAIN wire[u] : wire'[u][k] = wire[u][k]
      BY <1>0, <3>1, <3>3
    <3>5. W \subseteq W' /\ held[u] \subseteq W'
      <4>1. DOMAIN wire[u] \subseteq DOMAIN wire'[u] /\ Len(wire[u]) + 1 \in DOMAIN wire'[u]
        BY <1>0, <3>4
      <4>2. \A k \in DOMAIN wire[u] : wire[u][k] \in W'
        BY <3>4, <4>1
      <4>3. x \in W'
        BY <3>4, <4>1
      <4> QED
        BY <3>1, <4>2, <4>3
    <3>6. A' = A
      BY <1>6 DEF Forward
    <3> HIDE DEF A, W
    <3> QED
      BY <1>0, <1>01, <1>6, <3>5, <3>6 DEF Forward
  <2> QED
    BY <2>1, <2>2
<1>7. ASSUME NEW v \in Users, Filter(v) PROVE Goal
  <2>1. v # u
    BY <1>7 DEF Filter
  <2> QED
    BY <1>0, <1>01, <1>7, <2>1 DEF Filter
<1>8. ASSUME NEW v \in Users, CheckFails(v) PROVE Goal
  BY <1>0, <1>01, <1>8 DEF CheckFails
<1>9. ASSUME NEW v \in Users, Disconnect(v) PROVE Goal
  <2>1. v # u
    BY <1>0, <1>9 DEF Disconnect, Hangup
  <2> QED
    BY <1>0, <1>01, <1>9, <2>1 DEF Disconnect, Hangup
<1>10. ASSUME NEW v \in Users, Login(v) PROVE Goal
  <2>1. v # u
    BY <1>0, <1>10 DEF Login
  <2> QED
    BY <1>0, <1>01, <1>10, <2>1 DEF Login
<1>11. ASSUME NEW v \in Users, Read(v) PROVE Goal
  <2>1. CASE v # u
    BY <1>0, <1>01, <1>11, <2>1 DEF Read
  <2>2. CASE v = u
    <3>1. wire[u] # <<>> /\ wire'[u] = Tail(wire[u]) /\ A' = A
      BY <1>0, <1>11, <2>2 DEF Read
    <3>2. e = Head(wire[u]) => e \in got'[u]
      BY <1>0, <1>11, <2>2 DEF Read
    <3>3. got[u] \subseteq got'[u]
      BY <1>0, <1>11, <2>2 DEF Read
    <3>4. /\ Len(wire'[u]) = Len(wire[u]) - 1 /\ DOMAIN wire'[u] = 1..(Len(wire[u]) - 1)
          /\ \A k \in 1..(Len(wire[u]) - 1) : wire'[u][k] = wire[u][k + 1]
      BY <1>0, <3>1
    <3>5. e \in W => e = Head(wire[u]) \/ e \in W'
      <4>1. Head(wire[u]) = wire[u][1]
        BY <1>0, <3>1
      <4>2. ASSUME NEW k \in DOMAIN wire[u], e = wire[u][k], k # 1 PROVE e \in W'
        <5>1. k \in 1..Len(wire[u])
          BY <1>0
        <5> HIDE DEF W
        <5>2. k - 1 \in 1..(Len(wire[u]) - 1) /\ (k - 1) + 1 = k
          BY <1>0, <4>2, <5>1
        <5>3. wire'[u][k - 1] = wire[u][k]
          BY <3>4, <5>2
        <5> USE DEF W
        <5> QED
          BY <3>4, <4>2, <5>2, <5>3
      <4> QED
        BY <4>1, <4>2
    <3> HIDE DEF A, W
    <3> QED
      BY <1>0, <1>01, <1>11, <3>1, <3>2, <3>3, <3>5 DEF Read
  <2> QED
    BY <2>1, <2>2
<1>12. ASSUME NEW v \in Users, Map(v) PROVE Goal
  BY <1>0, <1>01, <1>12 DEF Map
<1>13. ASSUME NEW v \in Users, Open(v) PROVE Goal
  BY <1>0, <1>01, <1>13 DEF Open, Ask
<1>14. ASSUME NEW v \in Users, LoadOlder(v) PROVE Goal
  BY <1>0, <1>01, <1>14 DEF LoadOlder, Ask
<1>15. ASSUME NEW v \in Users, Answer(v) PROVE Goal
  BY <1>0, <1>01, <1>15 DEF Answer
<1>16. ASSUME NEW v \in Users, Absorb(v) PROVE Goal
  BY <1>0, <1>01, <1>16 DEF Absorb
<1>17. ASSUME NEW v \in Users, FetchFails(v) PROVE Goal
  BY <1>0, <1>01, <1>17 DEF FetchFails
<1>18. ASSUME NEW x \in Events, Broadcast(x) PROVE Goal
  <2>1. /\ Len(log') = Len(log) + 1 /\ log'[Len(log) + 1] = x
        /\ \A k \in 1..Len(log) : log'[k] = log[k]
    BY <1>0, <1>18 DEF Broadcast
  <2>2. A \subseteq A' /\ x \in A'
    BY <1>0, <1>18, <2>1 DEF Broadcast
  <2>3. W' = W
    BY <1>18 DEF Broadcast
  <2> HIDE DEF A, W
  <2> QED
    BY <1>01, <1>18, <2>2, <2>3 DEF Broadcast
<1>19. ASSUME NEW x \in Events, Die(x) PROVE Goal
  BY <1>0, <1>01, <1>19 DEF Die
<1>20. ASSUME Restart PROVE Goal
  BY <1>0, <1>20 DEF Restart, Hangup
<1>21. ASSUME UNCHANGED vars PROVE Goal
  BY <1>01, <1>21 DEF vars
<1> HIDE DEF Goal
<1> QED
  BY <1>02, <1>1, <1>2, <1>3, <1>4, <1>5, <1>6, <1>7, <1>8, <1>9, <1>10, <1>11, <1>12,
     <1>13, <1>14, <1>15, <1>16, <1>17, <1>18, <1>19, <1>20, <1>21 DEF Next

\* A task has one event in hand at most.
LEMMA HeldStep ==
  ASSUME TypeOK, HeldInv, [Next]_vars
  PROVE  HeldInv'
<1> USE DEF tableVars, busVars, taskVars, clientVars
<1>0. /\ log \in Seq(Events) /\ held \in [Users -> SUBSET Events]
      /\ next \in [Users -> Nat \ {0}] /\ \A u \in Users : next[u] <= Len(log) + 1
      /\ Cap \in Nat \ {0}
  BY BoundAssumption DEF TypeOK
<1>1. ASSUME NEW v \in Users, Join(v) PROVE HeldInv'
  BY <1>0, <1>1 DEF HeldInv, Join
<1>2. ASSUME NEW v \in Users, Insert(v) PROVE HeldInv'
  BY <1>0, <1>2 DEF HeldInv, Insert
<1>3. ASSUME NEW v \in Users, Subscribe(v) PROVE HeldInv'
  BY <1>0, <1>3 DEF HeldInv, Subscribe
<1>4. ASSUME NEW v \in Users, Receive(v) PROVE HeldInv'
  <2>1. next[v] \in Nat \ {0} /\ Len(log) \in Nat /\ next[v] <= Len(log)
    BY <1>0, <1>4 DEF Receive, Behind
  <2>2. log[next[v]] \in Events
    BY <1>0, <2>1
  <2> QED
    BY <1>0, <1>4, <2>2 DEF Receive, HeldInv
<1>5. ASSUME NEW v \in Users, Lag(v) PROVE HeldInv'
  BY <1>0, <1>5 DEF HeldInv, Lag, Idle, Behind
<1>6. ASSUME NEW v \in Users, Forward(v) PROVE HeldInv'
  BY <1>0, <1>6 DEF HeldInv, Forward
<1>7. ASSUME NEW v \in Users, Filter(v) PROVE HeldInv'
  BY <1>0, <1>7 DEF HeldInv, Filter
<1>8. ASSUME NEW v \in Users, CheckFails(v) PROVE HeldInv'
  BY <1>0, <1>8 DEF HeldInv, CheckFails
<1>9. ASSUME NEW v \in Users, Disconnect(v) PROVE HeldInv'
  BY <1>0, <1>9 DEF HeldInv, Disconnect, Hangup
<1>10. ASSUME NEW v \in Users, Login(v) PROVE HeldInv'
  BY <1>0, <1>10 DEF HeldInv, Login, NoFetch
<1>11. ASSUME NEW v \in Users, Read(v) PROVE HeldInv'
  BY <1>0, <1>11 DEF HeldInv, Read
<1>12. ASSUME NEW v \in Users, Map(v) PROVE HeldInv'
  BY <1>0, <1>12 DEF HeldInv, Map
<1>13. ASSUME NEW v \in Users, Open(v) PROVE HeldInv'
  BY <1>0, <1>13 DEF HeldInv, Open, Ask, NoFetch
<1>14. ASSUME NEW v \in Users, LoadOlder(v) PROVE HeldInv'
  BY <1>0, <1>14 DEF HeldInv, LoadOlder, Ask, NoFetch
<1>15. ASSUME NEW v \in Users, Answer(v) PROVE HeldInv'
  BY <1>0, <1>15 DEF HeldInv, Answer
<1>16. ASSUME NEW v \in Users, Absorb(v) PROVE HeldInv'
  BY <1>0, <1>16 DEF HeldInv, Absorb, NoFetch, Continues
<1>17. ASSUME NEW v \in Users, FetchFails(v) PROVE HeldInv'
  BY <1>0, <1>17 DEF HeldInv, FetchFails, NoFetch
<1>18. ASSUME NEW x \in Events, Broadcast(x) PROVE HeldInv'
  BY <1>0, <1>18 DEF HeldInv, Broadcast
<1>19. ASSUME NEW x \in Events, Die(x) PROVE HeldInv'
  BY <1>0, <1>19 DEF HeldInv, Die
<1>20. ASSUME Restart PROVE HeldInv'
  BY <1>0, <1>20 DEF HeldInv, Restart, Hangup
<1>21. ASSUME UNCHANGED vars PROVE HeldInv'
  BY <1>0, <1>21 DEF HeldInv, vars
<1> QED
  BY <1>1, <1>2, <1>3, <1>4, <1>5, <1>6, <1>7, <1>8, <1>9, <1>10, <1>11, <1>12, <1>13,
     <1>14, <1>15, <1>16, <1>17, <1>18, <1>19, <1>20, <1>21 DEF Next

\* Without a subscription nothing is under way and nothing is promised.
LEMMA LinkStep ==
  ASSUME TypeOK, LinkInv, MemberInv, [Next]_vars
  PROVE  LinkInv'
<1> USE DEF tableVars, busVars, taskVars, clientVars
<1>0. /\ link \in [Users -> {"none", "down", "accepted", "open"}] /\ held \in [Users -> SUBSET Events]
      /\ wire \in [Users -> Seq(Events)] /\ from \in [Users -> 1..Beyond]
      /\ owed \in [Users -> SUBSET Users]
      /\ fetch \in [Users -> [stage : {"idle", "asked", "answered"}, before : 1..Beyond,
                               ids : SUBSET Msgs, fresh : BOOLEAN]]
      /\ mapped \subseteq Users /\ member \subseteq Users /\ lost \in [Users -> SUBSET Events]
  BY DEF TypeOK
<1>1. ASSUME NEW v \in Users, Join(v) PROVE LinkInv'
  BY <1>0, <1>1 DEF LinkInv, MemberInv, Join
<1>2. ASSUME NEW v \in Users, Insert(v) PROVE LinkInv'
  BY <1>0, <1>2 DEF LinkInv, MemberInv, Insert
<1>3. ASSUME NEW v \in Users, Subscribe(v) PROVE LinkInv'
  BY <1>0, <1>3 DEF LinkInv, MemberInv, Subscribe
<1>4. ASSUME NEW v \in Users, Receive(v) PROVE LinkInv'
  BY <1>0, <1>4 DEF LinkInv, MemberInv, Receive, Idle, Behind
<1>5. ASSUME NEW v \in Users, Lag(v) PROVE LinkInv'
  BY <1>0, <1>5 DEF LinkInv, MemberInv, Lag, Idle, Behind
<1>6. ASSUME NEW v \in Users, Forward(v) PROVE LinkInv'
  BY <1>0, <1>6 DEF LinkInv, MemberInv, Forward
<1>7. ASSUME NEW v \in Users, Filter(v) PROVE LinkInv'
  BY <1>0, <1>7 DEF LinkInv, MemberInv, Filter
<1>8. ASSUME NEW v \in Users, CheckFails(v) PROVE LinkInv'
  BY <1>0, <1>8 DEF LinkInv, MemberInv, CheckFails
<1>9. ASSUME NEW v \in Users, Disconnect(v) PROVE LinkInv'
  BY <1>0, <1>9 DEF LinkInv, MemberInv, Disconnect, Hangup
<1>10. ASSUME NEW v \in Users, Login(v) PROVE LinkInv'
  BY <1>0, <1>10 DEF LinkInv, MemberInv, Login, NoFetch
<1>11. ASSUME NEW v \in Users, Read(v) PROVE LinkInv'
  BY <1>0, <1>11 DEF LinkInv, MemberInv, Read
<1>12. ASSUME NEW v \in Users, Map(v) PROVE LinkInv'
  BY <1>0, <1>12 DEF LinkInv, MemberInv, Map
<1>13. ASSUME NEW v \in Users, Open(v) PROVE LinkInv'
  BY <1>0, <1>13 DEF LinkInv, MemberInv, Open, Ask, NoFetch
<1>14. ASSUME NEW v \in Users, LoadOlder(v) PROVE LinkInv'
  BY <1>0, <1>14 DEF LinkInv, MemberInv, LoadOlder, Ask, NoFetch
<1>15. ASSUME NEW v \in Users, Answer(v) PROVE LinkInv'
  BY <1>0, <1>15 DEF LinkInv, MemberInv, Answer
<1>16. ASSUME NEW v \in Users, Absorb(v) PROVE LinkInv'
  BY <1>0, <1>16 DEF LinkInv, MemberInv, Absorb, NoFetch, Continues
<1>17. ASSUME NEW v \in Users, FetchFails(v) PROVE LinkInv'
  BY <1>0, <1>17 DEF LinkInv, MemberInv, FetchFails, NoFetch
<1>18. ASSUME NEW x \in Events, Broadcast(x) PROVE LinkInv'
  BY <1>0, <1>18 DEF LinkInv, MemberInv, Broadcast
<1>19. ASSUME NEW x \in Events, Die(x) PROVE LinkInv'
  BY <1>0, <1>19 DEF LinkInv, MemberInv, Die
<1>20. ASSUME Restart PROVE LinkInv'
  BY <1>0, <1>20 DEF LinkInv, MemberInv, Restart, Hangup
<1>21. ASSUME UNCHANGED vars PROVE LinkInv'
  BY <1>0, <1>21 DEF LinkInv, MemberInv, vars
<1> QED
  BY <1>1, <1>2, <1>3, <1>4, <1>5, <1>6, <1>7, <1>8, <1>9, <1>10, <1>11, <1>12, <1>13,
     <1>14, <1>15, <1>16, <1>17, <1>18, <1>19, <1>20, <1>21 DEF Next

\* What a client is promised it may see.
LEMMA MemberStep ==
  ASSUME TypeOK, LinkInv, MemberInv, [Next]_vars
  PROVE  MemberInv'
<1> USE DEF tableVars, busVars, taskVars, clientVars
<1>0. /\ link \in [Users -> {"none", "down", "accepted", "open"}] /\ held \in [Users -> SUBSET Events]
      /\ wire \in [Users -> Seq(Events)] /\ from \in [Users -> 1..Beyond]
      /\ owed \in [Users -> SUBSET Users]
      /\ fetch \in [Users -> [stage : {"idle", "asked", "answered"}, before : 1..Beyond,
                               ids : SUBSET Msgs, fresh : BOOLEAN]]
      /\ mapped \subseteq Users /\ member \subseteq Users /\ lost \in [Users -> SUBSET Events]
  BY DEF TypeOK
<1>1. ASSUME NEW v \in Users, Join(v) PROVE MemberInv'
  BY <1>0, <1>1 DEF MemberInv, Join
<1>2. ASSUME NEW v \in Users, Insert(v) PROVE MemberInv'
  BY <1>0, <1>2 DEF MemberInv, Insert
<1>3. ASSUME NEW v \in Users, Subscribe(v) PROVE MemberInv'
  BY <1>0, <1>3 DEF MemberInv, Subscribe
<1>4. ASSUME NEW v \in Users, Receive(v) PROVE MemberInv'
  BY <1>0, <1>4 DEF MemberInv, Receive, Idle, Behind
<1>5. ASSUME NEW v \in Users, Lag(v) PROVE MemberInv'
  BY <1>0, <1>5 DEF MemberInv, Lag, Idle, Behind
<1>6. ASSUME NEW v \in Users, Forward(v) PROVE MemberInv'
  BY <1>0, <1>6 DEF MemberInv, Forward
<1>7. ASSUME NEW v \in Users, Filter(v) PROVE MemberInv'
  BY <1>0, <1>7 DEF MemberInv, Filter
<1>8. ASSUME NEW v \in Users, CheckFails(v) PROVE MemberInv'
  BY <1>0, <1>8 DEF MemberInv, CheckFails
<1>9. ASSUME NEW v \in Users, Disconnect(v) PROVE MemberInv'
  BY <1>0, <1>9 DEF MemberInv, Disconnect, Hangup
<1>10. ASSUME NEW v \in Users, Login(v) PROVE MemberInv'
  BY <1>0, <1>10 DEF MemberInv, Login, NoFetch
<1>11. ASSUME NEW v \in Users, Read(v) PROVE MemberInv'
  BY <1>0, <1>11 DEF MemberInv, Read
<1>12. ASSUME NEW v \in Users, Map(v) PROVE MemberInv'
  BY <1>0, <1>12 DEF MemberInv, Map
<1>13. ASSUME NEW v \in Users, Open(v) PROVE MemberInv'
  BY <1>0, <1>13 DEF MemberInv, Open, Ask, NoFetch
<1>14. ASSUME NEW v \in Users, LoadOlder(v) PROVE MemberInv'
  BY <1>0, <1>14 DEF MemberInv, LoadOlder, Ask, NoFetch
<1>15. ASSUME NEW v \in Users, Answer(v) PROVE MemberInv'
  BY <1>0, <1>15 DEF MemberInv, Answer
<1>16. ASSUME NEW v \in Users, Absorb(v) PROVE MemberInv'
  BY <1>0, <1>16 DEF MemberInv, Absorb, NoFetch, Continues
<1>17. ASSUME NEW v \in Users, FetchFails(v) PROVE MemberInv'
  BY <1>0, <1>17 DEF MemberInv, FetchFails, NoFetch
<1>18. ASSUME NEW x \in Events, Broadcast(x) PROVE MemberInv'
  BY <1>0, <1>18 DEF MemberInv, Broadcast
<1>19. ASSUME NEW x \in Events, Die(x) PROVE MemberInv'
  BY <1>0, <1>19 DEF MemberInv, Die
<1>20. ASSUME Restart PROVE MemberInv'
  BY <1>0, <1>20 DEF MemberInv, Restart, Hangup
<1>21. ASSUME UNCHANGED vars PROVE MemberInv'
  BY <1>0, <1>21 DEF MemberInv, vars
<1> QED
  BY <1>1, <1>2, <1>3, <1>4, <1>5, <1>6, <1>7, <1>8, <1>9, <1>10, <1>11, <1>12, <1>13,
     <1>14, <1>15, <1>16, <1>17, <1>18, <1>19, <1>20, <1>21 DEF Next

\* A new row is in the hands of its handler.
LEMMA LastStep ==
  ASSUME TypeOK, LinkInv, [Next]_vars, NEW u \in Users
  PROVE  last' = last \/ (last' = last + 1 /\ last' \in sending')
<1> USE DEF tableVars, busVars, taskVars, clientVars
<1> DEFINE Goal == last' = last \/ (last' = last + 1 /\ last' \in sending')
<1>0. /\ link \in [Users -> {"none", "down", "accepted", "open"}] /\ held \in [Users -> SUBSET Events]
      /\ wire \in [Users -> Seq(Events)] /\ from \in [Users -> 1..Beyond]
      /\ owed \in [Users -> SUBSET Users]
      /\ fetch \in [Users -> [stage : {"idle", "asked", "answered"}, before : 1..Beyond,
                               ids : SUBSET Msgs, fresh : BOOLEAN]]
      /\ mapped \subseteq Users /\ member \subseteq Users /\ lost \in [Users -> SUBSET Events]
  BY DEF TypeOK
<1>1. ASSUME NEW v \in Users, Join(v) PROVE Goal
  BY <1>0, <1>1 DEF Join
<1>2. ASSUME NEW v \in Users, Insert(v) PROVE Goal
  BY <1>0, <1>2 DEF Insert
<1>3. ASSUME NEW v \in Users, Subscribe(v) PROVE Goal
  BY <1>0, <1>3 DEF Subscribe
<1>4. ASSUME NEW v \in Users, Receive(v) PROVE Goal
  BY <1>0, <1>4 DEF Receive, Idle, Behind
<1>5. ASSUME NEW v \in Users, Lag(v) PROVE Goal
  BY <1>0, <1>5 DEF Lag, Idle, Behind
<1>6. ASSUME NEW v \in Users, Forward(v) PROVE Goal
  BY <1>0, <1>6 DEF Forward
<1>7. ASSUME NEW v \in Users, Filter(v) PROVE Goal
  BY <1>0, <1>7 DEF Filter
<1>8. ASSUME NEW v \in Users, CheckFails(v) PROVE Goal
  BY <1>0, <1>8 DEF CheckFails
<1>9. ASSUME NEW v \in Users, Disconnect(v) PROVE Goal
  BY <1>0, <1>9 DEF Disconnect, Hangup
<1>10. ASSUME NEW v \in Users, Login(v) PROVE Goal
  BY <1>0, <1>10 DEF Login, NoFetch
<1>11. ASSUME NEW v \in Users, Read(v) PROVE Goal
  BY <1>0, <1>11 DEF Read
<1>12. ASSUME NEW v \in Users, Map(v) PROVE Goal
  BY <1>0, <1>12 DEF Map
<1>13. ASSUME NEW v \in Users, Open(v) PROVE Goal
  BY <1>0, <1>13 DEF Open, Ask, NoFetch
<1>14. ASSUME NEW v \in Users, LoadOlder(v) PROVE Goal
  BY <1>0, <1>14 DEF LoadOlder, Ask, NoFetch
<1>15. ASSUME NEW v \in Users, Answer(v) PROVE Goal
  BY <1>0, <1>15 DEF Answer
<1>16. ASSUME NEW v \in Users, Absorb(v) PROVE Goal
  BY <1>0, <1>16 DEF Absorb, NoFetch, Continues
<1>17. ASSUME NEW v \in Users, FetchFails(v) PROVE Goal
  BY <1>0, <1>17 DEF FetchFails, NoFetch
<1>18. ASSUME NEW x \in Events, Broadcast(x) PROVE Goal
  BY <1>0, <1>18 DEF Broadcast
<1>19. ASSUME NEW x \in Events, Die(x) PROVE Goal
  BY <1>0, <1>19 DEF Die
<1>20. ASSUME Restart PROVE Goal
  BY <1>0, <1>20 DEF Restart, Hangup
<1>21. ASSUME UNCHANGED vars PROVE Goal
  BY <1>0, <1>21 DEF vars
<1> HIDE DEF Goal
<1>99. Goal
  BY <1>1, <1>2, <1>3, <1>4, <1>5, <1>6, <1>7, <1>8, <1>9, <1>10, <1>11, <1>12, <1>13,
     <1>14, <1>15, <1>16, <1>17, <1>18, <1>19, <1>20, <1>21 DEF Next
<1> QED
  BY <1>99 DEF Goal

\* How a history request can change.
LEMMA FetchCases ==
  ASSUME TypeOK, LinkInv, [Next]_vars, NEW u \in Users
  PROVE  \/ fetch'[u].stage # "answered"
         \/ /\ fetch[u].stage = "answered" /\ fetch'[u].ids = fetch[u].ids
            /\ ~ fetch'[u].fresh /\ from'[u] = Beyond
         \/ /\ fetch'[u] = fetch[u] /\ from'[u] = from[u]
            /\ link[u] = "open" => link'[u] = "open"
         \/ Answer(u)
<1> USE DEF tableVars, busVars, taskVars, clientVars
<1> DEFINE Goal == \/ fetch'[u].stage # "answered"
           \/ /\ fetch[u].stage = "answered" /\ fetch'[u].ids = fetch[u].ids
              /\ ~ fetch'[u].fresh /\ from'[u] = Beyond
           \/ /\ fetch'[u] = fetch[u] /\ from'[u] = from[u]
              /\ link[u] = "open" => link'[u] = "open"
           \/ Answer(u)
<1>0. /\ link \in [Users -> {"none", "down", "accepted", "open"}] /\ held \in [Users -> SUBSET Events]
      /\ wire \in [Users -> Seq(Events)] /\ from \in [Users -> 1..Beyond]
      /\ owed \in [Users -> SUBSET Users]
      /\ fetch \in [Users -> [stage : {"idle", "asked", "answered"}, before : 1..Beyond,
                               ids : SUBSET Msgs, fresh : BOOLEAN]]
      /\ mapped \subseteq Users /\ member \subseteq Users /\ lost \in [Users -> SUBSET Events]
  BY DEF TypeOK
<1>1. ASSUME NEW v \in Users, Join(v) PROVE Goal
  BY <1>0, <1>1 DEF LinkInv, Join
<1>2. ASSUME NEW v \in Users, Insert(v) PROVE Goal
  BY <1>0, <1>2 DEF LinkInv, Insert
<1>3. ASSUME NEW v \in Users, Subscribe(v) PROVE Goal
  BY <1>0, <1>3 DEF LinkInv, Subscribe
<1>4. ASSUME NEW v \in Users, Receive(v) PROVE Goal
  BY <1>0, <1>4 DEF LinkInv, Receive, Idle, Behind
<1>5. ASSUME NEW v \in Users, Lag(v) PROVE Goal
  BY <1>0, <1>5 DEF LinkInv, Lag, Idle, Behind
<1>6. ASSUME NEW v \in Users, Forward(v) PROVE Goal
  BY <1>0, <1>6 DEF LinkInv, Forward
<1>7. ASSUME NEW v \in Users, Filter(v) PROVE Goal
  BY <1>0, <1>7 DEF LinkInv, Filter
<1>8. ASSUME NEW v \in Users, CheckFails(v) PROVE Goal
  BY <1>0, <1>8 DEF LinkInv, CheckFails
<1>9. ASSUME NEW v \in Users, Disconnect(v) PROVE Goal
  BY <1>0, <1>9 DEF LinkInv, Disconnect, Hangup
<1>10. ASSUME NEW v \in Users, Login(v) PROVE Goal
  BY <1>0, <1>10 DEF LinkInv, Login, NoFetch
<1>11. ASSUME NEW v \in Users, Read(v) PROVE Goal
  BY <1>0, <1>11 DEF LinkInv, Read
<1>12. ASSUME NEW v \in Users, Map(v) PROVE Goal
  BY <1>0, <1>12 DEF LinkInv, Map
<1>13. ASSUME NEW v \in Users, Open(v) PROVE Goal
  BY <1>0, <1>13 DEF LinkInv, Open, Ask, NoFetch
<1>14. ASSUME NEW v \in Users, LoadOlder(v) PROVE Goal
  BY <1>0, <1>14 DEF LinkInv, LoadOlder, Ask, NoFetch
<1>15. ASSUME NEW v \in Users, Answer(v) PROVE Goal
  <2>1. CASE v = u
    BY <1>15, <2>1
  <2>2. CASE v # u
    BY <1>0, <1>15, <2>2 DEF Answer
  <2> QED
    BY <2>1, <2>2
<1>16. ASSUME NEW v \in Users, Absorb(v) PROVE Goal
  BY <1>0, <1>16 DEF LinkInv, Absorb, NoFetch, Continues
<1>17. ASSUME NEW v \in Users, FetchFails(v) PROVE Goal
  BY <1>0, <1>17 DEF LinkInv, FetchFails, NoFetch
<1>18. ASSUME NEW x \in Events, Broadcast(x) PROVE Goal
  BY <1>0, <1>18 DEF LinkInv, Broadcast
<1>19. ASSUME NEW x \in Events, Die(x) PROVE Goal
  BY <1>0, <1>19 DEF LinkInv, Die
<1>20. ASSUME Restart PROVE Goal
  BY <1>0, <1>20 DEF LinkInv, Restart, Hangup
<1>21. ASSUME UNCHANGED vars PROVE Goal
  BY <1>0, <1>21 DEF LinkInv, vars
<1> HIDE DEF Goal
<1>99. Goal
  BY <1>1, <1>2, <1>3, <1>4, <1>5, <1>6, <1>7, <1>8, <1>9, <1>10, <1>11, <1>12, <1>13,
     <1>14, <1>15, <1>16, <1>17, <1>18, <1>19, <1>20, <1>21 DEF Next
<1> QED
  BY <1>99 DEF Goal

\* How a client's promise can change.
LEMMA FromCases ==
  ASSUME TypeOK, LinkInv, [Next]_vars, NEW u \in Users
  PROVE  link'[u] = "open" =>
           \/ link[u] = "open" /\ from'[u] = from[u]
           \/ from'[u] = Beyond
           \/ link[u] = "open" /\ Absorb(u)
<1> USE DEF tableVars, busVars, taskVars, clientVars
<1> DEFINE Goal == link'[u] = "open" =>
             \/ link[u] = "open" /\ from'[u] = from[u]
             \/ from'[u] = Beyond
             \/ link[u] = "open" /\ Absorb(u)
<1>0. /\ link \in [Users -> {"none", "down", "accepted", "open"}] /\ held \in [Users -> SUBSET Events]
      /\ wire \in [Users -> Seq(Events)] /\ from \in [Users -> 1..Beyond]
      /\ owed \in [Users -> SUBSET Users]
      /\ fetch \in [Users -> [stage : {"idle", "asked", "answered"}, before : 1..Beyond,
                               ids : SUBSET Msgs, fresh : BOOLEAN]]
      /\ mapped \subseteq Users /\ member \subseteq Users /\ lost \in [Users -> SUBSET Events]
  BY DEF TypeOK
<1>1. ASSUME NEW v \in Users, Join(v) PROVE Goal
  BY <1>0, <1>1 DEF LinkInv, Join
<1>2. ASSUME NEW v \in Users, Insert(v) PROVE Goal
  BY <1>0, <1>2 DEF LinkInv, Insert
<1>3. ASSUME NEW v \in Users, Subscribe(v) PROVE Goal
  BY <1>0, <1>3 DEF LinkInv, Subscribe
<1>4. ASSUME NEW v \in Users, Receive(v) PROVE Goal
  BY <1>0, <1>4 DEF LinkInv, Receive, Idle, Behind
<1>5. ASSUME NEW v \in Users, Lag(v) PROVE Goal
  BY <1>0, <1>5 DEF LinkInv, Lag, Idle, Behind
<1>6. ASSUME NEW v \in Users, Forward(v) PROVE Goal
  BY <1>0, <1>6 DEF LinkInv, Forward
<1>7. ASSUME NEW v \in Users, Filter(v) PROVE Goal
  BY <1>0, <1>7 DEF LinkInv, Filter
<1>8. ASSUME NEW v \in Users, CheckFails(v) PROVE Goal
  BY <1>0, <1>8 DEF LinkInv, CheckFails
<1>9. ASSUME NEW v \in Users, Disconnect(v) PROVE Goal
  BY <1>0, <1>9 DEF LinkInv, Disconnect, Hangup
<1>10. ASSUME NEW v \in Users, Login(v) PROVE Goal
  BY <1>0, <1>10 DEF LinkInv, Login, NoFetch
<1>11. ASSUME NEW v \in Users, Read(v) PROVE Goal
  BY <1>0, <1>11 DEF LinkInv, Read
<1>12. ASSUME NEW v \in Users, Map(v) PROVE Goal
  BY <1>0, <1>12 DEF LinkInv, Map
<1>13. ASSUME NEW v \in Users, Open(v) PROVE Goal
  BY <1>0, <1>13 DEF LinkInv, Open, Ask, NoFetch
<1>14. ASSUME NEW v \in Users, LoadOlder(v) PROVE Goal
  BY <1>0, <1>14 DEF LinkInv, LoadOlder, Ask, NoFetch
<1>15. ASSUME NEW v \in Users, Answer(v) PROVE Goal
  BY <1>0, <1>15 DEF LinkInv, Answer
<1>16. ASSUME NEW v \in Users, Absorb(v) PROVE Goal
  <2>1. CASE v = u
    BY <1>0, <1>16, <2>1 DEF Absorb, LinkInv
  <2>2. CASE v # u
    BY <1>0, <1>16, <2>2 DEF Absorb, LinkInv
  <2> QED
    BY <2>1, <2>2
<1>17. ASSUME NEW v \in Users, FetchFails(v) PROVE Goal
  BY <1>0, <1>17 DEF LinkInv, FetchFails, NoFetch
<1>18. ASSUME NEW x \in Events, Broadcast(x) PROVE Goal
  BY <1>0, <1>18 DEF LinkInv, Broadcast
<1>19. ASSUME NEW x \in Events, Die(x) PROVE Goal
  BY <1>0, <1>19 DEF LinkInv, Die
<1>20. ASSUME Restart PROVE Goal
  BY <1>0, <1>20 DEF LinkInv, Restart, Hangup
<1>21. ASSUME UNCHANGED vars PROVE Goal
  BY <1>0, <1>21 DEF LinkInv, vars
<1> HIDE DEF Goal
<1>99. Goal
  BY <1>1, <1>2, <1>3, <1>4, <1>5, <1>6, <1>7, <1>8, <1>9, <1>10, <1>11, <1>12, <1>13,
     <1>14, <1>15, <1>16, <1>17, <1>18, <1>19, <1>20, <1>21 DEF Next
<1> QED
  BY <1>99 DEF Goal

\* How the joins owed to a client can change.
LEMMA OwedCases ==
  ASSUME TypeOK, LinkInv, [Next]_vars, NEW u \in Users
  PROVE  link'[u] = "open" =>
           \A e \in owed'[u] : (link[u] = "open" /\ e \in owed[u]) \/ e \in sending'
<1> USE DEF tableVars, busVars, taskVars, clientVars
<1> DEFINE Goal == link'[u] = "open" =>
             \A e \in owed'[u] : (link[u] = "open" /\ e \in owed[u]) \/ e \in sending'
<1>0. /\ link \in [Users -> {"none", "down", "accepted", "open"}] /\ held \in [Users -> SUBSET Events]
      /\ wire \in [Users -> Seq(Events)] /\ from \in [Users -> 1..Beyond]
      /\ owed \in [Users -> SUBSET Users]
      /\ fetch \in [Users -> [stage : {"idle", "asked", "answered"}, before : 1..Beyond,
                               ids : SUBSET Msgs, fresh : BOOLEAN]]
      /\ mapped \subseteq Users /\ member \subseteq Users /\ lost \in [Users -> SUBSET Events]
  BY DEF TypeOK
<1>1. ASSUME NEW v \in Users, Join(v) PROVE Goal
  BY <1>0, <1>1 DEF LinkInv, Join
<1>2. ASSUME NEW v \in Users, Insert(v) PROVE Goal
  BY <1>0, <1>2 DEF LinkInv, Insert
<1>3. ASSUME NEW v \in Users, Subscribe(v) PROVE Goal
  BY <1>0, <1>3 DEF LinkInv, Subscribe
<1>4. ASSUME NEW v \in Users, Receive(v) PROVE Goal
  BY <1>0, <1>4 DEF LinkInv, Receive, Idle, Behind
<1>5. ASSUME NEW v \in Users, Lag(v) PROVE Goal
  BY <1>0, <1>5 DEF LinkInv, Lag, Idle, Behind
<1>6. ASSUME NEW v \in Users, Forward(v) PROVE Goal
  BY <1>0, <1>6 DEF LinkInv, Forward
<1>7. ASSUME NEW v \in Users, Filter(v) PROVE Goal
  BY <1>0, <1>7 DEF LinkInv, Filter
<1>8. ASSUME NEW v \in Users, CheckFails(v) PROVE Goal
  BY <1>0, <1>8 DEF LinkInv, CheckFails
<1>9. ASSUME NEW v \in Users, Disconnect(v) PROVE Goal
  BY <1>0, <1>9 DEF LinkInv, Disconnect, Hangup
<1>10. ASSUME NEW v \in Users, Login(v) PROVE Goal
  BY <1>0, <1>10 DEF LinkInv, Login, NoFetch
<1>11. ASSUME NEW v \in Users, Read(v) PROVE Goal
  BY <1>0, <1>11 DEF LinkInv, Read
<1>12. ASSUME NEW v \in Users, Map(v) PROVE Goal
  BY <1>0, <1>12 DEF LinkInv, Map
<1>13. ASSUME NEW v \in Users, Open(v) PROVE Goal
  BY <1>0, <1>13 DEF LinkInv, Open, Ask, NoFetch
<1>14. ASSUME NEW v \in Users, LoadOlder(v) PROVE Goal
  BY <1>0, <1>14 DEF LinkInv, LoadOlder, Ask, NoFetch
<1>15. ASSUME NEW v \in Users, Answer(v) PROVE Goal
  BY <1>0, <1>15 DEF LinkInv, Answer
<1>16. ASSUME NEW v \in Users, Absorb(v) PROVE Goal
  BY <1>0, <1>16 DEF LinkInv, Absorb, NoFetch, Continues
<1>17. ASSUME NEW v \in Users, FetchFails(v) PROVE Goal
  BY <1>0, <1>17 DEF LinkInv, FetchFails, NoFetch
<1>18. ASSUME NEW x \in Events, Broadcast(x) PROVE Goal
  BY <1>0, <1>18 DEF LinkInv, Broadcast
<1>19. ASSUME NEW x \in Events, Die(x) PROVE Goal
  BY <1>0, <1>19 DEF LinkInv, Die
<1>20. ASSUME Restart PROVE Goal
  BY <1>0, <1>20 DEF LinkInv, Restart, Hangup
<1>21. ASSUME UNCHANGED vars PROVE Goal
  BY <1>0, <1>21 DEF LinkInv, vars
<1> HIDE DEF Goal
<1>99. Goal
  BY <1>1, <1>2, <1>3, <1>4, <1>5, <1>6, <1>7, <1>8, <1>9, <1>10, <1>11, <1>12, <1>13,
     <1>14, <1>15, <1>16, <1>17, <1>18, <1>19, <1>20, <1>21 DEF Next
<1> QED
  BY <1>99 DEF Goal

\* The id of the next message is new.
LEMMA FreshId == ASSUME TypeOK PROVE last + 1 \notin member /\ last + 1 \notin 1..last
<1>0. last \in Nat /\ last + 1 \in Nat /\ member \subseteq Users
  BY BoundAssumption DEF TypeOK
<1>1. last + 1 \notin member
  BY <1>0, UserAssumption, Zenon
<1> QED
  BY <1>0, <1>1
\* Whatever is answered has its row and is out of its handler's hands.
LEMMA BusStep ==
  ASSUME TypeOK, BusKnown, [Next]_vars
  PROVE  BusKnown'
<1> USE DEF tableVars, busVars, taskVars, clientVars
<1>0. /\ log \in Seq(Events) /\ Len(log) \in Nat /\ next \in [Users -> Nat \ {0}]
      /\ \A u \in Users : next[u] <= Len(log) + 1
      /\ held \in [Users -> SUBSET Events] /\ wire \in [Users -> Seq(Events)]
      /\ sending \subseteq Events /\ answered \subseteq Events /\ prior \in [Msgs -> SUBSET Events]
      /\ member \subseteq Users /\ last \in 0..MaxMsgs /\ MaxMsgs \in Nat /\ Cap \in Nat \ {0}
      /\ Users \cap Nat = {} /\ Msgs = 1..MaxMsgs /\ Events = Msgs \union Users
  BY BoundAssumption, UserAssumption DEF TypeOK, Msgs, Events
<1>1. ASSUME NEW v \in Users, Join(v) PROVE BusKnown'
  <2>1. v \notin 1..last
    BY <1>0
  <2> QED
    BY <1>0, <1>1, <2>1 DEF BusKnown, Join
<1>2. ASSUME NEW v \in Users, Insert(v) PROVE BusKnown'
  <2>0. last \in Nat /\ last + 1 \in Nat
    BY <1>0
  <2>1. last + 1 \notin member /\ last + 1 \notin 1..last
    <3>1. last + 1 \notin member
      BY <1>0, <2>0, Zenon
    <3> QED
      BY <2>0, <3>1
  <2>2. last' = last + 1 /\ member' = member /\ answered' = answered /\ sending' = sending \union {last + 1}
    BY <1>2 DEF Insert
  <2>3. \A i \in Msgs : prior'[i] \in {prior[i], answered}
    BY <1>0, <1>2 DEF Insert
  <2>4. 1..last' = 1..last \union {last + 1}
    BY <1>0, <2>2
  <2> QED
    BY <2>1, <2>2, <2>3, <2>4 DEF BusKnown
<1>3. ASSUME NEW v \in Users, Subscribe(v) PROVE BusKnown'
  BY <1>0, <1>3 DEF BusKnown, Subscribe
<1>4. ASSUME NEW v \in Users, Receive(v) PROVE BusKnown'
  BY <1>0, <1>4 DEF BusKnown, Receive, Idle, Behind
<1>5. ASSUME NEW v \in Users, Lag(v) PROVE BusKnown'
  BY <1>0, <1>5 DEF BusKnown, Lag, Idle, Behind
<1>6. ASSUME NEW v \in Users, Forward(v) PROVE BusKnown'
  BY <1>0, <1>6 DEF BusKnown, Forward
<1>7. ASSUME NEW v \in Users, Filter(v) PROVE BusKnown'
  BY <1>0, <1>7 DEF BusKnown, Filter
<1>8. ASSUME NEW v \in Users, CheckFails(v) PROVE BusKnown'
  BY <1>0, <1>8 DEF BusKnown, CheckFails
<1>9. ASSUME NEW v \in Users, Disconnect(v) PROVE BusKnown'
  BY <1>0, <1>9 DEF BusKnown, Disconnect, Hangup
<1>10. ASSUME NEW v \in Users, Login(v) PROVE BusKnown'
  BY <1>0, <1>10 DEF BusKnown, Login, NoFetch
<1>11. ASSUME NEW v \in Users, Read(v) PROVE BusKnown'
  BY <1>0, <1>11 DEF BusKnown, Read
<1>12. ASSUME NEW v \in Users, Map(v) PROVE BusKnown'
  BY <1>0, <1>12 DEF BusKnown, Map
<1>13. ASSUME NEW v \in Users, Open(v) PROVE BusKnown'
  BY <1>0, <1>13 DEF BusKnown, Open, Ask, NoFetch
<1>14. ASSUME NEW v \in Users, LoadOlder(v) PROVE BusKnown'
  BY <1>0, <1>14 DEF BusKnown, LoadOlder, Ask, NoFetch
<1>15. ASSUME NEW v \in Users, Answer(v) PROVE BusKnown'
  BY <1>0, <1>15 DEF BusKnown, Answer
<1>16. ASSUME NEW v \in Users, Absorb(v) PROVE BusKnown'
  BY <1>0, <1>16 DEF BusKnown, Absorb, NoFetch, Continues
<1>17. ASSUME NEW v \in Users, FetchFails(v) PROVE BusKnown'
  BY <1>0, <1>17 DEF BusKnown, FetchFails, NoFetch
<1>18. ASSUME NEW x \in Events, Broadcast(x) PROVE BusKnown'
  BY <1>0, <1>18 DEF BusKnown, Broadcast
<1>19. ASSUME NEW x \in Events, Die(x) PROVE BusKnown'
  BY <1>0, <1>19 DEF BusKnown, Die
<1>20. ASSUME Restart PROVE BusKnown'
  BY <1>0, <1>20 DEF BusKnown, Restart, Hangup
<1>21. ASSUME UNCHANGED vars PROVE BusKnown'
  BY <1>0, <1>21 DEF BusKnown, vars
<1> QED
  BY <1>1, <1>2, <1>3, <1>4, <1>5, <1>6, <1>7, <1>8, <1>9, <1>10, <1>11, <1>12, <1>13,
     <1>14, <1>15, <1>16, <1>17, <1>18, <1>19, <1>20, <1>21 DEF Next

\* Whatever is on the ring or beyond it is answered.
LEMMA LineKnownStep ==
  ASSUME TypeOK, HeldInv, LineKnown, [Next]_vars
  PROVE  LineKnown'
<1> USE DEF tableVars, busVars, taskVars, clientVars
<1>0. /\ log \in Seq(Events) /\ Len(log) \in Nat /\ next \in [Users -> Nat \ {0}]
      /\ \A u \in Users : next[u] <= Len(log) + 1
      /\ held \in [Users -> SUBSET Events] /\ wire \in [Users -> Seq(Events)]
      /\ sending \subseteq Events /\ answered \subseteq Events /\ prior \in [Msgs -> SUBSET Events]
      /\ member \subseteq Users /\ last \in 0..MaxMsgs /\ MaxMsgs \in Nat /\ Cap \in Nat \ {0}
      /\ Users \cap Nat = {} /\ Msgs = 1..MaxMsgs /\ Events = Msgs \union Users
  BY BoundAssumption, UserAssumption DEF TypeOK, Msgs, Events
<1>1. ASSUME NEW v \in Users, Join(v) PROVE LineKnown'
  BY <1>0, <1>1 DEF LineKnown, Join
<1>2. ASSUME NEW v \in Users, Insert(v) PROVE LineKnown'
  BY <1>0, <1>2 DEF LineKnown, Insert
<1>3. ASSUME NEW v \in Users, Subscribe(v) PROVE LineKnown'
  BY <1>0, <1>3 DEF LineKnown, Subscribe
<1>4. ASSUME NEW v \in Users, Receive(v) PROVE LineKnown'
  <2>1. next[v] \in 1..Len(log) /\ held' = [held EXCEPT ![v] = {log[next[v]]}]
    BY <1>0, <1>4 DEF Receive, Behind
  <2> QED
    BY <1>0, <1>4, <2>1 DEF LineKnown, Receive
<1>5. ASSUME NEW v \in Users, Lag(v) PROVE LineKnown'
  BY <1>0, <1>5 DEF LineKnown, Lag, Idle, Behind
<1>6. ASSUME NEW v \in Users, Forward(v) PROVE LineKnown'
  <2>1. PICK e \in Events : held[v] = {e}
    BY <1>6 DEF Forward, HeldInv
  <2>2. (CHOOSE y \in held[v] : TRUE) = e
    BY <2>1
  <2>3. wire' = [wire EXCEPT ![v] = @ \o <<e>>] /\ wire[v] \in Seq(Events)
    BY <1>0, <1>6, <2>2 DEF Forward
  <2>4. e \in answered /\ \A k \in DOMAIN wire[v] : wire[v][k] \in answered
    BY <2>1 DEF LineKnown
  <2>5. \A k \in DOMAIN (wire[v] \o <<e>>) : (wire[v] \o <<e>>)[k] \in answered
    <3>1. DOMAIN (wire[v] \o <<e>>) = 1..(Len(wire[v]) + 1) /\ DOMAIN wire[v] = 1..Len(wire[v])
      BY <2>3
    <3>2. /\ (wire[v] \o <<e>>)[Len(wire[v]) + 1] = e
          /\ \A k \in 1..Len(wire[v]) : (wire[v] \o <<e>>)[k] = wire[v][k]
      BY <2>3
    <3> QED
      BY <2>3, <2>4, <3>1, <3>2
  <2> QED
    BY <1>0, <1>6, <2>3, <2>5 DEF LineKnown, Forward
<1>7. ASSUME NEW v \in Users, Filter(v) PROVE LineKnown'
  BY <1>0, <1>7 DEF LineKnown, Filter
<1>8. ASSUME NEW v \in Users, CheckFails(v) PROVE LineKnown'
  BY <1>0, <1>8 DEF LineKnown, CheckFails
<1>9. ASSUME NEW v \in Users, Disconnect(v) PROVE LineKnown'
  BY <1>0, <1>9 DEF LineKnown, Disconnect, Hangup
<1>10. ASSUME NEW v \in Users, Login(v) PROVE LineKnown'
  BY <1>0, <1>10 DEF LineKnown, Login, NoFetch
<1>11. ASSUME NEW v \in Users, Read(v) PROVE LineKnown'
  <2>1. wire[v] # <<>> /\ wire' = [wire EXCEPT ![v] = Tail(@)] /\ wire[v] \in Seq(Events)
    BY <1>0, <1>11 DEF Read
  <2>2. \A k \in DOMAIN Tail(wire[v]) : k + 1 \in DOMAIN wire[v] /\ Tail(wire[v])[k] = wire[v][k + 1]
    BY <2>1
  <2>3. \A k \in DOMAIN Tail(wire[v]) : Tail(wire[v])[k] \in answered
    BY <2>2 DEF LineKnown
  <2> QED
    BY <1>0, <1>11, <2>1, <2>3 DEF LineKnown, Read
<1>12. ASSUME NEW v \in Users, Map(v) PROVE LineKnown'
  BY <1>0, <1>12 DEF LineKnown, Map
<1>13. ASSUME NEW v \in Users, Open(v) PROVE LineKnown'
  BY <1>0, <1>13 DEF LineKnown, Open, Ask, NoFetch
<1>14. ASSUME NEW v \in Users, LoadOlder(v) PROVE LineKnown'
  BY <1>0, <1>14 DEF LineKnown, LoadOlder, Ask, NoFetch
<1>15. ASSUME NEW v \in Users, Answer(v) PROVE LineKnown'
  BY <1>0, <1>15 DEF LineKnown, Answer
<1>16. ASSUME NEW v \in Users, Absorb(v) PROVE LineKnown'
  BY <1>0, <1>16 DEF LineKnown, Absorb, NoFetch, Continues
<1>17. ASSUME NEW v \in Users, FetchFails(v) PROVE LineKnown'
  BY <1>0, <1>17 DEF LineKnown, FetchFails, NoFetch
<1>18. ASSUME NEW x \in Events, Broadcast(x) PROVE LineKnown'
  <2>1. /\ Len(log') = Len(log) + 1 /\ log'[Len(log) + 1] = x
        /\ \A k \in 1..Len(log) : log'[k] = log[k]
    BY <1>0, <1>18 DEF Broadcast
  <2>2. \A k \in 1..Len(log') : log'[k] \in answered'
    BY <1>0, <1>18, <2>1 DEF Broadcast, LineKnown
  <2> QED
    BY <1>18, <2>2 DEF Broadcast, LineKnown
<1>19. ASSUME NEW x \in Events, Die(x) PROVE LineKnown'
  BY <1>0, <1>19 DEF LineKnown, Die
<1>20. ASSUME Restart PROVE LineKnown'
  BY <1>0, <1>20 DEF LineKnown, Restart, Hangup
<1>21. ASSUME UNCHANGED vars PROVE LineKnown'
  BY <1>0, <1>21 DEF LineKnown, vars
<1> QED
  BY <1>1, <1>2, <1>3, <1>4, <1>5, <1>6, <1>7, <1>8, <1>9, <1>10, <1>11, <1>12, <1>13,
     <1>14, <1>15, <1>16, <1>17, <1>18, <1>19, <1>20, <1>21 DEF Next

\* No step brings two events out of order.
LEMMA LineStep ==
  ASSUME TypeOK, HeldInv, BusKnown, LineKnown, LineInv, [Next]_vars
  PROVE  LineInv'
<1> USE DEF tableVars, busVars, taskVars, clientVars
<1>0. /\ log \in Seq(Events) /\ Len(log) \in Nat /\ next \in [Users -> Nat \ {0}]
      /\ \A u \in Users : next[u] <= Len(log) + 1
      /\ held \in [Users -> SUBSET Events] /\ wire \in [Users -> Seq(Events)]
      /\ sending \subseteq Events /\ answered \subseteq Events /\ prior \in [Msgs -> SUBSET Events]
      /\ member \subseteq Users /\ last \in 0..MaxMsgs /\ MaxMsgs \in Nat /\ Cap \in Nat \ {0}
      /\ Users \cap Nat = {} /\ Msgs = 1..MaxMsgs /\ Events = Msgs \union Users
  BY BoundAssumption, UserAssumption DEF TypeOK, Msgs, Events
<1>1. ASSUME NEW v \in Users, Join(v) PROVE LineInv'
  BY <1>0, <1>1 DEF LineInv, LineOf, Clash, Join
<1>2. ASSUME NEW v \in Users, Insert(v) PROVE LineInv'
  <2>1. \A e \in answered : e # last + 1
    <3>1. last + 1 \notin member /\ last + 1 \notin 1..last
      BY <1>0, FreshId
    <3> QED
      BY <3>1 DEF BusKnown
  <2>2. \A e \in answered, y \in answered : Clash(e, y)' <=> Clash(e, y)
    BY <1>0, <1>2, <2>1 DEF Clash, Insert
  <2>3. next' = next /\ log' = log /\ held' = held /\ wire' = wire
    BY <1>2 DEF Insert
  <2>4. \A u \in Users : \A k \in next[u]..Len(log) : k \in 1..Len(log)
    BY <1>0
  <2>5. ASSUME NEW u \in Users PROVE LineOf(u)'
    <3>1. /\ \A a \in DOMAIN wire[u] : wire[u][a] \in answered
          /\ held[u] \subseteq answered
          /\ \A k \in next[u]..Len(log) : log[k] \in answered
      BY <2>4 DEF LineKnown
    <3>2. LineOf(u)
      BY DEF LineInv
    <3> QED
      BY <2>2, <2>3, <3>1, <3>2 DEF LineOf
  <2>6. \A j, k \in 1..Len(log) : j < k => ~ Clash(log[j], log[k])'
    BY <2>2, <2>3 DEF LineInv, LineKnown
  <2> QED
    BY <2>3, <2>5, <2>6 DEF LineInv
<1>3. ASSUME NEW v \in Users, Subscribe(v) PROVE LineInv'
  BY <1>0, <1>3 DEF LineInv, LineOf, Clash, Subscribe
<1>4. ASSUME NEW v \in Users, Receive(v) PROVE LineInv'
  <2>1. /\ next[v] \in 1..Len(log) /\ held[v] = {} /\ next'[v] = next[v] + 1
        /\ held' = [held EXCEPT ![v] = {log[next[v]]}]
    BY <1>0, <1>4 DEF Receive, Idle, Behind
  <2>2. log' = log /\ wire' = wire /\ next' = [next EXCEPT ![v] = @ + 1]
    BY <1>4 DEF Receive
  <2>3. \A e, y : Clash(e, y)' <=> Clash(e, y)
    BY <1>4 DEF Clash, Receive
  <2>4. \A k \in (next[v] + 1)..Len(log) : k \in next[v]..Len(log) /\ k \in 1..Len(log) /\ next[v] < k
    BY <1>0, <2>1
  <2>5. ASSUME NEW u \in Users, u # v
        PROVE  held'[u] = held[u] /\ next'[u] = next[u] /\ wire'[u] = wire[u]
    BY <1>0, <2>1, <2>2, <2>5
  <2>6. held'[v] = {log[next[v]]} /\ wire'[v] = wire[v] /\ next[v] \in next[v]..Len(log)
    BY <1>0, <2>1, <2>2
  <2>7. /\ \A a \in DOMAIN wire[v] : \A e \in held'[v] : ~ Clash(wire[v][a], e)
        /\ \A e \in held'[v] : \A k \in (next[v] + 1)..Len(log) : ~ Clash(e, log[k])
        /\ \A a \in DOMAIN wire[v] : \A k \in (next[v] + 1)..Len(log) : ~ Clash(wire[v][a], log[k])
    BY <2>1, <2>4, <2>6 DEF LineInv, LineOf
  <2>8. ASSUME NEW u \in Users PROVE LineOf(u)'
    <3>1. CASE u = v
      BY <2>1, <2>2, <2>3, <2>6, <2>7, <3>1 DEF LineInv, LineOf
    <3>2. CASE u # v
      BY <2>2, <2>3, <2>5, <3>2 DEF LineInv, LineOf
    <3> QED
      BY <3>1, <3>2
  <2> QED
    BY <2>2, <2>3, <2>8 DEF LineInv
<1>5. ASSUME NEW v \in Users, Lag(v) PROVE LineInv'
  BY <1>0, <1>5 DEF LineInv, LineOf, Clash, Lag, Idle, Behind
<1>6. ASSUME NEW v \in Users, Forward(v) PROVE LineInv'
  <2>1. PICK e \in Events : held[v] = {e}
    BY <1>6 DEF Forward, HeldInv
  <2>2. (CHOOSE y \in held[v] : TRUE) = e
    BY <2>1
  <2>3. wire' = [wire EXCEPT ![v] = @ \o <<e>>] /\ held' = [held EXCEPT ![v] = {}] /\ wire[v] \in Seq(Events)
    BY <1>0, <1>6, <2>2 DEF Forward
  <2>4. /\ wire'[v] = wire[v] \o <<e>> /\ held'[v] = {}
        /\ \A u \in Users \ {v} : wire'[u] = wire[u] /\ held'[u] = held[u]
    BY <1>0, <2>3
  <2>5. /\ DOMAIN wire'[v] = 1..(Len(wire[v]) + 1) /\ DOMAIN wire[v] = 1..Len(wire[v])
        /\ Len(wire[v]) \in Nat /\ wire'[v][Len(wire[v]) + 1] = e
        /\ \A k \in 1..Len(wire[v]) : wire'[v][k] = wire[v][k]
    BY <2>3, <2>4
  <2>6. log' = log /\ next' = next
    BY <1>6 DEF Forward
  <2>7. \A x, y : Clash(x, y)' <=> Clash(x, y)
    BY <1>6 DEF Clash, Forward
  <2>8. \A a, b \in DOMAIN wire'[v] : a < b => ~ Clash(wire'[v][a], wire'[v][b])
    <3> SUFFICES ASSUME NEW a \in DOMAIN wire'[v], NEW b \in DOMAIN wire'[v], a < b
                 PROVE  ~ Clash(wire'[v][a], wire'[v][b])
      OBVIOUS
    <3>1. a \in DOMAIN wire[v]
      BY <2>5
    <3>2. CASE b = Len(wire[v]) + 1
      BY <2>1, <2>5, <3>1, <3>2 DEF LineInv, LineOf
    <3>3. CASE b \in DOMAIN wire[v]
      BY <2>5, <3>1, <3>3 DEF LineInv, LineOf
    <3> QED
      BY <2>5, <3>2, <3>3
  <2>9. \A a \in DOMAIN wire'[v] : \A k \in next[v]..Len(log) : ~ Clash(wire'[v][a], log[k])
    <3> SUFFICES ASSUME NEW a \in DOMAIN wire'[v], NEW k \in next[v]..Len(log)
                 PROVE  ~ Clash(wire'[v][a], log[k])
      OBVIOUS
    <3>1. CASE a = Len(wire[v]) + 1
      BY <2>1, <2>5, <3>1 DEF LineInv, LineOf
    <3>2. CASE a \in DOMAIN wire[v]
      BY <2>5, <3>2 DEF LineInv, LineOf
    <3> QED
      BY <2>5, <3>1, <3>2
  <2>10. ASSUME NEW u \in Users PROVE LineOf(u)'
    <3>1. CASE u = v
      BY <2>4, <2>6, <2>7, <2>8, <2>9, <3>1 DEF LineInv, LineOf
    <3>2. CASE u # v
      BY <2>4, <2>6, <2>7, <3>2 DEF LineInv, LineOf
    <3> QED
      BY <3>1, <3>2
  <2> QED
    BY <2>6, <2>7, <2>10 DEF LineInv
<1>7. ASSUME NEW v \in Users, Filter(v) PROVE LineInv'
  BY <1>0, <1>7 DEF LineInv, LineOf, Clash, Filter
<1>8. ASSUME NEW v \in Users, CheckFails(v) PROVE LineInv'
  BY <1>0, <1>8 DEF LineInv, LineOf, Clash, CheckFails
<1>9. ASSUME NEW v \in Users, Disconnect(v) PROVE LineInv'
  <2>1. log' = log /\ prior' = prior
    BY <1>9 DEF Disconnect
  <2>2. ASSUME NEW u \in Users
        PROVE  IF u = v THEN wire'[u] = <<>> /\ held'[u] = {}
               ELSE wire'[u] = wire[u] /\ held'[u] = held[u] /\ next'[u] = next[u]
    BY <1>9 DEF Disconnect, Hangup
  <2>3. ASSUME NEW u \in Users PROVE LineOf(u)'
    <3>1. CASE u = v
      BY <2>2, <3>1 DEF LineOf
    <3>2. CASE u # v
      BY <2>1, <2>2, <3>2 DEF LineInv, LineOf, Clash
    <3> QED
      BY <3>1, <3>2
  <2> QED
    BY <2>1, <2>3 DEF LineInv, Clash
<1>10. ASSUME NEW v \in Users, Login(v) PROVE LineInv'
  BY <1>0, <1>10 DEF LineInv, LineOf, Clash, Login, NoFetch
<1>11. ASSUME NEW v \in Users, Read(v) PROVE LineInv'
  <2>1. wire[v] # <<>> /\ wire' = [wire EXCEPT ![v] = Tail(@)] /\ wire[v] \in Seq(Events)
    BY <1>0, <1>11 DEF Read
  <2>2. wire'[v] = Tail(wire[v]) /\ \A u \in Users \ {v} : wire'[u] = wire[u]
    BY <1>0, <2>1
  <2>3. \A k \in DOMAIN wire'[v] : k + 1 \in DOMAIN wire[v] /\ wire'[v][k] = wire[v][k + 1] /\ k \in Nat
    <3>1. /\ DOMAIN wire[v] = 1..Len(wire[v]) /\ Len(wire[v]) \in Nat
          /\ DOMAIN Tail(wire[v]) = 1..(Len(wire[v]) - 1)
          /\ \A k \in 1..(Len(wire[v]) - 1) : Tail(wire[v])[k] = wire[v][k + 1]
      BY <2>1
    <3>2. \A k \in 1..(Len(wire[v]) - 1) : k + 1 \in 1..Len(wire[v]) /\ k \in Nat
      BY <3>1
    <3> QED
      BY <2>2, <3>1, <3>2
  <2>4. log' = log /\ next' = next /\ held' = held
    BY <1>11 DEF Read
  <2>5. \A x, y : Clash(x, y)' <=> Clash(x, y)
    BY <1>11 DEF Clash, Read
  <2>6. \A a, b \in DOMAIN wire'[v] : a < b => ~ Clash(wire'[v][a], wire'[v][b])
    <3> SUFFICES ASSUME NEW a \in DOMAIN wire'[v], NEW b \in DOMAIN wire'[v], a < b
                 PROVE  ~ Clash(wire'[v][a], wire'[v][b])
      OBVIOUS
    <3>1. a + 1 < b + 1
      BY <2>3
    <3> QED
      BY <2>3, <3>1 DEF LineInv, LineOf
  <2>7. ASSUME NEW u \in Users PROVE LineOf(u)'
    <3>1. CASE u = v
      <4>1. /\ \A a \in DOMAIN wire'[v] : \A e \in held[v] : ~ Clash(wire'[v][a], e)
            /\ \A a \in DOMAIN wire'[v] : \A k \in next[v]..Len(log) : ~ Clash(wire'[v][a], log[k])
            /\ \A e \in held[v] : \A k \in next[v]..Len(log) : ~ Clash(e, log[k])
        BY <2>3 DEF LineInv, LineOf
      <4> QED
        BY <2>4, <2>5, <2>6, <3>1, <4>1 DEF LineOf
    <3>2. CASE u # v
      BY <2>2, <2>4, <2>5, <3>2 DEF LineInv, LineOf
    <3> QED
      BY <3>1, <3>2
  <2> QED
    BY <2>4, <2>5, <2>7 DEF LineInv
<1>12. ASSUME NEW v \in Users, Map(v) PROVE LineInv'
  BY <1>0, <1>12 DEF LineInv, LineOf, Clash, Map
<1>13. ASSUME NEW v \in Users, Open(v) PROVE LineInv'
  BY <1>0, <1>13 DEF LineInv, LineOf, Clash, Open, Ask, NoFetch
<1>14. ASSUME NEW v \in Users, LoadOlder(v) PROVE LineInv'
  BY <1>0, <1>14 DEF LineInv, LineOf, Clash, LoadOlder, Ask, NoFetch
<1>15. ASSUME NEW v \in Users, Answer(v) PROVE LineInv'
  BY <1>0, <1>15 DEF LineInv, LineOf, Clash, Answer
<1>16. ASSUME NEW v \in Users, Absorb(v) PROVE LineInv'
  BY <1>0, <1>16 DEF LineInv, LineOf, Clash, Absorb, NoFetch, Continues
<1>17. ASSUME NEW v \in Users, FetchFails(v) PROVE LineInv'
  BY <1>0, <1>17 DEF LineInv, LineOf, Clash, FetchFails, NoFetch
<1>18. ASSUME NEW x \in Events, Broadcast(x) PROVE LineInv'
  <2>1. /\ Len(log') = Len(log) + 1 /\ log'[Len(log) + 1] = x
        /\ \A k \in 1..Len(log) : log'[k] = log[k]
    BY <1>0, <1>18 DEF Broadcast
  <2>2. \A e : ~ Clash(e, x)
    BY <1>18 DEF Clash, BusKnown, Broadcast
  <2>3. \A e, y : Clash(e, y)' <=> Clash(e, y)
    BY <1>18 DEF Clash, Broadcast
  <2>4. next' = next /\ held' = held /\ wire' = wire
    BY <1>18 DEF Broadcast
  <2>5. \A u \in Users : \A k \in next[u]..Len(log') :
          k = Len(log) + 1 \/ (k \in next[u]..Len(log) /\ k \in 1..Len(log))
    BY <1>0, <2>1
  <2>6. \A j, k \in 1..Len(log') : j < k => ~ Clash(log'[j], log'[k])
    <3> SUFFICES ASSUME NEW j \in 1..Len(log'), NEW k \in 1..Len(log'), j < k
                 PROVE  ~ Clash(log'[j], log'[k])
      OBVIOUS
    <3>1. CASE k = Len(log) + 1
      BY <2>1, <2>2, <3>1
    <3>2. CASE k # Len(log) + 1
      <4>1. j \in 1..Len(log) /\ k \in 1..Len(log)
        BY <1>0, <2>1, <3>2
      <4>2. ~ Clash(log[j], log[k])
        BY <4>1 DEF LineInv, LineOf
      <4> QED
        BY <2>1, <4>1, <4>2
    <3> QED
      BY <3>1, <3>2
  <2> QED
    BY <2>1, <2>2, <2>3, <2>4, <2>5, <2>6 DEF LineInv, LineOf
<1>19. ASSUME NEW x \in Events, Die(x) PROVE LineInv'
  BY <1>0, <1>19 DEF LineInv, LineOf, Clash, Die
<1>20. ASSUME Restart PROVE LineInv'
  BY <1>0, <1>20 DEF LineInv, LineOf, Clash, Restart, Hangup
<1>21. ASSUME UNCHANGED vars PROVE LineInv'
  BY <1>0, <1>21 DEF LineInv, LineOf, Clash, vars
<1> QED
  BY <1>1, <1>2, <1>3, <1>4, <1>5, <1>6, <1>7, <1>8, <1>9, <1>10, <1>11, <1>12, <1>13,
     <1>14, <1>15, <1>16, <1>17, <1>18, <1>19, <1>20, <1>21 DEF Next

\* The order kept by the parts of a user's line is the order of the line.
LEMMA LineOrder ==
  ASSUME TypeOK, HeldInv, LineInv
  PROVE  InOrder
<1> SUFFICES ASSUME NEW u \in Users
             PROVE  LET line == wire[u] \o (IF held[u] = {} THEN <<>> ELSE <<CHOOSE e \in held[u] : TRUE>>)
                                \o SubSeq(log, next[u], Len(log))
                    IN \A a, b \in DOMAIN line :
                         a < b /\ line[a] \in Msgs => line[b] \notin prior[line[a]]
  BY DEF InOrder
<1> DEFINE w == wire[u]
           h == IF held[u] = {} THEN <<>> ELSE <<CHOOSE e \in held[u] : TRUE>>
           s == SubSeq(log, next[u], Len(log))
           m == next[u]
           n == Len(log)
           p == Len(w)
           q == Len(h)
           wh == w \o h
           line == wh \o s
<1>1. w \in Seq(Events) /\ m \in Nat \ {0} /\ n \in Nat /\ m <= n + 1 /\ log \in Seq(Events)
      /\ p \in Nat
  BY DEF TypeOK
<1>2. h \in Seq(Events) /\ q \in {0, 1} /\ (q = 1 => h[1] \in held[u])
  <2>1. CASE held[u] = {}
    BY <2>1
  <2>2. CASE held[u] # {}
    <3>1. PICK e \in Events : held[u] = {e}
      BY <2>2 DEF HeldInv
    <3>2. h = <<e>>
      BY <3>1
    <3> HIDE DEF h
    <3> QED
      BY <3>1, <3>2
  <2> QED
    BY <2>1, <2>2
<1>3. /\ s \in Seq(Events) /\ Len(s) = n - m + 1
      /\ \A i \in 1..(n - m + 1) : s[i] = log[m + i - 1]
  <2>1. \A i \in m..n : log[i] \in Events
    BY <1>1
  <2>2. m \in Int /\ n \in Int
    BY <1>1
  <2>3. Len(s) = IF m <= n THEN n - m + 1 ELSE 0
    BY <2>1, <2>2, SubSeqProperties
  <2>4. s \in Seq(Events) /\ \A i \in 1..(n - m + 1) : s[i] = log[m + i - 1]
    BY <2>1, <2>2, SubSeqProperties
  <2> QED
    BY <1>1, <2>3, <2>4
<1> HIDE DEF w, h, s, m, n, p, q
<1>4. /\ wh \in Seq(Events) /\ Len(wh) = p + q
      /\ \A i \in 1..(p + q) : wh[i] = IF i <= p THEN w[i] ELSE h[i - p]
  BY <1>1, <1>2, ConcatProperties DEF p, q
<1> HIDE DEF wh
<1>5. /\ Len(line) = p + q + (n - m + 1) /\ line \in Seq(Events)
      /\ \A i \in 1..(p + q + (n - m + 1)) :
           line[i] = IF i <= p + q THEN wh[i] ELSE s[i - (p + q)]
  <2>1. /\ line \in Seq(Events) /\ Len(line) = Len(wh) + Len(s)
        /\ \A i \in 1..(Len(wh) + Len(s)) :
             line[i] = IF i <= Len(wh) THEN wh[i] ELSE s[i - Len(wh)]
    BY <1>3, <1>4, ConcatProperties
  <2> HIDE DEF line
  <2> QED
    BY <1>3, <1>4, <2>1
<1>6. /\ \A a, b \in 1..p : a < b => ~ Clash(w[a], w[b])
      /\ \A a \in 1..p : \A e \in held[u] : ~ Clash(w[a], e)
      /\ \A a \in 1..p : \A k \in m..n : ~ Clash(w[a], log[k])
      /\ \A e \in held[u] : \A k \in m..n : ~ Clash(e, log[k])
      /\ \A j, k \in 1..n : j < k => ~ Clash(log[j], log[k])
  <2>1. DOMAIN wire[u] = 1..Len(wire[u])
    BY <1>1 DEF w
  <2> QED
    BY <2>1 DEF LineInv, LineOf, w, m, n, p
<1> HIDE DEF line
<1>7. ASSUME NEW a \in DOMAIN line
      PROVE  \/ a \in 1..p /\ line[a] = w[a]
             \/ a = p + 1 /\ line[a] \in held[u]
             \/ \E k \in m..n : k = a - p - q + m - 1 /\ line[a] = log[k] /\ a > p + q
  <2>1. a \in 1..(p + q + (n - m + 1))
    BY <1>5
  <2>0. p \in Nat /\ q \in Nat /\ a \in Nat /\ a >= 1 /\ n - m + 1 \in Nat
    BY <1>1, <1>2, <2>1
  <2>2. CASE a <= p
    BY <1>1, <1>2, <1>4, <1>5, <2>0, <2>1, <2>2
  <2>3. CASE a > p /\ a <= p + q
    <3>1. q = 1 /\ a = p + 1 /\ a - p = 1
      BY <1>1, <1>2, <2>1, <2>3
    <3>2. a \in 1..(p + q) /\ line[a] = wh[a]
      BY <1>5, <2>0, <2>1, <2>3
    <3>3. line[a] = h[a - p]
      BY <1>4, <2>3, <2>0, <3>2
    <3> QED
      BY <1>2, <3>1, <3>3
  <2>4. CASE a > p + q
    <3> DEFINE d == a - (p + q)
               k == a - p - q + m - 1
    <3>0. /\ m \in Int /\ n \in Int /\ a \in Int /\ p \in Int /\ q \in Int
          /\ p + q < a /\ a <= p + q + (n - m + 1)
      BY <1>1, <2>0, <2>1, <2>4
    <3>1. d \in 1..(n - m + 1) /\ k = m + d - 1
      BY <3>0
    <3>4. k \in m..n
      BY <3>0
    <3>2. line[a] = s[a - (p + q)]
      BY <1>1, <1>2, <1>5, <2>1, <2>4
    <3>3. line[a] = log[k]
      BY <1>3, <3>1, <3>2
    <3> QED
      BY <2>4, <3>3, <3>4
  <2> QED
    BY <1>1, <1>2, <2>1, <2>2, <2>3, <2>4
<1>8. ASSUME NEW a \in DOMAIN line, NEW b \in DOMAIN line, a < b
      PROVE  ~ Clash(line[a], line[b])
  <2>0. a \in Nat /\ b \in Nat
    BY <1>5
  <2>1. CASE a \in 1..p /\ line[a] = w[a]
    <3>1. CASE b \in 1..p /\ line[b] = w[b]
      BY <1>6, <1>8, <2>1, <3>1
    <3>2. CASE line[b] \in held[u]
      BY <1>6, <2>1, <3>2
    <3>3. CASE \E k \in m..n : line[b] = log[k]
      BY <1>6, <2>1, <3>3
    <3> QED
      BY <1>7, <3>1, <3>2, <3>3
  <2>2. CASE a = p + 1 /\ line[a] \in held[u]
    <3>1. b \notin 1..p /\ b # p + 1
      BY <1>1, <1>8, <2>0, <2>2
    <3>2. PICK k \in m..n : line[b] = log[k]
      BY <1>7, <3>1
    <3> QED
      BY <1>6, <2>2, <3>2
  <2>3. CASE \E k \in m..n : k = a - p - q + m - 1 /\ line[a] = log[k] /\ a > p + q
    <3>1. PICK j \in m..n : j = a - p - q + m - 1 /\ line[a] = log[j] /\ a > p + q
      BY <2>3
    <3>2. b \notin 1..p /\ b # p + 1
      BY <1>1, <1>2, <1>8, <2>0, <3>1
    <3>3. PICK k \in m..n : k = b - p - q + m - 1 /\ line[b] = log[k]
      BY <1>7, <3>2
    <3>4. j \in 1..n /\ k \in 1..n
      BY <1>1
    <3>5. j < k
      <4>1. p \in Int /\ q \in Int /\ m \in Int /\ a \in Int /\ b \in Int /\ j \in Int /\ k \in Int
        BY <1>1, <1>2, <2>0
      <4>2. j = a - p - q + m - 1 /\ k = b - p - q + m - 1
        BY <3>1, <3>3
      <4> QED
        BY <1>8, <4>1, <4>2
    <3> QED
      BY <1>6, <3>1, <3>3, <3>4, <3>5
  <2> QED
    BY <1>7, <2>1, <2>2, <2>3
<1>9. \A a, b \in DOMAIN line : a < b /\ line[a] \in Msgs => line[b] \notin prior[line[a]]
  BY <1>8 DEF Clash
<1> QED
  BY <1>9 DEF line, wh, w, h, s

\* The inductive invariant.
IInv ==
  /\ TypeOK
  /\ HeldInv
  /\ LinkInv
  /\ MemberInv
  /\ PageInv
  /\ NoHoles
  /\ JoinIsHeard
  /\ BusKnown
  /\ LineKnown
  /\ LineInv

\* A page in flight stays one piece with the events after it: what is stored since
\* then is in its handler's hands (LastStep), and what was on its way stays covered.
LEMMA PageStep ==
  ASSUME IInv, [Next]_vars, TypeOK'
  PROVE  PageInv'
<1> SUFFICES ASSUME NEW u \in Users, fetch'[u].stage = "answered"
             PROVE  /\ Floor(fetch'[u].ids) \in 1..Beyond
                    /\ IF fetch'[u].fresh
                       THEN \A i \in Floor(fetch'[u].ids)..last' :
                              i < fetch'[u].before => i \in fetch'[u].ids \union Covered(u)'
                       ELSE from'[u] = Beyond
  BY DEF PageInv
<1>0. /\ fetch \in [Users -> [stage : {"idle", "asked", "answered"}, before : 1..Beyond,
                               ids : SUBSET Msgs, fresh : BOOLEAN]]
      /\ last \in Nat /\ MaxMsgs \in Nat
  BY BoundAssumption DEF IInv, TypeOK
<1>1. CASE /\ fetch[u].stage = "answered" /\ fetch'[u].ids = fetch[u].ids
           /\ ~ fetch'[u].fresh /\ from'[u] = Beyond
  BY <1>1 DEF IInv, PageInv
<1>2. CASE /\ fetch'[u] = fetch[u] /\ from'[u] = from[u]
           /\ link[u] = "open" => link'[u] = "open"
  <2>1. fetch[u].stage = "answered" /\ Floor(fetch[u].ids) \in 1..Beyond /\ u \in member /\ u \in mapped
    BY <1>2 DEF IInv, PageInv, MemberInv
  <2>2. CASE ~ fetch[u].fresh
    BY <1>2, <2>1, <2>2 DEF IInv, PageInv
  <2>3. CASE fetch[u].fresh
    <3>1. link[u] = "open" /\ link'[u] = "open"
      BY <1>2, <2>3 DEF IInv, LinkInv
    <3>2. ASSUME NEW i \in Floor(fetch[u].ids)..last', i < fetch[u].before
          PROVE  i \in fetch[u].ids \union Covered(u)'
      <4>1. CASE i \in sending'
        BY <4>1 DEF Covered, OnTheWay
      <4>2. CASE i \in Floor(fetch[u].ids)..last
        <5>1. i \in fetch[u].ids \/ i \in Covered(u)
          BY <2>1, <2>3, <3>2, <4>2 DEF IInv, PageInv
        <5>2. i \in Covered(u) => i \in Covered(u)'
          BY <2>1, <3>1, CoveredStays DEF IInv
        <5> QED
          BY <5>1, <5>2
      <4>3. i \in sending' \/ i \in Floor(fetch[u].ids)..last
        <5>1. last' = last \/ (last' = last + 1 /\ last' \in sending')
          BY LastStep DEF IInv
        <5>2. Floor(fetch[u].ids) \in Nat
          BY <2>1
        <5> QED
          BY <1>0, <5>1, <5>2
      <4> QED
        BY <4>1, <4>2, <4>3
    <3> QED
      BY <1>2, <2>1, <2>3, <3>2
  <2> QED
    BY <2>2, <2>3
<1>3. CASE Answer(u)
  <2> DEFINE ids == PageBefore(fetch[u].before)
  <2>1. fetch'[u].ids = ids /\ fetch'[u].before = fetch[u].before /\ fetch'[u].fresh = (link[u] = "open")
    BY <1>0, <1>3 DEF Answer
  <2>2. last' = last /\ from' = from
    BY <1>3 DEF Answer, tableVars
  <2>3. fetch[u].before \in 1..Beyond
    BY <1>0
  <2>4. Floor(ids) \in 1..Beyond /\ \A i \in Floor(ids)..last : i < fetch[u].before => i \in ids
    BY <2>3, PageLemma DEF IInv
  <2>5. link[u] # "open" => from[u] = Beyond
    BY DEF IInv, LinkInv
  <2> HIDE DEF ids
  <2> QED
    BY <2>1, <2>2, <2>4, <2>5
<1> QED
  BY <1>1, <1>2, <1>3, FetchCases DEF IInv

\* A promise grows by a new row, which is in its handler's hands, or by a page that
\* continues what the client has, which PageInv says is complete.
LEMMA NoHolesStep ==
  ASSUME IInv, [Next]_vars, TypeOK'
  PROVE  NoHoles'
<1> SUFFICES ASSUME NEW u \in Users, link'[u] = "open", NEW i \in from'[u]..last'
             PROVE  i \in Covered(u)'
  BY DEF NoHoles, Covered
<1>0. /\ from[u] \in 1..Beyond /\ last \in 0..MaxMsgs /\ MaxMsgs \in Nat /\ Beyond = MaxMsgs + 1
      /\ from'[u] \in 1..Beyond /\ last' \in 0..MaxMsgs
  BY BoundAssumption DEF IInv, TypeOK, Beyond
<1>1. from'[u] # Beyond
  BY <1>0
<1>2. last' = last \/ (last' = last + 1 /\ last' \in sending')
  BY LastStep DEF IInv
<1>3. CASE i \in sending'
  BY <1>3 DEF Covered, OnTheWay
<1>4. ASSUME link[u] = "open", i \in from[u]..last PROVE i \in Covered(u)'
  <2>1. i \in Covered(u)
    BY <1>4 DEF IInv, NoHoles, Covered
  <2>2. from[u] # Beyond
    BY <1>0, <1>4
  <2>3. u \in member /\ u \in mapped
    BY <2>2 DEF IInv, MemberInv
  <2> QED
    BY <1>4, <2>1, <2>3, CoveredStays DEF IInv
<1>5. CASE link[u] = "open" /\ from'[u] = from[u]
  <2>1. i \in from[u]..last \/ i \in sending'
    BY <1>0, <1>2, <1>5
  <2> QED
    BY <1>3, <1>4, <1>5, <2>1
<1>6. CASE link[u] = "open" /\ Absorb(u)
  <2>1. last' = last /\ fetch[u].stage = "answered" /\ got'[u] = got[u] \union fetch[u].ids
    BY <1>6 DEF Absorb, tableVars, IInv, TypeOK
  <2>2. CASE i \in from[u]..last
    BY <1>4, <1>6, <2>2
  <2>3. CASE i \notin from[u]..last
    <3> DEFINE f == Floor(fetch[u].ids)
    <3>1. Continues(u) /\ from'[u] = Least({from[u], f})
      <4>1. from'[u] # from[u]
        BY <1>0, <2>1, <2>3
      <4> QED
        BY <1>6, <4>1 DEF Absorb, IInv, TypeOK
    <3>2. f \in 1..Beyond /\ fetch[u].before \in 1..Beyond
      BY <2>1 DEF IInv, PageInv, TypeOK
    <3> HIDE DEF f
    <3>3. from'[u] \in {from[u], f}
      BY <1>0, <3>1, <3>2, TwoLeast
    <3>4. i \in f..last /\ i < from[u]
      BY <1>0, <2>1, <2>3, <3>2, <3>3
    <3>5. i < fetch[u].before /\ fetch[u].fresh
      BY <1>0, <3>1, <3>2, <3>4 DEF Continues
    <3>6. i \in fetch[u].ids \/ i \in Covered(u)
      BY <2>1, <3>4, <3>5 DEF IInv, PageInv, f
    <3>7. i \in fetch[u].ids => i \in Covered(u)'
      BY <2>1 DEF Covered
    <3>8. u \in member /\ u \in mapped
      BY <2>1 DEF IInv, MemberInv
    <3>9. i \in Covered(u) => i \in Covered(u)'
      BY <1>6, <3>8, CoveredStays DEF IInv
    <3> QED
      BY <3>6, <3>7, <3>9
  <2> QED
    BY <2>2, <2>3
<1> QED
  BY <1>1, <1>5, <1>6, FromCases DEF IInv

\* A join is owed from the moment its handler has it in its hands.
LEMMA JoinIsHeardStep ==
  ASSUME IInv, [Next]_vars
  PROVE  JoinIsHeard'
<1> SUFFICES ASSUME NEW u \in Users, link'[u] = "open", NEW e \in owed'[u]
             PROVE  e \in Covered(u)'
  BY DEF JoinIsHeard, Covered
<1>1. CASE e \in sending'
  BY <1>1 DEF Covered, OnTheWay
<1>2. CASE link[u] = "open" /\ e \in owed[u]
  <2>1. e \in Covered(u) /\ u \in member /\ e \in Users
    BY <1>2 DEF IInv, JoinIsHeard, Covered, MemberInv, TypeOK
  <2> QED
    BY <1>2, <2>1, CoveredStays DEF IInv
<1> QED
  BY <1>1, <1>2, OwedCases DEF IInv

\* Nothing is promised and nothing sent at the start.
LEMMA InitIInv == Init => IInv
<1> SUFFICES ASSUME Init PROVE IInv
  OBVIOUS
<1>1. TypeOK
  BY UserAssumption, BoundAssumption DEF Init, TypeOK, NoFetch, Beyond, Events, Msgs
<1>2. HeldInv /\ LinkInv /\ MemberInv /\ PageInv /\ NoHoles /\ JoinIsHeard
  BY DEF Init, HeldInv, LinkInv, MemberInv, PageInv, NoHoles, JoinIsHeard, NoFetch
<1>3. BusKnown /\ LineKnown /\ LineInv
  BY DEF Init, BusKnown, LineKnown, LineInv, LineOf
<1> QED
  BY <1>1, <1>2, <1>3 DEF IInv

\* IInv is inductive.
LEMMA StepIInv == IInv /\ [Next]_vars => IInv'
<1> SUFFICES ASSUME IInv, [Next]_vars PROVE IInv'
  OBVIOUS
<1>1. TypeOK'
  BY TypeStep DEF IInv
<1>2. HeldInv' /\ LinkInv' /\ MemberInv'
  BY HeldStep, LinkStep, MemberStep DEF IInv
<1>3. PageInv' /\ NoHoles' /\ JoinIsHeard'
  BY <1>1, PageStep, NoHolesStep, JoinIsHeardStep
<1>4. BusKnown' /\ LineKnown' /\ LineInv'
  BY BusStep, LineKnownStep, LineStep DEF IInv
<1> QED
  BY <1>1, <1>2, <1>3, <1>4 DEF IInv

\* The inductive invariant holds in every reachable state.
THEOREM Invariance == Spec => []IInv
  BY InitIInv, StepIInv, PTL DEF Spec

\* The relay's state keeps its type: no socket buffers more than its bound, no task
\* reads past the ring.
THEOREM TypeCorrect == Spec => []TypeOK
<1>1. IInv => TypeOK
  BY DEF IInv
<1> QED
  BY <1>1, Invariance, PTL

\* Between a page of history (list_messages, fetch_messages_impl) and the events that
\* follow it (ws_connection) no message is missing without the server having lost it.
THEOREM HistoryHasNoHoles == Spec => []NoHoles
<1>1. IInv => NoHoles
  BY DEF IInv
<1> QED
  BY <1>1, Invariance, PTL

\* Each join (http_join_guild) is heard by every member that is listening.
THEOREM JoinsAreHeard == Spec => []JoinIsHeard
<1>1. IInv => JoinIsHeard
  BY DEF IInv
<1> QED
  BY <1>1, Invariance, PTL

\* A listening client gets no message ahead of what was answered before it was sent:
\* the send handlers put the event on the ring before they answer (http_send_message,
\* http_join_guild), and the ring, the task and the socket keep the order.
THEOREM EventsInOrder == Spec => []InOrder
<1>1. IInv => InOrder
  BY LineOrder DEF IInv
<1> QED
  BY <1>1, Invariance, PTL
=============================================================================
