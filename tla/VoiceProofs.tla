---------------------------- MODULE VoiceProofs ----------------------------
(***************************************************************************)
(* Proofs about Voice, for any channels, people, lifetime of a key, ring   *)
(* and bounds.                                                             *)
(*                                                                         *)
(* OneSession needs SessionInv: whose task runs and what is shown at each  *)
(* step of a command.  FreshAfterLeaving and KeyAge need KeyInv, about the *)
(* keys that are cached.  PeopleAreHere needs LastInv, that the last event *)
(* a task has not worked in says where a person is, for the tasks of all   *)
(* rooms: the map is handed from one to the next.                          *)
(***************************************************************************)
EXTENDS Voice, TLAPS

(* The parts of TypeOK. *)
KeyTypes ==
  /\ now \in 0..MaxTime /\ epoch \in [Channels -> Epochs] /\ floor \in [Channels -> Epochs]
  /\ cache \in [Channels -> [epoch : Epochs \union {Never}, until : Nat, ended : Nat \union {Never}]]
RoomSet == [chan : Channels \union {Nobody}, joined : BOOLEAN, leaked : BOOLEAN]
RoomTypes ==
  /\ made \in 0..MaxRooms /\ slot \in 0..made /\ call \in Calls
  /\ room \in [Rooms -> RoomSet] /\ inside \in [Rooms -> SUBSET People]
TaskSet ==
  [state : {"none", "running", "aborted", "over"}, hand : {"none", "event", "list"},
   event : Events \union {NoEvent}, list : SUBSET People]
TaskTypes ==
  /\ line \in [Rooms -> Seq(Events)] /\ task \in [Rooms -> TaskSet]
  /\ participants \subseteq People
  /\ missed \in [Rooms -> SUBSET People] /\ mixed \in BOOLEAN
LineInv == \A r \in Rooms : Len(line[r]) <= Ring
ShownTypes ==
  shown \in [session : Channels \union {Nobody}, people : [Channels -> SUBSET People], told : BOOLEAN]

Joining == {"publish", "spawn", "clear", "replace"}
Leaving == {"leave", "forget", "wipe"}

(* What the command that is run names at each of its steps. *)
CallInv ==
  /\ call.step \in {"lookup", "export", "cache", "room"} => call.chan \in Channels
  /\ call.step \in {"cache", "room"} => call.key \in Epochs
  /\ call.step \in Joining => call.room \in 1..made /\ slot # call.room
  /\ call.step \in {"publish", "spawn"} => task[call.room].state = "none"
  /\ call.step \in {"leave", "forget"} => call.room \in 1..made
  /\ call.step \in Leaving => slot = 0

(* What has become of the rooms, and of those that are not made yet. *)
MadeInv ==
  /\ \A r \in Rooms : r <= made => room[r].chan \in Channels
  /\ \A r \in Rooms : r > made => task[r].state = "none" /\ ~ room[r].joined
  /\ \A r \in Rooms : task[r].state = "none" => line[r] = <<>> /\ task[r].hand = "none"

SessionInv ==
  /\ call.step \notin Leaving => shown.session = IF slot = 0 THEN Nobody ELSE room[slot].chan
  /\ \A r \in Rooms : task[r].state = "running" =>
       r = slot \/ (call.step \in {"clear", "replace", "leave"} /\ r = call.room)
  /\ \A r \in Rooms : room[r].joined =>
       r = slot \/ room[r].leaked \/ (call.step \in Joining \union {"leave"} /\ r = call.room)

(* No cached key is older than the last time its room was left, and none      *)
(* stays longer than its lifetime after the end of its epoch.                 *)
KeyInv ==
  /\ \A c \in Channels : floor[c] <= epoch[c]
  /\ \A c \in Channels : cache[c].epoch # Never =>
       /\ floor[c] <= cache[c].epoch
       /\ cache[c].until <= now + Lifetime
       /\ cache[c].ended # Never => cache[c].until <= cache[c].ended + Lifetime
  /\ call.step \in {"cache", "room"} => floor[call.chan] <= call.key

(* The last event of a person that a task is still to work in says where the  *)
(* person is.                                                                 *)
SaysTrue(e, r) == e.entered <=> e.who \in inside[r]
LastInLine(r, i) == \A j \in DOMAIN line[r] : j > i => line[r][j].who # line[r][i].who
LastIsTrue(r) ==
  /\ \A i \in DOMAIN line[r] : LastInLine(r, i) => SaysTrue(line[r][i], r)
  /\ task[r].hand = "event" /\ (\A j \in DOMAIN line[r] : line[r][j].who # task[r].event.who)
       => SaysTrue(task[r].event, r)
LastInv == \A r \in Rooms : Listening(r) => LastIsTrue(r)

(* Of whom the owner's task is to hear nothing more the map is right. *)
PeopleInv ==
  Owner # 0 /\ ~ mixed /\ task[Owner].state = "running" =>
    \A p \in People \ Pending(Owner) :
      /\ p \in participants => p \in inside[Owner]
      /\ p \in inside[Owner] => p \in participants \union missed[Owner]

(* The list in the task's hand is the map, and what is shown is that before. *)
ScreenInv ==
  Owner # 0 /\ ~ mixed =>
    /\ task[Owner].hand = "list" => task[Owner].list = participants
    /\ task[Owner].hand # "list" /\ shown.told => shown.people[room[Owner].chan] = participants

\* The type invariant, in the parts that are proved one by one.
LEMMA TypeParts ==
  TypeOK <=> KeyTypes /\ RoomTypes /\ TaskTypes /\ LineInv /\ ShownTypes
BY DEF TypeOK, KeyTypes, RoomTypes, TaskTypes, LineInv, ShownTypes, RoomSet, TaskSet

(* Steps that move the clock, a group or the cache, and steps of a connect    *)
(* before there is a room.                                                    *)
Asking == {"idle", "lookup", "export", "cache", "room"}
KeyStep == UNCHANGED <<call, roomVars, slot, taskVars, shown>>
AskStep == UNCHANGED <<roomVars, slot, taskVars, shown>> /\ call.step \in Asking
  /\ call'.step \in Asking
TaskStep(r) ==
  Receive(r) \/ Update(r) \/ Send(r) \/ Stop(r) \/ \E p \in People : Move(r, p)
RoomStep ==
  \/ ConnectRoom \/ Publish \/ Spawn \/ Clear \/ Replace
  \/ Disconnect \/ Leave \/ ForgetKey \/ Wipe
  \/ \E r \in Rooms : TaskStep(r)
USE DEF TaskStep

\* Every step is of one of these kinds.
LEMMA KindsOfSteps ==
  ASSUME TypeOK, [Next]_vars
  PROVE  KeyStep \/ AskStep \/ RoomStep
<1>0. call \in Calls
  BY DEF TypeOK
<1>1. CASE UNCHANGED vars
  BY <1>1 DEF vars, KeyStep, roomVars, taskVars
<1>2. CASE Tick \/ EmptyCache \/ \E c \in Channels : Commit(c)
  BY <1>2 DEF Tick, EmptyCache, Commit, KeyStep
<1>3. CASE Fail \/ LookUpKey \/ ExportKey \/ CacheKey \/ \E c \in Channels : Connect(c)
  <2>0. CASE Fail
    BY <2>0 DEF Fail, Idle, AskStep, Asking
  <2>1. ASSUME NEW c \in Channels, Connect(c) PROVE AskStep
    BY <2>1 DEF Connect, Idle, AskStep, Asking
  <2>2. CASE LookUpKey
    BY <1>0, <2>2 DEF LookUpKey, AskStep, Asking, Calls
  <2>3. CASE ExportKey
    BY <1>0, <2>3 DEF ExportKey, AskStep, Asking, Calls
  <2>4. CASE CacheKey
    BY <1>0, <2>4 DEF CacheKey, Goto, AskStep, Asking, Calls
  <2> QED
    BY <1>3, <2>0, <2>1, <2>2, <2>3, <2>4
<1> QED
  BY <1>1, <1>2, <1>3 DEF Next, CallStep, RoomStep

(* Rooms and their numbers. *)
LEMMA RoomFacts ==
  /\ MaxRooms \in Nat /\ Ring \in Nat /\ Lifetime \in Nat /\ 0 \notin Rooms
  /\ \A r \in Rooms : r \in Nat
  /\ \A k \in 0..MaxRooms : 1..k \subseteq Rooms /\ (k < MaxRooms => k + 1 \in Rooms)
BY BoundAssumption DEF Rooms

\* The slot is empty or holds a room that has been made.
LEMMA SlotFacts ==
  ASSUME RoomTypes
  PROVE  slot \in Rooms \union {0} /\ slot # made + 1
<1>1. MaxRooms \in Nat /\ made \in 0..MaxRooms /\ slot \in 0..made
  BY BoundAssumption DEF RoomTypes
<1> QED
  BY <1>1 DEF Rooms

\* The types of the clock, the epochs and the cached keys.
LEMMA KeyTypesKept ==
  ASSUME TypeOK, CallInv, [Next]_vars
  PROVE  KeyTypes'
<1>0. KeyTypes /\ call \in Calls /\ MaxEpoch \in Nat /\ MaxTime \in Nat /\ Lifetime \in Nat
  BY TypeParts, BoundAssumption DEF RoomTypes
<1>1. \A k \in Epochs : k \in Nat
  BY <1>0 DEF Epochs
<1>2. NoKey \in [epoch : Epochs \union {Never}, until : Nat, ended : Nat \union {Never}]
  BY DEF NoKey, Never
<1>3. CASE UNCHANGED keyVars
  BY <1>0, <1>3 DEF KeyTypes, keyVars
<1>4. CASE Tick \/ EmptyCache
  BY <1>0, <1>2, <1>4 DEF Tick, EmptyCache, KeyTypes
<1>5. ASSUME NEW c \in Channels, Commit(c) PROVE KeyTypes'
  <2>1. epoch[c] + 1 \in Epochs
    BY <1>0, <1>5 DEF Commit, KeyTypes, Epochs
  <2>2. now \in Nat
    BY <1>0 DEF KeyTypes
  <2> QED
    BY <1>0, <1>5, <2>1, <2>2 DEF Commit, KeyTypes
<1>6. CASE LookUpKey
  BY <1>0, <1>2, <1>6 DEF LookUpKey, KeyTypes
<1>7. CASE CacheKey
  <2>1. now + Lifetime \in Nat /\ call.key \in Epochs
    BY <1>0, <1>7 DEF CacheKey, KeyTypes, CallInv
  <2> QED
    BY <1>0, <1>7, <2>1 DEF CacheKey, KeyTypes
<1>8. CASE ForgetKey
  BY <1>0, <1>2, <1>8 DEF ForgetKey, KeyTypes
<1> USE DEF keyVars
<1>9. CASE UNCHANGED vars \/ Fail \/ ExportKey \/ (\E c \in Channels : Connect(c))
  BY <1>3, <1>9 DEF vars, Fail, ExportKey, Connect
<1>10. CASE ConnectRoom \/ Publish \/ Spawn \/ Clear \/ Replace \/ Disconnect \/ Leave \/ Wipe
  BY <1>3, <1>10 DEF ConnectRoom, Publish, Spawn, Clear, Replace, Disconnect, Leave, Wipe
<1>11. ASSUME NEW r \in Rooms, TaskStep(r)
       PROVE  KeyTypes'
  BY <1>3, <1>11 DEF Receive, Update, Send, Stop, Move
<1> QED
  BY <1>4, <1>5, <1>6, <1>7, <1>8, <1>9, <1>10, <1>11 DEF Next, CallStep

\* The types of the command, the rooms and who is in them.
LEMMA RoomTypesKept ==
  ASSUME TypeOK, CallInv, [Next]_vars
  PROVE  RoomTypes'
<1> USE DEF RoomTypes, RoomSet
<1>0. KeyTypes /\ RoomTypes /\ KeyTypes'
  BY TypeParts, KeyTypesKept
<1>1. Idle \in Calls
  BY DEF Idle, Calls, Never
<1>2. \A s : s \in {"idle", "lookup", "export", "cache", "room", "publish", "spawn", "clear",
         "replace", "leave", "forget", "wipe"}
        => [call EXCEPT !.step = s] \in Calls
  BY <1>0 DEF Calls
<1>3. CASE KeyStep
  BY <1>0, <1>3 DEF KeyStep, roomVars
<1>4. CASE Fail \/ LookUpKey \/ ExportKey \/ CacheKey \/ \E c \in Channels : Connect(c)
  <2>1. CASE Fail \/ \E c \in Channels : Connect(c)
    BY <1>0, <1>1, <2>1 DEF Fail, Connect, roomVars, Idle, Calls
  <2>2. CASE LookUpKey
    <3>1. call.chan \in Channels
      BY <2>2 DEF LookUpKey, CallInv
    <3>2. cache[call.chan].epoch \in Epochs \union {Never}
      BY <1>0, <3>1 DEF KeyTypes
    <3>3. [call EXCEPT !.step = "room", !.key = cache[call.chan].epoch] \in Calls
      BY <1>0, <3>2 DEF Calls
    <3> QED
      BY <1>0, <1>2, <2>2, <3>3 DEF LookUpKey, roomVars
  <2>3. CASE ExportKey
    <3>1. epoch[call.chan] \in Epochs
      BY <1>0, <2>3 DEF ExportKey, CallInv, KeyTypes
    <3> QED
      BY <1>0, <2>3, <3>1 DEF ExportKey, roomVars, Calls
  <2>4. CASE CacheKey
    BY <1>0, <1>2, <2>4 DEF CacheKey, Goto, roomVars
  <2> QED
    BY <1>4, <2>1, <2>2, <2>3, <2>4
<1>5. CASE ConnectRoom
  <2>1. made + 1 \in 0..MaxRooms /\ made + 1 \in Rooms /\ slot \in 0..(made + 1)
    BY <1>0, <1>5, RoomFacts DEF ConnectRoom
  <2>2. [Idle EXCEPT !.step = "publish", !.room = made + 1] \in Calls
    BY <1>1, <2>1 DEF Calls
  <2>3. call.chan \in Channels \union {Nobody}
    BY <1>0 DEF Calls
  <2> QED
    BY <1>0, <1>5, <2>1, <2>2, <2>3 DEF ConnectRoom
<1>6. CASE Publish
  <2>1. call.room \in Rooms
    BY <1>0, <1>6, RoomFacts DEF Publish, CallInv, Joining
  <2>2. \/ room' = room /\ inside' = inside
        \/ /\ room' = [room EXCEPT ![call.room] = [room[call.room] EXCEPT !.leaked = TRUE]]
           /\ inside' = [inside EXCEPT ![call.room] = {}]
    BY <1>6 DEF Publish
  <2>3. [room[call.room] EXCEPT !.leaked = TRUE] \in RoomSet
    BY <1>0, <2>1
  <2>4. room' \in [Rooms -> RoomSet] /\ inside' \in [Rooms -> SUBSET People]
    BY <1>0, <2>2, <2>3
  <2>5. call' \in Calls /\ made' = made /\ slot' = slot
    BY <1>1, <1>2, <1>6 DEF Publish, Goto
  <2> QED
    BY <1>0, <2>4, <2>5
<1>7. CASE Spawn \/ Clear
  BY <1>0, <1>2, <1>7 DEF Spawn, Clear, Goto, roomVars
<1>8. CASE Replace
  <2>1. call.room \in 0..made
    BY <1>0, <1>8 DEF Replace, CallInv, Joining
  <2>2. room' \in [Rooms -> RoomSet]
    BY <1>0, <1>8 DEF Replace
  <2> QED
    BY <1>0, <1>1, <1>8, <2>1, <2>2 DEF Replace
<1>9. CASE Disconnect
  <2>1. 0 \in 0..made /\ slot \in Rooms \union {0}
    BY <1>0, RoomFacts, SlotFacts
  <2>2. call' \in Calls
    BY <1>1, <1>9, <2>1 DEF Disconnect, Calls
  <2> QED
    BY <1>0, <1>9, <2>1, <2>2 DEF Disconnect, roomVars
<1>10. CASE Leave
  BY ZenonT(60), <1>0, <1>2, <1>10 DEF Leave, Goto
<1>11. CASE ForgetKey \/ Wipe
  BY <1>0, <1>1, <1>2, <1>11 DEF ForgetKey, Wipe, Goto, roomVars
<1>12. ASSUME NEW r \in Rooms, TaskStep(r)
       PROVE  RoomTypes'
  <2>1. CASE Receive(r) \/ Update(r) \/ Send(r)
    BY <1>0, <2>1 DEF Receive, Update, Send, roomVars
  <2>2. CASE Stop(r)
    BY <1>0, <2>2 DEF Stop
  <2>3. ASSUME NEW p \in People, Move(r, p) PROVE RoomTypes'
    <3>1. UNCHANGED <<made, slot, call, room>>
      BY <2>3 DEF Move
    <3>2. inside' = [inside EXCEPT ![r] = inside[r] \union {p}]
            \/ inside' = [inside EXCEPT ![r] = inside[r] \ {p}]
      BY <2>3 DEF Move
    <3> QED
      BY <1>0, <3>1, <3>2
  <2> QED
    BY <1>12, <2>1, <2>2, <2>3
<1>13. CASE Tick \/ EmptyCache \/ UNCHANGED vars \/ \E c \in Channels : Commit(c)
  BY <1>3, <1>13 DEF Tick, EmptyCache, Commit, vars, KeyStep, roomVars, taskVars
<1> QED
  BY <1>4, <1>5, <1>6, <1>7, <1>8, <1>9, <1>10, <1>11, <1>12, <1>13 DEF Next, CallStep

\* What the steps make of the record of a task is one.
LEMMA TaskFacts ==
  /\ NoTask \in TaskSet /\ NoEvent \in Events \union {NoEvent}
  /\ \A t \in TaskSet :
       /\ \A s \in {"none", "running", "aborted", "over"} : [t EXCEPT !.state = s] \in TaskSet
       /\ \A e \in Events : [t EXCEPT !.hand = "event", !.event = e] \in TaskSet
       /\ \A l \in SUBSET People : [t EXCEPT !.hand = "list", !.list = l,
          !.event = NoEvent] \in TaskSet
       /\ [t EXCEPT !.hand = "none", !.list = {}] \in TaskSet
  /\ [NoTask EXCEPT !.state = "over"] \in TaskSet
BY DEF NoTask, TaskSet

\* The types of the tasks, their lines and the map of participants.
LEMMA TaskTypesKept ==
  ASSUME TypeOK, CallInv, [Next]_vars
  PROVE  TaskTypes'
<1>0. TaskTypes /\ RoomTypes /\ \A r \in Rooms : task[r] \in TaskSet
        /\ line[r] \in Seq(Events) /\ inside[r] \subseteq People /\ missed[r] \subseteq People
  BY TypeParts DEF TaskTypes, RoomTypes
<1>1. CASE KeyStep \/ AskStep
  BY <1>0, <1>1 DEF KeyStep, AskStep, taskVars, TaskTypes
<1>2. call.step \in Joining => call.room \in Rooms
  BY <1>0, RoomFacts DEF CallInv, RoomTypes
<1>3. CASE ConnectRoom \/ Publish \/ Disconnect \/ ForgetKey
  BY <1>0, <1>3 DEF ConnectRoom, Publish, Disconnect, ForgetKey, taskVars, TaskTypes
<1>4. CASE Spawn
  <2>1. task' = [task EXCEPT ![call.room] = [task[call.room] EXCEPT !.state = "running"]]
    BY <1>4 DEF Spawn
  <2>2. call.room \in Rooms
    BY <1>2, <1>4 DEF Spawn, Joining
  <2>3. task' \in [Rooms -> TaskSet]
    BY <1>0, <2>1, <2>2, TaskFacts DEF TaskTypes
  <2> QED
    BY <1>0, <1>4, <2>2, <2>3 DEF Spawn, TaskTypes
<1>5. CASE Clear
  <2>1. call.room \in Rooms
    BY <1>2, <1>5 DEF Clear, Joining
  <2> QED
    BY <1>0, <1>5, <2>1 DEF Clear, TaskTypes
<1>6. CASE Replace
  <2>1. \A k \in Rooms : [task[k] EXCEPT !.state = "aborted"] \in TaskSet
    BY <1>0, TaskFacts
  <2>2. task' \in [Rooms -> TaskSet]
    BY <1>0, <1>6, <2>1 DEF Replace
  <2> QED
    BY <1>0, <1>6, <2>2 DEF Replace, TaskTypes
<1>7. CASE Leave
  <2>1. call.room \in Rooms
    BY <1>0, <1>7, RoomFacts DEF Leave, CallInv, RoomTypes
  <2>2. PICK s \in {"none", "running", "aborted",
          "over"} : task' = [task EXCEPT ![call.room] = [task[call.room] EXCEPT !.state = s]]
    BY <1>0, <1>7, <2>1 DEF Leave, TaskSet
  <2>3. [task[call.room] EXCEPT !.state = s] \in TaskSet
    BY <1>0, <2>1, TaskFacts
  <2>4. task' \in [Rooms -> TaskSet]
    BY <1>0, <2>2, <2>3 DEF TaskTypes
  <2> QED
    BY <1>0, <1>7, <2>4 DEF Leave, TaskTypes
<1>8. CASE Wipe
  BY <1>0, <1>8 DEF Wipe, TaskTypes
<1>9. ASSUME NEW r \in Rooms, Receive(r) PROVE TaskTypes'
  <2>1. Head(line[r]) \in Events /\ Tail(line[r]) \in Seq(Events)
    BY <1>0, <1>9 DEF Receive
  <2>2. [task[r] EXCEPT !.hand = "event", !.event = Head(line[r])] \in TaskSet
    BY <1>0, <2>1, TaskFacts
  <2>3. task' = [task EXCEPT ![r] = [task[r] EXCEPT !.hand = "event", !.event = Head(line[r])]]
    BY <1>9 DEF Receive
  <2> QED
    BY <1>0, <1>9, <2>1, <2>2, <2>3 DEF Receive, TaskTypes
<1>10. ASSUME NEW r \in Rooms, Update(r) PROVE TaskTypes'
  <2>1. participants' \subseteq People
    <3>1. task[r].event \in Events \union {NoEvent}
      BY <1>0 DEF TaskSet
    <3>2. task[r].event.who \in People \/ task[r].event.entered = FALSE
      BY <3>1 DEF Events, NoEvent
    <3>3. participants \subseteq People
      BY <1>0 DEF TaskTypes
    <3> QED
      BY <1>10, <3>2, <3>3 DEF Update
  <2>2. [task[r] EXCEPT !.hand = "list", !.list = participants', !.event = NoEvent] \in TaskSet
    BY <1>0, <2>1, TaskFacts
  <2>3. task' = [task EXCEPT ![r] = [task[r] EXCEPT !.hand = "list", !.list = participants',
          !.event = NoEvent]]
    BY <1>10 DEF Update
  <2> QED
    BY <1>0, <1>10, <2>1, <2>2, <2>3 DEF Update, TaskTypes
<1>11. ASSUME NEW r \in Rooms, Send(r) PROVE TaskTypes'
  <2>1. [task[r] EXCEPT !.hand = "none", !.list = {}] \in TaskSet
    BY <1>0, TaskFacts
  <2>2. task' = [task EXCEPT ![r] = [task[r] EXCEPT !.hand = "none", !.list = {}]]
    BY <1>11 DEF Send
  <2> QED
    BY <1>0, <1>11, <2>1, <2>2 DEF Send, TaskTypes
<1>12. ASSUME NEW r \in Rooms, Stop(r) PROVE TaskTypes'
  <2>1. task' \in [Rooms -> TaskSet]
    BY <1>0, <1>12, TaskFacts DEF Stop, TaskTypes
  <2>2. line' \in [Rooms -> Seq(Events)]
    BY <1>0, <1>12 DEF Stop, TaskTypes
  <2>3. missed' \in [Rooms -> SUBSET People] /\ participants' = participants /\ mixed' = mixed
    BY <1>0, <1>12 DEF Stop, TaskTypes
  <2> QED
    BY <1>0, <2>1, <2>2, <2>3 DEF TaskTypes
<1>13. ASSUME NEW r \in Rooms, NEW p \in People, Move(r, p) PROVE TaskTypes'
  <2>1. [who |-> p, entered |-> p \notin inside[r]] \in Events
    BY DEF Events
  <2>2. line'[r] \in Seq(Events) /\ line' = [line EXCEPT ![r] = line'[r]]
    BY <1>0, <1>13, <2>1 DEF Move, TaskTypes
  <2>3. [task[r] EXCEPT !.state = "over"] \in TaskSet
    BY <1>0, TaskFacts
  <2>4. task' = task \/ task' = [task EXCEPT ![r] = [task[r] EXCEPT !.state = "over"]]
    BY <1>13 DEF Move
  <2>5. task' \in [Rooms -> TaskSet]
    BY <1>0, <2>3, <2>4 DEF TaskTypes
  <2>6. line' \in [Rooms -> Seq(Events)]
    BY <1>0, <2>2 DEF TaskTypes
  <2>7. participants' = participants /\ mixed' = mixed
          /\ missed' = [missed EXCEPT ![r] = missed[r] \ {p}]
    BY <1>13 DEF Move
  <2> QED
    BY <1>0, <2>5, <2>6, <2>7 DEF TaskTypes
<1> QED
  BY <1>1, <1>3, <1>4, <1>5, <1>6, <1>7, <1>8, <1>9, <1>10, <1>11, <1>12, <1>13, KindsOfSteps
     DEF RoomStep

(* A task that is behind by more than the ring is stopped, so no line is longer. *)
LEMMA LineInvKept ==
  ASSUME TypeOK, [Next]_vars
  PROVE  LineInv'
<1>0. LineInv /\ (\A r \in Rooms : line[r] \in Seq(Events)) /\ line \in [Rooms -> Seq(Events)]
        /\ Ring \in Nat
  BY TypeParts, RoomFacts DEF TaskTypes
<1>1. CASE line' = line
  BY <1>0, <1>1 DEF LineInv
<1>2. ASSUME NEW r \in Rooms, NEW s \in Seq(Events), line' = [line EXCEPT ![r] = s],
               Len(s) <= Ring PROVE LineInv'
  BY <1>0, <1>2 DEF LineInv
<1>9. <<>> \in Seq(Events) /\ Len(<<>>) <= Ring
  BY <1>0
<1>3. ASSUME NEW r \in Rooms, Receive(r) PROVE LineInv'
  <2>1. Tail(line[r]) \in Seq(Events) /\ Len(Tail(line[r])) <= Ring
          /\ line' = [line EXCEPT ![r] = Tail(line[r])]
    BY <1>0, <1>3 DEF Receive, LineInv
  <2> QED
    BY <1>2, <2>1
<1>4. ASSUME NEW r \in Rooms, Stop(r) PROVE LineInv'
  <2>1. line' = [line EXCEPT ![r] = <<>>]
    BY <1>4 DEF Stop
  <2> QED
    BY <1>9, <1>2, <2>1
<1>5. ASSUME NEW r \in Rooms, NEW p \in People, Move(r, p) PROVE LineInv'
  <2> DEFINE e == [who |-> p, entered |-> p \notin inside[r]]
  <2>1. e \in Events
    BY DEF Events
  <2>2. CASE Len(line[r]) = Ring
    <3>1. line' = [line EXCEPT ![r] = <<>>]
      BY <1>5, <2>2 DEF Move
    <3> QED
      BY <1>9, <1>2, <3>1
  <2>3. CASE Len(line[r]) # Ring
    <3>1. Append(line[r], e) \in Seq(Events) /\ Len(Append(line[r], e)) <= Ring
      BY <1>0, <2>1, <2>3 DEF LineInv
    <3>2. line' = [line EXCEPT ![r] = Append(line[r], e)] \/ line' = [line EXCEPT ![r] = <<>>]
      BY <1>5 DEF Move
    <3> QED
      BY <1>9, <1>2, <3>1, <3>2
  <2> QED
    BY <2>2, <2>3
<1>6. CASE KeyStep \/ AskStep
  BY <1>1, <1>6 DEF KeyStep, AskStep, taskVars
<1>7. CASE ConnectRoom \/ Publish \/ Spawn \/ Clear \/ Replace \/ Disconnect \/ Leave
        \/ ForgetKey \/ Wipe
  BY <1>1, <1>7 DEF ConnectRoom, Publish, Spawn, Clear, Replace, Disconnect, Leave, ForgetKey,
     Wipe, taskVars
<1>8. ASSUME NEW r \in Rooms, Update(r) \/ Send(r) PROVE LineInv'
  BY <1>1, <1>8 DEF Update, Send
<1> QED
  BY <1>3, <1>4, <1>5, <1>6, <1>7, <1>8, KindsOfSteps DEF RoomStep

\* The type of what is shown.
LEMMA ShownTypesKept ==
  ASSUME TypeOK, CallInv, MadeInv, [Next]_vars
  PROVE  ShownTypes'
<1>0. ShownTypes /\ RoomTypes /\ TaskTypes
  BY TypeParts
<1>1. CASE shown' = shown
  BY <1>0, <1>1 DEF ShownTypes
<1>2. CASE KeyStep \/ AskStep \/ ConnectRoom \/ Publish \/ Spawn \/ Disconnect \/ Leave
        \/ ForgetKey
  BY <1>1, <1>2 DEF KeyStep, AskStep, ConnectRoom, Publish, Spawn, Disconnect, Leave, ForgetKey
<1>3. CASE Clear
  BY <1>0, <1>3 DEF Clear, ShownTypes
<1>4. CASE Replace
  <2>1. room[call.room].chan \in Channels \union {Nobody}
    <3>1. call.room \in Rooms
      BY <1>0, <1>4, RoomFacts DEF Replace, CallInv, Joining, RoomTypes
    <3> QED
      BY <1>0, <3>1 DEF RoomTypes, RoomSet
  <2> QED
    BY <1>0, <1>4, <2>1 DEF Replace, ShowSession, ShownTypes
<1>5. CASE Wipe
  BY <1>0, <1>5 DEF Wipe, ShowSession, ShownTypes
<1>6. ASSUME NEW r \in Rooms, Send(r) PROVE ShownTypes'
  <2> DEFINE c == room[r].chan
             l == task[r].list
  <2>1. l \subseteq People
    BY <1>0 DEF TaskTypes, TaskSet
  <2>2. \E b \in BOOLEAN : shown' = [shown EXCEPT !.people = [shown.people EXCEPT ![c] = l],
          !.told = b]
    BY <1>0, <1>6 DEF Send, ShowPeople, ShownTypes
  <2>3. [shown.people EXCEPT ![c] = l] \in [Channels -> SUBSET People]
    BY <1>0, <2>1 DEF ShownTypes
  <2> HIDE DEF c, l
  <2> QED
    BY <1>0, <2>2, <2>3 DEF ShownTypes
<1>7. ASSUME NEW r \in Rooms, Receive(r) \/ Update(r) \/ Stop(r)
               \/ \E p \in People : Move(r, p) PROVE ShownTypes'
  BY <1>1, <1>7 DEF Receive, Update, Stop, Move
<1> QED
  BY <1>2, <1>3, <1>4, <1>5, <1>6, <1>7, KindsOfSteps DEF RoomStep

\* What a step of a command does to the command.
LEMMA CallInvKept ==
  ASSUME TypeOK, CallInv, MadeInv, [Next]_vars
  PROVE  CallInv'
<1>0. KeyTypes /\ RoomTypes /\ TaskTypes /\ call.step \in Asking \union Joining \union Leaving
  BY TypeParts DEF RoomTypes, Calls, Asking, Joining, Leaving
<1> USE DEF CallInv, Joining, Leaving, Idle, Goto
<1>1. CASE UNCHANGED <<call, made, slot, task>>
  BY <1>1
<1>2. CASE UNCHANGED vars \/ Tick \/ EmptyCache \/ \E c \in Channels : Commit(c)
  BY <1>1, <1>2 DEF vars, Tick, EmptyCache, Commit, roomVars, taskVars
<1>3. CASE Fail
  BY <1>3 DEF Fail
<1>4. ASSUME NEW c \in Channels, Connect(c) PROVE CallInv'
  BY <1>4 DEF Connect
<1>5. CASE LookUpKey
  <2>1. cache[call.chan].epoch # Never => cache[call.chan].epoch \in Epochs
    BY <1>0, <1>5 DEF LookUpKey, KeyTypes
  <2> QED
    BY <1>0, <1>5, <2>1 DEF LookUpKey, RoomTypes, Calls
<1>6. CASE ExportKey
  BY <1>0, <1>6 DEF ExportKey, KeyTypes, RoomTypes, Calls
<1>7. CASE CacheKey
  BY <1>0, <1>7 DEF CacheKey, RoomTypes, Calls
<1>8. CASE ConnectRoom
  <2>1. made \in Nat /\ slot \in 0..made /\ made + 1 \in Rooms
    BY <1>0, <1>8, RoomFacts DEF ConnectRoom, RoomTypes
  <2>2. task'[made + 1].state = "none"
    BY <2>1, <1>8 DEF ConnectRoom, MadeInv, taskVars
  <2>3. call'.step = "publish" /\ call'.room = made + 1 /\ made' = made + 1 /\ slot' = slot
    BY <1>8 DEF ConnectRoom
  <2> QED
    BY <2>1, <2>2, <2>3
<1>9. CASE Publish
  BY <1>0, <1>9 DEF Publish, taskVars, RoomTypes, Calls
<1>10. CASE Spawn \/ Clear
  BY <1>0, <1>10 DEF Spawn, Clear, roomVars, RoomTypes, Calls
<1>11. CASE Replace \/ Wipe
  BY <1>11 DEF Replace, Wipe
<1>12. CASE Disconnect
  <2>1. slot' = 0 /\ made' = made /\ call'.room = slot
          /\ call'.step = IF slot = 0 THEN "wipe" ELSE "leave"
    BY <1>12 DEF Disconnect, roomVars
  <2>2. slot # 0 => slot \in 1..made
    BY <1>0 DEF RoomTypes
  <2> QED
    BY <2>1, <2>2
<1>13. CASE Leave \/ ForgetKey
  BY <1>0, <1>13 DEF Leave, ForgetKey, roomVars, RoomTypes, Calls
<1>14. ASSUME NEW r \in Rooms, TaskStep(r)
       PROVE  CallInv'
  <2>1. UNCHANGED <<call, made, slot>>
    BY <1>14 DEF Receive, Update, Send, Stop, Move, roomVars
  <2>2. CASE task[r].state = "none"
    <3>1. task' = task
      BY <1>0, <1>14, <2>2 DEF Receive, Update, Send, Stop, Move, Listening, MadeInv
    <3> QED
      BY <1>1, <2>1, <3>1
  <2>3. CASE task[r].state # "none"
    <3>1. \A k \in Rooms : k # r => task'[k] = task[k]
      BY <1>0, <1>14 DEF Receive, Update, Send, Stop, Move, TaskTypes
    <3>2. call.step \in {"publish", "spawn"} => call.room # r /\ call.room \in Rooms
      BY <1>0, <2>3, RoomFacts DEF RoomTypes
    <3> QED
      BY <2>1, <3>1, <3>2
  <2> QED
    BY <2>2, <2>3
<1> QED
  BY <1>2, <1>3, <1>4, <1>5, <1>6, <1>7, <1>8, <1>9, <1>10, <1>11, <1>12, <1>13, <1>14
     DEF Next, CallStep

(* What the tasks do to their own state and hand: the states only go on. *)
LEMMA TaskEffect ==
  ASSUME TypeOK, NEW r \in Rooms,
         TaskStep(r)
  PROVE  /\ UNCHANGED <<keyVars, call, made, room, slot>>
         /\ \A k \in Rooms : k # r => task'[k] = task[k] /\ line'[k] = line[k]
            /\ inside'[k] = inside[k] /\ missed'[k] = missed[k]
         /\ task'[r].state \in {task[r].state, "over"}
         /\ task'[r].state = "none" => task[r].state = "none"
<1>0. TaskTypes /\ RoomTypes /\ task[r] \in TaskSet
  BY TypeParts DEF TaskTypes
<1>1. CASE Receive(r) \/ Update(r) \/ Send(r)
  BY <1>0, <1>1 DEF Receive, Update, Send, roomVars, TaskTypes, TaskSet
<1>2. CASE Stop(r)
  BY <1>0, <1>2 DEF Stop, TaskTypes, RoomTypes, NoTask
<1>3. ASSUME NEW p \in People, Move(r, p)
      PROVE  /\ UNCHANGED <<keyVars, call, made, room, slot>>
             /\ \A k \in Rooms : k # r => task'[k] = task[k] /\ line'[k] = line[k]
                /\ inside'[k] = inside[k] /\ missed'[k] = missed[k]
             /\ task'[r].state \in {task[r].state, "over"}
             /\ task'[r].state = "none" => task[r].state = "none"
  <2>1. task' = task \/ task' = [task EXCEPT ![r] = [task[r] EXCEPT !.state = "over"]]
    BY <1>3 DEF Move
  <2>2. task'[r].state \in {task[r].state, "over"} /\ (task'[r].state = "none"
          => task[r].state = "none")
        /\ \A k \in Rooms : k # r => task'[k] = task[k]
    BY <1>0, <2>1 DEF TaskTypes, TaskSet
  <2> QED
    BY <1>0, <1>3, <2>2 DEF Move, TaskTypes, RoomTypes
<1> QED
  BY <1>1, <1>2, <1>3

\* Rooms are made one after the other and keep their channel.
LEMMA MadeInvKept ==
  ASSUME TypeOK, CallInv, MadeInv, [Next]_vars
  PROVE  MadeInv'
<1>0. RoomTypes /\ TaskTypes /\ made \in Nat
  BY TypeParts, RoomFacts DEF RoomTypes
<1> USE DEF MadeInv
<1>1. CASE KeyStep \/ AskStep
  BY <1>0, <1>1 DEF KeyStep, AskStep, roomVars, taskVars
<1>2. CASE Disconnect \/ ForgetKey \/ Clear \/ Wipe
  BY <1>0, <1>2 DEF Disconnect, ForgetKey, Clear, Wipe, roomVars, taskVars
<1>3. CASE ConnectRoom
  <2>1. call.chan \in Channels
    BY <1>3 DEF ConnectRoom, CallInv
  <2>2. made' = made + 1
          /\ room' = [room EXCEPT ![made + 1] = [chan |-> call.chan, joined |-> TRUE,
             leaked |-> FALSE]]
        /\ task' = task /\ line' = line
    BY <1>3 DEF ConnectRoom, taskVars
  <2> QED
    BY <1>0, <2>1, <2>2, RoomFacts DEF RoomTypes
<1>4. \A r \in Rooms : r <= made => r \in 1..made
  BY <1>0 DEF Rooms
<1>5. CASE Publish
  <2>1. UNCHANGED <<made, line, task>> /\ \A r \in Rooms : room'[r].chan = room[r].chan
          /\ room'[r].joined = room[r].joined
    BY <1>0, <1>5 DEF Publish, taskVars, RoomTypes, RoomSet
  <2> QED
    BY <2>1
<1>6. CASE Spawn
  <2>1. call.room \in Rooms /\ call.room <= made
    BY <1>0, <1>6, RoomFacts DEF Spawn, CallInv, Joining, RoomTypes
  <2>2. UNCHANGED <<made, line, room>> /\ task'[call.room].state = "running"
          /\ \A r \in Rooms : r # call.room => task'[r] = task[r]
    BY <1>0, <1>6, <2>1 DEF Spawn, roomVars, TaskTypes, TaskSet
  <2> QED
    BY <1>0, <2>1, <2>2, RoomFacts
<1>7. CASE Replace
  <2>1. UNCHANGED <<made, line>> /\ \A r \in Rooms : room'[r].chan = room[r].chan
          /\ room'[r].joined = room[r].joined
    BY <1>0, <1>7 DEF Replace, RoomTypes, RoomSet
  <2>2. \A r \in Rooms : task'[r].hand = task[r].hand
           /\ (task'[r].state = "none" <=> task[r].state = "none")
    BY <1>0, <1>7 DEF Replace, TaskTypes, TaskSet
  <2> QED
    BY <2>1, <2>2
<1>8. CASE Leave
  <2>1. call.room \in Rooms /\ call.room <= made
    BY <1>0, <1>8, RoomFacts DEF Leave, CallInv, RoomTypes
  <2>2. UNCHANGED <<made, line>> /\ \A r \in Rooms : room'[r].chan = room[r].chan
          /\ (r # call.room => room'[r] = room[r])
    BY <1>0, <1>8 DEF Leave, RoomTypes, RoomSet
  <2>3. \A r \in Rooms : task'[r].hand = task[r].hand
           /\ (task'[r].state = "none" <=> task[r].state = "none")
    BY <1>0, <1>8 DEF Leave, TaskTypes, TaskSet
  <2> QED
    BY <1>0, <2>1, <2>2, <2>3, RoomFacts
<1>9. ASSUME NEW r \in Rooms, TaskStep(r)
      PROVE  MadeInv'
  <2>1. CASE task[r].state # "none"
    BY <1>9, <2>1, TaskEffect
  <2>2. CASE task[r].state = "none"
    <3>1. task' = task /\ line'[r] = <<>>
      BY <1>0, <1>9, <2>2 DEF Receive, Update, Send, Stop, Move, Listening, TaskTypes
    <3> QED
      BY <1>9, <3>1, TaskEffect
  <2> QED
    BY <2>1, <2>2
<1> QED
  BY <1>1, <1>2, <1>3, <1>5, <1>6, <1>7, <1>8, <1>9, KindsOfSteps DEF RoomStep

(* Whose task runs, who is in which room and what is shown, at each step. *)
LEMMA SessionInvKept ==
  ASSUME TypeOK, CallInv, MadeInv, SessionInv, [Next]_vars
  PROVE  SessionInv'
<1>0. RoomTypes /\ TaskTypes /\ ShownTypes /\ slot \notin {k \in Nat : k > made} /\ made \in Nat
  BY TypeParts, RoomFacts DEF RoomTypes
<1> USE DEF SessionInv, Joining, Leaving
<1>1. CASE KeyStep \/ AskStep
  BY <1>1 DEF KeyStep, AskStep, Asking, roomVars, taskVars
<1>2. CASE ConnectRoom
  <2>1. call'.step = "publish" /\ call'.room = made + 1 /\ call.step = "room"
          /\ shown' = shown /\ slot' = slot /\ task' = task
    BY <1>2 DEF ConnectRoom, Idle, taskVars
  <2>2. \A r \in Rooms : r # made + 1 => room'[r] = room[r]
    BY <1>0, <1>2 DEF ConnectRoom, RoomTypes
  <2>3. slot \in Rooms \/ slot = 0
    BY <1>0, SlotFacts
  <2>4. slot # made + 1
    BY <1>0, SlotFacts
  <2> QED
    BY <2>1, <2>2, <2>3, <2>4
<1>3. CASE Publish
  <2>1. call.step = "publish" /\ slot' = slot /\ task' = task /\ shown' = shown
          /\ slot # call.room /\ call.room \in Rooms
    BY <1>0, <1>3, RoomFacts DEF Publish, taskVars, CallInv, RoomTypes
  <2>2. /\ \A r \in Rooms : r # call.room => room'[r] = room[r]
        /\ room'[call.room].joined = room[call.room].joined
        /\ (call'.step = "spawn" /\ call'.room = call.room) \/ (call'.step = "idle"
           /\ room'[call.room].leaked)
    BY <1>0, <1>3, <2>1 DEF Publish, Goto, Idle, RoomTypes, RoomSet, Calls
  <2>3. slot \in Rooms \/ slot = 0
    BY <1>0, SlotFacts
  <2> QED
    BY <2>1, <2>2, <2>3
<1>4. CASE Spawn
  <2>1. call.step = "spawn" /\ call'.step = "clear" /\ call'.room = call.room
          /\ UNCHANGED <<slot, room, shown>>
    BY <1>0, <1>4 DEF Spawn, Goto, roomVars, RoomTypes, Calls
  <2>2. \A r \in Rooms : r # call.room => task'[r] = task[r]
    BY <1>0, <1>4 DEF Spawn, TaskTypes
  <2> QED
    BY <2>1, <2>2
<1>5. CASE Clear
  <2>1. /\ call.step = "clear" /\ call'.step = "replace" /\ call'.room = call.room
           /\ UNCHANGED <<slot, room, task>>
        /\ shown'.session = shown.session
    BY <1>0, <1>5 DEF Clear, Goto, roomVars, RoomTypes, Calls, ShownTypes
  <2> QED
    BY <2>1
<1>6. CASE Replace
  <2>1. call.step = "replace" /\ call.room \in Rooms /\ slot # call.room
          /\ slot \in Rooms \union {0}
    BY <1>0, <1>6, RoomFacts DEF Replace, CallInv, RoomTypes
  <2>2. call'.step = "idle" /\ slot' = call.room /\ shown'.session = room[call.room].chan
    BY <1>0, <1>6 DEF Replace, Idle, ShowSession, ShownTypes
  <2>3. \A r \in Rooms : task'[r].state = "running" => r = call.room
    BY <1>0, <1>6, <2>1 DEF Replace, TaskTypes, TaskSet
  <2>4. ASSUME NEW r \in Rooms
        PROVE  room'[r].chan = room[r].chan /\ (room'[r].joined => r = call.room
                 \/ room'[r].leaked)
    <3>1. room[r] \in RoomSet /\ (r # slot => room'[r] = room[r])
      BY <1>0, <1>6 DEF Replace, RoomTypes
    <3>2. r = slot => room'[r] = [room[r] EXCEPT !.leaked = TRUE]
      BY <1>0, <1>6, RoomFacts DEF Replace, RoomTypes
    <3>3. room[r].joined => r = slot \/ room[r].leaked \/ r = call.room
      BY <2>1
    <3> QED
      BY <3>1, <3>2, <3>3 DEF RoomSet
  <2> QED
    BY <2>1, <2>2, <2>3, <2>4, RoomFacts
<1>7. CASE Disconnect
  <2>1. call.step = "idle" /\ call'.step = (IF slot = 0 THEN "wipe" ELSE "leave")
          /\ call'.room = slot
        /\ slot' = 0 /\ UNCHANGED <<room, task, shown>>
    BY <1>7 DEF Disconnect, Idle, roomVars, taskVars
  <2> QED
    BY <2>1, RoomFacts
<1>8. CASE Leave
  <2>1. call.step = "leave" /\ call'.step = "forget" /\ slot' = slot /\ slot = 0
          /\ call.room \in Rooms
    BY <1>0, <1>8, RoomFacts DEF Leave, Goto, CallInv, RoomTypes, Calls
  <2>2. \A r \in Rooms : task'[r].state = "running" => task[r].state = "running" /\ r # call.room
    BY <1>0, <1>8, <2>1 DEF Leave, TaskTypes, TaskSet
  <2>3. \A r \in Rooms : (r # call.room => room'[r] = room[r])
    BY <1>0, <1>8 DEF Leave, RoomTypes, RoomSet
  <2>4. ~ room'[call.room].joined \/ room'[call.room].leaked
    BY <1>0, <1>8, <2>1 DEF Leave, RoomTypes, RoomSet
  <2> QED
    BY <2>1, <2>2, <2>3, <2>4
<1>9. CASE ForgetKey
  BY <1>0, <1>9 DEF ForgetKey, Goto, roomVars, taskVars, RoomTypes, Calls
<1>10. CASE Wipe
  <2>1. call.step = "wipe" /\ call'.step = "idle" /\ slot' = slot /\ slot = 0
          /\ UNCHANGED <<room, task>> /\ shown'.session = Nobody
    BY <1>0, <1>10 DEF Wipe, Idle, ShowSession, CallInv, ShownTypes, roomVars
  <2> QED
    BY <2>1
<1>11. ASSUME NEW r \in Rooms, TaskStep(r)
       PROVE  SessionInv'
  <2>1. shown'.session = shown.session
    BY <1>0, <1>11 DEF Receive, Update, Send, Stop, Move, ShowPeople, ShownTypes
  <2> QED
    BY <1>11, <2>1, TaskEffect
<1> QED
  BY <1>1, <1>2, <1>3, <1>4, <1>5, <1>6, <1>7, <1>8, <1>9, <1>10, <1>11, KindsOfSteps DEF RoomStep

(* No cached key is too old. *)
LEMMA KeyInvKept ==
  ASSUME TypeOK, CallInv, MadeInv, KeyInv, [Next]_vars
  PROVE  KeyInv'
<1>0. KeyTypes /\ RoomTypes /\ Lifetime \in Nat /\ now \in Nat
      /\ \A c \in Channels : epoch[c] \in Nat /\ floor[c] \in Nat /\ cache[c].epoch \in Int
         /\ cache[c].until \in Nat /\ cache[c].ended \in Int
  BY TypeParts, RoomFacts, BoundAssumption DEF KeyTypes, Epochs, Never
<1> USE DEF KeyInv, Never
<1>1. CASE UNCHANGED <<keyVars, call>>
  BY <1>1 DEF keyVars
<1>2. CASE UNCHANGED vars
  BY <1>1, <1>2 DEF vars
<1>3. CASE Tick
  BY <1>0, <1>3 DEF Tick
<1>4. CASE EmptyCache
  BY <1>0, <1>4 DEF EmptyCache, NoKey
<1>5. ASSUME NEW d \in Channels, Commit(d) PROVE KeyInv'
  <2>1. /\ now' = now /\ floor' = floor /\ call' = call
        /\ \A c \in Channels : epoch'[c] = (IF c = d THEN epoch[c] + 1 ELSE epoch[c])
    BY <1>0, <1>5 DEF Commit, KeyTypes
  <2>2. \A c \in Channels : /\ cache'[c].epoch = cache[c].epoch
           /\ cache'[c].until = cache[c].until
                            /\ cache'[c].ended \in {cache[c].ended, now}
    BY <1>0, <1>5 DEF Commit, KeyTypes
  <2> QED
    BY <1>0, <2>1, <2>2
<1>6. CASE Fail
  BY <1>6 DEF Fail, Idle, keyVars
<1>13. ASSUME NEW c \in Channels, Connect(c) PROVE KeyInv'
  <2>1. UNCHANGED keyVars /\ call'.step = "lookup"
    BY <1>13 DEF Connect, Idle
  <2> QED
    BY <2>1 DEF keyVars
<1>7. CASE LookUpKey
  <2>1. UNCHANGED <<now, epoch, floor>> /\ call.chan \in Channels /\ call'.chan = call.chan
        /\ \A c \in Channels : cache'[c] = cache[c] \/ cache'[c].epoch = Never
    BY <1>0, <1>7 DEF LookUpKey, CallInv, KeyTypes, NoKey, RoomTypes, Calls
  <2>2. call'.step = "room" => call'.key = cache[call.chan].epoch
          /\ cache[call.chan].epoch # Never
    BY <1>0, <1>7 DEF LookUpKey, RoomTypes, Calls
  <2>3. call'.step # "cache"
    BY <1>0, <1>7 DEF LookUpKey, RoomTypes, Calls
  <2> QED
    BY <1>0, <2>1, <2>2, <2>3
<1>8. CASE ExportKey
  BY <1>0, <1>8 DEF ExportKey, CallInv, keyVars, RoomTypes, Calls
<1>9. CASE CacheKey
  <2>1. UNCHANGED <<now, epoch, floor>> /\ call.step = "cache" /\ call'.key = call.key
          /\ call'.chan = call.chan /\ call.chan \in Channels
    BY <1>0, <1>9 DEF CacheKey, Goto, CallInv, RoomTypes, Calls
  <2>2. \A c \in Channels : cache'[c] = IF c = call.chan THEN [epoch |-> call.key,
           until |-> now + Lifetime, ended |-> Never] ELSE cache[c]
    BY <1>0, <1>9 DEF CacheKey, KeyTypes
  <2> QED
    BY <1>0, <2>1, <2>2
<1>10. CASE ForgetKey
  <2>1. UNCHANGED <<now, epoch>> /\ call'.step = "wipe"
    BY <1>0, <1>10 DEF ForgetKey, Goto, RoomTypes, Calls
  <2>4. call.room \in Rooms /\ call.room <= made
    BY <1>0, <1>10, RoomFacts DEF ForgetKey, CallInv, RoomTypes
  <2>5. room[call.room].chan \in Channels
    BY <2>4 DEF MadeInv
  <2>2. PICK d \in Channels : d = room[call.room].chan
    BY <2>5
  <2>3. \A c \in Channels : (c = d => cache'[c] = NoKey /\ floor'[c] = epoch[c]) /\ (c # d
           => cache'[c] = cache[c] /\ floor'[c] = floor[c])
    BY <1>0, <1>10, <2>2 DEF ForgetKey, KeyTypes
  <2> QED
    BY <1>0, <2>1, <2>3 DEF NoKey
<1>11. CASE ConnectRoom \/ Publish \/ Spawn \/ Clear \/ Replace \/ Disconnect \/ Leave \/ Wipe
  <2> USE <1>0 DEF RoomTypes, Calls, Goto, Idle
  <2>2. UNCHANGED keyVars
    BY <1>11 DEF ConnectRoom, Publish, Spawn, Clear, Replace, Disconnect, Leave, Wipe
  <2>6. call'.step \notin {"cache", "room"}
    <3>1. Replace \/ Wipe => call'.step = "idle"
      BY DEF Replace, Wipe
    <3>5. ConnectRoom => call'.step = "publish"
      BY DEF ConnectRoom
    <3>4. Disconnect => call'.step \in {"wipe", "leave"}
      BY DEF Disconnect
    <3>2. Publish => call'.step \notin {"cache", "room"}
      BY DEF Publish
    <3>3. Spawn \/ Clear \/ Leave => call'.step \notin {"cache", "room"}
      BY DEF Spawn, Clear, Leave
    <3> QED
      BY <1>11, <3>1, <3>2, <3>3, <3>4, <3>5
  <2> QED
    BY <2>2, <2>6 DEF keyVars
<1>12. ASSUME NEW r \in Rooms, TaskStep(r)
       PROVE  KeyInv'
  BY <1>1, <1>12, TaskEffect
<1> QED
  BY <1>2, <1>3, <1>4, <1>5, <1>6, <1>7, <1>8, <1>9, <1>10, <1>11, <1>12, <1>13 DEF Next, CallStep

(* A task that another step leaves alone still hears the truth. *)
LEMMA LastKept ==
  ASSUME TypeOK, NEW r \in Rooms, LastIsTrue(r),
         line'[r] = line[r], inside'[r] = inside[r],
         task'[r].hand = "event" => task[r].hand = "event" /\ task'[r].event = task[r].event
  PROVE  LastIsTrue(r)'
BY DEF LastIsTrue, LastInLine, SaysTrue

(* The event a move appends is true, and it is the last of its person. *)
LEMMA LastAfterMove ==
  ASSUME TypeOK, NEW r \in Rooms, NEW p \in People, LastIsTrue(r), Move(r, p), Listening(r)'
  PROVE  LastIsTrue(r)'
<1> DEFINE e == [who |-> p, entered |-> p \notin inside[r]]
<1>0. TaskTypes /\ RoomTypes /\ line[r] \in Seq(Events) /\ task[r] \in TaskSet
  BY TypeParts DEF TaskTypes
<1>1. Len(line[r]) # Ring /\ Listening(r) /\ task' = task
  <2>1. Listening(r)
    BY <1>0 DEF Move, Listening
  <2>2. Len(line[r]) # Ring
    BY <1>0, <2>1 DEF Move, Listening, TaskTypes, TaskSet
  <2> QED
    BY <2>1, <2>2 DEF Move
<1>2. line'[r] = Append(line[r], e)
  BY <1>0, <1>1 DEF Move, TaskTypes
<1>3. inside'[r] = IF e.entered THEN inside[r] \union {p} ELSE inside[r] \ {p}
  BY <1>0 DEF Move, RoomTypes
<1>4. /\ DOMAIN line'[r] = 1..(Len(line[r]) + 1) /\ DOMAIN line[r] = 1..Len(line[r])
         /\ Len(line[r]) \in Nat
      /\ \A i \in 1..Len(line[r]) : line'[r][i] = line[r][i]
      /\ line'[r][Len(line[r]) + 1] = e
  <2>1. e \in Events
    BY DEF Events
  <2> HIDE DEF e
  <2> QED
    BY <1>0, <1>2, <2>1
<1>5. ASSUME NEW i \in DOMAIN line'[r], LastInLine(r, i)'
      PROVE  SaysTrue(line[r][i], r)'
  <2>1. CASE i = Len(line[r]) + 1
    BY <1>3, <1>4, <2>1 DEF SaysTrue
  <2>2. CASE i # Len(line[r]) + 1
    <3>1. i \in DOMAIN line[r] /\ line'[r][i] = line[r][i]
      BY <1>4, <2>2
    <3>2. Len(line[r]) + 1 \in DOMAIN line'[r] /\ Len(line[r]) + 1 > i
      BY <1>4, <3>1
    <3>3. line[r][i].who # p
      BY <1>4, <1>5, <3>1, <3>2 DEF LastInLine
    <3>4. LastInLine(r, i)
      BY <1>4, <1>5, <3>1 DEF LastInLine
    <3>5. SaysTrue(line[r][i], r)
      BY <3>1, <3>4 DEF LastIsTrue
    <3> QED
      BY <1>3, <3>1, <3>3, <3>5 DEF SaysTrue
  <2> QED
    BY <2>1, <2>2
<1>6. ASSUME task'[r].hand = "event",
               \A j \in DOMAIN line'[r] : line'[r][j].who # task'[r].event.who
      PROVE  SaysTrue(task[r].event, r)'
  <2>1. task[r].event.who # p
    BY <1>1, <1>4, <1>6
  <2>2. SaysTrue(task[r].event, r)
    BY <1>1, <1>4, <1>6 DEF LastIsTrue
  <2> QED
    BY <1>1, <1>3, <2>1, <2>2 DEF SaysTrue
<1> HIDE DEF e
<1> QED
  BY <1>5, <1>6 DEF LastIsTrue

(* The event a task takes in hand is the first of its line. *)
LEMMA LastAfterReceive ==
  ASSUME TypeOK, NEW r \in Rooms, LastIsTrue(r), Receive(r)
  PROVE  LastIsTrue(r)'
<1>0. TaskTypes /\ line[r] \in Seq(Events) /\ task[r] \in TaskSet /\ line[r] # <<>>
  BY TypeParts DEF TaskTypes, Receive
<1>1. line'[r] = Tail(line[r]) /\ inside' = inside
  BY <1>0 DEF Receive, TaskTypes, roomVars
<1>2. task'[r].event = line[r][1]
  BY <1>0 DEF Receive, TaskTypes, TaskSet
<1>3. /\ DOMAIN line[r] = 1..Len(line[r]) /\ Len(line[r]) \in Nat /\ Len(line[r]) >= 1
      /\ DOMAIN line'[r] = 1..(Len(line[r]) - 1)
      /\ \A i \in 1..(Len(line[r]) - 1) : line'[r][i] = line[r][i + 1]
  BY <1>0, <1>1
<1>4. ASSUME NEW i \in DOMAIN line'[r], LastInLine(r, i)'
      PROVE  SaysTrue(line[r][i], r)'
  <2>1. i + 1 \in DOMAIN line[r] /\ line'[r][i] = line[r][i + 1]
    BY <1>3
  <2>2. LastInLine(r, i + 1)
    <3> SUFFICES ASSUME NEW j \in DOMAIN line[r], j > i + 1
                          PROVE line[r][j].who # line[r][i + 1].who
      BY DEF LastInLine
    <3>1. j - 1 \in DOMAIN line'[r] /\ j - 1 > i /\ line'[r][j - 1] = line[r][j]
      BY <1>3
    <3> QED
      BY <1>4, <2>1, <3>1 DEF LastInLine
  <2> QED
    BY <1>1, <2>1, <2>2 DEF LastIsTrue, SaysTrue
<1>5. ASSUME \A j \in DOMAIN line'[r] : line'[r][j].who # task'[r].event.who
      PROVE  SaysTrue(task[r].event, r)'
  <2>1. LastInLine(r, 1)
    <3> SUFFICES ASSUME NEW j \in DOMAIN line[r], j > 1 PROVE line[r][j].who # line[r][1].who
      BY DEF LastInLine
    <3>1. j - 1 \in DOMAIN line'[r] /\ line'[r][j - 1] = line[r][j]
      BY <1>3
    <3> QED
      BY <1>2, <1>5, <3>1
  <2>2. 1 \in DOMAIN line[r]
    BY <1>3
  <2> QED
    BY <1>1, <1>2, <2>1, <2>2 DEF LastIsTrue, SaysTrue
<1> QED
  BY <1>4, <1>5 DEF LastIsTrue

(* What a step of a command leaves alone of a room whose task listens. *)
LEMMA LastInvKept ==
  ASSUME TypeOK, CallInv, MadeInv, LastInv, [Next]_vars
  PROVE  LastInv'
<1>0. TaskTypes /\ RoomTypes
  BY TypeParts
<1>1. CASE KeyStep \/ AskStep
  BY <1>1 DEF KeyStep, AskStep, roomVars, taskVars, LastInv, LastIsTrue, LastInLine, SaysTrue,
     Listening
<1> SUFFICES ASSUME NEW r \in Rooms, Listening(r)', RoomStep PROVE LastIsTrue(r)'
  BY <1>1, KindsOfSteps DEF LastInv
<1>2. Listening(r) => LastIsTrue(r)
  BY DEF LastInv
<1>3. CASE ConnectRoom \/ Clear \/ Disconnect \/ ForgetKey \/ Wipe
  <2>1. UNCHANGED <<inside, line, task>>
    BY <1>3 DEF ConnectRoom, Clear, Disconnect, ForgetKey, Wipe, roomVars, taskVars
  <2> QED
    BY <1>2, <2>1, LastKept DEF Listening
<1>4. CASE Publish
  <2>1. task[call.room].state = "none" /\ UNCHANGED <<line, task>>
    BY <1>4 DEF Publish, CallInv, taskVars
  <2>2. r # call.room => inside'[r] = inside[r]
    BY <1>0, <1>4 DEF Publish, RoomTypes
  <2> QED
    BY <1>2, <2>1, <2>2, LastKept DEF Listening
<1>5. CASE Spawn
  <2>1. UNCHANGED <<line, inside>> /\ task[call.room].state = "none"
    BY <1>5 DEF Spawn, CallInv, roomVars
  <2>2. CASE r = call.room
    <3>1. line[r] = <<>> /\ task[r].hand = "none"
      BY <2>1, <2>2 DEF MadeInv
    <3>2. line'[r] = <<>> /\ task'[r].hand = "none"
      BY <1>0, <1>5, <2>1, <3>1 DEF Spawn, TaskTypes, TaskSet
    <3>3. DOMAIN line'[r] = {}
      BY <3>2
    <3> QED
      BY <3>2, <3>3 DEF LastIsTrue
  <2>3. CASE r # call.room
    <3>1. task'[r] = task[r]
      BY <1>0, <1>5, <2>3 DEF Spawn, TaskTypes
    <3> QED
      BY <1>2, <2>1, <3>1, LastKept DEF Listening
  <2> QED
    BY <2>2, <2>3
<1>6. CASE Replace \/ Leave
  <2>1. UNCHANGED <<line, inside>>
    BY <1>6 DEF Replace, Leave
  <2>2. task'[r].hand = task[r].hand /\ task'[r].event = task[r].event /\ (Listening(r)'
          => Listening(r))
    <3>1. CASE Replace
      BY <1>0, <3>1 DEF Replace, TaskTypes, TaskSet, Listening
    <3>2. CASE Leave
      BY <1>0, <3>2 DEF Leave, TaskTypes, TaskSet, Listening
    <3> QED
      BY <1>6, <3>1, <3>2
  <2> QED
    BY <1>2, <2>1, <2>2, LastKept
<1>7. ASSUME NEW k \in Rooms, TaskStep(k)
      PROVE  LastIsTrue(r)'
  <2>1. CASE r # k
    BY <1>2, <1>7, <2>1, TaskEffect, LastKept DEF Listening
  <2>2. CASE r = k
    <3>1. Listening(r)
      BY <1>7, <2>2, TaskEffect DEF Listening
    <3>2. CASE Receive(r)
      BY <1>2, <3>1, <3>2, LastAfterReceive
    <3>3. CASE Update(r) \/ Send(r)
      <4>1. line' = line /\ inside' = inside /\ task'[r].hand # "event"
        BY <1>0, <3>3 DEF Update, Send, roomVars, TaskTypes, TaskSet
      <4> QED
        BY <1>2, <3>1, <4>1, LastKept
    <3>4. ~ Stop(r)
      BY <1>0 DEF Stop, Listening, TaskTypes, NoTask
    <3>5. ASSUME NEW p \in People, Move(r, p) PROVE LastIsTrue(r)'
      BY <1>2, <3>1, <3>5, LastAfterMove
    <3> QED
      BY <1>7, <2>2, <3>2, <3>3, <3>4, <3>5
  <2> QED
    BY <2>1, <2>2
<1> QED
  BY <1>3, <1>4, <1>5, <1>6, <1>7 DEF RoomStep

(* What PeopleInv and ScreenInv say is of the owner's task, and stays when a  *)
(* step leaves the owner and its task alone.                                  *)
LEMMA PeopleKept ==
  ASSUME PeopleInv, Owner' = Owner, mixed' \/ mixed' = mixed, participants' = participants,
         Owner # 0 => /\ task'[Owner].state \in {task[Owner].state, "over", "aborted"}
                      /\ Pending(Owner)' = Pending(Owner)
                      /\ inside'[Owner] = inside[Owner] /\ missed'[Owner] = missed[Owner]
  PROVE  PeopleInv'
BY DEF PeopleInv

\* Whom a task is to hear of depends on its line and its hand only.
LEMMA PendingKept ==
  ASSUME NEW r \in Rooms, line'[r] = line[r], task'[r].hand = task[r].hand,
           task'[r].event = task[r].event
  PROVE  Pending(r)' = Pending(r)
BY DEF Pending

(* The owner's task hears of who moves. *)
LEMMA PeopleAfterMove ==
  ASSUME TypeOK, NEW r \in Rooms, NEW p \in People, Owner = r, PeopleInv, Move(r, p)
  PROVE  PeopleInv'
<1>0. TaskTypes /\ RoomTypes /\ line[r] \in Seq(Events) /\ task[r] \in TaskSet /\ Owner' = r
        /\ r # 0
  BY TypeParts, RoomFacts DEF TaskTypes, Move, Owner
<1>1. SUFFICES ASSUME ~ mixed', task'[r].state = "running" PROVE PeopleInv'
  BY <1>0 DEF PeopleInv
<1>2. task' = task /\ Listening(r) /\ Len(line[r]) # Ring /\ mixed' = mixed
        /\ participants' = participants
  BY <1>0, <1>1 DEF Move, Listening, TaskTypes, TaskSet
<1> DEFINE e == [who |-> p, entered |-> p \notin inside[r]]
<1>3. line'[r] = Append(line[r], e)
  BY <1>0, <1>2 DEF Move, TaskTypes
<1>4. \A q \in People : q # p => (q \in inside'[r] <=> q \in inside[r])
         /\ (q \in missed'[r] <=> q \in missed[r])
  BY <1>0 DEF Move, RoomTypes, TaskTypes
<1>5. Pending(r) \subseteq Pending(r)' /\ p \in Pending(r)'
  <2>1. e \in Events /\ e.who = p
    BY DEF Events
  <2> HIDE DEF e
  <2>2. /\ \A i \in DOMAIN line[r] : i \in DOMAIN line'[r] /\ line'[r][i] = line[r][i]
        /\ Len(line[r]) + 1 \in DOMAIN line'[r] /\ line'[r][Len(line[r]) + 1] = e
    BY <1>0, <1>3, <2>1
  <2> QED
    BY <1>2, <2>1, <2>2 DEF Pending
<1>6. \A q \in People \ Pending(r) :
        /\ q \in participants => q \in inside[r]
        /\ q \in inside[r] => q \in participants \union missed[r]
  BY <1>0, <1>1, <1>2 DEF PeopleInv
<1> HIDE DEF e
<1>7. \A q \in People \ Pending(r)' :
        /\ q \in participants' => q \in inside'[r]
        /\ q \in inside'[r] => q \in participants' \union missed'[r]
  BY <1>2, <1>4, <1>5, <1>6
<1> QED
  BY <1>0, <1>7 DEF PeopleInv

(* The event the owner's task works in is the last of its person or not.     *)
LEMMA PeopleAfterUpdate ==
  ASSUME TypeOK, NEW r \in Rooms, Owner = r, PeopleInv, LastInv, Update(r)
  PROVE  PeopleInv'
<1>0. TaskTypes /\ task[r] \in TaskSet /\ Owner' = r /\ r # 0
  BY TypeParts, RoomFacts DEF TaskTypes, Update, Owner, roomVars
<1> DEFINE event == task[r].event
<1>1. SUFFICES ASSUME ~ mixed', task'[r].state = "running" PROVE PeopleInv'
  BY <1>0 DEF PeopleInv
<1>2. /\ task'[r].hand = "list" /\ task[r].state = "running" /\ ~ mixed
      /\ UNCHANGED <<line, inside, missed>> /\ task[r].hand = "event"
      /\ participants' = IF event.entered THEN participants \union {event.who} ELSE participants \ {event.who}
  BY <1>0, <1>1 DEF Update, TaskTypes, TaskSet, roomVars
<1>3. Pending(r)' = {line[r][i].who : i \in DOMAIN line[r]}
        /\ Pending(r) = Pending(r)' \union {event.who}
  BY <1>2 DEF Pending
<1>4. event.who \notin Pending(r)' => (event.entered <=> event.who \in inside[r])
  <2>1. LastIsTrue(r)
    BY <1>2 DEF LastInv, Listening
  <2> QED
    BY <1>2, <1>3, <2>1 DEF LastIsTrue, SaysTrue
<1>5. \A q \in People \ Pending(r) :
        /\ q \in participants => q \in inside[r]
        /\ q \in inside[r] => q \in participants \union missed[r]
  BY <1>0, <1>2 DEF PeopleInv
<1> HIDE DEF event
<1>6. \A q \in People \ Pending(r)' :
        /\ q \in participants' => q \in inside'[r]
        /\ q \in inside'[r] => q \in participants' \union missed'[r]
  <2> SUFFICES ASSUME NEW q \in People, q \notin Pending(r)'
               PROVE  /\ q \in participants' => q \in inside'[r]
                      /\ q \in inside'[r] => q \in participants' \union missed'[r]
    OBVIOUS
  <2>1. CASE q = event.who
    BY <1>2, <1>4, <2>1
  <2>2. CASE q # event.who
    BY <1>2, <1>3, <1>5, <2>2
  <2> QED
    BY <2>1, <2>2
<1> QED
  BY <1>0, <1>6 DEF PeopleInv

(* The map of the owner's people, at every step. *)
LEMMA PeopleInvKept ==
  ASSUME TypeOK, CallInv, MadeInv, LastInv, PeopleInv, [Next]_vars
  PROVE  PeopleInv'
<1>0. TaskTypes /\ RoomTypes /\ ShownTypes
  BY TypeParts
<1>1. CASE KeyStep \/ AskStep
  <2>1. Owner' = Owner /\ UNCHANGED <<participants, mixed, inside, line, task, missed>>
    BY <1>1 DEF KeyStep, AskStep, Asking, Owner, roomVars, taskVars
  <2>2. Pending(Owner)' = Pending(Owner)
    BY <2>1 DEF Pending
  <2> QED
    BY <2>1, <2>2, PeopleKept
<1>2. Owner \in Rooms \union {0} /\ (Owner # 0 => Owner \in 1..made)
  BY <1>0, RoomFacts DEF Owner, RoomTypes, CallInv, Joining
<1>3. CASE ConnectRoom
  <2>1. Owner' = Owner /\ UNCHANGED <<participants, mixed, inside, line, task, missed>>
    BY <1>3 DEF ConnectRoom, Owner, Idle, taskVars
  <2>2. Pending(Owner)' = Pending(Owner)
    BY <2>1 DEF Pending
  <2> QED
    BY <2>1, <2>2, PeopleKept
<1>4. CASE Publish
  <2>1. Owner' = Owner /\ Owner # call.room
          /\ UNCHANGED <<participants, mixed, line, task, missed>>
    BY <1>0, <1>4 DEF Publish, Owner, Goto, Idle, RoomTypes, Calls, taskVars, CallInv, Joining
  <2>2. Owner # 0 => inside'[Owner] = inside[Owner]
    BY <1>0, <1>2, <1>4, <2>1 DEF Publish, RoomTypes
  <2>3. Pending(Owner)' = Pending(Owner)
    BY <2>1 DEF Pending
  <2> QED
    BY <2>1, <2>2, <2>3, PeopleKept
<1>5. CASE Spawn
  <2>1. Owner' = Owner /\ Owner # call.room /\ UNCHANGED <<participants, mixed, line, inside>>
    BY <1>0, <1>5 DEF Spawn, Owner, Goto, RoomTypes, Calls, roomVars, CallInv, Joining
  <2>2. Owner # 0 => task'[Owner] = task[Owner] /\ missed'[Owner] = missed[Owner]
    BY <1>0, <1>2, <1>5, <2>1 DEF Spawn, TaskTypes
  <2>3. Owner # 0 => Pending(Owner)' = Pending(Owner)
    BY <2>1, <2>2 DEF Pending
  <2> QED
    BY <2>1, <2>2, <2>3, PeopleKept
<1>6. CASE Clear
  <2>1. call.room \in Rooms /\ Owner' = call.room /\ participants' = {}
          /\ UNCHANGED <<line, task, inside>>
    BY <1>0, <1>6, RoomFacts DEF Clear, Owner, Goto, RoomTypes, Calls, roomVars, CallInv, Joining
  <2>2. missed'[call.room] = inside[call.room] \ Pending(call.room)
    BY <1>0, <1>6, <2>1 DEF Clear, TaskTypes
  <2>3. ASSUME NEW r \in Rooms, r = call.room PROVE Pending(r)' = Pending(r)
    BY <2>1 DEF Pending
  <2>4. ASSUME NEW r \in Rooms, r = call.room
        PROVE  \A q \in People \ Pending(r)' :
                 /\ q \in participants' => q \in inside'[r]
                 /\ q \in inside'[r] => q \in participants' \union missed'[r]
    BY <2>1, <2>2, <2>3, <2>4
  <2> QED
    BY <2>1, <2>4 DEF PeopleInv
<1>7. CASE Replace
  <2>1. Owner' = Owner /\ Owner = call.room /\ Owner # slot
          /\ UNCHANGED <<participants, mixed, inside, line, missed>>
    BY <1>7 DEF Replace, Owner, Idle, CallInv, Joining
  <2>2. Owner # 0 => task'[Owner] = task[Owner]
    BY <1>0, <1>2, <1>7, <2>1 DEF Replace
  <2>3. Owner # 0 => Pending(Owner)' = Pending(Owner)
    BY <2>1, <2>2 DEF Pending
  <2> QED
    BY <2>1, <2>2, <2>3, PeopleKept
<1>8. CASE Disconnect \/ Leave \/ ForgetKey \/ Wipe
  <2>1. slot' = 0 /\ call'.step # "replace"
    <3>1. CASE Disconnect
      BY <3>1 DEF Disconnect, Idle
    <3>2. CASE Leave
      BY <1>0, <3>2 DEF Leave, Goto, CallInv, Leaving, RoomTypes, Calls
    <3>3. CASE ForgetKey
      BY <1>0, <3>3 DEF ForgetKey, Goto, CallInv, Leaving, RoomTypes, Calls
    <3>4. CASE Wipe
      BY <3>4 DEF Wipe, Idle, CallInv, Leaving
    <3> QED
      BY <1>8, <3>1, <3>2, <3>3, <3>4
  <2>2. Owner' = 0
    BY <2>1 DEF Owner
  <2> QED
    BY <2>2 DEF PeopleInv
<1>9. ASSUME NEW r \in Rooms, TaskStep(r)
      PROVE  PeopleInv'
  <2>1. Owner' = Owner
    BY <1>9, TaskEffect DEF Owner
  <2>2. CASE r # Owner
    <3>1. mixed' \/ (mixed' = mixed /\ participants' = participants)
      BY <1>9, <2>2 DEF Receive, Update, Send, Stop, Move
    <3>2. Owner # 0 => /\ task'[Owner] = task[Owner] /\ line'[Owner] = line[Owner]
                       /\ inside'[Owner] = inside[Owner] /\ missed'[Owner] = missed[Owner]
      BY <1>2, <1>9, <2>2, TaskEffect
    <3>3. Owner # 0 => Pending(Owner)' = Pending(Owner)
      BY <2>1, <3>2 DEF Pending
    <3>4. CASE mixed'
      BY <3>4 DEF PeopleInv
    <3>5. CASE mixed' = mixed /\ participants' = participants
      BY <2>1, <3>2, <3>3, <3>5, PeopleKept
    <3> QED
      BY <3>1, <3>4, <3>5
  <2>3. CASE r = Owner
    <3>1. CASE Receive(r)
      <4>0. line[r] \in Seq(Events) /\ task[r] \in TaskSet /\ line[r] # <<>>
        BY <1>0, <3>1 DEF TaskTypes, Receive
      <4>1. /\ line'[r] = Tail(line[r]) /\ task'[r].event = Head(line[r])
               /\ task'[r].hand = "event"
            /\ task[r].hand = "none" /\ task'[r].state = task[r].state
            /\ UNCHANGED <<participants, mixed, inside, missed>>
        BY <1>0, <3>1, <4>0 DEF Receive, TaskTypes, TaskSet, roomVars
      <4>2. /\ DOMAIN line[r] = 1..Len(line[r]) /\ Len(line[r]) \in Nat /\ Len(line[r]) >= 1
            /\ DOMAIN line'[r] = 1..(Len(line[r]) - 1) /\ Head(line[r]) = line[r][1]
            /\ \A i \in 1..(Len(line[r]) - 1) : line'[r][i] = line[r][i + 1]
        BY <4>0, <4>1
      <4>3. \A x : x \in Pending(r)' => x \in Pending(r)
        BY <4>1, <4>2 DEF Pending
      <4>4. \A i \in DOMAIN line[r] : line[r][i].who \in Pending(r)'
        <5> TAKE i \in DOMAIN line[r]
        <5>1. CASE i = 1
          BY <4>1, <4>2, <5>1 DEF Pending
        <5>2. CASE i # 1
          <6>1. i - 1 \in DOMAIN line'[r] /\ line'[r][i - 1] = line[r][i]
            BY <4>2, <5>2
          <6> QED
            BY <6>1 DEF Pending
        <5> QED
          BY <5>1, <5>2
      <4>5. \A x : x \in Pending(r) => x \in Pending(r)'
        BY <4>1, <4>4 DEF Pending
      <4>6. Pending(r)' = Pending(r)
        BY <4>3, <4>5
      <4> QED
        BY <2>1, <2>3, <4>1, <4>6, PeopleKept
    <3>2. CASE Update(r)
      BY <2>3, <3>2, PeopleAfterUpdate
    <3>3. CASE Send(r)
      <4>1. /\ UNCHANGED <<participants, inside, line, missed>> /\ mixed' = mixed
            /\ task[r].hand = "list" /\ task'[r].hand = "none" /\ task'[r].state = task[r].state
        BY <1>0, <2>3, <3>3 DEF Send, TaskTypes, TaskSet, roomVars
      <4>2. Pending(r)' = Pending(r)
        BY <4>1 DEF Pending
      <4> QED
        BY <2>1, <2>3, <4>1, <4>2, PeopleKept
    <3>4. CASE Stop(r)
      <4>1. task'[r].state = "over"
        BY <1>0, <3>4 DEF Stop, TaskTypes, NoTask
      <4> QED
        BY <2>1, <2>3, <4>1 DEF PeopleInv
    <3>5. ASSUME NEW p \in People, Move(r, p) PROVE PeopleInv'
      BY <2>3, <3>5, PeopleAfterMove
    <3> QED
      BY <1>9, <3>1, <3>2, <3>3, <3>4, <3>5
  <2> QED
    BY <2>2, <2>3
<1> QED
  BY <1>1, <1>3, <1>4, <1>5, <1>6, <1>7, <1>8, <1>9, KindsOfSteps DEF RoomStep

(* The screen follows the list in the hand of the owner's task. *)
LEMMA ScreenKept ==
  ASSUME ScreenInv, Owner' = Owner, mixed' \/ mixed' = mixed, participants' = participants,
         shown'.people = shown.people, shown'.told = shown.told,
         Owner # 0 => /\ task'[Owner].hand = "list" <=> task[Owner].hand = "list"
                      /\ task'[Owner].list = task[Owner].list
                      /\ room'[Owner].chan = room[Owner].chan
  PROVE  ScreenInv'
BY DEF ScreenInv

\* The list and the screen, at every step.
LEMMA ScreenInvKept ==
  ASSUME TypeOK, CallInv, MadeInv, ScreenInv, [Next]_vars
  PROVE  ScreenInv'
<1>0. TaskTypes /\ RoomTypes /\ ShownTypes
  BY TypeParts
<1>1. CASE KeyStep \/ AskStep
  <2>1. Owner' = Owner /\ UNCHANGED <<participants, mixed, room, task, shown>>
    BY <1>1 DEF KeyStep, AskStep, Asking, Owner, roomVars, taskVars
  <2> QED
    BY <2>1, ScreenKept
<1>2. Owner \in Rooms \union {0} /\ (Owner # 0 => Owner \in 1..made)
  BY <1>0, RoomFacts DEF Owner, RoomTypes, CallInv, Joining
<1>3. CASE ConnectRoom
  <2>1. Owner' = Owner /\ UNCHANGED <<participants, mixed, task, shown>>
    BY <1>3 DEF ConnectRoom, Owner, Idle, taskVars
  <2>2. Owner # made + 1
    BY <1>0, <1>2, RoomFacts DEF RoomTypes
  <2>3. Owner # 0 => room'[Owner] = room[Owner]
    BY <1>0, <1>2, <1>3, <2>2 DEF ConnectRoom, RoomTypes
  <2> QED
    BY <2>1, <2>3, ScreenKept
<1>4. CASE Publish
  <2>1. Owner' = Owner /\ Owner # call.room /\ UNCHANGED <<participants, mixed, task, shown>>
    BY <1>0, <1>4 DEF Publish, Owner, Goto, Idle, RoomTypes, Calls, taskVars, CallInv, Joining
  <2>2. Owner # 0 => room'[Owner] = room[Owner]
    BY <1>0, <1>2, <1>4, <2>1 DEF Publish, RoomTypes
  <2> QED
    BY <2>1, <2>2, ScreenKept
<1>5. CASE Spawn
  <2>1. Owner' = Owner /\ Owner # call.room /\ UNCHANGED <<participants, mixed, room, shown>>
    BY <1>0, <1>5 DEF Spawn, Owner, Goto, RoomTypes, Calls, roomVars, CallInv, Joining
  <2>2. Owner # 0 => task'[Owner] = task[Owner]
    BY <1>0, <1>2, <1>5, <2>1 DEF Spawn, TaskTypes
  <2> QED
    BY <2>1, <2>2, ScreenKept
<1>6. CASE Clear
  <2>1. Owner' = call.room /\ task' = task /\ mixed' = (task[call.room].hand = "list")
          /\ shown'.told = FALSE
    BY <1>0, <1>6 DEF Clear, Owner, Goto, RoomTypes, Calls, ShownTypes
  <2> QED
    BY <2>1 DEF ScreenInv
<1>7. CASE Replace
  <2>1. Owner' = Owner /\ Owner = call.room /\ Owner # slot /\ UNCHANGED <<participants, mixed>>
    BY <1>7 DEF Replace, Owner, Idle, CallInv, Joining
  <2>2. Owner # 0 => task'[Owner] = task[Owner] /\ room'[Owner] = room[Owner]
    BY <1>0, <1>2, <1>7, <2>1 DEF Replace, RoomTypes
  <2>3. shown'.people = shown.people /\ shown'.told = shown.told
    BY <1>0, <1>7 DEF Replace, ShowSession, ShownTypes
  <2> QED
    BY <2>1, <2>2, <2>3, ScreenKept
<1>8. CASE Disconnect \/ Leave \/ ForgetKey \/ Wipe
  <2>1. slot' = 0 /\ call'.step # "replace"
    <3>1. CASE Disconnect
      BY <3>1 DEF Disconnect, Idle
    <3>2. CASE Leave
      BY <1>0, <3>2 DEF Leave, Goto, CallInv, Leaving, RoomTypes, Calls
    <3>3. CASE ForgetKey
      BY <1>0, <3>3 DEF ForgetKey, Goto, CallInv, Leaving, RoomTypes, Calls
    <3>4. CASE Wipe
      BY <3>4 DEF Wipe, Idle, CallInv, Leaving
    <3> QED
      BY <1>8, <3>1, <3>2, <3>3, <3>4
  <2>2. Owner' = 0
    BY <2>1 DEF Owner
  <2> QED
    BY <2>2 DEF ScreenInv
<1>9. ASSUME NEW r \in Rooms, TaskStep(r)
      PROVE  ScreenInv'
  <2>1. Owner' = Owner /\ room' = room
    BY <1>9, TaskEffect DEF Owner
  <2>2. CASE r # Owner
    <3>1. mixed' \/ (mixed' = mixed /\ participants' = participants /\ shown' = shown)
      BY <1>9, <2>2 DEF Receive, Update, Send, Stop, Move
    <3>2. Owner # 0 => task'[Owner] = task[Owner]
      BY <1>2, <1>9, <2>2, TaskEffect
    <3>4. CASE mixed'
      BY <3>4 DEF ScreenInv
    <3>5. CASE mixed' = mixed /\ participants' = participants /\ shown' = shown
      BY <2>1, <3>2, <3>5, ScreenKept
    <3> QED
      BY <3>1, <3>4, <3>5
  <2>3. CASE r = Owner
    <3>0. task[r] \in TaskSet
      BY <1>0 DEF TaskTypes
    <3>1. CASE Receive(r)
      <4>1. UNCHANGED <<participants, mixed, shown>> /\ task[r].hand = "none"
              /\ task'[r].hand = "event"
            /\ task'[r].list = task[r].list
        BY <1>0, <3>0, <3>1 DEF Receive, TaskTypes, TaskSet
      <4> QED
        BY <2>1, <2>3, <4>1, ScreenKept
    <3>2. CASE Update(r)
      <4>1. task'[r].hand = "list" /\ task'[r].list = participants'
        BY <1>0, <3>0, <3>2 DEF Update, TaskTypes, TaskSet
      <4> QED
        BY <2>1, <2>3, <4>1 DEF ScreenInv
    <3>3. CASE Send(r)
      <4>1. task[r].hand = "list" /\ task'[r].hand = "none" /\ participants' = participants
              /\ mixed' = mixed
        BY <1>0, <2>3, <3>0, <3>3 DEF Send, TaskTypes, TaskSet
      <4>2. room[r].chan \in Channels
        <5>1. r \in 1..made /\ made \in Nat
          BY <1>0, <1>2, <2>3, RoomFacts DEF RoomTypes
        <5> QED
          BY <5>1 DEF MadeInv
      <4>3. shown'.people = [shown.people EXCEPT ![room[r].chan] = task[r].list]
        BY <1>0, <3>3 DEF Send, ShowPeople, ShownTypes
      <4>4. shown'.people[room[r].chan] = task[r].list
        BY <1>0, <4>2, <4>3 DEF ShownTypes
      <4> QED
        BY <1>2, <2>1, <2>3, <4>1, <4>4, RoomFacts DEF ScreenInv
    <3>4. CASE Stop(r)
      <4>1. UNCHANGED <<participants, mixed, shown>> /\ task[r].hand # "list"
              /\ task'[r].hand = "none"
        BY <1>0, <3>0, <3>4 DEF Stop, TaskTypes, NoTask
      <4> QED
        BY <2>1, <2>3, <4>1 DEF ScreenInv
    <3>5. ASSUME NEW p \in People, Move(r, p) PROVE ScreenInv'
      <4>1. UNCHANGED <<participants, mixed, shown>>
        BY <3>5 DEF Move
      <4>2. task'[r].hand = task[r].hand /\ task'[r].list = task[r].list
        BY <1>0, <3>0, <3>5 DEF Move, TaskTypes, TaskSet
      <4> QED
        BY <2>1, <2>3, <4>1, <4>2, ScreenKept
    <3> QED
      BY <1>9, <3>1, <3>2, <3>3, <3>4, <3>5
  <2> QED
    BY <2>2, <2>3
<1> QED
  BY <1>1, <1>3, <1>4, <1>5, <1>6, <1>7, <1>8, <1>9, KindsOfSteps DEF RoomStep

-----------------------------------------------------------------------------
(* The invariant                                                           *)

IInv ==
  TypeOK /\ CallInv /\ MadeInv /\ SessionInv /\ KeyInv /\ LastInv /\ PeopleInv /\ ScreenInv

\* The invariant holds at the start.
LEMMA IInvInit ==
  ASSUME Init
  PROVE  IInv
<1>1. /\ call.step = "idle" /\ call.chan = Nobody /\ call.key = Never /\ call.room = 0
      /\ slot = 0 /\ made = 0 /\ Owner = 0
  BY DEF Init, Idle, Owner
<1>2. \A r \in Rooms : task[r] = NoTask /\ line[r] = <<>>
         /\ room[r] = [chan |-> Nobody, joined |-> FALSE, leaked |-> FALSE]
  BY DEF Init
<1>3. TypeOK
  <2>1. KeyTypes
    <3>1. 0 \in Epochs /\ 0 \in 0..MaxTime
      BY BoundAssumption DEF Epochs
    <3> QED
      BY <3>1 DEF Init, KeyTypes, NoKey, Never
  <2>2. RoomTypes
    <3>1. call \in Calls
      BY DEF Init, Idle, Calls, Never
    <3>2. 0 \in 0..MaxRooms /\ 0 \in 0..0
      BY BoundAssumption
    <3> QED
      BY <3>1, <3>2 DEF Init, RoomTypes, RoomSet
  <2>3. TaskTypes
    <3>1. <<>> \in Seq(Events)
      OBVIOUS
    <3> QED
      BY <3>1, TaskFacts DEF Init, TaskTypes
  <2>4. LineInv
    <3>1. Len(<<>>) <= Ring
      BY RoomFacts
    <3> QED
      BY <1>2, <3>1 DEF LineInv
  <2>5. ShownTypes
    BY DEF Init, ShownTypes
  <2> QED
    BY <2>1, <2>2, <2>3, <2>4, <2>5, TypeParts
<1>4. CallInv
  BY <1>1 DEF CallInv, Joining, Leaving
<1>5. MadeInv
  BY <1>1, <1>2, RoomFacts DEF MadeInv, NoTask, Rooms
<1>6. SessionInv
  BY <1>1, <1>2 DEF SessionInv, Leaving, NoTask, Init
<1>7. KeyInv
  BY <1>1 DEF KeyInv, Init, NoKey, Never
<1>8. LastInv
  BY <1>2 DEF LastInv, Listening, NoTask
<1> QED
  BY <1>1, <1>3, <1>4, <1>5, <1>6, <1>7, <1>8 DEF IInv, PeopleInv, ScreenInv

\* Every step keeps the invariant.
LEMMA IInvStep ==
  ASSUME IInv, [Next]_vars
  PROVE  IInv'
<1> USE DEF IInv
<1>1. TypeOK'
  <2>1. KeyTypes' /\ RoomTypes' /\ TaskTypes' /\ LineInv' /\ ShownTypes'
    BY KeyTypesKept, RoomTypesKept, TaskTypesKept, LineInvKept, ShownTypesKept
  <2>2. (KeyTypes' /\ RoomTypes' /\ TaskTypes' /\ LineInv' /\ ShownTypes') => TypeOK'
    BY DEF TypeOK, KeyTypes, RoomTypes, TaskTypes, LineInv, ShownTypes, RoomSet, TaskSet
  <2> QED
    BY <2>1, <2>2
<1> QED
  BY <1>1, CallInvKept, MadeInvKept, SessionInvKept, KeyInvKept, LastInvKept, PeopleInvKept,
     ScreenInvKept

\* The inductive invariant, of every behaviour of the client's voice session.
THEOREM IInvAlways == Spec => []IInv
BY IInvInit, IInvStep, PTL DEF Spec

(* Every variable keeps its type; no more than a ring of events waits.       *)
THEOREM TypeCorrect == Spec => []TypeOK
<1>1. IInv => TypeOK
  BY DEF IInv
<1> QED
  BY <1>1, IInvAlways, PTL

(* Between commands there is one session at most: connect_voice_session and  *)
(* disconnect_voice_session abort the task of the room they take from the    *)
(* slot and show the channel of the room they leave there.                   *)
THEOREM OneSessionAtATime == Spec => []OneSession
<1>1. IInv => OneSession
  BY DEF IInv, SessionInv, OneSession, AtRest, Joining, Leaving
<1> QED
  BY <1>1, IInvAlways, PTL

(* A room that was left is joined again with the key of an epoch that its    *)
(* group reached no earlier: clear_voice_session_key comes after the leave,  *)
(* and only a later connect caches a key again.                              *)
THEOREM NoKeyFromBefore == Spec => []FreshAfterLeaving
<1>1. IInv => FreshAfterLeaving
  <2>1. ASSUME IInv, call.step = "room"
        PROVE  call.key >= floor[call.chan]
    <3>1. call.chan \in Channels /\ call.key \in Epochs /\ floor[call.chan] <= call.key
      BY <2>1 DEF IInv, CallInv, KeyInv
    <3>2. call.key \in Nat /\ floor[call.chan] \in Nat
      BY <2>1, <3>1, BoundAssumption DEF IInv, TypeOK, Epochs
    <3> QED
      BY <3>1, <3>2
  <2> QED
    BY <2>1 DEF FreshAfterLeaving
<1> QED
  BY <1>1, IInvAlways, PTL

(* handle_room_event works the events of a room in one by one, so the map    *)
(* and the screen have who is in the room once the last is worked in.        *)
THEOREM TheMapIsTheRoom == Spec => []PeopleAreHere
<1>1. ASSUME IInv, AtRest, slot # 0, ~ mixed,
             task[slot].state = "running", task[slot].hand = "none", line[slot] = <<>>
      PROVE  /\ participants \subseteq inside[slot]
             /\ inside[slot] \subseteq participants \union missed[slot]
             /\ shown.told => shown.people[room[slot].chan] = participants
  <2>1. Owner = slot
    BY <1>1 DEF Owner, AtRest
  <2>2. Pending(slot) = {}
    BY <1>1 DEF Pending
  <2>3. slot \in Rooms /\ participants \subseteq People /\ inside[slot] \subseteq People
    <3>1. RoomTypes /\ TaskTypes
      BY <1>1, TypeParts DEF IInv
    <3>0. made \in 0..MaxRooms /\ slot \in 1..made
      BY <1>1, <3>1, RoomFacts DEF RoomTypes
    <3>2. slot \in Rooms
      BY <3>0, RoomFacts
    <3> QED
      BY <3>1, <3>2 DEF RoomTypes, TaskTypes
  <2>4. \A p \in People :
          /\ p \in participants => p \in inside[slot]
          /\ p \in inside[slot] => p \in participants \union missed[slot]
    BY <1>1, <2>1, <2>2 DEF IInv, PeopleInv
  <2>5. shown.told => shown.people[room[slot].chan] = participants
    BY <1>1, <2>1 DEF IInv, ScreenInv
  <2> QED
    BY <2>3, <2>4, <2>5
<1>2. IInv => PeopleAreHere
  BY <1>1 DEF PeopleAreHere
<1> QED
  BY <1>2, IInvAlways, PTL

(* derive_livekit_e2ee_key takes a cached key only before it expires, and a  *)
(* key expires LIVEKIT_E2EE_CACHE_TTL after it was cached: no key is used    *)
(* that much later than the end of its epoch.                                *)
THEOREM NoOldKey == Spec => KeyAge
<1> DEFINE Young ==
      call.step = "lookup" /\ call'.step = "room" =>
        cache[call.chan].ended = Never \/ now < cache[call.chan].ended + Lifetime
<1>1. ASSUME IInv, [Next]_vars PROVE Young
  <2> SUFFICES ASSUME call.step = "lookup", call'.step = "room", cache[call.chan].ended # Never
               PROVE  now < cache[call.chan].ended + Lifetime
    OBVIOUS
  <2>1. call \in Calls /\ call.chan \in Channels
    BY <1>1 DEF IInv, TypeOK, CallInv
  <2>2. LookUpKey
    <3>1. ~ KeyStep
      BY DEF KeyStep
    <3>2. ~ RoomStep
      <4>1. ASSUME NEW r \in Rooms, TaskStep(r)
            PROVE  FALSE
        BY <4>1 DEF Receive, Update, Send, Stop, Move
      <4> QED
        BY <4>1 DEF RoomStep, ConnectRoom, Publish, Spawn, Clear, Replace, Disconnect, Leave,
           ForgetKey, Wipe
    <3>3. ~ Fail /\ ~ ExportKey /\ ~ CacheKey /\ \A c \in Channels : ~ Connect(c)
      BY DEF Fail, Idle, ExportKey, CacheKey, Connect
    <3> QED
      BY <1>1, <3>1, <3>2, <3>3
         DEF Next, CallStep, RoomStep, KeyStep, Tick, EmptyCache, Commit, vars
  <2>3. cache[call.chan].epoch # Never /\ cache[call.chan].until > now
    BY <2>1, <2>2 DEF LookUpKey, Calls
  <2>4. cache[call.chan].until <= cache[call.chan].ended + Lifetime
    BY <1>1, <2>1, <2>3 DEF IInv, KeyInv
  <2>5. now \in Nat /\ cache[call.chan].until \in Nat /\ cache[call.chan].ended \in Nat
          /\ Lifetime \in Nat
    BY <1>1, <2>1, BoundAssumption DEF IInv, TypeOK
  <2> QED
    BY <2>3, <2>4, <2>5
<1> QED
  BY <1>1, IInvAlways, PTL DEF Spec, KeyAge
=============================================================================
