-------------------------------- MODULE Voice --------------------------------
(***************************************************************************)
(* The voice session of one client: joining and leaving rooms, the key      *)
(* cache, the task that follows the participants of a room, and what the    *)
(* user interface is told.                                                 *)
(*                                                                         *)
(* The backend runs one command at a time, a call that waits at the token   *)
(* endpoint, the MLS session, the room and the client's locks.  Beside it   *)
(* run the participant tasks, the rooms themselves, commits that move the   *)
(* groups on, and the websocket's end, which empties the key cache.  An     *)
(* abort stops a task where it waits, for an event or, with one in hand,    *)
(* for the lock; a task that is running goes on until it waits, and always  *)
(* sends the list it has made.                                              *)
(*                                                                         *)
(* The events to the interface come in order, so shown is what it shows     *)
(* once it has worked them off, if the channels are all of the guild that   *)
(* is selected there.                                                       *)
(***************************************************************************)
EXTENDS Integers, Sequences

CONSTANTS
  Channels, People,
  Nobody,    \* in place of a channel: not connected; in place of a person
  Lifetime,  \* of a cached key, in ticks: LIVEKIT_E2EE_CACHE_TTL
  Ring,      \* events the room's broadcast keeps for a slow task
  MaxRooms, MaxEpoch, MaxTime  \* bounds

ASSUME BoundAssumption ==
  /\ Lifetime \in Nat \ {0} /\ Ring \in Nat \ {0}
  /\ MaxRooms \in Nat /\ MaxEpoch \in Nat /\ MaxTime \in Nat
ASSUME NameAssumption == Nobody \notin Channels

VARIABLES
  now,           \* the clock
  epoch,         \* epoch[c]: of the MLS group of channel c
  cache,         \* voice_session_keys; history: when the key's epoch ended, if
                 \* that was after it was cached
  call,          \* the command that is being run
  made,          \* rooms connected so far; they are numbered
  room,          \* room[r]: its channel, whether this client is in it, and
                 \* whether the client lost it while it was
  slot,          \* voice_connection: a room, or 0
  inside,        \* inside[r]: the others in the room
  line,          \* line[r]: events of the room its task has not received
  task,          \* task[r]: the participant task
  participants,  \* voice_participants, one map for all rooms
  shown,         \* what the interface shows
  floor,         \* history: the epoch a channel had when its room was left
  missed,        \* history: people a room's task could not report
  mixed          \* history: participants may be of another room

keyVars == <<now, epoch, cache, floor>>
roomVars == <<made, room, inside>>
taskVars == <<line, task, participants, missed, mixed>>
vars == <<keyVars, call, roomVars, slot, taskVars, shown>>

Rooms == 1..MaxRooms
Epochs == 0..MaxEpoch
Never == -1  \* an epoch that has not ended, a cache entry that is not there
NoKey == [epoch |-> Never, until |-> 0, ended |-> Never]
Events == [who : People, entered : BOOLEAN]

Idle == [step |-> "idle", chan |-> Nobody, key |-> Never, room |-> 0]
NoEvent == [who |-> Nobody, entered |-> FALSE]
NoTask == [state |-> "none", hand |-> "none", event |-> NoEvent, list |-> {}]

Init ==
  /\ now = 0 /\ made = 0 /\ slot = 0
  /\ epoch = [c \in Channels |-> 0]
  /\ cache = [c \in Channels |-> NoKey]
  /\ call = Idle
  /\ room = [r \in Rooms |-> [chan |-> Nobody, joined |-> FALSE, leaked |-> FALSE]]
  /\ inside = [r \in Rooms |-> {}]
  /\ line = [r \in Rooms |-> <<>>]
  /\ task = [r \in Rooms |-> NoTask]
  /\ participants = {}
  /\ shown = [session |-> Nobody, people |-> [c \in Channels |-> {}], told |-> FALSE]
  /\ floor = [c \in Channels |-> 0]
  /\ mixed = FALSE
  /\ missed = [r \in Rooms |-> {}]

-----------------------------------------------------------------------------
(* Time, commits, the end of the websocket                                 *)

Tick ==
  /\ now < MaxTime
  /\ now' = now + 1
  /\ UNCHANGED <<epoch, cache, floor, call, roomVars, slot, taskVars, shown>>

Commit(c) ==
  /\ epoch[c] < MaxEpoch
  /\ epoch' = [epoch EXCEPT ![c] = @ + 1]
  /\ cache' = [cache EXCEPT ![c].ended = IF cache[c].epoch = epoch[c] THEN now ELSE @]
  /\ UNCHANGED <<now, floor, call, roomVars, slot, taskVars, shown>>

\* zeroize_voice_session_cache: the websocket has closed, or a login begins.
EmptyCache ==
  /\ cache' = [c \in Channels |-> NoKey]
  /\ UNCHANGED <<now, epoch, floor, call, roomVars, slot, taskVars, shown>>

-----------------------------------------------------------------------------
(* connect_voice_session                                                   *)

ShowSession(c) == shown' = [shown EXCEPT !.session = c]

Goto(step) == call' = [call EXCEPT !.step = step]

\* The server refuses the token, there is no group to export from, or the room is
\* not to be had: the call ends, and the session it found stays.
Fail ==
  /\ call.step \in {"lookup", "export", "room"}
  /\ call' = Idle
  /\ UNCHANGED <<keyVars, roomVars, slot, taskVars, shown>>

Connect(c) ==
  /\ call.step = "idle"
  /\ call' = [Idle EXCEPT !.step = "lookup", !.chan = c]
  /\ UNCHANGED <<keyVars, roomVars, slot, taskVars, shown>>

\* Mutant of LookUpKey: a cached key does not expire.
LookUpKeyForever ==
  LET c == call.chan
      hit == cache[c].epoch # Never
  IN
  /\ call.step = "lookup"
  /\ call' = IF hit
             THEN [call EXCEPT !.step = "room", !.key = cache[c].epoch]
             ELSE [call EXCEPT !.step = "export"]
  /\ UNCHANGED <<keyVars, roomVars, slot, taskVars, shown>>

\* derive_livekit_e2ee_key: the cached key, if it has not expired.
LookUpKey ==
  LET c == call.chan
      hit == cache[c].epoch # Never /\ cache[c].until > now
  IN
  /\ call.step = "lookup"
  /\ call' = IF hit
             THEN [call EXCEPT !.step = "room", !.key = cache[c].epoch]
             ELSE [call EXCEPT !.step = "export"]
  /\ cache' = IF hit THEN cache ELSE [cache EXCEPT ![c] = NoKey]
  /\ UNCHANGED <<now, epoch, floor, roomVars, slot, taskVars, shown>>

ExportKey ==
  /\ call.step = "export"
  /\ call' = [call EXCEPT !.step = "cache", !.key = epoch[call.chan]]
  /\ UNCHANGED <<keyVars, roomVars, slot, taskVars, shown>>

CacheKey ==
  LET c == call.chan IN
  /\ call.step = "cache"
  /\ cache' = [cache EXCEPT ![c] = 
       [epoch |-> call.key, until |-> now + Lifetime, ended |-> Never]]
  /\ Goto("room")
  /\ UNCHANGED <<now, epoch, floor, roomVars, slot, taskVars, shown>>

ConnectRoom ==
  /\ call.step = "room"
  /\ made < MaxRooms
  /\ made' = made + 1
  /\ room' = [room EXCEPT ![made + 1] =
       [chan |-> call.chan, joined |-> TRUE, leaked |-> FALSE]]
  /\ call' = [Idle EXCEPT !.step = "publish", !.room = made + 1]
  /\ UNCHANGED <<keyVars, inside, slot, taskVars, shown>>

\* publish_local_track for the microphone and the screen: an error ends the call
\* and leaves the room as it is.
Publish ==
  /\ call.step = "publish"
  /\ \/ Goto("spawn") /\ UNCHANGED <<room, inside>>
     \/ /\ call' = Idle
        /\ room' = [room EXCEPT ![call.room].leaked = TRUE]
        /\ inside' = [inside EXCEPT ![call.room] = {}]
  /\ UNCHANGED <<keyVars, made, slot, taskVars, shown>>

\* spawn_voice_event_task, which subscribes to the room's events.
Spawn ==
  LET r == call.room IN
  /\ call.step = "spawn"
  /\ task' = [task EXCEPT ![r].state = "running"]
  /\ missed' = [missed EXCEPT ![r] = inside[r]]
  /\ Goto("clear")
  /\ UNCHANGED <<keyVars, roomVars, slot, line, participants, mixed, shown>>

\* Whom the task of room r is still to hear of.
Pending(r) ==
  {line[r][i].who : i \in DOMAIN line[r]}
    \union (IF task[r].hand = "event" THEN {task[r].event.who} ELSE {})

\* What the new task has put into the map already is lost.
Clear ==
  LET r == call.room IN
  /\ call.step = "clear"
  /\ participants' = {}
  /\ missed' = [missed EXCEPT ![r] = inside[r] \ Pending(r)]
  /\ mixed' = (task[r].hand = "list")
  /\ shown' = [shown EXCEPT !.told = FALSE]
  /\ Goto("replace")
  /\ UNCHANGED <<keyVars, roomVars, slot, line, task>>

\* Mutant of Replace: the task of the session before is left running.
ReplaceOnly ==
  LET r == call.room IN
  /\ call.step = "replace"
  /\ room' = IF slot = 0 THEN room ELSE [room EXCEPT ![slot].leaked = TRUE]
  /\ slot' = r
  /\ ShowSession(room[r].chan)
  /\ call' = Idle
  /\ UNCHANGED <<keyVars, made, inside, taskVars>>

\* The new session takes the slot; the one before loses its task, not its room.
Replace ==
  LET r == call.room IN
  /\ call.step = "replace"
  /\ task' = [k \in Rooms |->
       IF k = slot /\ task[k].state = "running" THEN [task[k] EXCEPT !.state = "aborted"]
       ELSE task[k]]
  /\ room' = IF slot = 0 THEN room ELSE [room EXCEPT ![slot].leaked = TRUE]
  /\ slot' = r
  /\ ShowSession(room[r].chan)
  /\ call' = Idle
  /\ UNCHANGED <<keyVars, made, inside, line, participants, missed, mixed>>

-----------------------------------------------------------------------------
(* disconnect_voice_session                                                *)

Disconnect ==
  /\ call.step = "idle"
  /\ call' = [Idle EXCEPT !.step = IF slot = 0 THEN "wipe" ELSE "leave", !.room = slot]
  /\ slot' = 0
  /\ UNCHANGED <<keyVars, roomVars, taskVars, shown>>

\* unpublish_local_tracks and leave, whose errors are dropped, and the abort.
Leave ==
  LET r == call.room IN
  /\ call.step = "leave"
  /\ \/ room' = [room EXCEPT ![r].joined = FALSE]
     \/ room' = [room EXCEPT ![r].leaked = TRUE]
  /\ task' = [task EXCEPT ![r].state = IF @ = "running" THEN "aborted" ELSE @]
  /\ Goto("forget")
  /\ UNCHANGED <<keyVars, made, inside, slot, line, participants, missed, mixed, shown>>

\* Mutant of ForgetKey: the key stays in the cache.
KeepKey ==
  LET c == room[call.room].chan IN
  /\ call.step = "forget"
  /\ floor' = [floor EXCEPT ![c] = epoch[c]]
  /\ Goto("wipe")
  /\ UNCHANGED <<now, epoch, cache, roomVars, slot, taskVars, shown>>

\* clear_voice_session_key
ForgetKey ==
  LET c == room[call.room].chan IN
  /\ call.step = "forget"
  /\ cache' = [cache EXCEPT ![c] = NoKey]
  /\ floor' = [floor EXCEPT ![c] = epoch[c]]
  /\ Goto("wipe")
  /\ UNCHANGED <<now, epoch, roomVars, slot, taskVars, shown>>

Wipe ==
  /\ call.step = "wipe"
  /\ participants' = {}
  /\ ShowSession(Nobody)
  /\ call' = Idle
  /\ UNCHANGED <<keyVars, roomVars, slot, line, task, missed, mixed>>

-----------------------------------------------------------------------------
(* The rooms and the participant tasks                                     *)

Listening(r) == task[r].state \in {"running", "aborted"}

\* Who is in a room that nobody follows is left out: nobody, in the model.
Followed(r) == Listening(r) \/ call.room = r

\* Mutant of Move: the events wait in an unbounded queue.
MoveUnbounded(r, p) ==
  LET event == [who |-> p, entered |-> p \notin inside[r]] IN
  /\ room[r].joined /\ Followed(r)
  /\ inside' = [inside EXCEPT ![r] = IF event.entered THEN @ \union {p} ELSE @ \ {p}]
  /\ missed' = [missed EXCEPT ![r] = @ \ {p}]
  /\ line' = [line EXCEPT ![r] = IF Listening(r) THEN Append(@, event) ELSE <<>>]
  /\ UNCHANGED <<keyVars, call, made, room, slot, task, participants, mixed, shown>>

\* Somebody enters or leaves a room.  A task that is behind by more than the ring
\* gets an error instead of the event, and ends.
Move(r, p) ==
  LET event == [who |-> p, entered |-> p \notin inside[r]]
      lags == Len(line[r]) = Ring
  IN
  /\ room[r].joined /\ Followed(r)
  /\ inside' = [inside EXCEPT ![r] = IF event.entered THEN @ \union {p} ELSE @ \ {p}]
  /\ missed' = [missed EXCEPT ![r] = @ \ {p}]
  /\ line' = [line EXCEPT ![r] = IF Listening(r) /\ ~ lags THEN Append(@, event) ELSE <<>>]
  /\ task' = IF Listening(r) /\ lags THEN [task EXCEPT ![r].state = "over"] ELSE task
  /\ UNCHANGED <<keyVars, call, made, room, slot, participants, mixed, shown>>

\* Whose people the map holds.
Owner == IF call.step = "replace" THEN call.room ELSE slot

Receive(r) ==
  /\ Listening(r) /\ task[r].hand = "none" /\ line[r] # <<>>
  /\ task' = [task EXCEPT ![r].hand = "event", ![r].event = Head(line[r])]
  /\ line' = [line EXCEPT ![r] = Tail(@)]
  /\ UNCHANGED <<keyVars, call, roomVars, slot, participants, missed, mixed, shown>>

\* Mutant of Update: the list is made before the event is worked in.
UpdateLate(r) ==
  LET event == task[r].event IN
  /\ task[r].hand = "event"
  /\ participants' = IF event.entered THEN participants \union {event.who}
                     ELSE participants \ {event.who}
  /\ task' = [task EXCEPT ![r].hand = "list", ![r].list = participants, ![r].event = NoEvent]
  /\ mixed' = (mixed \/ r # Owner)
  /\ UNCHANGED <<keyVars, call, roomVars, slot, line, missed, shown>>

\* The event is worked into the map and the new list taken, under the lock.
Update(r) ==
  LET event == task[r].event IN
  /\ task[r].hand = "event"
  /\ participants' = IF event.entered THEN participants \union {event.who}
                     ELSE participants \ {event.who}
  /\ task' = [task EXCEPT ![r].hand = "list", ![r].list = participants', ![r].event = NoEvent]
  /\ mixed' = (mixed \/ r # Owner)
  /\ UNCHANGED <<keyVars, call, roomVars, slot, line, missed, shown>>

ShowPeople(c, people, told) ==
  shown' = [shown EXCEPT !.people[c] = people, !.told = @ \/ told]

Send(r) ==
  /\ task[r].hand = "list"
  /\ ShowPeople(room[r].chan, task[r].list, r = Owner)
  /\ task' = [task EXCEPT ![r].hand = "none", ![r].list = {}]
  /\ mixed' = (mixed \/ r # Owner)
  /\ UNCHANGED <<keyVars, call, roomVars, slot, line, participants, missed>>

\* The abort takes effect.
Stop(r) ==
  /\ task[r].state = "aborted" /\ task[r].hand # "list"
  /\ task' = [task EXCEPT ![r] = [NoTask EXCEPT !.state = "over"]]
  /\ line' = [line EXCEPT ![r] = <<>>]
  /\ inside' = [inside EXCEPT ![r] = {}]
  /\ missed' = [missed EXCEPT ![r] = {}]
  /\ UNCHANGED <<keyVars, call, made, room, slot, participants, mixed, shown>>

CallStep ==
  \/ Fail \/ LookUpKey \/ ExportKey \/ CacheKey \/ ConnectRoom
  \/ Publish \/ Spawn \/ Clear \/ Replace
  \/ Leave \/ ForgetKey \/ Wipe

Next ==
  \/ Tick \/ EmptyCache \/ Disconnect \/ CallStep
  \/ \E c \in Channels : Commit(c) \/ Connect(c)
  \/ \E r \in Rooms :
       \/ Receive(r) \/ Update(r) \/ Send(r) \/ Stop(r)
       \/ \E p \in People : Move(r, p)

Spec == Init /\ [][Next]_vars

-----------------------------------------------------------------------------
(* Properties                                                              *)

Calls ==
  [step : {"idle", "lookup", "export", "cache", "room", "publish", "spawn", "clear",
           "replace", "leave", "forget", "wipe"},
   chan : Channels \union {Nobody}, key : Epochs \union {Never}, room : Rooms \union {0}]

TypeOK ==
  /\ now \in 0..MaxTime /\ made \in 0..MaxRooms /\ slot \in 0..made
  /\ epoch \in [Channels -> Epochs]
  /\ cache \in [Channels -> [epoch : Epochs \union {Never}, until : Nat,
                          ended : Nat \union {Never}]]
  /\ call \in Calls
  /\ room \in [Rooms -> [chan : Channels \union {Nobody}, joined : BOOLEAN, leaked : BOOLEAN]]
  /\ inside \in [Rooms -> SUBSET People]
  /\ line \in [Rooms -> Seq(Events)] /\ \A r \in Rooms : Len(line[r]) <= Ring
  /\ task \in [Rooms -> [state : {"none", "running", "aborted", "over"},
                        hand : {"none", "event", "list"}, event : Events \union {NoEvent},
                        list : SUBSET People]]
  /\ participants \subseteq People
  /\ shown \in [session : Channels \union {Nobody}, people : [Channels -> SUBSET People],
                told : BOOLEAN]
  /\ floor \in [Channels -> Epochs]
  /\ missed \in [Rooms -> SUBSET People] /\ mixed \in BOOLEAN

AtRest == call.step = "idle"

\* However sessions are joined, joined over and left: between commands the
\* interface shows the channel of the session there is, no task of another room is
\* left to run, and the client is in no other room, except one it joined over, one
\* a track could not be published in, and one whose leave failed.
OneSession ==
  AtRest =>
    /\ shown.session = IF slot = 0 THEN Nobody ELSE room[slot].chan
    /\ \A r \in Rooms : task[r].state = "running" => r = slot
    /\ \A r \in Rooms : room[r].joined => r = slot \/ room[r].leaked

\* Who leaves a room and comes back does not get the key from before: commits
\* made while it was in the room count.
FreshAfterLeaving == call.step = "room" => call.key >= floor[call.chan]

\* A cached key that is used again is of an epoch that was the group's less than
\* the cache's lifetime ago, or that ended before it was even cached.
KeyAge ==
  [][LET key == cache[call.chan] IN
     call.step = "lookup" /\ call'.step = "room" =>
       key.ended = Never \/ now < key.ended + Lifetime]_vars

\* A task that has worked off its events has the people of its room, but for those
\* it could not hear of and unless a task of another room came in between, and the
\* interface shows them.
PeopleAreHere ==
  AtRest /\ slot # 0 /\ ~ mixed =>
    LET calm == task[slot].state = "running" /\ task[slot].hand = "none" /\ line[slot] = <<>> IN
    calm =>
      /\ participants \subseteq inside[slot]
      /\ inside[slot] \subseteq participants \union missed[slot]
      /\ shown.told => shown.people[room[slot].chan] = participants
=============================================================================
