------------------------------ MODULE Desktop -------------------------------
(***************************************************************************)
(* The desktop program around the client: the window, which works off one  *)
(* queue of events and puts commands into another, the backend loop, which *)
(* runs one command at a time, the client it holds, and the task that      *)
(* forwards the client's events to the window.  Each sign-in makes a new   *)
(* client; the one before keeps its socket, but nobody hears it any more.  *)
(*                                                                         *)
(* Every queue is bounded and nobody waits at one that is full: a command  *)
(* or an event that does not fit is gone, and a forwarder that falls       *)
(* behind the client's ring ends.                                          *)
(*                                                                         *)
(* From recv to try_send the forwarder does not wait: an abort finds it    *)
(* with no event in hand.  Errors that only change the status line, the    *)
(* member lists, attachments and voice are left out; what the client does  *)
(* with a message before it emits the text is InboundPipeline.             *)
(***************************************************************************)
EXTENDS Integers, Sequences, FiniteSets, Functions

CONSTANTS
  Guilds, Channels,
  GuildOf,   \* the guild of each channel
  Home,      \* the guilds the user is a member of when the program starts
  Past,      \* the server's messages then, as log below
  Nothing,   \* no guild, no channel
  QueueSize, \* of the commands: 256
  InboxSize, \* of the window's events: 2048
  Ring,      \* of the client's broadcast: 1024
  Page,      \* messages a page has at most: 100
  MaxMessages, MaxTurns  \* bounds: messages; clicks and faults taken together

ASSUME NameAssumption ==
  /\ Nothing \notin Guilds \union Channels
  /\ GuildOf \in [Channels -> Guilds] /\ Home \subseteq Guilds /\ Past \in Seq(Channels)
ASSUME BoundAssumption ==
  /\ {QueueSize, InboxSize, Ring, Page} \subseteq Nat \ {0}
  /\ {MaxMessages, MaxTurns} \subseteq Nat /\ Len(Past) <= MaxMessages

VARIABLES
  view,    \* what the window shows, told: it has the failure of something on its
           \* banner; and, as history, waved: the user has dismissed the last such
           \* banner; shaky: the last selection did not fit into the queue; crossed:
           \* since then the window has asked for the list of another guild than the
           \* selected channel's
  screen,  \* screen[c]: messages, the ids of the list shown for channel c
  ids,     \* message_ids
  cmds,    \* commands the backend has not taken
  call,    \* the command it runs
  client,  \* the client it holds; as history, strays: the channels it has once taken
           \* for those of another guild
  ring,    \* the client's events the forwarder has not taken
  fwd,     \* the forwarder: "none", "running" or "over"
  inbox,   \* events the window has not worked off
  mine,    \* the guilds the user is a member of
  log,     \* the server's messages: log[m] is the channel of message m
  lost,    \* history: messages dropped on their way to the screen or wiped off it;
           \* 0 when the inbox had no room for another event
  turns    \* clicks and faults so far, for the bound

windowVars == <<view, screen, ids>>
backVars == <<call, client>>
lineVars == <<ring, fwd>>
worldVars == <<mine, log>>
vars == <<windowVars, cmds, backVars, lineVars, inbox, worldVars, lost, turns>>

Ids == 1..MaxMessages
NoCmd == [kind |-> "none", arg |-> Nothing, before |-> 0, sure |-> TRUE, fit |-> TRUE]
Cmd(kind, arg) == [NoCmd EXCEPT !.kind = kind, !.arg = arg]
Event(kind, arg) == [kind |-> kind, arg |-> arg, id |-> 0]
Text(m) == [kind |-> "message", arg |-> log[m], id |-> m]

Idle == [cmd |-> NoCmd, step |-> "idle", todo |-> {}]
NewClient == [logged |-> FALSE, online |-> FALSE, guild |-> Nothing, chan |-> Nothing,
              known |-> [c \in Channels |-> Nothing], strays |-> {}, seen |-> {}]
EmptyView == [main |-> FALSE, told |-> FALSE, waved |-> FALSE, shaky |-> FALSE,
              crossed |-> FALSE, guild |-> Nothing, chan |-> Nothing, guilds |-> {},
              channels |-> {}]
NoScreen == [c \in Channels |-> <<>>]
NoIds == [c \in Channels |-> {}]

Init ==
  /\ view = EmptyView /\ screen = NoScreen /\ ids = NoIds
  /\ cmds = <<>> /\ call = Idle /\ client = NewClient
  /\ ring = <<>> /\ fwd = "none" /\ inbox = <<>>
  /\ mine = Home /\ log = Past /\ lost = {}
  /\ turns = 0

ChannelsOf(g) == {c \in Channels : GuildOf[c] = g}

Turn == turns < MaxTurns /\ turns' = turns + 1

-----------------------------------------------------------------------------
(* The queues                                                              *)

\* Mutant of Queued: the queue has no bound.
QueuedAlways(q, cmd) == Append(q, cmd)

\* Mutant of Queued: what the user sends does not wait for what was asked before.
QueuedSendFirst(q, cmd) ==
  IF Len(q) = QueueSize THEN q ELSE IF cmd.kind = "send" THEN <<cmd>> \o q ELSE Append(q, cmd)

\* queue_command: what does not fit is dropped.
Queued(q, cmd) == IF Len(q) < QueueSize THEN Append(q, cmd) ELSE q
Queue(cmd) == cmds' = Queued(cmds, cmd)

\* The commands that list what a guild has.
QueueGuild(g) == cmds' = Queued(Queued(cmds, Cmd("channels", g)), Cmd("members", g))

\* The view v with channel c selected, and with the list of its guild asked for.
Selected(v, c) ==
  [v EXCEPT !.chan = c, !.shaky = (Len(cmds) = QueueSize), !.crossed = FALSE]
Asked(v) == [v EXCEPT !.crossed = @ \/ v.chan \notin ChannelsOf(v.guild) \union {Nothing}]

\* ui_tx.try_send
Post(event) ==
  /\ inbox' = IF Len(inbox) < InboxSize THEN Append(inbox, event) ELSE inbox
  /\ lost' = IF Len(inbox) < InboxSize THEN lost ELSE lost \union {event.id}

\* What the client sends on its broadcast: nobody's, if the forwarder has ended, and
\* the end of a forwarder that is behind by the whole ring.
Emit(event) ==
  LET heard == fwd = "running" /\ Len(ring) < Ring
      gone == {event.id} \union {ring[i].id : i \in DOMAIN ring}
  IN
  /\ ring' = IF heard THEN Append(ring, event) ELSE <<>>
  /\ fwd' = IF fwd = "running" /\ ~ heard THEN "over" ELSE fwd
  /\ lost' = IF heard THEN lost ELSE lost \union (gone \intersect Ids)

\* The forwarder hands the next event on.
Forward ==
  /\ fwd = "running" /\ ring # <<>>
  /\ Post(Head(ring))
  /\ ring' = Tail(ring)
  /\ UNCHANGED <<windowVars, cmds, backVars, fwd, worldVars, turns>>

-----------------------------------------------------------------------------
(* The window works off an event: process_ui_events                        *)

On(kind) == inbox # <<>> /\ Head(inbox).kind = kind /\ inbox' = Tail(inbox)

HandleLoginOk ==
  /\ On("ok")
  /\ view' = [EmptyView EXCEPT !.main = TRUE]
  /\ screen' = NoScreen /\ ids' = NoIds
  /\ lost' = lost \union UNION {Range(screen[c]) : c \in Channels}
  /\ Queue(Cmd("guilds", Nothing))
  /\ UNCHANGED <<backVars, lineVars, worldVars, turns>>

HandleJoined ==
  LET g == Head(inbox).arg IN
  /\ On("joined")
  /\ view' = [view EXCEPT !.guild = g, !.chan = Nothing, !.channels = {}]
  /\ QueueGuild(g)
  /\ UNCHANGED <<screen, ids, backVars, lineVars, worldVars, lost, turns>>

\* A sign-in or a message failed, or the error's text speaks of 401, 403 and the
\* like: then the window goes back to the sign-in page.
HandleError ==
  /\ \/ On("banner") /\ view' = [view EXCEPT !.told = TRUE, !.waved = FALSE]
     \/ On("reauth") /\ view' = [view EXCEPT !.told = TRUE, !.waved = FALSE, !.main = FALSE]
  /\ UNCHANGED <<screen, ids, cmds, backVars, lineVars, worldVars, lost, turns>>

HandleMessage ==
  LET c == Head(inbox).arg  m == Head(inbox).id IN
  /\ On("message")
  /\ \/ m \in ids[c] /\ UNCHANGED <<screen, ids, lost>>
     \/ /\ m \notin ids[c]
        /\ ids' = [ids EXCEPT ![c] = @ \union {m}]
        /\ \E k \in 0..Len(screen[c]) :
             LET earlier == SubSeq(screen[c], 1, k)
                 later == SubSeq(screen[c], k + 1, Len(screen[c]))
             IN
             /\ \A i \in DOMAIN earlier : earlier[i] < m
             /\ \A i \in DOMAIN later : later[i] > m
             /\ screen' = [screen EXCEPT ![c] = earlier \o <<m>> \o later]
        /\ lost' = lost \ {m}
  /\ UNCHANGED <<view, cmds, backVars, lineVars, worldVars, turns>>

HandleGuild ==
  LET g == Head(inbox).arg
      known == [view EXCEPT !.guilds = @ \union {g}]
  IN
  /\ On("guild")
  /\ \/ view.guild # Nothing /\ view' = known /\ UNCHANGED cmds
     \/ /\ view.guild = Nothing
        /\ view' = Asked([known EXCEPT !.guild = g, !.channels = {}])
        /\ QueueGuild(g)
  /\ UNCHANGED <<screen, ids, backVars, lineVars, worldVars, lost, turns>>

\* The channel's guild is not looked at.
HandleChannel ==
  LET c == Head(inbox).arg
      listed == [view EXCEPT !.channels = @ \union {c}]
  IN
  /\ On("channel")
  /\ \/ /\ c \in view.channels \/ view.chan # Nothing
        /\ view' = listed /\ UNCHANGED cmds
     \/ /\ c \notin view.channels /\ view.chan = Nothing
        /\ Queue(Cmd("select", c))
        /\ view' = Selected(listed, c)
  /\ UNCHANGED <<screen, ids, backVars, lineVars, worldVars, lost, turns>>

Handle ==
  \/ HandleLoginOk \/ HandleJoined \/ HandleError \/ HandleMessage
  \/ HandleGuild \/ HandleChannel

-----------------------------------------------------------------------------
(* The user                                                                *)

Click ==
  /\ Turn
  /\ UNCHANGED <<screen, ids, backVars, lineVars, inbox, worldVars, lost>>

\* try_login; nothing keeps the user from clicking twice.
SignIn ==
  /\ Click /\ ~ view.main
  /\ Queue(Cmd("login", Nothing))
  /\ view' = [view EXCEPT !.told = FALSE, !.waved = FALSE]

SignOut ==
  /\ Click /\ view.main
  /\ view' = [view EXCEPT !.main = FALSE, !.told = FALSE, !.waved = FALSE]
  /\ UNCHANGED cmds

\* show_status_banner: its button takes the banner off either page, and does no more.
Dismiss ==
  /\ view.told
  /\ view' = [view EXCEPT !.told = FALSE, !.waved = TRUE]
  /\ UNCHANGED <<screen, ids, cmds, backVars, lineVars, inbox, worldVars, lost, turns>>

ClickGuild(g) ==
  /\ Click /\ view.main /\ g \in view.guilds
  /\ view' = [view EXCEPT !.guild = g, !.chan = Nothing, !.channels = {}]
  /\ QueueGuild(g)

ClickChannel(c) ==
  /\ Click /\ view.main /\ c \in view.channels
  /\ Queue(Cmd("select", c))
  /\ view' = Selected(view, c)

\* refresh_selected_guild_navigation
Refresh ==
  /\ Click /\ view.main /\ view.guild # Nothing
  /\ QueueGuild(view.guild)
  /\ view' = Asked(view)

LoadOlder ==
  /\ Click /\ view.main /\ view.chan # Nothing /\ screen[view.chan] # <<>>
  /\ Queue([Cmd("older", view.chan) EXCEPT !.before = Head(screen[view.chan])])
  /\ UNCHANGED view

\* Messages the user has sent and the server may still take.
Unsent ==
  Cardinality({i \in DOMAIN cmds : cmds[i].kind = "send"})
    + IF call.cmd.kind = "send" THEN 1 ELSE 0

\* try_send_current_composer; the command carries, as history, what the window showed.
Compose ==
  /\ view.main /\ view.chan \in view.channels
  /\ Len(log) + Unsent < MaxMessages
  /\ Queue([Cmd("send", view.chan) EXCEPT !.sure = ~ view.shaky,
                                          !.fit = ~ view.crossed])
  /\ UNCHANGED <<windowVars, backVars, lineVars, inbox, worldVars, lost, turns>>

JoinInvite(g) ==
  /\ Click /\ view.main
  /\ Queue(Cmd("join", g))
  /\ UNCHANGED view

-----------------------------------------------------------------------------
(* The backend                                                             *)

At(kinds, step) == call.cmd.kind \in kinds /\ call.step = step
Goto(step) == call' = [call EXCEPT !.step = step]
End == call' = Idle

\* The backend takes the next command, if it is of that kind.
Take(kind) == call = Idle /\ cmds # <<>> /\ Head(cmds).kind = kind /\ cmds' = Tail(cmds)
Wait(step) == call' = [Idle EXCEPT !.cmd = Head(cmds), !.step = step]

\* What a command has found goes to the window.
Out(events) == call' = IF events = {} THEN Idle ELSE [Idle EXCEPT !.step = "emit",
  !.todo = events]

\* Mutant of Tell: of a sign-in that failed the window hears nothing.
TellNoSignIn(kind) ==
  \/ kind = "send" /\ Post(Event("banner", Nothing))
  \/ kind # "send" /\ UNCHANGED <<inbox, lost>>
  \/ Post(Event("reauth", Nothing))

\* Of a sign-in or a message that failed the window hears in any case, of others only
\* when it has to go back to the sign-in page.
Tell(kind) ==
  \/ kind \in {"login", "send"} /\ Post(Event("banner", Nothing))
  \/ kind \notin {"login", "send"} /\ UNCHANGED <<inbox, lost>>
  \/ Post(Event("reauth", Nothing))

\* The first request of a command fails, or a later one.
FailFirst ==
  /\ Turn
  /\ \E kind \in {"login", "guilds", "members", "join"} : Take(kind) /\ Tell(kind)
  /\ UNCHANGED <<windowVars, backVars, lineVars, worldVars>>

Fail ==
  /\ Turn
  /\ \/ \E step \in {"connect", "register", "keys"} : At({"login"}, step)
     \/ At({"channels", "select", "older", "join"}, "fetch") \/ At({"send", "join"}, "post")
     \/ At({"select"}, "open")
  /\ Tell(call.cmd.kind) /\ End
  /\ UNCHANGED <<windowVars, cmds, client, lineVars, worldVars>>

\* active_context: what is selected in the client.
Context ==
  IF client.guild = Nothing THEN client.known[client.chan] ELSE client.guild

\* The client's selection moves to channel c, and to its guild if the client knows it.
Select(c) ==
  LET known == client.known[c] IN
  [client EXCEPT !.chan = c, !.guild = IF known = Nothing THEN @ ELSE known]

\* Nobody is logged in, or nothing is selected: no fault, and no cause to sign in again.
Refuse ==
  /\ \E kind \in {"guilds", "channels", "members", "select", "older", "send", "join"} :
       /\ Take(kind)
       /\ ~ client.logged \/ (kind = "send" /\ (client.chan = Nothing \/ Context = Nothing))
       /\ IF kind = "send" THEN Post(Event("banner", Nothing)) ELSE UNCHANGED <<inbox, lost>>
       /\ client' = IF kind = "select" THEN Select(Head(cmds).arg) ELSE client
  /\ UNCHANGED <<windowVars, call, lineVars, worldVars, turns>>

\* Mutant of BindClient: the new client takes over what the old one has handled.
BindClientKeepsSeen ==
  /\ Take("login") /\ Wait("connect")
  /\ client' = [NewClient EXCEPT !.seen = client.seen] /\ ring' = <<>> /\ fwd' = "running"
  /\ UNCHANGED <<windowVars, inbox, worldVars, lost, turns>>

\* The user's id is fetched, a new client built, the old one's forwarder aborted, and one
\* spawned for it.
BindClient ==
  /\ Take("login") /\ Wait("connect")
  /\ client' = NewClient /\ ring' = <<>> /\ fwd' = "running"
  /\ UNCHANGED <<windowVars, inbox, worldVars, lost, turns>>

\* login: who the user is, and the websocket.
Connect ==
  /\ At({"login"}, "connect") /\ Goto("register")
  /\ client' = [client EXCEPT !.online = TRUE]
  /\ UNCHANGED <<windowVars, cmds, lineVars, inbox, worldVars, lost, turns>>

\* login: the device, without which there is no session().
Register ==
  /\ At({"login"}, "register") /\ Goto("keys")
  /\ client' = [client EXCEPT !.logged = TRUE]
  /\ UNCHANGED <<windowVars, cmds, lineVars, inbox, worldVars, lost, turns>>

\* login: a key package for each guild; then the window hears of it.
UploadKeys ==
  /\ At({"login"}, "keys") /\ End
  /\ Post(Event("ok", Nothing))
  /\ UNCHANGED <<windowVars, cmds, client, lineVars, worldVars, turns>>

ListGuilds ==
  /\ \/ Take("guilds") /\ client.logged
     \/ At({"join"}, "fetch") /\ UNCHANGED cmds
  /\ Out({Event("guild", g) : g \in mine})
  /\ UNCHANGED <<windowVars, client, lineVars, inbox, worldVars, lost, turns>>

\* join_with_invite; the key package may fail to be sent when the membership stands.
Join ==
  /\ Take("join") /\ client.logged /\ Wait("post")
  /\ mine' = mine \union {Head(cmds).arg}
  /\ UNCHANGED <<windowVars, client, lineVars, inbox, log, lost, turns>>

Joined ==
  /\ At({"join"}, "post") /\ Goto("fetch")
  /\ Post(Event("joined", call.cmd.arg))
  /\ UNCHANGED <<windowVars, cmds, client, lineVars, worldVars, turns>>

\* channel_guilds, when guild g's channels have been listed.
Listed(g) ==
  [client EXCEPT !.known = [c \in Channels |-> IF GuildOf[c] = g THEN g ELSE @[c]]]

StartListChannels ==
  /\ Take("channels") /\ client.logged /\ Wait("fetch")
  /\ client' = [client EXCEPT !.guild = Head(cmds).arg]
  /\ UNCHANGED <<windowVars, lineVars, inbox, worldVars, lost, turns>>

ListChannels ==
  /\ At({"channels"}, "fetch")
  /\ client' = Listed(call.cmd.arg)
  /\ Out({Event("channel", c) : c \in ChannelsOf(call.cmd.arg)})
  /\ UNCHANGED <<windowVars, cmds, lineVars, inbox, worldVars, lost, turns>>

\* The members are left out.
ListMembers ==
  /\ Take("members") /\ client.logged
  /\ UNCHANGED <<windowVars, backVars, lineVars, inbox, worldVars, lost, turns>>

\* As history: the client takes channel c for one of another guild.
Strayed(cl, c) ==
  [cl EXCEPT !.strays =
     IF cl.known[c] = Nothing /\ cl.guild \notin {Nothing, GuildOf[c]} THEN @ \union {c} ELSE @]

\* fetch_messages: a channel the client knows no guild of is the selected guild's.
Placed(cl, c) ==
  [Strayed(cl, c) EXCEPT !.known[c] = IF @ = Nothing THEN cl.guild ELSE @]

\* Mutant of StartSelect: the guild stays the one whose channels were listed last.
StartSelectKeepsGuild ==
  /\ Take("select") /\ client.logged
  /\ client' = Strayed([client EXCEPT !.chan = Head(cmds).arg], Head(cmds).arg)
  /\ IF client'.guild = Nothing THEN End ELSE Wait("open")
  /\ UNCHANGED <<windowVars, lineVars, inbox, worldVars, lost, turns>>

\* select_channel: then the channel's group is created or opened (Onboarding).
StartSelect ==
  LET c == Head(cmds).arg IN
  /\ Take("select") /\ client.logged
  /\ client' = Strayed(Select(c), c)
  /\ IF client'.guild = Nothing THEN End ELSE Wait("open")
  /\ UNCHANGED <<windowVars, lineVars, inbox, worldVars, lost, turns>>

\* When that is done, the channel's messages are asked for.
FetchSelected ==
  /\ At({"select"}, "open") /\ Goto("fetch")
  /\ client' = Placed(client, call.cmd.arg)
  /\ UNCHANGED <<windowVars, cmds, lineVars, inbox, worldVars, lost, turns>>

StartLoadOlder ==
  /\ Take("older") /\ client.logged /\ Wait("fetch")
  /\ client' = Placed(client, Head(cmds).arg)
  /\ UNCHANGED <<windowVars, lineVars, inbox, worldVars, lost, turns>>

\* The last messages of a channel before the given one.
PageBefore(c, before, size) ==
  LET older == {m \in DOMAIN log : log[m] = c /\ (before = 0 \/ m < before)} IN
  {m \in older : Cardinality({n \in older : n > m}) < size}

FetchMessages ==
  /\ At({"select", "older"}, "fetch")
  /\ Out({Text(m) : m \in PageBefore(call.cmd.arg, call.cmd.before, Page)})
  /\ UNCHANGED <<windowVars, cmds, client, lineVars, inbox, worldVars, lost, turns>>

StartSend ==
  /\ Take("send") /\ client.logged /\ client.chan # Nothing /\ Context # Nothing
  /\ Wait("post")
  /\ UNCHANGED <<windowVars, client, lineVars, inbox, worldVars, lost, turns>>

\* The newest message, one of channel c, comes over the socket.
Arrive(c) ==
  LET m == Len(log) + 1 IN
  /\ client' = [client EXCEPT !.seen = @ \union {m}]
  /\ Emit([kind |-> "message", arg |-> c, id |-> m])

\* The server takes a message only with the channel's own guild.  The client has it
\* back over the socket, fetches it when it has none, or misses it when it loses its
\* socket meanwhile.
Send ==
  /\ At({"send"}, "post")
  /\ \/ /\ Context = GuildOf[client.chan]
        /\ log' = Append(log, client.chan)
        /\ \/ client.online /\ End /\ Arrive(client.chan)
           \/ client.online /\ End /\ UNCHANGED <<client, lineVars, lost>>
           \/ ~ client.online /\ Goto("echo") /\ UNCHANGED <<client, lineVars, lost>>
        /\ UNCHANGED inbox
     \/ /\ Context # GuildOf[client.chan]
        /\ Post(Event("banner", Nothing))
        /\ End /\ UNCHANGED <<client, lineVars, log>>
  /\ UNCHANGED <<windowVars, cmds, mine, turns>>

FetchOwn ==
  /\ At({"send"}, "echo")
  /\ Out({Text(m) : m \in PageBefore(client.chan, 0, 1)})
  /\ client' = Placed(client, client.chan)
  /\ UNCHANGED <<windowVars, cmds, lineVars, inbox, worldVars, lost, turns>>

\* One by one, in whatever order; a message the client has handled before does not go
\* out again.
EmitNext ==
  /\ call.step = "emit"
  /\ \E event \in call.todo :
       /\ Out(call.todo \ {event})
       /\ IF event.id \in client.seen THEN UNCHANGED <<lineVars, lost>> ELSE Emit(event)
       /\ client' = [client EXCEPT !.seen = @ \union ({event.id} \intersect Ids)]
  /\ UNCHANGED <<windowVars, cmds, inbox, worldVars, turns>>

Backend ==
  \/ FailFirst \/ Fail \/ Refuse \/ BindClient \/ Connect \/ Register \/ UploadKeys
  \/ ListGuilds \/ Join \/ Joined \/ StartListChannels \/ ListChannels \/ ListMembers
  \/ StartSelect \/ FetchSelected \/ StartLoadOlder \/ FetchMessages
  \/ StartSend \/ Send \/ FetchOwn \/ EmitNext

-----------------------------------------------------------------------------
(* The websocket, the others, and what the client does by itself           *)

\* Someone writes, and the socket brings it.
OtherPosts(c) ==
  /\ Len(log) + Unsent < MaxMessages
  /\ client.online /\ GuildOf[c] \in mine
  /\ log' = Append(log, c)
  /\ Arrive(c)
  /\ UNCHANGED <<windowVars, cmds, call, inbox, mine, turns>>

\* An error of a background task of the client that speaks of 401 or 403.
BackgroundError ==
  /\ Turn /\ client.online
  /\ Emit(Event("reauth", Nothing))
  /\ UNCHANGED <<windowVars, cmds, backVars, inbox, worldVars>>

\* A welcome, or the member list of a guild, comes over the socket: the client learns
\* the guild of its channels.
Learn(g) ==
  /\ client.online /\ g \in mine
  /\ client' = Listed(g)
  /\ UNCHANGED <<windowVars, cmds, call, lineVars, inbox, worldVars, lost, turns>>

Hangup ==
  /\ Turn /\ client.online
  /\ client' = [client EXCEPT !.online = FALSE]
  /\ UNCHANGED <<windowVars, cmds, call, lineVars, inbox, worldVars, lost>>

Next ==
  \/ Handle \/ Forward \/ Backend
  \/ SignIn \/ SignOut \/ Dismiss \/ Refresh \/ LoadOlder \/ Compose
  \/ \E g \in Guilds : ClickGuild(g) \/ JoinInvite(g) \/ Learn(g)
  \/ \E c \in Channels : ClickChannel(c) \/ OtherPosts(c)
  \/ BackgroundError \/ Hangup

Spec == Init /\ [][Next]_vars

-----------------------------------------------------------------------------
(* Properties                                                              *)

Places == Guilds \union Channels \union {Nothing}
Cmds ==
  [kind : {"none", "login", "guilds", "channels", "members", "select", "older", "send", "join"},
   arg : Places, before : 0..MaxMessages, sure : BOOLEAN, fit : BOOLEAN]
Events ==
  [kind : {"ok", "joined", "banner", "reauth", "message", "guild", "channel", "members"},
   arg : Places, id : 0..MaxMessages]

TypeOK ==
  /\ view \in [main : BOOLEAN, told : BOOLEAN, waved : BOOLEAN, shaky : BOOLEAN,
               crossed : BOOLEAN, guild : Guilds \union {Nothing},
                 chan : Channels \union {Nothing},
               guilds : SUBSET Guilds, channels : SUBSET Channels]
  /\ screen \in [Channels -> Seq(Ids)] /\ ids \in [Channels -> SUBSET Ids]
  /\ cmds \in Seq(Cmds) /\ Len(cmds) <= QueueSize
  /\ call \in [cmd : Cmds, todo : SUBSET Events, step :
       {"idle", "connect", "register", "keys", "post", "open", "fetch", "echo", "emit"}]
  /\ client \in [logged : BOOLEAN, online : BOOLEAN, guild : Guilds \union {Nothing},
                 chan : Channels \union {Nothing}, known : [Channels -> Guilds \union {Nothing}],
                 strays : SUBSET Channels, seen : SUBSET Ids]
  /\ ring \in Seq(Events) /\ Len(ring) <= Ring /\ fwd \in {"none", "running", "over"}
  /\ inbox \in Seq(Events) /\ Len(inbox) <= InboxSize
  /\ mine \subseteq Guilds /\ log \in Seq(Channels) /\ Len(log) <= MaxMessages
  /\ lost \subseteq 0..MaxMessages
  /\ turns \in 0..MaxTurns

\* Though the window and the client select on their own, each in its own time, a
\* message goes to the channel that was on screen when the user sent it, unless the
\* command that selects it did not fit into the queue.
SendsWhereShown ==
  At({"send"}, "post") /\ call.cmd.sure => client.chan = call.cmd.arg

\* A message is sent, and the members brought into its group, for the guild of its
\* channel, though the window's list may mix two guilds, unless it has asked for
\* the other guild's list again since the channel was selected, or the client had
\* not listed the channel when it was: the list shown is of a client before, from
\* which sign-ins in a row have parted the window.
SendsFitGuild ==
  At({"send"}, "post") /\ call.cmd.sure /\ call.cmd.fit /\ client.chan \notin client.strays =>
    Context = GuildOf[client.chan]

OnTheWay(m) ==
  \E event \in Range(ring) \union Range(inbox) : event.kind = "message" /\ event.id = m

\* A message the client has shown, and will not show again, is on the screen or on
\* its way there, unless a full queue or the wipe of a sign-in has cost it.
ShownOrLost ==
  \A m \in client.seen : m \in Range(screen[log[m]]) \/ OnTheWay(m) \/ m \in lost

SigningIn == call.cmd.kind = "login" \/ \E i \in DOMAIN cmds : cmds[i].kind = "login"

\* Once nothing is under way, the main page has a client behind it that is logged in,
\* or says that it has not, or has said so and the user has dismissed it, however
\* often the user has clicked to sign in.
MainIsLoggedIn ==
  view.main /\ ~ view.told /\ ~ view.waved /\ inbox = <<>> /\ ~ SigningIn =>
    client.logged \/ 0 \in lost
=============================================================================
