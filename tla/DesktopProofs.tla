---------------------------- MODULE DesktopProofs ----------------------------
(***************************************************************************)
(* Proofs about Desktop, for any guilds, channels and sizes of the queues. *)
(*                                                                         *)
(* SendsWhereShown needs LeadInv: to which channel the commands that wait  *)
(* lead the client by the time it comes to a message.  SendsFitGuild needs *)
(* FitInv, the same of the guild, and KnownInv, about what the client      *)
(* takes for the guild of a channel.  ShownOrLost needs SeenInv: the ids   *)
(* of a list are on it.  MainIsLoggedIn needs SignInv: while the client is *)
(* not logged in, every success that waits in the inbox has a failure      *)
(* behind it, since only a sign-in says that it has succeeded (OkInv).     *)
(* TypeOK needs PostInv: there is room in the log for every message that   *)
(* waits.                                                                  *)
(***************************************************************************)
EXTENDS Desktop, FiniteSetTheorems, TLAPS

(* The parts of TypeOK. *)
Steps == {"idle", "connect", "register", "keys", "post", "open", "fetch", "echo", "emit"}
ViewSet ==
  [main : BOOLEAN, told : BOOLEAN, waved : BOOLEAN, shaky : BOOLEAN, crossed : BOOLEAN,
   guild : Guilds \union {Nothing}, chan : Channels \union {Nothing},
   guilds : SUBSET Guilds, channels : SUBSET Channels]
CallSet == [cmd : Cmds, todo : SUBSET Events, step : Steps]
ClientSet ==
  [logged : BOOLEAN, online : BOOLEAN, guild : Guilds \union {Nothing},
   chan : Channels \union {Nothing}, known : [Channels -> Guilds \union {Nothing}],
   strays : SUBSET Channels, seen : SUBSET Ids]
ViewTypes == view \in ViewSet
ScreenTypes == screen \in [Channels -> Seq(Ids)] /\ ids \in [Channels -> SUBSET Ids]
CmdTypes == cmds \in Seq(Cmds) /\ Len(cmds) <= QueueSize
BackTypes == call \in CallSet /\ client \in ClientSet
LineTypes ==
  /\ ring \in Seq(Events) /\ Len(ring) <= Ring /\ fwd \in {"none", "running", "over"}
  /\ inbox \in Seq(Events) /\ Len(inbox) <= InboxSize
WorldTypes == mine \subseteq Guilds /\ log \in Seq(Channels)
TallyTypes == lost \subseteq 0..MaxMessages /\ turns \in 0..MaxTurns

(* Commands, events and the client's selection name what there is. *)
GoodCmd(cmd) ==
  /\ cmd.kind \in {"channels", "members", "join"} => cmd.arg \in Guilds
  /\ cmd.kind \in {"select", "older", "send"} => cmd.arg \in Channels
GoodFor(l, event) ==
  /\ event.kind \in {"guild", "joined"} => event.arg \in Guilds
  /\ event.kind = "channel" => event.arg \in Channels
  /\ event.kind # "message" => event.id = 0
  /\ event.kind = "message" => event.id \in DOMAIN l /\ event.arg = l[event.id]
GoodEvent(event) == GoodFor(log, event)
CmdInv == GoodCmd(call.cmd) /\ \A i \in DOMAIN cmds : GoodCmd(cmds[i])
EventInv ==
  /\ \A i \in DOMAIN ring : GoodEvent(ring[i])
  /\ \A i \in DOMAIN inbox : GoodEvent(inbox[i])
  /\ \A event \in call.todo : GoodEvent(event)
CallInv ==
  /\ call.cmd.kind = "send" => client.chan \in Channels
  /\ call.cmd.kind = "login" => client.guild = Nothing /\ client.chan = Nothing
  /\ At({"login"}, "keys") => client.logged
  /\ call.step = "emit" => call.cmd = NoCmd

(* Only the sign-in itself says that it has succeeded. *)
OkInv ==
  /\ \A i \in DOMAIN ring : ring[i].kind # "ok"
  /\ \A event \in call.todo : event.kind # "ok"

(* The messages there are and those that the commands will make. *)
Sends(q) == Cardinality({i \in DOMAIN q : q[i].kind = "send"})
PostInv == Len(log) + Sends(cmds) + (IF At({"send"}, "post") THEN 1 ELSE 0) <= MaxMessages

(* What the client takes for a channel's guild is, or the channel has strayed. *)
KnownInv ==
  \A c \in Channels : client.known[c] \in {Nothing, GuildOf[c]} \/ c \in client.strays

(* With the commands q to come and channel chan selected, channel c is selected when *)
(* it is the n-th command's turn.                                                    *)
Moves == {"select", "login"}
Still(q, i, j) == \A k \in i..j : q[k].kind \notin Moves
Leads(q, chan, n, c) ==
  /\ \A j \in 1..(n - 1) : q[j].kind \in Moves /\ Still(q, j + 1, n - 1) =>
       q[j].kind = "select" /\ q[j].arg = c
  /\ Still(q, 1, n - 1) => chan = c
LeadsTo(n, c) == Leads(cmds, client.chan, n, c)
LeadInv ==
  /\ \A i \in DOMAIN cmds : cmds[i].kind = "send" /\ cmds[i].sure => LeadsTo(i, cmds[i].arg)
  /\ view.main /\ view.chan # Nothing /\ ~ view.shaky => LeadsTo(Len(cmds) + 1, view.chan)
  /\ At({"send"}, "post") /\ call.cmd.sure => client.chan = call.cmd.arg

(* And no guild that is not the channel's own, where cl is the client by now. *)
FitsIn(q, cl, n, c) ==
  /\ \A j \in 1..(n - 1) : q[j].kind = "channels" /\ Still(q, j + 1, n - 1) =>
       q[j].arg = GuildOf[c]
  /\ Still(q, 1, n - 1) /\ cl.logged /\ c \notin cl.strays =>
       cl.guild \in {Nothing, GuildOf[c]}
Fits(n, c) == FitsIn(cmds, client, n, c)
FitInv ==
  /\ \A i \in DOMAIN cmds : cmds[i].kind = "send" /\ cmds[i].sure /\ cmds[i].fit =>
       Fits(i, cmds[i].arg)
  /\ view.main /\ view.chan # Nothing /\ ~ view.shaky /\ ~ view.crossed =>
       Fits(Len(cmds) + 1, view.chan)
  /\ At({"send"}, "post") /\ call.cmd.sure /\ call.cmd.fit /\ client.chan \notin client.strays =>
       Context = GuildOf[client.chan]

(* What a list has shown it shows until it is wiped. *)
SeenInv ==
  /\ client.seen \subseteq DOMAIN log
  /\ \A c \in Channels : ids[c] \subseteq Range(screen[c])
  /\ ShownOrLost

(* While the client is not logged in, events q leave window v in no doubt of it: of any *)
(* success it hears that a later sign-in has failed.                                    *)
Answered(q, i) == \E j \in DOMAIN q : j > i /\ q[j].kind \in {"banner", "reauth"}
Sober(q, v) ==
  /\ v.main /\ ~ v.told /\ ~ v.waved => Answered(q, 0)
  /\ \A i \in DOMAIN q : q[i].kind = "ok" => Answered(q, i)
SignInv ==
  ~ client.logged /\ call.cmd.kind # "login" /\ 0 \notin lost => Sober(inbox, view)

-----------------------------------------------------------------------------
(* Sequences, commands, events and the client                              *)

\* The type invariant, in the parts that are proved one by one.
LEMMA TypeParts ==
  TypeOK <=> /\ ViewTypes /\ ScreenTypes /\ CmdTypes /\ BackTypes
             /\ LineTypes /\ WorldTypes /\ TallyTypes /\ Len(log) <= MaxMessages
BY DEF TypeOK, ViewTypes, ScreenTypes, CmdTypes, BackTypes, LineTypes, WorldTypes, TallyTypes,
       ViewSet, CallSet, ClientSet, Steps

\* The sizes are numbers, and no queue has none.
LEMMA Sizes ==
  /\ QueueSize \in Nat /\ InboxSize \in Nat /\ Ring \in Nat
  /\ QueueSize > 0 /\ InboxSize > 0 /\ Ring > 0
  /\ MaxMessages \in Nat /\ MaxTurns \in Nat
BY BoundAssumption

\* What is left of a queue when its first element is taken.
LEMMA TailFacts ==
  ASSUME NEW S, NEW s \in Seq(S), s # <<>>
  PROVE  /\ Tail(s) \in Seq(S) /\ Head(s) = s[1] /\ Head(s) \in S /\ 1 \in DOMAIN s
         /\ Len(s) \in Nat /\ Len(s) > 0 /\ Len(Tail(s)) = Len(s) - 1
         /\ DOMAIN s = 1..Len(s) /\ DOMAIN Tail(s) = 1..(Len(s) - 1)
         /\ \A i \in 1..(Len(s) - 1) : Tail(s)[i] = s[i + 1]
OBVIOUS

\* A queue with an element put at its end.
LEMMA AppendFacts ==
  ASSUME NEW S, NEW s \in Seq(S), NEW e \in S
  PROVE  /\ Append(s, e) \in Seq(S) /\ Len(Append(s, e)) = Len(s) + 1 /\ Len(s) \in Nat
         /\ DOMAIN s = 1..Len(s) /\ DOMAIN Append(s, e) = 1..(Len(s) + 1)
         /\ \A i \in 1..Len(s) : Append(s, e)[i] = s[i]
         /\ Append(s, e)[Len(s) + 1] = e
OBVIOUS

\* The commands the window makes.
LEMMA CmdFacts ==
  /\ NoCmd \in Cmds
  /\ \A arg \in Places, kind \in {"login", "guilds", "channels", "members", "select", "older",
     "send", "join"} :
       Cmd(kind, arg) \in Cmds /\ Cmd(kind, arg).kind = kind /\ Cmd(kind, arg).arg = arg
  /\ \A cmd \in Cmds, m \in Ids, a, b \in BOOLEAN :
       /\ [cmd EXCEPT !.before = m] \in Cmds
       /\ [cmd EXCEPT !.sure = a, !.fit = b] \in Cmds
<1>1. 0 \in 0..MaxMessages /\ Ids \subseteq 0..MaxMessages
  BY Sizes DEF Ids
<1> QED
  BY <1>1 DEF NoCmd, Cmd, Cmds, Places

\* The events of a client and of the backend.
LEMMA EventFacts ==
  \A arg \in Places, kind \in {"ok", "joined", "banner", "reauth", "guild", "channel"} :
    /\ Event(kind, arg) \in Events
    /\ Event(kind, arg).kind = kind /\ Event(kind, arg).arg = arg /\ Event(kind, arg).id = 0
<1>1. 0 \in 0..MaxMessages
  BY Sizes
<1> QED
  BY <1>1 DEF Event, Events

\* A message of the log is an event, and names its own channel.
LEMMA TextFacts ==
  ASSUME WorldTypes, Len(log) <= MaxMessages, NEW m \in DOMAIN log
  PROVE  /\ Text(m) \in Events /\ GoodEvent(Text(m)) /\ m \in Ids
         /\ Text(m).kind = "message" /\ Text(m).id = m
<1>1. log[m] \in Channels /\ m \in 0..MaxMessages /\ m \in Ids
  BY Sizes DEF WorldTypes, Ids
<1> QED
  BY <1>1 DEF Text, Events, GoodEvent, GoodFor, Places

\* The queue of the commands grows at its end, while there is room.
LEMMA QueuedFacts ==
  ASSUME NEW q \in Seq(Cmds), Len(q) <= QueueSize, NEW cmd \in Cmds
  PROVE  /\ Queued(q, cmd) \in Seq(Cmds) /\ Len(Queued(q, cmd)) <= QueueSize
         /\ Len(Queued(q, cmd)) \in {Len(q), Len(q) + 1} /\ Len(q) \in Nat
         /\ \A i \in 1..Len(q) : Queued(q, cmd)[i] = q[i]
         /\ \A i \in (Len(q) + 1)..Len(Queued(q, cmd)) : Queued(q, cmd)[i] = cmd
         /\ Len(q) # QueueSize => Len(Queued(q, cmd)) = Len(q) + 1
<1>1. CASE Len(q) < QueueSize
  <2>1. Queued(q, cmd) = Append(q, cmd)
    BY <1>1 DEF Queued
  <2> QED
    BY <1>1, <2>1, Sizes, AppendFacts
<1>2. CASE ~ Len(q) < QueueSize
  <2>1. Queued(q, cmd) = q
    BY <1>2 DEF Queued
  <2>2. Len(q) \in Nat /\ Len(q) = QueueSize
    BY <1>2, Sizes
  <2> QED
    BY <2>1, <2>2
<1> QED
  BY <1>1, <1>2

\* What becomes of a client.
LEMMA ClientFacts ==
  ASSUME NEW cl \in ClientSet
  PROVE  /\ NewClient \in ClientSet
         /\ \A b \in BOOLEAN : [cl EXCEPT !.online = b] \in ClientSet
         /\ \A b \in BOOLEAN : [cl EXCEPT !.logged = b] \in ClientSet
         /\ \A g \in Guilds : [cl EXCEPT !.guild = g] \in ClientSet
         /\ \A x \in SUBSET Ids : [cl EXCEPT !.seen = cl.seen \union x] \in ClientSet
BY DEF ClientSet, NewClient

\* A selection may only make the channel a stray.
LEMMA StrayedFacts ==
  ASSUME NEW cl \in ClientSet, NEW c \in Channels
  PROVE  /\ Strayed(cl, c) \in ClientSet
         /\ Strayed(cl, c).logged = cl.logged /\ Strayed(cl, c).online = cl.online
         /\ Strayed(cl, c).guild = cl.guild /\ Strayed(cl, c).chan = cl.chan
         /\ Strayed(cl, c).seen = cl.seen /\ Strayed(cl, c).known = cl.known
         /\ cl.strays \subseteq Strayed(cl, c).strays
         /\ cl.known[c] = Nothing /\ cl.guild \notin {Nothing, GuildOf[c]}
            => c \in Strayed(cl, c).strays
<1> DEFINE t == IF cl.known[c] = Nothing /\ cl.guild \notin {Nothing, GuildOf[c]}
                THEN cl.strays \union {c} ELSE cl.strays
<1>1. Strayed(cl, c) = [cl EXCEPT !.strays = t]
  BY DEF Strayed, ClientSet
<1>2. t \in SUBSET Channels
  BY DEF ClientSet
<1>3. /\ cl.strays \subseteq t
      /\ cl.known[c] = Nothing /\ cl.guild \notin {Nothing, GuildOf[c]} => c \in t
  OBVIOUS
<1> HIDE DEF t
<1> QED
  BY <1>1, <1>2, <1>3 DEF ClientSet

\* fetch_messages only adds to the client what it takes for the channel's guild.
LEMMA PlacedFacts ==
  ASSUME NEW cl \in ClientSet, NEW c \in Channels
  PROVE  /\ Placed(cl, c) \in ClientSet
         /\ Placed(cl, c).logged = cl.logged /\ Placed(cl, c).online = cl.online
         /\ Placed(cl, c).guild = cl.guild /\ Placed(cl, c).chan = cl.chan
         /\ Placed(cl, c).seen = cl.seen /\ cl.strays \subseteq Placed(cl, c).strays
         /\ \A d \in Channels : d # c => Placed(cl, c).known[d] = cl.known[d]
         /\ Placed(cl, c).known[c] = IF cl.known[c] = Nothing THEN cl.guild ELSE cl.known[c]
         /\ cl.known[c] = Nothing /\ cl.guild \notin {Nothing, GuildOf[c]}
            => c \in Placed(cl, c).strays
<1> DEFINE k == IF cl.known[c] = Nothing THEN cl.guild ELSE cl.known[c]
           st == Strayed(cl, c)
<1>0. /\ st \in ClientSet /\ st.logged = cl.logged /\ st.online = cl.online
      /\ st.guild = cl.guild /\ st.chan = cl.chan /\ st.seen = cl.seen /\ st.known = cl.known
      /\ cl.strays \subseteq st.strays
      /\ cl.known[c] = Nothing /\ cl.guild \notin {Nothing, GuildOf[c]} => c \in st.strays
  BY StrayedFacts
<1>1. Placed(cl, c) = [st EXCEPT !.known = [cl.known EXCEPT ![c] = k]]
  <2> HIDE DEF st
  <2>1. Placed(cl, c) = [st EXCEPT !.known[c] = IF @ = Nothing THEN cl.guild ELSE @]
    BY DEF Placed, st
  <2> QED
    BY <1>0, <2>1 DEF ClientSet
<1> HIDE DEF st
<1>2. [cl.known EXCEPT ![c] = k] \in [Channels -> Guilds \union {Nothing}]
  BY DEF ClientSet
<1>4. \A d \in Channels : [cl.known EXCEPT ![c] = k][d] = IF d = c THEN k ELSE cl.known[d]
  BY DEF ClientSet
<1>5. k = IF cl.known[c] = Nothing THEN cl.guild ELSE cl.known[c]
  OBVIOUS
<1> HIDE DEF k
<1> QED
  BY <1>0, <1>1, <1>2, <1>4, <1>5 DEF ClientSet

\* The list of a guild's channels only settles whose those channels are.
LEMMA ListedFacts ==
  ASSUME client \in ClientSet, NEW g \in Guilds
  PROVE  /\ Listed(g) \in ClientSet
         /\ Listed(g).logged = client.logged /\ Listed(g).online = client.online
         /\ Listed(g).guild = client.guild /\ Listed(g).chan = client.chan
         /\ Listed(g).seen = client.seen /\ Listed(g).strays = client.strays
         /\ \A c \in Channels : Listed(g).known[c] = IF GuildOf[c] = g THEN g ELSE client.known[c]
<1> DEFINE k == [c \in Channels |-> IF GuildOf[c] = g THEN g ELSE client.known[c]]
<1>1. Listed(g) = [client EXCEPT !.known = k]
  BY DEF Listed, ClientSet
<1>2. k \in [Channels -> Guilds \union {Nothing}]
  BY DEF ClientSet
<1>3. \A c \in Channels : k[c] = IF GuildOf[c] = g THEN g ELSE client.known[c]
  OBVIOUS
<1> HIDE DEF k
<1> QED
  BY <1>1, <1>2, <1>3 DEF ClientSet

\* The selection moves to the channel, and to its guild when that is known.
LEMMA SelectFacts ==
  ASSUME client \in ClientSet, NEW c \in Channels
  PROVE  /\ Select(c) \in ClientSet
         /\ Select(c).logged = client.logged /\ Select(c).online = client.online
         /\ Select(c).guild = IF client.known[c] = Nothing THEN client.guild ELSE client.known[c]
         /\ Select(c).chan = c /\ Select(c).known = client.known
         /\ Select(c).seen = client.seen /\ Select(c).strays = client.strays
<1>1. client.known[c] \in Guilds \union {Nothing}
  BY DEF ClientSet
<1> QED
  BY <1>1 DEF Select, ClientSet

-----------------------------------------------------------------------------
(* Commands                                                                *)

\* The first event of the inbox, when the window works it off.
LEMMA OnFacts ==
  ASSUME LineTypes, EventInv, NEW kind, On(kind)
  PROVE  /\ Head(inbox) = inbox[1] /\ Head(inbox) \in Events /\ GoodEvent(Head(inbox))
         /\ Head(inbox).kind = kind /\ inbox # <<>> /\ inbox' = Tail(inbox)
<1>1. inbox \in Seq(Events) /\ inbox # <<>>
  BY DEF LineTypes, On
<1>2. Head(inbox) = inbox[1] /\ Head(inbox) \in Events /\ 1 \in DOMAIN inbox
  BY <1>1, TailFacts
<1> QED
  BY <1>2 DEF EventInv, On

\* The first command, when the backend takes it.
LEMMA TakeFacts ==
  ASSUME CmdTypes, CmdInv, NEW kind, Take(kind)
  PROVE  /\ Head(cmds) = cmds[1] /\ Head(cmds) \in Cmds /\ GoodCmd(Head(cmds))
            /\ 1 \in DOMAIN cmds
         /\ Head(cmds).kind = kind /\ cmds # <<>> /\ cmds' = Tail(cmds) /\ call = Idle
<1>1. cmds \in Seq(Cmds) /\ cmds # <<>>
  BY DEF CmdTypes, Take
<1>2. Head(cmds) = cmds[1] /\ Head(cmds) \in Cmds /\ 1 \in DOMAIN cmds
  BY <1>1, TailFacts
<1> QED
  BY <1>2 DEF CmdInv, Take

\* What a step does to the commands that wait.
Taken ==
  /\ call = Idle /\ cmds # <<>> /\ cmds' = Tail(cmds)
  /\ \/ FailFirst \/ Refuse \/ BindClient \/ ListGuilds \/ Join \/ StartListChannels
     \/ ListMembers \/ StartSelect \/ StartLoadOlder \/ StartSend
Asks == {cmd \in Cmds : GoodCmd(cmd)}

\* Everything a step does to the commands that wait.
LEMMA CmdsEffect ==
  ASSUME TypeOK, CmdInv, EventInv, [Next]_vars
  PROVE  \/ cmds' = cmds \/ Taken
         \/ \E cmd \in Asks : Queue(cmd) /\ (cmd.kind = "send" => Compose)
         \/ \E g \in Guilds : QueueGuild(g)
<1>0. ViewTypes /\ ScreenTypes /\ CmdTypes /\ LineTypes
  BY TypeParts
<1>1. Nothing \in Places /\ Guilds \subseteq Places /\ Channels \subseteq Places
  BY DEF Places
<1>2. \A kind \in {"login", "guilds"} :
        Cmd(kind, Nothing) \in Asks /\ Cmd(kind, Nothing).kind # "send"
  BY ZenonT(60), <1>1, CmdFacts DEF Asks, GoodCmd
<1>3. ASSUME NEW c \in Channels PROVE Cmd("select", c) \in Asks /\ Cmd("select", c).kind # "send"
  <2>1. c \in Places
    BY <1>1
  <2>2. Cmd("select", c) \in Cmds /\ Cmd("select", c).kind = "select" /\ Cmd("select", c).arg = c
    BY <2>1, CmdFacts
  <2> QED
    BY <2>2 DEF Asks, GoodCmd
<1>4. CASE UNCHANGED vars \/ HandleError \/ HandleMessage \/ Forward \/ SignOut \/ Dismiss
  BY <1>4 DEF vars, HandleError, HandleMessage, Forward, SignOut, Dismiss
<1>5. CASE HandleLoginOk \/ SignIn
  BY <1>2, <1>5 DEF HandleLoginOk, SignIn
<1>6. CASE HandleJoined
  <2>1. Head(inbox).arg \in Guilds
    BY <1>0, <1>6, OnFacts DEF HandleJoined, GoodEvent, GoodFor
  <2> QED
    BY <1>6, <2>1 DEF HandleJoined
<1>7. CASE HandleGuild
  <2>1. Head(inbox).arg \in Guilds
    BY <1>0, <1>7, OnFacts DEF HandleGuild, GoodEvent, GoodFor
  <2> QED
    BY <1>7, <2>1 DEF HandleGuild
<1>8. CASE HandleChannel
  <2>1. Head(inbox).arg \in Channels
    BY <1>0, <1>8, OnFacts DEF HandleChannel, GoodEvent, GoodFor
  <2> QED
    BY <1>3, <1>8, <2>1 DEF HandleChannel
<1>9. CASE Refresh
  <2>1. view.guild \in Guilds
    BY <1>0, <1>9 DEF Refresh, ViewTypes, ViewSet
  <2> QED
    BY <1>9, <2>1 DEF Refresh
<1>10. CASE LoadOlder
  <2>1. view.chan \in Channels
    BY <1>0, <1>10 DEF LoadOlder, ViewTypes, ViewSet
  <2>2. screen[view.chan] \in Seq(Ids) /\ screen[view.chan] # <<>>
    BY <1>0, <1>10, <2>1 DEF LoadOlder, ScreenTypes
  <2>3. Head(screen[view.chan]) \in Ids
    BY <2>2, TailFacts
  <2> DEFINE cmd == [Cmd("older", view.chan) EXCEPT !.before = Head(screen[view.chan])]
  <2>4. Cmd("older", view.chan) \in Cmds /\ Cmd("older", view.chan).kind = "older"
          /\ Cmd("older", view.chan).arg = view.chan
    BY <1>1, <2>1, CmdFacts
  <2>5. cmd \in Cmds
    BY <2>3, <2>4, CmdFacts
  <2>6. cmd.kind = "older" /\ cmd.arg = view.chan
    BY <2>4 DEF Cmds
  <2>7. Queue(cmd)
    BY <1>10 DEF LoadOlder
  <2> HIDE DEF cmd
  <2> QED
    BY <2>1, <2>5, <2>6, <2>7 DEF Asks, GoodCmd
<1>11. CASE Compose
  <2>1. view.chan \in Channels
    BY <1>0, <1>11 DEF Compose, ViewTypes, ViewSet
  <2> DEFINE cmd == [Cmd("send", view.chan) EXCEPT !.sure = ~ view.shaky, !.fit = ~ view.crossed]
  <2>4. Cmd("send", view.chan) \in Cmds /\ Cmd("send", view.chan).kind = "send"
          /\ Cmd("send", view.chan).arg = view.chan
    BY <1>1, <2>1, CmdFacts
  <2>5. cmd \in Cmds
    BY <2>4 DEF Cmds
  <2>6. cmd.kind = "send" /\ cmd.arg = view.chan
    BY <2>4 DEF Cmds
  <2>7. Queue(cmd)
    BY <1>11 DEF Compose
  <2> HIDE DEF cmd
  <2> QED
    BY <1>11, <2>1, <2>5, <2>6, <2>7 DEF Asks, GoodCmd
<1>12. ASSUME NEW g \in Guilds, ClickGuild(g) \/ JoinInvite(g) \/ Learn(g)
       PROVE  \/ cmds' = cmds \/ QueueGuild(g)
              \/ \E cmd \in Asks : Queue(cmd) /\ (cmd.kind = "send" => Compose)
  <2>1. Cmd("join", g) \in Asks /\ Cmd("join", g).kind # "send"
    BY <1>1, CmdFacts DEF Asks, GoodCmd
  <2> QED
    BY <1>12, <2>1 DEF ClickGuild, JoinInvite, Learn
<1>13. ASSUME NEW c \in Channels, ClickChannel(c) \/ OtherPosts(c)
       PROVE  \/ cmds' = cmds
              \/ \E cmd \in Asks : Queue(cmd) /\ (cmd.kind = "send" => Compose)
  BY <1>3, <1>13 DEF ClickChannel, OtherPosts
<1>14. CASE BackgroundError \/ Hangup
  BY <1>14 DEF BackgroundError, Hangup
<1>15. CASE Backend
  <2>1. ASSUME NEW kind, Take(kind) PROVE call = Idle /\ cmds # <<>> /\ cmds' = Tail(cmds)
    BY <2>1 DEF Take
  <2>2. CASE FailFirst \/ Refuse \/ BindClient \/ (ListGuilds /\ cmds' # cmds) \/ Join
    <3>1. \E kind : Take(kind)
      BY <2>2 DEF FailFirst, Refuse, BindClient, ListGuilds, Join
    <3> QED
      BY <2>1, <2>2, <3>1 DEF Taken
  <2>4. CASE StartListChannels \/ ListMembers \/ StartSelect \/ StartLoadOlder \/ StartSend
    <3>1. \E kind : Take(kind)
      BY <2>4 DEF StartListChannels, ListMembers, StartSelect, StartLoadOlder, StartSend
    <3> QED
      BY <2>1, <2>4, <3>1 DEF Taken
  <2>3. CASE Fail \/ Connect \/ Register \/ UploadKeys \/ Joined \/ ListChannels
          \/ FetchSelected \/ FetchMessages \/ Send \/ FetchOwn \/ EmitNext
    BY <2>3 DEF Fail, Connect, Register, UploadKeys, Joined, ListChannels, FetchSelected,
       FetchMessages, Send, FetchOwn, EmitNext
  <2> QED
    BY <1>15, <2>2, <2>3, <2>4 DEF Backend
<1> QED
  BY <1>4, <1>5, <1>6, <1>7, <1>8, <1>9, <1>10, <1>11, <1>12, <1>13, <1>14, <1>15 DEF Next, Handle

\* Two commands go into the queue for a guild.
LEMMA QueueGuildFacts ==
  ASSUME CmdTypes, NEW g \in Guilds, QueueGuild(g)
  PROVE  /\ cmds' \in Seq(Cmds) /\ Len(cmds') <= QueueSize /\ Len(cmds) \in Nat
         /\ Len(cmds') \in Len(cmds)..(Len(cmds) + 2)
         /\ \A i \in 1..Len(cmds) : cmds'[i] = cmds[i]
         /\ \A i \in (Len(cmds) + 1)..Len(cmds') :
              cmds'[i] = Cmd("channels", g) \/ cmds'[i] = Cmd("members", g)
<1> DEFINE a == Cmd("channels", g)  b == Cmd("members", g)  q == Queued(cmds, a)
<1>1. a \in Cmds /\ b \in Cmds /\ cmds \in Seq(Cmds) /\ Len(cmds) <= QueueSize
  BY CmdFacts DEF CmdTypes, Places
<1>2. cmds' = Queued(q, b)
  BY DEF QueueGuild
<1> HIDE DEF a, b
<1>3. /\ q \in Seq(Cmds) /\ Len(q) <= QueueSize /\ Len(q) \in {Len(cmds), Len(cmds) + 1}
         /\ Len(cmds) \in Nat
      /\ \A i \in 1..Len(cmds) : q[i] = cmds[i]
      /\ \A i \in (Len(cmds) + 1)..Len(q) : q[i] = a
  BY <1>1, QueuedFacts
<1> HIDE DEF q
<1>4. /\ cmds' \in Seq(Cmds) /\ Len(cmds') <= QueueSize /\ Len(cmds') \in {Len(q), Len(q) + 1}
      /\ \A i \in 1..Len(q) : cmds'[i] = q[i]
      /\ \A i \in (Len(q) + 1)..Len(cmds') : cmds'[i] = b
  BY <1>1, <1>2, <1>3, QueuedFacts
<1>5. \A i \in (Len(cmds) + 1)..Len(cmds') : cmds'[i] = a \/ cmds'[i] = b
  BY <1>3, <1>4
<1> QED
  BY <1>3, <1>4, <1>5 DEF a, b

\* The commands stay commands, name what there is, and fit into their queue.
LEMMA CmdTypesKept ==
  ASSUME TypeOK, CmdInv, EventInv, [Next]_vars
  PROVE  CmdTypes' /\ \A i \in DOMAIN cmds' : GoodCmd(cmds'[i])
<1>0. cmds \in Seq(Cmds) /\ Len(cmds) <= QueueSize /\ CmdTypes
  BY TypeParts DEF CmdTypes
<1>1. \A i \in DOMAIN cmds : GoodCmd(cmds[i])
  BY DEF CmdInv
<1>2. CASE cmds' = cmds
  BY <1>0, <1>1, <1>2 DEF CmdTypes
<1>3. CASE Taken
  <2>1. cmds # <<>> /\ cmds' = Tail(cmds)
    BY <1>3 DEF Taken
  <2>2. /\ cmds' \in Seq(Cmds) /\ Len(cmds') = Len(cmds) - 1 /\ DOMAIN cmds' = 1..(Len(cmds) - 1)
        /\ DOMAIN cmds = 1..Len(cmds) /\ Len(cmds) \in Nat
        /\ \A i \in 1..(Len(cmds) - 1) : cmds'[i] = cmds[i + 1]
    BY <1>0, <2>1, TailFacts
  <2>3. Len(cmds') <= QueueSize
    BY <1>0, <2>2, Sizes
  <2>4. \A i \in DOMAIN cmds' : i + 1 \in DOMAIN cmds
    BY <2>2
  <2> QED
    BY <1>1, <2>2, <2>3, <2>4 DEF CmdTypes
<1>4. ASSUME NEW cmd \in Asks, Queue(cmd)
      PROVE  CmdTypes' /\ \A i \in DOMAIN cmds' : GoodCmd(cmds'[i])
  <2>1. cmd \in Cmds /\ GoodCmd(cmd) /\ cmds' = Queued(cmds, cmd)
    BY <1>4 DEF Asks, Queue
  <2>2. /\ cmds' \in Seq(Cmds) /\ Len(cmds') <= QueueSize /\ Len(cmds) \in Nat
        /\ \A i \in 1..Len(cmds) : cmds'[i] = cmds[i]
        /\ \A i \in (Len(cmds) + 1)..Len(cmds') : cmds'[i] = cmd
    BY <1>0, <2>1, QueuedFacts
  <2>3. \A i \in DOMAIN cmds' : i \in DOMAIN cmds \/ i \in (Len(cmds) + 1)..Len(cmds')
    BY <1>0, <2>2
  <2>4. DOMAIN cmds = 1..Len(cmds)
    BY <1>0
  <2> QED
    BY <1>1, <2>1, <2>2, <2>3, <2>4 DEF CmdTypes
<1>5. ASSUME NEW g \in Guilds, QueueGuild(g)
      PROVE  CmdTypes' /\ \A i \in DOMAIN cmds' : GoodCmd(cmds'[i])
  <2>1. /\ cmds' \in Seq(Cmds) /\ Len(cmds') <= QueueSize /\ Len(cmds) \in Nat
        /\ \A i \in 1..Len(cmds) : cmds'[i] = cmds[i]
        /\ \A i \in (Len(cmds) + 1)..Len(cmds') :
             cmds'[i] = Cmd("channels", g) \/ cmds'[i] = Cmd("members", g)
    BY <1>0, <1>5, QueueGuildFacts
  <2>2. GoodCmd(Cmd("channels", g)) /\ GoodCmd(Cmd("members", g))
    <3>1. g \in Places
      BY DEF Places
    <3>2. /\ Cmd("channels", g).kind = "channels" /\ Cmd("channels", g).arg = g
          /\ Cmd("members", g).kind = "members" /\ Cmd("members", g).arg = g
      BY <3>1, CmdFacts
    <3> QED
      BY <3>2 DEF GoodCmd
  <2>3. \A i \in DOMAIN cmds' : i \in DOMAIN cmds \/ i \in (Len(cmds) + 1)..Len(cmds')
    BY <1>0, <2>1
  <2>4. DOMAIN cmds = 1..Len(cmds)
    BY <1>0
  <2> QED
    BY <1>1, <2>1, <2>2, <2>3, <2>4 DEF CmdTypes
<1> QED
  BY <1>2, <1>3, <1>4, <1>5, CmdsEffect

-----------------------------------------------------------------------------
(* Types                                                                   *)

\* Steps of the window, and steps of what is behind it.
WindowStep ==
  \/ Handle \/ SignIn \/ SignOut \/ Dismiss \/ Refresh \/ LoadOlder \/ Compose
  \/ \E g \in Guilds : ClickGuild(g) \/ JoinInvite(g)
  \/ \E c \in Channels : ClickChannel(c)
BackStep ==
  \/ Forward \/ Backend \/ BackgroundError \/ Hangup
  \/ \E g \in Guilds : Learn(g)
  \/ \E c \in Channels : OtherPosts(c)

\* The window touches only its own state, the queues and what is counted.
LEMMA WindowFrame ==
  ASSUME WindowStep
  PROVE  UNCHANGED <<backVars, lineVars, worldVars>>
BY DEF WindowStep, Handle, HandleLoginOk, HandleJoined, HandleError, HandleMessage, HandleGuild,
       HandleChannel, SignIn, SignOut, Dismiss, Refresh, LoadOlder, Compose, ClickGuild,
       JoinInvite, ClickChannel, Click

\* Nothing behind the window touches what it shows.
LEMMA BackFrame ==
  ASSUME BackStep
  PROVE  UNCHANGED windowVars
<1>1. CASE Forward \/ BackgroundError \/ Hangup \/ (\E g \in Guilds : Learn(g))
           \/ \E c \in Channels : OtherPosts(c)
  BY <1>1 DEF Forward, BackgroundError, Hangup, Learn, OtherPosts
<1>2. CASE Backend
  BY <1>2 DEF Backend, FailFirst, Fail, Refuse, BindClient, Connect, Register, UploadKeys,
       ListGuilds, Join, Joined, StartListChannels, ListChannels, ListMembers, StartSelect,
       FetchSelected, StartLoadOlder, FetchMessages, StartSend, Send, FetchOwn, EmitNext
<1> QED
  BY <1>1, <1>2 DEF BackStep

\* Every step is one of the window or one of what is behind it.
LEMMA StepKinds ==
  ASSUME [Next]_vars
  PROVE  UNCHANGED vars \/ WindowStep \/ BackStep
BY DEF Next, WindowStep, BackStep

\* The window selects guilds and channels that there are.
LEMMA ViewTypesKept ==
  ASSUME TypeOK, EventInv, [Next]_vars
  PROVE  ViewTypes'
<1>0. ViewTypes /\ LineTypes /\ view \in ViewSet
  BY TypeParts DEF ViewTypes
<1> USE DEF ViewTypes, ViewSet
<1>1. CASE view' = view
  BY <1>0, <1>1
<1>2. CASE HandleLoginOk
  BY <1>2 DEF HandleLoginOk, EmptyView
<1>3. CASE HandleJoined
  <2>1. Head(inbox).arg \in Guilds
    BY <1>0, <1>3, OnFacts DEF HandleJoined, GoodEvent, GoodFor
  <2> QED
    BY <1>0, <1>3, <2>1 DEF HandleJoined
<1>4. CASE HandleError \/ SignIn \/ SignOut \/ Dismiss
  BY <1>0, <1>4 DEF HandleError, SignIn, SignOut, Dismiss
<1>5. CASE HandleGuild
  <2>1. Head(inbox).arg \in Guilds
    BY <1>0, <1>5, OnFacts DEF HandleGuild, GoodEvent, GoodFor
  <2> QED
    <3> DEFINE g == Head(inbox).arg
               known == [view EXCEPT !.guilds = @ \union {g}]
               chosen == [known EXCEPT !.guild = g, !.channels = {}]
    <3>1. view' = known \/ view' = Asked(chosen)
      BY <1>5 DEF HandleGuild
    <3>2. known \in ViewSet
      BY <1>0, <2>1
    <3> HIDE DEF known
    <3>3. chosen \in ViewSet
      BY <2>1, <3>2
    <3> HIDE DEF chosen
    <3>4. Asked(chosen) \in ViewSet
      BY <3>3 DEF Asked
    <3> QED
      BY <3>1, <3>2, <3>4
<1>6. CASE HandleChannel
  <2>1. Head(inbox).arg \in Channels
    BY <1>0, <1>6, OnFacts DEF HandleChannel, GoodEvent, GoodFor
  <2> QED
    <3> DEFINE c == Head(inbox).arg
               listed == [view EXCEPT !.channels = @ \union {c}]
    <3>1. view' = listed \/ view' = Selected(listed, c)
      BY <1>6 DEF HandleChannel
    <3>2. listed \in ViewSet
      BY <1>0, <2>1
    <3> HIDE DEF listed
    <3>4. Selected(listed, c) \in ViewSet
      BY <2>1, <3>2 DEF Selected
    <3> QED
      BY <3>1, <3>2, <3>4
<1>7. CASE Refresh
  BY <1>0, <1>7 DEF Refresh, Asked
<1>8. ASSUME NEW g \in Guilds, ClickGuild(g) PROVE ViewTypes'
  BY <1>0, <1>8 DEF ClickGuild
<1>9. ASSUME NEW c \in Channels, ClickChannel(c) PROVE ViewTypes'
  BY <1>0, <1>9 DEF ClickChannel, Selected
<1>10. CASE HandleMessage \/ LoadOlder \/ Compose \/ \E g \in Guilds : JoinInvite(g)
  BY <1>1, <1>10 DEF HandleMessage, LoadOlder, Compose, JoinInvite, windowVars
<1>11. CASE BackStep \/ UNCHANGED vars
  BY <1>1, <1>11, BackFrame DEF vars, windowVars
<1> QED
  BY <1>2, <1>3, <1>4, <1>5, <1>6, <1>7, <1>8, <1>9, <1>10, <1>11, StepKinds
     DEF WindowStep, Handle

\* A list with a message put between its elements.
LEMMA InsertFacts ==
  ASSUME NEW s \in Seq(Ids), NEW k \in 0..Len(s), NEW m \in Ids
  PROVE  LET t == SubSeq(s, 1, k) \o <<m>> \o SubSeq(s, k + 1, Len(s)) IN
         t \in Seq(Ids) /\ m \in Range(t) /\ Range(s) \subseteq Range(t)
<1> DEFINE a == SubSeq(s, 1, k)  b == SubSeq(s, k + 1, Len(s))  t == a \o <<m>> \o b
<1>1. /\ a \in Seq(Ids) /\ Len(a) = k /\ \A i \in 1..k : a[i] = s[i]
      /\ b \in Seq(Ids) /\ Len(b) = Len(s) - k /\ \A i \in 1..(Len(s) - k) : b[i] = s[k + i]
  OBVIOUS
<1>2. <<m>> \in Seq(Ids) /\ Len(<<m>>) = 1 /\ <<m>>[1] = m
  OBVIOUS
<1> HIDE DEF a, b
<1>3. /\ a \o <<m>> \in Seq(Ids) /\ Len(a \o <<m>>) = k + 1 /\ (a \o <<m>>)[k + 1] = m
      /\ \A i \in 1..k : (a \o <<m>>)[i] = a[i]
  BY <1>1, <1>2
<1> DEFINE am == a \o <<m>>
<1>4. am \in Seq(Ids) /\ Len(am) = k + 1 /\ am[k + 1] = m /\ \A i \in 1..k : am[i] = a[i]
  BY <1>3
<1> HIDE DEF am
<1>5. /\ am \o b \in Seq(Ids) /\ Len(am \o b) = Len(s) + 1 /\ Len(s) \in Nat
      /\ \A i \in 1..(k + 1) : (am \o b)[i] = am[i]
      /\ \A i \in 1..(Len(s) - k) : (am \o b)[k + 1 + i] = b[i]
  BY <1>1, <1>4
<1>6. t = am \o b
  BY DEF am
<1> HIDE DEF t
<1>7. t \in Seq(Ids) /\ Len(t) = Len(s) + 1 /\ DOMAIN t = 1..(Len(s) + 1) /\ DOMAIN s = 1..Len(s)
  BY <1>5, <1>6
<1>8. m \in Range(t)
  <2>1. k + 1 \in DOMAIN t /\ t[k + 1] = m
    BY <1>4, <1>5, <1>6, <1>7
  <2> QED
    BY <2>1 DEF Range
<1>9. ASSUME NEW i \in 1..Len(s) PROVE \E j \in DOMAIN t : t[j] = s[i]
  <2>1. CASE i <= k
    <3>1. i \in DOMAIN t /\ t[i] = s[i]
      BY <1>1, <1>4, <1>5, <1>6, <1>7, <2>1
    <3> QED
      BY <3>1
  <2>2. CASE i > k
    <3>1. i - k \in 1..(Len(s) - k) /\ k + 1 + (i - k) = i + 1 /\ k + (i - k) = i
            /\ i + 1 \in DOMAIN t
      BY <1>5, <1>7, <2>2
    <3>2. t[i + 1] = b[i - k] /\ b[i - k] = s[i]
      BY <1>1, <1>5, <1>6, <3>1
    <3> QED
      BY <3>1, <3>2
  <2> QED
    BY <1>5, <2>1, <2>2
<1>10. Range(s) \subseteq Range(t)
  BY <1>7, <1>9 DEF Range
<1> QED
  BY <1>7, <1>8, <1>10 DEF t, a, b

\* A message the window works off is in the list of its channel, and all before stay.
LEMMA MessageFacts ==
  ASSUME TypeOK, EventInv, HandleMessage
  PROVE  LET c == Head(inbox).arg  m == Head(inbox).id IN
         /\ c \in Channels /\ m \in Ids /\ m \in DOMAIN log /\ log[m] = c
         /\ screen' \in [Channels -> Seq(Ids)] /\ ids' \in [Channels -> SUBSET Ids]
         /\ \A d \in Channels : Range(screen[d]) \subseteq Range(screen'[d])
         /\ \/ UNCHANGED <<screen, ids, lost>> /\ m \in ids[c]
            \/ /\ m \in Range(screen'[c]) /\ lost' = lost \ {m}
               /\ \A d \in Channels : ids'[d] = IF d = c THEN ids[d] \union {m} ELSE ids[d]
<1> DEFINE c == Head(inbox).arg  m == Head(inbox).id
<1>0. ScreenTypes /\ LineTypes /\ WorldTypes /\ Len(log) <= MaxMessages
  BY TypeParts
<1>1. GoodEvent(Head(inbox)) /\ Head(inbox).kind = "message"
  BY <1>0, OnFacts DEF HandleMessage
<1>2. m \in DOMAIN log /\ c = log[m]
  BY <1>1 DEF GoodEvent, GoodFor
<1>3. c \in Channels /\ m \in Ids
  BY <1>0, <1>2, TextFacts DEF WorldTypes
<1>4. screen[c] \in Seq(Ids) /\ ids[c] \subseteq Ids
  BY <1>0, <1>3 DEF ScreenTypes
<1>5. CASE m \in ids[c] /\ UNCHANGED <<screen, ids, lost>>
  BY <1>0, <1>2, <1>3, <1>5 DEF ScreenTypes
<1>6. ASSUME ids' = [ids EXCEPT ![c] = @ \union {m}], lost' = lost \ {m},
             NEW k \in 0..Len(screen[c]),
             screen' = [screen EXCEPT ![c] =
               SubSeq(screen[c], 1, k) \o <<m>> \o SubSeq(screen[c], k + 1, Len(screen[c]))]
      PROVE  /\ screen' \in [Channels -> Seq(Ids)] /\ ids' \in [Channels -> SUBSET Ids]
             /\ \A d \in Channels : Range(screen[d]) \subseteq Range(screen'[d])
             /\ m \in Range(screen'[c]) /\ lost' = lost \ {m}
             /\ \A d \in Channels : ids'[d] = IF d = c THEN ids[d] \union {m} ELSE ids[d]
  <2> DEFINE t == SubSeq(screen[c], 1, k) \o <<m>> \o SubSeq(screen[c], k + 1, Len(screen[c]))
  <2>1. t \in Seq(Ids) /\ m \in Range(t) /\ Range(screen[c]) \subseteq Range(t)
    BY <1>3, <1>4, InsertFacts
  <2>2. screen' = [screen EXCEPT ![c] = t]
    BY <1>6
  <2> HIDE DEF t, c, m
  <2>3. /\ screen' \in [Channels -> Seq(Ids)] /\ screen'[c] = t
        /\ \A d \in Channels : d # c => screen'[d] = screen[d]
    BY <1>0, <1>3, <2>1, <2>2 DEF ScreenTypes
  <2>4. /\ ids' \in [Channels -> SUBSET Ids]
        /\ \A d \in Channels : ids'[d] = IF d = c THEN ids[d] \union {m} ELSE ids[d]
    BY <1>0, <1>3, <1>6 DEF ScreenTypes
  <2> QED
    BY <1>6, <2>1, <2>3, <2>4
<1>7. \/ m \in ids[c] /\ UNCHANGED <<screen, ids, lost>>
      \/ /\ ids' = [ids EXCEPT ![c] = @ \union {m}] /\ lost' = lost \ {m}
         /\ \E k \in 0..Len(screen[c]) : screen' = [screen EXCEPT ![c] =
               SubSeq(screen[c], 1, k) \o <<m>> \o SubSeq(screen[c], k + 1, Len(screen[c]))]
  BY DEF HandleMessage
<1> HIDE DEF c, m
<1>8. CASE \E k \in 0..Len(screen[c]) : screen' = [screen EXCEPT ![c] =
             SubSeq(screen[c], 1, k) \o <<m>> \o SubSeq(screen[c], k + 1, Len(screen[c]))]
           /\ ids' = [ids EXCEPT ![c] = @ \union {m}] /\ lost' = lost \ {m}
  BY <1>2, <1>3, <1>6, <1>8 DEF c, m
<1> QED
  BY <1>5, <1>7, <1>8 DEF c, m

\* The lists on screen hold messages.
LEMMA ScreenTypesKept ==
  ASSUME TypeOK, EventInv, [Next]_vars
  PROVE  ScreenTypes'
<1>0. ScreenTypes
  BY TypeParts
<1>1. CASE UNCHANGED <<screen, ids>>
  BY <1>0, <1>1 DEF ScreenTypes
<1>2. CASE HandleMessage
  BY <1>2, MessageFacts DEF ScreenTypes
<1>3. CASE HandleLoginOk
  <2>1. <<>> \in Seq(Ids)
    OBVIOUS
  <2> QED
    BY <1>3, <2>1 DEF HandleLoginOk, NoScreen, NoIds, ScreenTypes
<1>4. CASE HandleJoined \/ HandleError \/ HandleGuild \/ HandleChannel \/ SignIn \/ SignOut
           \/ Dismiss \/ Refresh \/ LoadOlder \/ Compose
  BY <1>1, <1>4 DEF HandleJoined, HandleError, HandleGuild, HandleChannel, SignIn, SignOut,
       Dismiss, Refresh, LoadOlder, Compose, Click, windowVars
<1>5. CASE (\E g \in Guilds : ClickGuild(g) \/ JoinInvite(g))
        \/ \E c \in Channels : ClickChannel(c)
  BY <1>1, <1>5 DEF ClickGuild, JoinInvite, ClickChannel, Click
<1>6. CASE BackStep \/ UNCHANGED vars
  BY <1>1, <1>6, BackFrame DEF vars, windowVars
<1> QED
  BY <1>2, <1>3, <1>4, <1>5, <1>6, StepKinds DEF WindowStep, Handle

-----------------------------------------------------------------------------
(* Counting messages to come                                               *)

\* The messages in a queue can be counted.
LEMMA SendsFacts ==
  ASSUME NEW q \in Seq(Cmds)
  PROVE  IsFiniteSet({i \in DOMAIN q : q[i].kind = "send"}) /\ Sends(q) \in Nat
<1> DEFINE S == {i \in DOMAIN q : q[i].kind = "send"}
<1>1. S \subseteq 1..Len(q) /\ Len(q) \in Nat
  OBVIOUS
<1>2. IsFiniteSet(1..Len(q))
  BY <1>1, FS_Interval
<1>3. IsFiniteSet(S)
  BY <1>1, <1>2, FS_Subset
<1> QED
  BY <1>3, FS_CardinalityType DEF Sends

\* One more command, one more message if it is one.
LEMMA SendsAppend ==
  ASSUME NEW q \in Seq(Cmds), NEW cmd \in Cmds
  PROVE  Sends(Append(q, cmd)) = Sends(q) + IF cmd.kind = "send" THEN 1 ELSE 0
<1> DEFINE n == Len(q) + 1
           S == {i \in DOMAIN q : q[i].kind = "send"}
           T == {i \in DOMAIN Append(q, cmd) : Append(q, cmd)[i].kind = "send"}
<1>1. /\ DOMAIN q = 1..Len(q) /\ Len(q) \in Nat /\ DOMAIN Append(q, cmd) = 1..n
      /\ (\A i \in 1..Len(q) : Append(q, cmd)[i] = q[i]) /\ Append(q, cmd)[n] = cmd
  BY AppendFacts
<1>2. T = IF cmd.kind = "send" THEN S \union {n} ELSE S
  BY <1>1
<1>3. IsFiniteSet(S)
  BY SendsFacts
<1>a. n \notin S
  BY <1>1
<1> HIDE DEF T
<1>4. Cardinality(S \union {n}) = Cardinality(S) + 1
  BY <1>3, <1>a, FS_AddElement
<1>5. Cardinality(S) = Sends(q) /\ Cardinality(T) = Sends(Append(q, cmd)) /\ Sends(q) \in Nat
  BY SendsFacts DEF Sends, T
<1> HIDE DEF S, n
<1> QED
  BY <1>2, <1>4, <1>5

\* One command less.
LEMMA SendsTail ==
  ASSUME NEW q \in Seq(Cmds), q # <<>>
  PROVE  Sends(q) = Sends(Tail(q)) + IF Head(q).kind = "send" THEN 1 ELSE 0
<1> DEFINE S == {i \in DOMAIN q : q[i].kind = "send"}
           R == S \ {1}
           T == {i \in DOMAIN Tail(q) : Tail(q)[i].kind = "send"}
           f == [i \in R |-> i - 1]
<1>1. /\ DOMAIN q = 1..Len(q) /\ Len(q) \in Nat /\ DOMAIN Tail(q) = 1..(Len(q) - 1)
      /\ (\A i \in 1..(Len(q) - 1) : Tail(q)[i] = q[i + 1]) /\ Head(q) = q[1] /\ 1 \in DOMAIN q
      /\ Tail(q) \in Seq(Cmds)
  BY TailFacts
<1>2. R \subseteq 2..Len(q) /\ \A i \in R : q[i].kind = "send"
  BY <1>1
<1>3. \A i \in R : i - 1 \in T
  BY <1>1, <1>2
<1>4. \A j \in T : j + 1 \in R /\ (j + 1) - 1 = j
  BY <1>1
<1>5. f \in [R -> T] /\ (\A i, j \in R : f[i] = f[j] => i = j)
        /\ \A j \in T : \E i \in R : f[i] = j
  BY <1>2, <1>3, <1>4
<1>6. f \in Bijection(R, T)
  BY <1>5 DEF Bijection, Injection, Surjection, IsInjective
<1>7. ExistsBijection(R, T)
  BY <1>6 DEF ExistsBijection
<1>8. IsFiniteSet(S) /\ (1 \in S <=> Head(q).kind = "send")
  BY <1>1, SendsFacts
<1>9. IsFiniteSet(R) /\ Cardinality(R) = IF 1 \in S THEN Cardinality(S) - 1 ELSE Cardinality(S)
  BY <1>8, FS_RemoveElement
<1>10. Cardinality(T) = Cardinality(R)
  BY <1>7, <1>9, FS_Bijection
<1>11. Cardinality(S) = Sends(q) /\ Cardinality(T) = Sends(Tail(q)) /\ Sends(q) \in Nat
  BY SendsFacts DEF Sends
<1> HIDE DEF S, R, T
<1> QED
  BY <1>8, <1>9, <1>10, <1>11

\* What it means that no command is run.
LEMMA IdleFacts ==
  /\ Idle \in CallSet /\ Idle.cmd = NoCmd /\ Idle.step = "idle" /\ Idle.todo = {}
  /\ NoCmd.kind = "none" /\ GoodCmd(NoCmd)
BY CmdFacts DEF Idle, CallSet, Steps, NoCmd, GoodCmd

\* What a command has found is sent on, and the command is over.
LEMMA OutFacts ==
  ASSUME NEW events \in SUBSET Events, Out(events)
  PROVE  /\ call' \in CallSet /\ call'.cmd = NoCmd /\ call'.todo \subseteq events
         /\ call'.step \in {"idle", "emit"}
<1>1. CASE events = {}
  BY <1>1, IdleFacts DEF Out
<1>2. CASE events # {}
  <2>1. call' = [Idle EXCEPT !.step = "emit", !.todo = events]
    BY <1>2 DEF Out
  <2> QED
    BY <2>1, IdleFacts DEF CallSet, Steps
<1> QED
  BY <1>1, <1>2

\* A command goes on to its next step.
LEMMA GotoFacts ==
  ASSUME call \in CallSet, NEW s \in Steps, Goto(s)
  PROVE  call' \in CallSet /\ call'.cmd = call.cmd /\ call'.todo = call.todo /\ call'.step = s
BY DEF Goto, CallSet

\* A command has been taken and waits for its first answer.
LEMMA WaitFacts ==
  ASSUME Head(cmds) \in Cmds, NEW s \in Steps, Wait(s)
  PROVE  call' \in CallSet /\ call'.cmd = Head(cmds) /\ call'.todo = {} /\ call'.step = s
BY IdleFacts DEF Wait, CallSet

\* The messages of a page are messages of the channel.
LEMMA PageFacts ==
  ASSUME WorldTypes, Len(log) <= MaxMessages, NEW c, NEW n, NEW size
  PROVE  {Text(m) : m \in PageBefore(c, n, size)} \subseteq {e \in Events : GoodEvent(e)}
<1>1. PageBefore(c, n, size) \subseteq DOMAIN log
  BY DEF PageBefore
<1> QED
  BY <1>1, TextFacts

\* The command that is run has its type; what it has found is good.
LEMMA CallKept ==
  ASSUME TypeOK, CmdInv, EventInv, [Next]_vars
  PROVE  call' \in CallSet /\ GoodCmd(call'.cmd) /\ \A e \in call'.todo : GoodEvent(e)
<1>0. /\ call \in CallSet /\ CmdTypes /\ LineTypes /\ WorldTypes /\ Len(log) <= MaxMessages
      /\ GoodCmd(call.cmd) /\ \A e \in call.todo : GoodEvent(e)
  BY TypeParts DEF BackTypes, CmdInv, EventInv
<1> DEFINE Good == {e \in Events : GoodEvent(e)}
<1>1. CASE call' = call
  BY <1>0, <1>1
<1>2. CASE call' = Idle
  BY <1>2, IdleFacts
<1>3. ASSUME NEW events, events \subseteq Good, Out(events)
      PROVE  call' \in CallSet /\ GoodCmd(call'.cmd) /\ \A e \in call'.todo : GoodEvent(e)
  <2>1. events \in SUBSET Events /\ \A e \in events : GoodEvent(e)
    BY <1>3
  <2>2. call' \in CallSet /\ call'.cmd = NoCmd /\ call'.todo \subseteq events
    BY <1>3, <2>1, OutFacts
  <2> QED
    BY <2>1, <2>2, IdleFacts
<1>4. ASSUME NEW s \in Steps, Goto(s)
      PROVE  call' \in CallSet /\ GoodCmd(call'.cmd) /\ \A e \in call'.todo : GoodEvent(e)
  BY <1>0, <1>4, GotoFacts
<1>5. ASSUME NEW kind, Take(kind), NEW s \in Steps, Wait(s)
      PROVE  call' \in CallSet /\ GoodCmd(call'.cmd) /\ \A e \in call'.todo : GoodEvent(e)
  BY <1>0, <1>5, TakeFacts, WaitFacts
<1> HIDE DEF Good
<1>6. CASE UNCHANGED vars \/ WindowStep \/ Forward \/ BackgroundError \/ Hangup
           \/ (\E g \in Guilds : Learn(g)) \/ \E c \in Channels : OtherPosts(c)
  <2>1. CASE UNCHANGED vars \/ WindowStep
    BY <1>1, <2>1, WindowFrame DEF vars, backVars
  <2>2. CASE Forward \/ BackgroundError \/ Hangup
             \/ (\E g \in Guilds : Learn(g)) \/ \E c \in Channels : OtherPosts(c)
    BY <1>1, <2>2 DEF Forward, BackgroundError, Hangup, Learn, OtherPosts, backVars
  <2> QED
    BY <1>6, <2>1, <2>2
<1>7. CASE FailFirst \/ Refuse \/ ListMembers
  BY <1>1, <1>7 DEF FailFirst, Refuse, ListMembers, backVars
<1>8. CASE Fail \/ UploadKeys
  BY <1>2, <1>8 DEF Fail, UploadKeys, End
<1>9. CASE Connect \/ Register \/ Joined \/ FetchSelected
  BY <1>4, <1>9 DEF Connect, Register, Joined, FetchSelected, Steps
<1>10. CASE BindClient \/ Join \/ StartListChannels \/ StartLoadOlder \/ StartSend
  <2> USE DEF Steps
  <2>1. CASE BindClient
    BY <1>5, <2>1 DEF BindClient
  <2>2. CASE Join
    BY <1>5, <2>2 DEF Join
  <2>3. CASE StartListChannels
    BY <1>5, <2>3 DEF StartListChannels
  <2>4. CASE StartLoadOlder
    BY <1>5, <2>4 DEF StartLoadOlder
  <2>5. CASE StartSend
    BY <1>5, <2>5 DEF StartSend
  <2> QED
    BY <1>10, <2>1, <2>2, <2>3, <2>4, <2>5
<1>11. CASE StartSelect
  <2>1. CASE client'.guild = Nothing
    BY <1>2, <1>11, <2>1 DEF StartSelect, End
  <2>2. CASE client'.guild # Nothing
    BY <1>5, <1>11, <2>2 DEF StartSelect, Steps
  <2> QED
    BY <2>1, <2>2
<1>12. CASE ListGuilds
  <2>1. Out({Event("guild", g) : g \in mine})
    BY <1>12 DEF ListGuilds
  <2>2. \A g \in mine : Event("guild", g) \in Good
    BY <1>0, EventFacts DEF Good, GoodEvent, GoodFor, WorldTypes, Places
  <2> QED
    BY <1>3, <2>1, <2>2
<1>13. CASE ListChannels
  <2>1. Out({Event("channel", c) : c \in ChannelsOf(call.cmd.arg)})
    BY <1>13 DEF ListChannels
  <2>2. \A c \in Channels : Event("channel", c) \in Good
    BY EventFacts DEF Good, GoodEvent, GoodFor, Places
  <2> QED
    BY <1>3, <2>1, <2>2 DEF ChannelsOf
<1>14. CASE FetchMessages \/ FetchOwn
  <2>1. PICK c, n, size : Out({Text(m) : m \in PageBefore(c, n, size)})
    BY <1>14 DEF FetchMessages, FetchOwn
  <2>2. {Text(m) : m \in PageBefore(c, n, size)} \subseteq Good
    BY <1>0, PageFacts DEF Good
  <2> QED
    BY <1>3, <2>1, <2>2
<1>15. CASE Send
  BY <1>2, <1>4, <1>15 DEF Send, End, Steps
<1>16. CASE EmitNext
  <2>1. PICK event \in call.todo : Out(call.todo \ {event})
    BY <1>16 DEF EmitNext
  <2>2. call.todo \ {event} \subseteq Good
    BY <1>0 DEF Good, CallSet
  <2> QED
    BY <1>3, <2>1, <2>2
<1> QED
  BY <1>6, <1>7, <1>8, <1>9, <1>10, <1>11, <1>12, <1>13, <1>14, <1>15, <1>16, StepKinds
     DEF BackStep, Backend

\* Steps that leave alone what the client has selected and knows of the guilds.
SameSelection ==
  /\ client'.logged = client.logged /\ client'.guild = client.guild
  /\ client'.chan = client.chan /\ client'.known = client.known
  /\ client'.strays = client.strays

\* Everything a step does to the client.
LEMMA ClientEffect ==
  ASSUME TypeOK, CmdInv, EventInv, CallInv, PostInv, [Next]_vars
  PROVE  /\ client' \in ClientSet
         /\ \/ SameSelection
            \/ BindClient /\ client' = NewClient
            \/ /\ Register /\ client'.logged /\ client'.guild = client.guild
               /\ client'.chan = client.chan
               /\ client'.known = client.known /\ client'.strays = client.strays
            \/ \E g \in Guilds : client' = Listed(g) /\ (Learn(g) \/ ListChannels)
            \/ StartListChannels /\ client' = [client EXCEPT !.guild = Head(cmds).arg]
            \/ StartSelect /\ client' = Strayed(Select(Head(cmds).arg), Head(cmds).arg)
            \/ FetchSelected /\ client' = Placed(client, call.cmd.arg)
            \/ Refuse /\ Head(cmds).kind = "select" /\ ~ client.logged
               /\ client' = Select(Head(cmds).arg)
            \/ StartLoadOlder /\ client' = Placed(client, Head(cmds).arg)
            \/ FetchOwn /\ client' = Placed(client, client.chan)
<1>0. /\ call \in CallSet /\ client \in ClientSet /\ CmdTypes /\ LineTypes /\ WorldTypes
      /\ Len(log) <= MaxMessages /\ GoodCmd(call.cmd)
  BY TypeParts DEF BackTypes, CmdInv
<1>1. CASE client' = client
  BY <1>0, <1>1 DEF SameSelection
<1>2. ASSUME NEW x \in SUBSET Ids, client' = [client EXCEPT !.seen = client.seen \union x]
      PROVE  client' \in ClientSet /\ SameSelection
  <2>1. client' \in ClientSet
    BY <1>0, <1>2, ClientFacts
  <2> QED
    BY <1>0, <1>2, <2>1 DEF ClientSet, SameSelection
<1>3. CASE UNCHANGED vars \/ WindowStep
  BY <1>1, <1>3, WindowFrame DEF vars, backVars
<1>4. CASE Forward \/ BackgroundError
  BY <1>1, <1>4 DEF Forward, BackgroundError, backVars
<1>5. CASE Hangup \/ Connect
  <2>1. PICK b \in BOOLEAN : client' = [client EXCEPT !.online = b]
    BY <1>5 DEF Hangup, Connect
  <2>2. client' \in ClientSet
    BY <1>0, <2>1, ClientFacts
  <2> QED
    BY <1>0, <2>1, <2>2 DEF ClientSet, SameSelection
<1>6. ASSUME NEW g \in Guilds, Learn(g)
      PROVE  client' \in ClientSet /\ client' = Listed(g)
  BY <1>0, <1>6, ListedFacts DEF Learn
<1>7. ASSUME NEW c, Arrive(c), Len(log) < MaxMessages
      PROVE  client' \in ClientSet /\ SameSelection
  <2>1. Len(log) + 1 \in Ids
    BY <1>0, <1>7, Sizes DEF WorldTypes, Ids
  <2>2. client' = [client EXCEPT !.seen = client.seen \union {Len(log) + 1}]
    BY <1>7 DEF Arrive
  <2> QED
    BY <1>2, <2>1, <2>2
<1>8. Sends(cmds) \in Nat /\ Len(log) \in Nat
  <2>1. cmds \in Seq(Cmds)
    BY <1>0 DEF CmdTypes
  <2>2. Len(log) \in Nat
    BY <1>0 DEF WorldTypes
  <2>3. Sends(cmds) \in Nat
    BY <2>1, SendsFacts
  <2> QED
    BY <2>2, <2>3
<1>9. ASSUME NEW c \in Channels, OtherPosts(c)
      PROVE  client' \in ClientSet /\ SameSelection
  <2>1. Len(log) + Unsent < MaxMessages /\ Unsent >= 0 /\ Unsent \in Nat
    BY <1>8, <1>9 DEF OtherPosts, Unsent, Sends
  <2> QED
    BY <1>7, <1>8, <1>9, <2>1, Sizes DEF OtherPosts
<1>10. CASE Send
  <2>1. At({"send"}, "post")
    BY <1>10 DEF Send
  <2>2. Len(log) < MaxMessages
    BY <1>8, <2>1, Sizes DEF PostInv
  <2>3. CASE client' = client
    BY <1>1, <2>3
  <2>4. CASE Arrive(client.chan)
    BY <1>7, <2>2, <2>4
  <2> QED
    BY <1>10, <2>3, <2>4 DEF Send
<1>11. CASE EmitNext
  <2>1. PICK event \in call.todo :
          client' = [client EXCEPT !.seen = client.seen \union ({event.id} \intersect Ids)]
    BY <1>11 DEF EmitNext
  <2>2. {event.id} \intersect Ids \in SUBSET Ids
    OBVIOUS
  <2> QED
    BY <1>2, <2>1, <2>2
<1>12. CASE FailFirst \/ Fail \/ UploadKeys \/ ListGuilds \/ Join \/ Joined \/ ListMembers
            \/ FetchMessages \/ StartSend
  BY <1>1, <1>12 DEF FailFirst, Fail, UploadKeys, ListGuilds, Join, Joined, ListMembers,
       FetchMessages, StartSend, backVars
<1>13. CASE BindClient
  BY <1>0, <1>13, ClientFacts DEF BindClient
<1>14. CASE Register
  <2>1. client' = [client EXCEPT !.logged = TRUE]
    BY <1>14 DEF Register
  <2> QED
    BY <1>0, <1>14, <2>1, ClientFacts DEF ClientSet
<1>15. CASE ListChannels
  <2>1. call.cmd.arg \in Guilds
    BY <1>0, <1>15 DEF ListChannels, At, GoodCmd
  <2>2. client' = Listed(call.cmd.arg)
    BY <1>15 DEF ListChannels
  <2> QED
    BY <1>0, <1>15, <2>1, <2>2, ListedFacts
<1>16. CASE StartListChannels
  <2>1. Head(cmds).arg \in Guilds
    BY <1>0, <1>16, TakeFacts DEF StartListChannels, GoodCmd
  <2> QED
    BY <1>0, <1>16, <2>1, ClientFacts DEF StartListChannels
<1>17. CASE StartSelect
  <2>1. Head(cmds).arg \in Channels
    BY <1>0, <1>17, TakeFacts DEF StartSelect, GoodCmd
  <2>2. client' = Strayed(Select(Head(cmds).arg), Head(cmds).arg)
    BY <1>17 DEF StartSelect
  <2> QED
    BY <1>0, <1>17, <2>1, <2>2, SelectFacts, StrayedFacts
<1>18. CASE StartLoadOlder
  <2>1. Head(cmds).arg \in Channels
    BY <1>0, <1>18, TakeFacts DEF StartLoadOlder, GoodCmd
  <2> QED
    BY <1>0, <1>18, <2>1, PlacedFacts DEF StartLoadOlder
<1>19. CASE FetchOwn
  <2>1. client.chan \in Channels
    BY <1>19 DEF FetchOwn, At, CallInv
  <2> QED
    BY <1>0, <1>19, <2>1, PlacedFacts DEF FetchOwn
<1>21. CASE FetchSelected
  <2>1. call.cmd.arg \in Channels
    BY <1>0, <1>21 DEF FetchSelected, At, GoodCmd
  <2> QED
    BY <1>0, <1>21, <2>1, PlacedFacts DEF FetchSelected
<1>20. CASE Refuse
  <2>1. PICK kind : Take(kind) /\ (~ client.logged \/ kind = "send")
           /\ client' = IF kind = "select" THEN Select(Head(cmds).arg) ELSE client
    BY <1>20 DEF Refuse
  <2>2. CASE kind # "select"
    BY <1>1, <2>1, <2>2
  <2>3. CASE kind = "select"
    <3>1. Head(cmds).kind = "select" /\ Head(cmds).arg \in Channels
      BY <1>0, <2>1, <2>3, TakeFacts DEF GoodCmd
    <3> QED
      BY <1>0, <1>20, <2>1, <2>3, <3>1, SelectFacts
  <2> QED
    BY <2>2, <2>3
<1> QED
  BY <1>3, <1>4, <1>5, <1>6, <1>9, <1>10, <1>11, <1>12, <1>13, <1>14, <1>15, <1>16, <1>17, <1>18,
     <1>19, <1>20, <1>21, StepKinds DEF BackStep, Backend

-----------------------------------------------------------------------------
(* The messages and the events on their way                                *)

\* What a step does to the command that is run.
LEMMA CallEffect ==
  ASSUME TypeOK, CmdInv, EventInv, [Next]_vars
  PROVE  \/ call' = call /\ ~ StartSend /\ ~ BindClient
         \/ /\ call'.cmd = call.cmd /\ ~ StartSend /\ ~ BindClient
            /\ call'.step \in {"register", "keys", "fetch", "echo"}
            /\ call'.step = "keys" => Register
         \/ call'.cmd = NoCmd /\ ~ StartSend /\ ~ BindClient
         \/ /\ call = Idle /\ call'.cmd = Head(cmds)
            /\ Head(cmds).kind \in {"join", "channels", "select", "older"}
            /\ call'.step # "emit" /\ ~ StartSend /\ ~ BindClient
         \/ /\ StartSend /\ call = Idle /\ call'.cmd = Head(cmds) /\ call'.step = "post"
            /\ Head(cmds).kind = "send"
         \/ BindClient /\ call = Idle /\ call'.cmd = Head(cmds) /\ Head(cmds).kind = "login"
<1>0. call \in CallSet /\ CmdTypes /\ LineTypes /\ WorldTypes /\ Len(log) <= MaxMessages
  BY TypeParts DEF BackTypes
<1>1. ASSUME NEW kind, Take(kind), NEW s \in Steps, Wait(s)
      PROVE  call = Idle /\ call'.cmd = Head(cmds) /\ call'.step = s /\ Head(cmds).kind = kind
  BY <1>0, <1>1, TakeFacts, WaitFacts
<1>2. StartSend => /\ call = Idle /\ call'.cmd = Head(cmds) /\ call'.step = "post"
                   /\ Head(cmds).kind = "send"
  BY <1>1 DEF StartSend, Steps
<1>3. BindClient => call = Idle /\ call'.cmd = Head(cmds) /\ Head(cmds).kind = "login"
  BY <1>1 DEF BindClient, Steps
<1>4. ASSUME NEW events \in SUBSET Events, Out(events)
      PROVE  call'.cmd = NoCmd
  BY <1>4, OutFacts
<1>5. CASE StartSend \/ BindClient
  BY <1>2, <1>3, <1>5
<1>6. CASE ~ StartSend /\ ~ BindClient
  <2>1. CASE UNCHANGED vars \/ WindowStep
    BY <1>6, <2>1, WindowFrame DEF vars, backVars
  <2>2. CASE Forward \/ BackgroundError \/ Hangup
             \/ (\E g \in Guilds : Learn(g)) \/ \E c \in Channels : OtherPosts(c)
    BY <1>6, <2>2 DEF Forward, BackgroundError, Hangup, Learn, OtherPosts, backVars
  <2>3. CASE FailFirst \/ Refuse \/ ListMembers
    BY <1>6, <2>3 DEF FailFirst, Refuse, ListMembers, backVars
  <2>4. CASE Fail \/ UploadKeys
    BY <1>6, <2>4, IdleFacts DEF Fail, UploadKeys, End
  <2>5. CASE Connect \/ Register \/ Joined \/ FetchSelected
    <3>1. ASSUME NEW s \in {"register", "keys", "fetch"}, Goto(s)
          PROVE  call'.cmd = call.cmd /\ call'.step = s
      BY <1>0, <3>1, GotoFacts DEF Steps
    <3> QED
      BY <1>6, <2>5, <3>1 DEF Connect, Register, Joined, FetchSelected
  <2>6. CASE Join
    BY <1>1, <1>6, <2>6 DEF Join, Steps
  <2>7. CASE StartListChannels
    BY <1>1, <1>6, <2>7 DEF StartListChannels, Steps
  <2>8. CASE StartLoadOlder
    BY <1>1, <1>6, <2>8 DEF StartLoadOlder, Steps
  <2>9. CASE StartSelect
    <3>1. CASE client'.guild = Nothing
      BY <1>6, <2>9, <3>1, IdleFacts DEF StartSelect, End
    <3>2. CASE client'.guild # Nothing
      BY <1>1, <1>6, <2>9, <3>2 DEF StartSelect, Steps
    <3> QED
      BY <3>1, <3>2
  <2>10. CASE ListGuilds
    <3>1. {Event("guild", g) : g \in mine} \in SUBSET Events
      BY <1>0, EventFacts DEF WorldTypes, Places
    <3> QED
      BY <1>4, <1>6, <2>10, <3>1 DEF ListGuilds
  <2>11. CASE ListChannels
    <3>1. {Event("channel", c) : c \in ChannelsOf(call.cmd.arg)} \in SUBSET Events
      BY <1>0, EventFacts DEF ChannelsOf, Places
    <3> QED
      BY <1>4, <1>6, <2>11, <3>1 DEF ListChannels
  <2>12. CASE FetchMessages \/ FetchOwn
    <3>1. PICK c, n, size : Out({Text(m) : m \in PageBefore(c, n, size)})
      BY <2>12 DEF FetchMessages, FetchOwn
    <3>2. {Text(m) : m \in PageBefore(c, n, size)} \in SUBSET Events
      BY <1>0, PageFacts
    <3> QED
      BY <1>4, <1>6, <3>1, <3>2
  <2>13. CASE Send
    BY <1>0, <1>6, <2>13, IdleFacts, GotoFacts DEF Send, End, Steps
  <2>14. CASE EmitNext
    <3>1. PICK event \in call.todo : Out(call.todo \ {event})
      BY <2>14 DEF EmitNext
    <3>2. call.todo \ {event} \in SUBSET Events
      BY <1>0 DEF CallSet
    <3> QED
      BY <1>4, <1>6, <3>1, <3>2
  <2> QED
    BY <1>6, <2>1, <2>2, <2>3, <2>4, <2>5, <2>6, <2>7, <2>8, <2>9, <2>10, <2>11, <2>12, <2>13,
       <2>14, StepKinds DEF BackStep, Backend
<1> QED
  BY <1>5, <1>6

\* The log only grows, by one message.
LEMMA LogKept ==
  ASSUME TypeOK, CmdInv, CallInv, PostInv, [Next]_vars
  PROVE  /\ WorldTypes' /\ Len(log') <= MaxMessages
         /\ \/ log' = log
            \/ \E c \in Channels : /\ log' = Append(log, c)
                                   /\ \/ OtherPosts(c)
                                      \/ Send /\ c = client.chan /\ UNCHANGED inbox
<1>0. CmdTypes /\ WorldTypes /\ Len(log) <= MaxMessages /\ call \in CallSet
  BY TypeParts DEF BackTypes
<1>a. cmds \in Seq(Cmds) /\ log \in Seq(Channels) /\ mine \subseteq Guilds /\ Len(log) \in Nat
  BY <1>0 DEF CmdTypes, WorldTypes
<1>b. Sends(cmds) \in Nat
  BY <1>a, SendsFacts
<1>1. CASE UNCHANGED worldVars
  BY <1>0, <1>1 DEF worldVars, WorldTypes
<1>2. ASSUME NEW c \in Channels, log' = Append(log, c), mine' = mine, Len(log) < MaxMessages
      PROVE  WorldTypes' /\ Len(log') <= MaxMessages
  BY <1>a, <1>2, Sizes DEF WorldTypes
<1>3. CASE UNCHANGED vars \/ WindowStep
  BY <1>1, <1>3, WindowFrame DEF vars
<1>4. CASE Forward \/ BackgroundError \/ Hangup \/ \E g \in Guilds : Learn(g)
  BY <1>1, <1>4 DEF Forward, BackgroundError, Hangup, Learn
<1>5. ASSUME NEW c \in Channels, OtherPosts(c)
      PROVE  WorldTypes' /\ Len(log') <= MaxMessages /\ log' = Append(log, c)
  <2>1. Len(log) + Unsent < MaxMessages /\ Unsent \in Nat
    BY <1>5, <1>b DEF OtherPosts, Unsent, Sends
  <2>2. Len(log) < MaxMessages
    BY <1>a, <2>1, Sizes
  <2> QED
    BY <1>2, <1>5, <2>2 DEF OtherPosts
<1>6. CASE Send
  <2>1. At({"send"}, "post") /\ mine' = mine
    BY <1>6 DEF Send
  <2>2. client.chan \in Channels
    BY <2>1 DEF At, CallInv
  <2>3. Len(log) < MaxMessages
    BY <1>a, <1>b, <2>1, Sizes DEF PostInv
  <2>4. CASE log' = log
    BY <1>1, <2>1, <2>4 DEF worldVars
  <2>5. CASE log' = Append(log, client.chan) /\ UNCHANGED inbox
    BY <1>2, <1>6, <2>1, <2>2, <2>3, <2>5
  <2> QED
    BY <1>6, <2>4, <2>5 DEF Send
<1>7. CASE Join
  <2>1. Head(cmds).arg \in Guilds
    BY <1>0, <1>7, TakeFacts DEF Join, GoodCmd
  <2> QED
    BY <1>0, <1>7, <2>1 DEF Join, WorldTypes
<1>8. CASE FailFirst \/ Fail \/ Refuse \/ BindClient \/ Connect \/ Register \/ UploadKeys
           \/ ListGuilds \/ Joined \/ StartListChannels \/ ListChannels \/ ListMembers
  BY <1>1, <1>8 DEF FailFirst, Fail, Refuse, BindClient, Connect, Register, UploadKeys,
       ListGuilds, Joined, StartListChannels, ListChannels, ListMembers
<1>9. CASE StartSelect \/ FetchSelected \/ StartLoadOlder \/ FetchMessages \/ StartSend
           \/ FetchOwn \/ EmitNext
  BY <1>1, <1>9 DEF StartSelect, FetchSelected, StartLoadOlder, FetchMessages, StartSend,
       FetchOwn, EmitNext
<1>10. CASE \E c \in Channels : OtherPosts(c)
  <2>1. PICK c \in Channels : OtherPosts(c)
    BY <1>10
  <2>2. WorldTypes' /\ Len(log') <= MaxMessages /\ log' = Append(log, c)
    BY <1>5, <2>1
  <2> QED
    BY <2>1, <2>2
<1>11. CASE Backend
  BY <1>6, <1>7, <1>8, <1>9, <1>11 DEF Backend
<1> QED
  BY <1>3, <1>4, <1>10, <1>11, StepKinds DEF BackStep

\* What was said of an event stays true when the log grows.
LEMMA GoodEventKept ==
  ASSUME TypeOK, NEW e, GoodEvent(e), log' = log \/ \E c \in Channels : log' = Append(log, c)
  PROVE  GoodEvent(e)'
<1>0. log \in Seq(Channels)
  BY TypeParts DEF WorldTypes
<1>1. ASSUME NEW c \in Channels, log' = Append(log, c), NEW i \in DOMAIN log
      PROVE  i \in DOMAIN log' /\ log'[i] = log[i]
  BY <1>0, <1>1, AppendFacts
<1> QED
  BY <1>1 DEF GoodEvent, GoodFor

\* An event comes to the inbox, or is lost.
LEMMA PostFacts ==
  ASSUME LineTypes, NEW event \in Events, Post(event)
  PROVE  /\ inbox' \in Seq(Events) /\ Len(inbox') <= InboxSize
         /\ \/ inbox' = Append(inbox, event) /\ lost' = lost
            \/ inbox' = inbox /\ lost' = lost \union {event.id}
<1>0. inbox \in Seq(Events) /\ Len(inbox) <= InboxSize /\ Len(inbox) \in Nat
  BY DEF LineTypes
<1>1. CASE Len(inbox) < InboxSize
  <2>1. inbox' = Append(inbox, event) /\ lost' = lost
    BY <1>1 DEF Post
  <2> QED
    BY <1>0, <1>1, <2>1, AppendFacts, Sizes
<1>2. CASE ~ Len(inbox) < InboxSize
  BY <1>0, <1>2 DEF Post
<1> QED
  BY <1>1, <1>2

\* An event comes to the ring, or is lost with what is there.
LEMMA EmitFacts ==
  ASSUME LineTypes, NEW event \in Events, Emit(event)
  PROVE  /\ ring' \in Seq(Events) /\ Len(ring') <= Ring /\ fwd' \in {"none", "running", "over"}
         /\ \/ ring' = Append(ring, event) /\ lost' = lost
            \/ /\ ring' = <<>>
               /\ lost' = lost \union
                    (({event.id} \union {ring[i].id : i \in DOMAIN ring}) \intersect Ids)
<1>0. ring \in Seq(Events) /\ Len(ring) <= Ring /\ Len(ring) \in Nat
        /\ fwd \in {"none", "running", "over"}
  BY DEF LineTypes
<1>1. CASE fwd = "running" /\ Len(ring) < Ring
  <2>1. ring' = Append(ring, event) /\ lost' = lost /\ fwd' = fwd
    BY <1>1 DEF Emit
  <2> QED
    BY <1>0, <1>1, <2>1, AppendFacts, Sizes
<1>2. CASE ~ (fwd = "running" /\ Len(ring) < Ring)
  <2>1. /\ ring' = <<>> /\ fwd' \in {"none", "running", "over"}
        /\ lost' = lost \union (({event.id} \union {ring[i].id : i \in DOMAIN ring}) \intersect Ids)
    BY <1>0, <1>2 DEF Emit
  <2>2. <<>> \in Seq(Events) /\ Len(<<>>) = 0
    OBVIOUS
  <2> QED
    BY <2>1, <2>2, Sizes
<1> QED
  BY <1>1, <1>2

\* What a step does to the events on their way, and to what the client has handled.
Quiet == UNCHANGED <<inbox, ring, fwd, lost>> /\ client'.seen = client.seen
Handled ==
  /\ Handle /\ inbox # <<>> /\ inbox' = Tail(inbox)
  /\ UNCHANGED <<ring, fwd, client, log>>
  /\ UNCHANGED <<screen, ids, lost>> \/ HandleLoginOk \/ HandleMessage
Posted(event) ==
  /\ GoodEvent(event) /\ Post(event) /\ (event.kind = "ok" => UploadKeys)
  /\ UNCHANGED <<ring, fwd, log, screen, ids>> /\ client'.seen = client.seen
Emitted(event) ==
  /\ GoodEvent(event)' /\ event.kind # "ok" /\ Emit(event)
  /\ UNCHANGED <<inbox, screen, ids>>
     /\ client'.seen = client.seen \union ({event.id} \intersect Ids)

\* An event that is worked off leaves the inbox.
LEMMA HandledFacts ==
  ASSUME Handle
  PROVE  Handled
<1>1. inbox # <<>> /\ inbox' = Tail(inbox)
  BY DEF Handle, HandleLoginOk, HandleJoined, HandleError, HandleMessage, HandleGuild,
       HandleChannel, On
<1>2. UNCHANGED <<backVars, lineVars, worldVars>>
  BY WindowFrame DEF WindowStep
<1>3. UNCHANGED <<screen, ids, lost>> \/ HandleLoginOk \/ HandleMessage
  BY DEF Handle, HandleJoined, HandleError, HandleGuild, HandleChannel
<1> QED
  BY <1>1, <1>2, <1>3 DEF Handled, backVars, lineVars, worldVars

\* Of a failed sign-in the window hears in any case.
LEMMA TellFacts ==
  ASSUME NEW kind, Tell(kind)
  PROVE  \/ UNCHANGED <<inbox, lost>> /\ kind # "login"
         \/ \E k \in {"banner", "reauth"} : Post(Event(k, Nothing))
BY DEF Tell

\* The news of a sign-in or of an invite names what there is.
LEMMA NewsGood ==
  /\ \A kind \in {"ok", "banner", "reauth"} :
       /\ Event(kind, Nothing) \in Events /\ GoodEvent(Event(kind, Nothing))
       /\ Event(kind, Nothing).kind = kind
  /\ \A g \in Guilds : /\ Event("joined", g) \in Events /\ GoodEvent(Event("joined", g))
                          /\ Event("joined", g).kind = "joined"
<1>1. Nothing \in Places /\ Guilds \subseteq Places
  BY DEF Places
<1> QED
  BY <1>1, EventFacts DEF GoodEvent, GoodFor

\* A message that comes over the socket.
LEMMA ArriveFacts ==
  ASSUME TypeOK, NEW c \in Channels, log' = Append(log, c), Len(log') <= MaxMessages,
         Arrive(c), UNCHANGED <<inbox, screen, ids>>
  PROVE  \E event \in Events : Emitted(event)
<1>0. PICK m : m = Len(log) + 1
  OBVIOUS
<1>a. PICK event : event = [kind |-> "message", arg |-> c, id |-> m]
  OBVIOUS
<1>1. log \in Seq(Channels) /\ Len(log) \in Nat /\ client \in ClientSet
  BY TypeParts DEF WorldTypes, BackTypes
<1>2. m \in DOMAIN log' /\ log'[m] = c /\ m \in Ids /\ m \in 0..MaxMessages
  BY <1>0, <1>1, AppendFacts, Sizes DEF Ids
<1>3. client' = [client EXCEPT !.seen = @ \union {m}] /\ Emit(event)
  BY <1>0, <1>a DEF Arrive
<1>4. event.kind = "message" /\ event.arg = c /\ event.id = m
  BY <1>a
<1>5. event \in Events
  BY <1>2, <1>a DEF Events, Places
<1>6. GoodEvent(event)'
  BY <1>2, <1>4 DEF GoodEvent, GoodFor
<1>7. client'.seen = client.seen \union ({event.id} \intersect Ids)
  BY <1>1, <1>2, <1>3, <1>4 DEF ClientSet
<1> QED
  BY <1>3, <1>4, <1>5, <1>6, <1>7 DEF Emitted

\* Everything a step does to the events on their way.
LEMMA LineEffect ==
  ASSUME TypeOK, CmdInv, CallInv, PostInv, EventInv, OkInv, [Next]_vars
  PROVE  \/ Quiet /\ UNCHANGED <<screen, ids>>
         \/ Handled \/ Forward \/ BindClient
         \/ \E event \in Events : Posted(event) \/ Emitted(event)
<1>0. /\ client \in ClientSet /\ call \in CallSet /\ CmdTypes /\ GoodCmd(call.cmd)
      /\ LineTypes /\ WorldTypes
  BY TypeParts DEF BackTypes, CmdInv
<1>1. CASE UNCHANGED vars
  BY <1>1 DEF vars, Quiet, backVars, lineVars, windowVars
<1>2. CASE Handle
  BY <1>2, HandledFacts
<1>3. CASE SignIn \/ SignOut \/ Dismiss \/ Refresh \/ LoadOlder \/ Compose
  BY <1>3 DEF SignIn, SignOut, Dismiss, Refresh, LoadOlder, Compose, Click, Quiet, backVars,
     lineVars,
       windowVars
<1>4. CASE (\E g \in Guilds : ClickGuild(g) \/ JoinInvite(g))
        \/ \E c \in Channels : ClickChannel(c)
  BY <1>4 DEF ClickGuild, JoinInvite, ClickChannel, Click, Quiet, backVars, lineVars
<1>5. CASE BackgroundError
  <2> DEFINE event == Event("reauth", Nothing)
  <2>1. event \in Events /\ GoodEvent(event) /\ event.id = 0 /\ event.kind = "reauth"
    BY NewsGood, EventFacts DEF Places
  <2>2. Emit(event) /\ UNCHANGED <<inbox, screen, ids, client, log>>
    BY <1>5 DEF BackgroundError, windowVars, backVars, worldVars
  <2>3. {event.id} \intersect Ids = {}
    BY <2>1, Sizes DEF Ids
  <2> HIDE DEF event
  <2>4. GoodEvent(event)'
    BY <2>1, <2>2 DEF GoodEvent, GoodFor
  <2> QED
    BY <2>1, <2>2, <2>3, <2>4 DEF Emitted
<1>6. CASE Hangup \/ Connect \/ Register
  <2>1. UNCHANGED <<inbox, ring, fwd, lost, screen, ids>>
    BY <1>6 DEF Hangup, Connect, Register, lineVars, windowVars
  <2>2. \/ client' = [client EXCEPT !.online = FALSE] \/ client' = [client EXCEPT !.online = TRUE]
        \/ client' = [client EXCEPT !.logged = TRUE]
    BY <1>6 DEF Hangup, Connect, Register
  <2>3. client'.seen = client.seen
    BY <1>0, <2>2 DEF ClientSet
  <2> QED
    BY <2>1, <2>3 DEF Quiet
<1>7. CASE (\E g \in Guilds : Learn(g)) \/ ListChannels
  <2>1. UNCHANGED <<inbox, ring, fwd, lost, screen, ids>>
    BY <1>7 DEF Learn, ListChannels, lineVars, windowVars
  <2>2. PICK g : client' = Listed(g)
    BY <1>7 DEF Learn, ListChannels
  <2>3. client'.seen = client.seen
    BY <1>0, <2>2 DEF Listed, ClientSet
  <2> QED
    BY <2>1, <2>3 DEF Quiet
<1>8. ASSUME NEW c \in Channels, OtherPosts(c)
      PROVE  \E event \in Events : Emitted(event)
  <2>1. Len(log') <= MaxMessages
    BY <1>8, LogKept DEF OtherPosts
  <2>2. log' = Append(log, c) /\ Arrive(c) /\ UNCHANGED <<inbox, screen, ids>>
    BY <1>8 DEF OtherPosts, windowVars
  <2> QED
    BY <2>1, <2>2, ArriveFacts
<1>9. CASE FailFirst
  <2>1. UNCHANGED <<ring, fwd, log, screen, ids, client>>
    BY <1>9 DEF FailFirst, backVars, lineVars, windowVars, worldVars
  <2>2. PICK kind : Tell(kind)
    BY <1>9 DEF FailFirst
  <2> QED
    BY <2>1, <2>2, TellFacts, NewsGood DEF Quiet, Posted
<1>10. CASE Fail
  <2>1. UNCHANGED <<ring, fwd, log, screen, ids, client>>
    BY <1>10 DEF Fail, lineVars, windowVars, worldVars
  <2>2. PICK kind : Tell(kind)
    BY <1>10 DEF Fail
  <2> QED
    BY <2>1, <2>2, TellFacts, NewsGood DEF Quiet, Posted
<1>11. CASE Refuse
  <2>1. /\ UNCHANGED <<ring, fwd, log, screen, ids>>
        /\ UNCHANGED <<inbox, lost>> \/ Post(Event("banner", Nothing))
    BY <1>11 DEF Refuse, lineVars, windowVars, worldVars
  <2>2. client' = client \/ client' = Select(Head(cmds).arg)
    BY <1>11 DEF Refuse
  <2>3. client'.seen = client.seen
    BY <1>0, <2>2 DEF Select, ClientSet
  <2>4. CASE UNCHANGED <<inbox, lost>>
    BY <2>1, <2>3, <2>4 DEF Quiet
  <2>5. CASE Post(Event("banner", Nothing))
    <3>1. Posted(Event("banner", Nothing))
      BY <2>1, <2>3, <2>5, NewsGood DEF Posted
    <3> QED
      BY <3>1, NewsGood
  <2> QED
    BY <2>1, <2>4, <2>5
<1>12. CASE UploadKeys
  <2>1. UNCHANGED <<ring, fwd, log, screen, ids, client>> /\ Post(Event("ok", Nothing))
    BY <1>12 DEF UploadKeys, lineVars, windowVars, worldVars
  <2>2. Posted(Event("ok", Nothing))
    BY <1>12, <2>1, NewsGood DEF Posted
  <2> QED
    BY <2>2, NewsGood
<1>13. CASE Joined
  <2>1. UNCHANGED <<ring, fwd, log, screen, ids, client>> /\ Post(Event("joined", call.cmd.arg))
    BY <1>13 DEF Joined, lineVars, windowVars, worldVars
  <2>2. call.cmd.arg \in Guilds
    BY <1>0, <1>13 DEF Joined, At, GoodCmd
  <2>3. Posted(Event("joined", call.cmd.arg))
    BY <2>1, <2>2, NewsGood DEF Posted
  <2> QED
    BY <2>2, <2>3, NewsGood
<1>14. CASE ListGuilds \/ Join \/ FetchMessages \/ StartSend \/ ListMembers
  BY <1>14
     DEF ListGuilds, Join, FetchMessages, StartSend, ListMembers, Quiet, lineVars, windowVars,
       backVars
<1>15. CASE StartListChannels
  <2>1. UNCHANGED <<inbox, ring, fwd, lost, screen, ids>>
          /\ client' = [client EXCEPT !.guild = Head(cmds).arg]
    BY <1>15 DEF StartListChannels, lineVars, windowVars
  <2>2. client'.seen = client.seen
    BY <1>0, <2>1 DEF ClientSet
  <2> QED
    BY <2>1, <2>2 DEF Quiet
<1>16. CASE StartSelect
  <2>1. UNCHANGED <<inbox, ring, fwd, lost, screen, ids>>
          /\ client' = Strayed(Select(Head(cmds).arg), Head(cmds).arg)
    BY <1>16 DEF StartSelect, lineVars, windowVars
  <2>2. Head(cmds).arg \in Channels
    BY <1>0, <1>16, TakeFacts DEF StartSelect, GoodCmd
  <2>3. client'.seen = client.seen
    BY <1>0, <2>1, <2>2, StrayedFacts, SelectFacts
  <2> QED
    BY <2>1, <2>3 DEF Quiet
<1>24. CASE FetchSelected
  <2>1. UNCHANGED <<inbox, ring, fwd, lost, screen, ids>>
          /\ client' = Placed(client, call.cmd.arg)
    BY <1>24 DEF FetchSelected, lineVars, windowVars
  <2>2. call.cmd.arg \in Channels
    BY <1>0, <1>24 DEF FetchSelected, At, GoodCmd
  <2>3. client'.seen = client.seen
    BY <1>0, <2>1, <2>2, PlacedFacts
  <2> QED
    BY <2>1, <2>3 DEF Quiet
<1>17. CASE StartLoadOlder
  <2>1. UNCHANGED <<inbox, ring, fwd, lost, screen, ids>>
          /\ client' = Placed(client, Head(cmds).arg)
    BY <1>17 DEF StartLoadOlder, lineVars, windowVars
  <2>2. Head(cmds).arg \in Channels
    BY <1>0, <1>17, TakeFacts DEF StartLoadOlder, GoodCmd
  <2>3. client'.seen = client.seen
    BY <1>0, <2>1, <2>2, PlacedFacts
  <2> QED
    BY <2>1, <2>3 DEF Quiet
<1>18. CASE FetchOwn
  <2>1. UNCHANGED <<inbox, ring, fwd, lost, screen, ids>> /\ client' = Placed(client, client.chan)
    BY <1>18 DEF FetchOwn, lineVars, windowVars
  <2>2. client.chan \in Channels
    BY <1>18 DEF FetchOwn, At, CallInv
  <2>3. client'.seen = client.seen
    BY <1>0, <2>1, <2>2, PlacedFacts
  <2> QED
    BY <2>1, <2>3 DEF Quiet
<1>19. CASE Send
  <2>0. client.chan \in Channels /\ UNCHANGED <<screen, ids>>
    BY <1>19 DEF Send, At, CallInv, windowVars
  <2>1. CASE Context # GuildOf[client.chan]
    <3>1. Post(Event("banner", Nothing)) /\ UNCHANGED <<client, ring, fwd, log>>
      BY <1>19, <2>1 DEF Send, lineVars
    <3> QED
      BY <2>0, <3>1, NewsGood DEF Posted
  <2>2. CASE Context = GuildOf[client.chan]
    <3>1. /\ UNCHANGED inbox /\ log' = Append(log, client.chan)
          /\ Arrive(client.chan) \/ UNCHANGED <<client, ring, fwd, lost>>
      BY <1>19, <2>2 DEF Send, lineVars
    <3>2. Len(log') <= MaxMessages
      BY <1>19, LogKept
    <3>3. CASE UNCHANGED <<client, ring, fwd, lost>>
      BY <2>0, <3>1, <3>3 DEF Quiet
    <3>4. CASE Arrive(client.chan)
      BY <2>0, <3>1, <3>2, <3>4, ArriveFacts
    <3> QED
      BY <3>1, <3>3, <3>4
  <2> QED
    BY <2>1, <2>2
<1>20. CASE EmitNext
  <2>1. PICK event \in call.todo :
          /\ IF event.id \in client.seen THEN UNCHANGED <<lineVars, lost>> ELSE Emit(event)
          /\ client' = [client EXCEPT !.seen = @ \union ({event.id} \intersect Ids)]
    BY <1>20 DEF EmitNext
  <2>2. event \in Events /\ GoodEvent(event) /\ event.kind # "ok"
          /\ UNCHANGED <<inbox, screen, ids, log>>
    BY <1>0, <1>20, <2>1 DEF EventInv, OkInv, EmitNext, CallSet, windowVars, worldVars
  <2>3. client'.seen = client.seen \union ({event.id} \intersect Ids)
    BY <1>0, <2>1 DEF ClientSet
  <2>4. GoodEvent(event)'
    BY <2>2 DEF GoodEvent, GoodFor
  <2>5. CASE event.id \in client.seen
    BY <2>1, <2>2, <2>3, <2>5 DEF Quiet, lineVars
  <2>6. CASE event.id \notin client.seen
    BY <2>1, <2>2, <2>3, <2>4, <2>6 DEF Emitted
  <2> QED
    BY <2>5, <2>6
<1>21. CASE \E c \in Channels : OtherPosts(c)
  BY <1>8, <1>21
<1>22. CASE Backend
  BY <1>6, <1>7, <1>9, <1>10, <1>11, <1>12, <1>13, <1>14, <1>15, <1>16, <1>17, <1>18, <1>19,
     <1>20, <1>22, <1>24 DEF Backend
<1>23. CASE BackStep
  BY <1>5, <1>6, <1>7, <1>21, <1>22, <1>23 DEF BackStep
<1> QED
  BY <1>1, <1>2, <1>3, <1>4, <1>23, StepKinds DEF WindowStep

\* The forwarder takes the ring's first event.
LEMMA ForwardFacts ==
  ASSUME TypeOK, EventInv, Forward
  PROVE  /\ ring # <<>> /\ ring' = Tail(ring) /\ Post(ring[1]) /\ ring[1] \in Events
         /\ GoodEvent(ring[1]) /\ 1 \in DOMAIN ring /\ UNCHANGED <<fwd, client, log, screen, ids>>
<1>1. ring \in Seq(Events) /\ ring # <<>>
  BY TypeParts DEF LineTypes, Forward
<1>2. Head(ring) = ring[1] /\ Head(ring) \in Events /\ 1 \in DOMAIN ring
  BY <1>1, TailFacts
<1> QED
  BY <1>1, <1>2 DEF Forward, EventInv, backVars, worldVars, windowVars

\* The events on their way stay events and fit into their queues.
LEMMA LineTypesKept ==
  ASSUME TypeOK, CmdInv, CallInv, PostInv, EventInv, OkInv, [Next]_vars
  PROVE  LineTypes'
<1>0. LineTypes /\ ring \in Seq(Events) /\ inbox \in Seq(Events)
  BY TypeParts DEF LineTypes
<1>1. CASE Quiet
  BY <1>0, <1>1 DEF Quiet, LineTypes
<1>2. CASE Handled
  <2>1. inbox # <<>> /\ inbox' = Tail(inbox) /\ UNCHANGED <<ring, fwd>>
    BY <1>2 DEF Handled
  <2>2. inbox' \in Seq(Events) /\ Len(inbox') = Len(inbox) - 1 /\ Len(inbox) \in Nat
    BY <1>0, <2>1, TailFacts
  <2>3. Len(inbox') <= InboxSize
    BY <1>0, <2>2, Sizes DEF LineTypes
  <2> QED
    BY <1>0, <2>1, <2>2, <2>3 DEF LineTypes
<1>3. CASE Forward
  <2>1. ring # <<>> /\ ring' = Tail(ring) /\ Post(ring[1]) /\ ring[1] \in Events /\ fwd' = fwd
    BY <1>3, ForwardFacts
  <2>2. ring' \in Seq(Events) /\ Len(ring') = Len(ring) - 1 /\ Len(ring) \in Nat
    BY <1>0, <2>1, TailFacts
  <2>3. Len(ring') <= Ring
    BY <1>0, <2>2, Sizes DEF LineTypes
  <2>4. inbox' \in Seq(Events) /\ Len(inbox') <= InboxSize
    BY <1>0, <2>1, PostFacts
  <2> QED
    BY <1>0, <2>1, <2>2, <2>3, <2>4 DEF LineTypes
<1>4. CASE BindClient
  <2>1. ring' = <<>> /\ fwd' = "running" /\ inbox' = inbox
    BY <1>4 DEF BindClient
  <2>2. <<>> \in Seq(Events) /\ Len(<<>>) = 0
    OBVIOUS
  <2> QED
    BY <1>0, <2>1, <2>2, Sizes DEF LineTypes
<1>5. ASSUME NEW event \in Events, Posted(event) PROVE LineTypes'
  <2>1. inbox' \in Seq(Events) /\ Len(inbox') <= InboxSize
    BY <1>0, <1>5, PostFacts DEF Posted
  <2> QED
    BY <1>0, <1>5, <2>1 DEF Posted, LineTypes
<1>6. ASSUME NEW event \in Events, Emitted(event) PROVE LineTypes'
  <2>1. ring' \in Seq(Events) /\ Len(ring') <= Ring /\ fwd' \in {"none", "running", "over"}
    BY <1>0, <1>6, EmitFacts DEF Emitted
  <2> QED
    BY <1>0, <1>6, <2>1 DEF Emitted, LineTypes
<1> QED
  BY <1>1, <1>2, <1>3, <1>4, <1>5, <1>6, LineEffect

\* The events on their way name what there is.
LEMMA EventInvKept ==
  ASSUME TypeOK, CmdInv, CallInv, PostInv, EventInv, OkInv, [Next]_vars
  PROVE  EventInv'
<1>0. LineTypes /\ ring \in Seq(Events) /\ inbox \in Seq(Events)
  BY TypeParts DEF LineTypes
<1>1. log' = log \/ \E c \in Channels : log' = Append(log, c)
  BY LogKept
<1>2. \A e : GoodEvent(e) => GoodFor(log', e)
  BY <1>1, GoodEventKept DEF GoodEvent
<1>3. \A e \in call'.todo : GoodFor(log', e)
  BY <1>2, CallKept
<1>a. /\ \A i \in DOMAIN ring : GoodFor(log', ring[i])
      /\ \A i \in DOMAIN inbox : GoodFor(log', inbox[i])
  BY <1>2 DEF EventInv
<1>4. SUFFICES (\A i \in DOMAIN inbox' : GoodFor(log', inbox'[i]))
                 /\ \A i \in DOMAIN ring' : GoodFor(log', ring'[i])
  BY <1>3 DEF EventInv, GoodEvent
<1>5. ASSUME NEW event \in Events, GoodEvent(event), Post(event)
      PROVE  \A i \in DOMAIN inbox' : GoodFor(log', inbox'[i])
  <2>1. inbox' = Append(inbox, event) \/ inbox' = inbox
    BY <1>0, <1>5, PostFacts
  <2>2. GoodFor(log', event)
    BY <1>2, <1>5
  <2> QED
    BY <1>0, <1>a, <1>5, <2>1, <2>2, AppendFacts
<1>6. CASE Quiet \/ BindClient
  BY <1>a, <1>6 DEF Quiet, BindClient
<1>7. CASE Handled
  <2>1. inbox # <<>> /\ inbox' = Tail(inbox) /\ ring' = ring
    BY <1>7 DEF Handled
  <2>2. DOMAIN inbox = 1..Len(inbox) /\ Len(inbox) \in Nat /\ DOMAIN inbox' = 1..(Len(inbox) - 1)
        /\ \A i \in 1..(Len(inbox) - 1) : inbox'[i] = inbox[i + 1]
    BY <1>0, <2>1, TailFacts
  <2>3. \A i \in DOMAIN inbox' : i + 1 \in DOMAIN inbox
    BY <2>2
  <2> QED
    BY <1>a, <2>1, <2>2, <2>3
<1>8. CASE Forward
  <2>1. ring # <<>> /\ ring' = Tail(ring) /\ Post(ring[1]) /\ ring[1] \in Events
          /\ GoodEvent(ring[1])
    BY <1>8, ForwardFacts
  <2>2. DOMAIN ring = 1..Len(ring) /\ Len(ring) \in Nat /\ DOMAIN ring' = 1..(Len(ring) - 1)
        /\ \A i \in 1..(Len(ring) - 1) : ring'[i] = ring[i + 1]
    BY <1>0, <2>1, TailFacts
  <2>3. \A i \in DOMAIN ring' : i + 1 \in DOMAIN ring
    BY <2>2
  <2> QED
    BY <1>a, <1>5, <2>1, <2>2, <2>3
<1>9. ASSUME NEW event \in Events, Posted(event)
      PROVE  (\A i \in DOMAIN inbox' : GoodFor(log', inbox'[i]))
               /\ \A i \in DOMAIN ring' : GoodFor(log', ring'[i])
  BY <1>a, <1>5, <1>9 DEF Posted
<1>10. ASSUME NEW event \in Events, Emitted(event)
       PROVE  (\A i \in DOMAIN inbox' : GoodFor(log', inbox'[i]))
                /\ \A i \in DOMAIN ring' : GoodFor(log', ring'[i])
  <2>1. inbox' = inbox /\ GoodFor(log', event)
    BY <1>10 DEF Emitted, GoodEvent
  <2>2. ring' = Append(ring, event) \/ ring' = <<>>
    BY <1>0, <1>10, EmitFacts DEF Emitted
  <2> QED
    BY <1>0, <1>a, <2>1, <2>2, AppendFacts
<1> QED
  BY <1>6, <1>7, <1>8, <1>9, <1>10, LineEffect

\* What is counted stays in its bounds.
LEMMA TallyTypesKept ==
  ASSUME TypeOK, CmdInv, CallInv, PostInv, EventInv, OkInv, [Next]_vars
  PROVE  TallyTypes'
<1>0. LineTypes /\ TallyTypes /\ ScreenTypes
  BY TypeParts
<1>a. Ids \subseteq 0..MaxMessages /\ (\A e \in Events : e.id \in 0..MaxMessages)
  BY Sizes DEF Ids, Events
<1>1. turns' \in 0..MaxTurns
  <2>1. CASE Turn
    BY <1>0, <2>1, Sizes DEF Turn, TallyTypes
  <2>2. CASE turns' = turns
    BY <1>0, <2>2 DEF TallyTypes
  <2>3. CASE UNCHANGED vars \/ Handle \/ Forward \/ Compose \/ Dismiss
    BY <2>2, <2>3
       DEF vars, Dismiss, Handle, HandleLoginOk, HandleJoined, HandleError, HandleMessage,
         HandleGuild, HandleChannel, Forward, Compose
  <2>4. CASE SignIn \/ SignOut \/ Refresh \/ LoadOlder \/ BackgroundError \/ Hangup
          \/ FailFirst \/ Fail
             \/ \E c \in Channels : ClickChannel(c)
    BY <2>1, <2>4 DEF SignIn, SignOut, Refresh, LoadOlder, ClickChannel, Click, BackgroundError,
         Hangup, FailFirst, Fail
  <2>5. CASE \E g \in Guilds : ClickGuild(g) \/ JoinInvite(g)
    BY <2>1, <2>5 DEF ClickGuild, JoinInvite, Click
  <2>6. CASE (\E g \in Guilds : Learn(g)) \/ \E c \in Channels : OtherPosts(c)
    BY <2>2, <2>6 DEF Learn, OtherPosts
  <2>7. CASE Refuse \/ BindClient \/ Connect \/ Register \/ UploadKeys \/ ListGuilds \/ Join
             \/ Joined \/ StartListChannels \/ ListChannels \/ ListMembers
    BY <2>2, <2>7 DEF Refuse, BindClient, Connect, Register, UploadKeys, ListGuilds, Join,
         Joined, StartListChannels, ListChannels, ListMembers
  <2>8. CASE StartSelect \/ FetchSelected \/ StartLoadOlder \/ FetchMessages \/ StartSend
          \/ Send \/ FetchOwn \/ EmitNext
    BY <2>2, <2>8
       DEF StartSelect, FetchSelected, StartLoadOlder, FetchMessages, StartSend, Send, FetchOwn,
         EmitNext
  <2> QED
    BY <2>3, <2>4, <2>5, <2>6, <2>7, <2>8 DEF Next, Backend
<1>2. lost' \subseteq 0..MaxMessages
  <2>0. lost \subseteq 0..MaxMessages
    BY <1>0 DEF TallyTypes
  <2>1. CASE Quiet \/ BindClient
    BY <2>0, <2>1 DEF Quiet, BindClient
  <2>2. CASE Handled
    <3>1. CASE lost' = lost
      BY <2>0, <3>1
    <3>2. CASE HandleMessage
      BY <2>0, <3>2 DEF HandleMessage
    <3>3. CASE HandleLoginOk
      <4>1. \A c \in Channels : Range(screen[c]) \subseteq Ids
        BY <1>0 DEF ScreenTypes, Range
      <4>2. lost' = lost \union UNION {Range(screen[c]) : c \in Channels}
        BY <3>3 DEF HandleLoginOk
      <4> QED
        BY <1>a, <2>0, <4>1, <4>2
    <3> QED
      BY <2>2, <3>1, <3>2, <3>3 DEF Handled
  <2>3. ASSUME NEW event \in Events, Post(event) PROVE lost' \subseteq 0..MaxMessages
    <3>1. lost' = lost \/ lost' = lost \union {event.id}
      BY <1>0, <2>3, PostFacts
    <3>2. event.id \in 0..MaxMessages
      BY <1>a
    <3> HIDE <1>a
    <3> QED
      BY <2>0, <3>1, <3>2
  <2>4. CASE Forward
    <3>1. Post(ring[1]) /\ ring[1] \in Events
      BY <2>4, ForwardFacts
    <3> QED
      BY <2>3, <3>1
  <2>5. ASSUME NEW event \in Events, Emitted(event) PROVE lost' \subseteq 0..MaxMessages
    <3>1. lost' = lost \/ \E x : lost' = lost \union (x \intersect Ids)
      BY <1>0, <2>5, EmitFacts DEF Emitted
    <3>2. \A x : x \intersect Ids \subseteq 0..MaxMessages
      BY <1>a
    <3> QED
      BY <2>0, <3>1, <3>2
  <2> QED
    BY <2>1, <2>2, <2>3, <2>4, <2>5, LineEffect DEF Posted
<1> QED
  BY <1>1, <1>2 DEF TallyTypes

-----------------------------------------------------------------------------
(* The command that is run, the messages, and the guilds of the channels   *)

\* Steps in which the client moves, or learns a guild, are no sends and no sign-ins.
LEMMA CallInvKept ==
  ASSUME TypeOK, CmdInv, CallInv, PostInv, EventInv, [Next]_vars
  PROVE  CallInv'
<1>0. client \in ClientSet /\ call \in CallSet
  BY TypeParts DEF BackTypes
<1>1. CASE call'.cmd = NoCmd
  BY <1>1, IdleFacts DEF CallInv, At
<1>2. CASE StartSend
  <2>1. call'.cmd.kind = "send" /\ call'.step = "post"
    BY <1>2, CallEffect, IdleFacts DEF StartSend, Take
  <2>2. client.chan \in Channels /\ client' = client
    BY <1>0, <1>2 DEF StartSend, ClientSet
  <2> QED
    BY <2>1, <2>2 DEF CallInv, At
<1>3. CASE BindClient
  <2>1. call'.cmd.kind = "login" /\ call'.step = "connect"
    <3>1. Head(cmds) \in Cmds
      BY <1>3, TypeParts, TakeFacts DEF BindClient
    <3>2. Wait("connect") /\ Head(cmds).kind = "login"
      BY <1>3 DEF BindClient, Take
    <3> QED
      BY <3>1, <3>2, WaitFacts DEF Steps
  <2>2. client' = NewClient
    BY <1>3 DEF BindClient
  <2> QED
    BY <2>1, <2>2 DEF CallInv, NewClient, At
<1>4. CASE /\ call'.cmd = Head(cmds)
           /\ Head(cmds).kind \in {"join", "channels", "select", "older"}
           /\ call'.step # "emit"
  BY <1>4 DEF CallInv, At
<1>5. CASE /\ call'.cmd = call.cmd /\ ~ BindClient
           /\ call' = call \/ call'.step # "keys" \/ Register
           /\ call' = call \/ call'.step # "emit"
  <2>1. SUFFICES ASSUME call.cmd.kind \in {"send", "login"}
                 PROVE  /\ client'.guild = client.guild /\ client'.chan = client.chan
                        /\ client'.logged = client.logged \/ client'.logged
                        /\ Register => client'.logged
    BY <1>5, <2>1 DEF CallInv, At
  <2>2. call # Idle
    BY <2>1, IdleFacts
  <2>3. ~ StartListChannels /\ ~ StartSelect /\ ~ Refuse
    BY <2>2 DEF StartListChannels, StartSelect, Refuse, Take
  <2>4. ~ StartLoadOlder
    BY <2>2 DEF StartLoadOlder, Take
  <2>a. Register => client'.logged
    BY <1>0 DEF Register, ClientSet
  <2>5. CASE FetchOwn /\ client' = Placed(client, client.chan)
    <3>1. client.chan \in Channels
      BY <2>5 DEF FetchOwn, At, CallInv
    <3> QED
      BY <1>0, <2>5, <2>a, <3>1, PlacedFacts
  <2>6. ASSUME NEW g \in Guilds, client' = Listed(g)
        PROVE  client'.guild = client.guild /\ client'.chan = client.chan
                 /\ client'.logged = client.logged
    BY <1>0, <2>6, ListedFacts
  <2>7. ~ FetchSelected
    BY <2>1 DEF FetchSelected, At
  <2> QED
    BY <1>5, <2>7, <2>3, <2>4, <2>5, <2>6, <2>a, ClientEffect DEF SameSelection
<1> QED
  BY <1>1, <1>2, <1>3, <1>4, <1>5, CallEffect

\* Of what goes to the window only a sign-in's own news is "ok".
LEMMA OkInvKept ==
  ASSUME TypeOK, CmdInv, CallInv, PostInv, EventInv, OkInv, [Next]_vars
  PROVE  OkInv'
<1>0. /\ LineTypes /\ ring \in Seq(Events) /\ CmdTypes /\ call \in CallSet
      /\ WorldTypes /\ Len(log) <= MaxMessages
  BY TypeParts DEF LineTypes, BackTypes
<1>1. \A i \in DOMAIN ring' : ring'[i].kind # "ok"
  <2>0. \A i \in DOMAIN ring : ring[i].kind # "ok"
    BY DEF OkInv
  <2>1. CASE ring' = ring
    BY <2>0, <2>1
  <2>2. CASE Forward
    <3>1. ring # <<>> /\ ring' = Tail(ring)
      BY <2>2, ForwardFacts
    <3>2. DOMAIN ring = 1..Len(ring) /\ Len(ring) \in Nat /\ DOMAIN ring' = 1..(Len(ring) - 1)
          /\ \A i \in 1..(Len(ring) - 1) : ring'[i] = ring[i + 1]
      BY <1>0, <3>1, TailFacts
    <3>3. \A i \in DOMAIN ring' : i + 1 \in DOMAIN ring
      BY <3>2
    <3> QED
      BY <2>0, <3>2, <3>3
  <2>3. ASSUME NEW event \in Events, Emitted(event)
        PROVE  \A i \in DOMAIN ring' : ring'[i].kind # "ok"
    <3>1. ring' = Append(ring, event) \/ ring' = <<>>
      BY <1>0, <2>3, EmitFacts DEF Emitted
    <3>2. event.kind # "ok"
      BY <2>3 DEF Emitted
    <3> QED
      BY <1>0, <2>0, <3>1, <3>2, AppendFacts
  <2>4. CASE BindClient
    BY <2>4 DEF BindClient
  <2> QED
    BY <2>1, <2>2, <2>3, <2>4, LineEffect DEF Quiet, Handled, Posted
<1>2. \A event \in call'.todo : event.kind # "ok"
  <2>0. \A event \in call.todo : event.kind # "ok"
    BY DEF OkInv
  <2>1. CASE call'.todo \subseteq call.todo
    BY <2>0, <2>1
  <2>2. ASSUME NEW events \in SUBSET Events, Out(events), \A event \in events : event.kind # "ok"
        PROVE  \A event \in call'.todo : event.kind # "ok"
    BY <2>2, OutFacts
  <2>3. CASE call' = call
    BY <2>1, <2>3
  <2>4. CASE UNCHANGED vars \/ WindowStep
    BY <2>3, <2>4, WindowFrame DEF vars, backVars
  <2>5. CASE Forward \/ BackgroundError \/ Hangup
             \/ (\E g \in Guilds : Learn(g)) \/ \E c \in Channels : OtherPosts(c)
    BY <2>3, <2>5 DEF Forward, BackgroundError, Hangup, Learn, OtherPosts, backVars
  <2>6. CASE FailFirst \/ Refuse \/ ListMembers
    BY <2>3, <2>6 DEF FailFirst, Refuse, ListMembers, backVars
  <2>7. CASE Fail \/ UploadKeys
    BY <2>7, IdleFacts DEF Fail, UploadKeys, End
  <2>8. CASE Connect \/ Register \/ Joined \/ Send \/ FetchSelected
    <3>1. ASSUME NEW s \in {"register", "keys", "fetch", "echo"}, Goto(s)
          PROVE  call'.todo = call.todo
      BY <1>0, <3>1, GotoFacts DEF Steps
    <3>2. (\E s \in {"register", "keys", "fetch", "echo"} : Goto(s)) \/ call' = Idle
      BY <2>8 DEF Connect, Register, Joined, Send, FetchSelected, End
    <3> QED
      BY <2>1, <3>1, <3>2, IdleFacts
  <2>9. CASE BindClient \/ Join \/ StartListChannels \/ StartLoadOlder \/ StartSend \/ StartSelect
    <3>1. (\E s \in {"connect", "post", "open", "fetch"} : Wait(s)) \/ call' = Idle
      BY <2>9 DEF BindClient, Join, StartListChannels, StartLoadOlder, StartSend, StartSelect, End
    <3>2. (\E kind : Take(kind))
      BY <2>9 DEF BindClient, Join, StartListChannels, StartLoadOlder, StartSend, StartSelect
    <3>3. Head(cmds) \in Cmds
      BY <1>0, <3>2, TakeFacts
    <3>4. call'.todo = {}
      BY <3>1, <3>3, WaitFacts, IdleFacts DEF Steps
    <3> QED
      BY <3>4
  <2>10. CASE ListGuilds
    <3>1. \A g \in mine : Event("guild", g) \in Events /\ Event("guild", g).kind = "guild"
      BY <1>0, EventFacts DEF WorldTypes, Places
    <3>2. Out({Event("guild", g) : g \in mine})
      BY <2>10 DEF ListGuilds
    <3> QED
      BY <2>2, <3>1, <3>2
  <2>11. CASE ListChannels
    <3>1. \A c \in Channels : Event("channel", c) \in Events
             /\ Event("channel", c).kind = "channel"
      BY EventFacts DEF Places
    <3>2. Out({Event("channel", c) : c \in ChannelsOf(call.cmd.arg)})
            /\ ChannelsOf(call.cmd.arg) \subseteq Channels
      BY <2>11 DEF ListChannels, ChannelsOf
    <3> QED
      BY <2>2, <3>1, <3>2
  <2>12. CASE FetchMessages \/ FetchOwn
    <3>1. PICK c, n, size : Out({Text(m) : m \in PageBefore(c, n, size)})
      BY <2>12 DEF FetchMessages, FetchOwn
    <3>2. {Text(m) : m \in PageBefore(c, n, size)} \in SUBSET Events
      BY <1>0, PageFacts
    <3>3. \A m : Text(m).kind = "message"
      BY DEF Text
    <3> QED
      BY <2>2, <3>1, <3>2, <3>3
  <2>13. CASE EmitNext
    <3>1. PICK event \in call.todo : Out(call.todo \ {event})
      BY <2>13 DEF EmitNext
    <3>2. call.todo \ {event} \in SUBSET Events
      BY <1>0 DEF CallSet
    <3> QED
      BY <2>0, <2>2, <3>1, <3>2
  <2> QED
    BY <2>4, <2>5, <2>6, <2>7, <2>8, <2>9, <2>10, <2>11, <2>12, <2>13, StepKinds
       DEF BackStep, Backend
<1> QED
  BY <1>1, <1>2 DEF OkInv

\* Every message that is yet to come has its place in the log.
LEMMA PostInvKept ==
  ASSUME TypeOK, CmdInv, CallInv, PostInv, EventInv, [Next]_vars
  PROVE  PostInv'
<1>0. CmdTypes /\ WorldTypes /\ call \in CallSet /\ cmds \in Seq(Cmds) /\ Len(log) \in Nat
  BY TypeParts DEF BackTypes, CmdTypes, WorldTypes
<1> DEFINE At0 == At({"send"}, "post")
           Now == IF At0 THEN 1 ELSE 0
<1>a. Sends(cmds) \in Nat /\ Now \in {0, 1}
  BY <1>0, SendsFacts
<1>b. Len(log) + Sends(cmds) + Now <= MaxMessages
  BY DEF PostInv
<1>c. Unsent >= Sends(cmds) + Now /\ Unsent \in Nat
  BY <1>a DEF Unsent, Sends, At
<1>d. ~ StartSend => (At0' => At0)
  BY CallEffect, IdleFacts DEF At
<1>e. (At0' => At0) => (Now' \in {0, 1} /\ Now' <= Now)
  OBVIOUS
<1>f. SUFFICES Len(log') + Sends(cmds') + Now' <= MaxMessages
  BY DEF PostInv, Sends
<1>1. CASE StartSend
  <2>1. cmds # <<>> /\ cmds' = Tail(cmds) /\ Head(cmds).kind = "send" /\ call = Idle /\ log' = log
    BY <1>1 DEF StartSend, Take, worldVars
  <2>2. Sends(cmds) = Sends(cmds') + 1
    BY <1>0, <2>1, SendsTail
  <2>3. ~ At0
    BY <2>1, IdleFacts DEF At
  <2>4. cmds' \in Seq(Cmds)
    BY <1>0, <2>1
  <2>5. Sends(cmds') \in Nat
    BY <2>4, SendsFacts
  <2> HIDE DEF At0
  <2> QED
    BY <1>0, <1>a, <1>b, <2>1, <2>2, <2>3, <2>5, Sizes
<1>2. CASE ~ StartSend /\ log' = log
  <2>1. Now' \in {0, 1} /\ Now' <= Now
    BY <1>2, <1>d, <1>e
  <2> HIDE DEF Now
  <2>2. CASE cmds' = cmds
    BY <1>0, <1>a, <1>b, <1>2, <2>1, <2>2, Sizes
  <2>3. CASE Taken
    <3>1. cmds # <<>> /\ cmds' = Tail(cmds) /\ cmds' \in Seq(Cmds)
      BY <1>0, <2>3 DEF Taken
    <3>a. Sends(cmds') \in Nat
      BY <3>1, SendsFacts
    <3>b. Sends(cmds) = Sends(Tail(cmds)) + IF Head(cmds).kind = "send" THEN 1 ELSE 0
      BY <1>0, <3>1, SendsTail
    <3>2. Sends(cmds') \in Nat /\ Sends(cmds') <= Sends(cmds)
      BY <1>a, <3>1, <3>a, <3>b
    <3> QED
      BY <1>0, <1>a, <1>b, <1>2, <2>1, <3>2, Sizes
  <2>4. ASSUME NEW cmd \in Asks, Queue(cmd), cmd.kind = "send" => Compose
        PROVE  Len(log') + Sends(cmds') + Now' <= MaxMessages
    <3>1. cmds' = cmds \/ cmds' = Append(cmds, cmd)
      BY <2>4 DEF Queue, Queued
    <3>2. cmd \in Cmds
      BY DEF Asks
    <3>3. CASE cmds' = Append(cmds, cmd)
      <4>1. Sends(cmds') = Sends(cmds) + IF cmd.kind = "send" THEN 1 ELSE 0
        BY <1>0, <3>2, <3>3, SendsAppend
      <4>2. CASE cmd.kind # "send"
        BY <1>0, <1>a, <1>b, <1>2, <2>1, <4>1, <4>2, Sizes
      <4>3. CASE cmd.kind = "send"
        <5>1. Len(log) + Unsent < MaxMessages
          BY <2>4, <4>3 DEF Compose
        <5> QED
          BY <1>0, <1>a, <1>c, <1>2, <2>1, <4>1, <4>3, <5>1, Sizes
      <4> QED
        BY <4>2, <4>3
    <3> QED
      BY <2>2, <3>1, <3>3
  <2>5. ASSUME NEW g \in Guilds, QueueGuild(g)
        PROVE  Len(log') + Sends(cmds') + Now' <= MaxMessages
    <3> DEFINE a == Cmd("channels", g)  b == Cmd("members", g)
    <3>1. a \in Cmds /\ b \in Cmds /\ a.kind # "send" /\ b.kind # "send"
      BY CmdFacts DEF Places
    <3>2. \E q \in Seq(Cmds) : /\ q = cmds \/ q = Append(cmds, a)
                               /\ cmds' = q \/ cmds' = Append(q, b)
      <4>1. cmds' = Queued(Queued(cmds, a), b)
        BY <2>5 DEF QueueGuild
      <4> HIDE DEF a, b
      <4>2. /\ Queued(cmds, a) \in Seq(Cmds)
            /\ Queued(cmds, a) = cmds \/ Queued(cmds, a) = Append(cmds, a)
        BY <1>0, <3>1 DEF Queued
      <4> QED
        BY <4>1, <4>2 DEF Queued
    <3> HIDE DEF a, b
    <3>3. PICK q \in Seq(Cmds) : /\ q = cmds \/ q = Append(cmds, a)
                                 /\ cmds' = q \/ cmds' = Append(q, b)
      BY <3>2
    <3>6. \A p \in Seq(Cmds), cmd \in {a, b} : Sends(Append(p, cmd)) = Sends(p)
      <4>1. \A p \in Seq(Cmds), cmd \in Cmds :
              Sends(Append(p, cmd)) = Sends(p) + (IF cmd.kind = "send" THEN 1 ELSE 0)
                /\ Sends(p) \in Nat
        BY SendsAppend, SendsFacts
      <4> QED
        BY <3>1, <4>1
    <3>4. Sends(q) = Sends(cmds)
      BY <1>0, <3>3, <3>6
    <3>5. Sends(cmds') = Sends(q)
      BY <3>3, <3>6
    <3> QED
      BY <1>0, <1>a, <1>b, <1>2, <2>1, <3>4, <3>5, Sizes
  <2> QED
    BY <2>2, <2>3, <2>4, <2>5, CmdsEffect
<1>3. ASSUME NEW c \in Channels, OtherPosts(c)
      PROVE  Len(log') + Sends(cmds') + Now' <= MaxMessages
  <2>1. Len(log) + Unsent < MaxMessages /\ log' = Append(log, c) /\ cmds' = cmds /\ call' = call
    BY <1>3 DEF OtherPosts
  <2>2. Len(log') = Len(log) + 1
    BY <1>0, <2>1, AppendFacts DEF WorldTypes
  <2>3. Now' = Now
    BY <2>1 DEF At
  <2> HIDE DEF Now
  <2> QED
    BY <1>0, <1>a, <1>c, <2>1, <2>2, <2>3, Sizes
<1>4. ASSUME NEW c \in Channels, Send, log' = Append(log, c)
      PROVE  Len(log') + Sends(cmds') + Now' <= MaxMessages
  <2>1. At0 /\ cmds' = cmds
    BY <1>4 DEF Send
  <2>2. Len(log') = Len(log) + 1
    BY <1>0, <1>4, AppendFacts DEF WorldTypes
  <2>3. call' = Idle \/ Goto("echo")
    <3>1. log' # log
      BY <1>0, <2>2, <1>4
    <3> QED
      BY <1>4, <3>1 DEF Send, End
  <2>4. ~ At0'
    BY <1>0, <2>3, IdleFacts, GotoFacts DEF At, Steps
  <2> HIDE DEF At0
  <2> QED
    BY <1>0, <1>a, <1>b, <2>1, <2>2, <2>4, Sizes
<1> QED
  BY <1>1, <1>2, <1>3, <1>4, LogKept

\* The client knows a channel's guild from the guild's own list, or else the channel
\* is one of the strays.
LEMMA KnownInvKept ==
  ASSUME TypeOK, CmdInv, CallInv, PostInv, EventInv, KnownInv, [Next]_vars
  PROVE  KnownInv'
<1>0. client \in ClientSet /\ CmdTypes
  BY TypeParts DEF BackTypes
<1>1. CASE client'.known = client.known /\ client'.strays = client.strays
  BY <1>1 DEF KnownInv
<1>2. CASE client' = NewClient
  BY <1>2 DEF KnownInv, NewClient
<1>3. ASSUME NEW g \in Guilds, client' = Listed(g) PROVE KnownInv'
  <2>1. /\ client'.strays = client.strays
        /\ \A c \in Channels : client'.known[c] = IF GuildOf[c] = g THEN g ELSE client.known[c]
    BY <1>0, <1>3, ListedFacts
  <2> QED
    BY <2>1 DEF KnownInv
<1>4. ASSUME NEW cl \in ClientSet, NEW c \in Channels, client' = Placed(cl, c),
             cl.known = client.known, cl.strays = client.strays
      PROVE  KnownInv'
  <2>1. /\ cl.strays \subseteq client'.strays
        /\ \A d \in Channels : d # c => client'.known[d] = cl.known[d]
        /\ client'.known[c] = IF cl.known[c] = Nothing THEN cl.guild ELSE cl.known[c]
        /\ cl.known[c] = Nothing /\ cl.guild \notin {Nothing, GuildOf[c]} => c \in client'.strays
    BY <1>4, PlacedFacts
  <2>2. ASSUME NEW d \in Channels
        PROVE  client'.known[d] \in {Nothing, GuildOf[d]} \/ d \in client'.strays
    BY <1>4, <2>1 DEF KnownInv
  <2> QED
    BY <2>2 DEF KnownInv
<1>5. CASE StartListChannels /\ client' = [client EXCEPT !.guild = Head(cmds).arg]
  BY <1>0, <1>1, <1>5 DEF ClientSet
<1>6. CASE StartSelect /\ client' = Strayed(Select(Head(cmds).arg), Head(cmds).arg)
  <2>1. Head(cmds).arg \in Channels
    BY <1>0, <1>6, TakeFacts DEF StartSelect, GoodCmd
  <2>2. client'.known = client.known /\ client.strays \subseteq client'.strays
    BY <1>0, <1>6, <2>1, SelectFacts, StrayedFacts
  <2> QED
    BY <2>2 DEF KnownInv
<1>10. CASE FetchSelected /\ client' = Placed(client, call.cmd.arg)
  <2>1. call.cmd.arg \in Channels
    BY <1>10 DEF FetchSelected, At, CmdInv, GoodCmd
  <2> QED
    BY <1>0, <1>4, <1>10, <2>1
<1>7. CASE Refuse /\ Head(cmds).kind = "select" /\ client' = Select(Head(cmds).arg)
  BY <1>0, <1>1, <1>7 DEF Select, ClientSet
<1>8. CASE StartLoadOlder /\ client' = Placed(client, Head(cmds).arg)
  <2>1. Head(cmds).arg \in Channels
    BY <1>0, <1>8, TakeFacts DEF StartLoadOlder, GoodCmd
  <2> QED
    BY <1>0, <1>4, <1>8, <2>1
<1>9. CASE FetchOwn /\ client' = Placed(client, client.chan)
  <2>1. client.chan \in Channels
    BY <1>9 DEF FetchOwn, At, CallInv
  <2> QED
    BY <1>0, <1>4, <1>9, <2>1
<1> QED
  BY <1>1, <1>2, <1>3, <1>5, <1>6, <1>7, <1>8, <1>9, <1>10, ClientEffect DEF SameSelection

-----------------------------------------------------------------------------
(* Where the commands lead the client                                      *)

\* A queue that grows at its end leads where it did to the commands it had.
LEMMA PrefixFacts ==
  ASSUME NEW q \in Seq(Cmds), NEW r \in Seq(Cmds), Len(q) <= Len(r),
         \A i \in 1..Len(q) : r[i] = q[i], NEW n \in 1..(Len(q) + 1), NEW c
  PROVE  /\ \A chan : Leads(q, chan, n, c) => Leads(r, chan, n, c)
         /\ \A cl : FitsIn(q, cl, n, c) => FitsIn(r, cl, n, c)
<1>1. Len(q) \in Nat /\ \A i \in 1..(n - 1) : r[i] = q[i]
  OBVIOUS
<1>2. \A i \in 1..n : Still(r, i, n - 1) <=> Still(q, i, n - 1)
  BY <1>1 DEF Still
<1>3. \A j \in 1..(n - 1) : j + 1 \in 1..n
  OBVIOUS
<1> QED
  BY <1>1, <1>2, <1>3 DEF Leads, FitsIn

\* And to what comes after the new commands, if none of them moves the client.
LEMMA LongerFacts ==
  ASSUME NEW q \in Seq(Cmds), NEW r \in Seq(Cmds), Len(q) <= Len(r),
         \A i \in 1..Len(q) : r[i] = q[i], NEW c,
         \A i \in (Len(q) + 1)..Len(r) : r[i].kind \notin Moves
  PROVE  /\ \A chan : Leads(q, chan, Len(q) + 1, c) => Leads(r, chan, Len(r) + 1, c)
         /\ \A cl : /\ FitsIn(q, cl, Len(q) + 1, c)
                    /\ \A i \in (Len(q) + 1)..Len(r) : r[i].kind = "channels"
                       => r[i].arg = GuildOf[c]
                    => FitsIn(r, cl, Len(r) + 1, c)
<1> DEFINE m == Len(q)  n == Len(r)
<1>1. m \in Nat /\ n \in Nat /\ m <= n /\ (m + 1) - 1 = m /\ (n + 1) - 1 = n
  OBVIOUS
<1>a. /\ \A i \in 1..m : r[i] = q[i]
      /\ \A i \in (m + 1)..n : r[i].kind \notin Moves
  OBVIOUS
<1> HIDE DEF m, n
<1>2. \A i \in 1..(m + 1) : Still(r, i, n) => Still(q, i, m)
  BY <1>1, <1>a DEF Still
<1>3. \A j \in 1..n : j \in 1..m \/ j \in (m + 1)..n
  BY <1>1
<1>4. \A j \in 1..m : j + 1 \in 1..(m + 1)
  BY <1>1
<1>5. 1 \in 1..(m + 1)
  BY <1>1
<1>6. ASSUME NEW chan, Leads(q, chan, m + 1, c) PROVE Leads(r, chan, n + 1, c)
  <2>1. /\ \A j \in 1..m : q[j].kind \in Moves /\ Still(q, j + 1, m) =>
           q[j].kind = "select" /\ q[j].arg = c
        /\ Still(q, 1, m) => chan = c
    BY <1>1, <1>6 DEF Leads
  <2>2. /\ \A j \in 1..n : r[j].kind \in Moves /\ Still(r, j + 1, n) =>
           r[j].kind = "select" /\ r[j].arg = c
        /\ Still(r, 1, n) => chan = c
    BY <1>a, <1>2, <1>3, <1>4, <1>5, <2>1
  <2> QED
    BY <1>1, <2>2 DEF Leads
<1>7. ASSUME NEW cl, FitsIn(q, cl, m + 1, c),
             \A i \in (m + 1)..n : r[i].kind = "channels" => r[i].arg = GuildOf[c]
      PROVE  FitsIn(r, cl, n + 1, c)
  <2>1. /\ \A j \in 1..m : q[j].kind = "channels" /\ Still(q, j + 1, m) => q[j].arg = GuildOf[c]
        /\ Still(q, 1, m) /\ cl.logged /\ c \notin cl.strays => cl.guild \in {Nothing, GuildOf[c]}
    BY <1>1, <1>7 DEF FitsIn
  <2>2. /\ \A j \in 1..n : r[j].kind = "channels" /\ Still(r, j + 1, n) => r[j].arg = GuildOf[c]
        /\ Still(r, 1, n) /\ cl.logged /\ c \notin cl.strays => cl.guild \in {Nothing, GuildOf[c]}
    BY <1>a, <1>2, <1>3, <1>4, <1>5, <1>7, <2>1
  <2> QED
    BY <1>1, <2>2 DEF FitsIn
<1> QED
  BY <1>6, <1>7 DEF m, n

\* A selection at the end of the queue leads to its channel, and overrides every list.
LEMMA LastFacts ==
  ASSUME NEW q \in Seq(Cmds), NEW cmd \in Cmds, cmd.kind = "select", NEW chan, NEW cl
  PROVE  LET r == Append(q, cmd) IN
         Leads(r, chan, Len(r) + 1, cmd.arg) /\ FitsIn(r, cl, Len(r) + 1, cmd.arg)
<1> DEFINE r == Append(q, cmd)  n == Len(r)
<1>1. /\ n \in Nat /\ n > 0 /\ r[n] = cmd /\ (n + 1) - 1 = n /\ cmd.kind \in Moves
  BY AppendFacts DEF Moves
<1> HIDE DEF r, n
<1>2. \A i \in 1..n : ~ Still(r, i, n)
  BY <1>1 DEF Still
<1>3. \A j \in 1..n : j = n \/ j + 1 \in 1..n
  BY <1>1
<1>4. 1 \in 1..n
  BY <1>1
<1>5. /\ \A j \in 1..n : r[j].kind \in Moves /\ Still(r, j + 1, n) =>
         r[j].kind = "select" /\ r[j].arg = cmd.arg
      /\ Still(r, 1, n) => chan = cmd.arg
  BY <1>1, <1>2, <1>3, <1>4
<1>6. /\ \A j \in 1..n : r[j].kind = "channels" /\ Still(r, j + 1, n)
         => r[j].arg = GuildOf[cmd.arg]
      /\ Still(r, 1, n) /\ cl.logged /\ cmd.arg \notin cl.strays
         => cl.guild \in {Nothing, GuildOf[cmd.arg]}
  BY <1>1, <1>2, <1>3, <1>4
<1> QED
  BY <1>1, <1>5, <1>6 DEF Leads, FitsIn, r, n

\* What the first command has done to the client, the ones after it build on.
LEMMA RestFacts ==
  ASSUME NEW q \in Seq(Cmds), q # <<>>, NEW n \in 1..Len(q), NEW c, NEW chan, NEW now,
         Leads(q, chan, n + 1, c),
         Head(q).kind \notin Moves => now = chan, Head(q).kind = "select" => now = Head(q).arg
  PROVE  Leads(Tail(q), now, n, c)
<1> DEFINE t == Tail(q)
<1>1. /\ Head(q) = q[1] /\ Len(q) \in Nat /\ \A i \in 1..(Len(q) - 1) : t[i] = q[i + 1]
  BY TailFacts
<1>2. n \in Nat /\ n > 0 /\ n <= Len(q) /\ (n + 1) - 1 = n
  BY <1>1
<1> HIDE DEF t
<1>3. \A i \in 1..(n - 1) : t[i] = q[i + 1]
  BY <1>1, <1>2
<1>4. /\ \A j \in 1..n : q[j].kind \in Moves /\ Still(q, j + 1, n) =>
         q[j].kind = "select" /\ q[j].arg = c
      /\ Still(q, 1, n) => chan = c
  BY <1>2 DEF Leads
<1>5. \A i \in 1..n : Still(t, i, n - 1) => Still(q, i + 1, n)
  <2>1. ASSUME NEW i \in 1..n, Still(t, i, n - 1), NEW k \in (i + 1)..n
        PROVE  q[k].kind \notin Moves
    <3>1. k - 1 \in i..(n - 1) /\ k - 1 \in 1..(n - 1) /\ (k - 1) + 1 = k
      BY <1>2
    <3>2. t[k - 1].kind \notin Moves
      BY <2>1, <3>1 DEF Still
    <3> QED
      BY <1>3, <3>1, <3>2
  <2> QED
    BY <2>1 DEF Still
<1>6. ASSUME NEW j \in 1..(n - 1), t[j].kind \in Moves, Still(t, j + 1, n - 1)
      PROVE  t[j].kind = "select" /\ t[j].arg = c
  <2>1. j + 1 \in 1..n /\ (j + 1) + 1 = j + 2
    BY <1>2
  <2>2. Still(q, (j + 1) + 1, n)
    BY <1>5, <1>6, <2>1
  <2> QED
    BY <1>3, <1>4, <1>6, <2>1, <2>2
<1>7. ASSUME Still(t, 1, n - 1) PROVE now = c
  <2>1. Still(q, 2, n) /\ 1 \in 1..n
    BY <1>2, <1>5, <1>7
  <2>2. CASE q[1].kind \in Moves
    BY <1>1, <1>4, <2>1, <2>2
  <2>3. CASE q[1].kind \notin Moves
    <3>1. Still(q, 1, n)
      BY <1>2, <2>1, <2>3 DEF Still
    <3> QED
      BY <1>1, <1>4, <2>3, <3>1
  <2> QED
    BY <2>2, <2>3
<1> QED
  BY <1>6, <1>7 DEF Leads, t

\* The same of the guild.
LEMMA RestFits ==
  ASSUME NEW q \in Seq(Cmds), q # <<>>, NEW n \in 1..Len(q), NEW c, NEW chan, NEW cl, NEW now,
         Leads(q, chan, n + 1, c), FitsIn(q, cl, n + 1, c),
         Head(q).kind = "channels" => ~ now.logged \/ now.guild = Head(q).arg,
         Head(q).kind \notin Moves \union {"channels"} =>
           now.guild = cl.guild /\ (now.logged => cl.logged) /\ cl.strays \subseteq now.strays,
         Head(q).kind = "select" =>
           \/ ~ now.logged \/ Head(q).arg \in now.strays
           \/ now.guild \in {Nothing, GuildOf[Head(q).arg]}
  PROVE  FitsIn(Tail(q), now, n, c)
<1> DEFINE t == Tail(q)
<1>1. /\ Head(q) = q[1] /\ Len(q) \in Nat /\ \A i \in 1..(Len(q) - 1) : t[i] = q[i + 1]
  BY TailFacts
<1>2. n \in Nat /\ n > 0 /\ n <= Len(q) /\ (n + 1) - 1 = n
  BY <1>1
<1> HIDE DEF t
<1>3. \A i \in 1..(n - 1) : t[i] = q[i + 1]
  BY <1>1, <1>2
<1>4. \A j \in 1..n : q[j].kind \in Moves /\ Still(q, j + 1, n) =>
         q[j].kind = "select" /\ q[j].arg = c
  BY <1>2 DEF Leads
<1>a. /\ \A j \in 1..n : q[j].kind = "channels" /\ Still(q, j + 1, n) => q[j].arg = GuildOf[c]
      /\ Still(q, 1, n) /\ cl.logged /\ c \notin cl.strays => cl.guild \in {Nothing, GuildOf[c]}
  BY <1>2 DEF FitsIn
<1>5. \A i \in 1..n : Still(t, i, n - 1) => Still(q, i + 1, n)
  <2>1. ASSUME NEW i \in 1..n, Still(t, i, n - 1), NEW k \in (i + 1)..n
        PROVE  q[k].kind \notin Moves
    <3>1. k - 1 \in i..(n - 1) /\ k - 1 \in 1..(n - 1) /\ (k - 1) + 1 = k
      BY <1>2
    <3>2. t[k - 1].kind \notin Moves
      BY <2>1, <3>1 DEF Still
    <3> QED
      BY <1>3, <3>1, <3>2
  <2> QED
    BY <2>1 DEF Still
<1>6. ASSUME NEW j \in 1..(n - 1), t[j].kind = "channels", Still(t, j + 1, n - 1)
      PROVE  t[j].arg = GuildOf[c]
  <2>1. j + 1 \in 1..n /\ (j + 1) + 1 = j + 2
    BY <1>2
  <2>2. Still(q, (j + 1) + 1, n)
    BY <1>5, <1>6, <2>1
  <2> QED
    BY <1>3, <1>a, <1>6, <2>1, <2>2
<1>7. ASSUME Still(t, 1, n - 1), now.logged, c \notin now.strays
      PROVE  now.guild \in {Nothing, GuildOf[c]}
  <2>1. Still(q, 2, n) /\ 1 \in 1..n
    BY <1>2, <1>5, <1>7
  <2>2. CASE q[1].kind \in Moves
    <3>1. q[1].kind = "select" /\ q[1].arg = c
      BY <1>4, <2>1, <2>2
    <3> QED
      BY <1>1, <1>7, <3>1
  <2>3. CASE q[1].kind = "channels"
    <3>1. q[1].arg = GuildOf[c]
      BY <1>a, <2>1, <2>3
    <3> QED
      BY <1>1, <1>7, <2>3, <3>1
  <2>4. CASE q[1].kind \notin Moves \union {"channels"}
    <3>1. Still(q, 1, n)
      BY <1>2, <2>1, <2>4 DEF Still
    <3> QED
      BY <1>1, <1>a, <1>7, <2>4, <3>1
  <2> QED
    BY <2>2, <2>3, <2>4
<1> QED
  BY <1>6, <1>7 DEF FitsIn, t

\* What the command that the backend takes does to the client.
LEMMA TakenMoves ==
  ASSUME TypeOK, CmdInv, EventInv, KnownInv, Taken
  PROVE  LET cmd == Head(cmds) IN
         /\ cmd.kind \notin Moves => client'.chan = client.chan
         /\ cmd.kind = "select" => client'.chan = cmd.arg
         /\ cmd.kind = "channels" => ~ client'.logged \/ client'.guild = cmd.arg
         /\ cmd.kind \notin Moves \union {"channels"} =>
              /\ client'.guild = client.guild /\ client'.logged = client.logged
              /\ client.strays \subseteq client'.strays
         /\ cmd.kind = "select" =>
              \/ ~ client'.logged \/ cmd.arg \in client'.strays
              \/ client'.guild \in {Nothing, GuildOf[cmd.arg]}
<1>0. client \in ClientSet /\ CmdTypes
  BY TypeParts DEF BackTypes
<1> DEFINE cmd == Head(cmds)
<1>1. CASE client' = client /\ cmd.kind \notin {"select", "channels"}
  BY <1>1
<1>2. CASE FailFirst \/ ListMembers \/ StartSend
  <2>1. client' = client
    BY <1>2 DEF FailFirst, ListMembers, StartSend, backVars
  <2>2. cmd.kind \in {"login", "guilds", "members", "join", "send"}
    BY <1>2 DEF FailFirst, ListMembers, StartSend, Take
  <2> QED
    BY <1>1, <2>1, <2>2
<1>3. CASE ListGuilds \/ Join
  <2>1. client' = client /\ call = Idle
    BY <1>3 DEF ListGuilds, Join, Taken
  <2>2. cmd.kind \in {"guilds", "join"}
    BY <1>3, <2>1, IdleFacts DEF ListGuilds, Join, Take, At
  <2> QED
    BY <1>1, <2>1, <2>2
<1>4. CASE BindClient
  <2>1. cmd.kind = "login"
    BY <1>4 DEF BindClient, Take
  <2> QED
    BY <2>1 DEF Moves
<1>5. CASE StartListChannels
  <2>1. cmd.kind = "channels" /\ client' = [client EXCEPT !.guild = cmd.arg]
    BY <1>5 DEF StartListChannels, Take
  <2>2. client'.guild = cmd.arg /\ client'.chan = client.chan
    BY <1>0, <2>1 DEF ClientSet
  <2> QED
    BY <2>1, <2>2
<1>6. CASE StartLoadOlder
  <2>1. cmd.kind = "older" /\ client' = Placed(client, cmd.arg) /\ cmd.arg \in Channels
    BY <1>0, <1>6, TakeFacts DEF StartLoadOlder, GoodCmd
  <2>2. /\ client'.chan = client.chan /\ client'.guild = client.guild
        /\ client'.logged = client.logged /\ client.strays \subseteq client'.strays
    BY <1>0, <2>1, PlacedFacts
  <2> QED
    BY <2>1, <2>2
<1>7. CASE StartSelect
  <2>1. cmd.kind = "select" /\ client' = Strayed(Select(cmd.arg), cmd.arg) /\ cmd.arg \in Channels
    BY <1>0, <1>7, TakeFacts DEF StartSelect, GoodCmd
  <2> HIDE DEF cmd
  <2>2. /\ Select(cmd.arg) \in ClientSet /\ Select(cmd.arg).chan = cmd.arg
        /\ Select(cmd.arg).known = client.known /\ Select(cmd.arg).strays = client.strays
        /\ Select(cmd.arg).guild =
             IF client.known[cmd.arg] = Nothing THEN client.guild ELSE client.known[cmd.arg]
    BY <1>0, <2>1, SelectFacts
  <2> DEFINE cl == Select(cmd.arg)
  <2>3. /\ cl \in ClientSet /\ cl.chan = cmd.arg /\ cl.known = client.known
           /\ cl.strays = client.strays
        /\ cl.guild = IF client.known[cmd.arg] = Nothing THEN client.guild
                      ELSE client.known[cmd.arg]
        /\ client' = Strayed(cl, cmd.arg)
    BY <2>1, <2>2
  <2> HIDE DEF cl
  <2>4. /\ client'.chan = cl.chan /\ client'.guild = cl.guild
           /\ cl.strays \subseteq client'.strays
        /\ cl.known[cmd.arg] = Nothing /\ cl.guild \notin {Nothing, GuildOf[cmd.arg]}
           => cmd.arg \in client'.strays
    BY <2>1, <2>3, StrayedFacts
  <2>5. client.known[cmd.arg] \in {Nothing, GuildOf[cmd.arg]} \/ cmd.arg \in client.strays
    BY <2>1 DEF KnownInv
  <2>6. cmd.arg \in client'.strays \/ client'.guild \in {Nothing, GuildOf[cmd.arg]}
    BY <2>3, <2>4, <2>5
  <2>7. client'.chan = cmd.arg /\ cmd.kind = "select"
    BY <2>1, <2>3, <2>4
  <2> QED
    BY <2>6, <2>7 DEF Moves, cmd
<1>8. CASE Refuse
  <2>1. PICK kind : /\ kind \in {"guilds", "channels", "members", "select", "older",
                                 "send", "join"}
                    /\ Take(kind) /\ (~ client.logged \/ kind = "send")
                    /\ client' = IF kind = "select" THEN Select(cmd.arg) ELSE client
    BY <1>8 DEF Refuse
  <2>2. cmd.kind = kind
    BY <2>1 DEF Take
  <2>3. CASE kind = "send"
    BY <1>1, <2>1, <2>2, <2>3
  <2>4. CASE kind = "select"
    <3>1. cmd.arg \in Channels
      BY <1>0, <2>1, <2>4, TakeFacts DEF GoodCmd
    <3>2. client'.chan = cmd.arg /\ client'.logged = client.logged
      BY <1>0, <2>1, <2>4, <3>1, SelectFacts
    <3> QED
      BY <2>1, <2>2, <2>4, <3>2 DEF Moves
  <2>5. CASE kind \notin {"send", "select"}
    BY <2>1, <2>2, <2>5
  <2> QED
    BY <2>3, <2>4, <2>5
<1> QED
  BY <1>2, <1>3, <1>4, <1>5, <1>6, <1>7, <1>8 DEF Taken

\* Until the backend takes the next command, the client stays where it is.
LEMMA StayFacts ==
  ASSUME TypeOK, CmdInv, CallInv, PostInv, EventInv, [Next]_vars, ~ Taken
  PROVE  /\ client'.chan = client.chan /\ client'.guild = client.guild
         /\ client.strays \subseteq client'.strays
         /\ client'.logged => client.logged \/ client.guild = Nothing
         /\ \A c \in Channels : client.known[c] # Nothing
            => client'.known[c] \in {client.known[c], GuildOf[c]}
<1>0. client \in ClientSet /\ cmds \in Seq(Cmds)
  BY TypeParts DEF BackTypes, CmdTypes
<1>1. \A kind : Take(kind) => cmds # <<>> /\ cmds' = Tail(cmds) /\ call = Idle
  BY DEF Take
<1>2. ~ BindClient /\ ~ StartListChannels /\ ~ StartSelect /\ ~ Refuse /\ ~ StartLoadOlder
  BY <1>1 DEF Taken, BindClient, StartListChannels, StartSelect, Refuse, StartLoadOlder
<1>3. CASE Register /\ client'.guild = client.guild /\ client'.chan = client.chan
        /\ client'.strays = client.strays
           /\ client'.known = client.known
  BY <1>3 DEF Register, At, CallInv
<1>4. ASSUME NEW g \in Guilds, client' = Listed(g)
      PROVE  /\ client'.chan = client.chan /\ client'.guild = client.guild
             /\ client'.strays = client.strays /\ client'.logged = client.logged
             /\ \A c \in Channels : client'.known[c] \in {client.known[c], GuildOf[c]}
  BY <1>0, <1>4, ListedFacts
<1>5. CASE FetchOwn /\ client' = Placed(client, client.chan)
  <2>1. client.chan \in Channels
    BY <1>5 DEF FetchOwn, At, CallInv
  <2> QED
    BY <1>0, <1>5, <2>1, PlacedFacts
<1>6. CASE FetchSelected /\ client' = Placed(client, call.cmd.arg)
  <2>1. call.cmd.arg \in Channels
    BY <1>6 DEF FetchSelected, At, CmdInv, GoodCmd
  <2> QED
    BY <1>0, <1>6, <2>1, PlacedFacts
<1> QED
  BY <1>2, <1>3, <1>4, <1>5, <1>6, ClientEffect DEF SameSelection

\* What the window may do to its selection, and to the commands with it.
Chosen(c) ==
  /\ Queue(Cmd("select", c)) /\ view'.chan = c
  /\ view'.shaky = (Len(cmds) = QueueSize) /\ view'.crossed = FALSE
Keeps == view'.main = view.main /\ view'.chan = view.chan /\ view'.shaky = view.shaky
Added(kinds) == cmds' = cmds \/ \E cmd \in Cmds : cmd.kind \in kinds /\ Queue(cmd)

\* What a step of the window does to its selection and to the commands.
LEMMA ViewEffect ==
  ASSUME TypeOK, CmdInv, EventInv, WindowStep
  PROVE  \/ ~ view'.main \/ view'.chan = Nothing
         \/ \E c \in Channels : Chosen(c)
         \/ Keeps /\ view'.crossed = view.crossed /\ Added({"older", "send", "join"})
         \/ \E g \in Guilds : /\ Keeps /\ QueueGuild(g)
                              /\ view'.crossed =
                                   (view.crossed
                                     \/ view.chan \notin ChannelsOf(g) \union {Nothing})
<1>0. ViewTypes /\ LineTypes /\ view \in ViewSet /\ CmdTypes /\ ScreenTypes
  BY TypeParts DEF ViewTypes
<1>1. CASE HandleLoginOk \/ HandleJoined
  BY <1>0, <1>1 DEF HandleLoginOk, HandleJoined, EmptyView, ViewSet
<1>2. CASE SignOut
  BY <1>0, <1>2 DEF SignOut, ViewSet
<1>3. CASE SignIn
  BY <1>0, <1>3 DEF SignIn, ViewSet
<1>4. ASSUME NEW g \in Guilds, ClickGuild(g) PROVE view'.chan = Nothing
  BY <1>0, <1>4 DEF ClickGuild, ViewSet
<1>5. CASE HandleError \/ Dismiss
  <2>1. \/ view' = [view EXCEPT !.told = TRUE, !.waved = FALSE]
        \/ view' = [view EXCEPT !.told = TRUE, !.waved = FALSE, !.main = FALSE]
        \/ view' = [view EXCEPT !.told = FALSE, !.waved = TRUE]
    BY <1>5 DEF HandleError, Dismiss
  <2>2. cmds' = cmds
    BY <1>5 DEF HandleError, Dismiss
  <2> QED
    BY <1>0, <2>1, <2>2 DEF Keeps, Added, ViewSet
<1>6. CASE HandleMessage
  BY <1>6 DEF HandleMessage, Keeps, Added
<1>7. CASE LoadOlder \/ Compose \/ \E g \in Guilds : JoinInvite(g)
  <2>1. view' = view
    BY <1>7 DEF LoadOlder, Compose, JoinInvite, windowVars
  <2>2. view.chan \in Channels \union {Nothing} /\ Nothing \in Places
          /\ Channels \subseteq Places /\ Guilds \subseteq Places
    BY <1>0 DEF ViewSet, Places
  <2>3. CASE LoadOlder
    <3>1. view.chan \in Channels /\ screen[view.chan] \in Seq(Ids) /\ screen[view.chan] # <<>>
      BY <1>0, <2>2, <2>3 DEF LoadOlder, ScreenTypes
    <3>2. Head(screen[view.chan]) \in Ids
      BY <3>1, TailFacts
    <3>3. Cmd("older", view.chan) \in Cmds /\ Cmd("older", view.chan).kind = "older"
      BY <2>2, CmdFacts
    <3> DEFINE cmd == [Cmd("older", view.chan) EXCEPT !.before = Head(screen[view.chan])]
    <3>4. cmd \in Cmds /\ cmd.kind = "older"
      BY <3>2, <3>3, CmdFacts DEF Cmds
    <3>5. Queue(cmd)
      BY <2>3 DEF LoadOlder
    <3> HIDE DEF cmd
    <3> QED
      BY <2>1, <3>4, <3>5 DEF Added, Keeps
  <2>4. CASE Compose
    <3>3. Cmd("send", view.chan) \in Cmds /\ Cmd("send", view.chan).kind = "send"
      BY <2>2, CmdFacts
    <3> DEFINE cmd == [Cmd("send", view.chan) EXCEPT !.sure = ~ view.shaky,
                                                       !.fit = ~ view.crossed]
    <3>4. cmd \in Cmds /\ cmd.kind = "send"
      BY <3>3 DEF Cmds
    <3>5. Queue(cmd)
      BY <2>4 DEF Compose
    <3> HIDE DEF cmd
    <3> QED
      BY <2>1, <3>4, <3>5 DEF Added, Keeps
  <2>5. CASE \E g \in Guilds : JoinInvite(g)
    <3>1. PICK g \in Guilds : JoinInvite(g)
      BY <2>5
    <3>2. Cmd("join", g) \in Cmds /\ Cmd("join", g).kind = "join"
      BY <2>2, CmdFacts
    <3>3. Queue(Cmd("join", g))
      BY <3>1 DEF JoinInvite
    <3> QED
      BY <2>1, <3>2, <3>3 DEF Added, Keeps
  <2> QED
    BY <1>7, <2>3, <2>4, <2>5
<1>8. CASE HandleGuild
  <2> DEFINE g == Head(inbox).arg
             known == [view EXCEPT !.guilds = @ \union {g}]
             chosen == [known EXCEPT !.guild = g, !.channels = {}]
  <2>1. g \in Guilds
    BY <1>0, <1>8, OnFacts DEF HandleGuild, GoodEvent, GoodFor
  <2>2. \/ view' = known /\ cmds' = cmds
        \/ view' = Asked(chosen) /\ QueueGuild(g)
    BY <1>8 DEF HandleGuild
  <2>3. known \in ViewSet /\ known.main = view.main /\ known.chan = view.chan
        /\ known.shaky = view.shaky /\ known.crossed = view.crossed
    BY <1>0, <2>1 DEF ViewSet
  <2> HIDE DEF known
  <2>4. chosen \in ViewSet /\ chosen.main = view.main /\ chosen.chan = view.chan
        /\ chosen.shaky = view.shaky /\ chosen.crossed = view.crossed /\ chosen.guild = g
    BY <2>1, <2>3 DEF ViewSet
  <2> HIDE DEF chosen, g
  <2>5. CASE view' = known /\ cmds' = cmds
    BY <2>3, <2>5 DEF Keeps, Added
  <2>6. CASE view' = Asked(chosen) /\ QueueGuild(g)
    <3>1. Keeps /\ view'.crossed =
                    (view.crossed \/ view.chan \notin ChannelsOf(g) \union {Nothing})
      BY <2>4, <2>6 DEF Asked, ViewSet, Keeps
    <3> QED
      BY <2>1, <2>6, <3>1
  <2> QED
    BY <2>2, <2>5, <2>6
<1>9. CASE HandleChannel
  <2> DEFINE c == Head(inbox).arg
             listed == [view EXCEPT !.channels = @ \union {c}]
  <2>1. c \in Channels
    BY <1>0, <1>9, OnFacts DEF HandleChannel, GoodEvent, GoodFor
  <2>2. \/ view' = listed /\ cmds' = cmds
        \/ view' = Selected(listed, c) /\ Queue(Cmd("select", c))
    BY <1>9 DEF HandleChannel
  <2>3. listed \in ViewSet /\ listed.main = view.main /\ listed.chan = view.chan
        /\ listed.shaky = view.shaky /\ listed.crossed = view.crossed
    BY <1>0, <2>1 DEF ViewSet
  <2> HIDE DEF listed, c
  <2>5. CASE view' = listed /\ cmds' = cmds
    BY <2>3, <2>5 DEF Keeps, Added
  <2>6. CASE view' = Selected(listed, c) /\ Queue(Cmd("select", c))
    <3>1. Chosen(c)
      BY <2>3, <2>6 DEF Selected, ViewSet, Chosen
    <3> QED
      BY <2>1, <3>1
  <2> QED
    BY <2>2, <2>5, <2>6
<1>10. CASE Refresh
  <2>1. view.guild \in Guilds /\ QueueGuild(view.guild) /\ view' = Asked(view)
    BY <1>0, <1>10 DEF Refresh, ViewSet
  <2>2. Keeps /\ view'.crossed =
                  (view.crossed \/ view.chan \notin ChannelsOf(view.guild) \union {Nothing})
    BY <1>0, <2>1 DEF Asked, ViewSet, Keeps
  <2> QED
    BY <2>1, <2>2
<1>11. ASSUME NEW c \in Channels, ClickChannel(c) PROVE Chosen(c)
  BY <1>0, <1>11 DEF ClickChannel, Selected, ViewSet, Chosen
<1> QED
  BY <1>1, <1>2, <1>3, <1>4, <1>5, <1>6, <1>7, <1>8, <1>9, <1>10, <1>11 DEF WindowStep, Handle

\* While the backend takes nothing, the commands only grow at their end; a message among
\* the new ones goes to the channel on screen.
LEMMA GrowFacts ==
  ASSUME TypeOK, CmdInv, EventInv, [Next]_vars, ~ Taken
  PROVE  /\ cmds' \in Seq(Cmds) /\ Len(cmds) <= Len(cmds')
            /\ \A i \in 1..Len(cmds) : cmds'[i] = cmds[i]
         /\ \A i \in (Len(cmds) + 1)..Len(cmds') : cmds'[i].kind = "send" =>
              /\ i = Len(cmds) + 1 /\ view.main /\ view.chan \in Channels
                 /\ cmds'[i].arg = view.chan
              /\ cmds'[i].sure = ~ view.shaky /\ cmds'[i].fit = ~ view.crossed
<1>0. CmdTypes /\ cmds \in Seq(Cmds) /\ Len(cmds) <= QueueSize /\ view \in ViewSet
  BY TypeParts DEF CmdTypes, ViewTypes
<1>1. CASE cmds' = cmds
  BY <1>0, <1>1
<1>2. ASSUME NEW g \in Guilds, QueueGuild(g)
      PROVE  /\ cmds' \in Seq(Cmds) /\ Len(cmds) <= Len(cmds')
                /\ \A i \in 1..Len(cmds) : cmds'[i] = cmds[i]
             /\ \A i \in (Len(cmds) + 1)..Len(cmds') : cmds'[i].kind # "send"
  <2>1. /\ cmds' \in Seq(Cmds) /\ Len(cmds) \in Nat /\ Len(cmds') \in Len(cmds)..(Len(cmds) + 2)
        /\ \A i \in 1..Len(cmds) : cmds'[i] = cmds[i]
        /\ \A i \in (Len(cmds) + 1)..Len(cmds') :
             cmds'[i] = Cmd("channels", g) \/ cmds'[i] = Cmd("members", g)
    BY <1>0, <1>2, QueueGuildFacts
  <2>2. Cmd("channels", g).kind # "send" /\ Cmd("members", g).kind # "send"
    BY CmdFacts DEF Places
  <2> QED
    BY <2>1, <2>2
<1>3. ASSUME NEW cmd \in Cmds, Queue(cmd)
      PROVE  /\ cmds' \in Seq(Cmds) /\ Len(cmds) <= Len(cmds')
                /\ \A i \in 1..Len(cmds) : cmds'[i] = cmds[i]
             /\ \A i \in (Len(cmds) + 1)..Len(cmds') : i = Len(cmds) + 1 /\ cmds'[i] = cmd
  <2>1. cmds' = Queued(cmds, cmd)
    BY <1>3 DEF Queue
  <2>2. /\ cmds' \in Seq(Cmds) /\ Len(cmds') \in {Len(cmds), Len(cmds) + 1} /\ Len(cmds) \in Nat
        /\ \A i \in 1..Len(cmds) : cmds'[i] = cmds[i]
        /\ \A i \in (Len(cmds) + 1)..Len(cmds') : cmds'[i] = cmd
    BY <1>0, <2>1, QueuedFacts
  <2> QED
    BY <2>2
<1>4. CASE Compose
  <2>1. view.chan \in Channels /\ view.main
    BY <1>0, <1>4 DEF Compose, ViewSet
  <2> DEFINE cmd == [Cmd("send", view.chan) EXCEPT !.sure = ~ view.shaky, !.fit = ~ view.crossed]
  <2>2. Cmd("send", view.chan) \in Cmds /\ Cmd("send", view.chan).kind = "send"
          /\ Cmd("send", view.chan).arg = view.chan
    BY <2>1, CmdFacts DEF Places
  <2>3. cmd \in Cmds
    BY <2>2 DEF Cmds
  <2>4. cmd.arg = view.chan /\ cmd.sure = ~ view.shaky /\ cmd.fit = ~ view.crossed
    BY <2>2 DEF Cmds
  <2>5. Queue(cmd)
    BY <1>4 DEF Compose
  <2> HIDE DEF cmd
  <2> QED
    BY <1>3, <2>1, <2>3, <2>4, <2>5
<1>5. ASSUME NEW cmd \in Asks, Queue(cmd), cmd.kind # "send"
      PROVE  /\ cmds' \in Seq(Cmds) /\ Len(cmds) <= Len(cmds')
                /\ \A i \in 1..Len(cmds) : cmds'[i] = cmds[i]
             /\ \A i \in (Len(cmds) + 1)..Len(cmds') : cmds'[i].kind # "send"
  <2>1. cmd \in Cmds
    BY DEF Asks
  <2> QED
    BY <1>3, <1>5, <2>1
<1>6. cmds' = cmds \/ Compose \/ (\E cmd \in Asks : Queue(cmd) /\ cmd.kind # "send")
        \/ \E g \in Guilds : QueueGuild(g)
  BY CmdsEffect
<1>7. CASE \E cmd \in Asks : Queue(cmd) /\ cmd.kind # "send"
  BY <1>5, <1>7
<1>8. CASE \E g \in Guilds : QueueGuild(g)
  BY <1>2, <1>8
<1> QED
  BY <1>1, <1>4, <1>6, <1>7, <1>8

\* What is behind the window asks for nothing.
LEMMA BackCmds ==
  ASSUME BackStep \/ UNCHANGED vars
  PROVE  view' = view /\ (Taken \/ cmds' = cmds)
<1>1. view' = view
  BY BackFrame DEF vars, windowVars
<1>2. ASSUME NEW kind, Take(kind) PROVE call = Idle /\ cmds # <<>> /\ cmds' = Tail(cmds)
  BY <1>2 DEF Take
<1>3. CASE FailFirst \/ Refuse \/ BindClient \/ (ListGuilds /\ cmds' # cmds) \/ Join
  <2>1. \E kind : Take(kind)
    BY <1>3 DEF FailFirst, Refuse, BindClient, ListGuilds, Join
  <2> QED
    BY <1>1, <1>2, <1>3, <2>1 DEF Taken
<1>4. CASE StartListChannels \/ ListMembers \/ StartSelect \/ StartLoadOlder \/ StartSend
  <2>1. \E kind : Take(kind)
    BY <1>4 DEF StartListChannels, ListMembers, StartSelect, StartLoadOlder, StartSend
  <2> QED
    BY <1>1, <1>2, <1>4, <2>1 DEF Taken
<1>5. CASE Fail \/ Connect \/ Register \/ UploadKeys \/ Joined \/ ListChannels
        \/ FetchSelected \/ FetchMessages \/ Send \/ FetchOwn \/ EmitNext
  BY <1>1, <1>5 DEF Fail, Connect, Register, UploadKeys, Joined, ListChannels, FetchSelected,
     FetchMessages, Send, FetchOwn, EmitNext
<1>6. CASE UNCHANGED vars \/ Forward \/ BackgroundError \/ Hangup
           \/ (\E g \in Guilds : Learn(g)) \/ \E c \in Channels : OtherPosts(c)
  BY <1>1, <1>6 DEF vars, Forward, BackgroundError, Hangup, Learn, OtherPosts
<1> QED
  BY <1>1, <1>3, <1>4, <1>5, <1>6 DEF BackStep, Backend

\* When the backend takes a command, the rest of the queue moves up.
LEMMA TakenFacts ==
  ASSUME TypeOK, Taken
  PROVE  /\ view' = view /\ cmds \in Seq(Cmds) /\ cmds # <<>> /\ cmds' = Tail(cmds)
         /\ Len(cmds) \in Nat /\ Len(cmds') + 1 = Len(cmds) /\ Len(cmds) \in 1..Len(cmds)
         /\ 1 \in DOMAIN cmds /\ Head(cmds) = cmds[1]
         /\ \A i \in DOMAIN cmds' :
              i \in 1..Len(cmds) /\ i + 1 \in DOMAIN cmds /\ cmds'[i] = cmds[i + 1]
<1>1. cmds \in Seq(Cmds)
  BY TypeParts DEF CmdTypes
<1>2. cmds # <<>> /\ cmds' = Tail(cmds)
  BY DEF Taken
<1>3. view' = view
  BY BackFrame DEF Taken, BackStep, Backend, windowVars
<1>4. /\ DOMAIN cmds' = 1..(Len(cmds) - 1) /\ DOMAIN cmds = 1..Len(cmds) /\ Len(cmds) \in Nat
      /\ Len(cmds') = Len(cmds) - 1 /\ Len(cmds) > 0
         /\ \A i \in 1..(Len(cmds) - 1) : cmds'[i] = cmds[i + 1]
  BY <1>1, <1>2, TailFacts
<1> QED
  BY <1>1, <1>2, <1>3, <1>4, TailFacts

\* A message that is being posted was posted before the step, or has just been taken.
LEMMA PostStep ==
  ASSUME TypeOK, CmdInv, EventInv, [Next]_vars, At({"send"}, "post")'
  PROVE  \/ call' = call /\ At({"send"}, "post") /\ ~ Taken
         \/ /\ StartSend /\ Taken /\ call'.cmd = Head(cmds) /\ Head(cmds).kind = "send"
            /\ client' = client
<1>1. call'.cmd.kind = "send" /\ call'.step = "post"
  BY DEF At
<1>2. \/ call' = call /\ ~ StartSend
      \/ StartSend /\ call'.cmd = Head(cmds) /\ Head(cmds).kind = "send"
  BY <1>1, CallEffect, IdleFacts
<1>3. CASE call' = call
  BY <1>1, <1>3, IdleFacts DEF At, Taken
<1>4. CASE StartSend /\ call'.cmd = Head(cmds) /\ Head(cmds).kind = "send"
  BY <1>4 DEF StartSend, Taken, Take
<1> QED
  BY <1>2, <1>3, <1>4

\* What is in the queue leads on to the message's channel, and to that on screen.
LEMMA LeadInvKept ==
  ASSUME TypeOK, CmdInv, CallInv, PostInv, EventInv, KnownInv, LeadInv, [Next]_vars
  PROVE  LeadInv'
<1>0. cmds \in Seq(Cmds) /\ Len(cmds) <= QueueSize /\ Len(cmds) \in Nat
  BY TypeParts DEF CmdTypes
<1>a. /\ \A i \in DOMAIN cmds : cmds[i].kind = "send" /\ cmds[i].sure
         => Leads(cmds, client.chan, i, cmds[i].arg)
      /\ view.main /\ view.chan # Nothing /\ ~ view.shaky
         => Leads(cmds, client.chan, Len(cmds) + 1, view.chan)
  BY DEF LeadInv, LeadsTo
<1>b. SUFFICES
        /\ \A i \in DOMAIN cmds' : cmds'[i].kind = "send" /\ cmds'[i].sure
           => Leads(cmds', client'.chan, i, cmds'[i].arg)
        /\ view'.main /\ view'.chan # Nothing /\ ~ view'.shaky
           => Leads(cmds', client'.chan, Len(cmds') + 1, view'.chan)
        /\ At({"send"}, "post")' /\ call'.cmd.sure => client'.chan = call'.cmd.arg
  BY DEF LeadInv, LeadsTo
<1>1. CASE Taken
  <2>1. /\ view' = view /\ cmds # <<>> /\ cmds' = Tail(cmds) /\ Len(cmds') + 1 = Len(cmds)
        /\ Len(cmds) \in 1..Len(cmds) /\ 1 \in DOMAIN cmds /\ Head(cmds) = cmds[1]
        /\ \A i \in DOMAIN cmds' :
             i \in 1..Len(cmds) /\ i + 1 \in DOMAIN cmds /\ cmds'[i] = cmds[i + 1]
    BY <1>1, TakenFacts
  <2>2. /\ Head(cmds).kind \notin Moves => client'.chan = client.chan
        /\ Head(cmds).kind = "select" => client'.chan = Head(cmds).arg
    BY <1>1, TakenMoves
  <2>3. ASSUME NEW n \in 1..Len(cmds), NEW c, Leads(cmds, client.chan, n + 1, c)
        PROVE  Leads(cmds', client'.chan, n, c)
    BY <1>0, <2>1, <2>2, <2>3, RestFacts
  <2>4. \A i \in DOMAIN cmds' : cmds'[i].kind = "send" /\ cmds'[i].sure
           => Leads(cmds', client'.chan, i, cmds'[i].arg)
    BY <1>a, <2>1, <2>3
  <2>5. view'.main /\ view'.chan # Nothing /\ ~ view'.shaky
          => Leads(cmds', client'.chan, Len(cmds') + 1, view'.chan)
    BY <1>a, <2>1, <2>3
  <2>6. ASSUME At({"send"}, "post")', call'.cmd.sure PROVE client'.chan = call'.cmd.arg
    <3>1. call'.cmd = Head(cmds) /\ Head(cmds).kind = "send" /\ client' = client
      BY <1>1, <2>6, PostStep
    <3>2. Leads(cmds, client.chan, 1, Head(cmds).arg)
      BY <1>a, <2>1, <2>6, <3>1
    <3>3. Still(cmds, 1, 1 - 1)
      BY DEF Still
    <3> QED
      BY <3>1, <3>2, <3>3 DEF Leads
  <2> QED
    BY <2>4, <2>5, <2>6
<1>2. CASE ~ Taken
  <2>1. client'.chan = client.chan
    BY <1>2, StayFacts
  <2>2. /\ cmds' \in Seq(Cmds) /\ Len(cmds) <= Len(cmds')
           /\ \A i \in 1..Len(cmds) : cmds'[i] = cmds[i]
        /\ \A i \in (Len(cmds) + 1)..Len(cmds') : cmds'[i].kind = "send" =>
             /\ i = Len(cmds) + 1 /\ view.main /\ view.chan \in Channels
                /\ cmds'[i].arg = view.chan
             /\ cmds'[i].sure = ~ view.shaky
    BY <1>2, GrowFacts
  <2>3. ASSUME NEW n \in 1..(Len(cmds) + 1), NEW c, Leads(cmds, client.chan, n, c)
        PROVE  Leads(cmds', client'.chan, n, c)
    BY <1>0, <2>1, <2>2, <2>3, PrefixFacts
  <2>4. ASSUME NEW i \in DOMAIN cmds', cmds'[i].kind = "send", cmds'[i].sure
        PROVE  Leads(cmds', client'.chan, i, cmds'[i].arg)
    <3>0. i \in 1..Len(cmds') /\ DOMAIN cmds = 1..Len(cmds)
      BY <1>0, <2>2
    <3>1. CASE i \in 1..Len(cmds)
      <4>1. cmds'[i] = cmds[i] /\ i \in 1..(Len(cmds) + 1)
        BY <1>0, <2>2, <3>1
      <4> QED
        BY <1>a, <2>3, <2>4, <3>0, <3>1, <4>1
    <3>2. CASE i \in (Len(cmds) + 1)..Len(cmds')
      <4>1. i = Len(cmds) + 1 /\ view.main /\ view.chan \in Channels
              /\ cmds'[i].arg = view.chan /\ ~ view.shaky
        BY <2>2, <2>4, <3>2
      <4>2. Leads(cmds, client.chan, Len(cmds) + 1, view.chan)
        BY <1>a, <4>1, NameAssumption
      <4>3. Len(cmds) + 1 \in 1..(Len(cmds) + 1)
        BY <1>0
      <4> QED
        BY <2>3, <4>1, <4>2, <4>3
    <3>3. i \in 1..Len(cmds) \/ i \in (Len(cmds) + 1)..Len(cmds')
      BY <1>0, <2>2, <3>0
    <3> QED
      BY <3>1, <3>2, <3>3
  <2>5. ASSUME view'.main, view'.chan # Nothing, ~ view'.shaky
        PROVE  Leads(cmds', client'.chan, Len(cmds') + 1, view'.chan)
    <3>1. ASSUME Keeps, \A i \in (Len(cmds) + 1)..Len(cmds') : cmds'[i].kind \notin Moves
          PROVE  Leads(cmds', client'.chan, Len(cmds') + 1, view'.chan)
      <4>1. Leads(cmds, client.chan, Len(cmds) + 1, view.chan)
        BY <1>a, <2>5, <3>1 DEF Keeps
      <4>2. Leads(cmds', client.chan, Len(cmds') + 1, view.chan)
        BY <1>0, <2>2, <3>1, <4>1, LongerFacts
      <4> QED
        BY <2>1, <3>1, <4>2 DEF Keeps
    <3>2. CASE BackStep \/ UNCHANGED vars
      <4>1. Keeps /\ cmds' = cmds
        BY <1>2, <3>2, BackCmds DEF Keeps
      <4>2. \A i \in (Len(cmds) + 1)..Len(cmds') : FALSE
        BY <1>0, <4>1
      <4> QED
        BY <3>1, <4>1, <4>2
    <3>3. ASSUME NEW c \in Channels, Chosen(c)
          PROVE  Leads(cmds', client'.chan, Len(cmds') + 1, view'.chan)
      <4>a. view'.chan = c /\ Len(cmds) # QueueSize
        BY <2>5, <3>3, Zenon DEF Chosen
      <4>1. Len(cmds) < QueueSize /\ view'.chan = c
        BY <1>0, <4>a, Sizes
      <4>2. cmds' = Append(cmds, Cmd("select", c))
        BY <3>3, <4>1 DEF Chosen, Queue, Queued
      <4>3. Cmd("select", c) \in Cmds /\ Cmd("select", c).kind = "select"
              /\ Cmd("select", c).arg = c
        BY CmdFacts DEF Places
      <4> QED
        BY <1>0, <4>1, <4>2, <4>3, LastFacts
    <3>4. CASE Keeps /\ Added({"older", "send", "join"})
      <4>1. \A i \in (Len(cmds) + 1)..Len(cmds') : cmds'[i].kind \notin Moves
        <5>1. CASE cmds' = cmds
          BY <1>0, <5>1
        <5>2. ASSUME NEW cmd \in Cmds, cmd.kind \in {"older", "send", "join"}, Queue(cmd)
              PROVE  \A i \in (Len(cmds) + 1)..Len(cmds') : cmds'[i].kind \notin Moves
          BY <1>0, <5>2, QueuedFacts DEF Queue, Moves
        <5> QED
          BY <3>4, <5>1, <5>2 DEF Added
      <4> QED
        BY <3>1, <3>4, <4>1
    <3>5. ASSUME NEW g \in Guilds, Keeps, QueueGuild(g)
          PROVE  Leads(cmds', client'.chan, Len(cmds') + 1, view'.chan)
      <4>1. Cmd("channels", g).kind \notin Moves /\ Cmd("members", g).kind \notin Moves
        BY CmdFacts DEF Moves, Places
      <4>2. \A i \in (Len(cmds) + 1)..Len(cmds') : cmds'[i].kind \notin Moves
        BY <3>5, <4>1, TypeParts, QueueGuildFacts
      <4> QED
        BY <3>1, <3>5, <4>2
    <3> QED
      BY <2>5, <3>2, <3>3, <3>4, <3>5, StepKinds, ViewEffect
  <2>6. ASSUME At({"send"}, "post")', call'.cmd.sure PROVE client'.chan = call'.cmd.arg
    <3>1. call' = call /\ At({"send"}, "post")
      BY <1>2, <2>6, PostStep
    <3> QED
      BY <2>1, <2>6, <3>1 DEF LeadInv
  <2> QED
    BY <2>4, <2>5, <2>6
<1> QED
  BY <1>1, <1>2

\* And no list of another guild comes between.
LEMMA FitInvKept ==
  ASSUME TypeOK, CmdInv, CallInv, PostInv, EventInv, KnownInv, LeadInv, FitInv, [Next]_vars
  PROVE  FitInv'
<1>0. cmds \in Seq(Cmds) /\ Len(cmds) <= QueueSize /\ Len(cmds) \in Nat /\ client \in ClientSet
  BY TypeParts DEF CmdTypes, BackTypes
<1>a. /\ \A i \in DOMAIN cmds : cmds[i].kind = "send" /\ cmds[i].sure
         => Leads(cmds, client.chan, i, cmds[i].arg)
      /\ view.main /\ view.chan # Nothing /\ ~ view.shaky
         => Leads(cmds, client.chan, Len(cmds) + 1, view.chan)
  BY DEF LeadInv, LeadsTo
<1>b. /\ \A i \in DOMAIN cmds : cmds[i].kind = "send" /\ cmds[i].sure /\ cmds[i].fit
         => FitsIn(cmds, client, i, cmds[i].arg)
      /\ view.main /\ view.chan # Nothing /\ ~ view.shaky /\ ~ view.crossed
         => FitsIn(cmds, client, Len(cmds) + 1, view.chan)
  BY DEF FitInv, Fits
<1>c. SUFFICES
        /\ \A i \in DOMAIN cmds' : cmds'[i].kind = "send" /\ cmds'[i].sure /\ cmds'[i].fit
           => FitsIn(cmds', client', i, cmds'[i].arg)
        /\ view'.main /\ view'.chan # Nothing /\ ~ view'.shaky /\ ~ view'.crossed
           => FitsIn(cmds', client', Len(cmds') + 1, view'.chan)
        /\ At({"send"}, "post")' /\ call'.cmd.sure /\ call'.cmd.fit
           /\ client'.chan \notin client'.strays => Context' = GuildOf[client'.chan]
  BY DEF FitInv, Fits
<1>1. CASE Taken
  <2>1. /\ view' = view /\ cmds # <<>> /\ cmds' = Tail(cmds) /\ Len(cmds') + 1 = Len(cmds)
        /\ Len(cmds) \in 1..Len(cmds) /\ 1 \in DOMAIN cmds /\ Head(cmds) = cmds[1]
        /\ \A i \in DOMAIN cmds' :
             i \in 1..Len(cmds) /\ i + 1 \in DOMAIN cmds /\ cmds'[i] = cmds[i + 1]
    BY <1>1, TakenFacts
  <2>2. /\ Head(cmds).kind = "channels" => ~ client'.logged \/ client'.guild = Head(cmds).arg
        /\ Head(cmds).kind \notin Moves \union {"channels"} =>
             client'.guild = client.guild /\ (client'.logged => client.logged)
               /\ client.strays \subseteq client'.strays
        /\ Head(cmds).kind = "select" =>
             \/ ~ client'.logged \/ Head(cmds).arg \in client'.strays
             \/ client'.guild \in {Nothing, GuildOf[Head(cmds).arg]}
    BY <1>1, TakenMoves
  <2>3. ASSUME NEW n \in 1..Len(cmds), NEW c, Leads(cmds, client.chan, n + 1, c),
               FitsIn(cmds, client, n + 1, c)
        PROVE  FitsIn(cmds', client', n, c)
    BY <1>0, <2>1, <2>2, <2>3, RestFits
  <2>4. \A i \in DOMAIN cmds' : cmds'[i].kind = "send" /\ cmds'[i].sure /\ cmds'[i].fit
           => FitsIn(cmds', client', i, cmds'[i].arg)
    BY <1>a, <1>b, <2>1, <2>3
  <2>5. view'.main /\ view'.chan # Nothing /\ ~ view'.shaky /\ ~ view'.crossed
          => FitsIn(cmds', client', Len(cmds') + 1, view'.chan)
    BY <1>a, <1>b, <2>1, <2>3
  <2>6. ASSUME At({"send"}, "post")', call'.cmd.sure, call'.cmd.fit,
               client'.chan \notin client'.strays
        PROVE  Context' = GuildOf[client'.chan]
    <3>1. StartSend /\ call'.cmd = Head(cmds) /\ Head(cmds).kind = "send" /\ client' = client
      BY <1>1, <2>6, PostStep
    <3>2. FitsIn(cmds, client, 1, Head(cmds).arg) /\ Leads(cmds, client.chan, 1, Head(cmds).arg)
      BY <1>a, <1>b, <2>1, <2>6, <3>1
    <3>3. Still(cmds, 1, 1 - 1)
      BY DEF Still
    <3>4. client.chan = Head(cmds).arg /\ client.logged /\ Context # Nothing
            /\ client.chan \in Channels
      BY <1>0, <3>1, <3>2, <3>3 DEF Leads, StartSend, ClientSet
    <3>5. client.guild \in {Nothing, GuildOf[client.chan]}
      BY <2>6, <3>1, <3>2, <3>3, <3>4 DEF FitsIn
    <3>6. client.known[client.chan] \in {Nothing, GuildOf[client.chan]}
      BY <2>6, <3>1, <3>4 DEF KnownInv
    <3>7. Context = GuildOf[client.chan]
      BY <3>4, <3>5, <3>6 DEF Context
    <3> QED
      BY <3>1, <3>7 DEF Context
  <2> QED
    BY <2>4, <2>5, <2>6
<1>2. CASE ~ Taken
  <2>1. /\ client'.chan = client.chan /\ client'.guild = client.guild
           /\ client.strays \subseteq client'.strays
        /\ client'.logged => client.logged \/ client.guild = Nothing
    BY <1>2, StayFacts
  <2>2. /\ cmds' \in Seq(Cmds) /\ Len(cmds) <= Len(cmds')
           /\ \A i \in 1..Len(cmds) : cmds'[i] = cmds[i]
        /\ \A i \in (Len(cmds) + 1)..Len(cmds') : cmds'[i].kind = "send" =>
             /\ i = Len(cmds) + 1 /\ view.main /\ view.chan \in Channels
                /\ cmds'[i].arg = view.chan
             /\ cmds'[i].sure = ~ view.shaky /\ cmds'[i].fit = ~ view.crossed
    BY <1>2, GrowFacts
  <2>a. ASSUME NEW q, NEW n, NEW c, FitsIn(q, client, n, c) PROVE FitsIn(q, client', n, c)
    BY <2>1, <2>a DEF FitsIn
  <2>3. ASSUME NEW n \in 1..(Len(cmds) + 1), NEW c, FitsIn(cmds, client, n, c)
        PROVE  FitsIn(cmds', client', n, c)
    <3>1. FitsIn(cmds', client, n, c)
      BY <1>0, <2>2, <2>3, PrefixFacts
    <3> QED
      BY <2>a, <3>1
  <2>4. ASSUME NEW i \in DOMAIN cmds', cmds'[i].kind = "send", cmds'[i].sure, cmds'[i].fit
        PROVE  FitsIn(cmds', client', i, cmds'[i].arg)
    <3>0. i \in 1..Len(cmds') /\ DOMAIN cmds = 1..Len(cmds)
      BY <1>0, <2>2
    <3>1. CASE i \in 1..Len(cmds)
      <4>1. cmds'[i] = cmds[i] /\ i \in 1..(Len(cmds) + 1)
        BY <1>0, <2>2, <3>1
      <4> QED
        BY <1>b, <2>3, <2>4, <3>0, <3>1, <4>1
    <3>2. CASE i \in (Len(cmds) + 1)..Len(cmds')
      <4>1. /\ i = Len(cmds) + 1 /\ view.main /\ view.chan \in Channels
               /\ cmds'[i].arg = view.chan
            /\ ~ view.shaky /\ ~ view.crossed
        BY <2>2, <2>4, <3>2
      <4>2. FitsIn(cmds, client, Len(cmds) + 1, view.chan)
        BY <1>b, <4>1, NameAssumption
      <4>3. Len(cmds) + 1 \in 1..(Len(cmds) + 1)
        BY <1>0
      <4> QED
        BY <2>3, <4>1, <4>2, <4>3
    <3>3. i \in 1..Len(cmds) \/ i \in (Len(cmds) + 1)..Len(cmds')
      BY <1>0, <2>2, <3>0
    <3> QED
      BY <3>1, <3>2, <3>3
  <2>5. ASSUME view'.main, view'.chan # Nothing, ~ view'.shaky, ~ view'.crossed
        PROVE  FitsIn(cmds', client', Len(cmds') + 1, view'.chan)
    <3>1. ASSUME Keeps, ~ view.crossed,
                 \A i \in (Len(cmds) + 1)..Len(cmds') : cmds'[i].kind \notin Moves,
                 \A i \in (Len(cmds) + 1)..Len(cmds') : cmds'[i].kind = "channels"
                    => cmds'[i].arg = GuildOf[view.chan]
          PROVE  FitsIn(cmds', client', Len(cmds') + 1, view'.chan)
      <4>1. FitsIn(cmds, client, Len(cmds) + 1, view.chan)
        BY <1>b, <2>5, <3>1 DEF Keeps
      <4>2. FitsIn(cmds', client, Len(cmds') + 1, view.chan)
        BY <1>0, <2>2, <3>1, <4>1, LongerFacts
      <4>3. FitsIn(cmds', client', Len(cmds') + 1, view.chan)
        BY <2>a, <4>2
      <4> QED
        BY <3>1, <4>3 DEF Keeps
    <3>2. CASE BackStep \/ UNCHANGED vars
      <4>1. Keeps /\ cmds' = cmds /\ view' = view
        BY <1>2, <3>2, BackCmds DEF Keeps
      <4>2. \A i \in (Len(cmds) + 1)..Len(cmds') : FALSE
        BY <1>0, <4>1
      <4> QED
        BY <2>5, <3>1, <4>1, <4>2
    <3>3. ASSUME NEW c \in Channels, Chosen(c)
          PROVE  FitsIn(cmds', client', Len(cmds') + 1, view'.chan)
      <4>a. view'.chan = c /\ Len(cmds) # QueueSize
        BY <2>5, <3>3, Zenon DEF Chosen
      <4>1. Len(cmds) < QueueSize /\ view'.chan = c
        BY <1>0, <4>a, Sizes
      <4>2. cmds' = Append(cmds, Cmd("select", c))
        BY <3>3, <4>1 DEF Chosen, Queue, Queued
      <4>3. Cmd("select", c) \in Cmds /\ Cmd("select", c).kind = "select"
              /\ Cmd("select", c).arg = c
        BY CmdFacts DEF Places
      <4> QED
        BY <1>0, <4>1, <4>2, <4>3, LastFacts
    <3>4. CASE Keeps /\ view'.crossed = view.crossed /\ Added({"older", "send", "join"})
      <4>1. \A i \in (Len(cmds) + 1)..Len(cmds') : cmds'[i].kind \notin Moves \union {"channels"}
        <5>1. CASE cmds' = cmds
          BY <1>0, <5>1
        <5>2. ASSUME NEW cmd \in Cmds, cmd.kind \in {"older", "send", "join"}, Queue(cmd)
              PROVE  \A i \in (Len(cmds) + 1)..Len(cmds') :
                       cmds'[i].kind \notin Moves \union {"channels"}
          BY <1>0, <5>2, QueuedFacts DEF Queue, Moves
        <5> QED
          BY <3>4, <5>1, <5>2 DEF Added
      <4>2. ~ view.crossed
        BY <2>5, <3>4
      <4> QED
        BY <3>1, <3>4, <4>1, <4>2
    <3>5. ASSUME NEW g \in Guilds, Keeps, QueueGuild(g),
                 view'.crossed = (view.crossed \/ view.chan \notin ChannelsOf(g) \union {Nothing})
          PROVE  FitsIn(cmds', client', Len(cmds') + 1, view'.chan)
      <4>0. ~ view.crossed /\ view.chan \in ChannelsOf(g) \union {Nothing}
        BY <2>5, <3>5, Zenon
      <4>1. /\ Cmd("channels", g).kind \notin Moves /\ Cmd("members", g).kind \notin Moves
            /\ Cmd("channels", g).arg = g /\ Cmd("members", g).kind = "members"
        BY CmdFacts DEF Moves, Places
      <4>2. GuildOf[view.chan] = g
        BY <2>5, <3>5, <4>0 DEF ChannelsOf, Keeps
      <4>3. \A i \in (Len(cmds) + 1)..Len(cmds') :
               cmds'[i] = Cmd("channels", g) \/ cmds'[i] = Cmd("members", g)
        BY <3>5, TypeParts, QueueGuildFacts
      <4> QED
        BY <3>1, <3>5, <4>0, <4>1, <4>2, <4>3
    <3> QED
      BY <2>5, <3>2, <3>3, <3>4, <3>5, StepKinds, ViewEffect
  <2>6. ASSUME At({"send"}, "post")', call'.cmd.sure, call'.cmd.fit,
               client'.chan \notin client'.strays
        PROVE  Context' = GuildOf[client'.chan]
    <3>1. call' = call /\ At({"send"}, "post")
      BY <1>2, <2>6, PostStep
    <3>2. client.chan \in Channels /\ Context = GuildOf[client.chan]
      BY <2>1, <2>6, <3>1 DEF FitInv, CallInv, At
    <3>3. \A c \in Channels : client.known[c] # Nothing
             => client'.known[c] \in {client.known[c], GuildOf[c]}
      BY <1>2, StayFacts
    <3>4. GuildOf[client.chan] # Nothing /\ GuildOf[client.chan] \in Guilds
      BY <3>2, NameAssumption
    <3>5. CASE client.guild = Nothing
      <4>1. client.known[client.chan] = GuildOf[client.chan]
        BY <3>2, <3>5 DEF Context
      <4>2. client'.known[client.chan] = GuildOf[client.chan]
        BY <3>2, <3>3, <3>4, <4>1
      <4> QED
        BY <2>1, <3>5, <4>2 DEF Context
    <3>6. CASE client.guild # Nothing
      BY <2>1, <3>2, <3>6 DEF Context
    <3> QED
      BY <3>5, <3>6
  <2> QED
    BY <2>4, <2>5, <2>6
<1> QED
  BY <1>1, <1>2

-----------------------------------------------------------------------------
(* What is on the screen, and what the window hears of the sign-ins         *)

\* What is left of a queue holds all but its first element.
LEMMA TailRange ==
  ASSUME NEW S, NEW s \in Seq(S), s # <<>>
  PROVE  s[1] \in Range(s) /\ Range(s) \subseteq {s[1]} \union Range(Tail(s))
<1>1. /\ DOMAIN s = 1..Len(s) /\ Len(s) \in Nat /\ DOMAIN Tail(s) = 1..(Len(s) - 1)
      /\ (\A i \in 1..(Len(s) - 1) : Tail(s)[i] = s[i + 1]) /\ 1 \in DOMAIN s
  BY TailFacts
<1>2. ASSUME NEW i \in DOMAIN s PROVE i = 1 \/ \E j \in DOMAIN Tail(s) : Tail(s)[j] = s[i]
  <2>1. i # 1 => i - 1 \in DOMAIN Tail(s) /\ (i - 1) + 1 = i
    BY <1>1
  <2> QED
    BY <1>1, <2>1
<1> QED
  BY <1>1, <1>2 DEF Range

\* A longer queue holds one element more.
LEMMA AppendRange ==
  ASSUME NEW S, NEW s \in Seq(S), NEW e \in S
  PROVE  Range(Append(s, e)) = Range(s) \union {e}
<1>1. /\ DOMAIN s = 1..Len(s) /\ Len(s) \in Nat /\ DOMAIN Append(s, e) = 1..(Len(s) + 1)
      /\ (\A i \in 1..Len(s) : Append(s, e)[i] = s[i]) /\ Append(s, e)[Len(s) + 1] = e
  BY AppendFacts
<1>2. \A i \in DOMAIN Append(s, e) : i \in DOMAIN s \/ i = Len(s) + 1
  BY <1>1
<1>3. Len(s) + 1 \in DOMAIN Append(s, e) /\ DOMAIN s \subseteq DOMAIN Append(s, e)
  BY <1>1
<1> QED
  BY <1>1, <1>2, <1>3 DEF Range

\* A message the client has handled is on the screen, on its way, or lost.
LEMMA SeenInvKept ==
  ASSUME TypeOK, CmdInv, CallInv, PostInv, EventInv, OkInv, SeenInv, [Next]_vars
  PROVE  SeenInv'
<1>0. /\ LineTypes /\ ScreenTypes /\ ring \in Seq(Events) /\ inbox \in Seq(Events)
      /\ log \in Seq(Channels) /\ Len(log) <= MaxMessages /\ client \in ClientSet
  BY TypeParts DEF LineTypes, WorldTypes, BackTypes
<1>1. DOMAIN log \subseteq DOMAIN log' /\ \A m \in DOMAIN log : log'[m] = log[m]
        /\ log[m] \in Channels
  <2>1. ASSUME NEW c \in Channels, log' = Append(log, c), NEW m \in DOMAIN log
        PROVE  m \in DOMAIN log' /\ log'[m] = log[m]
    BY <1>0, <2>1, AppendFacts
  <2> QED
    BY <1>0, <2>1, LogKept
<1>2. DOMAIN log \subseteq Ids
  BY <1>0, Sizes DEF Ids
<1>a. /\ client.seen \subseteq DOMAIN log /\ \A c \in Channels : ids[c] \subseteq Range(screen[c])
      /\ \A m \in client.seen : m \in Range(screen[log[m]]) \/ OnTheWay(m) \/ m \in lost
  BY DEF SeenInv, ShownOrLost
<1> DEFINE Way(r, i, m) ==
             \E event \in Range(r) \union Range(i) : event.kind = "message" /\ event.id = m
           Goal == /\ client'.seen \subseteq DOMAIN log'
                   /\ \A c \in Channels : ids'[c] \subseteq Range(screen'[c])
                   /\ \A m \in client'.seen : m \in Range(screen'[log'[m]])
                      \/ Way(ring', inbox', m) \/ m \in lost'
<1>b. \A m : OnTheWay(m) <=> Way(ring, inbox, m)
  BY DEF OnTheWay
<1>c. SUFFICES Goal
  BY DEF SeenInv, ShownOrLost, OnTheWay
<1>3. ASSUME client'.seen \subseteq client.seen, UNCHANGED <<screen, ids>>, lost \subseteq lost',
             NEW m \in client'.seen, Way(ring, inbox, m) => Way(ring', inbox', m) \/ m \in lost'
      PROVE  m \in Range(screen'[log'[m]]) \/ Way(ring', inbox', m) \/ m \in lost'
  BY <1>1, <1>a, <1>b, <1>3
<1>4. CASE Quiet /\ UNCHANGED <<screen, ids>>
  BY <1>1, <1>a, <1>b, <1>4 DEF Quiet
<1>5. CASE BindClient
  <2>1. client'.seen = {} /\ UNCHANGED <<screen, ids>>
    BY <1>5 DEF BindClient, NewClient, windowVars
  <2> QED
    BY <1>a, <2>1
<1>6. CASE Forward
  <2>1. /\ ring # <<>> /\ ring' = Tail(ring) /\ Post(ring[1]) /\ ring[1] \in Events
        /\ UNCHANGED <<client, log, screen, ids>>
    BY <1>6, ForwardFacts
  <2>2. Range(ring) \subseteq {ring[1]} \union Range(ring')
    BY <1>0, <2>1, TailRange
  <2>3. \/ inbox' = Append(inbox, ring[1]) /\ lost' = lost
        \/ inbox' = inbox /\ lost' = lost \union {ring[1].id}
    BY <1>0, <2>1, PostFacts
  <2>4. CASE inbox' = Append(inbox, ring[1]) /\ lost' = lost
    <3>1. Range(inbox') = Range(inbox) \union {ring[1]}
      BY <1>0, <2>1, <2>4, AppendRange
    <3>2. \A m : Way(ring, inbox, m) => Way(ring', inbox', m)
      BY <2>2, <3>1
    <3> QED
      BY <1>a, <1>b, <2>1, <2>4, <3>2
  <2>5. CASE inbox' = inbox /\ lost' = lost \union {ring[1].id}
    <3>1. \A m : Way(ring, inbox, m) => Way(ring', inbox', m) \/ m \in lost'
      BY <2>2, <2>5
    <3> QED
      BY <1>a, <1>b, <2>1, <2>5, <3>1
  <2> QED
    BY <2>3, <2>4, <2>5
<1>7. ASSUME NEW event \in Events, Posted(event) PROVE Goal
  <2>1. UNCHANGED <<ring, log, screen, ids>> /\ client'.seen = client.seen /\ Post(event)
    BY <1>7 DEF Posted
  <2>2. \/ inbox' = Append(inbox, event) /\ lost' = lost
        \/ inbox' = inbox /\ lost' = lost \union {event.id}
    BY <1>0, <2>1, PostFacts
  <2>a. inbox' = Append(inbox, event) => Range(inbox') = Range(inbox) \union {event}
    BY <1>0, AppendRange
  <2>3. Range(inbox) \subseteq Range(inbox') /\ lost \subseteq lost'
    BY <2>2, <2>a
  <2>4. \A m : Way(ring, inbox, m) => Way(ring', inbox', m)
    BY <2>1, <2>3
  <2> QED
    BY <1>a, <1>b, <2>1, <2>3, <2>4
<1>8. ASSUME NEW event \in Events, Emitted(event) PROVE Goal
  <2>1. UNCHANGED <<inbox, screen, ids>>
          /\ client'.seen = client.seen \union ({event.id} \intersect Ids) /\ Emit(event)
        /\ GoodFor(log', event)
    BY <1>8 DEF Emitted, GoodEvent
  <2>2. event.id \in Ids => event.kind = "message" /\ event.id \in DOMAIN log'
    BY <2>1, Sizes DEF GoodFor, Ids
  <2>3. client'.seen \subseteq DOMAIN log'
    BY <1>1, <1>a, <2>1, <2>2
  <2>4. \/ ring' = Append(ring, event) /\ lost' = lost
        \/ lost' = lost \union (({event.id} \union {ring[i].id : i \in DOMAIN ring}) \intersect Ids)
    BY <1>0, <2>1, EmitFacts
  <2>5. CASE ring' = Append(ring, event) /\ lost' = lost
    <3>1. Range(ring') = Range(ring) \union {event}
      BY <1>0, <2>5, AppendRange
    <3>2. \A m : Way(ring, inbox, m) => Way(ring', inbox', m)
      BY <2>1, <3>1
    <3>3. event.id \in Ids => Way(ring', inbox', event.id)
      BY <2>2, <3>1
    <3> QED
      BY <1>1, <1>a, <1>b, <2>1, <2>3, <2>5, <3>2, <3>3
  <2>6. CASE lost' = lost \union
                       (({event.id} \union {ring[i].id : i \in DOMAIN ring}) \intersect Ids)
    <3>1. \A e \in Range(ring) : e.id \in Ids => e.id \in lost'
      BY <2>6 DEF Range
    <3>2. \A m \in Ids : Way(ring, inbox, m) => Way(ring', inbox', m) \/ m \in lost'
      BY <2>1, <3>1
    <3>3. event.id \in Ids => event.id \in lost'
      BY <2>6
    <3>4. lost \subseteq lost'
      BY <2>6
    <3> QED
      BY <1>1, <1>2, <1>a, <1>b, <2>1, <2>3, <3>2, <3>3, <3>4
  <2> QED
    BY <2>4, <2>5, <2>6
<1>9. CASE Handled
  <2>1. inbox # <<>> /\ inbox' = Tail(inbox) /\ UNCHANGED <<ring, client, log>> /\ Handle
    BY <1>9 DEF Handled
  <2>2. Range(inbox) \subseteq {inbox[1]} \union Range(inbox') /\ Head(inbox) = inbox[1]
    BY <1>0, <2>1, TailRange, TailFacts
  <2>3. \A m : Way(ring, inbox, m) =>
          Way(ring', inbox', m) \/ (inbox[1].kind = "message" /\ inbox[1].id = m)
    BY <2>1, <2>2
  <2>4. CASE HandleMessage
    <3> DEFINE c == Head(inbox).arg  h == Head(inbox).id
    <3>1. /\ c \in Channels /\ h \in DOMAIN log /\ log[h] = c
          /\ \A d \in Channels : Range(screen[d]) \subseteq Range(screen'[d])
          /\ \/ UNCHANGED <<screen, ids, lost>> /\ h \in ids[c]
             \/ /\ h \in Range(screen'[c]) /\ lost' = lost \ {h}
                /\ \A d \in Channels : ids'[d] = IF d = c THEN ids[d] \union {h} ELSE ids[d]
      BY <2>4, MessageFacts
    <3>2. h = inbox[1].id
      BY <2>2
    <3> HIDE DEF c, h
    <3>3. h \in Range(screen'[log'[h]])
      BY <1>1, <1>a, <3>1
    <3>4. \A d \in Channels : ids'[d] \subseteq Range(screen'[d])
      BY <1>a, <3>1
    <3>5. lost \subseteq lost' \union {h}
      BY <3>1
    <3>6. ASSUME NEW m \in client'.seen
          PROVE  m \in Range(screen'[log'[m]]) \/ Way(ring', inbox', m) \/ m \in lost'
      <4>1. m \in client.seen /\ m \in DOMAIN log /\ log'[m] = log[m] /\ log[m] \in Channels
        BY <1>1, <1>a, <2>1
      <4>2. m \in Range(screen[log[m]]) => m \in Range(screen'[log'[m]])
        BY <3>1, <4>1
      <4>3. Way(ring, inbox, m) => Way(ring', inbox', m) \/ m = h
        BY <2>3, <3>2
      <4> QED
        BY <1>a, <1>b, <3>3, <3>5, <4>1, <4>2, <4>3
    <3>7. client'.seen \subseteq DOMAIN log'
      BY <1>1, <1>a, <2>1
    <3> QED
      BY <3>4, <3>6, <3>7
  <2>5. CASE ~ HandleMessage
    <3>1. inbox[1].kind # "message"
      BY <2>1, <2>2, <2>5 DEF Handle, HandleLoginOk, HandleJoined, HandleError, HandleGuild,
           HandleChannel, On
    <3>2. \A m : Way(ring, inbox, m) => Way(ring', inbox', m)
      BY <2>3, <3>1
    <3>3. CASE UNCHANGED <<screen, ids, lost>>
      BY <1>a, <1>b, <2>1, <3>2, <3>3
    <3>4. CASE HandleLoginOk
      <4>1. /\ \A c \in Channels : ids'[c] = {} /\ lost \subseteq lost'
            /\ \A c \in Channels : Range(screen[c]) \subseteq lost'
        BY <3>4 DEF HandleLoginOk, NoIds
      <4> QED
        BY <1>1, <1>a, <1>b, <2>1, <3>2, <4>1
    <3> QED
      BY <1>9, <2>5, <3>3, <3>4 DEF Handled
  <2> QED
    BY <2>4, <2>5
<1> QED
  BY <1>4, <1>5, <1>6, <1>7, <1>8, <1>9, LineEffect

\* Only the news from the backend changes what the window takes the sign-in for.
LEMMA ViewNews ==
  ASSUME TypeOK, WindowStep, ~ HandleLoginOk, ~ HandleError
  PROVE  \/ ~ view'.main \/ view'.waved
         \/ view'.main = view.main /\ view'.told = view.told /\ view'.waved = view.waved
<1>0. view \in ViewSet
  BY TypeParts DEF ViewTypes
<1>1. CASE HandleJoined \/ SignIn \/ SignOut \/ Dismiss \/ \E g \in Guilds : ClickGuild(g)
  BY <1>0, <1>1 DEF HandleJoined, SignIn, SignOut, Dismiss, ClickGuild, ViewSet
<1>2. CASE HandleMessage \/ LoadOlder \/ Compose \/ \E g \in Guilds : JoinInvite(g)
  BY <1>2 DEF HandleMessage, LoadOlder, Compose, JoinInvite, windowVars
<1>3. CASE HandleGuild
  <2> DEFINE known == [view EXCEPT !.guilds = @ \union {Head(inbox).arg}]
             chosen == [known EXCEPT !.guild = Head(inbox).arg, !.channels = {}]
  <2>1. view' = known \/ view' = Asked(chosen)
    BY <1>3 DEF HandleGuild
  <2>2. known.main = view.main /\ known.told = view.told /\ known.waved = view.waved
    BY <1>0 DEF ViewSet
  <2>3. /\ Asked(chosen).main = view.main /\ Asked(chosen).told = view.told
        /\ Asked(chosen).waved = view.waved
    BY <1>0 DEF Asked, ViewSet
  <2> QED
    BY <2>1, <2>2, <2>3
<1>4. CASE HandleChannel
  <2> DEFINE listed == [view EXCEPT !.channels = @ \union {Head(inbox).arg}]
  <2>1. view' = listed \/ view' = Selected(listed, Head(inbox).arg)
    BY <1>4 DEF HandleChannel
  <2>2. listed.main = view.main /\ listed.told = view.told /\ listed.waved = view.waved
    BY <1>0 DEF ViewSet
  <2>3. /\ Selected(listed, Head(inbox).arg).main = view.main
        /\ Selected(listed, Head(inbox).arg).told = view.told
        /\ Selected(listed, Head(inbox).arg).waved = view.waved
    BY <1>0 DEF Selected, ViewSet
  <2> QED
    BY <2>1, <2>2, <2>3
<1>5. CASE Refresh
  BY <1>0, <1>5 DEF Refresh, Asked, ViewSet
<1>6. CASE \E c \in Channels : ClickChannel(c)
  BY <1>0, <1>6 DEF ClickChannel, Selected, ViewSet
<1> QED
  BY <1>1, <1>2, <1>3, <1>4, <1>5, <1>6 DEF WindowStep, Handle

\* A sign-in ends with news for the window, and a client is only replaced by a sign-in.
LEMMA SignStep ==
  ASSUME TypeOK, CmdInv, CallInv, PostInv, EventInv, [Next]_vars,
         ~ client'.logged, call'.cmd.kind # "login"
  PROVE  \/ ~ client.logged /\ call.cmd.kind # "login" /\ ~ UploadKeys
         \/ /\ Fail /\ UNCHANGED view
            /\ \E kind \in {"banner", "reauth"} : Post(Event(kind, Nothing))
<1>0. client \in ClientSet /\ call \in CallSet
  BY TypeParts DEF BackTypes
<1>1. ~ BindClient
  BY CallEffect DEF BindClient, Take
<1>2. ~ client.logged
  <2>1. ASSUME NEW g \in Guilds, client' = Listed(g) PROVE client'.logged = client.logged
    BY <1>0, <2>1, ListedFacts
  <2>2. CASE StartListChannels /\ client' = [client EXCEPT !.guild = Head(cmds).arg]
    BY <1>0, <2>2 DEF ClientSet
  <2>3. CASE StartSelect /\ client' = Strayed(Select(Head(cmds).arg), Head(cmds).arg)
    <3>1. Head(cmds).arg \in Channels
      BY <2>3, TypeParts, TakeFacts DEF StartSelect, GoodCmd
    <3> QED
      BY <1>0, <2>3, <3>1, SelectFacts, StrayedFacts
  <2>6. CASE FetchSelected /\ client' = Placed(client, call.cmd.arg)
    <3>1. call.cmd.arg \in Channels
      BY <2>6 DEF FetchSelected, At, CmdInv, GoodCmd
    <3> QED
      BY <1>0, <2>6, <3>1, PlacedFacts
  <2>4. CASE StartLoadOlder /\ client' = Placed(client, Head(cmds).arg)
    <3>1. Head(cmds).arg \in Channels
      BY <2>4, TypeParts, TakeFacts DEF StartLoadOlder, GoodCmd
    <3> QED
      BY <1>0, <2>4, <3>1, PlacedFacts
  <2>5. CASE FetchOwn /\ client' = Placed(client, client.chan)
    <3>1. client.chan \in Channels
      BY <2>5 DEF FetchOwn, At, CallInv
    <3> QED
      BY <1>0, <2>5, <3>1, PlacedFacts
  <2> QED
    BY <1>1, <2>1, <2>2, <2>3, <2>4, <2>5, <2>6, ClientEffect DEF SameSelection
<1>3. ~ UploadKeys
  <2>1. UploadKeys => client' = client /\ At({"login"}, "keys")
    BY DEF UploadKeys
  <2> QED
    BY <1>2, <2>1 DEF CallInv
<1>4. CASE call.cmd.kind = "login"
  <2>1. Fail
    <3>1. call # Idle /\ call' # call /\ call'.cmd # call.cmd
      BY <1>4, IdleFacts
    <3>2. ~ WindowStep /\ ~ UNCHANGED vars
      BY <3>1, WindowFrame DEF vars, backVars
    <3>3. ~ Forward /\ ~ BackgroundError /\ ~ Hangup /\ (\A g \in Guilds : ~ Learn(g))
          /\ \A c \in Channels : ~ OtherPosts(c)
      BY <3>1 DEF Forward, BackgroundError, Hangup, Learn, OtherPosts, backVars
    <3>4. \A kind : ~ Take(kind)
      BY <3>1 DEF Take
    <3>5. ~ FailFirst /\ ~ Refuse /\ ~ Join /\ ~ StartListChannels /\ ~ ListMembers
          /\ ~ StartSelect /\ ~ StartLoadOlder /\ ~ StartSend
      BY <3>4 DEF FailFirst, Refuse, Join, StartListChannels, ListMembers, StartSelect,
           StartLoadOlder, StartSend
    <3>6. \A s : ~ Goto(s)
      BY <1>0, <3>1 DEF Goto, CallSet
    <3>7. ~ Connect /\ ~ Register /\ ~ Joined /\ ~ FetchSelected
      BY <3>6 DEF Connect, Register, Joined, FetchSelected
    <3>8. ~ ListGuilds /\ ~ ListChannels /\ ~ FetchMessages /\ ~ Send /\ ~ FetchOwn
      BY <1>4, <3>4 DEF ListGuilds, ListChannels, FetchMessages, Send, FetchOwn, At
    <3>9. ~ EmitNext
      BY <1>4, IdleFacts DEF EmitNext, CallInv
    <3> QED
      BY <1>1, <1>3, <3>2, <3>3, <3>5, <3>7, <3>8, <3>9, StepKinds DEF BackStep, Backend
  <2>2. Tell("login") /\ UNCHANGED view
    BY <1>4, <2>1 DEF Fail, windowVars
  <2> QED
    BY <2>1, <2>2 DEF Tell
<1> QED
  BY <1>2, <1>3, <1>4

\* An event more does not take an answer away; a failure answers everything before it.
LEMMA SoberAppend ==
  ASSUME NEW q \in Seq(Events), NEW event \in Events, NEW v, event.kind # "ok",
         Sober(q, v) \/ event.kind \in {"banner", "reauth"}
  PROVE  Sober(Append(q, event), v)
<1> DEFINE r == Append(q, event)
           n == Len(q) + 1
<1>1. /\ Len(q) \in Nat /\ DOMAIN q = 1..Len(q) /\ DOMAIN r = 1..n
      /\ (\A i \in 1..Len(q) : r[i] = q[i]) /\ r[n] = event
  BY AppendFacts
<1> HIDE DEF r
<1>2. \A i \in DOMAIN r : r[i].kind = "ok" => i \in DOMAIN q /\ q[i].kind = "ok" /\ i < n
  BY <1>1
<1>3. ASSUME NEW i, Answered(q, i) PROVE Answered(r, i)
  <2>1. PICK j \in DOMAIN q : j > i /\ q[j].kind \in {"banner", "reauth"}
    BY <1>3 DEF Answered
  <2>2. j \in DOMAIN r /\ r[j] = q[j]
    BY <1>1
  <2> QED
    BY <2>1, <2>2 DEF Answered
<1>4. CASE event.kind \in {"banner", "reauth"}
  <2>1. \A i \in 0..Len(q) : Answered(r, i)
    BY <1>1, <1>4 DEF Answered
  <2> QED
    BY <1>1, <1>2, <2>1 DEF Sober, r
<1>5. CASE Sober(q, v)
  BY <1>2, <1>3, <1>5 DEF Sober, r
<1> QED
  BY <1>4, <1>5

\* An answer that is not the first event is one place nearer when that is worked off.
LEMMA AnsweredTail ==
  ASSUME NEW q \in Seq(Events), q # <<>>
  PROVE  /\ \A i \in DOMAIN Tail(q) : i + 1 \in DOMAIN q /\ Tail(q)[i] = q[i + 1]
         /\ \A i \in DOMAIN Tail(q) : Answered(q, i + 1) => Answered(Tail(q), i)
         /\ Answered(q, 1) => Answered(Tail(q), 0)
         /\ Answered(q, 0) /\ q[1].kind \notin {"banner", "reauth"} => Answered(Tail(q), 0)
<1>1. /\ Len(q) \in Nat /\ DOMAIN q = 1..Len(q) /\ DOMAIN Tail(q) = 1..(Len(q) - 1)
      /\ \A i \in 1..(Len(q) - 1) : Tail(q)[i] = q[i + 1]
  BY TailFacts
<1>2. \A i \in DOMAIN Tail(q) : i + 1 \in DOMAIN q /\ Tail(q)[i] = q[i + 1]
  BY <1>1
<1>3. ASSUME NEW i \in Nat, NEW j \in DOMAIN q, j > i + 1, q[j].kind \in {"banner", "reauth"}
      PROVE  Answered(Tail(q), i)
  <2>1. j - 1 \in DOMAIN Tail(q) /\ j - 1 > i /\ Tail(q)[j - 1] = q[j]
    BY <1>1, <1>3
  <2> QED
    BY <1>3, <2>1 DEF Answered
<1>4. ASSUME NEW i \in Nat, Answered(q, i + 1) PROVE Answered(Tail(q), i)
  BY <1>3, <1>4 DEF Answered
<1>5. Answered(q, 1) => Answered(Tail(q), 0)
  <2>1. 0 + 1 = 1 /\ 0 \in Nat
    OBVIOUS
  <2> QED
    BY <1>4, <2>1
<1>6. Answered(q, 0) /\ q[1].kind \notin {"banner", "reauth"} => Answered(Tail(q), 0)
  <2> SUFFICES ASSUME Answered(q, 0), q[1].kind \notin {"banner", "reauth"}
               PROVE  Answered(Tail(q), 0)
    OBVIOUS
  <2>1. PICK j \in DOMAIN q : j > 0 /\ q[j].kind \in {"banner", "reauth"}
    BY DEF Answered
  <2>2. j > 1
    BY <1>1, <2>1
  <2> QED
    BY <2>1, <2>2, <1>5 DEF Answered
<1>7. \A i \in DOMAIN Tail(q) : i \in Nat
  BY <1>1
<1> QED
  BY <1>2, <1>4, <1>5, <1>6, <1>7

\* That the window has missed an event is never forgotten.
LEMMA LostKept ==
  ASSUME TypeOK, CmdInv, CallInv, PostInv, EventInv, OkInv, [Next]_vars, 0 \in lost
  PROVE  0 \in lost'
<1>0. LineTypes
  BY TypeParts
<1>1. CASE Handled
  <2>1. CASE HandleMessage
    <3>1. PICK m \in Ids : UNCHANGED lost \/ lost' = lost \ {m}
      BY <2>1, MessageFacts
    <3>2. m # 0
      BY <3>1, Sizes DEF Ids
    <3> QED
      BY <3>1, <3>2
  <2>2. CASE HandleLoginOk
    BY <2>2 DEF HandleLoginOk
  <2> QED
    BY <1>1, <2>1, <2>2 DEF Handled
<1>2. CASE Forward
  BY <1>0, <1>2, ForwardFacts, PostFacts
<1>3. CASE BindClient
  BY <1>3 DEF BindClient
<1>4. ASSUME NEW event \in Events, Posted(event) PROVE 0 \in lost'
  BY <1>0, <1>4, PostFacts DEF Posted
<1>5. ASSUME NEW event \in Events, Emitted(event) PROVE 0 \in lost'
  BY <1>0, <1>5, EmitFacts DEF Emitted
<1> QED
  BY <1>1, <1>2, <1>3, <1>4, <1>5, LineEffect DEF Quiet

\* However the sign-ins go, the window is not left believing in one that did not last.
LEMMA SignInvKept ==
  ASSUME TypeOK, CmdInv, CallInv, PostInv, EventInv, OkInv, SignInv, [Next]_vars
  PROVE  SignInv'
<1>0. LineTypes /\ inbox \in Seq(Events)
  BY TypeParts DEF LineTypes
<1>1. SUFFICES ASSUME ~ client'.logged, call'.cmd.kind # "login", 0 \notin lost'
               PROVE  Sober(inbox', view')
  BY DEF SignInv
<1>2. 0 \notin lost
  BY <1>1, LostKept
<1>3. CASE Fail /\ UNCHANGED view /\ \E kind \in {"banner", "reauth"} : Post(Event(kind, Nothing))
  <2>1. PICK kind \in {"banner", "reauth"} : Post(Event(kind, Nothing))
    BY <1>3
  <2>2. Event(kind, Nothing) \in Events /\ Event(kind, Nothing).kind = kind
          /\ Event(kind, Nothing).id = 0
    BY EventFacts DEF Places
  <2>3. inbox' = Append(inbox, Event(kind, Nothing))
    BY <1>0, <1>1, <2>1, <2>2, PostFacts
  <2> QED
    BY <1>0, <1>3, <2>2, <2>3, SoberAppend
<1>4. CASE ~ client.logged /\ call.cmd.kind # "login" /\ ~ UploadKeys
  <2>1. Sober(inbox, view)
    BY <1>2, <1>4 DEF SignInv
  <2>2. CASE Handle
    <3>1. inbox # <<>> /\ inbox' = Tail(inbox)
      BY <2>2, HandledFacts DEF Handled
    <3>2. \A i \in DOMAIN inbox' : inbox'[i].kind = "ok" => Answered(inbox', i)
      BY <1>0, <2>1, <3>1, AnsweredTail DEF Sober
    <3>3. CASE HandleLoginOk
      <4>1. inbox[1].kind = "ok" /\ 1 \in DOMAIN inbox
        BY <1>0, <3>1, <3>3, TailFacts DEF HandleLoginOk, On
      <4>2. Answered(inbox', 0)
        BY <1>0, <2>1, <3>1, <4>1, AnsweredTail DEF Sober
      <4> QED
        BY <3>2, <4>2 DEF Sober
    <3>4. CASE HandleError
      <4>1. view'.told
        BY <3>4, TypeParts DEF HandleError, ViewTypes, ViewSet
      <4> QED
        BY <3>2, <4>1 DEF Sober
    <3>5. CASE ~ HandleLoginOk /\ ~ HandleError
      <4>1. \/ ~ view'.main \/ view'.waved
            \/ view'.main = view.main /\ view'.told = view.told /\ view'.waved = view.waved
        BY <2>2, <3>5, ViewNews DEF WindowStep
      <4>2. inbox[1].kind \notin {"banner", "reauth"}
        <5>1. PICK kind \in {"joined", "message", "guild", "channel"} : On(kind)
          BY <2>2, <3>5 DEF Handle, HandleJoined, HandleMessage, HandleGuild, HandleChannel
        <5> QED
          BY <1>0, <5>1, OnFacts
      <4>3. Answered(inbox, 0) => Answered(inbox', 0)
        BY <1>0, <3>1, <4>2, AnsweredTail
      <4> QED
        BY <2>1, <3>2, <4>1, <4>3 DEF Sober
    <3> QED
      BY <3>3, <3>4, <3>5
  <2>3. CASE WindowStep /\ ~ Handle
    <3>1. \/ ~ view'.main \/ view'.waved
          \/ view'.main = view.main /\ view'.told = view.told /\ view'.waved = view.waved
      BY <2>3, ViewNews DEF Handle
    <3>2. inbox' = inbox
      BY <2>3
         DEF WindowStep, SignIn, SignOut, Dismiss, Refresh, LoadOlder, Compose, ClickGuild,
           JoinInvite, ClickChannel, Click
    <3> QED
      BY <2>1, <3>1, <3>2 DEF Sober
  <2>4. CASE ~ WindowStep
    <3>1. view' = view
      BY <2>4, StepKinds, BackFrame DEF windowVars, vars
    <3>2. CASE inbox' = inbox
      BY <2>1, <3>1, <3>2
    <3>3. ASSUME NEW event \in Events, Post(event), event.kind # "ok" PROVE Sober(inbox', view')
      <4>1. inbox' = inbox \/ inbox' = Append(inbox, event)
        BY <3>3 DEF Post
      <4> QED
        BY <1>0, <2>1, <3>1, <3>3, <4>1, SoberAppend
    <3>4. CASE Forward
      BY <3>3, <3>4, ForwardFacts DEF OkInv
    <3>5. ~ BindClient
      BY <1>1, CallEffect DEF BindClient, Take
    <3>6. ASSUME NEW event \in Events, Posted(event) PROVE Sober(inbox', view')
      BY <1>4, <3>3, <3>6 DEF Posted
    <3>7. ASSUME NEW event \in Events, Emitted(event) PROVE inbox' = inbox
      BY <3>7 DEF Emitted
    <3> QED
      BY <2>4, <3>2, <3>4, <3>5, <3>6, <3>7, LineEffect DEF Quiet, Handled, WindowStep
  <2> QED
    BY <2>2, <2>3, <2>4
<1> QED
  BY <1>1, <1>3, <1>4, SignStep

-----------------------------------------------------------------------------
(* The theorems                                                            *)

(* The inductive invariant. *)
IInv ==
  /\ TypeOK /\ CmdInv /\ EventInv /\ CallInv /\ OkInv /\ PostInv
  /\ KnownInv /\ LeadInv /\ FitInv /\ SeenInv /\ SignInv

\* At the start nothing is asked for, under way or shown.
LEMMA Start ==
  Init => IInv
<1> SUFFICES ASSUME Init PROVE IInv
  OBVIOUS
<1> USE DEF Init
<1>0. /\ cmds = <<>> /\ ring = <<>> /\ inbox = <<>> /\ DOMAIN cmds = {} /\ DOMAIN ring = {}
         /\ DOMAIN inbox = {}
      /\ Len(cmds) = 0 /\ Len(ring) = 0 /\ Len(inbox) = 0
  OBVIOUS
<1>1. TypeOK
  <2>1. ViewTypes
    BY DEF EmptyView, ViewTypes, ViewSet
  <2>2. ScreenTypes
    BY DEF NoScreen, NoIds, ScreenTypes
  <2>3. CmdTypes /\ LineTypes
    BY <1>0, Sizes DEF CmdTypes, LineTypes
  <2>4. BackTypes
    BY IdleFacts DEF NewClient, BackTypes, ClientSet
  <2>5. WorldTypes /\ TallyTypes /\ Len(log) <= MaxMessages
    BY NameAssumption, BoundAssumption, Sizes DEF WorldTypes, TallyTypes
  <2> QED
    BY <2>1, <2>2, <2>3, <2>4, <2>5, TypeParts
<1>2. CmdInv /\ EventInv /\ OkInv
  BY <1>0, IdleFacts DEF CmdInv, EventInv, OkInv
<1>3. CallInv
  BY IdleFacts DEF CallInv, At
<1>4. PostInv
  <2>1. {i \in DOMAIN cmds : cmds[i].kind = "send"} = {}
    BY <1>0
  <2>2. Sends(cmds) = 0
    BY <2>1, FS_EmptySet DEF Sends
  <2>3. Len(log) \in Nat /\ Len(log) <= MaxMessages
    BY NameAssumption, BoundAssumption
  <2> QED
    BY <2>2, <2>3, IdleFacts, Sizes DEF PostInv, At
<1>5. KnownInv
  BY DEF KnownInv, NewClient
<1>6. LeadInv /\ FitInv
  BY <1>0, IdleFacts DEF LeadInv, FitInv, EmptyView, At
<1>7. SeenInv
  BY DEF SeenInv, ShownOrLost, NewClient, NoIds
<1>8. SignInv
  BY <1>0 DEF SignInv, Sober, EmptyView
<1> QED
  BY <1>1, <1>2, <1>3, <1>4, <1>5, <1>6, <1>7, <1>8 DEF IInv

\* Every step keeps it.
LEMMA StepKept ==
  ASSUME IInv, [Next]_vars
  PROVE  IInv'
<1> USE DEF IInv
<1>1. TypeOK'
  <2>1. ViewTypes' /\ ScreenTypes' /\ CmdTypes'
    BY ViewTypesKept, ScreenTypesKept, CmdTypesKept
  <2>2. BackTypes'
    BY CallKept, ClientEffect DEF BackTypes
  <2>3. LineTypes' /\ WorldTypes' /\ TallyTypes' /\ Len(log') <= MaxMessages
    BY LineTypesKept, LogKept, TallyTypesKept
  <2> QED
    BY <2>1, <2>2, <2>3 DEF TypeOK, ViewTypes, ScreenTypes, CmdTypes, BackTypes, LineTypes,
         WorldTypes, TallyTypes, ViewSet, CallSet, ClientSet, Steps
<1>2. CmdInv'
  BY CmdTypesKept, CallKept DEF CmdInv
<1>3. EventInv' /\ CallInv' /\ OkInv' /\ PostInv'
  BY EventInvKept, CallInvKept, OkInvKept, PostInvKept
<1>4. KnownInv' /\ LeadInv' /\ FitInv'
  BY KnownInvKept, LeadInvKept, FitInvKept
<1>5. SeenInv' /\ SignInv'
  BY SeenInvKept, SignInvKept
<1> QED
  BY <1>1, <1>2, <1>3, <1>4, <1>5

\* The inductive invariant holds in every state the program can reach.
THEOREM IInvAlways == Spec => []IInv
<1>1. Init => IInv
  BY Start
<1>2. IInv /\ [Next]_vars => IInv'
  BY StepKept
<1> QED
  BY <1>1, <1>2, PTL DEF Spec

\* The window, the two queues, the backend and the client stay within their types, and
\* no queue grows over its size (queue_command, try_send, broadcast).
THEOREM TypeCorrect == Spec => []TypeOK
<1>1. IInv => TypeOK
  BY DEF IInv
<1> QED
  BY <1>1, IInvAlways, PTL

\* A message goes to the channel that was on screen when the user sent it, though the
\* window selects before the backend does, unless the command that selects it did not
\* fit into the queue (try_send_current_composer, select_channel, send_message).
THEOREM MessagesGoWhereShown == Spec => []SendsWhereShown
<1>1. IInv => SendsWhereShown
  BY DEF IInv, LeadInv, SendsWhereShown
<1> QED
  BY <1>1, IInvAlways, PTL

\* A message goes out for the guild of its channel, unless the window has asked for
\* another guild's list since, or the client has taken the channel for another guild's
\* (active_context, the fallback of fetch_messages).
THEOREM MessagesFitTheGuild == Spec => []SendsFitGuild
<1>1. IInv => SendsFitGuild
  BY DEF IInv, FitInv, SendsFitGuild
<1> QED
  BY <1>1, IInvAlways, PTL

\* What the client has handled is on the screen, on its way there, or counted as lost
\* (emit_message_once, the forwarder, process_ui_events).
THEOREM NothingVanishes == Spec => []ShownOrLost
<1>1. IInv => ShownOrLost
  BY DEF IInv, SeenInv
<1> QED
  BY <1>1, IInvAlways, PTL

\* When nothing is under way, a main page that shows no failure stands before a client
\* that is logged in, unless the user has dismissed the failure or the window has missed
\* an event (LoginOk, Error, show_status_banner).
THEOREM MainStandsOnALogin == Spec => []MainIsLoggedIn
<1>1. ASSUME IInv PROVE MainIsLoggedIn
  <2>1. SUFFICES ASSUME view.main, ~ view.told, ~ view.waved, inbox = <<>>, ~ SigningIn,
                        ~ client.logged, 0 \notin lost
                 PROVE  FALSE
    BY DEF MainIsLoggedIn
  <2>2. Answered(inbox, 0)
    BY <1>1, <2>1 DEF IInv, SignInv, Sober, SigningIn
  <2>3. DOMAIN inbox = {}
    BY <2>1
  <2> QED
    BY <2>2, <2>3 DEF Answered
<1>2. IInv => MainIsLoggedIn
  BY <1>1
<1> QED
  BY <1>2, IInvAlways, PTL
=============================================================================
