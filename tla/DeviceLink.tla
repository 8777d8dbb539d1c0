----------------------------- MODULE DeviceLink -----------------------------
(***************************************************************************)
(* Linking a new device: the server's link tokens and bundles, the requests *)
(* that run on them, and the import of a fetched bundle into the client of  *)
(* the new device.                                                         *)
(*                                                                         *)
(* A handler checks the token in one statement and changes the tables in a  *)
(* later one; a fetch reads and consumes its bundle in one SQLite           *)
(* transaction, whose write fails when another connection has written since *)
(* its read.  An upload brings one bundle, the old device's export of some  *)
(* channels.  The new device learns the token it fetches with from its own  *)
(* start request.                                                           *)
(*                                                                         *)
(* On the new device a channel's state is Nothing, Solo (a group of its own *)
(* making) or the bundle it was imported from; disk is the snapshot, live   *)
(* the open session.  A background task may open the channel meanwhile.     *)
(***************************************************************************)
EXTENDS Integers

CONSTANTS
  Tokens, Uploads, Fetches, Channels,
  Nothing, Solo,  \* channel states that are no bundle
  Opener,         \* the background task that opens sessions
  Lifetime,       \* of a token, in ticks: three minutes
  DayLength,      \* ticks of a day of the server's clock
  MaxTime,        \* bound on the clock
  MaxDevices      \* bound on the device rows

ASSUME ClockAssumption ==
  /\ Lifetime \in Nat /\ DayLength \in Nat \ {0} /\ MaxTime \in Nat
  /\ MaxDevices \in Nat
ASSUME NameAssumption ==
  /\ Nothing \notin Uploads /\ Solo \notin Uploads /\ Nothing # Solo
  /\ Nothing \notin Channels /\ Opener \notin Fetches

VARIABLES
  now,      \* the server's clock
  devices,  \* rows of user_devices; ids are 1..devices
  mine,     \* the id the new device goes by, 0 before it has one
  token,    \* token[t]: row of device_link_tokens; device 0 while there is none
  box,      \* box[t]: row of device_link_bundles
  upload,   \* upload[u]: bundle u, its channels and the request that brings it
  fetch,    \* fetch[f]: a request of the new device, and the bundle it read
  disk, live, marked,  \* per channel; marked: initialized_mls_channels
  task,     \* task[k]: what an import, or Opener, is doing
  mixed     \* history: channels where an import met another task

serverVars == <<now, devices, token, box>>
requestVars == <<mine, upload, fetch>>
clientVars == <<disk, live, marked, task, mixed>>
vars == <<serverVars, requestVars, clientVars>>

Tasks == Fetches \union {Opener}
States == {Nothing, Solo} \union Uploads
Never == -1  \* a consumed_at that is NULL

Day(time) == time \div DayLength

Idle == [step |-> "idle", todo |-> {}, chan |-> Nothing, handle |-> Nothing]

Init ==
  /\ now = 0 /\ devices = 0 /\ mine = 0
  /\ token = [t \in Tokens |-> [device |-> 0, expires |-> 0, consumed |-> Never]]
  /\ box = [t \in Tokens |-> [bundle |-> Nothing, open |-> FALSE]]
  /\ upload = [u \in Uploads |-> [state |-> "new", token |-> Nothing, chans |-> {}]]
  /\ fetch = [f \in Fetches |-> [state |-> "new", token |-> Nothing, bundle |-> Nothing,
                                 clean |-> FALSE, awaited |-> TRUE]]
  /\ disk = [c \in Channels |-> Nothing]
  /\ live = [c \in Channels |-> Nothing]
  /\ marked = {} /\ mixed = {}
  /\ task = [k \in Tasks |-> Idle]

-----------------------------------------------------------------------------
(* The server                                                              *)

Tick ==
  /\ now < MaxTime
  /\ now' = now + 1
  /\ UNCHANGED <<devices, token, box, requestVars, clientVars>>

\* The fetches once some connection has written: an open transaction can no
\* longer turn its read into a write.
Overtaken == [f \in Fetches |-> [fetch[f] EXCEPT !.clean = FALSE]]

\* register_device: every call makes a new row; the answer may be lost.
Register ==
  /\ devices < MaxDevices
  /\ devices' = devices + 1
  /\ mine' \in {mine, devices + 1}
  /\ fetch' = Overtaken
  /\ UNCHANGED <<now, token, box, upload, clientVars>>

\* start_device_link, for a device that exists, its reload of the row included.
StartLink(t) ==
  /\ mine # 0
  /\ token[t].device = 0
  /\ token' = [token EXCEPT ![t] =
       [device |-> mine, expires |-> now + Lifetime, consumed |-> Never]]
  /\ fetch' = Overtaken
  /\ UNCHANGED <<now, devices, box, mine, upload, clientVars>>

\* The old device's export_encrypted_channel_state_bundle: a snapshot of every
\* channel asked for, or an error and no bundle.
Export(u, chans) ==
  /\ upload[u].state = "new"
  /\ upload' = [upload EXCEPT ![u].state = "made", ![u].chans = chans]
  /\ UNCHANGED <<serverVars, mine, fetch, clientVars>>

\* upload_device_link_bundle up to the check of the token.
Usable(t) == now < token[t].expires /\ token[t].consumed = Never

CheckUpload(u, t) ==
  /\ upload[u].state = "made"
  /\ token[t].device # 0
  /\ upload' = [upload EXCEPT ![u].token = t, ![u].state =
       IF Usable(t) THEN "checked" ELSE "refused"]
  /\ UNCHANGED <<serverVars, mine, fetch, clientVars>>

\* store_device_link_bundle: the row is replaced and its consumed_at cleared.
StoreBundle(u) ==
  /\ upload[u].state = "checked"
  /\ upload' = [upload EXCEPT ![u].state = "stored"]
  /\ box' = [box EXCEPT ![upload[u].token] = [bundle |-> u, open |-> TRUE]]
  /\ fetch' = Overtaken
  /\ UNCHANGED <<now, devices, token, mine, clientVars>>

\* The statement fails or the handler is dropped.
UploadFails(u) ==
  /\ upload[u].state = "checked"
  /\ upload' = [upload EXCEPT ![u].state = "refused"]
  /\ UNCHANGED <<serverVars, mine, fetch, clientVars>>

\* fetch_device_link_bundle up to its checks: expiry and device, not consumed_at.
CheckFetch(f, t) ==
  /\ fetch[f].state = "new"
  /\ token[t].device # 0
  /\ fetch' = [fetch EXCEPT ![f].token = t, ![f].state =
       IF now < token[t].expires /\ token[t].device = mine THEN "checked" ELSE "refused"]
  /\ UNCHANGED <<serverVars, mine, upload, clientVars>>

\* consume_device_link_bundle: the transaction's read.
SelectBundle(f) ==
  LET row == box[fetch[f].token] IN
  /\ fetch[f].state = "checked"
  /\ fetch' = [fetch EXCEPT ![f].bundle = IF row.open THEN row.bundle ELSE Nothing,
                            ![f].clean = TRUE,
                            ![f].state = IF row.open THEN "selected" ELSE "refused"]
  /\ UNCHANGED <<serverVars, mine, upload, clientVars>>

\* Mutant of ConsumeBundle: read and update are not one transaction.
ConsumeBundleUnguarded(f) ==
  LET t == fetch[f].token IN
  /\ fetch[f].state = "selected"
  /\ box' = [box EXCEPT ![t].open = FALSE]
  /\ token' = [token EXCEPT ![t].consumed = IF @ = Never THEN now ELSE @]
  /\ fetch' = [Overtaken EXCEPT ![f].state = "answered"]
  /\ UNCHANGED <<now, devices, mine, upload, clientVars>>

\* Its two updates and the commit, which SQLite only lets through when nothing
\* was written since the read.
ConsumeBundle(f) ==
  LET t == fetch[f].token IN
  /\ fetch[f].state = "selected" /\ fetch[f].clean
  /\ box' = [box EXCEPT ![t].open = FALSE]
  /\ token' = [token EXCEPT ![t].consumed = IF @ = Never THEN now ELSE @]
  /\ fetch' = [Overtaken EXCEPT ![f].state = "answered"]
  /\ UNCHANGED <<now, devices, mine, upload, clientVars>>

\* SQLITE_BUSY, another storage error, or the handler is dropped.
FetchFails(f) ==
  /\ fetch[f].state \in {"checked", "selected"}
  /\ fetch' = [fetch EXCEPT ![f].state = "refused"]
  /\ UNCHANGED <<serverVars, mine, upload, clientVars>>

\* complete_device_link.  expires_at is stored as "...T..." and compared as text
\* with CURRENT_TIMESTAMP, "... ...": on one day the former is always greater.
Complete(t) ==
  /\ token[t].device # 0
  /\ token[t].consumed = Never
  /\ Day(token[t].expires) >= Day(now)
  /\ token' = [token EXCEPT ![t].consumed = now]
  /\ fetch' = Overtaken
  /\ UNCHANGED <<now, devices, box, mine, upload, clientVars>>

-----------------------------------------------------------------------------
(* The new device                                                          *)

Importing(c) ==
  \E f \in Fetches : task[f].chan = c /\ task[f].step \notin {"idle", "save", "over"}

Opening(c) == task[Opener].chan = c /\ task[Opener].step # "idle"

LoseAnswer(f) ==
  /\ fetch[f].state = "answered" /\ fetch[f].awaited
  /\ fetch' = [fetch EXCEPT ![f].awaited = FALSE]
  /\ UNCHANGED <<serverVars, mine, upload, clientVars>>

\* An import that has the records of todo before it.
NextRecord(todo) ==
  [Idle EXCEPT !.step = IF todo = {} THEN "over" ELSE "save", !.todo = todo]

\* The answer arrives and import_channel_state_bundle begins.
StartImport(f) ==
  /\ fetch[f].state = "answered" /\ fetch[f].awaited
  /\ fetch' = [fetch EXCEPT ![f].awaited = FALSE]
  /\ task' = [task EXCEPT ![f] = NextRecord(upload[fetch[f].bundle].chans)]
  /\ UNCHANGED <<serverVars, mine, upload, disk, live, marked, mixed>>

\* import_group_state: save_group_state of the next channel, or its failure, which
\* ends the import.
SaveState(f, c) ==
  /\ task[f].step = "save" /\ c \in task[f].todo
  /\ disk' = [disk EXCEPT ![c] = fetch[f].bundle]
  /\ task' = [task EXCEPT ![f].step = "drop", ![f].chan = c]
  /\ mixed' = IF Importing(c) \/ Opening(c) THEN mixed \union {c} ELSE mixed
  /\ UNCHANGED <<serverVars, requestVars, live, marked>>

ImportFails(f) ==
  /\ task[f].step \in {"save", "look"}
  /\ task' = [task EXCEPT ![f].step = "over"]
  /\ UNCHANGED <<serverVars, requestVars, disk, live, marked, mixed>>

\* Mutant of DropSession: the open session stays.
DropSessionForgets(f) ==
  /\ task[f].step = "drop"
  /\ task' = [task EXCEPT ![f].step = "look"]
  /\ UNCHANGED <<serverVars, requestVars, disk, live, marked, mixed>>

\* Mutant of DropSession: the import leaves the reopening to the next user.
DropSessionOnly(f) ==
  /\ task[f].step = "drop"
  /\ live' = [live EXCEPT ![task[f].chan] = Nothing]
  /\ task' = [task EXCEPT ![f].step = "opened"]
  /\ UNCHANGED <<serverVars, requestVars, disk, marked, mixed>>

\* sessions.remove
DropSession(f) ==
  /\ task[f].step = "drop"
  /\ live' = [live EXCEPT ![task[f].chan] = Nothing]
  /\ task' = [task EXCEPT ![f].step = "look"]
  /\ UNCHANGED <<serverVars, requestVars, disk, marked, mixed>>

StartOpening(c) ==
  /\ task[Opener].step = "idle"
  /\ task' = [task EXCEPT ![Opener].step = "look", ![Opener].chan = c]
  /\ mixed' = IF Importing(c) THEN mixed \union {c} ELSE mixed
  /\ UNCHANGED <<serverVars, requestVars, disk, live, marked>>

\* open_or_create_group: is there a session?
LookForSession(k) ==
  /\ task[k].step = "look"
  /\ task' = [task EXCEPT ![k].step =
       IF live[task[k].chan] = Nothing THEN "load" ELSE "opened"]
  /\ UNCHANGED <<serverVars, requestVars, disk, live, marked, mixed>>

\* MlsGroupHandle::new loads the snapshot, if there is one.
LoadState(k) ==
  LET found == disk[task[k].chan] IN
  /\ task[k].step = "load"
  /\ task' = [task EXCEPT ![k].handle = found,
                          ![k].step = IF found = Nothing THEN "create" ELSE "insert"]
  /\ UNCHANGED <<serverVars, requestVars, disk, live, marked, mixed>>

\* create_group, which persists the new group.
CreateGroup(k) ==
  /\ task[k].step = "create"
  /\ disk' = [disk EXCEPT ![task[k].chan] = Solo]
  /\ task' = [task EXCEPT ![k].handle = Solo, ![k].step = "insert"]
  /\ UNCHANGED <<serverVars, requestVars, live, marked, mixed>>

\* sessions.entry(key).or_insert(handle)
InsertSession(k) ==
  /\ task[k].step = "insert"
  /\ live' = [live EXCEPT ![task[k].chan] = IF @ = Nothing THEN task[k].handle ELSE @]
  /\ task' = [task EXCEPT ![k].step = "opened"]
  /\ UNCHANGED <<serverVars, requestVars, disk, marked, mixed>>

OpenerDone ==
  /\ task[Opener].step = "opened"
  /\ task' = [task EXCEPT ![Opener] = Idle]
  /\ UNCHANGED <<serverVars, requestVars, disk, live, marked, mixed>>

\* The channel counts as initialised; on to the next record of the bundle.
MarkChannel(f) ==
  /\ task[f].step = "opened"
  /\ marked' = marked \union {task[f].chan}
  /\ task' = [task EXCEPT ![f] = NextRecord(@.todo \ {@.chan})]
  /\ UNCHANGED <<serverVars, requestVars, disk, live, mixed>>

\* A received commit: the open session persists itself, whatever is on the disk.
PersistSession(c) ==
  /\ live[c] # Nothing
  /\ disk' = [disk EXCEPT ![c] = live[c]]
  /\ mixed' = IF Importing(c) THEN mixed \union {c} ELSE mixed
  /\ UNCHANGED <<serverVars, requestVars, live, marked, task>>

\* The new device's process stops: sessions, marks and tasks are gone, and no
\* answer reaches it any more.
Restart ==
  /\ live' = [c \in Channels |-> Nothing]
  /\ marked' = {}
  /\ task' = [k \in Tasks |->
       IF k = Opener \/ task[k].step = "idle" THEN Idle ELSE [Idle EXCEPT !.step = "over"]]
  /\ fetch' = [f \in Fetches |->
       [fetch[f] EXCEPT !.awaited = @ /\ fetch[f].state = "new"]]
  /\ UNCHANGED <<serverVars, mine, upload, disk, mixed>>

ServerStep ==
  \/ Tick \/ Register
  \/ \E t \in Tokens : StartLink(t) \/ Complete(t)
  \/ \E u \in Uploads, t \in Tokens : CheckUpload(u, t)
  \/ \E u \in Uploads :
       \/ StoreBundle(u) \/ UploadFails(u)
       \/ \E chans \in SUBSET Channels \ {{}} : Export(u, chans)
  \/ \E f \in Fetches, t \in Tokens : CheckFetch(f, t)
  \/ \E f \in Fetches : SelectBundle(f) \/ ConsumeBundle(f) \/ FetchFails(f)

DeviceStep ==
  \/ \E f \in Fetches :
       \/ LoseAnswer(f) \/ StartImport(f) \/ ImportFails(f)
       \/ DropSession(f) \/ MarkChannel(f)
       \/ \E c \in Channels : SaveState(f, c)
  \/ \E k \in Tasks : LookForSession(k) \/ LoadState(k) \/ CreateGroup(k) \/ InsertSession(k)
  \/ \E c \in Channels : StartOpening(c) \/ PersistSession(c)
  \/ OpenerDone \/ Restart

Next == ServerStep \/ DeviceStep

Spec == Init /\ [][Next]_vars

-----------------------------------------------------------------------------
(* Properties                                                              *)

TypeOK ==
  /\ now \in 0..MaxTime /\ devices \in 0..MaxDevices /\ mine \in 0..devices
  /\ token \in [Tokens -> [device : 0..devices, expires : Nat, consumed : Nat \union {Never}]]
  /\ box \in [Tokens -> [bundle : Uploads \union {Nothing}, open : BOOLEAN]]
  /\ upload \in [Uploads -> [state : {"new", "made", "checked", "stored", "refused"},
                             token : Tokens \union {Nothing}, chans : SUBSET Channels]]
  /\ fetch \in [Fetches ->
       [state : {"new", "checked", "selected", "answered", "refused"},
        token : Tokens \union {Nothing}, bundle : Uploads \union {Nothing},
        clean : BOOLEAN, awaited : BOOLEAN]]
  /\ disk \in [Channels -> States] /\ live \in [Channels -> States]
  /\ marked \subseteq Channels /\ mixed \subseteq Channels
  /\ task \in [Tasks ->
       [step : {"idle", "save", "drop", "look", "load", "create", "insert", "opened", "over"},
        todo : SUBSET Channels, chan : Channels \union {Nothing}, handle : States]]

\* The link as its users see it.
LinkState ==
  [t \in Tokens |-> IF token[t].device = 0 THEN "none"
                    ELSE IF token[t].consumed = Never THEN "open" ELSE "closed"]
Offered == {u \in Uploads : upload[u].state \notin {"new", "made"}}
Accepted == {p \in Uploads \X Tokens : upload[p[1]].state = "checked" /\ upload[p[1]].token = p[2]}
Waiting == [t \in Tokens |-> IF box[t].open THEN box[t].bundle ELSE Nothing]
Taken == {p \in Fetches \X Uploads : fetch[p[1]].state = "answered" /\ fetch[p[1]].bundle = p[2]}

Link == INSTANCE HandOver WITH
  link <- LinkState, offered <- Offered, accepted <- Accepted, waiting <- Waiting, taken <- Taken

\* The handlers implement the link: however uploads, fetches, completions and
\* failures interleave, a bundle goes to one fetch and only after an upload
\* that passed its check while the link was open, and the fetch gets the newest.
LinkSpec == Link!Spec

\* No session, no mark: a channel the client counts as initialised can be used,
\* except while an import is about to reopen it or has failed to.
Reopening(c) == \E f \in Fetches : task[f].chan = c

MarkedIsOpen == \A c \in marked : live[c] # Nothing \/ Reopening(c)

\* Once its last import is through, a channel that no other task met on the way
\* runs on an imported state, and will after a restart.
ImportTakesEffect ==
  \A c \in marked \ mixed :
    Reopening(c) \/ (live[c] = disk[c] /\ live[c] \in Uploads)

\* complete_device_link answers "invalid or expired link token" unless the token
\* is in time: then no token is consumed after its expiry but by a fetch that was
\* checked before it.
CompletedInTime ==
  \A t \in Tokens :
    token[t].consumed >= token[t].expires /\ token[t].device # 0 =>
      \E f \in Fetches : fetch[f].state = "answered" /\ fetch[f].token = t
=============================================================================
