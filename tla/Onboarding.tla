----------------------------- MODULE Onboarding -----------------------------
(***************************************************************************)
(* How a guild's channels get their MLS groups and how new members get     *)
(* into them: the clients' bootstrap, welcome sync and local restore, the   *)
(* session manager and its database, and the server's membership list, key  *)
(* packages and pending welcomes.                                          *)
(*                                                                         *)
(* The member with the lowest id is the leader.  It creates the group of a  *)
(* channel, adds the others by their key packages and leaves each of them a *)
(* welcome on the server.  A client runs up to three tasks per channel,     *)
(* "boot" and "sync" (each behind a gate of its own) and "restore"; a step  *)
(* of a task is the code between two awaits.  Bootstrap requests are not    *)
(* stored anywhere, so any of them may arrive at any time, with the device  *)
(* of whoever sent it.  Every login registers a new device and publishes a  *)
(* key package for it, so a device stands for its key package as well.      *)
(***************************************************************************)
EXTENDS Naturals, FiniteSets

CONSTANTS
  Users,        \* user ids
  Creator,      \* the guild's first member
  Channels,
  MaxLogins,    \* bound on the logins after the users' first
  MaxGroups,    \* bound on the groups created
  MaxFailures,  \* bound on the requests and database calls that fail
  MaxTasks      \* bound on the tasks that run at a time

ASSUME UserAssumption == Users \subseteq Nat \ {0} /\ Creator \in Users
ASSUME BoundAssumption ==
  /\ MaxLogins \in Nat /\ MaxGroups \in Nat /\ MaxFailures \in Nat
  /\ MaxTasks \in Nat \ {0}

VARIABLES
  members,     \* the server's memberships
  published,   \* <<user, device>> pairs whose key package the server has
  welcomes,    \* welcomes[<<u, c, d>>]: the latest welcome for that device
  device,      \* device[u]: the device of u's current login
  made,        \* made[u]: the device for which u last made a key package
  pendingKey,  \* pendingKey[u]: the one whose private key u's database holds
  disk,        \* disk[<<u, c>>]: the group snapshot in u's database
  live,        \* live[<<u, c>>]: the session manager's group
  ready,       \* ready[u]: initialized_mls_channels
  attempted,   \* attempted[u]: attempted_channel_member_additions
  at,          \* where each task stands
  todo,        \* the members a bootstrap has still to look at
  target,      \* the only member it is about, or NoUser
  who,         \* the member it is adding
  dev,         \* the device asked for, then the device of the key package
  held,        \* the group or welcome a task has in hand
  logins,      \* number of logins after the first ones
  created,     \* number of groups created, which numbers them
  failures,    \* number of requests and database calls that failed
  lost,        \* history: <<v, c>> where v was added and its welcome got lost
  resets       \* history: local groups thrown away by the self-heal

serverVars == <<members, published, welcomes>>
identityVars == <<device, made, pendingKey>>
clientVars == <<disk, live, ready, attempted>>
taskVars == <<at, todo, target, who, dev, held>>
countVars == <<logins, created, failures, lost, resets>>
vars == <<serverVars, identityVars, clientVars, taskVars, countVars>>

Slots == Users \X Channels
Kinds == {"boot", "sync", "restore"}
Tasks == Users \X Channels \X Kinds
Devices == 1..(MaxLogins + 1)

NoUser == 0
NoDevice == 0
\* Group i, founded by f, with the members of r.
Grp(i, f, r) == [gid |-> i, by |-> f, roster |-> r]
NoGroup == Grp(0, NoUser, {})
Group == [gid : 0..MaxGroups, by : Users \union {NoUser}, roster : SUBSET Users]

Slot(t) == <<t[1], t[2]>>

\* The gate of a task is open, and the bound leaves room for it.
CanStart(t) ==
  /\ at[t] = "idle"
  /\ Cardinality({k \in Tasks : at[k] # "idle"}) < MaxTasks

\* Mutant of IsLeader: every member takes itself for the leader.
IsLeaderAlways(u) == u \in members

\* The elected leader, as every client computes it from the member list.
IsLeader(u) == u \in members /\ \A v \in members : u <= v

\* A request or a call to the database fails.
Fault == failures < MaxFailures /\ failures' = failures + 1

\* A task ends, and its locals with it.
End(t) ==
  /\ at' = [at EXCEPT ![t] = "idle"]
  /\ todo' = [todo EXCEPT ![t] = {}]
  /\ target' = [target EXCEPT ![t] = NoUser]
  /\ who' = [who EXCEPT ![t] = NoUser]
  /\ dev' = [dev EXCEPT ![t] = NoDevice]
  /\ held' = [held EXCEPT ![t] = NoGroup]

\* A bootstrap is done with the member it was adding.
NextMember(t) ==
  /\ at' = [at EXCEPT ![t] = "pick"]
  /\ who' = [who EXCEPT ![t] = NoUser]
  /\ dev' = [dev EXCEPT ![t] = IF target[t] = NoUser THEN NoDevice ELSE @]
  /\ held' = [held EXCEPT ![t] = NoGroup]
  /\ UNCHANGED <<todo, target>>

Init ==
  /\ members = {Creator} /\ published = {}
  /\ welcomes = [w \in Users \X Channels \X Devices |-> NoGroup]
  /\ device = [u \in Users |-> 1]
  /\ made = [u \in Users |-> NoDevice]
  /\ pendingKey = [u \in Users |-> NoDevice]
  /\ disk = [s \in Slots |-> NoGroup]
  /\ live = [s \in Slots |-> NoGroup]
  /\ ready = [u \in Users |-> {}]
  /\ attempted = [u \in Users |-> {}]
  /\ at = [t \in Tasks |-> "idle"]
  /\ todo = [t \in Tasks |-> {}]
  /\ target = [t \in Tasks |-> NoUser]
  /\ who = [t \in Tasks |-> NoUser]
  /\ dev = [t \in Tasks |-> NoDevice]
  /\ held = [t \in Tasks |-> NoGroup]
  /\ logins = 0 /\ created = 0 /\ failures = 0 /\ lost = {} /\ resets = 0

-----------------------------------------------------------------------------
(* Membership, logins and key packages                                     *)

JoinGuild(u) ==
  /\ u \notin members
  /\ members' = members \union {u}
  /\ UNCHANGED <<published, welcomes, identityVars, clientVars, taskVars, countVars>>

\* A new process signs in: a new client and session manager on the old database.
Login(u) ==
  LET ended(t) == t[1] = u IN
  /\ logins < MaxLogins
  /\ logins' = logins + 1
  /\ lost' = lost \union {<<who[t], t[2]>> : t \in {k \in Tasks : ended(k) /\ at[k] = "post"}}
  /\ device' = [device EXCEPT ![u] = @ + 1]
  /\ live' = [s \in Slots |-> IF s[1] = u THEN NoGroup ELSE live[s]]
  /\ ready' = [ready EXCEPT ![u] = {}]
  /\ attempted' = [attempted EXCEPT ![u] = {}]
  /\ at' = [t \in Tasks |-> IF ended(t) THEN "idle" ELSE at[t]]
  /\ todo' = [t \in Tasks |-> IF ended(t) THEN {} ELSE todo[t]]
  /\ target' = [t \in Tasks |-> IF ended(t) THEN NoUser ELSE target[t]]
  /\ who' = [t \in Tasks |-> IF ended(t) THEN NoUser ELSE who[t]]
  /\ dev' = [t \in Tasks |-> IF ended(t) THEN NoDevice ELSE dev[t]]
  /\ held' = [t \in Tasks |-> IF ended(t) THEN NoGroup ELSE held[t]]
  /\ UNCHANGED <<serverVars, made, pendingKey, disk, created, failures, resets>>

\* key_package_bytes: the private key replaces whatever was pending.
MakeKey(u) ==
  /\ u \in members
  /\ made[u] # device[u]
  /\ made' = [made EXCEPT ![u] = device[u]]
  /\ pendingKey' = [pendingKey EXCEPT ![u] = device[u]]
  /\ UNCHANGED <<serverVars, device, clientVars, taskVars, countVars>>

\* The upload that follows; a crash or a refused request may prevent it.
PublishKey(u) ==
  /\ made[u] = device[u]
  /\ <<u, device[u]>> \notin published
  /\ published' = published \union {<<u, device[u]>>}
  /\ UNCHANGED <<members, welcomes, identityVars, clientVars, taskVars, countVars>>

-----------------------------------------------------------------------------
(* The tasks start.  A start that finds its gate closed, is not needed, is  *)
(* not the leader's or finds no welcome changes nothing.                    *)

\* maybe_bootstrap_existing_members_if_leader: an untargeted one returns early on
\* a ready channel.  A targeted one answers a request, which carries the device
\* the target v had when it sent it; a request relayed by somebody else carries a
\* device without a key package of v and, like one for u itself, adds nobody.
StartBoot(u, c, v, d) ==
  LET t == <<u, c, "boot">> IN
  /\ CanStart(t)
  /\ IsLeader(u)
  /\ v = NoUser => c \notin ready[u]
  /\ IF v \in {NoUser, u} THEN d = NoDevice ELSE d \in 1..device[v]
  /\ at' = [at EXCEPT ![t] = "look"]
  /\ target' = [target EXCEPT ![t] = v]
  /\ dev' = [dev EXCEPT ![t] = d]
  /\ UNCHANGED <<serverVars, identityVars, clientVars, todo, who, held, countVars>>

\* maybe_join_from_pending_welcome_with_retry: the leader needs no welcome.  Anybody
\* else, and a leader that could not read the member list or open its group, asks
\* the server for the latest one of its device.
StartSync(u, c) ==
  LET t == <<u, c, "sync">> IN
  /\ CanStart(t)
  /\ u \in members
  /\ c \notin ready[u]
  /\ \/ IsLeader(u) /\ at' = [at EXCEPT ![t] = "look"] /\ held' = held
     \/ /\ welcomes[<<u, c, device[u]>>] # NoGroup
        /\ at' = [at EXCEPT ![t] = "join"]
        /\ held' = [held EXCEPT ![t] = welcomes[<<u, c, device[u]>>]]
  /\ UNCHANGED <<serverVars, identityVars, clientVars, todo, target, who, dev, countVars>>

\* try_restore_mls_channel_from_local_state
StartRestore(u, c) ==
  LET t == <<u, c, "restore">> IN
  /\ CanStart(t)
  /\ disk[<<u, c>>] # NoGroup
  /\ c \notin ready[u]
  /\ at' = [at EXCEPT ![t] = "look"]
  /\ UNCHANGED <<serverVars, identityVars, clientVars, todo, target, who, dev, held, countVars>>

\* force_mls_resync_for_channel, after a decryption of the wrong epoch.
ForceResync(u, c) ==
  /\ c \in ready[u]
  /\ ready' = [ready EXCEPT ![u] = @ \ {c}]
  /\ UNCHANGED <<serverVars, identityVars, disk, live, attempted, taskVars, countVars>>

-----------------------------------------------------------------------------
(* open_or_create_group, and the mark every caller sets after it           *)

\* Mutant of Look: a snapshot counts as a session.
LookSkips(t) ==
  LET s == Slot(t) IN
  /\ at[t] = "look"
  /\ at' = [at EXCEPT ![t] = IF live[s] # NoGroup \/ disk[s] # NoGroup
                             THEN "mark" ELSE "create"]
  /\ UNCHANGED <<serverVars, identityVars, clientVars, todo, target, who, dev, held, countVars>>

\* An open session is used; otherwise the snapshot is loaded, if there is one.
Look(t) ==
  LET s == Slot(t) IN
  /\ at[t] = "look"
  /\ at' = [at EXCEPT ![t] = IF live[s] # NoGroup THEN "mark"
                             ELSE IF disk[s] # NoGroup THEN "insert" ELSE "create"]
  /\ held' = [held EXCEPT ![t] = IF live[s] = NoGroup THEN disk[s] ELSE NoGroup]
  /\ UNCHANGED <<serverVars, identityVars, clientVars, todo, target, who, dev, countVars>>

Create(t) ==
  LET g == Grp(created + 1, t[1], {t[1]}) IN
  /\ at[t] = "create"
  /\ created < MaxGroups
  /\ created' = created + 1
  /\ disk' = [disk EXCEPT ![Slot(t)] = g]
  /\ held' = [held EXCEPT ![t] = g]
  /\ at' = [at EXCEPT ![t] = "insert"]
  /\ UNCHANGED <<serverVars, identityVars, live, ready, attempted, todo, target, who, dev,
                 logins, failures, lost, resets>>

\* entry(key).or_insert(handle): the first handle stays.
Insert(t) ==
  LET s == Slot(t) IN
  /\ at[t] = "insert"
  /\ live' = [live EXCEPT ![s] = IF @ = NoGroup THEN held[t] ELSE @]
  /\ held' = [held EXCEPT ![t] = NoGroup]
  /\ at' = [at EXCEPT ![t] = "mark"]
  /\ UNCHANGED <<serverVars, identityVars, disk, ready, attempted, todo, target, who, dev,
                 countVars>>

Mark(t) ==
  /\ at[t] = "mark"
  /\ ready' = [ready EXCEPT ![t[1]] = @ \union {t[2]}]
  /\ IF t[3] = "boot"
       THEN at' = [at EXCEPT ![t] = "list"] /\ UNCHANGED <<todo, target, who, dev, held>>
       ELSE End(t)
  /\ UNCHANGED <<serverVars, identityVars, disk, live, attempted, countVars>>

-----------------------------------------------------------------------------
(* maybe_add_existing_members_to_channel_group                             *)

List(t) ==
  /\ at[t] = "list"
  /\ todo' = [todo EXCEPT ![t] =
                {v \in members \ {t[1]} : target[t] \in {NoUser, v}}]
  /\ at' = [at EXCEPT ![t] = "pick"]
  /\ UNCHANGED <<serverVars, identityVars, clientVars, target, who, dev, held, countVars>>

\* The key package the server answers with: that of the device asked for, or
\* the newest one of the user.
KeyFor(t, v, k) ==
  /\ <<v, k>> \in published
  /\ IF target[t] = NoUser THEN \A d \in Devices : <<v, d>> \in published => d <= k
                           ELSE k = dev[t]

\* A member somebody has been added before, or without a key package, is passed.
Pass(t, v) ==
  /\ at[t] = "pick" /\ v \in todo[t]
  /\ \/ target[t] = NoUser /\ <<t[2], v>> \in attempted[t[1]]
     \/ ~ \E k \in Devices : KeyFor(t, v, k)
  /\ todo' = [todo EXCEPT ![t] = @ \ {v}]
  /\ UNCHANGED <<serverVars, identityVars, clientVars, at, target, who, dev, held, countVars>>

PickMember(t, v, k) ==
  /\ at[t] = "pick" /\ v \in todo[t]
  /\ target[t] = NoUser => <<t[2], v>> \notin attempted[t[1]]
  /\ KeyFor(t, v, k)
  /\ todo' = [todo EXCEPT ![t] = @ \ {v}]
  /\ who' = [who EXCEPT ![t] = v]
  /\ dev' = [dev EXCEPT ![t] = k]
  /\ at' = [at EXCEPT ![t] = "inspect"]
  /\ UNCHANGED <<serverVars, identityVars, clientVars, target, held, countVars>>

\* Mutant of InspectAndAdd: the welcome is built before the member is in.
InspectAndAddEarly(t) ==
  LET s == Slot(t)
      g == Grp(live[s].gid, live[s].by, live[s].roster \union {who[t]})
  IN
  /\ at[t] = "inspect"
  /\ live[s] # NoGroup
  /\ live' = [live EXCEPT ![s] = g]
  /\ disk' = [disk EXCEPT ![s] = g]
  /\ held' = [held EXCEPT ![t] = live[s]]
  /\ at' = [at EXCEPT ![t] = "post"]
  /\ UNCHANGED <<serverVars, identityVars, ready, attempted, todo, target, who, dev, countVars>>

\* group_contains_key_package_identity, then add_member, which merges and persists
\* under the session lock.  The identity of a user outlives its devices.
InspectAndAdd(t) ==
  LET s == Slot(t)
      g == Grp(live[s].gid, live[s].by, live[s].roster \union {who[t]})
  IN
  /\ at[t] = "inspect"
  /\ live[s] # NoGroup
  /\ IF who[t] \in live[s].roster
       THEN at' = [at EXCEPT ![t] = "recover"] /\ UNCHANGED <<live, disk, held>>
       ELSE /\ live' = [live EXCEPT ![s] = g]
            /\ disk' = [disk EXCEPT ![s] = g]
            /\ held' = [held EXCEPT ![t] = g]
            /\ at' = [at EXCEPT ![t] = "post"]
  /\ UNCHANGED <<serverVars, identityVars, ready, attempted, todo, target, who, dev, countVars>>

\* Mutant of SaveFails: the error is swallowed, and the welcome goes on its way.
SaveFailsGoesOn(t) ==
  LET s == Slot(t)
      g == Grp(live[s].gid, live[s].by, live[s].roster \union {who[t]})
  IN
  /\ at[t] = "inspect"
  /\ live[s] # NoGroup /\ who[t] \notin live[s].roster
  /\ Fault
  /\ live' = [live EXCEPT ![s] = g]
  /\ held' = [held EXCEPT ![t] = g]
  /\ at' = [at EXCEPT ![t] = "post"]
  /\ UNCHANGED <<serverVars, identityVars, disk, ready, attempted, todo, target, who, dev,
                 logins, created, lost, resets>>

\* add_member merges and the snapshot is not written: the member is in the open
\* group, its commit and its welcome are gone, and the pass goes on.
SaveFails(t) ==
  LET s == Slot(t)
      g == Grp(live[s].gid, live[s].by, live[s].roster \union {who[t]})
  IN
  /\ at[t] = "inspect"
  /\ live[s] # NoGroup /\ who[t] \notin live[s].roster
  /\ Fault
  /\ lost' = lost \union {<<who[t], t[2]>>}
  /\ live' = [live EXCEPT ![s] = g]
  /\ NextMember(t)
  /\ UNCHANGED <<serverVars, identityVars, disk, ready, attempted, logins, created, resets>>

\* Without a session both fail, and the member is passed.
AddFails(t) ==
  /\ at[t] = "inspect"
  /\ live[Slot(t)] = NoGroup
  /\ NextMember(t)
  /\ UNCHANGED <<serverVars, identityVars, clientVars, countVars>>

\* request_recovery_welcome: the server stores its latest welcome for that device
\* once more.
Recover(t) ==
  /\ at[t] = "recover"
  /\ welcomes[<<who[t], t[2], dev[t]>>] # NoGroup
  /\ attempted' = [attempted EXCEPT ![t[1]] = @ \union {<<t[2], who[t]>>}]
  /\ NextMember(t)
  /\ UNCHANGED <<serverVars, identityVars, disk, live, ready, countVars>>

\* It has none: self_heal_after_recovery_welcome_unavailable gives up the session,
\* the snapshot and the marks, in this order.
DropSession(t) ==
  /\ at[t] = "recover"
  /\ welcomes[<<who[t], t[2], dev[t]>>] = NoGroup
  /\ live' = [live EXCEPT ![Slot(t)] = NoGroup]
  /\ resets' = resets + 1
  /\ at' = [at EXCEPT ![t] = "wipe"]
  /\ UNCHANGED <<serverVars, identityVars, disk, ready, attempted, todo, target, who, dev,
                 held, logins, created, failures, lost>>

DropSnapshot(t) ==
  /\ at[t] = "wipe"
  /\ disk' = [disk EXCEPT ![Slot(t)] = NoGroup]
  /\ at' = [at EXCEPT ![t] = "unmark"]
  /\ UNCHANGED <<serverVars, identityVars, live, ready, attempted, todo, target, who, dev,
                 held, countVars>>

Unmark(t) ==
  /\ at[t] = "unmark"
  /\ ready' = [ready EXCEPT ![t[1]] = @ \ {t[2]}]
  /\ attempted' = [attempted EXCEPT ![t[1]] = {a \in @ : a[1] # t[2]}]
  /\ NextMember(t)
  /\ UNCHANGED <<serverVars, identityVars, disk, live, countVars>>

\* Mutant of StoreWelcome: the commit is posted, the welcome is not stored.
StoreWelcomeLoses(t) ==
  /\ at[t] = "post"
  /\ NextMember(t)
  /\ UNCHANGED <<serverVars, identityVars, clientVars, countVars>>

\* The commit is posted, then the welcome stored and the member remembered.
StoreWelcome(t) ==
  /\ at[t] = "post"
  /\ welcomes' = [welcomes EXCEPT ![<<who[t], t[2], dev[t]>>] = held[t]]
  /\ attempted' = [attempted EXCEPT ![t[1]] = @ \union {<<t[2], who[t]>>}]
  /\ NextMember(t)
  /\ UNCHANGED <<members, published, identityVars, disk, live, ready, countVars>>

\* Mutant of PostFails: the member is remembered all the same.
PostFailsRemembers(t) ==
  /\ at[t] = "post"
  /\ Fault
  /\ lost' = lost \union {<<who[t], t[2]>>}
  /\ attempted' = [attempted EXCEPT ![t[1]] = @ \union {<<t[2], who[t]>>}]
  /\ NextMember(t)
  /\ UNCHANGED <<serverVars, identityVars, disk, live, ready, logins, created, resets>>

\* One of the two POSTs fails; the welcome may have been stored all the same.
PostFails(t) ==
  /\ at[t] = "post"
  /\ Fault
  /\ lost' = lost \union {<<who[t], t[2]>>}
  /\ NextMember(t)
  /\ welcomes' \in {welcomes, [welcomes EXCEPT ![<<who[t], t[2], dev[t]>>] = held[t]]}
  /\ UNCHANGED <<members, published, identityVars, clientVars, logins, created, resets>>

\* The key package cannot be used, or the recovery fails in another way than for
\* want of a welcome: the member is passed.
MemberFails(t) ==
  /\ at[t] \in {"inspect", "recover"}
  /\ Fault
  /\ NextMember(t)
  /\ UNCHANGED <<serverVars, identityVars, clientVars, logins, created, lost, resets>>

\* The key package of v cannot be fetched.
FetchFails(t, v) ==
  /\ at[t] = "pick" /\ v \in todo[t]
  /\ Fault
  /\ todo' = [todo EXCEPT ![t] = @ \ {v}]
  /\ UNCHANGED <<serverVars, identityVars, clientVars, at, target, who, dev, held,
                 logins, created, lost, resets>>

\* The self-heal goes on when the snapshot cannot be deleted.
WipeFails(t) ==
  /\ at[t] = "wipe"
  /\ Fault
  /\ at' = [at EXCEPT ![t] = "unmark"]
  /\ UNCHANGED <<serverVars, identityVars, clientVars, todo, target, who, dev, held,
                 logins, created, lost, resets>>

\* Opening, creating or joining a group, or reading the member list, fails: the
\* handle that is not yet a session is dropped, and the task ends.
CallFails(t) ==
  /\ at[t] \in {"look", "create", "list", "join", "clear", "save"}
  /\ Fault
  /\ End(t)
  /\ UNCHANGED <<serverVars, identityVars, clientVars, logins, created, lost, resets>>

\* Mutant of Finish: the gate stays closed.
FinishHolds(t) == at[t] = "pick" /\ todo[t] = {} /\ UNCHANGED vars

Finish(t) ==
  /\ at[t] = "pick" /\ todo[t] = {}
  /\ End(t)
  /\ UNCHANGED <<serverVars, identityVars, clientVars, countVars>>

-----------------------------------------------------------------------------
(* join_from_welcome                                                       *)

\* An open session refuses it: it has a group of the channel's id, and without a
\* session the private key must still be pending.
CanJoin(t) == live[Slot(t)] = NoGroup /\ pendingKey[t[1]] = device[t[1]]

JoinFails(t) ==
  /\ at[t] = "join"
  /\ ~CanJoin(t)
  /\ End(t)
  /\ UNCHANGED <<serverVars, identityVars, clientVars, countVars>>

\* The group is joined in memory, and the pending key is deleted before the
\* snapshot is written.
JoinWelcome(t) ==
  /\ at[t] = "join"
  /\ CanJoin(t)
  /\ at' = [at EXCEPT ![t] = "clear"]
  /\ UNCHANGED <<serverVars, identityVars, clientVars, todo, target, who, dev, held, countVars>>

ClearPending(t) ==
  /\ at[t] = "clear"
  /\ pendingKey' = [pendingKey EXCEPT ![t[1]] = NoDevice]
  /\ at' = [at EXCEPT ![t] = "save"]
  /\ UNCHANGED <<serverVars, device, made, clientVars, todo, target, who, dev, held, countVars>>

SaveJoined(t) ==
  /\ at[t] = "save"
  /\ disk' = [disk EXCEPT ![Slot(t)] = held[t]]
  /\ at' = [at EXCEPT ![t] = "insert"]
  /\ UNCHANGED <<serverVars, identityVars, live, ready, attempted, todo, target, who, dev,
                 held, countVars>>

TaskStep(t) ==
  \/ Look(t) \/ Create(t) \/ Insert(t) \/ Mark(t) \/ List(t) \/ Finish(t)
  \/ \E v \in todo[t] : Pass(t, v) \/ \E k \in Devices : PickMember(t, v, k)
  \/ InspectAndAdd(t) \/ AddFails(t) \/ StoreWelcome(t)
  \/ Recover(t) \/ DropSession(t) \/ DropSnapshot(t) \/ Unmark(t)
  \/ JoinWelcome(t) \/ JoinFails(t) \/ ClearPending(t) \/ SaveJoined(t)

FailStep(t) ==
  \/ PostFails(t) \/ SaveFails(t) \/ MemberFails(t) \/ WipeFails(t) \/ CallFails(t)
  \/ \E v \in todo[t] : FetchFails(t, v)

Next ==
  \/ \E u \in Users : JoinGuild(u) \/ Login(u) \/ MakeKey(u) \/ PublishKey(u)
  \/ \E u \in Users, c \in Channels :
       StartSync(u, c) \/ StartRestore(u, c) \/ ForceResync(u, c)
  \/ \E u \in Users, c \in Channels :
       \E v \in members \union {NoUser}, d \in Devices \union {NoDevice} : StartBoot(u, c, v, d)
  \/ \E t \in Tasks : TaskStep(t) \/ FailStep(t)

Spec == Init /\ [][Next]_vars

\* A task that can move is polled.  Nothing is assumed of users, requests or
\* failures.
Fairness == \A t \in Tasks : WF_vars(TaskStep(t))

FairSpec == Spec /\ Fairness

-----------------------------------------------------------------------------
(* Properties                                                              *)

Points ==
  {"idle", "look", "create", "insert", "mark", "list", "pick", "inspect", "recover",
   "wipe", "unmark", "post", "join", "clear", "save"}

TypeOK ==
  /\ members \subseteq Users
  /\ published \subseteq Users \X Devices
  /\ welcomes \in [Users \X Channels \X Devices -> Group]
  /\ device \in [Users -> Devices]
  /\ made \in [Users -> Devices \union {NoDevice}]
  /\ pendingKey \in [Users -> Devices \union {NoDevice}]
  /\ disk \in [Slots -> Group] /\ live \in [Slots -> Group]
  /\ ready \in [Users -> SUBSET Channels]
  /\ attempted \in [Users -> SUBSET (Channels \X Users)]
  /\ at \in [Tasks -> Points]
  /\ todo \in [Tasks -> SUBSET Users]
  /\ target \in [Tasks -> Users \union {NoUser}] /\ who \in [Tasks -> Users \union {NoUser}]
  /\ dev \in [Tasks -> Devices \union {NoDevice}] /\ held \in [Tasks -> Group]
  /\ logins \in 0..MaxLogins /\ created \in 0..MaxGroups /\ failures \in 0..MaxFailures
  /\ lost \subseteq Users \X Channels /\ resets \in Nat

\* Whoever holds a group, in memory or on disk, is on the roster it holds: a
\* group is founded by its holder or comes from a welcome for its holder.
HolderIsOnRoster ==
  \A s \in Slots :
    /\ live[s] # NoGroup => s[1] \in live[s].roster
    /\ disk[s] # NoGroup => s[1] \in disk[s].roster

\* The server has a welcome to channel c for one of v's devices.
HasWelcome(v, c) == \E d \in Devices : welcomes[<<v, c, d>>] # NoGroup

\* A client stops adding a member only when the server has a welcome for it.
AttemptedHasWelcome ==
  \A u \in Users, c \in Channels, v \in Users :
    <<c, v>> \in attempted[u] => HasWelcome(v, c)

\* A bootstrap is about to leave v a welcome.
BeingServed(v, c) ==
  \E t \in Tasks : t[2] = c /\ at[t] = "post" /\ who[t] = v

\* Whoever a group lists besides its founder has a welcome or is about to get
\* one, unless the snapshot or a POST failed or the adder stopped on the way.
RosterHasWelcome ==
  \A s \in Slots : \A v \in live[s].roster \ {live[s].by} :
    \/ <<v, s[2]>> \in lost
    \/ BeingServed(v, s[2])
    \/ HasWelcome(v, s[2])

\* While the creator leads everybody and the self-heal has thrown nothing away, no
\* other client knows of a member of a group whom its founder would have forgotten
\* after a restart: the snapshot is written before the welcome leaves.
FounderKnowsAll ==
  (\A u \in Users : Creator <= u) /\ resets = 0 =>
    \A s \in Slots :
      LET own == disk[<<live[s].by, s[2]>>] IN
      live[s] # NoGroup /\ s[1] # live[s].by /\ own.gid = live[s].gid =>
        live[s].roster \subseteq own.roster

\* A channel is marked as initialized only after its session is open: until a
\* self-heal throws a session away, a ready channel can encrypt.  (After one it may
\* not: the mark another task sets after its await may come after the heal.)
ReadyMeansOpen ==
  resets = 0 => \A u \in Users : \A c \in ready[u] : live[<<u, c>>] # NoGroup

SameGroup == \A u, v \in Users, c \in Channels :
  live[<<u, c>>] # NoGroup /\ live[<<v, c>>] # NoGroup => live[<<u, c>>].gid = live[<<v, c>>].gid

\* While the creator is the leader of everybody, no welcome gets lost and nobody
\* logs in again, all members of a channel are in one group.
Calm == (\A u \in Users : Creator <= u) /\ lost = {} /\ logins = 0
CalmMeansSameGroup == Calm => SameGroup

\* A pass ends and opens its gate for the next request, and by then each member it
\* had still to look at, and that has a key package, has a welcome; unless something
\* failed, somebody signed in again or the self-heal took the group.
PassServes ==
  \A t \in Tasks, v \in Users :
    v \in todo[t] /\ (\E k \in Devices : KeyFor(t, v, k)) ~>
      \/ at[t] = "idle" /\ HasWelcome(v, t[2])
      \/ failures > 0 \/ logins > 0 \/ resets > 0

-----------------------------------------------------------------------------
(* What the documentation says and the code does not keep                  *)

\* Only the first member creates a group, whoever joins later.
OneFounder == created > 0 => SameGroup

\* The latest welcome of a member without a session can be joined.
WelcomeUsable ==
  \A u \in Users, c \in Channels :
    /\ live[<<u, c>>] = NoGroup /\ disk[<<u, c>>] = NoGroup
    /\ welcomes[<<u, c, device[u]>>] # NoGroup
    => \/ pendingKey[u] = device[u]
       \/ at[<<u, c, "sync">>] \in {"save", "insert"}

\* The self-heal answers to a server that has lost its data, which never happens
\* here: while the leader's session lives on, it throws no group away.
NoResetWithoutLoss == device[Creator] = 1 => resets = 0
=============================================================================
