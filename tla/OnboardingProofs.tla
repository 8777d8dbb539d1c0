--------------------------- MODULE OnboardingProofs ---------------------------
(***************************************************************************)
(* What Onboarding promises for every number of users, channels, groups,    *)
(* tasks, logins and failures.  IInv is inductive and says, besides the     *)
(* types, who a task adds, whose roster a group in hand has, and that       *)
(* whoever a group lists has a welcome, is about to get one or lost it.     *)
(* CalmInv is about the calm guild: the creator leads everybody, no         *)
(* welcome gets lost and nobody logs in again.  There the self-heal never   *)
(* finds a welcome missing, for the member it recovers is in the creator's  *)
(* group, so that group is never given up and all that leaves the creator   *)
(* is a copy of it.                                                         *)
(*                                                                         *)
(* OpenInv and KnowInv need less than a calm guild.  Until a self-heal      *)
(* throws a session away, whoever is about to mark a channel has its        *)
(* session open.  And while the creator has the lowest id, only it founds   *)
(* groups and adds members.  Its open group may be ahead of its snapshot,   *)
(* when that could not be written; but every other copy of a group, on      *)
(* disk, in a welcome, in a task's hand or in another member's memory, was  *)
(* such a copy before or is what a task has just made and saved (AwayStep), *)
(* so that the creator's snapshot lists whomever one of these lists.        *)
(*                                                                         *)
(* In a proof that a step keeps some part of the invariant, <1>1 is the     *)
(* case that leaves the variables of that part alone, and the other steps   *)
(* are the actions.                                                         *)
(***************************************************************************)
EXTENDS Onboarding, TLAPS

Adding == {"inspect", "recover", "wipe", "unmark", "post"}
Joining == {"join", "clear", "save"}

\* The failures of a task that cost it only what it has in hand.
Drops(t) ==
  MemberFails(t) \/ WipeFails(t) \/ CallFails(t) \/ \E v \in todo[t] : FetchFails(t, v)

\* What task k has in hand stays as it is.
SameTask(k) ==
  /\ at'[k] = at[k] /\ todo'[k] = todo[k] /\ target'[k] = target[k]
  /\ who'[k] = who[k] /\ dev'[k] = dev[k] /\ held'[k] = held[k]

\* Only a bootstrap adds members, it has one in hand while it does, and none is its
\* own user.
AddInv ==
  \A t \in Tasks :
    /\ at[t] \in Adding \union {"list", "pick"} => t[3] = "boot"
    /\ at[t] \in Adding => who[t] \in Users \ {t[1]} /\ dev[t] \in Devices
    /\ todo[t] \subseteq Users \ {t[1]}

\* A device is registered by a login.
LoginInv == \A u \in Users : device[u] <= logins + 1

\* A welcome lists its receiver, ...
WelcomeInv ==
  \A u \in Users, c \in Channels, d \in Devices :
    welcomes[<<u, c, d>>] # NoGroup => u \in welcomes[<<u, c, d>>].roster

\* ... and the group a task has in hand the member it is for.
HeldOK(t) ==
  /\ at[t] = "post" => who[t] \in held[t].roster
  /\ at[t] \in Joining => held[t] # NoGroup
  /\ at[t] # "post" /\ held[t] # NoGroup => t[1] \in held[t].roster

HeldInv == \A t \in Tasks : HeldOK(t)
RosterInv == WelcomeInv /\ HeldInv

\* v has a welcome to channel c, is about to get one, or lost it.
Covered(v, c) == <<v, c>> \in lost \/ BeingServed(v, c) \/ HasWelcome(v, c)

\* Whoever g lists besides its founder is covered.
Accounted(g, c) == \A v \in g.roster \ {g.by} : Covered(v, c)

\* ... and g still is after the step.
AccountedNext(g, c) == \A v \in g.roster \ {g.by} : Covered(v, c)'

ServedInv ==
  /\ \A s \in Slots : Accounted(live[s], s[2]) /\ Accounted(disk[s], s[2])
  /\ \A u \in Users, c \in Channels, d \in Devices : Accounted(welcomes[<<u, c, d>>], c)
  /\ \A t \in Tasks : Accounted(held[t], t[2])

\* g is the group the creator has open in channel c.
OfCreator(g, c) ==
  g # NoGroup => live[<<Creator, c>>] # NoGroup /\ g.gid = live[<<Creator, c>>].gid

\* Calm: everybody has one device, ...
DeviceInv ==
  Calm =>
    /\ Creator \in members
    /\ \A u \in Users : device[u] = 1
    /\ published \subseteq Users \X {1}
    /\ \A u \in Users, c \in Channels, d \in Devices \ {1} : welcomes[<<u, c, d>>] = NoGroup
    /\ \A t \in Tasks : dev[t] \in {NoDevice, 1}

\* ... only the creator bootstraps and only the others join, the creator founds the
\* group it holds, and whom it is about to recover is in it, so that nothing is
\* given up, ...
LeadTask(t) ==
  /\ at[t] \notin {"wipe", "unmark"}
  /\ t[1] = Creator => at[t] \notin Joining /\ held[t].by \in {NoUser, Creator}
  /\ t[1] # Creator =>
       /\ t[3] = "boot" => at[t] = "idle"
       /\ at[t] # "create"
       /\ at[t] = "look" => disk[Slot(t)] # NoGroup
  /\ at[t] = "recover" => who[t] \in live[Slot(t)].roster

LeadInv ==
  Calm =>
    /\ \A c \in Channels :
         /\ live[<<Creator, c>>].by \in {NoUser, Creator}
         /\ disk[<<Creator, c>>].by \in {NoUser, Creator}
    /\ \A t \in Tasks : LeadTask(t)

\* ... and whatever leaves the creator is its open group.
HeldOfCreator(t) == t[1] # Creator \/ at[t] = "post" => OfCreator(held[t], t[2])

GroupInv ==
  Calm =>
    /\ \A u \in Users \ {Creator}, c \in Channels :
         OfCreator(live[<<u, c>>], c) /\ OfCreator(disk[<<u, c>>], c)
    /\ \A u \in Users, c \in Channels, d \in Devices : OfCreator(welcomes[<<u, c, d>>], c)
    /\ \A t \in Tasks : HeldOfCreator(t)

\* ... and still is after the step.
OfCreatorNext(g, c) ==
  g # NoGroup => live'[<<Creator, c>>] # NoGroup /\ g.gid = live'[<<Creator, c>>].gid
HeldOfCreatorNext(t) == t[1] # Creator \/ at'[t] = "post" => OfCreatorNext(held'[t], t[2])

CalmInv == DeviceInv /\ LeadInv /\ GroupInv

\* Every copy of a group of channel c that there is.
Copies(c) ==
  {live[<<u, c>>] : u \in Users} \union {disk[<<u, c>>] : u \in Users}
    \union {welcomes[<<u, c, d>>] : u \in Users, d \in Devices}
    \union {held[<<u, c, k>>] : u \in Users, k \in Kinds}

\* The groups are numbered as they are created.
GidInv ==
  \A c \in Channels : \A g \in Copies(c) : g.gid <= created /\ (g.gid = 0 => g = NoGroup)

\* A task that is about to open a session has a group to open it with, and as long
\* as no session is thrown away, whoever marks a channel has one open.
OpenInv ==
  /\ \A t \in Tasks : at[t] = "insert" => held[t] # NoGroup
  /\ resets = 0 =>
       /\ \A u \in Users : \A c \in ready[u] : live[<<u, c>>] # NoGroup
       /\ \A t \in Tasks : at[t] = "mark" => live[Slot(t)] # NoGroup

\* The creator has the lowest id.
CreatorLeads == \A u \in Users : Creator <= u

FollowTask(t) ==
  /\ t[1] = Creator => at[t] \notin Joining
  /\ t[1] # Creator =>
       /\ t[3] = "boot" => at[t] = "idle"
       /\ at[t] # "create"
       /\ at[t] = "look" => disk[Slot(t)] # NoGroup

\* ... and nobody leaves the creator a welcome.
FollowInv ==
  /\ Creator \in members
  /\ CreatorLeads =>
       /\ \A t \in Tasks : FollowTask(t)
       /\ \A c \in Channels, d \in Devices : welcomes[<<Creator, c, d>>] = NoGroup

FoundedInv ==
  CreatorLeads => \A c \in Channels : \A g \in Copies(c) : g # NoGroup => g.by = Creator

\* Every copy but the group the creator has open, which is ahead of its snapshot
\* when that could not be written.
Away(c) ==
  {live[<<u, c>>] : u \in Users \ {Creator}} \union {disk[<<u, c>>] : u \in Users}
    \union {welcomes[<<u, c, d>>] : u \in Users, d \in Devices}
    \union {held[<<u, c, k>>] : u \in Users, k \in Kinds}

\* No copy of group h of channel c lists anybody h does not, the creator's open one
\* left aside.
Latest(h, c) == \A g \in Away(c) : g.gid = h.gid => g.roster \subseteq h.roster

\* The creator's snapshot of a channel is the latest of these copies of its group, and
\* the session it has open or is about to open is no older.
Knows(c) ==
  /\ Latest(disk[<<Creator, c>>], c)
  /\ live[<<Creator, c>>] # NoGroup => Latest(live[<<Creator, c>>], c)
  /\ live[<<Creator, c>>] = NoGroup =>
       \A k \in Kinds : at[<<Creator, c, k>>] = "insert" => Latest(held[<<Creator, c, k>>], c)

KnowInv == CreatorLeads /\ resets = 0 => \A c \in Channels : Knows(c)

\* The group of task t with the member it adds.
Grown(t) == Grp(live[Slot(t)].gid, live[Slot(t)].by, live[Slot(t)].roster \union {who[t]})

\* Task t founds g, or adds a member to a group and so makes g of it.
Founds(t, g) == Create(t) /\ g = Grp(created + 1, t[1], {t[1]})
Grows(t, g) == InspectAndAdd(t) /\ who[t] \notin live[Slot(t)].roster /\ g = Grown(t)

\* ... or adds it and its snapshot cannot be written, so that g is open and nowhere else.
Saves(t, g) == SaveFails(t) /\ g = Grown(t)

\* g is nothing, a copy there was, or what a task made of one in this step.
Copied(g, c) ==
  \/ g = NoGroup
  \/ g \in Copies(c)
  \/ \E t \in Tasks : t[2] = c /\ (Founds(t, g) \/ Grows(t, g) \/ Saves(t, g))

\* The same of the copies but the group the creator has open.
CopiedAway(g, c) ==
  \/ g = NoGroup
  \/ g \in Away(c)
  \/ \E t \in Tasks :
       t[2] = c /\ (Founds(t, g) \/ Grows(t, g) \/ (t[1] # Creator /\ Saves(t, g)))

\* What becomes of an open group.
LiveMoved(s) ==
  \/ live'[s] \in {live[s], NoGroup}
  \/ \E t \in Tasks :
       Slot(t) = s /\ (live'[s] = held[t] \/ Grows(t, live'[s]) \/ Saves(t, live'[s]))

\* The copies of channel c after the step list nobody h does not, if of group h.
LatestNext(h, c) == \A g \in Away(c)' : g.gid = h.gid => g.roster \subseteq h.roster

\* The creator still knows all there is to know of channel c.
KnowsNext(c) ==
  /\ LatestNext(disk'[<<Creator, c>>], c)
  /\ live'[<<Creator, c>>] # NoGroup => LatestNext(live'[<<Creator, c>>], c)
  /\ live'[<<Creator, c>>] = NoGroup =>
       \A k \in Kinds :
         at'[<<Creator, c, k>>] = "insert" => LatestNext(held'[<<Creator, c, k>>], c)

\* h is g with more members, if anything.
SameAndMore(g, h) == h # NoGroup /\ h.gid = g.gid /\ h.by = g.by /\ g.roster \subseteq h.roster

IInv ==
  /\ TypeOK
  /\ AddInv
  /\ LoginInv
  /\ RosterInv
  /\ HolderIsOnRoster
  /\ AttemptedHasWelcome
  /\ ServedInv
  /\ CalmInv
  /\ OpenInv
  /\ GidInv /\ FollowInv /\ FoundedInv /\ KnowInv

USE DEF serverVars, identityVars, clientVars, taskVars, countVars

-----------------------------------------------------------------------------
\* What tasks and slots are made of.
LEMMA TaskParts ==
  /\ \A t \in Tasks : /\ t[1] \in Users /\ t[2] \in Channels /\ t[3] \in Kinds
                      /\ t = <<t[1], t[2], t[3]>>
                      /\ Slot(t) \in Slots /\ Slot(t)[1] = t[1] /\ Slot(t)[2] = t[2]
                      /\ Slot(t) = <<t[1], t[2]>>
  /\ \A u \in Users, c \in Channels, k \in Kinds :
       LET t == <<u, c, k>> IN t \in Tasks /\ t[1] = u /\ t[2] = c /\ t[3] = k
  /\ \A s \in Slots : s[1] \in Users /\ s[2] \in Channels /\ s = <<s[1], s[2]>>
  /\ \A u \in Users, c \in Channels :
       LET s == <<u, c>> IN s \in Slots /\ s[1] = u /\ s[2] = c
  BY DEF Tasks, Slots, Slot

\* What groups are made of.
LEMMA GroupParts ==
  /\ \A i, f, r : LET g == Grp(i, f, r) IN g.gid = i /\ g.by = f /\ g.roster = r
  /\ \A i \in 0..MaxGroups, f \in Users \union {NoUser}, r \in SUBSET Users :
       Grp(i, f, r) \in Group
  /\ \A g \in Group :
       g.gid \in 0..MaxGroups /\ g.by \in Users \union {NoUser} /\ g.roster \in SUBSET Users
  /\ NoGroup \in Group /\ NoGroup.roster = {} /\ NoGroup.by = NoUser
  BY BoundAssumption DEF Grp, Group, NoGroup

\* The types of what the tasks have in hand ...
LEMMA TaskTypes ==
  ASSUME TypeOK
  PROVE  /\ at \in [Tasks -> Points] /\ todo \in [Tasks -> SUBSET Users]
         /\ target \in [Tasks -> Users \union {NoUser}]
            /\ who \in [Tasks -> Users \union {NoUser}]
         /\ dev \in [Tasks -> Devices \union {NoDevice}] /\ held \in [Tasks -> Group]
  BY DEF TypeOK

\* ... and of the data they work on.
LEMMA DataTypes ==
  ASSUME TypeOK
  PROVE  /\ welcomes \in [Users \X Channels \X Devices -> Group]
         /\ device \in [Users -> Devices]
         /\ disk \in [Slots -> Group] /\ live \in [Slots -> Group]
         /\ ready \in [Users -> SUBSET Channels]
         /\ attempted \in [Users -> SUBSET (Channels \X Users)]
  BY DEF TypeOK

\* A step of a task leaves the other tasks alone.
LEMMA TaskFrame ==
  ASSUME TypeOK, NEW t \in Tasks, TaskStep(t) \/ FailStep(t)
  PROVE  \A j \in Tasks \ {t} : SameTask(j)
<1>0. /\ at \in [Tasks -> Points] /\ todo \in [Tasks -> SUBSET Users]
      /\ target \in [Tasks -> Users \union {NoUser}] /\ who \in [Tasks -> Users \union {NoUser}]
      /\ dev \in [Tasks -> Devices \union {NoDevice}] /\ held \in [Tasks -> Group]
  BY DEF TypeOK
<1>1. CASE Look(t)
  BY <1>1, <1>0 DEF Look, SameTask
<1>2. CASE Create(t)
  BY <1>2, <1>0 DEF Create, SameTask
<1>3. CASE Insert(t)
  BY <1>3, <1>0 DEF Insert, SameTask
<1>4. CASE Mark(t)
  BY <1>4, <1>0 DEF Mark, End, SameTask
<1>5. CASE List(t)
  BY <1>5, <1>0 DEF List, SameTask
<1>6. CASE Finish(t)
  BY <1>6, <1>0 DEF Finish, End, SameTask
<1>7. ASSUME NEW v \in todo[t], Pass(t, v) PROVE \A j \in Tasks \ {t} : SameTask(j)
  BY <1>7, <1>0 DEF Pass, SameTask
<1>8. ASSUME NEW v \in todo[t], NEW k \in Devices, PickMember(t, v, k)
      PROVE  \A j \in Tasks \ {t} : SameTask(j)
  BY <1>8, <1>0 DEF PickMember, SameTask
<1>9. CASE InspectAndAdd(t)
  BY <1>9, <1>0 DEF InspectAndAdd, SameTask
<1>10. CASE AddFails(t)
  BY <1>10, <1>0 DEF AddFails, NextMember, SameTask
<1>11. CASE StoreWelcome(t)
  BY <1>11, <1>0 DEF StoreWelcome, NextMember, SameTask
<1>12. CASE Recover(t)
  BY <1>12, <1>0 DEF Recover, NextMember, SameTask
<1>13. CASE DropSession(t)
  BY <1>13, <1>0 DEF DropSession, SameTask
<1>14. CASE DropSnapshot(t)
  BY <1>14, <1>0 DEF DropSnapshot, SameTask
<1>15. CASE Unmark(t)
  BY <1>15, <1>0 DEF Unmark, NextMember, SameTask
<1>16. CASE JoinWelcome(t)
  BY <1>16, <1>0 DEF JoinWelcome, SameTask
<1>17. CASE JoinFails(t)
  BY <1>17, <1>0 DEF JoinFails, End, SameTask
<1>18. CASE ClearPending(t)
  BY <1>18, <1>0 DEF ClearPending, SameTask
<1>19. CASE SaveJoined(t)
  BY <1>19, <1>0 DEF SaveJoined, SameTask
<1>20. CASE PostFails(t)
  BY <1>20, <1>0 DEF PostFails, NextMember, SameTask
<1>21. CASE SaveFails(t)
  BY <1>21, <1>0 DEF SaveFails, NextMember, SameTask
<1>22. CASE MemberFails(t)
  BY <1>22, <1>0 DEF MemberFails, NextMember, SameTask
<1>23. CASE WipeFails(t)
  BY <1>23, <1>0 DEF WipeFails, SameTask
<1>24. CASE CallFails(t)
  BY <1>24, <1>0 DEF CallFails, End, SameTask
<1>25. ASSUME NEW v \in todo[t], FetchFails(t, v) PROVE \A j \in Tasks \ {t} : SameTask(j)
  BY <1>25, <1>0 DEF FetchFails, SameTask
<1> QED
  BY <1>1, <1>2, <1>3, <1>4, <1>5, <1>6, <1>7, <1>8, <1>9, <1>10, <1>11, <1>12, <1>13,
     <1>14, <1>15, <1>16, <1>17, <1>18, <1>19, <1>20, <1>21, <1>22, <1>23, <1>24, <1>25
     DEF TaskStep, FailStep

\* A task that loses what it has in hand, goes back to its list of members, or ends,
\* or goes on with the self-heal.
LEMMA DropStep ==
  ASSUME TypeOK, NEW t \in Tasks, Drops(t)
  PROVE  /\ UNCHANGED <<members, published, welcomes, device, made, pendingKey, disk, live,
                        ready, attempted, logins, created, lost, resets>>
         /\ \A j \in Tasks \ {t} : SameTask(j)
         /\ at[t] \notin {"post", "insert", "mark", "idle", "unmark"}
         /\ at'[t] \in {"pick", "unmark", "idle"}
         /\ at'[t] = "pick" => at[t] \in {"inspect", "recover", "pick"}
         /\ at'[t] = "unmark" => at[t] = "wipe" /\ who'[t] = who[t] /\ dev'[t] = dev[t]
         /\ held'[t] \in {held[t], NoGroup} /\ dev'[t] \in {dev[t], NoDevice}
         /\ todo'[t] \subseteq todo[t]
<1>0. /\ at \in [Tasks -> Points] /\ todo \in [Tasks -> SUBSET Users]
      /\ target \in [Tasks -> Users \union {NoUser}] /\ who \in [Tasks -> Users \union {NoUser}]
      /\ dev \in [Tasks -> Devices \union {NoDevice}] /\ held \in [Tasks -> Group]
  BY DEF TypeOK
<1>1. \A j \in Tasks \ {t} : SameTask(j)
  BY TaskFrame DEF Drops, FailStep
<1>2. CASE MemberFails(t)
  BY <1>2, <1>1, <1>0 DEF MemberFails, NextMember
<1>3. CASE WipeFails(t)
  BY <1>3, <1>1, <1>0 DEF WipeFails
<1>4. CASE CallFails(t)
  BY <1>4, <1>1, <1>0 DEF CallFails, End
<1>5. ASSUME NEW v \in todo[t], FetchFails(t, v)
      PROVE  /\ UNCHANGED <<members, published, welcomes, device, made, pendingKey, disk, live,
                            ready, attempted, logins, created, lost, resets>>
             /\ at' = at /\ at[t] = "pick" /\ held' = held /\ dev' = dev /\ who' = who
             /\ todo'[t] \subseteq todo[t]
  BY <1>5, <1>0 DEF FetchFails
<1> QED
  BY <1>1, <1>2, <1>3, <1>4, <1>5 DEF Drops

\* Every step keeps the types.
LEMMA TypeStep ==
  ASSUME TypeOK, AddInv, LoginInv, [Next]_vars
  PROVE  TypeOK'
<1>1. CASE UNCHANGED <<members, published, welcomes, device, made, pendingKey, disk,
                       live, ready, attempted, at, todo, target, who, dev, held,
                       logins, created, failures, lost, resets>>
  BY <1>1 DEF TypeOK
<1>2. ASSUME NEW u \in Users, Login(u)
      PROVE  TypeOK'
  <2>1. NoGroup \in Group /\ NoUser \in Users \union {NoUser}
          /\ NoDevice \in Devices \union {NoDevice}
    BY GroupParts
  <2>2. device' \in [Users -> Devices] /\ logins' \in 0..MaxLogins
    BY <1>2, BoundAssumption DEF Login, TypeOK, LoginInv, Devices
  <2>3. live' \in [Slots -> Group] /\ held' \in [Tasks -> Group]
    BY <1>2, <2>1 DEF Login, TypeOK
  <2>4. /\ at' \in [Tasks -> Points] /\ todo' \in [Tasks -> SUBSET Users]
        /\ target' \in [Tasks -> Users \union {NoUser}]
           /\ who' \in [Tasks -> Users \union {NoUser}]
        /\ dev' \in [Tasks -> Devices \union {NoDevice}]
    BY <1>2, <2>1 DEF Login, TypeOK, Points
  <2>5. ready' \in [Users -> SUBSET Channels]
          /\ attempted' \in [Users -> SUBSET (Channels \X Users)]
    BY <1>2 DEF Login, TypeOK
  <2>6. lost' \subseteq Users \X Channels
    BY <1>2, TaskParts DEF Login, TypeOK, AddInv, Adding
  <2> QED
    BY <1>2, <2>2, <2>3, <2>4, <2>5, <2>6 DEF Login, TypeOK
<1>3. ASSUME NEW u \in Users, NEW c \in Channels, StartSync(u, c)
      PROVE  TypeOK'
  <2> DEFINE t == <<u, c, "sync">>
  <2>0. device[u] \in Devices
    BY DataTypes
  <2>1. t \in Tasks
    BY TaskParts DEF Kinds
  <2>3. welcomes[<<u, c, device[u]>>] \in Group
    BY <2>0, DataTypes
  <2>2. at' \in [Tasks -> Points] /\ held' \in [Tasks -> Group]
    BY <1>3, <2>1, <2>3, TaskTypes DEF StartSync, Points
  <2> QED
    BY <1>3, <2>2 DEF StartSync, TypeOK
<1>4. ASSUME NEW t \in Tasks, Create(t)
      PROVE  TypeOK'
  <2>1. t[1] \in Users /\ Slot(t) \in Slots /\ created + 1 \in 0..MaxGroups
    BY <1>4, TaskParts, BoundAssumption DEF Create, TypeOK
  <2>2. Grp(created + 1, t[1], {t[1]}) \in Group
    BY <2>1, GroupParts
  <2> QED
    BY <1>4, <2>1, <2>2 DEF Create, TypeOK, Points, NoUser, NoDevice
<1>5. ASSUME NEW t \in Tasks, Mark(t)
      PROVE  TypeOK'
  <2>1. t[1] \in Users /\ t[2] \in Channels /\ Slot(t) \in Slots /\ NoGroup \in Group
    BY TaskParts, GroupParts
  <2> QED
    BY ZenonT(60), <1>5, <2>1, BoundAssumption DEF Mark, End, TypeOK, Points, NoUser, NoDevice
<1>6. ASSUME NEW t \in Tasks, InspectAndAdd(t)
      PROVE  TypeOK'
  <2>1. Slot(t) \in Slots /\ live[Slot(t)] \in Group /\ who[t] \in Users
    BY TaskParts, <1>6 DEF TypeOK, AddInv, InspectAndAdd, Adding
  <2>2. live[Slot(t)].gid \in 0..MaxGroups /\ live[Slot(t)].by \in Users \union {NoUser}
        /\ live[Slot(t)].roster \union {who[t]} \in SUBSET Users
    BY <2>1, GroupParts
  <2>3. Grp(live[Slot(t)].gid, live[Slot(t)].by, live[Slot(t)].roster \union {who[t]}) \in Group
    BY <2>2, GroupParts
  <2> QED
    BY <1>6, <2>1, <2>3 DEF InspectAndAdd, TypeOK, Points, NoUser, NoDevice
<1>7. ASSUME NEW t \in Tasks, StoreWelcome(t)
      PROVE  TypeOK'
  <2>1. t[1] \in Users /\ t[2] \in Channels /\ Slot(t) \in Slots /\ NoGroup \in Group
    BY TaskParts, GroupParts
  <2>2. who[t] \in Users /\ dev[t] \in Devices
    BY <1>7 DEF AddInv, Adding, StoreWelcome
  <2> QED
    BY <1>7, <2>1, <2>2, BoundAssumption
       DEF StoreWelcome, NextMember, TypeOK, Points, NoUser, NoDevice
<1>8. ASSUME NEW t \in Tasks, Recover(t)
      PROVE  TypeOK'
  <2>1. t[1] \in Users /\ t[2] \in Channels /\ Slot(t) \in Slots /\ NoGroup \in Group
    BY TaskParts, GroupParts
  <2>2. who[t] \in Users /\ dev[t] \in Devices
    BY <1>8 DEF AddInv, Adding, Recover
  <2> QED
    BY <1>8, <2>1, <2>2, BoundAssumption
       DEF Recover, NextMember, TypeOK, Points, NoUser, NoDevice
<1>9. ASSUME NEW t \in Tasks, Unmark(t)
      PROVE  TypeOK'
  <2>1. t[1] \in Users /\ t[2] \in Channels /\ Slot(t) \in Slots /\ NoGroup \in Group
    BY TaskParts, GroupParts
  <2> QED
    BY <1>9, <2>1, BoundAssumption
       DEF Unmark, NextMember, TypeOK, Points, NoUser, NoDevice
<1>10. ASSUME NEW t \in Tasks, PostFails(t)
      PROVE  TypeOK'
  <2>1. t[1] \in Users /\ t[2] \in Channels /\ Slot(t) \in Slots /\ NoGroup \in Group
    BY TaskParts, GroupParts
  <2>2. who[t] \in Users /\ dev[t] \in Devices
    BY <1>10 DEF AddInv, Adding, PostFails
  <2>3. welcomes' \in [Users \X Channels \X Devices -> Group]
    <3>1. CASE welcomes' = welcomes
      BY <3>1 DEF TypeOK
    <3>2. CASE welcomes' = [welcomes EXCEPT ![<<who[t], t[2], dev[t]>>] = held[t]]
      BY <3>2 DEF TypeOK
    <3> QED
      BY <1>10, <3>1, <3>2 DEF PostFails
  <2>4. failures' \in 0..MaxFailures /\ lost' \subseteq Users \X Channels
    BY <1>10, <2>1, <2>2, BoundAssumption DEF PostFails, Fault, TypeOK
  <2> QED
    BY <1>10, <2>1, <2>3, <2>4 DEF PostFails, NextMember, TypeOK, Points, NoUser, NoDevice
<1>11. ASSUME NEW u \in Users, JoinGuild(u)
      PROVE  TypeOK'
  BY <1>11, TaskParts, GroupParts, BoundAssumption
    DEF JoinGuild, TypeOK, Points
<1>12. ASSUME NEW u \in Users, MakeKey(u)
      PROVE  TypeOK'
  BY <1>12, TaskParts, GroupParts, BoundAssumption
    DEF MakeKey, TypeOK, Points
<1>13. ASSUME NEW u \in Users, PublishKey(u)
      PROVE  TypeOK'
  BY <1>13, TaskParts, GroupParts, BoundAssumption
    DEF PublishKey, TypeOK, Points
<1>14. ASSUME NEW u \in Users, NEW c \in Channels, StartRestore(u, c)
      PROVE  TypeOK'
  BY <1>14, TaskParts, GroupParts, BoundAssumption
    DEF StartRestore, TypeOK, Points
<1>15. ASSUME NEW u \in Users, NEW c \in Channels, ForceResync(u, c)
      PROVE  TypeOK'
  BY <1>15, TaskParts, GroupParts, BoundAssumption
    DEF ForceResync, TypeOK, Points
<1>16. ASSUME NEW u \in Users, NEW c \in Channels, NEW v \in members \union {NoUser},
             NEW d \in Devices \union {NoDevice}, StartBoot(u, c, v, d)
      PROVE  TypeOK'
  BY <1>16, TaskParts, GroupParts, BoundAssumption
    DEF StartBoot, TypeOK, Points
<1>17. ASSUME NEW t \in Tasks, Look(t)
      PROVE  TypeOK'
  BY <1>17, TaskParts, GroupParts, BoundAssumption
    DEF Look, TypeOK, Points
<1>18. ASSUME NEW t \in Tasks, Insert(t)
      PROVE  TypeOK'
  BY <1>18, TaskParts, GroupParts, BoundAssumption
    DEF Insert, TypeOK, Points
<1>19. ASSUME NEW t \in Tasks, List(t)
      PROVE  TypeOK'
  BY <1>19, TaskParts, GroupParts, BoundAssumption
    DEF List, TypeOK, Points
<1>20. ASSUME NEW t \in Tasks, Finish(t)
      PROVE  TypeOK'
  BY <1>20, TaskParts, GroupParts, BoundAssumption
    DEF Finish, End, TypeOK, Points
<1>21. ASSUME NEW t \in Tasks, NEW v \in todo[t], Pass(t, v)
      PROVE  TypeOK'
  BY <1>21, TaskParts, GroupParts, BoundAssumption
    DEF Pass, TypeOK, Points
<1>22. ASSUME NEW t \in Tasks, NEW v \in todo[t], NEW k \in Devices, PickMember(t, v, k)
      PROVE  TypeOK'
  BY <1>22, TaskParts, GroupParts, BoundAssumption
    DEF PickMember, TypeOK, Points
<1>23. ASSUME NEW t \in Tasks, AddFails(t)
      PROVE  TypeOK'
  BY <1>23, TaskParts, GroupParts, BoundAssumption
    DEF AddFails, NextMember, TypeOK, Points
<1>24. ASSUME NEW t \in Tasks, DropSession(t)
      PROVE  TypeOK'
  BY <1>24, TaskParts, GroupParts, BoundAssumption
    DEF DropSession, TypeOK, Points
<1>25. ASSUME NEW t \in Tasks, DropSnapshot(t)
      PROVE  TypeOK'
  BY <1>25, TaskParts, GroupParts, BoundAssumption
    DEF DropSnapshot, TypeOK, Points
<1>26. ASSUME NEW t \in Tasks, JoinWelcome(t)
      PROVE  TypeOK'
  BY <1>26, TaskParts, GroupParts, BoundAssumption
    DEF JoinWelcome, TypeOK, Points
<1>27. ASSUME NEW t \in Tasks, JoinFails(t)
      PROVE  TypeOK'
  BY <1>27, TaskParts, GroupParts, BoundAssumption
    DEF JoinFails, End, TypeOK, Points
<1>28. ASSUME NEW t \in Tasks, ClearPending(t)
      PROVE  TypeOK'
  BY <1>28, TaskParts, GroupParts, BoundAssumption
    DEF ClearPending, TypeOK, Points
<1>29. ASSUME NEW t \in Tasks, SaveJoined(t)
      PROVE  TypeOK'
  BY <1>29, TaskParts, GroupParts, BoundAssumption
    DEF SaveJoined, TypeOK, Points
<1>30. CASE UNCHANGED vars
  BY <1>30, <1>1 DEF vars
<1>31. ASSUME NEW t \in Tasks, SaveFails(t)
      PROVE  TypeOK'
  <2>1. Slot(t) \in Slots /\ live[Slot(t)] \in Group /\ who[t] \in Users /\ t[2] \in Channels
    BY TaskParts, <1>31 DEF TypeOK, AddInv, SaveFails, Adding
  <2>2. live[Slot(t)].gid \in 0..MaxGroups /\ live[Slot(t)].by \in Users \union {NoUser}
        /\ live[Slot(t)].roster \union {who[t]} \in SUBSET Users
    BY <2>1, GroupParts
  <2>3. Grp(live[Slot(t)].gid, live[Slot(t)].by, live[Slot(t)].roster \union {who[t]}) \in Group
    BY <2>2, GroupParts
  <2>4. failures' \in 0..MaxFailures /\ lost' \subseteq Users \X Channels /\ NoGroup \in Group
    BY <1>31, <2>1, BoundAssumption, GroupParts DEF SaveFails, Fault, TypeOK
  <2> QED
    BY <1>31, <2>1, <2>3, <2>4 DEF SaveFails, NextMember, TypeOK, Points, NoUser, NoDevice
<1>32. ASSUME NEW t \in Tasks, MemberFails(t)
      PROVE  TypeOK'
  BY <1>32, TaskParts, GroupParts, BoundAssumption
    DEF MemberFails, Fault, NextMember, TypeOK, Points
<1>33. ASSUME NEW t \in Tasks, WipeFails(t)
      PROVE  TypeOK'
  BY <1>33, TaskParts, GroupParts, BoundAssumption
    DEF WipeFails, Fault, TypeOK, Points
<1>34. ASSUME NEW t \in Tasks, CallFails(t)
      PROVE  TypeOK'
  BY <1>34, TaskParts, GroupParts, BoundAssumption
    DEF CallFails, Fault, End, TypeOK, Points
<1>35. ASSUME NEW t \in Tasks, NEW v \in todo[t], FetchFails(t, v)
      PROVE  TypeOK'
  BY <1>35, TaskParts, GroupParts, BoundAssumption
    DEF FetchFails, Fault, TypeOK, Points
<1> QED
  BY <1>1, <1>2, <1>3, <1>4, <1>5, <1>6, <1>7, <1>8, <1>9, <1>10, <1>11, <1>12, <1>13,
     <1>14, <1>15, <1>16, <1>17, <1>18, <1>19, <1>20, <1>21, <1>22, <1>23, <1>24, <1>25,
     <1>26, <1>27, <1>28, <1>29, <1>30, <1>31, <1>32, <1>33, <1>34, <1>35
     DEF Next, TaskStep, FailStep

\* A member is added to the open group and not to the snapshot.
LEMMA SaveStep ==
  ASSUME TypeOK, AddInv, NEW t \in Tasks, SaveFails(t)
  PROVE  /\ UNCHANGED <<members, published, welcomes, device, made, pendingKey, disk, ready,
                        attempted, logins, created, resets>>
         /\ \A j \in Tasks \ {t} : SameTask(j)
         /\ at[t] = "inspect" /\ t[3] = "boot" /\ who[t] \in Users \ {t[1]}
         /\ at'[t] = "pick" /\ todo'[t] = todo[t] /\ dev'[t] \in {dev[t], NoDevice}
         /\ held'[t] = NoGroup
         /\ live[Slot(t)] # NoGroup /\ Grown(t) \in Group
         /\ Grown(t).gid = live[Slot(t)].gid /\ Grown(t).by = live[Slot(t)].by
         /\ Grown(t).roster = live[Slot(t)].roster \union {who[t]}
         /\ live'[Slot(t)] = Grown(t) /\ \A s \in Slots : s # Slot(t) => live'[s] = live[s]
         /\ lost' = lost \union {<<who[t], t[2]>>}
<1>1. \A j \in Tasks \ {t} : SameTask(j)
  BY TaskFrame DEF FailStep
<1>2. at[t] = "inspect" /\ t[3] = "boot" /\ who[t] \in Users \ {t[1]}
  BY DEF SaveFails, AddInv, Adding
<1>3. at'[t] = "pick" /\ todo'[t] = todo[t] /\ dev'[t] \in {dev[t], NoDevice}
        /\ held'[t] = NoGroup
  BY TaskTypes DEF SaveFails, NextMember
<1>4. Slot(t) \in Slots /\ live[Slot(t)] \in Group
  BY TaskParts, DataTypes
<1>5. /\ Grown(t).gid = live[Slot(t)].gid /\ Grown(t).by = live[Slot(t)].by
      /\ Grown(t).roster = live[Slot(t)].roster \union {who[t]}
  BY GroupParts DEF Grown
<1>6. Grown(t) \in Group
  BY <1>2, <1>4, GroupParts DEF Grown
<1>7. live'[Slot(t)] = Grown(t) /\ \A s \in Slots : s # Slot(t) => live'[s] = live[s]
  BY <1>4, DataTypes DEF SaveFails, Grown
<1> QED
  BY <1>1, <1>2, <1>3, <1>5, <1>6, <1>7 DEF SaveFails

\* A login registers one device.
LEMMA LoginStep ==
  ASSUME TypeOK, LoginInv, [Next]_vars
  PROVE  LoginInv'
<1>1. CASE UNCHANGED <<device, logins>>
  BY <1>1 DEF LoginInv
<1>2. ASSUME NEW u \in Users,
             JoinGuild(u) \/ MakeKey(u) \/ PublishKey(u)
      PROVE  LoginInv'
  BY <1>2, <1>1
     DEF JoinGuild, MakeKey, PublishKey
<1>3. ASSUME NEW u \in Users, NEW c \in Channels,
             StartSync(u, c) \/ StartRestore(u, c) \/ ForceResync(u, c)
      PROVE  LoginInv'
  BY <1>3, <1>1
     DEF StartSync, StartRestore, ForceResync
<1>4. ASSUME NEW u \in Users, NEW c \in Channels, NEW v \in members \union {NoUser},
             NEW d \in Devices \union {NoDevice}, StartBoot(u, c, v, d)
      PROVE  LoginInv'
  BY <1>4, <1>1
     DEF StartBoot
<1>5. ASSUME NEW t \in Tasks,
             Look(t) \/ Create(t) \/ Insert(t) \/ Mark(t) \/ List(t) \/ Finish(t)
             \/ (\E v \in todo[t] : Pass(t, v))
             \/ (\E v \in todo[t], k \in Devices : PickMember(t, v, k))
             \/ InspectAndAdd(t) \/ AddFails(t) \/ StoreWelcome(t) \/ Recover(t)
             \/ DropSession(t) \/ DropSnapshot(t) \/ Unmark(t) \/ JoinWelcome(t)
             \/ JoinFails(t) \/ ClearPending(t) \/ SaveJoined(t) \/ PostFails(t)
      PROVE  LoginInv'
  BY <1>5, <1>1
     DEF Look, Create, Insert, Mark, List, Finish, Pass, PickMember, InspectAndAdd,
         AddFails, StoreWelcome, Recover, DropSession, DropSnapshot, Unmark, JoinWelcome,
         JoinFails, ClearPending, SaveJoined, PostFails
<1>6. ASSUME NEW u \in Users, Login(u)
      PROVE  LoginInv'
  BY <1>6, BoundAssumption DEF Login, LoginInv, TypeOK, Devices
<1>7. CASE UNCHANGED vars
  BY <1>7, <1>1 DEF vars
<1>8. ASSUME NEW t \in Tasks, Drops(t)
      PROVE  LoginInv'
  BY <1>8, <1>1, DropStep
<1>9. ASSUME NEW t \in Tasks, SaveFails(t)
      PROVE  LoginInv'
  BY <1>9, <1>1 DEF SaveFails
<1> QED
  BY <1>1, <1>2, <1>3, <1>4, <1>5, <1>6, <1>7, <1>8, <1>9
     DEF Next, TaskStep, FailStep, Drops

\* A bootstrap picks a member before it adds it.
LEMMA AddStep ==
  ASSUME TypeOK, AddInv, [Next]_vars
  PROVE  AddInv'
<1>1. CASE UNCHANGED <<at, todo, who, dev>>
  BY <1>1 DEF AddInv
<1>2. ASSUME NEW u \in Users,
             JoinGuild(u) \/ MakeKey(u) \/ PublishKey(u)
      PROVE  AddInv'
  BY <1>2, <1>1
     DEF JoinGuild, MakeKey, PublishKey
<1>3. ASSUME NEW u \in Users, NEW c \in Channels, ForceResync(u, c)
      PROVE  AddInv'
  BY <1>3, <1>1
     DEF ForceResync
<1>4. ASSUME NEW u \in Users, NEW c \in Channels, StartSync(u, c)
      PROVE  AddInv'
  <2> DEFINE t == <<u, c, "sync">>
  <2>1. t \in Tasks
    BY TaskParts DEF Kinds
  <2>2. at'[t] \in {"look", "join"} /\ \A j \in Tasks \ {t} : at'[j] = at[j]
    BY <1>4, <2>1 DEF StartSync, TypeOK
  <2>3. UNCHANGED <<todo, who, dev>>
    BY <1>4 DEF StartSync
  <2> QED
    BY <2>2, <2>3 DEF AddInv, Adding
<1>5. ASSUME NEW u \in Users, Login(u)
      PROVE  AddInv'
  BY <1>5, TaskTypes, TaskParts, UserAssumption, BoundAssumption
     DEF Login, TypeOK, NoUser, NoDevice, Adding, AddInv
<1>6. ASSUME NEW u \in Users, NEW c \in Channels, StartRestore(u, c)
      PROVE  AddInv'
  BY <1>6, TaskTypes, TaskParts, UserAssumption, BoundAssumption
     DEF StartRestore, CanStart, NoUser, NoDevice, Adding, AddInv
<1>7. ASSUME NEW u \in Users, NEW c \in Channels, NEW v \in members \union {NoUser},
             NEW d \in Devices \union {NoDevice}, StartBoot(u, c, v, d)
      PROVE  AddInv'
  BY <1>7, TaskTypes, TaskParts, UserAssumption, BoundAssumption
     DEF StartBoot, CanStart, NoUser, NoDevice, Adding, AddInv
<1>8. ASSUME NEW t \in Tasks, Look(t)
      PROVE  AddInv'
  BY <1>8, TaskTypes, TaskParts, UserAssumption, BoundAssumption
     DEF Look, NoUser, NoDevice, Adding, AddInv
<1>9. ASSUME NEW t \in Tasks, Create(t)
      PROVE  AddInv'
  BY <1>9, TaskTypes, TaskParts, UserAssumption, BoundAssumption
     DEF Create, NoUser, NoDevice, Adding, AddInv
<1>10. ASSUME NEW t \in Tasks, Insert(t)
      PROVE  AddInv'
  BY <1>10, TaskTypes, TaskParts, UserAssumption, BoundAssumption
     DEF Insert, NoUser, NoDevice, Adding, AddInv
<1>11. ASSUME NEW t \in Tasks, Mark(t)
      PROVE  AddInv'
  BY <1>11, TaskTypes, TaskParts, UserAssumption, BoundAssumption
     DEF Mark, End, NoUser, NoDevice, Adding, AddInv
<1>12. ASSUME NEW t \in Tasks, List(t)
      PROVE  AddInv'
  BY <1>12, TaskTypes, TaskParts, UserAssumption, BoundAssumption
     DEF List, TypeOK, NoUser, NoDevice, Adding, AddInv
<1>13. ASSUME NEW t \in Tasks, Finish(t)
      PROVE  AddInv'
  BY <1>13, TaskTypes, TaskParts, UserAssumption, BoundAssumption
     DEF Finish, End, NoUser, NoDevice, Adding, AddInv
<1>14. ASSUME NEW t \in Tasks, NEW v \in todo[t], Pass(t, v)
      PROVE  AddInv'
  BY <1>14, TaskTypes, TaskParts, UserAssumption, BoundAssumption
     DEF Pass, NoUser, NoDevice, Adding, AddInv
<1>15. ASSUME NEW t \in Tasks, NEW v \in todo[t], NEW k \in Devices, PickMember(t, v, k)
      PROVE  AddInv'
  BY <1>15, TaskTypes, TaskParts, UserAssumption, BoundAssumption
     DEF PickMember, KeyFor, NoUser, NoDevice, Adding, AddInv
<1>16. ASSUME NEW t \in Tasks, InspectAndAdd(t)
      PROVE  AddInv'
  BY <1>16, TaskTypes, TaskParts, UserAssumption, BoundAssumption
     DEF InspectAndAdd, NoUser, NoDevice, Adding, AddInv
<1>17. ASSUME NEW t \in Tasks, AddFails(t)
      PROVE  AddInv'
  BY <1>17, TaskTypes, TaskParts, UserAssumption, BoundAssumption
     DEF AddFails, NextMember, NoUser, NoDevice, Adding, AddInv
<1>18. ASSUME NEW t \in Tasks, StoreWelcome(t)
      PROVE  AddInv'
  BY <1>18, TaskTypes, TaskParts, UserAssumption, BoundAssumption
     DEF StoreWelcome, NextMember, NoUser, NoDevice, Adding, AddInv
<1>19. ASSUME NEW t \in Tasks, Recover(t)
      PROVE  AddInv'
  BY <1>19, TaskTypes, TaskParts, UserAssumption, BoundAssumption
     DEF Recover, NextMember, NoUser, NoDevice, Adding, AddInv
<1>20. ASSUME NEW t \in Tasks, DropSession(t)
      PROVE  AddInv'
  BY <1>20, TaskTypes, TaskParts, UserAssumption, BoundAssumption
     DEF DropSession, NoUser, NoDevice, Adding, AddInv
<1>21. ASSUME NEW t \in Tasks, DropSnapshot(t)
      PROVE  AddInv'
  BY <1>21, TaskTypes, TaskParts, UserAssumption, BoundAssumption
     DEF DropSnapshot, NoUser, NoDevice, Adding, AddInv
<1>22. ASSUME NEW t \in Tasks, Unmark(t)
      PROVE  AddInv'
  BY <1>22, TaskTypes, TaskParts, UserAssumption, BoundAssumption
     DEF Unmark, NextMember, NoUser, NoDevice, Adding, AddInv
<1>23. ASSUME NEW t \in Tasks, JoinWelcome(t)
      PROVE  AddInv'
  BY <1>23, TaskTypes, TaskParts, UserAssumption, BoundAssumption
     DEF JoinWelcome, NoUser, NoDevice, Adding, AddInv
<1>24. ASSUME NEW t \in Tasks, JoinFails(t)
      PROVE  AddInv'
  BY <1>24, TaskTypes, TaskParts, UserAssumption, BoundAssumption
     DEF JoinFails, End, NoUser, NoDevice, Adding, AddInv
<1>25. ASSUME NEW t \in Tasks, ClearPending(t)
      PROVE  AddInv'
  BY <1>25, TaskTypes, TaskParts, UserAssumption, BoundAssumption
     DEF ClearPending, NoUser, NoDevice, Adding, AddInv
<1>26. ASSUME NEW t \in Tasks, SaveJoined(t)
      PROVE  AddInv'
  BY <1>26, TaskTypes, TaskParts, UserAssumption, BoundAssumption
     DEF SaveJoined, NoUser, NoDevice, Adding, AddInv
<1>27. ASSUME NEW t \in Tasks, PostFails(t)
      PROVE  AddInv'
  BY <1>27, TaskTypes, TaskParts, UserAssumption, BoundAssumption
     DEF PostFails, NextMember, NoUser, NoDevice, Adding, AddInv
<1>28. CASE UNCHANGED vars
  BY <1>28, <1>1 DEF vars
<1>29. ASSUME NEW t \in Tasks, Drops(t)
      PROVE  AddInv'
  BY <1>29, DropStep, UserAssumption DEF AddInv, Adding, SameTask
<1>30. ASSUME NEW t \in Tasks, SaveFails(t)
      PROVE  AddInv'
  BY <1>30, SaveStep DEF AddInv, Adding, SameTask
<1> QED
  BY <1>1, <1>2, <1>3, <1>4, <1>5, <1>6, <1>7, <1>8, <1>9, <1>10, <1>11, <1>12, <1>13,
     <1>14, <1>15, <1>16, <1>17, <1>18, <1>19, <1>20, <1>21, <1>22, <1>23, <1>24, <1>25,
     <1>26, <1>27, <1>28, <1>29, <1>30
     DEF Next, TaskStep, FailStep, Drops

\* A client takes a group it founded, saved or was welcomed to.
LEMMA HolderStep ==
  ASSUME TypeOK, AddInv, RosterInv, HolderIsOnRoster, [Next]_vars
  PROVE  HolderIsOnRoster'
<1>1. CASE UNCHANGED <<live, disk>>
  BY <1>1 DEF HolderIsOnRoster
<1>2. ASSUME NEW u \in Users,
             JoinGuild(u) \/ MakeKey(u) \/ PublishKey(u)
      PROVE  HolderIsOnRoster'
  BY <1>2, <1>1
     DEF JoinGuild, MakeKey, PublishKey
<1>3. ASSUME NEW u \in Users, NEW c \in Channels,
             StartSync(u, c) \/ StartRestore(u, c) \/ ForceResync(u, c)
      PROVE  HolderIsOnRoster'
  BY <1>3, <1>1
     DEF StartSync, StartRestore, ForceResync
<1>4. ASSUME NEW u \in Users, NEW c \in Channels, NEW v \in members \union {NoUser},
             NEW d \in Devices \union {NoDevice}, StartBoot(u, c, v, d)
      PROVE  HolderIsOnRoster'
  BY <1>4, <1>1
     DEF StartBoot
<1>5. ASSUME NEW t \in Tasks,
             Look(t) \/ Mark(t) \/ List(t) \/ Finish(t)
             \/ (\E v \in todo[t] : Pass(t, v))
             \/ (\E v \in todo[t], k \in Devices : PickMember(t, v, k)) \/ AddFails(t)
             \/ StoreWelcome(t) \/ Recover(t) \/ Unmark(t) \/ JoinWelcome(t)
             \/ JoinFails(t) \/ ClearPending(t) \/ PostFails(t)
      PROVE  HolderIsOnRoster'
  BY <1>5, <1>1
     DEF Look, Mark, List, Finish, Pass, PickMember, AddFails, StoreWelcome, Recover,
         Unmark, JoinWelcome, JoinFails, ClearPending, PostFails
<1>6. ASSUME NEW u \in Users, Login(u)
      PROVE  HolderIsOnRoster'
  BY <1>6, TaskParts, GroupParts, DataTypes
    DEF Login, HolderIsOnRoster, RosterInv, HeldInv, HeldOK, Joining
<1>7. ASSUME NEW t \in Tasks, Create(t)
      PROVE  HolderIsOnRoster'
  BY <1>7, TaskParts, GroupParts, DataTypes
    DEF Create, HolderIsOnRoster, RosterInv, HeldInv, HeldOK, Joining
<1>8. ASSUME NEW t \in Tasks, Insert(t)
      PROVE  HolderIsOnRoster'
  BY <1>8, TaskParts, GroupParts, DataTypes
    DEF Insert, HolderIsOnRoster, RosterInv, HeldInv, HeldOK, Joining
<1>9. ASSUME NEW t \in Tasks, InspectAndAdd(t)
      PROVE  HolderIsOnRoster'
  BY <1>9, TaskParts, GroupParts, DataTypes
    DEF InspectAndAdd, HolderIsOnRoster, RosterInv, HeldInv, HeldOK, Joining
<1>10. ASSUME NEW t \in Tasks, DropSession(t)
      PROVE  HolderIsOnRoster'
  BY <1>10, TaskParts, GroupParts, DataTypes
    DEF DropSession, HolderIsOnRoster, RosterInv, HeldInv, HeldOK, Joining
<1>11. ASSUME NEW t \in Tasks, DropSnapshot(t)
      PROVE  HolderIsOnRoster'
  BY <1>11, TaskParts, GroupParts, DataTypes
    DEF DropSnapshot, HolderIsOnRoster, RosterInv, HeldInv, HeldOK, Joining
<1>12. ASSUME NEW t \in Tasks, SaveJoined(t)
      PROVE  HolderIsOnRoster'
  BY <1>12, TaskParts, GroupParts, DataTypes
    DEF SaveJoined, HolderIsOnRoster, RosterInv, HeldInv, HeldOK, Joining
<1>13. CASE UNCHANGED vars
  BY <1>13, <1>1 DEF vars
<1>14. ASSUME NEW t \in Tasks, Drops(t)
      PROVE  HolderIsOnRoster'
  BY <1>14, <1>1, DropStep
<1>15. ASSUME NEW t \in Tasks, SaveFails(t)
      PROVE  HolderIsOnRoster'
  <2>1. t[1] \in live'[Slot(t)].roster /\ Slot(t)[1] = t[1] /\ Slot(t) \in Slots
    BY <1>15, SaveStep, TaskParts DEF HolderIsOnRoster
  <2> QED
    BY <1>15, <2>1, SaveStep DEF HolderIsOnRoster
<1> QED
  BY <1>1, <1>2, <1>3, <1>4, <1>5, <1>6, <1>7, <1>8, <1>9, <1>10, <1>11, <1>12, <1>13, <1>14,
     <1>15
     DEF Next, TaskStep, FailStep, Drops

\* A welcome is made of the group that has just taken its receiver in.
LEMMA WelcomeStep ==
  ASSUME TypeOK, AddInv, RosterInv, [Next]_vars
  PROVE  WelcomeInv'
<1>1. CASE UNCHANGED <<welcomes>>
  BY <1>1 DEF RosterInv, WelcomeInv
<1>2. ASSUME NEW u \in Users,
             JoinGuild(u) \/ Login(u) \/ MakeKey(u) \/ PublishKey(u)
      PROVE  WelcomeInv'
  BY <1>2, <1>1
     DEF JoinGuild, Login, MakeKey, PublishKey
<1>3. ASSUME NEW u \in Users, NEW c \in Channels,
             StartSync(u, c) \/ StartRestore(u, c) \/ ForceResync(u, c)
      PROVE  WelcomeInv'
  BY <1>3, <1>1
     DEF StartSync, StartRestore, ForceResync
<1>4. ASSUME NEW u \in Users, NEW c \in Channels, NEW v \in members \union {NoUser},
             NEW d \in Devices \union {NoDevice}, StartBoot(u, c, v, d)
      PROVE  WelcomeInv'
  BY <1>4, <1>1
     DEF StartBoot
<1>5. ASSUME NEW t \in Tasks,
             Look(t) \/ Create(t) \/ Insert(t) \/ Mark(t) \/ List(t) \/ Finish(t)
             \/ (\E v \in todo[t] : Pass(t, v))
             \/ (\E v \in todo[t], k \in Devices : PickMember(t, v, k))
             \/ InspectAndAdd(t) \/ AddFails(t) \/ Recover(t) \/ DropSession(t)
             \/ DropSnapshot(t) \/ Unmark(t) \/ JoinWelcome(t) \/ JoinFails(t)
             \/ ClearPending(t) \/ SaveJoined(t)
      PROVE  WelcomeInv'
  BY <1>5, <1>1
     DEF Look, Create, Insert, Mark, List, Finish, Pass, PickMember, InspectAndAdd,
         AddFails, Recover, DropSession, DropSnapshot, Unmark, JoinWelcome, JoinFails,
         ClearPending, SaveJoined
<1>6. ASSUME NEW t \in Tasks, StoreWelcome(t)
      PROVE  WelcomeInv'
  <2>1. at[t] = "post" /\ <<who[t], t[2], dev[t]>> \in Users \X Channels \X Devices
    BY <1>6, TaskParts DEF StoreWelcome, AddInv, Adding
  <2>2. who[t] \in held[t].roster
    BY <2>1 DEF RosterInv, HeldInv, HeldOK
  <2>3. welcomes \in [Users \X Channels \X Devices -> Group]
    BY DEF TypeOK
  <2>4. \A w \in Users \X Channels \X Devices :
          welcomes'[w] \in {welcomes[w], IF w = <<who[t], t[2],
            dev[t]>> THEN held[t] ELSE NoGroup}
    BY <1>6, <2>1, <2>3 DEF StoreWelcome
  <2> QED
    BY <2>1, <2>2, <2>4 DEF RosterInv, WelcomeInv
<1>7. ASSUME NEW t \in Tasks, PostFails(t)
      PROVE  WelcomeInv'
  <2>1. at[t] = "post" /\ <<who[t], t[2], dev[t]>> \in Users \X Channels \X Devices
    BY <1>7, TaskParts DEF PostFails, AddInv, Adding
  <2>2. who[t] \in held[t].roster
    BY <2>1 DEF RosterInv, HeldInv, HeldOK
  <2>3. welcomes \in [Users \X Channels \X Devices -> Group]
    BY DEF TypeOK
  <2>4. \A w \in Users \X Channels \X Devices :
          welcomes'[w] \in {welcomes[w], IF w = <<who[t], t[2],
            dev[t]>> THEN held[t] ELSE NoGroup}
    BY <1>7, <2>1, <2>3 DEF PostFails
  <2> QED
    BY <2>1, <2>2, <2>4 DEF RosterInv, WelcomeInv
<1>8. CASE UNCHANGED vars
  BY <1>8, <1>1 DEF vars
<1>9. ASSUME NEW t \in Tasks, Drops(t)
      PROVE  WelcomeInv'
  BY <1>9, <1>1, DropStep
<1>10. ASSUME NEW t \in Tasks, SaveFails(t)
      PROVE  WelcomeInv'
  BY <1>10, <1>1 DEF SaveFails
<1> QED
  BY <1>1, <1>2, <1>3, <1>4, <1>5, <1>6, <1>7, <1>8, <1>9, <1>10
     DEF Next, TaskStep, FailStep, Drops

\* What a task has in hand lists the member it is for.
LEMMA HeldStep ==
  ASSUME TypeOK, AddInv, RosterInv, HolderIsOnRoster, [Next]_vars
  PROVE  HeldInv'
<1>1. CASE UNCHANGED <<at, who, held>>
  BY <1>1 DEF RosterInv, HeldInv, HeldOK
<1>2. ASSUME NEW u \in Users,
             JoinGuild(u) \/ MakeKey(u) \/ PublishKey(u)
      PROVE  HeldInv'
  BY <1>2, <1>1
     DEF JoinGuild, MakeKey, PublishKey
<1>3. ASSUME NEW u \in Users, NEW c \in Channels, ForceResync(u, c)
      PROVE  HeldInv'
  BY <1>3, <1>1
     DEF ForceResync
<1>4. ASSUME NEW t \in Tasks, (\E v \in todo[t] : Pass(t, v))
      PROVE  HeldInv'
  BY <1>4, <1>1
     DEF Pass
<1>5. ASSUME NEW u \in Users, Login(u)
      PROVE  HeldInv'
  BY <1>5 DEF Login, RosterInv, HeldInv, HeldOK, Joining, NoGroup
<1>6. ASSUME NEW u \in Users, NEW c \in Channels, StartSync(u, c)
      PROVE  HeldInv'
  <2> DEFINE t == <<u, c, "sync">>
  <2>1. t \in Tasks /\ t[1] = u
    BY TaskParts DEF Kinds
  <2>2. device[u] \in Devices
    BY DEF TypeOK
  <2>3. CASE at' = [at EXCEPT ![t] = "look"] /\ held' = held
    BY <1>6, <2>1, <2>3, TaskTypes
       DEF StartSync, CanStart, RosterInv, HeldInv, HeldOK, Joining
  <2>4. CASE /\ welcomes[<<u, c, device[u]>>] # NoGroup
             /\ at' = [at EXCEPT ![t] = "join"]
             /\ held' = [held EXCEPT ![t] = welcomes[<<u, c, device[u]>>]]
    BY <1>6, <2>1, <2>2, <2>4, TaskTypes
       DEF StartSync, CanStart, RosterInv, WelcomeInv, HeldInv, HeldOK, Joining
  <2> QED
    BY <1>6, <2>3, <2>4 DEF StartSync
<1>7. ASSUME NEW u \in Users, NEW c \in Channels, StartRestore(u, c)
      PROVE  HeldInv'
  BY <1>7, TaskTypes DEF StartRestore, CanStart, RosterInv, HeldInv, HeldOK, Joining
<1>8. ASSUME NEW u \in Users, NEW c \in Channels, NEW v \in members \union {NoUser},
             NEW d \in Devices \union {NoDevice}, StartBoot(u, c, v, d)
      PROVE  HeldInv'
  BY <1>8, TaskTypes DEF StartBoot, CanStart, RosterInv, HeldInv, HeldOK, Joining
<1>9. ASSUME NEW t \in Tasks, Look(t)
      PROVE  HeldInv'
  <2>1. at[t] = "look" /\ Slot(t) \in Slots /\ Slot(t)[1] = t[1]
    BY <1>9, TaskParts DEF Look
  <2>2. disk[Slot(t)] # NoGroup => t[1] \in disk[Slot(t)].roster
    BY <2>1 DEF HolderIsOnRoster
  <2>3. HeldOK(t)'
    BY <1>9, <2>2, TaskTypes DEF Look, HeldOK, Joining
  <2> QED
    BY <1>9, <2>3, TaskFrame DEF RosterInv, HeldInv, HeldOK, SameTask, TaskStep
<1>10. ASSUME NEW t \in Tasks, Create(t)
      PROVE  HeldInv'
  <2>1. HeldOK(t)'
    BY <1>10, TaskTypes, GroupParts DEF Create, HeldOK, Joining
  <2> QED
    BY <1>10, <2>1, TaskFrame DEF RosterInv, HeldInv, HeldOK, SameTask, TaskStep
<1>11. ASSUME NEW t \in Tasks, InspectAndAdd(t)
      PROVE  HeldInv'
  <2>1. CASE who[t] \in live[Slot(t)].roster
    BY <1>11, <2>1, TaskTypes DEF InspectAndAdd, RosterInv, HeldInv, HeldOK, Joining
  <2>2. CASE who[t] \notin live[Slot(t)].roster
    <3>1. who[t] \in held'[t].roster /\ at'[t] = "post"
      BY <1>11, <2>2, TaskTypes, GroupParts DEF InspectAndAdd
    <3>2. who'[t] = who[t]
      BY <1>11 DEF InspectAndAdd
    <3>3. HeldOK(t)'
      BY <3>1, <3>2 DEF HeldOK, Joining
    <3> QED
      BY <1>11, <3>3, TaskFrame DEF RosterInv, HeldInv, HeldOK, SameTask, TaskStep
  <2> QED
    BY <2>1, <2>2
<1>12. ASSUME NEW t \in Tasks,
             Insert(t) \/ Mark(t) \/ List(t) \/ Finish(t)
             \/ (\E v \in todo[t], k \in Devices : PickMember(t, v, k)) \/ AddFails(t)
             \/ StoreWelcome(t) \/ Recover(t) \/ DropSession(t) \/ DropSnapshot(t)
             \/ Unmark(t) \/ JoinWelcome(t) \/ JoinFails(t) \/ ClearPending(t)
             \/ SaveJoined(t) \/ PostFails(t)
      PROVE  HeldInv'
  <2>1. HeldOK(t)'
    BY <1>12, TaskTypes
      DEF Insert, Mark, List, Finish, PickMember, AddFails, StoreWelcome, Recover,
        DropSession, DropSnapshot, Unmark, JoinWelcome, JoinFails, ClearPending,
        SaveJoined, PostFails, End, NextMember, HeldOK, RosterInv, HeldInv, Joining
  <2> QED
    BY <1>12, <2>1, TaskFrame DEF RosterInv, HeldInv, HeldOK, SameTask, TaskStep, FailStep
<1>13. CASE UNCHANGED vars
  BY <1>13, <1>1 DEF vars
<1>14. ASSUME NEW t \in Tasks, Drops(t)
      PROVE  HeldInv'
  BY <1>14, DropStep DEF RosterInv, HeldInv, HeldOK, Joining, SameTask
<1>15. ASSUME NEW t \in Tasks, SaveFails(t)
      PROVE  HeldInv'
  BY <1>15, SaveStep DEF RosterInv, HeldInv, HeldOK, Joining, SameTask
<1> QED
  BY <1>1, <1>2, <1>3, <1>4, <1>5, <1>6, <1>7, <1>8, <1>9, <1>10, <1>11, <1>12, <1>13, <1>14,
     <1>15
     DEF Next, TaskStep, FailStep, Drops

\* The server takes no welcome back.
LEMMA WelcomesStay ==
  ASSUME TypeOK, AddInv, RosterInv, [Next]_vars
  PROVE  \A m \in Users, h \in Channels : HasWelcome(m, h) => HasWelcome(m, h)'
<1>1. CASE UNCHANGED <<welcomes>>
  BY <1>1 DEF HasWelcome
<1>2. ASSUME NEW u \in Users,
             JoinGuild(u) \/ Login(u) \/ MakeKey(u) \/ PublishKey(u)
      PROVE  \A m \in Users, h \in Channels : HasWelcome(m, h) => HasWelcome(m, h)'
  BY <1>2, <1>1
     DEF JoinGuild, Login, MakeKey, PublishKey
<1>3. ASSUME NEW u \in Users, NEW c \in Channels,
             StartSync(u, c) \/ StartRestore(u, c) \/ ForceResync(u, c)
      PROVE  \A m \in Users, h \in Channels : HasWelcome(m, h) => HasWelcome(m, h)'
  BY <1>3, <1>1
     DEF StartSync, StartRestore, ForceResync
<1>4. ASSUME NEW u \in Users, NEW c \in Channels, NEW v \in members \union {NoUser},
             NEW d \in Devices \union {NoDevice}, StartBoot(u, c, v, d)
      PROVE  \A m \in Users, h \in Channels : HasWelcome(m, h) => HasWelcome(m, h)'
  BY <1>4, <1>1
     DEF StartBoot
<1>5. ASSUME NEW t \in Tasks,
             Look(t) \/ Create(t) \/ Insert(t) \/ Mark(t) \/ List(t) \/ Finish(t)
             \/ (\E v \in todo[t] : Pass(t, v))
             \/ (\E v \in todo[t], k \in Devices : PickMember(t, v, k))
             \/ InspectAndAdd(t) \/ AddFails(t) \/ Recover(t) \/ DropSession(t)
             \/ DropSnapshot(t) \/ Unmark(t) \/ JoinWelcome(t) \/ JoinFails(t)
             \/ ClearPending(t) \/ SaveJoined(t)
      PROVE  \A m \in Users, h \in Channels : HasWelcome(m, h) => HasWelcome(m, h)'
  BY <1>5, <1>1
     DEF Look, Create, Insert, Mark, List, Finish, Pass, PickMember, InspectAndAdd,
         AddFails, Recover, DropSession, DropSnapshot, Unmark, JoinWelcome, JoinFails,
         ClearPending, SaveJoined
<1>6. ASSUME NEW t \in Tasks, StoreWelcome(t)
      PROVE  \A m \in Users, h \in Channels : HasWelcome(m, h) => HasWelcome(m, h)'
  <2>1. at[t] = "post" /\ <<who[t], t[2], dev[t]>> \in Users \X Channels \X Devices
    BY <1>6, TaskParts DEF StoreWelcome, AddInv, Adding
  <2>2. who[t] \in held[t].roster
    BY <2>1 DEF RosterInv, HeldInv, HeldOK
  <2>3. welcomes \in [Users \X Channels \X Devices -> Group]
    BY DEF TypeOK
  <2>4. \A w \in Users \X Channels \X Devices :
          welcomes'[w] \in {welcomes[w], IF w = <<who[t], t[2],
            dev[t]>> THEN held[t] ELSE NoGroup}
    BY <1>6, <2>1, <2>3 DEF StoreWelcome
  <2>5. held[t] # NoGroup /\ \A w \in Users \X Channels \X Devices : welcomes[w] # NoGroup
          => welcomes'[w] # NoGroup
    BY <2>2, <2>3, <2>4, <1>6, GroupParts DEF StoreWelcome
  <2> QED
    BY <2>5 DEF HasWelcome
<1>7. ASSUME NEW t \in Tasks, PostFails(t)
      PROVE  \A m \in Users, h \in Channels : HasWelcome(m, h) => HasWelcome(m, h)'
  <2>1. at[t] = "post" /\ <<who[t], t[2], dev[t]>> \in Users \X Channels \X Devices
    BY <1>7, TaskParts DEF PostFails, AddInv, Adding
  <2>2. who[t] \in held[t].roster
    BY <2>1 DEF RosterInv, HeldInv, HeldOK
  <2>3. welcomes \in [Users \X Channels \X Devices -> Group]
    BY DEF TypeOK
  <2>4. \A w \in Users \X Channels \X Devices :
          welcomes'[w] \in {welcomes[w], IF w = <<who[t], t[2],
            dev[t]>> THEN held[t] ELSE NoGroup}
    BY <1>7, <2>1, <2>3 DEF PostFails
  <2>5. held[t] # NoGroup /\ \A w \in Users \X Channels \X Devices : welcomes[w] # NoGroup
          => welcomes'[w] # NoGroup
    BY <2>2, <2>3, <2>4, <1>7, GroupParts DEF PostFails
  <2> QED
    BY <2>5 DEF HasWelcome
<1>8. CASE UNCHANGED vars
  BY <1>8, <1>1 DEF vars
<1>9. ASSUME NEW t \in Tasks, Drops(t)
      PROVE  \A m \in Users, h \in Channels : HasWelcome(m, h) => HasWelcome(m, h)'
  BY <1>9, <1>1, DropStep
<1>10. ASSUME NEW t \in Tasks, SaveFails(t)
      PROVE  \A m \in Users, h \in Channels : HasWelcome(m, h) => HasWelcome(m, h)'
  BY <1>10, <1>1 DEF SaveFails
<1> QED
  BY <1>1, <1>2, <1>3, <1>4, <1>5, <1>6, <1>7, <1>8, <1>9, <1>10
     DEF Next, TaskStep, FailStep, Drops

\* A member is remembered after its welcome was stored.
LEMMA AttemptedStep ==
  ASSUME TypeOK, AddInv, RosterInv, AttemptedHasWelcome, [Next]_vars
  PROVE  AttemptedHasWelcome'
<1>1. CASE UNCHANGED <<attempted>>
  BY <1>1, WelcomesStay DEF AttemptedHasWelcome
<1>2. ASSUME NEW u \in Users,
             JoinGuild(u) \/ MakeKey(u) \/ PublishKey(u)
      PROVE  AttemptedHasWelcome'
  BY <1>2, <1>1
     DEF JoinGuild, MakeKey, PublishKey
<1>3. ASSUME NEW u \in Users, NEW c \in Channels,
             StartSync(u, c) \/ StartRestore(u, c) \/ ForceResync(u, c)
      PROVE  AttemptedHasWelcome'
  BY <1>3, <1>1
     DEF StartSync, StartRestore, ForceResync
<1>4. ASSUME NEW u \in Users, NEW c \in Channels, NEW v \in members \union {NoUser},
             NEW d \in Devices \union {NoDevice}, StartBoot(u, c, v, d)
      PROVE  AttemptedHasWelcome'
  BY <1>4, <1>1
     DEF StartBoot
<1>5. ASSUME NEW t \in Tasks,
             Look(t) \/ Create(t) \/ Insert(t) \/ Mark(t) \/ List(t) \/ Finish(t)
             \/ (\E v \in todo[t] : Pass(t, v))
             \/ (\E v \in todo[t], k \in Devices : PickMember(t, v, k))
             \/ InspectAndAdd(t) \/ AddFails(t) \/ DropSession(t) \/ DropSnapshot(t)
             \/ JoinWelcome(t) \/ JoinFails(t) \/ ClearPending(t) \/ SaveJoined(t)
             \/ PostFails(t)
      PROVE  AttemptedHasWelcome'
  BY <1>5, <1>1
     DEF Look, Create, Insert, Mark, List, Finish, Pass, PickMember, InspectAndAdd,
         AddFails, DropSession, DropSnapshot, JoinWelcome, JoinFails, ClearPending,
         SaveJoined, PostFails
<1>6. ASSUME NEW u \in Users, Login(u)
      PROVE  AttemptedHasWelcome'
  BY <1>6, WelcomesStay DEF Login, AttemptedHasWelcome, TypeOK
<1>7. ASSUME NEW t \in Tasks, StoreWelcome(t)
      PROVE  AttemptedHasWelcome'
  <2>1. who[t] \in Users /\ dev[t] \in Devices /\ t[1] \in Users /\ t[2] \in Channels
          /\ at[t] = "post"
    BY <1>7, TaskParts DEF StoreWelcome, AddInv, Adding
  <2>2. held[t] # NoGroup
    BY <2>1, GroupParts DEF RosterInv, HeldInv, HeldOK
  <2>3. welcomes \in [Users \X Channels \X Devices -> Group]
    BY DEF TypeOK
  <2>4. \A v \in Users : v = who[t] => HasWelcome(v, t[2])'
    BY <1>7, <2>1, <2>2, <2>3 DEF StoreWelcome, HasWelcome
  <2>5. \A u \in Users : attempted'[u] \subseteq attempted[u] \union {<<t[2], who[t]>>}
    BY <1>7 DEF StoreWelcome, TypeOK
  <2> QED
    BY <2>1, <2>4, <2>5, WelcomesStay DEF AttemptedHasWelcome
<1>8. ASSUME NEW t \in Tasks, Recover(t)
      PROVE  AttemptedHasWelcome'
  <2>1. who[t] \in Users /\ dev[t] \in Devices /\ t[1] \in Users /\ t[2] \in Channels
    BY <1>8, TaskParts DEF Recover, AddInv, Adding
  <2>2. HasWelcome(who[t], t[2])
    BY <1>8, <2>1 DEF Recover, HasWelcome
  <2>3. \A u \in Users : attempted'[u] \subseteq attempted[u] \union {<<t[2], who[t]>>}
    BY <1>8 DEF Recover, TypeOK
  <2> QED
    BY <2>1, <2>2, <2>3, WelcomesStay DEF AttemptedHasWelcome
<1>9. ASSUME NEW t \in Tasks, Unmark(t)
      PROVE  AttemptedHasWelcome'
  <2>1. \A u \in Users : attempted'[u] \subseteq attempted[u]
    BY <1>9 DEF Unmark, TypeOK
  <2> QED
    BY <2>1, WelcomesStay DEF AttemptedHasWelcome
<1>10. CASE UNCHANGED vars
  BY <1>10, <1>1 DEF vars
<1>11. ASSUME NEW t \in Tasks, Drops(t)
      PROVE  AttemptedHasWelcome'
  BY <1>11, <1>1, DropStep
<1>12. ASSUME NEW t \in Tasks, SaveFails(t)
      PROVE  AttemptedHasWelcome'
  BY <1>12, <1>1 DEF SaveFails
<1> QED
  BY <1>1, <1>2, <1>3, <1>4, <1>5, <1>6, <1>7, <1>8, <1>9, <1>10, <1>11, <1>12
     DEF Next, TaskStep, FailStep, Drops

\* Who is covered stays covered.
LEMMA CoveredStay ==
  ASSUME TypeOK, AddInv, RosterInv, [Next]_vars
  PROVE  \A m \in Users, h \in Channels : Covered(m, h) => Covered(m, h)'
<1>1. CASE UNCHANGED <<welcomes, at, who, lost>>
  BY <1>1 DEF Covered, BeingServed, HasWelcome
<1>2. ASSUME NEW u \in Users,
             JoinGuild(u) \/ MakeKey(u) \/ PublishKey(u)
      PROVE  \A m \in Users, h \in Channels : Covered(m, h) => Covered(m, h)'
  BY <1>2, <1>1
     DEF JoinGuild, MakeKey, PublishKey
<1>3. ASSUME NEW u \in Users, NEW c \in Channels, ForceResync(u, c)
      PROVE  \A m \in Users, h \in Channels : Covered(m, h) => Covered(m, h)'
  BY <1>3, <1>1
     DEF ForceResync
<1>4. ASSUME NEW t \in Tasks, (\E v \in todo[t] : Pass(t, v))
      PROVE  \A m \in Users, h \in Channels : Covered(m, h) => Covered(m, h)'
  BY <1>4, <1>1
     DEF Pass
<1>5. ASSUME NEW u \in Users, Login(u)
      PROVE  \A m \in Users, h \in Channels : Covered(m, h) => Covered(m, h)'
  <2>1. \A j \in Tasks : at[j] = "post" => (at'[j] = at[j] /\ who'[j] = who[j])
           \/ <<who[j], j[2]>> \in lost'
    BY <1>5, TaskTypes DEF Login
  <2>2. lost \subseteq lost'
    BY <1>5 DEF Login
  <2> QED
    BY <2>1, <2>2, WelcomesStay DEF Covered, BeingServed
<1>6. ASSUME NEW u \in Users, NEW c \in Channels, StartSync(u, c)
      PROVE  \A m \in Users, h \in Channels : Covered(m, h) => Covered(m, h)'
  <2> DEFINE t == <<u, c, "sync">>
  <2>1. \A j \in Tasks \ {t} : at'[j] = at[j]
    BY <1>6, TaskTypes DEF StartSync
  <2>2. at[t] = "idle" /\ UNCHANGED <<who, lost>>
    BY <1>6 DEF StartSync, CanStart
  <2> QED
    BY <2>1, <2>2, WelcomesStay DEF Covered, BeingServed
<1>7. ASSUME NEW u \in Users, NEW c \in Channels, StartRestore(u, c)
      PROVE  \A m \in Users, h \in Channels : Covered(m, h) => Covered(m, h)'
  <2> DEFINE t == <<u, c, "restore">>
  <2>1. \A j \in Tasks \ {t} : at'[j] = at[j]
    BY <1>7, TaskTypes DEF StartRestore
  <2>2. at[t] = "idle" /\ UNCHANGED <<who, lost>>
    BY <1>7 DEF StartRestore, CanStart
  <2> QED
    BY <2>1, <2>2, WelcomesStay DEF Covered, BeingServed
<1>8. ASSUME NEW u \in Users, NEW c \in Channels, NEW v \in members \union {NoUser},
             NEW d \in Devices \union {NoDevice}, StartBoot(u, c, v, d)
      PROVE  \A m \in Users, h \in Channels : Covered(m, h) => Covered(m, h)'
  <2> DEFINE t == <<u, c, "boot">>
  <2>1. \A j \in Tasks \ {t} : at'[j] = at[j]
    BY <1>8, TaskTypes DEF StartBoot
  <2>2. at[t] = "idle" /\ UNCHANGED <<who, lost>>
    BY <1>8 DEF StartBoot, CanStart
  <2> QED
    BY <2>1, <2>2, WelcomesStay DEF Covered, BeingServed
<1>9. ASSUME NEW t \in Tasks, StoreWelcome(t)
      PROVE  \A m \in Users, h \in Channels : Covered(m, h) => Covered(m, h)'
  <2>1. who[t] \in Users /\ dev[t] \in Devices /\ t[1] \in Users /\ t[2] \in Channels
          /\ at[t] = "post"
    BY <1>9, TaskParts DEF StoreWelcome, AddInv, Adding
  <2>2. held[t] # NoGroup
    BY <2>1, GroupParts DEF RosterInv, HeldInv, HeldOK
  <2>3. welcomes \in [Users \X Channels \X Devices -> Group]
    BY DEF TypeOK
  <2>4. (\A v \in Users : v = who[t] => HasWelcome(v, t[2])') /\ UNCHANGED lost
    BY <1>9, <2>1, <2>2, <2>3 DEF StoreWelcome, HasWelcome
  <2> QED
    BY <1>9, <2>4, TaskFrame, WelcomesStay DEF Covered, BeingServed, SameTask, TaskStep
<1>10. ASSUME NEW t \in Tasks, PostFails(t)
      PROVE  \A m \in Users, h \in Channels : Covered(m, h) => Covered(m, h)'
  <2>1. lost' = lost \union {<<who[t], t[2]>>}
    BY <1>10 DEF PostFails
  <2> QED
    BY <1>10, <2>1, TaskFrame, WelcomesStay DEF Covered, BeingServed, SameTask, FailStep
<1>11. ASSUME NEW t \in Tasks,
             Look(t) \/ Create(t) \/ Insert(t) \/ Mark(t) \/ List(t) \/ Finish(t)
             \/ (\E v \in todo[t], k \in Devices : PickMember(t, v, k))
             \/ InspectAndAdd(t) \/ AddFails(t) \/ Recover(t) \/ DropSession(t)
             \/ DropSnapshot(t) \/ Unmark(t) \/ JoinWelcome(t) \/ JoinFails(t)
             \/ ClearPending(t) \/ SaveJoined(t)
      PROVE  \A m \in Users, h \in Channels : Covered(m, h) => Covered(m, h)'
  <2>1. at[t] # "post" /\ UNCHANGED lost
    BY <1>11
      DEF Look, Create, Insert, Mark, List, Finish, PickMember, InspectAndAdd, AddFails,
        Recover, DropSession, DropSnapshot, Unmark, JoinWelcome, JoinFails,
        ClearPending, SaveJoined, End, NextMember
  <2> QED
    BY <1>11, <2>1, TaskFrame, WelcomesStay DEF Covered, BeingServed, SameTask, TaskStep
<1>12. CASE UNCHANGED vars
  BY <1>12, <1>1 DEF vars
<1>13. ASSUME NEW t \in Tasks, Drops(t)
      PROVE  \A m \in Users, h \in Channels : Covered(m, h) => Covered(m, h)'
  BY <1>13, DropStep, WelcomesStay DEF Covered, BeingServed, SameTask
<1>14. ASSUME NEW t \in Tasks, SaveFails(t)
      PROVE  \A m \in Users, h \in Channels : Covered(m, h) => Covered(m, h)'
  BY <1>14, SaveStep, WelcomesStay DEF Covered, BeingServed, SameTask
<1> QED
  BY <1>1, <1>2, <1>3, <1>4, <1>5, <1>6, <1>7, <1>8, <1>9, <1>10, <1>11, <1>12, <1>13, <1>14
     DEF Next, TaskStep, FailStep, Drops

\* ... and so does everybody a group lists.
LEMMA AccountedStay ==
  ASSUME TypeOK, AddInv, RosterInv, [Next]_vars
  PROVE  \A g \in Group, c \in Channels : Accounted(g, c) => AccountedNext(g, c)
  BY CoveredStay, GroupParts DEF Accounted, AccountedNext

\* Adding a member accounts for it.
LEMMA AddAccounts ==
  ASSUME TypeOK, AddInv, RosterInv, ServedInv, [Next]_vars, NEW t \in Tasks, InspectAndAdd(t),
         who[t] \notin live[Slot(t)].roster
  PROVE  LET g == Grp(live[Slot(t)].gid, live[Slot(t)].by, live[Slot(t)].roster \union {who[t]})
         IN  AccountedNext(g, t[2])
<1> DEFINE l == live[Slot(t)]
<1>1. Slot(t) \in Slots /\ Slot(t)[2] = t[2] /\ t[2] \in Channels /\ l \in Group
        /\ who[t] \in Users
  BY TaskParts DEF TypeOK, InspectAndAdd, AddInv, Adding
<1>2. AccountedNext(l, t[2])
  BY <1>1, AccountedStay DEF ServedInv
<1>3. at'[t] = "post" /\ who'[t] = who[t]
  BY TaskTypes DEF InspectAndAdd
<1>4. \A v \in Users : v = who[t] => Covered(v, t[2])'
  BY <1>3 DEF Covered, BeingServed
<1> QED
  BY <1>1, <1>2, <1>4, GroupParts DEF AccountedNext

\* The groups in memory stay accounted for ...
LEMMA LiveServedStep ==
  ASSUME TypeOK, AddInv, RosterInv, ServedInv, [Next]_vars
  PROVE  \A s \in Slots : AccountedNext(live'[s], s[2])
<1>1. CASE UNCHANGED <<live>>
  BY <1>1, AccountedStay, TaskParts DEF ServedInv, TypeOK, AccountedNext
<1>2. ASSUME NEW u \in Users,
             JoinGuild(u) \/ MakeKey(u) \/ PublishKey(u)
      PROVE  \A s \in Slots : AccountedNext(live'[s], s[2])
  BY <1>2, <1>1
     DEF JoinGuild, MakeKey, PublishKey
<1>3. ASSUME NEW u \in Users, NEW c \in Channels,
             StartSync(u, c) \/ StartRestore(u, c) \/ ForceResync(u, c)
      PROVE  \A s \in Slots : AccountedNext(live'[s], s[2])
  BY <1>3, <1>1
     DEF StartSync, StartRestore, ForceResync
<1>4. ASSUME NEW u \in Users, NEW c \in Channels, NEW v \in members \union {NoUser},
             NEW d \in Devices \union {NoDevice}, StartBoot(u, c, v, d)
      PROVE  \A s \in Slots : AccountedNext(live'[s], s[2])
  BY <1>4, <1>1
     DEF StartBoot
<1>5. ASSUME NEW t \in Tasks,
             Look(t) \/ Create(t) \/ Mark(t) \/ List(t) \/ Finish(t)
             \/ (\E v \in todo[t] : Pass(t, v))
             \/ (\E v \in todo[t], k \in Devices : PickMember(t, v, k)) \/ AddFails(t)
             \/ StoreWelcome(t) \/ Recover(t) \/ DropSnapshot(t) \/ Unmark(t)
             \/ JoinWelcome(t) \/ JoinFails(t) \/ ClearPending(t) \/ SaveJoined(t)
             \/ PostFails(t)
      PROVE  \A s \in Slots : AccountedNext(live'[s], s[2])
  BY <1>5, <1>1
     DEF Look, Create, Mark, List, Finish, Pass, PickMember, AddFails, StoreWelcome,
         Recover, DropSnapshot, Unmark, JoinWelcome, JoinFails, ClearPending, SaveJoined,
         PostFails
<1>6. ASSUME NEW u \in Users, Login(u)
      PROVE  \A s \in Slots : AccountedNext(live'[s], s[2])
  <2>1. \A s \in Slots : live[s] \in Group /\ AccountedNext(live[s], s[2])
    BY AccountedStay, TaskParts DEF ServedInv, TypeOK
  <2>2. \A s \in Slots : live'[s] \in {live[s], NoGroup}
    BY <1>6 DEF Login
  <2> QED
    BY <2>1, <2>2, GroupParts DEF AccountedNext
<1>7. ASSUME NEW t \in Tasks, Insert(t)
      PROVE  \A s \in Slots : AccountedNext(live'[s], s[2])
  <2>1. Slot(t) \in Slots /\ Slot(t)[2] = t[2] /\ t[1] \in Users /\ t[2] \in Channels
    BY TaskParts
  <2>2. \A s \in Slots : live[s] \in Group /\ AccountedNext(live[s], s[2])
    BY AccountedStay, TaskParts DEF ServedInv, TypeOK
  <2>3. \A s \in Slots : live'[s] = IF s = Slot(t) THEN live'[Slot(t)] ELSE live[s]
    BY <1>7, <2>1 DEF Insert, TypeOK
  <2>4. AccountedNext(live'[Slot(t)], t[2])
    <3>1. held[t] \in Group /\ AccountedNext(held[t], t[2])
      BY <2>1, AccountedStay DEF ServedInv, TypeOK
    <3>2. live'[Slot(t)] \in {live[Slot(t)], held[t]}
      BY <1>7, <2>1 DEF Insert, TypeOK
    <3> QED
      BY <2>1, <2>2, <3>1, <3>2 DEF AccountedNext
  <2> QED
    BY <2>1, <2>2, <2>3, <2>4 DEF AccountedNext
<1>8. ASSUME NEW t \in Tasks, InspectAndAdd(t)
      PROVE  \A s \in Slots : AccountedNext(live'[s], s[2])
  <2>1. Slot(t) \in Slots /\ Slot(t)[2] = t[2] /\ t[1] \in Users /\ t[2] \in Channels
    BY TaskParts
  <2>2. \A s \in Slots : live[s] \in Group /\ AccountedNext(live[s], s[2])
    BY AccountedStay, TaskParts DEF ServedInv, TypeOK
  <2>3. \A s \in Slots : live'[s] = IF s = Slot(t) THEN live'[Slot(t)] ELSE live[s]
    BY <1>8, <2>1 DEF InspectAndAdd, TypeOK
  <2>4. AccountedNext(live'[Slot(t)], t[2])
    <3> DEFINE g == Grp(live[Slot(t)].gid, live[Slot(t)].by, live[Slot(t)].roster \union {who[t]})
    <3>1. CASE who[t] \in live[Slot(t)].roster
      BY <1>8, <2>1, <2>2, <3>1 DEF InspectAndAdd, AccountedNext
    <3>2. CASE who[t] \notin live[Slot(t)].roster
      <4>1. AccountedNext(g, t[2])
        BY <1>8, <3>2, AddAccounts
      <4>2. live'[Slot(t)] = g
        BY <1>8, <2>1, <3>2 DEF InspectAndAdd, TypeOK
      <4> QED
        BY <4>1, <4>2 DEF AccountedNext
    <3> QED
      BY <3>1, <3>2
  <2> QED
    BY <2>1, <2>2, <2>3, <2>4 DEF AccountedNext
<1>9. ASSUME NEW t \in Tasks, DropSession(t)
      PROVE  \A s \in Slots : AccountedNext(live'[s], s[2])
  <2>1. Slot(t) \in Slots /\ Slot(t)[2] = t[2] /\ t[1] \in Users /\ t[2] \in Channels
    BY TaskParts
  <2>2. \A s \in Slots : live[s] \in Group /\ AccountedNext(live[s], s[2])
    BY AccountedStay, TaskParts DEF ServedInv, TypeOK
  <2>3. \A s \in Slots : live'[s] = IF s = Slot(t) THEN live'[Slot(t)] ELSE live[s]
    BY <1>9, <2>1 DEF DropSession, TypeOK
  <2>4. AccountedNext(live'[Slot(t)], t[2])
    <3>1. live'[Slot(t)] = NoGroup
      BY <1>9, <2>1 DEF DropSession, TypeOK
    <3> QED
      BY <3>1, GroupParts DEF AccountedNext
  <2> QED
    BY <2>1, <2>2, <2>3, <2>4 DEF AccountedNext
<1>10. CASE UNCHANGED vars
  BY <1>10, <1>1 DEF vars
<1>11. ASSUME NEW t \in Tasks, Drops(t)
      PROVE  \A s \in Slots : AccountedNext(live'[s], s[2])
  BY <1>11, <1>1, DropStep
<1>12. ASSUME NEW t \in Tasks, SaveFails(t)
      PROVE  \A s \in Slots : AccountedNext(live'[s], s[2])
  <2>1. Slot(t) \in Slots /\ Slot(t)[2] = t[2] /\ t[2] \in Channels
    BY TaskParts
  <2>2. \A s \in Slots : live[s] \in Group /\ AccountedNext(live[s], s[2])
    BY AccountedStay, TaskParts DEF ServedInv, TypeOK
  <2>3. \A v \in Users : v = who[t] => Covered(v, t[2])'
    BY <1>12, SaveStep DEF Covered
  <2>4. AccountedNext(live'[Slot(t)], t[2])
    BY <1>12, <2>1, <2>2, <2>3, SaveStep DEF AccountedNext
  <2> QED
    BY <1>12, <2>1, <2>2, <2>4, SaveStep
<1> QED
  BY <1>1, <1>2, <1>3, <1>4, <1>5, <1>6, <1>7, <1>8, <1>9, <1>10, <1>11, <1>12
     DEF Next, TaskStep, FailStep, Drops

\* ... and so do those on disk, ...
LEMMA DiskServedStep ==
  ASSUME TypeOK, AddInv, RosterInv, ServedInv, [Next]_vars
  PROVE  \A s \in Slots : AccountedNext(disk'[s], s[2])
<1>1. CASE UNCHANGED <<disk>>
  BY <1>1, AccountedStay, TaskParts DEF ServedInv, TypeOK, AccountedNext
<1>2. ASSUME NEW u \in Users,
             JoinGuild(u) \/ Login(u) \/ MakeKey(u) \/ PublishKey(u)
      PROVE  \A s \in Slots : AccountedNext(disk'[s], s[2])
  BY <1>2, <1>1
     DEF JoinGuild, Login, MakeKey, PublishKey
<1>3. ASSUME NEW u \in Users, NEW c \in Channels,
             StartSync(u, c) \/ StartRestore(u, c) \/ ForceResync(u, c)
      PROVE  \A s \in Slots : AccountedNext(disk'[s], s[2])
  BY <1>3, <1>1
     DEF StartSync, StartRestore, ForceResync
<1>4. ASSUME NEW u \in Users, NEW c \in Channels, NEW v \in members \union {NoUser},
             NEW d \in Devices \union {NoDevice}, StartBoot(u, c, v, d)
      PROVE  \A s \in Slots : AccountedNext(disk'[s], s[2])
  BY <1>4, <1>1
     DEF StartBoot
<1>5. ASSUME NEW t \in Tasks,
             Look(t) \/ Insert(t) \/ Mark(t) \/ List(t) \/ Finish(t)
             \/ (\E v \in todo[t] : Pass(t, v))
             \/ (\E v \in todo[t], k \in Devices : PickMember(t, v, k)) \/ AddFails(t)
             \/ StoreWelcome(t) \/ Recover(t) \/ DropSession(t) \/ Unmark(t)
             \/ JoinWelcome(t) \/ JoinFails(t) \/ ClearPending(t) \/ PostFails(t)
      PROVE  \A s \in Slots : AccountedNext(disk'[s], s[2])
  BY <1>5, <1>1
     DEF Look, Insert, Mark, List, Finish, Pass, PickMember, AddFails, StoreWelcome,
         Recover, DropSession, Unmark, JoinWelcome, JoinFails, ClearPending, PostFails
<1>6. ASSUME NEW t \in Tasks, Create(t)
      PROVE  \A s \in Slots : AccountedNext(disk'[s], s[2])
  <2>1. Slot(t) \in Slots /\ Slot(t)[2] = t[2] /\ t[1] \in Users /\ t[2] \in Channels
    BY TaskParts
  <2>2. \A s \in Slots : disk[s] \in Group /\ AccountedNext(disk[s], s[2])
    BY AccountedStay, TaskParts DEF ServedInv, TypeOK
  <2>3. \A s \in Slots : disk'[s] = IF s = Slot(t) THEN disk'[Slot(t)] ELSE disk[s]
    BY <1>6, <2>1 DEF Create, TypeOK
  <2>4. AccountedNext(disk'[Slot(t)], t[2])
    <3>1. disk'[Slot(t)] = Grp(created + 1, t[1], {t[1]})
      BY <1>6, <2>1 DEF Create, TypeOK
    <3> QED
      BY <3>1, <2>1, GroupParts DEF AccountedNext
  <2> QED
    BY <2>1, <2>2, <2>3, <2>4 DEF AccountedNext
<1>7. ASSUME NEW t \in Tasks, InspectAndAdd(t)
      PROVE  \A s \in Slots : AccountedNext(disk'[s], s[2])
  <2>1. Slot(t) \in Slots /\ Slot(t)[2] = t[2] /\ t[1] \in Users /\ t[2] \in Channels
    BY TaskParts
  <2>2. \A s \in Slots : disk[s] \in Group /\ AccountedNext(disk[s], s[2])
    BY AccountedStay, TaskParts DEF ServedInv, TypeOK
  <2>3. \A s \in Slots : disk'[s] = IF s = Slot(t) THEN disk'[Slot(t)] ELSE disk[s]
    BY <1>7, <2>1 DEF InspectAndAdd, TypeOK
  <2>4. AccountedNext(disk'[Slot(t)], t[2])
    <3> DEFINE g == Grp(live[Slot(t)].gid, live[Slot(t)].by, live[Slot(t)].roster \union {who[t]})
    <3>1. CASE who[t] \in live[Slot(t)].roster
      BY <1>7, <2>1, <2>2, <3>1 DEF InspectAndAdd, AccountedNext
    <3>2. CASE who[t] \notin live[Slot(t)].roster
      <4>1. AccountedNext(g, t[2])
        BY <1>7, <3>2, AddAccounts
      <4>2. disk'[Slot(t)] = g
        BY <1>7, <2>1, <3>2 DEF InspectAndAdd, TypeOK
      <4> QED
        BY <4>1, <4>2 DEF AccountedNext
    <3> QED
      BY <3>1, <3>2
  <2> QED
    BY <2>1, <2>2, <2>3, <2>4 DEF AccountedNext
<1>8. ASSUME NEW t \in Tasks, DropSnapshot(t)
      PROVE  \A s \in Slots : AccountedNext(disk'[s], s[2])
  <2>1. Slot(t) \in Slots /\ Slot(t)[2] = t[2] /\ t[1] \in Users /\ t[2] \in Channels
    BY TaskParts
  <2>2. \A s \in Slots : disk[s] \in Group /\ AccountedNext(disk[s], s[2])
    BY AccountedStay, TaskParts DEF ServedInv, TypeOK
  <2>3. \A s \in Slots : disk'[s] = IF s = Slot(t) THEN disk'[Slot(t)] ELSE disk[s]
    BY <1>8, <2>1 DEF DropSnapshot, TypeOK
  <2>4. AccountedNext(disk'[Slot(t)], t[2])
    <3>1. disk'[Slot(t)] = NoGroup
      BY <1>8, <2>1 DEF DropSnapshot, TypeOK
    <3> QED
      BY <3>1, GroupParts DEF AccountedNext
  <2> QED
    BY <2>1, <2>2, <2>3, <2>4 DEF AccountedNext
<1>9. ASSUME NEW t \in Tasks, SaveJoined(t)
      PROVE  \A s \in Slots : AccountedNext(disk'[s], s[2])
  <2>1. Slot(t) \in Slots /\ Slot(t)[2] = t[2] /\ t[1] \in Users /\ t[2] \in Channels
    BY TaskParts
  <2>2. \A s \in Slots : disk[s] \in Group /\ AccountedNext(disk[s], s[2])
    BY AccountedStay, TaskParts DEF ServedInv, TypeOK
  <2>3. \A s \in Slots : disk'[s] = IF s = Slot(t) THEN disk'[Slot(t)] ELSE disk[s]
    BY <1>9, <2>1 DEF SaveJoined, TypeOK
  <2>4. AccountedNext(disk'[Slot(t)], t[2])
    <3>1. held[t] \in Group /\ AccountedNext(held[t], t[2])
      BY <2>1, AccountedStay DEF ServedInv, TypeOK
    <3>2. disk'[Slot(t)] \in {disk[Slot(t)], held[t]}
      BY <1>9, <2>1 DEF SaveJoined, TypeOK
    <3> QED
      BY <2>1, <2>2, <3>1, <3>2 DEF AccountedNext
  <2> QED
    BY <2>1, <2>2, <2>3, <2>4 DEF AccountedNext
<1>10. CASE UNCHANGED vars
  BY <1>10, <1>1 DEF vars
<1>11. ASSUME NEW t \in Tasks, Drops(t)
      PROVE  \A s \in Slots : AccountedNext(disk'[s], s[2])
  BY <1>11, <1>1, DropStep
<1>12. ASSUME NEW t \in Tasks, SaveFails(t)
      PROVE  \A s \in Slots : AccountedNext(disk'[s], s[2])
  BY <1>12, <1>1 DEF SaveFails
<1> QED
  BY <1>1, <1>2, <1>3, <1>4, <1>5, <1>6, <1>7, <1>8, <1>9, <1>10, <1>11, <1>12
     DEF Next, TaskStep, FailStep, Drops

\* ... those in the welcomes, ...
LEMMA WelcomeServedStep ==
  ASSUME TypeOK, AddInv, RosterInv, ServedInv, [Next]_vars
  PROVE  \A m \in Users, h \in Channels, e \in Devices : AccountedNext(welcomes'[<<m, h, e>>], h)
<1>1. CASE UNCHANGED <<welcomes>>
  BY <1>1, AccountedStay DEF ServedInv, TypeOK, AccountedNext
<1>2. ASSUME NEW u \in Users,
             JoinGuild(u) \/ Login(u) \/ MakeKey(u) \/ PublishKey(u)
      PROVE  \A m \in Users, h \in Channels, e \in Devices : AccountedNext(welcomes'[<<m, h,
                e>>], h)
  BY <1>2, <1>1
     DEF JoinGuild, Login, MakeKey, PublishKey
<1>3. ASSUME NEW u \in Users, NEW c \in Channels,
             StartSync(u, c) \/ StartRestore(u, c) \/ ForceResync(u, c)
      PROVE  \A m \in Users, h \in Channels, e \in Devices : AccountedNext(welcomes'[<<m, h,
                e>>], h)
  BY <1>3, <1>1
     DEF StartSync, StartRestore, ForceResync
<1>4. ASSUME NEW u \in Users, NEW c \in Channels, NEW v \in members \union {NoUser},
             NEW d \in Devices \union {NoDevice}, StartBoot(u, c, v, d)
      PROVE  \A m \in Users, h \in Channels, e \in Devices : AccountedNext(welcomes'[<<m, h,
                e>>], h)
  BY <1>4, <1>1
     DEF StartBoot
<1>5. ASSUME NEW t \in Tasks,
             Look(t) \/ Create(t) \/ Insert(t) \/ Mark(t) \/ List(t) \/ Finish(t)
             \/ (\E v \in todo[t] : Pass(t, v))
             \/ (\E v \in todo[t], k \in Devices : PickMember(t, v, k))
             \/ InspectAndAdd(t) \/ AddFails(t) \/ Recover(t) \/ DropSession(t)
             \/ DropSnapshot(t) \/ Unmark(t) \/ JoinWelcome(t) \/ JoinFails(t)
             \/ ClearPending(t) \/ SaveJoined(t)
      PROVE  \A m \in Users, h \in Channels, e \in Devices : AccountedNext(welcomes'[<<m, h,
                e>>], h)
  BY <1>5, <1>1
     DEF Look, Create, Insert, Mark, List, Finish, Pass, PickMember, InspectAndAdd,
         AddFails, Recover, DropSession, DropSnapshot, Unmark, JoinWelcome, JoinFails,
         ClearPending, SaveJoined
<1>6. ASSUME NEW t \in Tasks, StoreWelcome(t)
      PROVE  \A m \in Users, h \in Channels, e \in Devices : AccountedNext(welcomes'[<<m, h,
                e>>], h)
  <2>1. at[t] = "post" /\ <<who[t], t[2], dev[t]>> \in Users \X Channels \X Devices
          /\ t[2] \in Channels
    BY <1>6, TaskParts DEF StoreWelcome, AddInv, Adding
  <2>2. held[t] \in Group /\ AccountedNext(held[t], t[2])
    BY <2>1, AccountedStay DEF ServedInv, TypeOK
  <2>3. \A u \in Users, c \in Channels, d \in Devices :
          welcomes[<<u, c, d>>] \in Group /\ AccountedNext(welcomes[<<u, c, d>>], c)
    BY AccountedStay DEF ServedInv, TypeOK
  <2>4. \A w \in Users \X Channels \X Devices :
          welcomes'[w] \in {welcomes[w], IF w = <<who[t], t[2],
            dev[t]>> THEN held[t] ELSE welcomes[w]}
    BY <1>6, <2>1, DataTypes DEF StoreWelcome
  <2> QED
    BY <2>1, <2>2, <2>3, <2>4 DEF AccountedNext
<1>7. ASSUME NEW t \in Tasks, PostFails(t)
      PROVE  \A m \in Users, h \in Channels, e \in Devices : AccountedNext(welcomes'[<<m, h,
                e>>], h)
  <2>1. at[t] = "post" /\ <<who[t], t[2], dev[t]>> \in Users \X Channels \X Devices
          /\ t[2] \in Channels
    BY <1>7, TaskParts DEF PostFails, AddInv, Adding
  <2>2. held[t] \in Group /\ AccountedNext(held[t], t[2])
    BY <2>1, AccountedStay DEF ServedInv, TypeOK
  <2>3. \A u \in Users, c \in Channels, d \in Devices :
          welcomes[<<u, c, d>>] \in Group /\ AccountedNext(welcomes[<<u, c, d>>], c)
    BY AccountedStay DEF ServedInv, TypeOK
  <2>4. \A w \in Users \X Channels \X Devices :
          welcomes'[w] \in {welcomes[w], IF w = <<who[t], t[2],
            dev[t]>> THEN held[t] ELSE welcomes[w]}
    BY <1>7, <2>1, DataTypes DEF PostFails
  <2> QED
    BY <2>1, <2>2, <2>3, <2>4 DEF AccountedNext
<1>8. CASE UNCHANGED vars
  BY <1>8, <1>1 DEF vars
<1>9. ASSUME NEW t \in Tasks, Drops(t)
      PROVE  \A m \in Users, h \in Channels, e \in Devices : AccountedNext(welcomes'[<<m, h,
                e>>], h)
  BY <1>9, <1>1, DropStep
<1>10. ASSUME NEW t \in Tasks, SaveFails(t)
      PROVE  \A m \in Users, h \in Channels, e \in Devices : AccountedNext(welcomes'[<<m, h,
                e>>], h)
  BY <1>10, <1>1 DEF SaveFails
<1> QED
  BY <1>1, <1>2, <1>3, <1>4, <1>5, <1>6, <1>7, <1>8, <1>9, <1>10
     DEF Next, TaskStep, FailStep, Drops

\* ... and those the tasks have in hand.
LEMMA HeldServedStep ==
  ASSUME TypeOK, AddInv, RosterInv, ServedInv, [Next]_vars
  PROVE  \A j \in Tasks : AccountedNext(held'[j], j[2])
<1>1. CASE UNCHANGED <<held>>
  BY <1>1, AccountedStay, TaskParts DEF ServedInv, TypeOK, AccountedNext
<1>2. ASSUME NEW u \in Users,
             JoinGuild(u) \/ MakeKey(u) \/ PublishKey(u)
      PROVE  \A j \in Tasks : AccountedNext(held'[j], j[2])
  BY <1>2, <1>1
     DEF JoinGuild, MakeKey, PublishKey
<1>3. ASSUME NEW u \in Users, NEW c \in Channels,
             StartRestore(u, c) \/ ForceResync(u, c)
      PROVE  \A j \in Tasks : AccountedNext(held'[j], j[2])
  BY <1>3, <1>1
     DEF StartRestore, ForceResync
<1>4. ASSUME NEW u \in Users, NEW c \in Channels, NEW v \in members \union {NoUser},
             NEW d \in Devices \union {NoDevice}, StartBoot(u, c, v, d)
      PROVE  \A j \in Tasks : AccountedNext(held'[j], j[2])
  BY <1>4, <1>1
     DEF StartBoot
<1>5. ASSUME NEW t \in Tasks,
             List(t) \/ (\E v \in todo[t] : Pass(t, v))
             \/ (\E v \in todo[t], k \in Devices : PickMember(t, v, k))
             \/ DropSession(t) \/ DropSnapshot(t) \/ JoinWelcome(t) \/ ClearPending(t)
             \/ SaveJoined(t)
      PROVE  \A j \in Tasks : AccountedNext(held'[j], j[2])
  BY <1>5, <1>1
     DEF List, Pass, PickMember, DropSession, DropSnapshot, JoinWelcome, ClearPending,
         SaveJoined
<1>6. ASSUME NEW u \in Users, NEW c \in Channels, StartSync(u, c)
      PROVE  \A j \in Tasks : AccountedNext(held'[j], j[2])
  <2> DEFINE k == <<u, c, "sync">>
  <2>1. \A j \in Tasks : held[j] \in Group /\ j[2] \in Channels /\ AccountedNext(held[j], j[2])
    BY AccountedStay, TaskParts DEF ServedInv, TypeOK
  <2>5. k \in Tasks /\ k[2] = c
    BY TaskParts DEF Kinds
  <2>2. device[u] \in Devices
    BY DataTypes
  <2>3. welcomes[<<u, c, device[u]>>] \in Group /\ AccountedNext(welcomes[<<u, c, device[u]>>], c)
    BY <2>2, AccountedStay DEF ServedInv, TypeOK
  <2>4. \A j \in Tasks : held'[j] = held[j] \/ (j[2] = c
           /\ held'[j] = welcomes[<<u, c, device[u]>>])
    <3>1. CASE held' = held
      BY <3>1
    <3>2. CASE held' = [held EXCEPT ![k] = welcomes[<<u, c, device[u]>>]]
      BY <2>5, <3>2, TaskTypes
    <3> QED
      BY <1>6, <3>1, <3>2 DEF StartSync
  <2> QED
    BY <2>1, <2>3, <2>4 DEF AccountedNext
<1>7. ASSUME NEW t \in Tasks, Look(t)
      PROVE  \A j \in Tasks : AccountedNext(held'[j], j[2])
  <2>1. \A j \in Tasks : held[j] \in Group /\ j[2] \in Channels /\ AccountedNext(held[j], j[2])
    BY AccountedStay, TaskParts DEF ServedInv, TypeOK
  <2>2. \A j \in Tasks : j # t => held'[j] = held[j]
    BY <1>7, TaskTypes DEF Look
  <2>3. AccountedNext(held'[t], t[2])
    <3>1. Slot(t) \in Slots /\ Slot(t)[2] = t[2] /\ t[2] \in Channels
      BY TaskParts
    <3>2. disk[Slot(t)] \in Group /\ AccountedNext(disk[Slot(t)], t[2])
      BY <3>1, AccountedStay DEF ServedInv, TypeOK
    <3>3. held'[t] \in {disk[Slot(t)], NoGroup}
      BY <1>7, TaskTypes DEF Look
    <3> QED
      BY <3>2, <3>3, GroupParts DEF AccountedNext
  <2> QED
    BY <2>1, <2>2, <2>3 DEF AccountedNext
<1>8. ASSUME NEW t \in Tasks, Create(t)
      PROVE  \A j \in Tasks : AccountedNext(held'[j], j[2])
  <2>1. \A j \in Tasks : held[j] \in Group /\ j[2] \in Channels /\ AccountedNext(held[j], j[2])
    BY AccountedStay, TaskParts DEF ServedInv, TypeOK
  <2>2. \A j \in Tasks : j # t => held'[j] = held[j]
    BY <1>8, TaskTypes DEF Create
  <2>3. AccountedNext(held'[t], t[2])
    <3>1. held'[t] = Grp(created + 1, t[1], {t[1]})
      BY <1>8, TaskTypes DEF Create
    <3> QED
      BY <3>1, GroupParts DEF AccountedNext
  <2> QED
    BY <2>1, <2>2, <2>3 DEF AccountedNext
<1>9. ASSUME NEW t \in Tasks, InspectAndAdd(t)
      PROVE  \A j \in Tasks : AccountedNext(held'[j], j[2])
  <2>1. \A j \in Tasks : held[j] \in Group /\ j[2] \in Channels /\ AccountedNext(held[j], j[2])
    BY AccountedStay, TaskParts DEF ServedInv, TypeOK
  <2>2. \A j \in Tasks : j # t => held'[j] = held[j]
    BY <1>9, TaskTypes DEF InspectAndAdd
  <2>3. AccountedNext(held'[t], t[2])
    <3> DEFINE g == Grp(live[Slot(t)].gid, live[Slot(t)].by, live[Slot(t)].roster \union {who[t]})
    <3>1. CASE who[t] \in live[Slot(t)].roster
      BY <1>9, <2>1, <3>1 DEF InspectAndAdd, AccountedNext
    <3>2. CASE who[t] \notin live[Slot(t)].roster
      <4>1. AccountedNext(g, t[2])
        BY <1>9, <3>2, AddAccounts
      <4>2. held'[t] = g
        BY <1>9, <3>2, TaskTypes DEF InspectAndAdd
      <4> QED
        BY <4>1, <4>2 DEF AccountedNext
    <3> QED
      BY <3>1, <3>2
  <2> QED
    BY <2>1, <2>2, <2>3 DEF AccountedNext
<1>10. ASSUME NEW u \in Users, Login(u)
      PROVE  \A j \in Tasks : AccountedNext(held'[j], j[2])
  <2>1. \A j \in Tasks : held[j] \in Group /\ j[2] \in Channels /\ AccountedNext(held[j], j[2])
    BY AccountedStay, TaskParts DEF ServedInv, TypeOK
  <2>2. \A j \in Tasks : held'[j] \in {held[j], NoGroup}
    BY <1>10, TaskTypes
      DEF Login
  <2> QED
    BY <2>1, <2>2, GroupParts DEF AccountedNext
<1>11. ASSUME NEW t \in Tasks,
             Insert(t) \/ Mark(t) \/ Finish(t) \/ AddFails(t) \/ StoreWelcome(t)
             \/ Recover(t) \/ Unmark(t) \/ JoinFails(t) \/ PostFails(t)
      PROVE  \A j \in Tasks : AccountedNext(held'[j], j[2])
  <2>1. \A j \in Tasks : held[j] \in Group /\ j[2] \in Channels /\ AccountedNext(held[j], j[2])
    BY AccountedStay, TaskParts DEF ServedInv, TypeOK
  <2>2. \A j \in Tasks : held'[j] \in {held[j], NoGroup}
    BY <1>11, TaskTypes
      DEF Insert, Mark, Finish, AddFails, StoreWelcome, Recover, Unmark, JoinFails,
        PostFails, End, NextMember
  <2> QED
    BY <2>1, <2>2, GroupParts DEF AccountedNext
<1>12. CASE UNCHANGED vars
  BY <1>12, <1>1 DEF vars
<1>13. ASSUME NEW t \in Tasks, Drops(t)
      PROVE  \A j \in Tasks : AccountedNext(held'[j], j[2])
  <2>1. \A j \in Tasks : held[j] \in Group /\ j[2] \in Channels /\ AccountedNext(held[j], j[2])
    BY AccountedStay, TaskParts DEF ServedInv, TypeOK
  <2>2. \A j \in Tasks : held'[j] \in {held[j], NoGroup}
    BY <1>13, DropStep DEF SameTask
  <2> QED
    BY <2>1, <2>2, GroupParts DEF AccountedNext
<1>14. ASSUME NEW t \in Tasks, SaveFails(t)
      PROVE  \A j \in Tasks : AccountedNext(held'[j], j[2])
  <2>1. \A j \in Tasks : held[j] \in Group /\ j[2] \in Channels /\ AccountedNext(held[j], j[2])
    BY AccountedStay, TaskParts DEF ServedInv, TypeOK
  <2>2. \A j \in Tasks : held'[j] \in {held[j], NoGroup}
    BY <1>14, SaveStep DEF SameTask
  <2> QED
    BY <2>1, <2>2, GroupParts DEF AccountedNext
<1> QED
  BY <1>1, <1>2, <1>3, <1>4, <1>5, <1>6, <1>7, <1>8, <1>9, <1>10, <1>11, <1>12, <1>13, <1>14
     DEF Next, TaskStep, FailStep, Drops

\* Nobody a group lists is forgotten.
LEMMA ServedStep ==
  ASSUME TypeOK, AddInv, RosterInv, ServedInv, [Next]_vars
  PROVE  ServedInv'
  BY LiveServedStep, DiskServedStep, WelcomeServedStep, HeldServedStep
     DEF ServedInv, Accounted, AccountedNext

\* Calm does not come back.
LEMMA CalmBack ==
  ASSUME TypeOK, Calm', [Next]_vars
  PROVE  Calm /\ UNCHANGED <<lost, logins, device>>
<1>1. CASE UNCHANGED <<lost, logins, device>>
  BY <1>1 DEF Calm
<1>2. ASSUME NEW u \in Users,
             JoinGuild(u) \/ MakeKey(u) \/ PublishKey(u)
      PROVE  Calm /\ UNCHANGED <<lost, logins, device>>
  BY <1>2, <1>1
     DEF JoinGuild, MakeKey, PublishKey
<1>3. ASSUME NEW u \in Users, NEW c \in Channels,
             StartSync(u, c) \/ StartRestore(u, c) \/ ForceResync(u, c)
      PROVE  Calm /\ UNCHANGED <<lost, logins, device>>
  BY <1>3, <1>1
     DEF StartSync, StartRestore, ForceResync
<1>4. ASSUME NEW u \in Users, NEW c \in Channels, NEW v \in members \union {NoUser},
             NEW d \in Devices \union {NoDevice}, StartBoot(u, c, v, d)
      PROVE  Calm /\ UNCHANGED <<lost, logins, device>>
  BY <1>4, <1>1
     DEF StartBoot
<1>5. ASSUME NEW t \in Tasks,
             Look(t) \/ Create(t) \/ Insert(t) \/ Mark(t) \/ List(t) \/ Finish(t)
             \/ (\E v \in todo[t] : Pass(t, v))
             \/ (\E v \in todo[t], k \in Devices : PickMember(t, v, k))
             \/ InspectAndAdd(t) \/ AddFails(t) \/ StoreWelcome(t) \/ Recover(t)
             \/ DropSession(t) \/ DropSnapshot(t) \/ Unmark(t) \/ JoinWelcome(t)
             \/ JoinFails(t) \/ ClearPending(t) \/ SaveJoined(t)
      PROVE  Calm /\ UNCHANGED <<lost, logins, device>>
  BY <1>5, <1>1
     DEF Look, Create, Insert, Mark, List, Finish, Pass, PickMember, InspectAndAdd,
         AddFails, StoreWelcome, Recover, DropSession, DropSnapshot, Unmark, JoinWelcome,
         JoinFails, ClearPending, SaveJoined
<1>6. ASSUME NEW u \in Users, Login(u)
      PROVE  Calm /\ UNCHANGED <<lost, logins, device>>
  <2>1. logins' = logins + 1 /\ logins \in Nat
    BY <1>6, BoundAssumption DEF Login, TypeOK
  <2> QED
    BY <2>1 DEF Calm
<1>7. ASSUME NEW t \in Tasks, PostFails(t)
      PROVE  Calm /\ UNCHANGED <<lost, logins, device>>
  <2>1. lost' # {}
    BY <1>7 DEF PostFails
  <2> QED
    BY <2>1 DEF Calm
<1>8. CASE UNCHANGED vars
  BY <1>8, <1>1 DEF vars
<1>9. ASSUME NEW t \in Tasks, Drops(t)
      PROVE  Calm /\ UNCHANGED <<lost, logins, device>>
  BY <1>9, <1>1, DropStep
<1>10. ASSUME NEW t \in Tasks, SaveFails(t)
      PROVE  Calm /\ UNCHANGED <<lost, logins, device>>
  <2>1. lost' # {}
    BY <1>10 DEF SaveFails
  <2> QED
    BY <2>1 DEF Calm
<1> QED
  BY <1>1, <1>2, <1>3, <1>4, <1>5, <1>6, <1>7, <1>8, <1>9, <1>10
     DEF Next, TaskStep, FailStep, Drops

\* Everybody takes the creator for the leader.
LEMMA LeaderIsCreator ==
  ASSUME TypeOK, DeviceInv, Calm, NEW u \in Users
  PROVE  IsLeader(u) <=> u = Creator
<1>1. Creator \in members /\ members \subseteq Users /\ \A v \in Users : Creator <= v
  BY DEF TypeOK, DeviceInv, Calm
<1>2. u \in Nat /\ Creator \in Nat /\ Creator <= u
  BY <1>1, UserAssumption
<1> QED
  BY <1>1, <1>2 DEF IsLeader

\* Only the creator adds members.
LEMMA CreatorAdds ==
  ASSUME AddInv, LeadInv, Calm, NEW t \in Tasks, at[t] \in Adding \union {"list", "pick"}
  PROVE  t = <<Creator, t[2], "boot">> /\ t[1] = Creator
<1>1. t[3] = "boot" /\ at[t] # "idle"
  BY DEF AddInv, Adding
<1>2. t[1] = Creator
  BY <1>1 DEF LeadInv, LeadTask
<1> QED
  BY <1>1, <1>2, TaskParts

\* Whoever is in the creator's group has a welcome when it is to be recovered.
LEMMA RecoverFinds ==
  ASSUME TypeOK, AddInv, ServedInv, CalmInv, Calm, NEW t \in Tasks, at[t] = "recover"
  PROVE  welcomes[<<who[t], t[2], dev[t]>>] # NoGroup
<1>1. /\ t = <<Creator, t[2], "boot">> /\ t[1] = Creator /\ t[2] \in Channels /\ Slot(t) \in Slots
      /\ Slot(t) = <<Creator, t[2]>> /\ Slot(t)[2] = t[2]
  BY CreatorAdds, TaskParts DEF Adding, CalmInv
<1>2. who[t] \in Users \ {Creator} /\ dev[t] \in Devices
  BY <1>1 DEF AddInv, Adding
<1>3. who[t] \in live[Slot(t)].roster /\ live[Slot(t)].by \in {NoUser, Creator}
  BY <1>1 DEF CalmInv, LeadInv, LeadTask
<1>4. who[t] # NoUser
  BY <1>2, UserAssumption DEF NoUser
<1>5. Covered(who[t], t[2])
  BY <1>1, <1>2, <1>3, <1>4 DEF ServedInv, Accounted
<1>6. ~BeingServed(who[t], t[2])
  <2> SUFFICES ASSUME NEW j \in Tasks, j[2] = t[2], at[j] = "post" PROVE FALSE
    BY DEF BeingServed
  <2>1. j = <<Creator, j[2], "boot">>
    BY CreatorAdds DEF Adding, CalmInv
  <2> QED
    BY <1>1, <2>1
<1>7. PICK d \in Devices : welcomes[<<who[t], t[2], d>>] # NoGroup
  BY <1>5, <1>6 DEF Covered, Calm, HasWelcome
<1>8. d = 1 /\ dev[t] \in {NoDevice, 1}
  BY <1>1, <1>2, <1>7 DEF CalmInv, DeviceInv
<1>9. NoDevice \notin Devices
  BY BoundAssumption DEF NoDevice, Devices
<1> QED
  BY <1>2, <1>7, <1>8, <1>9

\* While all is calm a group in memory is neither given up nor replaced.
LEMMA LiveGrows ==
  ASSUME TypeOK, AddInv, RosterInv, ServedInv, CalmInv, Calm', [Next]_vars
  PROVE  \A s \in Slots : live[s] # NoGroup => SameAndMore(live[s], live'[s])
<1>1. CASE UNCHANGED <<live>>
  BY <1>1 DEF SameAndMore
<1>2. ASSUME NEW u \in Users,
             JoinGuild(u) \/ MakeKey(u) \/ PublishKey(u)
      PROVE  \A s \in Slots : live[s] # NoGroup => SameAndMore(live[s], live'[s])
  BY <1>2, <1>1
     DEF JoinGuild, MakeKey, PublishKey
<1>3. ASSUME NEW u \in Users, NEW c \in Channels,
             StartSync(u, c) \/ StartRestore(u, c) \/ ForceResync(u, c)
      PROVE  \A s \in Slots : live[s] # NoGroup => SameAndMore(live[s], live'[s])
  BY <1>3, <1>1
     DEF StartSync, StartRestore, ForceResync
<1>4. ASSUME NEW u \in Users, NEW c \in Channels, NEW v \in members \union {NoUser},
             NEW d \in Devices \union {NoDevice}, StartBoot(u, c, v, d)
      PROVE  \A s \in Slots : live[s] # NoGroup => SameAndMore(live[s], live'[s])
  BY <1>4, <1>1
     DEF StartBoot
<1>5. ASSUME NEW t \in Tasks,
             Look(t) \/ Create(t) \/ Mark(t) \/ List(t) \/ Finish(t)
             \/ (\E v \in todo[t] : Pass(t, v))
             \/ (\E v \in todo[t], k \in Devices : PickMember(t, v, k)) \/ AddFails(t)
             \/ StoreWelcome(t) \/ Recover(t) \/ DropSnapshot(t) \/ Unmark(t)
             \/ JoinWelcome(t) \/ JoinFails(t) \/ ClearPending(t) \/ SaveJoined(t)
             \/ PostFails(t)
      PROVE  \A s \in Slots : live[s] # NoGroup => SameAndMore(live[s], live'[s])
  BY <1>5, <1>1
     DEF Look, Create, Mark, List, Finish, Pass, PickMember, AddFails, StoreWelcome,
         Recover, DropSnapshot, Unmark, JoinWelcome, JoinFails, ClearPending, SaveJoined,
         PostFails
<1>6. ASSUME NEW u \in Users, Login(u)
      PROVE  \A s \in Slots : live[s] # NoGroup => SameAndMore(live[s], live'[s])
  <2>1. logins' = logins + 1 /\ logins = 0
    BY <1>6, CalmBack DEF Login, Calm
  <2> QED
    BY <2>1 DEF Calm
<1>7. ASSUME NEW t \in Tasks, Insert(t)
      PROVE  \A s \in Slots : live[s] # NoGroup => SameAndMore(live[s], live'[s])
  <2>1. \A s \in Slots : live[s] # NoGroup => live'[s] = live[s]
    BY <1>7, TaskParts, DataTypes DEF Insert
  <2> QED
    BY <2>1 DEF SameAndMore
<1>8. ASSUME NEW t \in Tasks, InspectAndAdd(t)
      PROVE  \A s \in Slots : live[s] # NoGroup => SameAndMore(live[s], live'[s])
  <2>1. Slot(t) \in Slots /\ live[Slot(t)] \in Group
    BY TaskParts, DataTypes
  <2> DEFINE g == Grp(live[Slot(t)].gid, live[Slot(t)].by, live[Slot(t)].roster \union {who[t]})
  <2>2. g # NoGroup /\ SameAndMore(live[Slot(t)], g)
    BY GroupParts DEF SameAndMore
  <2>3. \A s \in Slots : live'[s] = live[s] \/ (s = Slot(t) /\ live'[s] = g)
    BY <1>8, <2>1, DataTypes DEF InspectAndAdd
  <2> QED
    BY <2>2, <2>3 DEF SameAndMore
<1>9. ASSUME NEW t \in Tasks, DropSession(t)
      PROVE  \A s \in Slots : live[s] # NoGroup => SameAndMore(live[s], live'[s])
  BY <1>9, CalmBack, RecoverFinds DEF DropSession
<1>10. CASE UNCHANGED vars
  BY <1>10, <1>1 DEF vars
<1>11. ASSUME NEW t \in Tasks, Drops(t)
      PROVE  \A s \in Slots : live[s] # NoGroup => SameAndMore(live[s], live'[s])
  BY <1>11, <1>1, DropStep
<1>12. ASSUME NEW t \in Tasks, SaveFails(t)
      PROVE  \A s \in Slots : live[s] # NoGroup => SameAndMore(live[s], live'[s])
  <2>1. lost' # {}
    BY <1>12 DEF SaveFails
  <2> QED
    BY <2>1 DEF Calm
<1> QED
  BY <1>1, <1>2, <1>3, <1>4, <1>5, <1>6, <1>7, <1>8, <1>9, <1>10, <1>11, <1>12
     DEF Next, TaskStep, FailStep, Drops

\* Nor is a snapshot given up.
LEMMA DiskStays ==
  ASSUME TypeOK, AddInv, RosterInv, ServedInv, CalmInv, Calm', [Next]_vars
  PROVE  \A s \in Slots : disk[s] # NoGroup => disk'[s] # NoGroup
<1>1. CASE UNCHANGED <<disk>>
  BY <1>1
<1>2. ASSUME NEW u \in Users,
             JoinGuild(u) \/ Login(u) \/ MakeKey(u) \/ PublishKey(u)
      PROVE  \A s \in Slots : disk[s] # NoGroup => disk'[s] # NoGroup
  BY <1>2, <1>1
     DEF JoinGuild, Login, MakeKey, PublishKey
<1>3. ASSUME NEW u \in Users, NEW c \in Channels,
             StartSync(u, c) \/ StartRestore(u, c) \/ ForceResync(u, c)
      PROVE  \A s \in Slots : disk[s] # NoGroup => disk'[s] # NoGroup
  BY <1>3, <1>1
     DEF StartSync, StartRestore, ForceResync
<1>4. ASSUME NEW u \in Users, NEW c \in Channels, NEW v \in members \union {NoUser},
             NEW d \in Devices \union {NoDevice}, StartBoot(u, c, v, d)
      PROVE  \A s \in Slots : disk[s] # NoGroup => disk'[s] # NoGroup
  BY <1>4, <1>1
     DEF StartBoot
<1>5. ASSUME NEW t \in Tasks,
             Look(t) \/ Insert(t) \/ Mark(t) \/ List(t) \/ Finish(t)
             \/ (\E v \in todo[t] : Pass(t, v))
             \/ (\E v \in todo[t], k \in Devices : PickMember(t, v, k)) \/ AddFails(t)
             \/ StoreWelcome(t) \/ Recover(t) \/ DropSession(t) \/ Unmark(t)
             \/ JoinWelcome(t) \/ JoinFails(t) \/ ClearPending(t) \/ PostFails(t)
      PROVE  \A s \in Slots : disk[s] # NoGroup => disk'[s] # NoGroup
  BY <1>5, <1>1
     DEF Look, Insert, Mark, List, Finish, Pass, PickMember, AddFails, StoreWelcome,
         Recover, DropSession, Unmark, JoinWelcome, JoinFails, ClearPending, PostFails
<1>6. ASSUME NEW t \in Tasks, Create(t)
      PROVE  \A s \in Slots : disk[s] # NoGroup => disk'[s] # NoGroup
  <2>1. Grp(created + 1, t[1], {t[1]}) # NoGroup
    BY GroupParts
  <2> QED
    BY <1>6, <2>1, DataTypes DEF Create
<1>7. ASSUME NEW t \in Tasks, InspectAndAdd(t)
      PROVE  \A s \in Slots : disk[s] # NoGroup => disk'[s] # NoGroup
  <2>1. Grp(live[Slot(t)].gid, live[Slot(t)].by, live[Slot(t)].roster \union {who[t]}) # NoGroup
    BY GroupParts
  <2> QED
    BY <1>7, <2>1, DataTypes DEF InspectAndAdd
<1>8. ASSUME NEW t \in Tasks, DropSnapshot(t)
      PROVE  \A s \in Slots : disk[s] # NoGroup => disk'[s] # NoGroup
  BY <1>8, CalmBack DEF DropSnapshot, CalmInv, LeadInv, LeadTask
<1>9. ASSUME NEW t \in Tasks, SaveJoined(t)
      PROVE  \A s \in Slots : disk[s] # NoGroup => disk'[s] # NoGroup
  <2>1. held[t] # NoGroup
    BY <1>9 DEF SaveJoined, RosterInv, HeldInv, HeldOK, Joining
  <2> QED
    BY <1>9, <2>1, DataTypes DEF SaveJoined
<1>10. CASE UNCHANGED vars
  BY <1>10, <1>1 DEF vars
<1>11. ASSUME NEW t \in Tasks, Drops(t)
      PROVE  \A s \in Slots : disk[s] # NoGroup => disk'[s] # NoGroup
  BY <1>11, <1>1, DropStep
<1>12. ASSUME NEW t \in Tasks, SaveFails(t)
      PROVE  \A s \in Slots : disk[s] # NoGroup => disk'[s] # NoGroup
  BY <1>12, <1>1 DEF SaveFails
<1> QED
  BY <1>1, <1>2, <1>3, <1>4, <1>5, <1>6, <1>7, <1>8, <1>9, <1>10, <1>11, <1>12
     DEF Next, TaskStep, FailStep, Drops

\* Nobody gets a second device.
LEMMA DeviceStep ==
  ASSUME TypeOK, AddInv, RosterInv, ServedInv, CalmInv, Calm', [Next]_vars
  PROVE  DeviceInv'
<1>1. CASE UNCHANGED <<members, device, published, welcomes, dev>>
  BY <1>1, CalmBack DEF DeviceInv, CalmInv
<1>2. ASSUME NEW u \in Users, MakeKey(u)
      PROVE  DeviceInv'
  BY <1>2, <1>1
     DEF MakeKey
<1>3. ASSUME NEW u \in Users, NEW c \in Channels,
             StartSync(u, c) \/ StartRestore(u, c) \/ ForceResync(u, c)
      PROVE  DeviceInv'
  BY <1>3, <1>1
     DEF StartSync, StartRestore, ForceResync
<1>4. ASSUME NEW t \in Tasks,
             Look(t) \/ Create(t) \/ Insert(t) \/ List(t)
             \/ (\E v \in todo[t] : Pass(t, v)) \/ InspectAndAdd(t) \/ DropSession(t)
             \/ DropSnapshot(t) \/ JoinWelcome(t) \/ ClearPending(t) \/ SaveJoined(t)
      PROVE  DeviceInv'
  BY <1>4, <1>1
     DEF Look, Create, Insert, List, Pass, InspectAndAdd, DropSession, DropSnapshot,
         JoinWelcome, ClearPending, SaveJoined
<1>5. ASSUME NEW u \in Users, JoinGuild(u)
      PROVE  DeviceInv'
  BY <1>5, CalmBack DEF JoinGuild, CalmInv, DeviceInv
<1>6. ASSUME NEW u \in Users, Login(u)
      PROVE  DeviceInv'
  <2>1. logins' = logins + 1 /\ logins = 0
    BY <1>6, CalmBack DEF Login, Calm
  <2> QED
    BY <2>1 DEF Calm
<1>7. ASSUME NEW u \in Users, PublishKey(u)
      PROVE  DeviceInv'
  <2>1. device[u] = 1
    BY CalmBack DEF CalmInv, DeviceInv
  <2> QED
    BY <1>7, <2>1, CalmBack DEF PublishKey, CalmInv, DeviceInv
<1>8. ASSUME NEW u \in Users, NEW c \in Channels, NEW v \in members \union {NoUser},
             NEW d \in Devices \union {NoDevice}, StartBoot(u, c, v, d)
      PROVE  DeviceInv'
  <2>1. device[v] = 1 \/ v = NoUser
    BY CalmBack DEF CalmInv, DeviceInv, TypeOK
  <2>2. d \in {NoDevice, 1}
    BY <1>8, <2>1 DEF StartBoot
  <2>3. \A j \in Tasks : dev'[j] \in {dev[j], d}
    BY <1>8, TaskTypes DEF StartBoot
  <2> QED
    BY <1>8, <2>2, <2>3, CalmBack DEF StartBoot, CalmInv, DeviceInv
<1>9. ASSUME NEW t \in Tasks, NEW v \in todo[t], NEW k \in Devices, PickMember(t, v, k)
      PROVE  DeviceInv'
  <2>1. v \in Users /\ <<v, k>> \in published
    BY <1>9 DEF PickMember, KeyFor, AddInv
  <2>2. k = 1
    BY <2>1, CalmBack DEF CalmInv, DeviceInv
  <2>3. \A j \in Tasks : dev'[j] \in {dev[j], k}
    BY <1>9, TaskTypes DEF PickMember
  <2> QED
    BY <1>9, <2>2, <2>3, CalmBack DEF PickMember, CalmInv, DeviceInv
<1>10. ASSUME NEW t \in Tasks, StoreWelcome(t)
      PROVE  DeviceInv'
  <2>1. at[t] = "post" /\ who[t] \in Users /\ dev[t] \in Devices
    BY <1>10 DEF StoreWelcome, AddInv, Adding
  <2>2. dev[t] = 1
    BY <2>1, CalmBack, BoundAssumption DEF CalmInv, DeviceInv, Devices, NoDevice
  <2>3. \A m \in Users, h \in Channels, e \in Devices \ {1} : welcomes'[<<m, h,
           e>>] = welcomes[<<m, h, e>>]
    BY <1>10, <2>2, DataTypes DEF StoreWelcome
  <2>4. \A j \in Tasks : dev'[j] \in {dev[j], NoDevice}
    BY <1>10, TaskTypes DEF StoreWelcome, NextMember
  <2> QED
    BY <1>10, <2>3, <2>4, CalmBack DEF StoreWelcome, CalmInv, DeviceInv
<1>11. ASSUME NEW t \in Tasks, PostFails(t)
      PROVE  DeviceInv'
  <2>1. lost' # {}
    BY <1>11 DEF PostFails
  <2> QED
    BY <2>1 DEF Calm
<1>12. ASSUME NEW t \in Tasks,
             Mark(t) \/ Finish(t) \/ AddFails(t) \/ Recover(t) \/ Unmark(t)
             \/ JoinFails(t)
      PROVE  DeviceInv'
  <2>1. \A j \in Tasks : dev'[j] \in {dev[j], NoDevice}
    BY <1>12, TaskTypes
      DEF Mark, Finish, AddFails, Recover, Unmark, JoinFails, End, NextMember
  <2> QED
    BY <1>12, <2>1, CalmBack
      DEF Mark, Finish, AddFails, Recover, Unmark, JoinFails, End, NextMember, CalmInv,
        DeviceInv
<1>13. CASE UNCHANGED vars
  BY <1>13, <1>1 DEF vars
<1>14. ASSUME NEW t \in Tasks, Drops(t)
      PROVE  DeviceInv'
  BY <1>14, DropStep, CalmBack DEF SameTask, CalmInv, DeviceInv, NoDevice
<1>15. ASSUME NEW t \in Tasks, SaveFails(t)
      PROVE  DeviceInv'
  <2>1. lost' # {}
    BY <1>15 DEF SaveFails
  <2> QED
    BY <2>1 DEF Calm
<1> QED
  BY <1>1, <1>2, <1>3, <1>4, <1>5, <1>6, <1>7, <1>8, <1>9, <1>10, <1>11, <1>12, <1>13, <1>14,
     <1>15
     DEF Next, TaskStep, FailStep, Drops

\* The creator founds the groups it has open ...
LEMMA LiveByStep ==
  ASSUME TypeOK, AddInv, RosterInv, ServedInv, CalmInv, Calm', [Next]_vars
  PROVE  \A h \in Channels : live'[<<Creator, h>>].by \in {NoUser, Creator}
<1>1. CASE UNCHANGED <<live>>
  BY <1>1, CalmBack DEF CalmInv, LeadInv
<1>2. ASSUME NEW u \in Users,
             JoinGuild(u) \/ MakeKey(u) \/ PublishKey(u)
      PROVE  \A h \in Channels : live'[<<Creator, h>>].by \in {NoUser, Creator}
  BY <1>2, <1>1
     DEF JoinGuild, MakeKey, PublishKey
<1>3. ASSUME NEW u \in Users, NEW c \in Channels,
             StartSync(u, c) \/ StartRestore(u, c) \/ ForceResync(u, c)
      PROVE  \A h \in Channels : live'[<<Creator, h>>].by \in {NoUser, Creator}
  BY <1>3, <1>1
     DEF StartSync, StartRestore, ForceResync
<1>4. ASSUME NEW u \in Users, NEW c \in Channels, NEW v \in members \union {NoUser},
             NEW d \in Devices \union {NoDevice}, StartBoot(u, c, v, d)
      PROVE  \A h \in Channels : live'[<<Creator, h>>].by \in {NoUser, Creator}
  BY <1>4, <1>1
     DEF StartBoot
<1>5. ASSUME NEW t \in Tasks,
             Look(t) \/ Create(t) \/ Mark(t) \/ List(t) \/ Finish(t)
             \/ (\E v \in todo[t] : Pass(t, v))
             \/ (\E v \in todo[t], k \in Devices : PickMember(t, v, k)) \/ AddFails(t)
             \/ StoreWelcome(t) \/ Recover(t) \/ DropSnapshot(t) \/ Unmark(t)
             \/ JoinWelcome(t) \/ JoinFails(t) \/ ClearPending(t) \/ SaveJoined(t)
             \/ PostFails(t)
      PROVE  \A h \in Channels : live'[<<Creator, h>>].by \in {NoUser, Creator}
  BY <1>5, <1>1
     DEF Look, Create, Mark, List, Finish, Pass, PickMember, AddFails, StoreWelcome,
         Recover, DropSnapshot, Unmark, JoinWelcome, JoinFails, ClearPending, SaveJoined,
         PostFails
<1>6. ASSUME NEW u \in Users, Login(u)
      PROVE  \A h \in Channels : live'[<<Creator, h>>].by \in {NoUser, Creator}
  <2>1. logins' = logins + 1 /\ logins = 0
    BY <1>6, CalmBack DEF Login, Calm
  <2> QED
    BY <2>1 DEF Calm
<1>7. ASSUME NEW t \in Tasks, Insert(t)
      PROVE  \A h \in Channels : live'[<<Creator, h>>].by \in {NoUser, Creator}
  <2>1. \A h \in Channels : live'[<<Creator, h>>] = live[<<Creator, h>>] \/ (t[1] = Creator
           /\ live'[<<Creator, h>>] = held[t])
    BY <1>7, TaskParts, DataTypes DEF Insert
  <2> QED
    BY <2>1, CalmBack DEF CalmInv, LeadInv, LeadTask
<1>8. ASSUME NEW t \in Tasks, InspectAndAdd(t)
      PROVE  \A h \in Channels : live'[<<Creator, h>>].by \in {NoUser, Creator}
  <2>1. Slot(t) \in Slots /\ live[Slot(t)] \in Group /\ t[1] = Creator
          /\ Slot(t) = <<Creator, t[2]>> /\ t[2] \in Channels
    BY <1>8, TaskParts, DataTypes, CreatorAdds, CalmBack
       DEF InspectAndAdd, Adding, CalmInv
  <2> DEFINE g == Grp(live[Slot(t)].gid, live[Slot(t)].by, live[Slot(t)].roster \union {who[t]})
  <2>2. g.by \in {NoUser, Creator}
    BY <2>1, CalmBack, GroupParts DEF CalmInv, LeadInv
  <2>3. \A s \in Slots : live'[s] \in {live[s], g}
    BY <1>8, <2>1, DataTypes DEF InspectAndAdd
  <2>4. \A h \in Channels : <<Creator, h>> \in Slots
    BY UserAssumption DEF Slots
  <2> QED
    BY <2>2, <2>3, <2>4, CalmBack DEF CalmInv, LeadInv
<1>9. ASSUME NEW t \in Tasks, DropSession(t)
      PROVE  \A h \in Channels : live'[<<Creator, h>>].by \in {NoUser, Creator}
  BY <1>9, CalmBack, RecoverFinds DEF DropSession
<1>10. CASE UNCHANGED vars
  BY <1>10, <1>1 DEF vars
<1>11. ASSUME NEW t \in Tasks, Drops(t)
      PROVE  \A h \in Channels : live'[<<Creator, h>>].by \in {NoUser, Creator}
  BY <1>11, <1>1, DropStep
<1>12. ASSUME NEW t \in Tasks, SaveFails(t)
      PROVE  \A h \in Channels : live'[<<Creator, h>>].by \in {NoUser, Creator}
  <2>1. lost' # {}
    BY <1>12 DEF SaveFails
  <2> QED
    BY <2>1 DEF Calm
<1> QED
  BY <1>1, <1>2, <1>3, <1>4, <1>5, <1>6, <1>7, <1>8, <1>9, <1>10, <1>11, <1>12
     DEF Next, TaskStep, FailStep, Drops

\* ... and those it saves.
LEMMA DiskByStep ==
  ASSUME TypeOK, AddInv, RosterInv, ServedInv, CalmInv, Calm', [Next]_vars
  PROVE  \A h \in Channels : disk'[<<Creator, h>>].by \in {NoUser, Creator}
<1>1. CASE UNCHANGED <<disk>>
  BY <1>1, CalmBack DEF CalmInv, LeadInv
<1>2. ASSUME NEW u \in Users,
             JoinGuild(u) \/ Login(u) \/ MakeKey(u) \/ PublishKey(u)
      PROVE  \A h \in Channels : disk'[<<Creator, h>>].by \in {NoUser, Creator}
  BY <1>2, <1>1
     DEF JoinGuild, Login, MakeKey, PublishKey
<1>3. ASSUME NEW u \in Users, NEW c \in Channels,
             StartSync(u, c) \/ StartRestore(u, c) \/ ForceResync(u, c)
      PROVE  \A h \in Channels : disk'[<<Creator, h>>].by \in {NoUser, Creator}
  BY <1>3, <1>1
     DEF StartSync, StartRestore, ForceResync
<1>4. ASSUME NEW u \in Users, NEW c \in Channels, NEW v \in members \union {NoUser},
             NEW d \in Devices \union {NoDevice}, StartBoot(u, c, v, d)
      PROVE  \A h \in Channels : disk'[<<Creator, h>>].by \in {NoUser, Creator}
  BY <1>4, <1>1
     DEF StartBoot
<1>5. ASSUME NEW t \in Tasks,
             Look(t) \/ Insert(t) \/ Mark(t) \/ List(t) \/ Finish(t)
             \/ (\E v \in todo[t] : Pass(t, v))
             \/ (\E v \in todo[t], k \in Devices : PickMember(t, v, k)) \/ AddFails(t)
             \/ StoreWelcome(t) \/ Recover(t) \/ DropSession(t) \/ Unmark(t)
             \/ JoinWelcome(t) \/ JoinFails(t) \/ ClearPending(t) \/ PostFails(t)
      PROVE  \A h \in Channels : disk'[<<Creator, h>>].by \in {NoUser, Creator}
  BY <1>5, <1>1
     DEF Look, Insert, Mark, List, Finish, Pass, PickMember, AddFails, StoreWelcome,
         Recover, DropSession, Unmark, JoinWelcome, JoinFails, ClearPending, PostFails
<1>6. ASSUME NEW t \in Tasks, Create(t)
      PROVE  \A h \in Channels : disk'[<<Creator, h>>].by \in {NoUser, Creator}
  <2> DEFINE g == Grp(created + 1, t[1], {t[1]})
  <2>1. t[1] = Creator
    BY <1>6, CalmBack DEF Create, CalmInv, LeadInv, LeadTask
  <2>2. g.by = Creator
    BY <2>1, GroupParts
  <2>3. \A h \in Channels : disk'[<<Creator, h>>] \in {disk[<<Creator, h>>], g}
    BY <1>6, TaskParts, DataTypes DEF Create
  <2> QED
    BY <2>2, <2>3, CalmBack DEF CalmInv, LeadInv
<1>7. ASSUME NEW t \in Tasks, InspectAndAdd(t)
      PROVE  \A h \in Channels : disk'[<<Creator, h>>].by \in {NoUser, Creator}
  <2>1. Slot(t) \in Slots /\ live[Slot(t)] \in Group /\ t[1] = Creator
          /\ Slot(t) = <<Creator, t[2]>> /\ t[2] \in Channels
    BY <1>7, TaskParts, DataTypes, CreatorAdds, CalmBack
       DEF InspectAndAdd, Adding, CalmInv
  <2> DEFINE g == Grp(live[Slot(t)].gid, live[Slot(t)].by, live[Slot(t)].roster \union {who[t]})
  <2>2. g.by \in {NoUser, Creator}
    BY <2>1, CalmBack, GroupParts DEF CalmInv, LeadInv
  <2>3. \A s \in Slots : disk'[s] \in {disk[s], g}
    BY <1>7, <2>1, DataTypes DEF InspectAndAdd
  <2>4. \A h \in Channels : <<Creator, h>> \in Slots
    BY UserAssumption DEF Slots
  <2> QED
    BY <2>2, <2>3, <2>4, CalmBack DEF CalmInv, LeadInv
<1>8. ASSUME NEW t \in Tasks, DropSnapshot(t)
      PROVE  \A h \in Channels : disk'[<<Creator, h>>].by \in {NoUser, Creator}
  BY <1>8, CalmBack DEF DropSnapshot, CalmInv, LeadInv, LeadTask
<1>9. ASSUME NEW t \in Tasks, SaveJoined(t)
      PROVE  \A h \in Channels : disk'[<<Creator, h>>].by \in {NoUser, Creator}
  <2>1. t[1] # Creator
    BY <1>9, CalmBack DEF SaveJoined, CalmInv, LeadInv, LeadTask, Joining
  <2>2. \A h \in Channels : disk'[<<Creator, h>>] = disk[<<Creator, h>>]
    BY <1>9, <2>1, TaskParts, DataTypes DEF SaveJoined
  <2> QED
    BY <2>2, CalmBack DEF CalmInv, LeadInv
<1>10. CASE UNCHANGED vars
  BY <1>10, <1>1 DEF vars
<1>11. ASSUME NEW t \in Tasks, Drops(t)
      PROVE  \A h \in Channels : disk'[<<Creator, h>>].by \in {NoUser, Creator}
  BY <1>11, <1>1, DropStep
<1>12. ASSUME NEW t \in Tasks, SaveFails(t)
      PROVE  \A h \in Channels : disk'[<<Creator, h>>].by \in {NoUser, Creator}
  BY <1>12, <1>1 DEF SaveFails
<1> QED
  BY <1>1, <1>2, <1>3, <1>4, <1>5, <1>6, <1>7, <1>8, <1>9, <1>10, <1>11, <1>12
     DEF Next, TaskStep, FailStep, Drops

\* A task that does not move leads no worse than before.
LEMMA LeadTaskStays ==
  ASSUME TypeOK, AddInv, RosterInv, ServedInv, CalmInv, Calm', [Next]_vars,
         NEW j \in Tasks, SameTask(j)
  PROVE  LeadTask(j)'
<1>1. LeadTask(j)
  BY CalmBack DEF CalmInv, LeadInv
<1>2. Slot(j) \in Slots
  BY TaskParts
<1>3. disk[Slot(j)] # NoGroup => disk'[Slot(j)] # NoGroup
  BY <1>2, DiskStays
<1>4. who[j] \in live[Slot(j)].roster => who[j] \in live'[Slot(j)].roster
  BY <1>2, LiveGrows, GroupParts DEF SameAndMore
<1> QED
  BY <1>1, <1>3, <1>4 DEF LeadTask, SameTask

\* Only the creator leads, and nothing is given up.
LEMMA LeadTaskStep ==
  ASSUME TypeOK, AddInv, RosterInv, ServedInv, CalmInv, FollowInv, Calm', [Next]_vars
  PROVE  \A j \in Tasks : LeadTask(j)'
<1>1. CASE UNCHANGED <<at, held, who, live, disk>>
  BY <1>1, CalmBack DEF CalmInv, LeadInv, LeadTask
<1>2. ASSUME NEW u \in Users,
             JoinGuild(u) \/ MakeKey(u) \/ PublishKey(u)
      PROVE  \A j \in Tasks : LeadTask(j)'
  BY <1>2, <1>1
     DEF JoinGuild, MakeKey, PublishKey
<1>3. ASSUME NEW u \in Users, NEW c \in Channels, ForceResync(u, c)
      PROVE  \A j \in Tasks : LeadTask(j)'
  BY <1>3, <1>1
     DEF ForceResync
<1>4. ASSUME NEW t \in Tasks, (\E v \in todo[t] : Pass(t, v))
      PROVE  \A j \in Tasks : LeadTask(j)'
  BY <1>4, <1>1
     DEF Pass
<1>5. ASSUME NEW u \in Users, Login(u)
      PROVE  \A j \in Tasks : LeadTask(j)'
  <2>1. logins' = logins + 1 /\ logins = 0
    BY <1>5, CalmBack DEF Login, Calm
  <2> QED
    BY <2>1 DEF Calm
<1>6. ASSUME NEW u \in Users, NEW c \in Channels, StartSync(u, c)
      PROVE  \A j \in Tasks : LeadTask(j)'
  <2> DEFINE t == <<u, c, "sync">>
  <2>1. t \in Tasks /\ t[1] = u /\ t[2] = c /\ t[3] = "sync"
    BY TaskParts DEF Kinds
  <2>5. Slot(t) = <<u, c>>
    BY <2>1 DEF Slot
  <2>2. \A j \in Tasks \ {t} : SameTask(j)
    BY <1>6, TaskTypes DEF StartSync, SameTask
  <2>3. IsLeader(u) <=> u = Creator
    BY CalmBack, LeaderIsCreator DEF CalmInv
  <2>6. LeadTask(t) /\ at[t] = "idle"
    BY <1>6, <2>1, CalmBack DEF StartSync, CanStart, CalmInv, LeadInv
  <2>7. ASSUME u = Creator PROVE LeadTask(t)'
    <3>1. welcomes[<<u, c, device[u]>>] = NoGroup
      BY <2>7, CalmBack, DataTypes DEF FollowInv, CreatorLeads, Calm
    <3>2. at'[t] = "look" /\ held'[t] = held[t]
      BY <1>6, <2>1, <3>1, TaskTypes DEF StartSync
    <3> QED
      BY <2>1, <2>6, <2>7, <3>2 DEF LeadTask, Joining
  <2>8. ASSUME u # Creator PROVE LeadTask(t)'
    <3>1. at'[t] = "join"
      BY <1>6, <2>1, <2>3, <2>8, TaskTypes DEF StartSync
    <3> QED
      BY <2>1, <2>8, <3>1 DEF LeadTask
  <2>4. LeadTask(t)'
    BY <2>7, <2>8
  <2> QED
    BY <2>2, <2>4, LeadTaskStays
<1>7. ASSUME NEW u \in Users, NEW c \in Channels, StartRestore(u, c)
      PROVE  \A j \in Tasks : LeadTask(j)'
  <2> DEFINE t == <<u, c, "restore">>
  <2>1. t \in Tasks /\ t[1] = u /\ t[2] = c /\ t[3] = "restore"
    BY TaskParts DEF Kinds
  <2>5. Slot(t) = <<u, c>>
    BY <2>1 DEF Slot
  <2>2. \A j \in Tasks \ {t} : SameTask(j)
    BY <1>7, TaskTypes DEF StartRestore, SameTask
  <2>3. IsLeader(u) <=> u = Creator
    BY CalmBack, LeaderIsCreator DEF CalmInv
  <2>4. LeadTask(t)'
    BY <1>7, <2>1, <2>3, <2>5, CalmBack, TaskTypes
       DEF StartRestore, CanStart, CalmInv, LeadInv, LeadTask, Joining
  <2> QED
    BY <2>2, <2>4, LeadTaskStays
<1>8. ASSUME NEW u \in Users, NEW c \in Channels, NEW v \in members \union {NoUser},
             NEW d \in Devices \union {NoDevice}, StartBoot(u, c, v, d)
      PROVE  \A j \in Tasks : LeadTask(j)'
  <2> DEFINE t == <<u, c, "boot">>
  <2>1. t \in Tasks /\ t[1] = u /\ t[2] = c /\ t[3] = "boot"
    BY TaskParts DEF Kinds
  <2>5. Slot(t) = <<u, c>>
    BY <2>1 DEF Slot
  <2>2. \A j \in Tasks \ {t} : SameTask(j)
    BY <1>8, TaskTypes DEF StartBoot, SameTask
  <2>3. IsLeader(u) <=> u = Creator
    BY CalmBack, LeaderIsCreator DEF CalmInv
  <2>4. LeadTask(t)'
    BY <1>8, <2>1, <2>3, <2>5, CalmBack, TaskTypes
       DEF StartBoot, CanStart, CalmInv, LeadInv, LeadTask, Joining
  <2> QED
    BY <2>2, <2>4, LeadTaskStays
<1>9. ASSUME NEW t \in Tasks, Look(t)
      PROVE  \A j \in Tasks : LeadTask(j)'
  <2>1. Slot(t) = <<t[1], t[2]>> /\ t[2] \in Channels /\ LeadTask(t)
    BY TaskParts, CalmBack DEF CalmInv, LeadInv
  <2>2. t[1] = Creator => disk[Slot(t)].by \in {NoUser, Creator}
    BY <2>1, CalmBack DEF CalmInv, LeadInv
  <2>3. at'[t] \in {"mark", "insert", "create"} /\ held'[t] \in {disk[Slot(t)], NoGroup}
    BY <1>9, TaskTypes DEF Look
  <2>4. t[1] # Creator => at'[t] # "create" /\ t[3] # "boot"
    BY <1>9, <2>1, TaskTypes DEF Look, LeadTask
  <2>5. t[1] = Creator => held'[t].by \in {NoUser, Creator}
    BY <2>2, <2>3, GroupParts
  <2>6. LeadTask(t)'
    BY <2>3, <2>4, <2>5 DEF LeadTask, Joining
  <2> QED
    BY <1>9, <2>6, TaskFrame, LeadTaskStays DEF TaskStep
<1>10. ASSUME NEW t \in Tasks, InspectAndAdd(t)
      PROVE  \A j \in Tasks : LeadTask(j)'
  <2>1. t[1] = Creator /\ LeadTask(t) /\ at[t] = "inspect"
    BY <1>10, CalmBack, CreatorAdds DEF InspectAndAdd, Adding, CalmInv, LeadInv
  <2>2. ASSUME who[t] \in live[Slot(t)].roster PROVE LeadTask(t)'
    <3>1. at'[t] = "recover" /\ UNCHANGED <<live, held, who>>
      BY <1>10, <2>2, TaskTypes DEF InspectAndAdd
    <3> QED
      BY <2>1, <2>2, <3>1 DEF LeadTask, Joining
  <2>3. ASSUME who[t] \notin live[Slot(t)].roster PROVE LeadTask(t)'
    <3>1. at'[t] = "post" /\ held'[t].by = live[Slot(t)].by
      BY <1>10, <2>3, TaskTypes, GroupParts DEF InspectAndAdd
    <3>2. live[Slot(t)].by \in {NoUser, Creator}
      BY <2>1, TaskParts, CalmBack DEF CalmInv, LeadInv
    <3> QED
      BY <2>1, <3>1, <3>2 DEF LeadTask, Joining
  <2>4. LeadTask(t)'
    BY <2>2, <2>3
  <2> QED
    BY <1>10, <2>4, TaskFrame, LeadTaskStays DEF TaskStep
<1>11. ASSUME NEW t \in Tasks, DropSession(t)
      PROVE  \A j \in Tasks : LeadTask(j)'
  BY <1>11, CalmBack, RecoverFinds DEF DropSession
<1>12. ASSUME NEW t \in Tasks, DropSnapshot(t)
      PROVE  \A j \in Tasks : LeadTask(j)'
  BY <1>12, CalmBack DEF DropSnapshot, CalmInv, LeadInv, LeadTask
<1>13. ASSUME NEW t \in Tasks, Unmark(t)
      PROVE  \A j \in Tasks : LeadTask(j)'
  BY <1>13, CalmBack DEF Unmark, CalmInv, LeadInv, LeadTask
<1>14. ASSUME NEW t \in Tasks, PostFails(t)
      PROVE  \A j \in Tasks : LeadTask(j)'
  <2>1. lost' # {}
    BY <1>14 DEF PostFails
  <2> QED
    BY <2>1 DEF Calm
<1>15. ASSUME NEW t \in Tasks,
             List(t) \/ Finish(t)
             \/ (\E v \in todo[t], k \in Devices : PickMember(t, v, k)) \/ AddFails(t)
             \/ StoreWelcome(t) \/ Recover(t)
      PROVE  \A j \in Tasks : LeadTask(j)'
  <2>1. t[1] = Creator /\ LeadTask(t)
    BY <1>15, CalmBack, CreatorAdds
      DEF List, Finish, PickMember, AddFails, StoreWelcome, Recover, Adding, CalmInv,
          LeadInv
  <2>2. at'[t] \in {"pick", "inspect", "idle"} /\ held'[t] \in {held[t], NoGroup}
    BY <1>15, TaskTypes
      DEF List, Finish, PickMember, AddFails, StoreWelcome, Recover, End, NextMember
  <2>3. LeadTask(t)'
    BY <2>1, <2>2, GroupParts DEF LeadTask, Joining
  <2> QED
    BY <1>15, <2>3, TaskFrame, LeadTaskStays DEF TaskStep
<1>16. ASSUME NEW t \in Tasks,
             Create(t) \/ Insert(t) \/ Mark(t) \/ JoinWelcome(t) \/ JoinFails(t)
             \/ ClearPending(t) \/ SaveJoined(t)
      PROVE  \A j \in Tasks : LeadTask(j)'
  <2>1. LeadTask(t)'
    BY <1>16, CalmBack, TaskTypes, GroupParts
      DEF Create, Insert, Mark, JoinWelcome, JoinFails, ClearPending, SaveJoined, End,
        CalmInv, LeadInv, LeadTask, Joining
  <2> QED
    BY <1>16, <2>1, TaskFrame, LeadTaskStays DEF TaskStep
<1>17. CASE UNCHANGED vars
  BY <1>17, <1>1 DEF vars
<1>18. ASSUME NEW t \in Tasks, Drops(t)
      PROVE  \A j \in Tasks : LeadTask(j)'
  <2>1. LeadTask(t)
    BY CalmBack DEF CalmInv, LeadInv
  <2>2. at'[t] \in {"pick", "idle"} /\ held'[t] \in {held[t], NoGroup}
    BY <1>18, <2>1, DropStep DEF LeadTask
  <2>3. at'[t] = "pick" => t[1] = Creator
    BY <1>18, CalmBack, CreatorAdds, DropStep DEF Adding, CalmInv
  <2>4. LeadTask(t)'
    BY <2>1, <2>2, <2>3, GroupParts DEF LeadTask, Joining
  <2> QED
    BY <1>18, <2>4, DropStep, LeadTaskStays
<1>19. ASSUME NEW t \in Tasks, SaveFails(t)
      PROVE  \A j \in Tasks : LeadTask(j)'
  <2>1. lost' # {}
    BY <1>19 DEF SaveFails
  <2> QED
    BY <2>1 DEF Calm
<1> QED
  BY <1>1, <1>2, <1>3, <1>4, <1>5, <1>6, <1>7, <1>8, <1>9, <1>10, <1>11, <1>12, <1>13,
     <1>14, <1>15, <1>16, <1>17, <1>18, <1>19
     DEF Next, TaskStep, FailStep, Drops

\* So the creator leads alone, whatever the step.
LEMMA LeadStep ==
  ASSUME TypeOK, AddInv, RosterInv, ServedInv, CalmInv, FollowInv, [Next]_vars
  PROVE  LeadInv'
  BY LiveByStep, DiskByStep, LeadTaskStep DEF LeadInv

\* What was the creator's group still is.
LEMMA OfCreatorStays ==
  ASSUME TypeOK, AddInv, RosterInv, ServedInv, CalmInv, Calm', [Next]_vars,
         NEW g, NEW h \in Channels, OfCreator(g, h)
  PROVE  OfCreatorNext(g, h)
<1>1. <<Creator, h>> \in Slots
  BY UserAssumption DEF Slots
<1> QED
  BY <1>1, LiveGrows DEF OfCreator, OfCreatorNext, SameAndMore

\* The others have the creator's group open, ...
LEMMA LiveGroupStep ==
  ASSUME TypeOK, AddInv, RosterInv, ServedInv, CalmInv, Calm', [Next]_vars
  PROVE  \A m \in Users \ {Creator}, h \in Channels : OfCreatorNext(live'[<<m, h>>], h)
<1>1. CASE UNCHANGED <<live>>
  BY <1>1, CalmBack, OfCreatorStays DEF CalmInv, GroupInv, HeldOfCreator
<1>2. ASSUME NEW u \in Users,
             JoinGuild(u) \/ MakeKey(u) \/ PublishKey(u)
      PROVE  \A m \in Users \ {Creator}, h \in Channels : OfCreatorNext(live'[<<m, h>>], h)
  BY <1>2, <1>1
     DEF JoinGuild, MakeKey, PublishKey
<1>3. ASSUME NEW u \in Users, NEW c \in Channels,
             StartSync(u, c) \/ StartRestore(u, c) \/ ForceResync(u, c)
      PROVE  \A m \in Users \ {Creator}, h \in Channels : OfCreatorNext(live'[<<m, h>>], h)
  BY <1>3, <1>1
     DEF StartSync, StartRestore, ForceResync
<1>4. ASSUME NEW u \in Users, NEW c \in Channels, NEW v \in members \union {NoUser},
             NEW d \in Devices \union {NoDevice}, StartBoot(u, c, v, d)
      PROVE  \A m \in Users \ {Creator}, h \in Channels : OfCreatorNext(live'[<<m, h>>], h)
  BY <1>4, <1>1
     DEF StartBoot
<1>5. ASSUME NEW t \in Tasks,
             Look(t) \/ Create(t) \/ Mark(t) \/ List(t) \/ Finish(t)
             \/ (\E v \in todo[t] : Pass(t, v))
             \/ (\E v \in todo[t], k \in Devices : PickMember(t, v, k)) \/ AddFails(t)
             \/ StoreWelcome(t) \/ Recover(t) \/ DropSnapshot(t) \/ Unmark(t)
             \/ JoinWelcome(t) \/ JoinFails(t) \/ ClearPending(t) \/ SaveJoined(t)
             \/ PostFails(t)
      PROVE  \A m \in Users \ {Creator}, h \in Channels : OfCreatorNext(live'[<<m, h>>], h)
  BY <1>5, <1>1
     DEF Look, Create, Mark, List, Finish, Pass, PickMember, AddFails, StoreWelcome,
         Recover, DropSnapshot, Unmark, JoinWelcome, JoinFails, ClearPending, SaveJoined,
         PostFails
<1>6. ASSUME NEW u \in Users, Login(u)
      PROVE  \A m \in Users \ {Creator}, h \in Channels : OfCreatorNext(live'[<<m, h>>], h)
  <2>1. logins' = logins + 1 /\ logins = 0
    BY <1>6, CalmBack DEF Login, Calm
  <2> QED
    BY <2>1 DEF Calm
<1>7. ASSUME NEW t \in Tasks, Insert(t)
      PROVE  \A m \in Users \ {Creator}, h \in Channels : OfCreatorNext(live'[<<m, h>>], h)
  <2>1. t[1] # Creator => OfCreatorNext(held[t], t[2])
    BY CalmBack, OfCreatorStays, TaskParts DEF CalmInv, GroupInv, HeldOfCreator
  <2>2. Slot(t) = <<t[1], t[2]>> /\ \A m \in Users, h \in Channels : <<m, h>> \in Slots
    BY TaskParts
  <2>3. \A s \in Slots : live'[s] \in {live[s], IF s = Slot(t) THEN held[t] ELSE live[s]}
    BY <1>7, DataTypes DEF Insert
  <2>4. \A m \in Users \ {Creator}, h \in Channels : OfCreatorNext(live[<<m, h>>], h)
    BY CalmBack, OfCreatorStays DEF CalmInv, GroupInv
  <2> QED
    BY <2>1, <2>2, <2>3, <2>4 DEF OfCreatorNext
<1>8. ASSUME NEW t \in Tasks, InspectAndAdd(t)
      PROVE  \A m \in Users \ {Creator}, h \in Channels : OfCreatorNext(live'[<<m, h>>], h)
  <2>1. t[1] = Creator
    BY <1>8, CalmBack, CreatorAdds DEF InspectAndAdd, Adding, CalmInv, LeadInv, LeadTask
  <2>2. Slot(t) = <<t[1], t[2]>> /\ \A m \in Users, h \in Channels : <<m, h>> \in Slots
    BY TaskParts
  <2>3. \A s \in Slots : s # Slot(t) => live'[s] = live[s]
    BY <1>8, DataTypes DEF InspectAndAdd
  <2>4. \A m \in Users \ {Creator}, h \in Channels : OfCreatorNext(live[<<m, h>>], h)
    BY CalmBack, OfCreatorStays DEF CalmInv, GroupInv
  <2> QED
    BY <2>1, <2>2, <2>3, <2>4 DEF OfCreatorNext
<1>9. ASSUME NEW t \in Tasks, DropSession(t)
      PROVE  \A m \in Users \ {Creator}, h \in Channels : OfCreatorNext(live'[<<m, h>>], h)
  BY <1>9, CalmBack, RecoverFinds DEF DropSession
<1>10. CASE UNCHANGED vars
  BY <1>10, <1>1 DEF vars
<1>11. ASSUME NEW t \in Tasks, Drops(t)
      PROVE  \A m \in Users \ {Creator}, h \in Channels : OfCreatorNext(live'[<<m, h>>], h)
  BY <1>11, <1>1, DropStep
<1>12. ASSUME NEW t \in Tasks, SaveFails(t)
      PROVE  \A m \in Users \ {Creator}, h \in Channels : OfCreatorNext(live'[<<m, h>>], h)
  <2>1. lost' # {}
    BY <1>12 DEF SaveFails
  <2> QED
    BY <2>1 DEF Calm
<1> QED
  BY <1>1, <1>2, <1>3, <1>4, <1>5, <1>6, <1>7, <1>8, <1>9, <1>10, <1>11, <1>12
     DEF Next, TaskStep, FailStep, Drops

\* ... they save it, ...
LEMMA DiskGroupStep ==
  ASSUME TypeOK, AddInv, RosterInv, ServedInv, CalmInv, Calm', [Next]_vars
  PROVE  \A m \in Users \ {Creator}, h \in Channels : OfCreatorNext(disk'[<<m, h>>], h)
<1>1. CASE UNCHANGED <<disk>>
  BY <1>1, CalmBack, OfCreatorStays DEF CalmInv, GroupInv, HeldOfCreator
<1>2. ASSUME NEW u \in Users,
             JoinGuild(u) \/ Login(u) \/ MakeKey(u) \/ PublishKey(u)
      PROVE  \A m \in Users \ {Creator}, h \in Channels : OfCreatorNext(disk'[<<m, h>>], h)
  BY <1>2, <1>1
     DEF JoinGuild, Login, MakeKey, PublishKey
<1>3. ASSUME NEW u \in Users, NEW c \in Channels,
             StartSync(u, c) \/ StartRestore(u, c) \/ ForceResync(u, c)
      PROVE  \A m \in Users \ {Creator}, h \in Channels : OfCreatorNext(disk'[<<m, h>>], h)
  BY <1>3, <1>1
     DEF StartSync, StartRestore, ForceResync
<1>4. ASSUME NEW u \in Users, NEW c \in Channels, NEW v \in members \union {NoUser},
             NEW d \in Devices \union {NoDevice}, StartBoot(u, c, v, d)
      PROVE  \A m \in Users \ {Creator}, h \in Channels : OfCreatorNext(disk'[<<m, h>>], h)
  BY <1>4, <1>1
     DEF StartBoot
<1>5. ASSUME NEW t \in Tasks,
             Look(t) \/ Insert(t) \/ Mark(t) \/ List(t) \/ Finish(t)
             \/ (\E v \in todo[t] : Pass(t, v))
             \/ (\E v \in todo[t], k \in Devices : PickMember(t, v, k)) \/ AddFails(t)
             \/ StoreWelcome(t) \/ Recover(t) \/ DropSession(t) \/ Unmark(t)
             \/ JoinWelcome(t) \/ JoinFails(t) \/ ClearPending(t) \/ PostFails(t)
      PROVE  \A m \in Users \ {Creator}, h \in Channels : OfCreatorNext(disk'[<<m, h>>], h)
  BY <1>5, <1>1
     DEF Look, Insert, Mark, List, Finish, Pass, PickMember, AddFails, StoreWelcome,
         Recover, DropSession, Unmark, JoinWelcome, JoinFails, ClearPending, PostFails
<1>6. ASSUME NEW t \in Tasks, Create(t)
      PROVE  \A m \in Users \ {Creator}, h \in Channels : OfCreatorNext(disk'[<<m, h>>], h)
  <2>1. t[1] = Creator
    BY <1>6, CalmBack, CreatorAdds DEF Create, Adding, CalmInv, LeadInv, LeadTask
  <2>2. Slot(t) = <<t[1], t[2]>> /\ \A m \in Users, h \in Channels : <<m, h>> \in Slots
    BY TaskParts
  <2>3. \A s \in Slots : s # Slot(t) => disk'[s] = disk[s]
    BY <1>6, DataTypes DEF Create
  <2>4. \A m \in Users \ {Creator}, h \in Channels : OfCreatorNext(disk[<<m, h>>], h)
    BY CalmBack, OfCreatorStays DEF CalmInv, GroupInv
  <2> QED
    BY <2>1, <2>2, <2>3, <2>4 DEF OfCreatorNext
<1>7. ASSUME NEW t \in Tasks, InspectAndAdd(t)
      PROVE  \A m \in Users \ {Creator}, h \in Channels : OfCreatorNext(disk'[<<m, h>>], h)
  <2>1. t[1] = Creator
    BY <1>7, CalmBack, CreatorAdds DEF InspectAndAdd, Adding, CalmInv, LeadInv, LeadTask
  <2>2. Slot(t) = <<t[1], t[2]>> /\ \A m \in Users, h \in Channels : <<m, h>> \in Slots
    BY TaskParts
  <2>3. \A s \in Slots : s # Slot(t) => disk'[s] = disk[s]
    BY <1>7, DataTypes DEF InspectAndAdd
  <2>4. \A m \in Users \ {Creator}, h \in Channels : OfCreatorNext(disk[<<m, h>>], h)
    BY CalmBack, OfCreatorStays DEF CalmInv, GroupInv
  <2> QED
    BY <2>1, <2>2, <2>3, <2>4 DEF OfCreatorNext
<1>8. ASSUME NEW t \in Tasks, DropSnapshot(t)
      PROVE  \A m \in Users \ {Creator}, h \in Channels : OfCreatorNext(disk'[<<m, h>>], h)
  BY <1>8, CalmBack DEF DropSnapshot, CalmInv, LeadInv, LeadTask
<1>9. ASSUME NEW t \in Tasks, SaveJoined(t)
      PROVE  \A m \in Users \ {Creator}, h \in Channels : OfCreatorNext(disk'[<<m, h>>], h)
  <2>1. t[1] # Creator => OfCreatorNext(held[t], t[2])
    BY CalmBack, OfCreatorStays, TaskParts DEF CalmInv, GroupInv, HeldOfCreator
  <2>2. Slot(t) = <<t[1], t[2]>> /\ \A m \in Users, h \in Channels : <<m, h>> \in Slots
    BY TaskParts
  <2>3. \A s \in Slots : disk'[s] \in {disk[s], IF s = Slot(t) THEN held[t] ELSE disk[s]}
    BY <1>9, DataTypes DEF SaveJoined
  <2>4. \A m \in Users \ {Creator}, h \in Channels : OfCreatorNext(disk[<<m, h>>], h)
    BY CalmBack, OfCreatorStays DEF CalmInv, GroupInv
  <2> QED
    BY <2>1, <2>2, <2>3, <2>4 DEF OfCreatorNext
<1>10. CASE UNCHANGED vars
  BY <1>10, <1>1 DEF vars
<1>11. ASSUME NEW t \in Tasks, Drops(t)
      PROVE  \A m \in Users \ {Creator}, h \in Channels : OfCreatorNext(disk'[<<m, h>>], h)
  BY <1>11, <1>1, DropStep
<1>12. ASSUME NEW t \in Tasks, SaveFails(t)
      PROVE  \A m \in Users \ {Creator}, h \in Channels : OfCreatorNext(disk'[<<m, h>>], h)
  BY <1>12, <1>1 DEF SaveFails
<1> QED
  BY <1>1, <1>2, <1>3, <1>4, <1>5, <1>6, <1>7, <1>8, <1>9, <1>10, <1>11, <1>12
     DEF Next, TaskStep, FailStep, Drops

\* ... the welcomes are to it, ...
LEMMA WelcomeGroupStep ==
  ASSUME TypeOK, AddInv, RosterInv, ServedInv, CalmInv, Calm', [Next]_vars
  PROVE  \A m \in Users, h \in Channels, e \in Devices : OfCreatorNext(welcomes'[<<m, h, e>>], h)
<1>1. CASE UNCHANGED <<welcomes>>
  BY <1>1, CalmBack, OfCreatorStays DEF CalmInv, GroupInv, HeldOfCreator
<1>2. ASSUME NEW u \in Users,
             JoinGuild(u) \/ Login(u) \/ MakeKey(u) \/ PublishKey(u)
      PROVE  \A m \in Users, h \in Channels, e \in Devices : OfCreatorNext(welcomes'[<<m, h,
                e>>], h)
  BY <1>2, <1>1
     DEF JoinGuild, Login, MakeKey, PublishKey
<1>3. ASSUME NEW u \in Users, NEW c \in Channels,
             StartSync(u, c) \/ StartRestore(u, c) \/ ForceResync(u, c)
      PROVE  \A m \in Users, h \in Channels, e \in Devices : OfCreatorNext(welcomes'[<<m, h,
                e>>], h)
  BY <1>3, <1>1
     DEF StartSync, StartRestore, ForceResync
<1>4. ASSUME NEW u \in Users, NEW c \in Channels, NEW v \in members \union {NoUser},
             NEW d \in Devices \union {NoDevice}, StartBoot(u, c, v, d)
      PROVE  \A m \in Users, h \in Channels, e \in Devices : OfCreatorNext(welcomes'[<<m, h,
                e>>], h)
  BY <1>4, <1>1
     DEF StartBoot
<1>5. ASSUME NEW t \in Tasks,
             Look(t) \/ Create(t) \/ Insert(t) \/ Mark(t) \/ List(t) \/ Finish(t)
             \/ (\E v \in todo[t] : Pass(t, v))
             \/ (\E v \in todo[t], k \in Devices : PickMember(t, v, k))
             \/ InspectAndAdd(t) \/ AddFails(t) \/ Recover(t) \/ DropSession(t)
             \/ DropSnapshot(t) \/ Unmark(t) \/ JoinWelcome(t) \/ JoinFails(t)
             \/ ClearPending(t) \/ SaveJoined(t)
      PROVE  \A m \in Users, h \in Channels, e \in Devices : OfCreatorNext(welcomes'[<<m, h,
                e>>], h)
  BY <1>5, <1>1
     DEF Look, Create, Insert, Mark, List, Finish, Pass, PickMember, InspectAndAdd,
         AddFails, Recover, DropSession, DropSnapshot, Unmark, JoinWelcome, JoinFails,
         ClearPending, SaveJoined
<1>6. ASSUME NEW t \in Tasks, StoreWelcome(t)
      PROVE  \A m \in Users, h \in Channels, e \in Devices : OfCreatorNext(welcomes'[<<m, h,
                e>>], h)
  <2>1. at[t] = "post" /\ <<who[t], t[2], dev[t]>> \in Users \X Channels \X Devices
          /\ t[2] \in Channels
    BY <1>6, TaskParts DEF StoreWelcome, AddInv, Adding
  <2>2. OfCreatorNext(held[t], t[2])
    BY <2>1, CalmBack, OfCreatorStays DEF CalmInv, GroupInv, HeldOfCreator
  <2>3. \A m \in Users, h \in Channels, e \in Devices : OfCreatorNext(welcomes[<<m, h, e>>], h)
    BY CalmBack, OfCreatorStays DEF CalmInv, GroupInv
  <2>4. \A w \in Users \X Channels \X Devices :
          welcomes'[w] \in {welcomes[w], IF w = <<who[t], t[2],
            dev[t]>> THEN held[t] ELSE welcomes[w]}
    BY <1>6, <2>1, DataTypes DEF StoreWelcome
  <2> QED
    BY <2>1, <2>2, <2>3, <2>4 DEF OfCreatorNext
<1>7. ASSUME NEW t \in Tasks, PostFails(t)
      PROVE  \A m \in Users, h \in Channels, e \in Devices : OfCreatorNext(welcomes'[<<m, h,
                e>>], h)
  <2>1. lost' # {}
    BY <1>7 DEF PostFails
  <2> QED
    BY <2>1 DEF Calm
<1>8. CASE UNCHANGED vars
  BY <1>8, <1>1 DEF vars
<1>9. ASSUME NEW t \in Tasks, Drops(t)
      PROVE  \A m \in Users, h \in Channels, e \in Devices : OfCreatorNext(welcomes'[<<m, h,
                e>>], h)
  BY <1>9, <1>1, DropStep
<1>10. ASSUME NEW t \in Tasks, SaveFails(t)
      PROVE  \A m \in Users, h \in Channels, e \in Devices : OfCreatorNext(welcomes'[<<m, h,
                e>>], h)
  BY <1>10, <1>1 DEF SaveFails
<1> QED
  BY <1>1, <1>2, <1>3, <1>4, <1>5, <1>6, <1>7, <1>8, <1>9, <1>10
     DEF Next, TaskStep, FailStep, Drops

\* What a task that does not move has in hand stays the creator's group ...
LEMMA HeldGroupStays ==
  ASSUME TypeOK, AddInv, RosterInv, ServedInv, CalmInv, Calm', [Next]_vars,
         NEW j \in Tasks, SameTask(j)
  PROVE  HeldOfCreatorNext(j)
<1>1. HeldOfCreator(j) /\ j[2] \in Channels
  BY CalmBack, TaskParts DEF CalmInv, GroupInv
<1> QED
  BY <1>1, OfCreatorStays DEF HeldOfCreator, HeldOfCreatorNext, SameTask

\* ... and so is what the tasks take over from it.
LEMMA HeldGroupStep ==
  ASSUME TypeOK, AddInv, RosterInv, ServedInv, CalmInv, Calm', [Next]_vars
  PROVE  \A j \in Tasks : HeldOfCreatorNext(j)
<1>1. CASE UNCHANGED <<at, held, live>>
  BY <1>1, CalmBack, OfCreatorStays, TaskParts
     DEF CalmInv, GroupInv, HeldOfCreator, HeldOfCreatorNext
<1>2. ASSUME NEW u \in Users,
             JoinGuild(u) \/ MakeKey(u) \/ PublishKey(u)
      PROVE  \A j \in Tasks : HeldOfCreatorNext(j)
  BY <1>2, <1>1
     DEF JoinGuild, MakeKey, PublishKey
<1>3. ASSUME NEW u \in Users, NEW c \in Channels, ForceResync(u, c)
      PROVE  \A j \in Tasks : HeldOfCreatorNext(j)
  BY <1>3, <1>1
     DEF ForceResync
<1>4. ASSUME NEW t \in Tasks, (\E v \in todo[t] : Pass(t, v))
      PROVE  \A j \in Tasks : HeldOfCreatorNext(j)
  BY <1>4, <1>1
     DEF Pass
<1>5. ASSUME NEW u \in Users, Login(u)
      PROVE  \A j \in Tasks : HeldOfCreatorNext(j)
  <2>1. logins' = logins + 1 /\ logins = 0
    BY <1>5, CalmBack DEF Login, Calm
  <2> QED
    BY <2>1 DEF Calm
<1>6. ASSUME NEW u \in Users, NEW c \in Channels, StartSync(u, c)
      PROVE  \A j \in Tasks : HeldOfCreatorNext(j)
  <2> DEFINE t == <<u, c, "sync">>
  <2>1. t \in Tasks /\ t[1] = u /\ t[2] = c
    BY TaskParts DEF Kinds
  <2>2. \A j \in Tasks \ {t} : SameTask(j)
    BY <1>6, TaskTypes DEF StartSync, SameTask
  <2>3. HeldOfCreator(t) /\ (OfCreator(held[t], c) => OfCreatorNext(held[t], c))
    BY <2>1, CalmBack, OfCreatorStays DEF CalmInv, GroupInv
  <2>4. OfCreatorNext(welcomes[<<u, c, device[u]>>], c)
    BY CalmBack, OfCreatorStays, DataTypes DEF CalmInv, GroupInv
  <2>5. HeldOfCreatorNext(t)
    BY <1>6, <2>1, <2>3, <2>4, TaskTypes
       DEF StartSync, CanStart, HeldOfCreator, HeldOfCreatorNext
  <2> QED
    BY <2>2, <2>5, HeldGroupStays
<1>7. ASSUME NEW u \in Users, NEW c \in Channels, StartRestore(u, c)
      PROVE  \A j \in Tasks : HeldOfCreatorNext(j)
  <2> DEFINE t == <<u, c, "restore">>
  <2>1. t \in Tasks /\ t[1] = u /\ t[2] = c
    BY TaskParts DEF Kinds
  <2>2. \A j \in Tasks \ {t} : SameTask(j)
    BY <1>7, TaskTypes DEF StartRestore, SameTask
  <2>3. HeldOfCreator(t) /\ (OfCreator(held[t], c) => OfCreatorNext(held[t], c))
    BY <2>1, CalmBack, OfCreatorStays DEF CalmInv, GroupInv
  <2>5. HeldOfCreatorNext(t)
    BY <1>7, <2>1, <2>3, TaskTypes
       DEF StartRestore, CanStart, HeldOfCreator, HeldOfCreatorNext
  <2> QED
    BY <2>2, <2>5, HeldGroupStays
<1>8. ASSUME NEW u \in Users, NEW c \in Channels, NEW v \in members \union {NoUser},
             NEW d \in Devices \union {NoDevice}, StartBoot(u, c, v, d)
      PROVE  \A j \in Tasks : HeldOfCreatorNext(j)
  <2> DEFINE t == <<u, c, "boot">>
  <2>1. t \in Tasks /\ t[1] = u /\ t[2] = c
    BY TaskParts DEF Kinds
  <2>2. \A j \in Tasks \ {t} : SameTask(j)
    BY <1>8, TaskTypes DEF StartBoot, SameTask
  <2>3. HeldOfCreator(t) /\ (OfCreator(held[t], c) => OfCreatorNext(held[t], c))
    BY <2>1, CalmBack, OfCreatorStays DEF CalmInv, GroupInv
  <2>5. HeldOfCreatorNext(t)
    BY <1>8, <2>1, <2>3, TaskTypes
       DEF StartBoot, CanStart, HeldOfCreator, HeldOfCreatorNext
  <2> QED
    BY <2>2, <2>5, HeldGroupStays
<1>9. ASSUME NEW t \in Tasks, Look(t)
      PROVE  \A j \in Tasks : HeldOfCreatorNext(j)
  <2>1. t[1] \in Users /\ t[2] \in Channels /\ Slot(t) = <<t[1], t[2]>>
    BY TaskParts
  <2>2. t[1] # Creator => OfCreatorNext(disk[Slot(t)], t[2])
    BY <2>1, CalmBack, OfCreatorStays DEF CalmInv, GroupInv
  <2>3. HeldOfCreatorNext(t)
    BY <1>9, <2>2, TaskTypes DEF Look, HeldOfCreatorNext, OfCreatorNext
  <2> QED
    BY <1>9, <2>3, TaskFrame, HeldGroupStays DEF TaskStep
<1>10. ASSUME NEW t \in Tasks, Create(t)
      PROVE  \A j \in Tasks : HeldOfCreatorNext(j)
  <2>1. t[1] = Creator
    BY <1>10, CalmBack DEF Create, CalmInv, LeadInv, LeadTask
  <2>2. HeldOfCreatorNext(t)
    BY <1>10, <2>1, TaskTypes DEF Create, HeldOfCreatorNext
  <2> QED
    BY <1>10, <2>2, TaskFrame, HeldGroupStays DEF TaskStep
<1>11. ASSUME NEW t \in Tasks, InspectAndAdd(t)
      PROVE  \A j \in Tasks : HeldOfCreatorNext(j)
  <2>1. t[1] = Creator /\ Slot(t) \in Slots /\ Slot(t) = <<Creator, t[2]>>
    BY <1>11, TaskParts, CalmBack, CreatorAdds DEF InspectAndAdd, Adding, CalmInv
  <2>2. CASE who[t] \in live[Slot(t)].roster
    BY <1>11, <2>1, <2>2, TaskTypes, TaskFrame, HeldGroupStays
       DEF InspectAndAdd, TaskStep, HeldOfCreatorNext
  <2>3. CASE who[t] \notin live[Slot(t)].roster
    <3> DEFINE g == Grp(live[Slot(t)].gid, live[Slot(t)].by, live[Slot(t)].roster \union {who[t]})
    <3>1. held'[t] = g
      BY <1>11, <2>3, TaskTypes DEF InspectAndAdd
    <3>5. g # NoGroup
      BY GroupParts
    <3>4. live'[Slot(t)] = g
      BY <1>11, <2>1, <2>3, DataTypes DEF InspectAndAdd
    <3>2. HeldOfCreatorNext(t)
      BY <2>1, <3>1, <3>4, <3>5 DEF HeldOfCreatorNext, OfCreatorNext
    <3> QED
      BY <1>11, <3>2, TaskFrame, HeldGroupStays DEF TaskStep
  <2> QED
    BY <2>2, <2>3
<1>12. ASSUME NEW t \in Tasks, DropSession(t)
      PROVE  \A j \in Tasks : HeldOfCreatorNext(j)
  BY <1>12, CalmBack, RecoverFinds DEF DropSession
<1>13. ASSUME NEW t \in Tasks, DropSnapshot(t)
      PROVE  \A j \in Tasks : HeldOfCreatorNext(j)
  BY <1>13, CalmBack DEF DropSnapshot, CalmInv, LeadInv, LeadTask
<1>14. ASSUME NEW t \in Tasks, Unmark(t)
      PROVE  \A j \in Tasks : HeldOfCreatorNext(j)
  BY <1>14, CalmBack DEF Unmark, CalmInv, LeadInv, LeadTask
<1>15. ASSUME NEW t \in Tasks, PostFails(t)
      PROVE  \A j \in Tasks : HeldOfCreatorNext(j)
  <2>1. lost' # {}
    BY <1>15 DEF PostFails
  <2> QED
    BY <2>1 DEF Calm
<1>16. ASSUME NEW t \in Tasks,
             Mark(t) \/ List(t)
             \/ (\E v \in todo[t], k \in Devices : PickMember(t, v, k))
             \/ JoinWelcome(t) \/ ClearPending(t) \/ SaveJoined(t)
      PROVE  \A j \in Tasks : HeldOfCreatorNext(j)
  <2>1. HeldOfCreator(t) /\ t[2] \in Channels
    BY CalmBack, TaskParts DEF CalmInv, GroupInv
  <2>2. OfCreator(held[t], t[2]) => OfCreatorNext(held[t], t[2])
    BY <2>1, OfCreatorStays
  <2>3. HeldOfCreatorNext(t)
    BY <1>16, <2>1, <2>2, TaskTypes
      DEF Mark, List, PickMember, JoinWelcome, ClearPending, SaveJoined, End,
        HeldOfCreator, HeldOfCreatorNext, OfCreatorNext
  <2> QED
    BY <1>16, <2>3, TaskFrame, HeldGroupStays DEF TaskStep
<1>17. ASSUME NEW t \in Tasks,
             Insert(t) \/ Finish(t) \/ AddFails(t) \/ StoreWelcome(t) \/ Recover(t)
             \/ JoinFails(t)
      PROVE  \A j \in Tasks : HeldOfCreatorNext(j)
  <2>1. HeldOfCreatorNext(t)
    BY <1>17, TaskTypes
      DEF Insert, Finish, AddFails, StoreWelcome, Recover, JoinFails, End, NextMember,
        HeldOfCreatorNext, OfCreatorNext
  <2> QED
    BY <1>17, <2>1, TaskFrame, HeldGroupStays DEF TaskStep
<1>18. CASE UNCHANGED vars
  BY <1>18, <1>1 DEF vars
<1>19. ASSUME NEW t \in Tasks, Drops(t)
      PROVE  \A j \in Tasks : HeldOfCreatorNext(j)
  <2>1. HeldOfCreator(t) /\ t[2] \in Channels
    BY CalmBack, TaskParts DEF CalmInv, GroupInv
  <2>2. OfCreator(held[t], t[2]) => OfCreatorNext(held[t], t[2])
    BY <2>1, OfCreatorStays
  <2>3. HeldOfCreatorNext(t)
    BY <1>19, <2>1, <2>2, DropStep DEF HeldOfCreator, HeldOfCreatorNext, OfCreatorNext
  <2> QED
    BY <1>19, <2>3, DropStep, HeldGroupStays
<1>20. ASSUME NEW t \in Tasks, SaveFails(t)
      PROVE  \A j \in Tasks : HeldOfCreatorNext(j)
  <2>1. lost' # {}
    BY <1>20 DEF SaveFails
  <2> QED
    BY <2>1 DEF Calm
<1> QED
  BY <1>1, <1>2, <1>3, <1>4, <1>5, <1>6, <1>7, <1>8, <1>9, <1>10, <1>11, <1>12, <1>13,
     <1>14, <1>15, <1>16, <1>17, <1>18, <1>19, <1>20
     DEF Next, TaskStep, FailStep, Drops

\* So everything that left the creator is its group, whatever the step.
LEMMA GroupStep ==
  ASSUME TypeOK, AddInv, RosterInv, ServedInv, CalmInv, [Next]_vars
  PROVE  GroupInv'
  BY LiveGroupStep, DiskGroupStep, WelcomeGroupStep, HeldGroupStep
     DEF GroupInv, HeldOfCreator, HeldOfCreatorNext, OfCreator, OfCreatorNext

-----------------------------------------------------------------------------
\* Where the copies are.
LEMMA CopyParts ==
  ASSUME TypeOK
  PROVE  /\ \A s \in Slots : live[s] \in Copies(s[2]) /\ disk[s] \in Copies(s[2])
         /\ \A u \in Users, h \in Channels, d \in Devices : welcomes[<<u, h, d>>] \in Copies(h)
         /\ \A j \in Tasks : /\ held[j] \in Copies(j[2]) /\ live[Slot(j)] \in Copies(j[2])
                             /\ disk[Slot(j)] \in Copies(j[2])
         /\ \A h \in Channels : \A g \in Copies(h) : g \in Group
<1>1. \A s \in Slots : live[s] \in Copies(s[2]) /\ disk[s] \in Copies(s[2])
  <2> SUFFICES ASSUME NEW s \in Slots PROVE live[s] \in Copies(s[2]) /\ disk[s] \in Copies(s[2])
    OBVIOUS
  <2>1. s[1] \in Users /\ s = <<s[1], s[2]>>
    BY TaskParts
  <2> QED
    BY <2>1 DEF Copies
<1>2. \A u \in Users, h \in Channels, d \in Devices : welcomes[<<u, h, d>>] \in Copies(h)
  BY DEF Copies
<1>3. \A j \in Tasks : held[j] \in Copies(j[2])
  <2> SUFFICES ASSUME NEW j \in Tasks PROVE held[j] \in Copies(j[2])
    OBVIOUS
  <2>1. j[1] \in Users /\ j[3] \in Kinds /\ j = <<j[1], j[2], j[3]>>
    BY TaskParts
  <2> QED
    BY <2>1 DEF Copies
<1>4. \A j \in Tasks : live[Slot(j)] \in Copies(j[2]) /\ disk[Slot(j)] \in Copies(j[2])
  BY <1>1, TaskParts
<1>5. ASSUME NEW h \in Channels, NEW g \in Copies(h)
      PROVE  g \in Group
  <2>1. ASSUME NEW u \in Users PROVE live[<<u, h>>] \in Group /\ disk[<<u, h>>] \in Group
    BY TaskParts, DataTypes
  <2>2. ASSUME NEW u \in Users, NEW d \in Devices PROVE welcomes[<<u, h, d>>] \in Group
    BY DataTypes
  <2>3. ASSUME NEW u \in Users, NEW k \in Kinds PROVE held[<<u, h, k>>] \in Group
    BY TaskParts, TaskTypes
  <2>4. \/ \E u \in Users : g = live[<<u, h>>] \/ g = disk[<<u, h>>]
        \/ \E u \in Users, d \in Devices : g = welcomes[<<u, h, d>>]
        \/ \E u \in Users, k \in Kinds : g = held[<<u, h, k>>]
    BY DEF Copies
  <2> QED
    BY <2>1, <2>2, <2>3, <2>4
<1> QED
  BY <1>1, <1>2, <1>3, <1>4, <1>5

\* Those the creator does not have open are the copies but that one.
LEMMA AwayParts ==
  ASSUME TypeOK
  PROVE  /\ \A s \in Slots : disk[s] \in Away(s[2]) /\ (s[1] # Creator => live[s] \in Away(s[2]))
         /\ \A u \in Users, h \in Channels, d \in Devices : welcomes[<<u, h, d>>] \in Away(h)
         /\ \A j \in Tasks : held[j] \in Away(j[2]) /\ disk[Slot(j)] \in Away(j[2])
         /\ \A h \in Channels : Away(h) \subseteq Copies(h)
<1>1. \A s \in Slots : disk[s] \in Away(s[2]) /\ (s[1] # Creator => live[s] \in Away(s[2]))
  <2> SUFFICES ASSUME NEW s \in Slots
               PROVE  disk[s] \in Away(s[2]) /\ (s[1] # Creator => live[s] \in Away(s[2]))
    OBVIOUS
  <2>1. s[1] \in Users /\ s = <<s[1], s[2]>>
    BY TaskParts
  <2> QED
    BY <2>1 DEF Away
<1>2. \A u \in Users, h \in Channels, d \in Devices : welcomes[<<u, h, d>>] \in Away(h)
  BY DEF Away
<1>3. \A j \in Tasks : held[j] \in Away(j[2])
  <2> SUFFICES ASSUME NEW j \in Tasks PROVE held[j] \in Away(j[2])
    OBVIOUS
  <2>1. j[1] \in Users /\ j[3] \in Kinds /\ j = <<j[1], j[2], j[3]>>
    BY TaskParts
  <2> QED
    BY <2>1 DEF Away
<1>4. \A j \in Tasks : disk[Slot(j)] \in Away(j[2])
  BY <1>1, TaskParts
<1>5. ASSUME NEW h \in Channels, NEW g \in Away(h)
      PROVE  g \in Copies(h)
  <2>1. \/ \E u \in Users : g = live[<<u, h>>] \/ g = disk[<<u, h>>]
        \/ \E u \in Users, d \in Devices : g = welcomes[<<u, h, d>>]
        \/ \E u \in Users, k \in Kinds : g = held[<<u, h, k>>]
    BY DEF Away
  <2> QED
    BY <2>1 DEF Copies
<1> QED
  BY <1>1, <1>2, <1>3, <1>4, <1>5

\* A session is opened with a copy, or a member is added to the one it has.
LEMMA LiveMoves ==
  ASSUME TypeOK, AddInv, [Next]_vars
  PROVE  \A s \in Slots : LiveMoved(s)
<1>1. CASE UNCHANGED <<live>>
  BY <1>1 DEF LiveMoved
<1>2. ASSUME NEW u \in Users,
             JoinGuild(u) \/ MakeKey(u) \/ PublishKey(u)
      PROVE  \A s \in Slots : LiveMoved(s)
  BY <1>2, <1>1 DEF JoinGuild, MakeKey, PublishKey
<1>3. ASSUME NEW u \in Users, NEW c \in Channels,
             StartSync(u, c) \/ StartRestore(u, c) \/ ForceResync(u, c)
      PROVE  \A s \in Slots : LiveMoved(s)
  BY <1>3, <1>1 DEF StartSync, StartRestore, ForceResync
<1>4. ASSUME NEW u \in Users, NEW c \in Channels, NEW v \in members \union {NoUser},
             NEW d \in Devices \union {NoDevice}, StartBoot(u, c, v, d)
      PROVE  \A s \in Slots : LiveMoved(s)
  BY <1>4, <1>1 DEF StartBoot
<1>5. ASSUME NEW t \in Tasks,
             Look(t) \/ Create(t) \/ Mark(t) \/ List(t) \/ Finish(t)
             \/ (\E v \in todo[t] : Pass(t, v))
             \/ (\E v \in todo[t], k \in Devices : PickMember(t, v, k)) \/ AddFails(t)
             \/ StoreWelcome(t) \/ Recover(t) \/ DropSnapshot(t) \/ Unmark(t)
             \/ JoinWelcome(t) \/ JoinFails(t) \/ ClearPending(t) \/ SaveJoined(t)
             \/ PostFails(t)
      PROVE  \A s \in Slots : LiveMoved(s)
  BY <1>5, <1>1 DEF Look, Create, Mark, List, Finish, Pass, PickMember, AddFails,
      StoreWelcome, Recover, DropSnapshot, Unmark, JoinWelcome, JoinFails, ClearPending,
      SaveJoined, PostFails
<1>6. ASSUME NEW u \in Users, Login(u)
      PROVE  \A s \in Slots : LiveMoved(s)
  <2>1. \A s \in Slots : live'[s] \in {live[s], NoGroup}
    BY <1>6 DEF Login
  <2> QED
    BY <2>1 DEF LiveMoved
<1>7. ASSUME NEW t \in Tasks, Insert(t)
      PROVE  \A s \in Slots : LiveMoved(s)
  <2>1. Slot(t) \in Slots /\ Slot(t)[2] = t[2]
    BY TaskParts
  <2>2. \A s \in Slots : live'[s] = live[s] \/ (s = Slot(t) /\ live'[s] = held[t])
    BY <1>7, <2>1, DataTypes DEF Insert
  <2> QED
    BY <2>1, <2>2 DEF LiveMoved
<1>8. ASSUME NEW t \in Tasks, InspectAndAdd(t)
      PROVE  \A s \in Slots : LiveMoved(s)
  <2>1. Slot(t) \in Slots /\ Slot(t)[2] = t[2]
    BY TaskParts
  <2>2. \A s \in Slots :
          live'[s] = live[s] \/ (s = Slot(t) /\ live'[s] = Grown(t)
            /\ who[t] \notin live[Slot(t)].roster)
    BY <1>8, <2>1, DataTypes DEF InspectAndAdd, Grown
  <2>3. who[t] \notin live[Slot(t)].roster => Grows(t, Grown(t))
    BY <1>8 DEF Grows
  <2> QED
    BY <2>2, <2>3 DEF LiveMoved
<1>9. ASSUME NEW t \in Tasks, DropSession(t)
      PROVE  \A s \in Slots : LiveMoved(s)
  <2>1. \A s \in Slots : live'[s] \in {live[s], NoGroup}
    BY <1>9, DataTypes DEF DropSession
  <2> QED
    BY <2>1 DEF LiveMoved
<1>10. CASE UNCHANGED vars
  BY <1>10, <1>1 DEF vars
<1>11. ASSUME NEW t \in Tasks, Drops(t)
      PROVE  \A s \in Slots : LiveMoved(s)
  BY <1>11, <1>1, DropStep
<1>12. ASSUME NEW t \in Tasks, SaveFails(t)
      PROVE  \A s \in Slots : LiveMoved(s)
  <2>1. Saves(t, Grown(t))
    BY <1>12 DEF Saves
  <2> QED
    BY <1>12, <2>1, SaveStep DEF LiveMoved
<1> QED
  BY <1>1, <1>2, <1>3, <1>4, <1>5, <1>6, <1>7, <1>8, <1>9, <1>10, <1>11, <1>12
     DEF Next, TaskStep, FailStep, Drops

\* A snapshot is a copy, the group just founded, or the one a member was added to.
LEMMA DiskCopied ==
  ASSUME TypeOK, AddInv, [Next]_vars
  PROVE  \A s \in Slots : CopiedAway(disk'[s], s[2])
<1>1. CASE UNCHANGED <<disk>>
  BY <1>1, AwayParts DEF CopiedAway
<1>2. ASSUME NEW u \in Users,
             JoinGuild(u) \/ Login(u) \/ MakeKey(u) \/ PublishKey(u)
      PROVE  \A s \in Slots : CopiedAway(disk'[s], s[2])
  BY <1>2, <1>1 DEF JoinGuild, Login, MakeKey, PublishKey
<1>3. ASSUME NEW u \in Users, NEW c \in Channels,
             StartSync(u, c) \/ StartRestore(u, c) \/ ForceResync(u, c)
      PROVE  \A s \in Slots : CopiedAway(disk'[s], s[2])
  BY <1>3, <1>1 DEF StartSync, StartRestore, ForceResync
<1>4. ASSUME NEW u \in Users, NEW c \in Channels, NEW v \in members \union {NoUser},
             NEW d \in Devices \union {NoDevice}, StartBoot(u, c, v, d)
      PROVE  \A s \in Slots : CopiedAway(disk'[s], s[2])
  BY <1>4, <1>1 DEF StartBoot
<1>5. ASSUME NEW t \in Tasks,
             Look(t) \/ Insert(t) \/ Mark(t) \/ List(t) \/ Finish(t)
             \/ (\E v \in todo[t] : Pass(t, v))
             \/ (\E v \in todo[t], k \in Devices : PickMember(t, v, k)) \/ AddFails(t)
             \/ StoreWelcome(t) \/ Recover(t) \/ DropSession(t) \/ Unmark(t)
             \/ JoinWelcome(t) \/ JoinFails(t) \/ ClearPending(t) \/ PostFails(t)
      PROVE  \A s \in Slots : CopiedAway(disk'[s], s[2])
  BY <1>5, <1>1 DEF Look, Insert, Mark, List, Finish, Pass, PickMember, AddFails,
      StoreWelcome, Recover, DropSession, Unmark, JoinWelcome, JoinFails, ClearPending,
      PostFails
<1>6. ASSUME NEW t \in Tasks, Create(t)
      PROVE  \A s \in Slots : CopiedAway(disk'[s], s[2])
  <2>1. Slot(t) \in Slots /\ Slot(t)[2] = t[2]
    BY TaskParts
  <2> DEFINE g == Grp(created + 1, t[1], {t[1]})
  <2>2. \A s \in Slots : disk'[s] = disk[s] \/ (s = Slot(t) /\ disk'[s] = g)
    BY <1>6, <2>1, DataTypes DEF Create
  <2>3. Founds(t, g)
    BY <1>6 DEF Founds
  <2>4. \A s \in Slots : disk[s] \in Away(s[2])
    BY AwayParts
  <2> HIDE DEF g
  <2> QED
    BY <2>1, <2>2, <2>3, <2>4 DEF CopiedAway
<1>7. ASSUME NEW t \in Tasks, InspectAndAdd(t)
      PROVE  \A s \in Slots : CopiedAway(disk'[s], s[2])
  <2>1. Slot(t) \in Slots /\ Slot(t)[2] = t[2]
    BY TaskParts
  <2> DEFINE g == Grp(live[Slot(t)].gid, live[Slot(t)].by, live[Slot(t)].roster \union {who[t]})
  <2>2. \A s \in Slots :
          disk'[s] = disk[s] \/ (s = Slot(t) /\ disk'[s] = g
            /\ who[t] \notin live[Slot(t)].roster)
    BY <1>7, <2>1, DataTypes DEF InspectAndAdd
  <2>3. who[t] \notin live[Slot(t)].roster => Grows(t, g)
    BY <1>7 DEF Grows, Grown
  <2>4. \A s \in Slots : disk[s] \in Away(s[2])
    BY AwayParts
  <2> HIDE DEF g
  <2> QED
    BY <2>1, <2>2, <2>3, <2>4 DEF CopiedAway
<1>8. ASSUME NEW t \in Tasks, DropSnapshot(t)
      PROVE  \A s \in Slots : CopiedAway(disk'[s], s[2])
  <2>1. \A s \in Slots : disk'[s] \in {disk[s], NoGroup}
    BY <1>8, DataTypes DEF DropSnapshot
  <2> QED
    BY <2>1, AwayParts DEF CopiedAway
<1>9. ASSUME NEW t \in Tasks, SaveJoined(t)
      PROVE  \A s \in Slots : CopiedAway(disk'[s], s[2])
  <2>1. Slot(t) \in Slots /\ Slot(t)[2] = t[2]
    BY TaskParts
  <2>2. \A s \in Slots : disk'[s] = disk[s] \/ (s = Slot(t) /\ disk'[s] = held[t])
    BY <1>9, <2>1, DataTypes DEF SaveJoined
  <2> QED
    BY <2>1, <2>2, AwayParts DEF CopiedAway
<1>10. CASE UNCHANGED vars
  BY <1>10, <1>1 DEF vars
<1>11. ASSUME NEW t \in Tasks, Drops(t)
      PROVE  \A s \in Slots : CopiedAway(disk'[s], s[2])
  BY <1>11, <1>1, DropStep
<1>12. ASSUME NEW t \in Tasks, SaveFails(t)
      PROVE  \A s \in Slots : CopiedAway(disk'[s], s[2])
  BY <1>12, <1>1 DEF SaveFails
<1> QED
  BY <1>1, <1>2, <1>3, <1>4, <1>5, <1>6, <1>7, <1>8, <1>9, <1>10, <1>11, <1>12
     DEF Next, TaskStep, FailStep, Drops

\* A welcome is a copy of what its sender has in hand.
LEMMA WelcomeCopied ==
  ASSUME TypeOK, AddInv, [Next]_vars
  PROVE  \A w \in Users \X Channels \X Devices : CopiedAway(welcomes'[w], w[2])
<1>1. CASE UNCHANGED <<welcomes>>
  <2>1. \A w \in Users \X Channels \X Devices : welcomes[w] \in Away(w[2])
    BY AwayParts
  <2> QED
    BY <1>1, <2>1 DEF CopiedAway
<1>2. ASSUME NEW u \in Users,
             JoinGuild(u) \/ Login(u) \/ MakeKey(u) \/ PublishKey(u)
      PROVE  \A w \in Users \X Channels \X Devices : CopiedAway(welcomes'[w], w[2])
  BY <1>2, <1>1 DEF JoinGuild, Login, MakeKey, PublishKey
<1>3. ASSUME NEW u \in Users, NEW c \in Channels,
             StartSync(u, c) \/ StartRestore(u, c) \/ ForceResync(u, c)
      PROVE  \A w \in Users \X Channels \X Devices : CopiedAway(welcomes'[w], w[2])
  BY <1>3, <1>1 DEF StartSync, StartRestore, ForceResync
<1>4. ASSUME NEW u \in Users, NEW c \in Channels, NEW v \in members \union {NoUser},
             NEW d \in Devices \union {NoDevice}, StartBoot(u, c, v, d)
      PROVE  \A w \in Users \X Channels \X Devices : CopiedAway(welcomes'[w], w[2])
  BY <1>4, <1>1 DEF StartBoot
<1>5. ASSUME NEW t \in Tasks,
             Look(t) \/ Create(t) \/ Insert(t) \/ Mark(t) \/ List(t) \/ Finish(t)
             \/ (\E v \in todo[t] : Pass(t, v))
             \/ (\E v \in todo[t], k \in Devices : PickMember(t, v, k)) \/ InspectAndAdd(t)
             \/ AddFails(t) \/ Recover(t) \/ DropSession(t) \/ DropSnapshot(t) \/ Unmark(t)
             \/ JoinWelcome(t) \/ JoinFails(t) \/ ClearPending(t) \/ SaveJoined(t)
      PROVE  \A w \in Users \X Channels \X Devices : CopiedAway(welcomes'[w], w[2])
  BY <1>5, <1>1 DEF Look, Create, Insert, Mark, List, Finish, Pass, PickMember,
      InspectAndAdd, AddFails, Recover, DropSession, DropSnapshot, Unmark, JoinWelcome,
      JoinFails, ClearPending, SaveJoined
<1>6. ASSUME NEW t \in Tasks, StoreWelcome(t)
      PROVE  \A w \in Users \X Channels \X Devices : CopiedAway(welcomes'[w], w[2])
  <2>1. <<who[t], t[2], dev[t]>> \in Users \X Channels \X Devices
    BY <1>6, TaskParts DEF StoreWelcome, AddInv, Adding
  <2>2. \A w \in Users \X Channels \X Devices :
          welcomes'[w] = welcomes[w] \/ (w[2] = t[2] /\ welcomes'[w] = held[t])
    BY <1>6, <2>1, DataTypes DEF StoreWelcome
  <2>3. \A w \in Users \X Channels \X Devices : welcomes[w] \in Away(w[2])
    BY AwayParts
  <2> QED
    BY <2>2, <2>3, AwayParts DEF CopiedAway
<1>7. ASSUME NEW t \in Tasks, PostFails(t)
      PROVE  \A w \in Users \X Channels \X Devices : CopiedAway(welcomes'[w], w[2])
  <2>1. <<who[t], t[2], dev[t]>> \in Users \X Channels \X Devices
    BY <1>7, TaskParts DEF PostFails, AddInv, Adding
  <2>2. \A w \in Users \X Channels \X Devices :
          welcomes'[w] = welcomes[w] \/ (w[2] = t[2] /\ welcomes'[w] = held[t])
    BY <1>7, <2>1, DataTypes DEF PostFails
  <2>3. \A w \in Users \X Channels \X Devices : welcomes[w] \in Away(w[2])
    BY AwayParts
  <2> QED
    BY <2>2, <2>3, AwayParts DEF CopiedAway
<1>8. CASE UNCHANGED vars
  BY <1>8, <1>1 DEF vars
<1>9. ASSUME NEW t \in Tasks, Drops(t)
      PROVE  \A w \in Users \X Channels \X Devices : CopiedAway(welcomes'[w], w[2])
  BY <1>9, <1>1, DropStep
<1>10. ASSUME NEW t \in Tasks, SaveFails(t)
      PROVE  \A w \in Users \X Channels \X Devices : CopiedAway(welcomes'[w], w[2])
  BY <1>10, <1>1 DEF SaveFails
<1> QED
  BY <1>1, <1>2, <1>3, <1>4, <1>5, <1>6, <1>7, <1>8, <1>9, <1>10
     DEF Next, TaskStep, FailStep, Drops

\* A task takes a copy in hand, or the group it has just changed.
LEMMA HeldCopied ==
  ASSUME TypeOK, AddInv, [Next]_vars
  PROVE  \A j \in Tasks : CopiedAway(held'[j], j[2])
<1>1. CASE UNCHANGED <<held>>
  BY <1>1, AwayParts DEF CopiedAway
<1>2. ASSUME NEW u \in Users,
             JoinGuild(u) \/ MakeKey(u) \/ PublishKey(u)
      PROVE  \A j \in Tasks : CopiedAway(held'[j], j[2])
  BY <1>2, <1>1 DEF JoinGuild, MakeKey, PublishKey
<1>3. ASSUME NEW u \in Users, NEW c \in Channels,
             StartRestore(u, c) \/ ForceResync(u, c)
      PROVE  \A j \in Tasks : CopiedAway(held'[j], j[2])
  BY <1>3, <1>1 DEF StartRestore, ForceResync
<1>4. ASSUME NEW u \in Users, NEW c \in Channels, NEW v \in members \union {NoUser},
             NEW d \in Devices \union {NoDevice}, StartBoot(u, c, v, d)
      PROVE  \A j \in Tasks : CopiedAway(held'[j], j[2])
  BY <1>4, <1>1 DEF StartBoot
<1>5. ASSUME NEW t \in Tasks,
             List(t) \/ (\E v \in todo[t] : Pass(t, v))
             \/ (\E v \in todo[t], k \in Devices : PickMember(t, v, k)) \/ DropSession(t)
             \/ DropSnapshot(t) \/ JoinWelcome(t) \/ ClearPending(t) \/ SaveJoined(t)
      PROVE  \A j \in Tasks : CopiedAway(held'[j], j[2])
  BY <1>5, <1>1 DEF List, Pass, PickMember, DropSession, DropSnapshot, JoinWelcome,
      ClearPending, SaveJoined
<1>6. ASSUME NEW u \in Users, Login(u)
      PROVE  \A j \in Tasks : CopiedAway(held'[j], j[2])
  <2>1. \A j \in Tasks : held'[j] \in {held[j], NoGroup}
    BY <1>6 DEF Login
  <2> QED
    BY <2>1, AwayParts DEF CopiedAway
<1>7. ASSUME NEW u \in Users, NEW c \in Channels, StartSync(u, c)
      PROVE  \A j \in Tasks : CopiedAway(held'[j], j[2])
  <2> DEFINE t == <<u, c, "sync">>
  <2>1. t \in Tasks /\ t[2] = c
    BY TaskParts DEF Kinds
  <2>2. device[u] \in Devices
    BY DataTypes
  <2>3. held' = held \/ held' = [held EXCEPT ![t] = welcomes[<<u, c, device[u]>>]]
    BY <1>7 DEF StartSync
  <2>4. \A j \in Tasks :
          held'[j] = held[j] \/ (j = t /\ held'[j] = welcomes[<<u, c, device[u]>>])
    BY <2>1, <2>3, TaskTypes
  <2> QED
    BY <2>1, <2>2, <2>4, AwayParts DEF CopiedAway
<1>8. ASSUME NEW t \in Tasks, Look(t)
      PROVE  \A j \in Tasks : CopiedAway(held'[j], j[2])
  <2>1. \A j \in Tasks : held'[j] = held[j] \/ (j = t /\ held'[j] \in {disk[Slot(t)], NoGroup})
    BY <1>8, TaskTypes DEF Look
  <2> QED
    BY <2>1, AwayParts DEF CopiedAway
<1>9. ASSUME NEW t \in Tasks, Create(t)
      PROVE  \A j \in Tasks : CopiedAway(held'[j], j[2])
  <2> DEFINE g == Grp(created + 1, t[1], {t[1]})
  <2>1. \A j \in Tasks : held'[j] = held[j] \/ (j = t /\ held'[j] = g)
    BY <1>9, TaskTypes DEF Create
  <2>2. Founds(t, g)
    BY <1>9 DEF Founds
  <2> HIDE DEF g
  <2> QED
    BY <2>1, <2>2, AwayParts DEF CopiedAway
<1>10. ASSUME NEW t \in Tasks, InspectAndAdd(t)
      PROVE  \A j \in Tasks : CopiedAway(held'[j], j[2])
  <2> DEFINE g == Grp(live[Slot(t)].gid, live[Slot(t)].by, live[Slot(t)].roster \union {who[t]})
  <2>1. \A j \in Tasks :
          held'[j] = held[j] \/ (j = t /\ held'[j] = g /\ who[t] \notin live[Slot(t)].roster)
    BY <1>10, TaskTypes DEF InspectAndAdd
  <2>2. who[t] \notin live[Slot(t)].roster => Grows(t, g)
    BY <1>10 DEF Grows, Grown
  <2> HIDE DEF g
  <2> QED
    BY <2>1, <2>2, AwayParts DEF CopiedAway
<1>11. ASSUME NEW t \in Tasks,
             Insert(t) \/ Mark(t) \/ Finish(t) \/ AddFails(t) \/ StoreWelcome(t)
             \/ Recover(t) \/ Unmark(t) \/ JoinFails(t) \/ PostFails(t)
      PROVE  \A j \in Tasks : CopiedAway(held'[j], j[2])
  <2>1. \A j \in Tasks : held'[j] \in {held[j], NoGroup}
    BY <1>11, TaskTypes DEF Insert, Mark, Finish, AddFails, StoreWelcome,
         Recover, Unmark, JoinFails, PostFails, End, NextMember
  <2> QED
    BY <2>1, AwayParts DEF CopiedAway
<1>12. CASE UNCHANGED vars
  BY <1>12, <1>1 DEF vars
<1>13. ASSUME NEW t \in Tasks, Drops(t)
      PROVE  \A j \in Tasks : CopiedAway(held'[j], j[2])
  <2>1. \A j \in Tasks : held'[j] \in {held[j], NoGroup}
    BY <1>13, DropStep DEF SameTask
  <2> QED
    BY <2>1, AwayParts DEF CopiedAway
<1>14. ASSUME NEW t \in Tasks, SaveFails(t)
      PROVE  \A j \in Tasks : CopiedAway(held'[j], j[2])
  <2>1. \A j \in Tasks : held'[j] \in {held[j], NoGroup}
    BY <1>14, SaveStep DEF SameTask
  <2> QED
    BY <2>1, AwayParts DEF CopiedAway
<1> QED
  BY <1>1, <1>2, <1>3, <1>4, <1>5, <1>6, <1>7, <1>8, <1>9, <1>10, <1>11, <1>12, <1>13, <1>14
     DEF Next, TaskStep, FailStep, Drops

\* A session is opened with a copy, or a member is added to the one it has.
LEMMA LiveCopied ==
  ASSUME TypeOK, AddInv, [Next]_vars, NEW s \in Slots
  PROVE  Copied(live'[s], s[2]) /\ (s[1] # Creator => CopiedAway(live'[s], s[2]))
<1>1. LiveMoved(s) /\ live[s] \in Copies(s[2]) /\ (s[1] # Creator => live[s] \in Away(s[2]))
  BY LiveMoves, CopyParts, AwayParts
<1>2. \A t \in Tasks : Slot(t) = s => /\ t[1] = s[1] /\ t[2] = s[2]
                                     /\ held[t] \in Copies(s[2]) /\ held[t] \in Away(s[2])
  BY TaskParts, CopyParts, AwayParts
<1> QED
  BY <1>1, <1>2 DEF LiveMoved, Copied, CopiedAway

\* What is copied from those the creator does not have open is copied.
LEMMA AwayCopied ==
  ASSUME TypeOK, NEW h \in Channels, NEW g, CopiedAway(g, h)
  PROVE  Copied(g, h)
  BY AwayParts DEF Copied, CopiedAway

\* Every copy but the creator's open group was one before, unless a task founds its
\* group or adds a member to it.
LEMMA AwayStep ==
  ASSUME TypeOK, AddInv, [Next]_vars, NEW h \in Channels, NEW g \in Away(h)'
  PROVE  CopiedAway(g, h)
<1>1. \A u \in Users : /\ CopiedAway(disk'[<<u, h>>], h)
                       /\ u # Creator => CopiedAway(live'[<<u, h>>], h)
  <2> SUFFICES ASSUME NEW u \in Users
               PROVE  /\ CopiedAway(disk'[<<u, h>>], h)
                      /\ u # Creator => CopiedAway(live'[<<u, h>>], h)
    OBVIOUS
  <2>1. <<u, h>> \in Slots /\ <<u, h>>[2] = h /\ <<u, h>>[1] = u
    BY TaskParts
  <2> QED
    BY <2>1, LiveCopied, DiskCopied
<1>2. \A u \in Users, d \in Devices : CopiedAway(welcomes'[<<u, h, d>>], h)
  BY WelcomeCopied
<1>3. \A u \in Users, k \in Kinds : CopiedAway(held'[<<u, h, k>>], h)
  <2> SUFFICES ASSUME NEW u \in Users, NEW k \in Kinds PROVE CopiedAway(held'[<<u, h, k>>], h)
    OBVIOUS
  <2>1. <<u, h, k>> \in Tasks /\ <<u, h, k>>[2] = h
    BY TaskParts
  <2> QED
    BY <2>1, HeldCopied
<1>4. \/ \E u \in Users : (u # Creator /\ g = live'[<<u, h>>]) \/ g = disk'[<<u, h>>]
      \/ \E u \in Users, d \in Devices : g = welcomes'[<<u, h, d>>]
      \/ \E u \in Users, k \in Kinds : g = held'[<<u, h, k>>]
  BY DEF Away
<1> QED
  BY <1>1, <1>2, <1>3, <1>4

\* ... and so was every other.
LEMMA CopiesStep ==
  ASSUME TypeOK, AddInv, [Next]_vars, NEW h \in Channels, NEW g \in Copies(h)'
  PROVE  Copied(g, h)
<1>1. ASSUME NEW u \in Users, g = live'[<<u, h>>]
      PROVE  Copied(g, h)
  <2>1. <<u, h>> \in Slots /\ <<u, h>>[2] = h
    BY TaskParts
  <2> QED
    BY <1>1, <2>1, LiveCopied
<1>2. CASE g \in Away(h)'
  BY <1>2, AwayStep, AwayCopied
<1>3. (\E u \in Users : g = live'[<<u, h>>]) \/ g \in Away(h)'
  BY DEF Copies, Away
<1> QED
  BY <1>1, <1>2, <1>3

\* The groups are numbered upwards.
LEMMA CreatedGrows ==
  ASSUME TypeOK, [Next]_vars
  PROVE  created \in Nat /\ created' \in Nat /\ created <= created'
<1>1. CASE UNCHANGED <<created>>
  <2>1. created \in Nat
    BY BoundAssumption DEF TypeOK
  <2> QED
    BY <1>1, <2>1
<1>2. ASSUME NEW u \in Users,
             JoinGuild(u) \/ Login(u) \/ MakeKey(u) \/ PublishKey(u)
      PROVE  created \in Nat /\ created' \in Nat /\ created <= created'
  BY <1>2, <1>1 DEF JoinGuild, Login, MakeKey, PublishKey
<1>3. ASSUME NEW u \in Users, NEW c \in Channels,
             StartSync(u, c) \/ StartRestore(u, c) \/ ForceResync(u, c)
      PROVE  created \in Nat /\ created' \in Nat /\ created <= created'
  BY <1>3, <1>1 DEF StartSync, StartRestore, ForceResync
<1>4. ASSUME NEW u \in Users, NEW c \in Channels, NEW v \in members \union {NoUser},
             NEW d \in Devices \union {NoDevice}, StartBoot(u, c, v, d)
      PROVE  created \in Nat /\ created' \in Nat /\ created <= created'
  BY <1>4, <1>1 DEF StartBoot
<1>5. ASSUME NEW t \in Tasks,
             Look(t) \/ Insert(t) \/ Mark(t) \/ List(t) \/ Finish(t)
             \/ (\E v \in todo[t] : Pass(t, v))
             \/ (\E v \in todo[t], k \in Devices : PickMember(t, v, k)) \/ InspectAndAdd(t)
             \/ AddFails(t) \/ StoreWelcome(t) \/ Recover(t) \/ DropSession(t)
             \/ DropSnapshot(t) \/ Unmark(t) \/ JoinWelcome(t) \/ JoinFails(t)
             \/ ClearPending(t) \/ SaveJoined(t) \/ PostFails(t)
      PROVE  created \in Nat /\ created' \in Nat /\ created <= created'
  BY <1>5, <1>1 DEF Look, Insert, Mark, List, Finish, Pass, PickMember, InspectAndAdd,
      AddFails, StoreWelcome, Recover, DropSession, DropSnapshot, Unmark, JoinWelcome,
      JoinFails, ClearPending, SaveJoined, PostFails
<1>6. ASSUME NEW t \in Tasks, Create(t)
      PROVE  created \in Nat /\ created' \in Nat /\ created <= created'
  <2>1. created \in Nat /\ created' = created + 1
    BY <1>6, BoundAssumption DEF Create, TypeOK
  <2> QED
    BY <2>1
<1>7. CASE UNCHANGED vars
  BY <1>7, <1>1 DEF vars
<1>8. ASSUME NEW t \in Tasks, Drops(t)
      PROVE  created \in Nat /\ created' \in Nat /\ created <= created'
  BY <1>8, <1>1, DropStep
<1>9. ASSUME NEW t \in Tasks, SaveFails(t)
      PROVE  created \in Nat /\ created' \in Nat /\ created <= created'
  BY <1>9, <1>1 DEF SaveFails
<1> QED
  BY <1>1, <1>2, <1>3, <1>4, <1>5, <1>6, <1>7, <1>8, <1>9
     DEF Next, TaskStep, FailStep, Drops

\* A new group gets a number no copy has.
LEMMA GidStep ==
  ASSUME TypeOK, AddInv, GidInv, [Next]_vars
  PROVE  GidInv'
<1> SUFFICES ASSUME NEW h \in Channels, NEW g \in Copies(h)'
             PROVE  g.gid <= created' /\ (g.gid = 0 => g = NoGroup)
  BY DEF GidInv
<1>1. created \in Nat /\ created' \in Nat /\ created <= created'
  BY CreatedGrows
<1>2. Copied(g, h)
  BY CopiesStep
<1>3. CASE g = NoGroup
  BY <1>1, <1>3, GroupParts DEF NoGroup
<1>4. CASE g \in Copies(h)
  <2>1. g.gid \in Nat /\ g.gid <= created /\ (g.gid = 0 => g = NoGroup)
    BY <1>4, CopyParts, GroupParts, BoundAssumption DEF GidInv
  <2> QED
    BY <1>1, <2>1
<1>5. ASSUME NEW t \in Tasks, t[2] = h, Founds(t, g)
      PROVE  g.gid <= created' /\ (g.gid = 0 => g = NoGroup)
  <2>1. g.gid = created + 1 /\ created' = created + 1
    BY <1>5, GroupParts DEF Founds, Create
  <2> QED
    BY <1>1, <2>1
<1>6. ASSUME NEW t \in Tasks, t[2] = h, Grows(t, g)
      PROVE  g.gid <= created' /\ (g.gid = 0 => g = NoGroup)
  <2>1. live[Slot(t)] # NoGroup /\ live[Slot(t)] \in Copies(h) /\ g.gid = live[Slot(t)].gid
    BY <1>6, CopyParts, GroupParts DEF Grows, Grown, InspectAndAdd
  <2>2. g.gid \in Nat /\ g.gid <= created /\ g.gid # 0
    BY <2>1, CopyParts, GroupParts, BoundAssumption DEF GidInv
  <2> QED
    BY <1>1, <2>2
<1>7. ASSUME NEW t \in Tasks, t[2] = h, Saves(t, g)
      PROVE  g.gid <= created' /\ (g.gid = 0 => g = NoGroup)
  <2>1. live[Slot(t)] # NoGroup /\ live[Slot(t)] \in Copies(h) /\ g.gid = live[Slot(t)].gid
    BY <1>7, CopyParts, SaveStep DEF Saves
  <2>2. g.gid \in Nat /\ g.gid <= created /\ g.gid # 0
    BY <2>1, CopyParts, GroupParts, BoundAssumption DEF GidInv
  <2> QED
    BY <1>1, <2>2
<1> QED
  BY <1>2, <1>3, <1>4, <1>5, <1>6, <1>7 DEF Copied

\* Nobody but the creator founds a group.
LEMMA FoundedStep ==
  ASSUME TypeOK, AddInv, FollowInv, FoundedInv, [Next]_vars
  PROVE  FoundedInv'
<1> SUFFICES ASSUME CreatorLeads, NEW h \in Channels, NEW g \in Copies(h)', g # NoGroup
             PROVE  g.by = Creator
  BY DEF FoundedInv, CreatorLeads
<1>1. Copied(g, h)
  BY CopiesStep
<1>2. CASE g \in Copies(h)
  BY <1>2 DEF FoundedInv
<1>3. ASSUME NEW t \in Tasks, t[2] = h, Founds(t, g)
      PROVE  g.by = Creator
  BY <1>3, GroupParts DEF Founds, Create, FollowInv, FollowTask
<1>4. ASSUME NEW t \in Tasks, t[2] = h, Grows(t, g)
      PROVE  g.by = Creator
  <2>1. live[Slot(t)] # NoGroup /\ live[Slot(t)] \in Copies(h) /\ g.by = live[Slot(t)].by
    BY <1>4, CopyParts, GroupParts DEF Grows, Grown, InspectAndAdd
  <2> QED
    BY <2>1 DEF FoundedInv
<1>5. ASSUME NEW t \in Tasks, t[2] = h, Saves(t, g)
      PROVE  g.by = Creator
  <2>1. live[Slot(t)] # NoGroup /\ live[Slot(t)] \in Copies(h) /\ g.by = live[Slot(t)].by
    BY <1>5, CopyParts, SaveStep DEF Saves
  <2> QED
    BY <2>1 DEF FoundedInv
<1> QED
  BY <1>1, <1>2, <1>3, <1>4, <1>5 DEF Copied

\* While the creator has the lowest id, everybody takes it for the leader, ...
LEMMA LeaderHasLowestId ==
  ASSUME TypeOK, FollowInv, CreatorLeads, NEW u \in Users
  PROVE  IsLeader(u) <=> u = Creator
<1>1. Creator \in members /\ members \subseteq Users /\ \A v \in Users : Creator <= v
  BY DEF TypeOK, FollowInv, CreatorLeads
<1>2. u \in Nat /\ Creator \in Nat /\ Creator <= u
  BY <1>1, UserAssumption
<1> QED
  BY <1>1, <1>2 DEF IsLeader

\* ... the others keep their snapshots, ...
LEMMA FollowersKeep ==
  ASSUME TypeOK, AddInv, RosterInv, FollowInv, CreatorLeads, [Next]_vars
  PROVE  \A s \in Slots : s[1] # Creator /\ disk[s] # NoGroup => disk'[s] # NoGroup
<1>1. CASE UNCHANGED <<disk>>
  BY <1>1
<1>2. ASSUME NEW u \in Users,
             JoinGuild(u) \/ Login(u) \/ MakeKey(u) \/ PublishKey(u)
      PROVE  \A s \in Slots : s[1] # Creator /\ disk[s] # NoGroup => disk'[s] # NoGroup
  BY <1>2, <1>1 DEF JoinGuild, Login, MakeKey, PublishKey
<1>3. ASSUME NEW u \in Users, NEW c \in Channels,
             StartSync(u, c) \/ StartRestore(u, c) \/ ForceResync(u, c)
      PROVE  \A s \in Slots : s[1] # Creator /\ disk[s] # NoGroup => disk'[s] # NoGroup
  BY <1>3, <1>1 DEF StartSync, StartRestore, ForceResync
<1>4. ASSUME NEW u \in Users, NEW c \in Channels, NEW v \in members \union {NoUser},
             NEW d \in Devices \union {NoDevice}, StartBoot(u, c, v, d)
      PROVE  \A s \in Slots : s[1] # Creator /\ disk[s] # NoGroup => disk'[s] # NoGroup
  BY <1>4, <1>1 DEF StartBoot
<1>5. ASSUME NEW t \in Tasks,
             Look(t) \/ Insert(t) \/ Mark(t) \/ List(t) \/ Finish(t)
             \/ (\E v \in todo[t] : Pass(t, v))
             \/ (\E v \in todo[t], k \in Devices : PickMember(t, v, k)) \/ AddFails(t)
             \/ StoreWelcome(t) \/ Recover(t) \/ DropSession(t) \/ Unmark(t)
             \/ JoinWelcome(t) \/ JoinFails(t) \/ ClearPending(t) \/ PostFails(t)
      PROVE  \A s \in Slots : s[1] # Creator /\ disk[s] # NoGroup => disk'[s] # NoGroup
  BY <1>5, <1>1 DEF Look, Insert, Mark, List, Finish, Pass, PickMember, AddFails,
      StoreWelcome, Recover, DropSession, Unmark, JoinWelcome, JoinFails, ClearPending,
      PostFails
<1>6. ASSUME NEW t \in Tasks, Create(t)
      PROVE  \A s \in Slots : s[1] # Creator /\ disk[s] # NoGroup => disk'[s] # NoGroup
  <2>1. Grp(created + 1, t[1], {t[1]}) # NoGroup
    BY GroupParts
  <2> QED
    BY <1>6, <2>1, DataTypes DEF Create
<1>7. ASSUME NEW t \in Tasks, InspectAndAdd(t)
      PROVE  \A s \in Slots : s[1] # Creator /\ disk[s] # NoGroup => disk'[s] # NoGroup
  <2>1. Grp(live[Slot(t)].gid, live[Slot(t)].by, live[Slot(t)].roster \union {who[t]}) # NoGroup
    BY GroupParts
  <2> QED
    BY <1>7, <2>1, DataTypes DEF InspectAndAdd
<1>8. ASSUME NEW t \in Tasks, DropSnapshot(t)
      PROVE  \A s \in Slots : s[1] # Creator /\ disk[s] # NoGroup => disk'[s] # NoGroup
  <2>1. t[1] = Creator /\ Slot(t)[1] = t[1]
    BY <1>8, TaskParts DEF DropSnapshot, AddInv, Adding, FollowInv, FollowTask
  <2> QED
    BY <1>8, <2>1, DataTypes DEF DropSnapshot
<1>9. ASSUME NEW t \in Tasks, SaveJoined(t)
      PROVE  \A s \in Slots : s[1] # Creator /\ disk[s] # NoGroup => disk'[s] # NoGroup
  <2>1. held[t] # NoGroup
    BY <1>9 DEF SaveJoined, RosterInv, HeldInv, HeldOK, Joining
  <2> QED
    BY <1>9, <2>1, DataTypes DEF SaveJoined
<1>10. CASE UNCHANGED vars
  BY <1>10, <1>1 DEF vars
<1>11. ASSUME NEW t \in Tasks, Drops(t)
      PROVE  \A s \in Slots : s[1] # Creator /\ disk[s] # NoGroup => disk'[s] # NoGroup
  BY <1>11, <1>1, DropStep
<1>12. ASSUME NEW t \in Tasks, SaveFails(t)
      PROVE  \A s \in Slots : s[1] # Creator /\ disk[s] # NoGroup => disk'[s] # NoGroup
  BY <1>12, <1>1 DEF SaveFails
<1> QED
  BY <1>1, <1>2, <1>3, <1>4, <1>5, <1>6, <1>7, <1>8, <1>9, <1>10, <1>11, <1>12
     DEF Next, TaskStep, FailStep, Drops

\* ... and a task that does not move follows as before.
LEMMA FollowTaskStays ==
  ASSUME TypeOK, AddInv, RosterInv, FollowInv, CreatorLeads, [Next]_vars,
         NEW j \in Tasks, SameTask(j)
  PROVE  FollowTask(j)'
<1>1. FollowTask(j)
  BY DEF FollowInv
<1>2. Slot(j) \in Slots /\ Slot(j)[1] = j[1]
  BY TaskParts
<1>3. j[1] # Creator /\ disk[Slot(j)] # NoGroup => disk'[Slot(j)] # NoGroup
  BY <1>2, FollowersKeep
<1> QED
  BY <1>1, <1>3 DEF FollowTask, SameTask

\* So whoever is not the creator founds nothing and adds nobody.
LEMMA FollowTaskStep ==
  ASSUME TypeOK, AddInv, RosterInv, FollowInv, CreatorLeads, [Next]_vars
  PROVE  \A j \in Tasks : FollowTask(j)'
<1>1. CASE UNCHANGED <<at, disk>>
  BY <1>1 DEF FollowInv, FollowTask
<1>2. ASSUME NEW u \in Users,
             JoinGuild(u) \/ MakeKey(u) \/ PublishKey(u)
      PROVE  \A j \in Tasks : FollowTask(j)'
  BY <1>2, <1>1 DEF JoinGuild, MakeKey, PublishKey
<1>3. ASSUME NEW u \in Users, NEW c \in Channels,
             ForceResync(u, c)
      PROVE  \A j \in Tasks : FollowTask(j)'
  BY <1>3, <1>1 DEF ForceResync
<1>4. ASSUME NEW t \in Tasks,
             (\E v \in todo[t] : Pass(t, v))
      PROVE  \A j \in Tasks : FollowTask(j)'
  BY <1>4, <1>1 DEF Pass
<1>5. ASSUME NEW u \in Users, Login(u)
      PROVE  \A j \in Tasks : FollowTask(j)'
  <2>1. \A j \in Tasks : SameTask(j) \/ at'[j] = "idle"
    BY <1>5 DEF Login, SameTask
  <2>2. ASSUME NEW j \in Tasks, at'[j] = "idle" PROVE FollowTask(j)'
    BY <2>2 DEF FollowTask, Joining
  <2> QED
    BY <2>1, <2>2, FollowTaskStays
<1>6. ASSUME NEW u \in Users, NEW c \in Channels, StartSync(u, c)
      PROVE  \A j \in Tasks : FollowTask(j)'
  <2> DEFINE t == <<u, c, "sync">>
  <2>1. t \in Tasks /\ t[1] = u /\ t[2] = c /\ t[3] = "sync"
    BY TaskParts DEF Kinds
  <2>2. \A j \in Tasks \ {t} : SameTask(j)
    BY <1>6, TaskTypes DEF StartSync, SameTask
  <2>3. IsLeader(u) <=> u = Creator
    BY LeaderHasLowestId
  <2>4. Slot(t) = <<u, c>>
    BY <2>1 DEF Slot
  <2>5. /\ u = Creator => at'[t] = "look"
        /\ u # Creator => at'[t] = "join"
    <3>1. device[Creator] \in Devices
      BY UserAssumption, DataTypes
    <3>2. u = Creator => welcomes[<<u, c, device[u]>>] = NoGroup
      BY <3>1 DEF FollowInv
    <3> QED
      BY <1>6, <2>1, <2>3, <3>2, TaskTypes DEF StartSync
  <2>6. FollowTask(t)'
    BY <2>1, <2>5 DEF FollowTask, Joining
  <2> QED
    BY <2>2, <2>6, FollowTaskStays
<1>7. ASSUME NEW u \in Users, NEW c \in Channels, StartRestore(u, c)
      PROVE  \A j \in Tasks : FollowTask(j)'
  <2> DEFINE t == <<u, c, "restore">>
  <2>1. t \in Tasks /\ t[1] = u /\ t[2] = c /\ t[3] = "restore"
    BY TaskParts DEF Kinds
  <2>2. \A j \in Tasks \ {t} : SameTask(j)
    BY <1>7, TaskTypes DEF StartRestore, SameTask
  <2>3. IsLeader(u) <=> u = Creator
    BY LeaderHasLowestId
  <2>4. Slot(t) = <<u, c>>
    BY <2>1 DEF Slot
  <2>5. FollowTask(t)'
    BY <1>7, <2>1, <2>3, <2>4, TaskTypes
       DEF StartRestore, CanStart, FollowInv, FollowTask, Joining
  <2> QED
    BY <2>2, <2>5, FollowTaskStays
<1>8. ASSUME NEW u \in Users, NEW c \in Channels, NEW v \in members \union {NoUser},
             NEW d \in Devices \union {NoDevice}, StartBoot(u, c, v, d)
      PROVE  \A j \in Tasks : FollowTask(j)'
  <2> DEFINE t == <<u, c, "boot">>
  <2>1. t \in Tasks /\ t[1] = u /\ t[2] = c /\ t[3] = "boot"
    BY TaskParts DEF Kinds
  <2>2. \A j \in Tasks \ {t} : SameTask(j)
    BY <1>8, TaskTypes DEF StartBoot, SameTask
  <2>3. IsLeader(u) <=> u = Creator
    BY LeaderHasLowestId
  <2>4. Slot(t) = <<u, c>>
    BY <2>1 DEF Slot
  <2>5. FollowTask(t)'
    BY <1>8, <2>1, <2>3, <2>4, TaskTypes
       DEF StartBoot, CanStart, FollowInv, FollowTask, Joining
  <2> QED
    BY <2>2, <2>5, FollowTaskStays
<1>9. ASSUME NEW t \in Tasks, Look(t)
      PROVE  \A j \in Tasks : FollowTask(j)'
  <2>1. FollowTask(t)'
    BY <1>9, TaskTypes
       DEF Look, End, NextMember, AddInv, Adding,
           FollowInv, FollowTask, Joining
  <2> QED
    BY <1>9, <2>1, TaskFrame, FollowTaskStays DEF TaskStep
<1>10. ASSUME NEW t \in Tasks, Create(t)
      PROVE  \A j \in Tasks : FollowTask(j)'
  <2>1. FollowTask(t)'
    BY <1>10, TaskTypes
       DEF Create, End, NextMember, AddInv, Adding,
           FollowInv, FollowTask, Joining
  <2> QED
    BY <1>10, <2>1, TaskFrame, FollowTaskStays DEF TaskStep
<1>11. ASSUME NEW t \in Tasks,
             Insert(t) \/ Mark(t)
      PROVE  \A j \in Tasks : FollowTask(j)'
  <2>1. FollowTask(t)'
    BY <1>11, TaskTypes
       DEF Insert, Mark, End, NextMember, AddInv, Adding,
           FollowInv, FollowTask, Joining
  <2> QED
    BY <1>11, <2>1, TaskFrame, FollowTaskStays DEF TaskStep
<1>12. ASSUME NEW t \in Tasks,
             List(t) \/ Finish(t) \/ (\E v \in todo[t], k \in Devices : PickMember(t, v, k))
      PROVE  \A j \in Tasks : FollowTask(j)'
  <2>1. FollowTask(t)'
    BY <1>12, TaskTypes
       DEF List, Finish, PickMember, End, NextMember, AddInv, Adding,
           FollowInv, FollowTask, Joining
  <2> QED
    BY <1>12, <2>1, TaskFrame, FollowTaskStays DEF TaskStep
<1>13. ASSUME NEW t \in Tasks, InspectAndAdd(t)
      PROVE  \A j \in Tasks : FollowTask(j)'
  <2>1. FollowTask(t)'
    BY <1>13, TaskTypes
       DEF InspectAndAdd, End, NextMember, AddInv, Adding,
           FollowInv, FollowTask, Joining
  <2> QED
    BY <1>13, <2>1, TaskFrame, FollowTaskStays DEF TaskStep
<1>14. ASSUME NEW t \in Tasks, AddFails(t)
      PROVE  \A j \in Tasks : FollowTask(j)'
  <2>1. FollowTask(t)'
    BY <1>14, TaskTypes
       DEF AddFails, End, NextMember, AddInv, Adding,
           FollowInv, FollowTask, Joining
  <2> QED
    BY <1>14, <2>1, TaskFrame, FollowTaskStays DEF TaskStep
<1>15. ASSUME NEW t \in Tasks,
             StoreWelcome(t) \/ Recover(t)
      PROVE  \A j \in Tasks : FollowTask(j)'
  <2>1. FollowTask(t)'
    BY <1>15, TaskTypes
       DEF StoreWelcome, Recover, End, NextMember, AddInv, Adding,
           FollowInv, FollowTask, Joining
  <2> QED
    BY <1>15, <2>1, TaskFrame, FollowTaskStays DEF TaskStep
<1>16. ASSUME NEW t \in Tasks, DropSession(t)
      PROVE  \A j \in Tasks : FollowTask(j)'
  <2>1. FollowTask(t)'
    BY <1>16, TaskTypes
       DEF DropSession, End, NextMember, AddInv, Adding,
           FollowInv, FollowTask, Joining
  <2> QED
    BY <1>16, <2>1, TaskFrame, FollowTaskStays DEF TaskStep
<1>17. ASSUME NEW t \in Tasks,
             DropSnapshot(t) \/ Unmark(t)
      PROVE  \A j \in Tasks : FollowTask(j)'
  <2>1. FollowTask(t)'
    BY <1>17, TaskTypes
       DEF DropSnapshot, Unmark, End, NextMember, AddInv, Adding,
           FollowInv, FollowTask, Joining
  <2> QED
    BY <1>17, <2>1, TaskFrame, FollowTaskStays DEF TaskStep
<1>18. ASSUME NEW t \in Tasks, PostFails(t)
      PROVE  \A j \in Tasks : FollowTask(j)'
  <2>1. FollowTask(t)'
    BY <1>18, TaskTypes
       DEF PostFails, End, NextMember, AddInv, Adding,
           FollowInv, FollowTask, Joining
  <2> QED
    BY <1>18, <2>1, TaskFrame, FollowTaskStays DEF FailStep
<1>19. ASSUME NEW t \in Tasks,
             JoinWelcome(t) \/ JoinFails(t) \/ ClearPending(t)
      PROVE  \A j \in Tasks : FollowTask(j)'
  <2>1. FollowTask(t)'
    BY <1>19, TaskTypes
       DEF JoinWelcome, JoinFails, ClearPending, End, NextMember, AddInv, Adding,
           FollowInv, FollowTask, Joining
  <2> QED
    BY <1>19, <2>1, TaskFrame, FollowTaskStays DEF TaskStep
<1>20. ASSUME NEW t \in Tasks, SaveJoined(t)
      PROVE  \A j \in Tasks : FollowTask(j)'
  <2>1. FollowTask(t)'
    BY <1>20, TaskTypes
       DEF SaveJoined, End, NextMember, AddInv, Adding,
           FollowInv, FollowTask, Joining
  <2> QED
    BY <1>20, <2>1, TaskFrame, FollowTaskStays DEF TaskStep
<1>21. CASE UNCHANGED vars
  BY <1>21, <1>1 DEF vars
<1>22. ASSUME NEW t \in Tasks, Drops(t)
      PROVE  \A j \in Tasks : FollowTask(j)'
  <2>1. at'[t] \in {"pick", "unmark", "idle"} /\ \A j \in Tasks \ {t} : SameTask(j)
    BY <1>22, DropStep
  <2>2. at'[t] # "idle" => t[3] = "boot" /\ at[t] # "idle"
    BY <1>22, DropStep DEF AddInv, Adding
  <2>3. FollowTask(t)'
    BY <2>1, <2>2 DEF FollowInv, FollowTask, Joining
  <2> QED
    BY <2>1, <2>3, FollowTaskStays
<1>23. ASSUME NEW t \in Tasks, SaveFails(t)
      PROVE  \A j \in Tasks : FollowTask(j)'
  <2>1. /\ at'[t] = "pick" /\ at[t] = "inspect" /\ t[3] = "boot"
        /\ \A j \in Tasks \ {t} : SameTask(j)
    BY <1>23, SaveStep
  <2>2. FollowTask(t)'
    BY <2>1 DEF FollowInv, FollowTask, Joining
  <2> QED
    BY <2>1, <2>2, FollowTaskStays
<1> QED
  BY <1>1, <1>2, <1>3, <1>4, <1>5, <1>6, <1>7, <1>8, <1>9, <1>10, <1>11, <1>12, <1>13,
     <1>14, <1>15, <1>16, <1>17, <1>18, <1>19, <1>20, <1>21, <1>22, <1>23
     DEF Next, TaskStep, FailStep, Drops

\* It adds nobody it is itself, and so it never gets a welcome.
LEMMA CreatorUnwelcomed ==
  ASSUME TypeOK, AddInv, FollowInv, CreatorLeads, [Next]_vars
  PROVE  \A h \in Channels, e \in Devices : welcomes'[<<Creator, h, e>>] = NoGroup
<1>1. CASE UNCHANGED <<welcomes>>
  BY <1>1 DEF FollowInv
<1>2. ASSUME NEW u \in Users,
             JoinGuild(u) \/ Login(u) \/ MakeKey(u) \/ PublishKey(u)
      PROVE  \A h \in Channels, e \in Devices : welcomes'[<<Creator, h, e>>] = NoGroup
  BY <1>2, <1>1
     DEF JoinGuild, Login, MakeKey, PublishKey
<1>3. ASSUME NEW u \in Users, NEW c \in Channels,
             StartSync(u, c) \/ StartRestore(u, c) \/ ForceResync(u, c)
      PROVE  \A h \in Channels, e \in Devices : welcomes'[<<Creator, h, e>>] = NoGroup
  BY <1>3, <1>1
     DEF StartSync, StartRestore, ForceResync
<1>4. ASSUME NEW u \in Users, NEW c \in Channels, NEW v \in members \union {NoUser},
             NEW d \in Devices \union {NoDevice}, StartBoot(u, c, v, d)
      PROVE  \A h \in Channels, e \in Devices : welcomes'[<<Creator, h, e>>] = NoGroup
  BY <1>4, <1>1
     DEF StartBoot
<1>5. ASSUME NEW t \in Tasks,
             Look(t) \/ Create(t) \/ Insert(t) \/ Mark(t) \/ List(t) \/ Finish(t)
             \/ (\E v \in todo[t] : Pass(t, v))
             \/ (\E v \in todo[t], k \in Devices : PickMember(t, v, k))
             \/ InspectAndAdd(t) \/ AddFails(t) \/ Recover(t) \/ DropSession(t)
             \/ DropSnapshot(t) \/ Unmark(t) \/ JoinWelcome(t) \/ JoinFails(t)
             \/ ClearPending(t) \/ SaveJoined(t)
      PROVE  \A h \in Channels, e \in Devices : welcomes'[<<Creator, h, e>>] = NoGroup
  BY <1>5, <1>1
     DEF Look, Create, Insert, Mark, List, Finish, Pass, PickMember, InspectAndAdd,
         AddFails, Recover, DropSession, DropSnapshot, Unmark, JoinWelcome, JoinFails,
         ClearPending, SaveJoined
<1>6. ASSUME NEW t \in Tasks, StoreWelcome(t)
      PROVE  \A h \in Channels, e \in Devices : welcomes'[<<Creator, h, e>>] = NoGroup
  <2>1. at[t] = "post" /\ t[3] = "boot" /\ who[t] # t[1]
    BY <1>6 DEF StoreWelcome, AddInv, Adding
  <2>2. who[t] # Creator
    BY <2>1 DEF FollowInv, FollowTask
  <2>3. \A w \in Users \X Channels \X Devices :
          w[1] # who[t] => welcomes'[w] = welcomes[w]
    BY <1>6, DataTypes DEF StoreWelcome
  <2>4. \A h \in Channels, e \in Devices : <<Creator, h, e>> \in Users \X Channels \X Devices
    BY UserAssumption
  <2> QED
    BY <2>2, <2>3, <2>4 DEF FollowInv
<1>7. ASSUME NEW t \in Tasks, PostFails(t)
      PROVE  \A h \in Channels, e \in Devices : welcomes'[<<Creator, h, e>>] = NoGroup
  <2>1. at[t] = "post" /\ t[3] = "boot" /\ who[t] # t[1]
    BY <1>7 DEF PostFails, AddInv, Adding
  <2>2. who[t] # Creator
    BY <2>1 DEF FollowInv, FollowTask
  <2>3. \A w \in Users \X Channels \X Devices :
          w[1] # who[t] => welcomes'[w] = welcomes[w]
    BY <1>7, DataTypes DEF PostFails
  <2>4. \A h \in Channels, e \in Devices : <<Creator, h, e>> \in Users \X Channels \X Devices
    BY UserAssumption
  <2> QED
    BY <2>2, <2>3, <2>4 DEF FollowInv
<1>8. CASE UNCHANGED vars
  BY <1>8, <1>1 DEF vars
<1>9. ASSUME NEW t \in Tasks, Drops(t)
      PROVE  \A h \in Channels, e \in Devices : welcomes'[<<Creator, h, e>>] = NoGroup
  BY <1>9, <1>1, DropStep
<1>10. ASSUME NEW t \in Tasks, SaveFails(t)
      PROVE  \A h \in Channels, e \in Devices : welcomes'[<<Creator, h, e>>] = NoGroup
  BY <1>10, <1>1 DEF SaveFails
<1> QED
  BY <1>1, <1>2, <1>3, <1>4, <1>5, <1>6, <1>7, <1>8, <1>9, <1>10
     DEF Next, TaskStep, FailStep, Drops

\* Nobody leaves the guild.
LEMMA CreatorStays ==
  ASSUME TypeOK, FollowInv, [Next]_vars
  PROVE  Creator \in members'
<1>1. CASE UNCHANGED <<members>>
  BY <1>1 DEF FollowInv
<1>2. ASSUME NEW u \in Users,
             Login(u) \/ MakeKey(u) \/ PublishKey(u)
      PROVE  Creator \in members'
  BY <1>2, <1>1 DEF Login, MakeKey, PublishKey
<1>3. ASSUME NEW u \in Users, NEW c \in Channels,
             StartSync(u, c) \/ StartRestore(u, c) \/ ForceResync(u, c)
      PROVE  Creator \in members'
  BY <1>3, <1>1 DEF StartSync, StartRestore, ForceResync
<1>4. ASSUME NEW u \in Users, NEW c \in Channels, NEW v \in members \union {NoUser},
             NEW d \in Devices \union {NoDevice}, StartBoot(u, c, v, d)
      PROVE  Creator \in members'
  BY <1>4, <1>1 DEF StartBoot
<1>5. ASSUME NEW t \in Tasks,
             Look(t) \/ Create(t) \/ Insert(t) \/ Mark(t) \/ List(t) \/ Finish(t)
             \/ (\E v \in todo[t] : Pass(t, v))
             \/ (\E v \in todo[t], k \in Devices : PickMember(t, v, k)) \/ InspectAndAdd(t)
             \/ AddFails(t) \/ StoreWelcome(t) \/ Recover(t) \/ DropSession(t)
             \/ DropSnapshot(t) \/ Unmark(t) \/ JoinWelcome(t) \/ JoinFails(t)
             \/ ClearPending(t) \/ SaveJoined(t) \/ PostFails(t)
      PROVE  Creator \in members'
  BY <1>5, <1>1 DEF Look, Create, Insert, Mark, List, Finish, Pass, PickMember,
      InspectAndAdd, AddFails, StoreWelcome, Recover, DropSession, DropSnapshot, Unmark,
      JoinWelcome, JoinFails, ClearPending, SaveJoined, PostFails
<1>6. ASSUME NEW u \in Users, JoinGuild(u)
      PROVE  Creator \in members'
  BY <1>6 DEF FollowInv, JoinGuild
<1>7. CASE UNCHANGED vars
  BY <1>7, <1>1 DEF vars
<1>8. ASSUME NEW t \in Tasks, Drops(t)
      PROVE  Creator \in members'
  BY <1>8, <1>1, DropStep
<1>9. ASSUME NEW t \in Tasks, SaveFails(t)
      PROVE  Creator \in members'
  BY <1>9, <1>1 DEF SaveFails
<1> QED
  BY <1>1, <1>2, <1>3, <1>4, <1>5, <1>6, <1>7, <1>8, <1>9
     DEF Next, TaskStep, FailStep, Drops

\* The others follow, whatever the step.
LEMMA FollowStep ==
  ASSUME TypeOK, AddInv, RosterInv, FollowInv, [Next]_vars
  PROVE  FollowInv'
<1>1. ASSUME CreatorLeads
      PROVE  /\ \A t \in Tasks : FollowTask(t)'
             /\ \A c \in Channels, d \in Devices : welcomes'[<<Creator, c, d>>] = NoGroup
  BY <1>1, FollowTaskStep, CreatorUnwelcomed
<1> QED
  BY <1>1, CreatorStays DEF FollowInv, CreatorLeads

-----------------------------------------------------------------------------
\* Sessions thrown away are counted.
LEMMA ResetsGrow ==
  ASSUME TypeOK, [Next]_vars
  PROVE  resets \in Nat /\ (resets' = resets \/ resets' = resets + 1)
<1>1. CASE UNCHANGED <<resets>>
  BY <1>1 DEF TypeOK
<1>2. ASSUME NEW u \in Users,
             JoinGuild(u) \/ Login(u) \/ MakeKey(u) \/ PublishKey(u)
      PROVE  resets \in Nat /\ (resets' = resets \/ resets' = resets + 1)
  BY <1>2, <1>1 DEF JoinGuild, Login, MakeKey, PublishKey
<1>3. ASSUME NEW u \in Users, NEW c \in Channels,
             StartSync(u, c) \/ StartRestore(u, c) \/ ForceResync(u, c)
      PROVE  resets \in Nat /\ (resets' = resets \/ resets' = resets + 1)
  BY <1>3, <1>1 DEF StartSync, StartRestore, ForceResync
<1>4. ASSUME NEW u \in Users, NEW c \in Channels, NEW v \in members \union {NoUser},
             NEW d \in Devices \union {NoDevice}, StartBoot(u, c, v, d)
      PROVE  resets \in Nat /\ (resets' = resets \/ resets' = resets + 1)
  BY <1>4, <1>1 DEF StartBoot
<1>5. ASSUME NEW t \in Tasks,
             Look(t) \/ Create(t) \/ Insert(t) \/ Mark(t) \/ List(t) \/ Finish(t)
             \/ (\E v \in todo[t] : Pass(t, v))
             \/ (\E v \in todo[t], k \in Devices : PickMember(t, v, k)) \/ InspectAndAdd(t)
             \/ AddFails(t) \/ StoreWelcome(t) \/ Recover(t) \/ DropSnapshot(t) \/ Unmark(t)
             \/ JoinWelcome(t) \/ JoinFails(t) \/ ClearPending(t) \/ SaveJoined(t)
             \/ PostFails(t)
      PROVE  resets \in Nat /\ (resets' = resets \/ resets' = resets + 1)
  BY <1>5, <1>1 DEF Look, Create, Insert, Mark, List, Finish, Pass, PickMember,
      InspectAndAdd, AddFails, StoreWelcome, Recover, DropSnapshot, Unmark, JoinWelcome,
      JoinFails, ClearPending, SaveJoined, PostFails
<1>6. ASSUME NEW t \in Tasks, DropSession(t)
      PROVE  resets \in Nat /\ (resets' = resets \/ resets' = resets + 1)
  <2>1. resets \in Nat
    BY DEF TypeOK
  <2> QED
    BY <1>6, <2>1 DEF DropSession
<1>7. CASE UNCHANGED vars
  BY <1>7, <1>1 DEF vars
<1>8. ASSUME NEW t \in Tasks, Drops(t)
      PROVE  resets \in Nat /\ (resets' = resets \/ resets' = resets + 1)
  BY <1>8, <1>1, DropStep
<1>9. ASSUME NEW t \in Tasks, SaveFails(t)
      PROVE  resets \in Nat /\ (resets' = resets \/ resets' = resets + 1)
  BY <1>9, <1>1 DEF SaveFails
<1> QED
  BY <1>1, <1>2, <1>3, <1>4, <1>5, <1>6, <1>7, <1>8, <1>9
     DEF Next, TaskStep, FailStep, Drops

\* None has been, if none has been after the step.
LEMMA NoResetsBefore ==
  ASSUME TypeOK, resets' = 0, [Next]_vars
  PROVE  resets = 0 /\ \A t \in Tasks : ~DropSession(t)
<1>1. resets = 0
  BY ResetsGrow
<1>2. \A t \in Tasks : ~DropSession(t)
  BY <1>1 DEF DropSession
<1> QED
  BY <1>1, <1>2

\* Unless one is thrown away, a session ends with its process only, ...
LEMMA SessionsStay ==
  ASSUME TypeOK, resets' = 0, [Next]_vars
  PROVE  \A s \in Slots : live[s] # NoGroup /\ live'[s] = NoGroup => Login(s[1])
<1>1. CASE UNCHANGED <<live>>
  BY <1>1
<1>2. ASSUME NEW u \in Users,
             JoinGuild(u) \/ MakeKey(u) \/ PublishKey(u)
      PROVE  \A s \in Slots : live[s] # NoGroup /\ live'[s] = NoGroup => Login(s[1])
  BY <1>2, <1>1 DEF JoinGuild, MakeKey, PublishKey
<1>3. ASSUME NEW u \in Users, NEW c \in Channels,
             StartSync(u, c) \/ StartRestore(u, c) \/ ForceResync(u, c)
      PROVE  \A s \in Slots : live[s] # NoGroup /\ live'[s] = NoGroup => Login(s[1])
  BY <1>3, <1>1 DEF StartSync, StartRestore, ForceResync
<1>4. ASSUME NEW u \in Users, NEW c \in Channels, NEW v \in members \union {NoUser},
             NEW d \in Devices \union {NoDevice}, StartBoot(u, c, v, d)
      PROVE  \A s \in Slots : live[s] # NoGroup /\ live'[s] = NoGroup => Login(s[1])
  BY <1>4, <1>1 DEF StartBoot
<1>5. ASSUME NEW t \in Tasks,
             Look(t) \/ Create(t) \/ Mark(t) \/ List(t) \/ Finish(t)
             \/ (\E v \in todo[t] : Pass(t, v))
             \/ (\E v \in todo[t], k \in Devices : PickMember(t, v, k)) \/ AddFails(t)
             \/ StoreWelcome(t) \/ Recover(t) \/ DropSnapshot(t) \/ Unmark(t)
             \/ JoinWelcome(t) \/ JoinFails(t) \/ ClearPending(t) \/ SaveJoined(t)
             \/ PostFails(t)
      PROVE  \A s \in Slots : live[s] # NoGroup /\ live'[s] = NoGroup => Login(s[1])
  BY <1>5, <1>1 DEF Look, Create, Mark, List, Finish, Pass, PickMember, AddFails,
      StoreWelcome, Recover, DropSnapshot, Unmark, JoinWelcome, JoinFails, ClearPending,
      SaveJoined, PostFails
<1>6. ASSUME NEW u \in Users, Login(u)
      PROVE  \A s \in Slots : live[s] # NoGroup /\ live'[s] = NoGroup => Login(s[1])
  BY <1>6 DEF Login
<1>7. ASSUME NEW t \in Tasks, Insert(t)
      PROVE  \A s \in Slots : live[s] # NoGroup /\ live'[s] = NoGroup => Login(s[1])
  BY <1>7, DataTypes DEF Insert
<1>8. ASSUME NEW t \in Tasks, InspectAndAdd(t)
      PROVE  \A s \in Slots : live[s] # NoGroup /\ live'[s] = NoGroup => Login(s[1])
  <2>1. Grp(live[Slot(t)].gid, live[Slot(t)].by, live[Slot(t)].roster \union {who[t]}) # NoGroup
    BY GroupParts
  <2> QED
    BY <1>8, <2>1, DataTypes DEF InspectAndAdd
<1>9. ASSUME NEW t \in Tasks, DropSession(t)
      PROVE  \A s \in Slots : live[s] # NoGroup /\ live'[s] = NoGroup => Login(s[1])
  BY <1>9, NoResetsBefore
<1>10. CASE UNCHANGED vars
  BY <1>10, <1>1 DEF vars
<1>11. ASSUME NEW t \in Tasks, Drops(t)
      PROVE  \A s \in Slots : live[s] # NoGroup /\ live'[s] = NoGroup => Login(s[1])
  BY <1>11, <1>1, DropStep
<1>12. ASSUME NEW t \in Tasks, SaveFails(t)
      PROVE  \A s \in Slots : live[s] # NoGroup /\ live'[s] = NoGroup => Login(s[1])
  <2>1. Grp(live[Slot(t)].gid, live[Slot(t)].by, live[Slot(t)].roster \union {who[t]}) # NoGroup
    BY GroupParts
  <2> QED
    BY <1>12, <2>1, DataTypes DEF SaveFails
<1> QED
  BY <1>1, <1>2, <1>3, <1>4, <1>5, <1>6, <1>7, <1>8, <1>9, <1>10, <1>11, <1>12
     DEF Next, TaskStep, FailStep, Drops

\* ... a task opens one with the group it has in hand, ...
LEMMA OpensWithGroup ==
  ASSUME TypeOK, AddInv, RosterInv, OpenInv, [Next]_vars
  PROVE  \A j \in Tasks : at'[j] = "insert" => held'[j] # NoGroup
<1>1. CASE UNCHANGED <<at, held>>
  BY <1>1 DEF OpenInv
<1>2. ASSUME NEW u \in Users,
             JoinGuild(u) \/ MakeKey(u) \/ PublishKey(u)
      PROVE  \A j \in Tasks : at'[j] = "insert" => held'[j] # NoGroup
  BY <1>2, <1>1 DEF JoinGuild, MakeKey, PublishKey
<1>3. ASSUME NEW u \in Users, NEW c \in Channels,
             ForceResync(u, c)
      PROVE  \A j \in Tasks : at'[j] = "insert" => held'[j] # NoGroup
  BY <1>3, <1>1 DEF ForceResync
<1>4. ASSUME NEW t \in Tasks,
             (\E v \in todo[t] : Pass(t, v))
      PROVE  \A j \in Tasks : at'[j] = "insert" => held'[j] # NoGroup
  BY <1>4, <1>1 DEF Pass
<1>5. ASSUME NEW u \in Users, Login(u)
      PROVE  \A j \in Tasks : at'[j] = "insert" => held'[j] # NoGroup
  <2>1. \A j \in Tasks : at'[j] = "idle" \/ (at'[j] = at[j] /\ held'[j] = held[j])
    BY <1>5 DEF Login
  <2> QED
    BY <2>1 DEF OpenInv
<1>6. ASSUME NEW u \in Users, NEW c \in Channels, StartSync(u, c)
      PROVE  \A j \in Tasks : at'[j] = "insert" => held'[j] # NoGroup
  <2> DEFINE t == <<u, c, "sync">>
  <2>1. t \in Tasks
    BY TaskParts DEF Kinds
  <2>2. at'[t] \in {"look", "join"}
    BY <1>6, <2>1, TaskTypes DEF StartSync
  <2>3. \A j \in Tasks \ {t} : at'[j] = at[j] /\ held'[j] = held[j]
    BY <1>6, TaskTypes DEF StartSync
  <2> QED
    BY <2>2, <2>3 DEF OpenInv
<1>7. ASSUME NEW u \in Users, NEW c \in Channels, StartRestore(u, c)
      PROVE  \A j \in Tasks : at'[j] = "insert" => held'[j] # NoGroup
  <2> DEFINE t == <<u, c, "restore">>
  <2>1. t \in Tasks
    BY TaskParts DEF Kinds
  <2>2. at'[t] \in {"look", "join"}
    BY <1>7, <2>1, TaskTypes DEF StartRestore
  <2>3. \A j \in Tasks \ {t} : at'[j] = at[j] /\ held'[j] = held[j]
    BY <1>7, TaskTypes DEF StartRestore
  <2> QED
    BY <2>2, <2>3 DEF OpenInv
<1>8. ASSUME NEW u \in Users, NEW c \in Channels, NEW v \in members \union {NoUser},
             NEW d \in Devices \union {NoDevice}, StartBoot(u, c, v, d)
      PROVE  \A j \in Tasks : at'[j] = "insert" => held'[j] # NoGroup
  <2> DEFINE t == <<u, c, "boot">>
  <2>1. t \in Tasks
    BY TaskParts DEF Kinds
  <2>2. at'[t] \in {"look", "join"}
    BY <1>8, <2>1, TaskTypes DEF StartBoot
  <2>3. \A j \in Tasks \ {t} : at'[j] = at[j] /\ held'[j] = held[j]
    BY <1>8, TaskTypes DEF StartBoot
  <2> QED
    BY <2>2, <2>3 DEF OpenInv
<1>9. ASSUME NEW t \in Tasks, Look(t)
      PROVE  \A j \in Tasks : at'[j] = "insert" => held'[j] # NoGroup
  <2>1. at'[t] = "insert" => held'[t] = disk[Slot(t)] /\ disk[Slot(t)] # NoGroup
    BY <1>9, TaskTypes DEF Look
  <2>2. \A j \in Tasks \ {t} : at'[j] = at[j] /\ held'[j] = held[j]
    BY <1>9, TaskFrame DEF TaskStep, SameTask
  <2> QED
    BY <2>1, <2>2 DEF OpenInv
<1>10. ASSUME NEW t \in Tasks, Create(t)
      PROVE  \A j \in Tasks : at'[j] = "insert" => held'[j] # NoGroup
  <2>1. held'[t] = Grp(created + 1, t[1], {t[1]})
    BY <1>10, TaskTypes DEF Create
  <2>2. held'[t] # NoGroup
    BY <2>1, GroupParts
  <2>3. \A j \in Tasks \ {t} : at'[j] = at[j] /\ held'[j] = held[j]
    BY <1>10, TaskFrame DEF TaskStep, SameTask
  <2> QED
    BY <2>2, <2>3 DEF OpenInv
<1>11. ASSUME NEW t \in Tasks, SaveJoined(t)
      PROVE  \A j \in Tasks : at'[j] = "insert" => held'[j] # NoGroup
  <2>1. held[t] # NoGroup /\ held' = held
    BY <1>11 DEF SaveJoined, RosterInv, HeldInv, HeldOK, Joining
  <2>2. \A j \in Tasks \ {t} : at'[j] = at[j] /\ held'[j] = held[j]
    BY <1>11, TaskFrame DEF TaskStep, SameTask
  <2> QED
    BY <2>1, <2>2 DEF OpenInv
<1>12. ASSUME NEW t \in Tasks,
             Insert(t) \/ Mark(t) \/ List(t) \/ Finish(t)
             \/ (\E v \in todo[t], k \in Devices : PickMember(t, v, k)) \/ InspectAndAdd(t)
             \/ AddFails(t) \/ StoreWelcome(t) \/ Recover(t) \/ DropSession(t)
             \/ DropSnapshot(t) \/ Unmark(t) \/ JoinWelcome(t) \/ JoinFails(t)
             \/ ClearPending(t) \/ PostFails(t)
      PROVE  \A j \in Tasks : at'[j] = "insert" => held'[j] # NoGroup
  <2>1. at'[t] # "insert"
    BY <1>12, TaskTypes
       DEF Insert, Mark, List, Finish, PickMember, InspectAndAdd, AddFails, StoreWelcome,
         Recover, DropSession, DropSnapshot, Unmark, JoinWelcome, JoinFails, ClearPending,
           PostFails, End, NextMember
  <2>2. \A j \in Tasks \ {t} : at'[j] = at[j] /\ held'[j] = held[j]
    BY <1>12, TaskFrame DEF TaskStep, FailStep, SameTask
  <2> QED
    BY <2>1, <2>2 DEF OpenInv
<1>13. CASE UNCHANGED vars
  BY <1>13, <1>1 DEF vars
<1>14. ASSUME NEW t \in Tasks, Drops(t)
      PROVE  \A j \in Tasks : at'[j] = "insert" => held'[j] # NoGroup
  <2>1. at'[t] # "insert" /\ \A j \in Tasks \ {t} : at'[j] = at[j] /\ held'[j] = held[j]
    BY <1>14, DropStep DEF SameTask
  <2> QED
    BY <2>1 DEF OpenInv
<1>15. ASSUME NEW t \in Tasks, SaveFails(t)
      PROVE  \A j \in Tasks : at'[j] = "insert" => held'[j] # NoGroup
  <2>1. at'[t] # "insert" /\ \A j \in Tasks \ {t} : at'[j] = at[j] /\ held'[j] = held[j]
    BY <1>15, SaveStep DEF SameTask
  <2> QED
    BY <2>1 DEF OpenInv
<1> QED
  BY <1>1, <1>2, <1>3, <1>4, <1>5, <1>6, <1>7, <1>8, <1>9, <1>10, <1>11, <1>12, <1>13, <1>14,
     <1>15
     DEF Next, TaskStep, FailStep, Drops

\* ... and a process that restarts has no task about to mark a channel.
LEMMA MarkStays ==
  ASSUME TypeOK, OpenInv, resets' = 0, [Next]_vars, NEW j \in Tasks, at'[j] = "mark",
           at[j] = "mark"
  PROVE  live'[Slot(j)] # NoGroup
<1>1. Slot(j) \in Slots /\ Slot(j)[1] = j[1] /\ live[Slot(j)] # NoGroup
  BY TaskParts, NoResetsBefore DEF OpenInv
<1>2. CASE Login(j[1])
  BY <1>2 DEF Login
<1> QED
  BY <1>1, <1>2, SessionsStay

\* So whoever marks a channel has a session, ...
LEMMA MarksOpen ==
  ASSUME TypeOK, OpenInv, resets' = 0, [Next]_vars
  PROVE  \A j \in Tasks : at'[j] = "mark" => live'[Slot(j)] # NoGroup
<1>1. CASE UNCHANGED <<at>>
  BY <1>1, MarkStays
<1>2. ASSUME NEW u \in Users,
             JoinGuild(u) \/ MakeKey(u) \/ PublishKey(u)
      PROVE  \A j \in Tasks : at'[j] = "mark" => live'[Slot(j)] # NoGroup
  BY <1>2, <1>1 DEF JoinGuild, MakeKey, PublishKey
<1>3. ASSUME NEW u \in Users, NEW c \in Channels,
             ForceResync(u, c)
      PROVE  \A j \in Tasks : at'[j] = "mark" => live'[Slot(j)] # NoGroup
  BY <1>3, <1>1 DEF ForceResync
<1>4. ASSUME NEW t \in Tasks,
             (\E v \in todo[t] : Pass(t, v))
      PROVE  \A j \in Tasks : at'[j] = "mark" => live'[Slot(j)] # NoGroup
  BY <1>4, <1>1 DEF Pass
<1>5. ASSUME NEW u \in Users, Login(u)
      PROVE  \A j \in Tasks : at'[j] = "mark" => live'[Slot(j)] # NoGroup
  <2>1. \A j \in Tasks : at'[j] = "idle" \/ at'[j] = at[j]
    BY <1>5 DEF Login
  <2> QED
    BY <2>1, MarkStays
<1>6. ASSUME NEW u \in Users, NEW c \in Channels, StartSync(u, c)
      PROVE  \A j \in Tasks : at'[j] = "mark" => live'[Slot(j)] # NoGroup
  <2> DEFINE t == <<u, c, "sync">>
  <2>1. t \in Tasks
    BY TaskParts DEF Kinds
  <2>2. at'[t] \in {"look", "join"}
    BY <1>6, <2>1, TaskTypes DEF StartSync
  <2>3. \A j \in Tasks \ {t} : at'[j] = at[j]
    BY <1>6, TaskTypes DEF StartSync
  <2> QED
    BY <2>2, <2>3, MarkStays
<1>7. ASSUME NEW u \in Users, NEW c \in Channels, StartRestore(u, c)
      PROVE  \A j \in Tasks : at'[j] = "mark" => live'[Slot(j)] # NoGroup
  <2> DEFINE t == <<u, c, "restore">>
  <2>1. t \in Tasks
    BY TaskParts DEF Kinds
  <2>2. at'[t] \in {"look", "join"}
    BY <1>7, <2>1, TaskTypes DEF StartRestore
  <2>3. \A j \in Tasks \ {t} : at'[j] = at[j]
    BY <1>7, TaskTypes DEF StartRestore
  <2> QED
    BY <2>2, <2>3, MarkStays
<1>8. ASSUME NEW u \in Users, NEW c \in Channels, NEW v \in members \union {NoUser},
             NEW d \in Devices \union {NoDevice}, StartBoot(u, c, v, d)
      PROVE  \A j \in Tasks : at'[j] = "mark" => live'[Slot(j)] # NoGroup
  <2> DEFINE t == <<u, c, "boot">>
  <2>1. t \in Tasks
    BY TaskParts DEF Kinds
  <2>2. at'[t] \in {"look", "join"}
    BY <1>8, <2>1, TaskTypes DEF StartBoot
  <2>3. \A j \in Tasks \ {t} : at'[j] = at[j]
    BY <1>8, TaskTypes DEF StartBoot
  <2> QED
    BY <2>2, <2>3, MarkStays
<1>9. ASSUME NEW t \in Tasks, Look(t)
      PROVE  \A j \in Tasks : at'[j] = "mark" => live'[Slot(j)] # NoGroup
  <2>1. at'[t] = "mark" => live'[Slot(t)] # NoGroup
    BY <1>9, TaskTypes DEF Look
  <2>2. \A j \in Tasks \ {t} : at'[j] = at[j]
    BY <1>9, TaskFrame DEF TaskStep, SameTask
  <2> QED
    BY <2>1, <2>2, MarkStays
<1>10. ASSUME NEW t \in Tasks, Insert(t)
      PROVE  \A j \in Tasks : at'[j] = "mark" => live'[Slot(j)] # NoGroup
  <2>1. Slot(t) \in Slots /\ held[t] # NoGroup
    BY <1>10, TaskParts DEF Insert, OpenInv
  <2>2. live'[Slot(t)] # NoGroup
    BY <1>10, <2>1, DataTypes DEF Insert
  <2>3. \A j \in Tasks \ {t} : at'[j] = at[j]
    BY <1>10, TaskFrame DEF TaskStep, SameTask
  <2> QED
    BY <2>2, <2>3, MarkStays
<1>11. ASSUME NEW t \in Tasks,
             Create(t) \/ Mark(t) \/ List(t) \/ Finish(t)
             \/ (\E v \in todo[t], k \in Devices : PickMember(t, v, k)) \/ InspectAndAdd(t)
             \/ AddFails(t) \/ StoreWelcome(t) \/ Recover(t) \/ DropSession(t)
             \/ DropSnapshot(t) \/ Unmark(t) \/ JoinWelcome(t) \/ JoinFails(t)
             \/ ClearPending(t) \/ SaveJoined(t) \/ PostFails(t)
      PROVE  \A j \in Tasks : at'[j] = "mark" => live'[Slot(j)] # NoGroup
  <2>1. at'[t] # "mark"
    BY <1>11, TaskTypes
       DEF Create, Mark, List, Finish, PickMember, InspectAndAdd, AddFails, StoreWelcome,
         Recover, DropSession, DropSnapshot, Unmark, JoinWelcome, JoinFails, ClearPending,
           SaveJoined, PostFails, End, NextMember
  <2>2. \A j \in Tasks \ {t} : at'[j] = at[j]
    BY <1>11, TaskFrame DEF TaskStep, FailStep, SameTask
  <2> QED
    BY <2>1, <2>2, MarkStays
<1>12. CASE UNCHANGED vars
  BY <1>12, <1>1 DEF vars
<1>13. ASSUME NEW t \in Tasks, Drops(t)
      PROVE  \A j \in Tasks : at'[j] = "mark" => live'[Slot(j)] # NoGroup
  <2>1. at'[t] # "mark" /\ \A j \in Tasks \ {t} : at'[j] = at[j]
    BY <1>13, DropStep DEF SameTask
  <2> QED
    BY <2>1, MarkStays
<1>14. ASSUME NEW t \in Tasks, SaveFails(t)
      PROVE  \A j \in Tasks : at'[j] = "mark" => live'[Slot(j)] # NoGroup
  <2>1. at'[t] # "mark"
    BY <1>14, TaskTypes DEF SaveFails, NextMember
  <2>2. \A j \in Tasks \ {t} : at'[j] = at[j]
    BY <1>14, TaskFrame DEF FailStep, SameTask
  <2> QED
    BY <2>1, <2>2, MarkStays
<1> QED
  BY <1>1, <1>2, <1>3, <1>4, <1>5, <1>6, <1>7, <1>8, <1>9, <1>10, <1>11, <1>12, <1>13, <1>14
     DEF Next, TaskStep, FailStep, Drops

\* ... a channel gets ready by a mark, ...
LEMMA ReadyByMark ==
  ASSUME TypeOK, [Next]_vars
  PROVE  \A i \in Users, h \in Channels :
           h \in ready'[i] => h \in ready[i] \/ \E k \in Tasks : Mark(k) /\ Slot(k) = <<i, h>>
<1>1. CASE UNCHANGED <<ready>>
  BY <1>1
<1>2. ASSUME NEW u \in Users,
             JoinGuild(u) \/ MakeKey(u) \/ PublishKey(u)
      PROVE  \A i \in Users, h \in Channels :
           h \in ready'[i] => h \in ready[i] \/ \E k \in Tasks : Mark(k) /\ Slot(k) = <<i, h>>
  BY <1>2, <1>1 DEF JoinGuild, MakeKey, PublishKey
<1>3. ASSUME NEW u \in Users, NEW c \in Channels,
             StartSync(u, c) \/ StartRestore(u, c)
      PROVE  \A i \in Users, h \in Channels :
           h \in ready'[i] => h \in ready[i] \/ \E k \in Tasks : Mark(k) /\ Slot(k) = <<i, h>>
  BY <1>3, <1>1 DEF StartSync, StartRestore
<1>4. ASSUME NEW u \in Users, NEW c \in Channels, NEW v \in members \union {NoUser},
             NEW d \in Devices \union {NoDevice}, StartBoot(u, c, v, d)
      PROVE  \A i \in Users, h \in Channels :
           h \in ready'[i] => h \in ready[i] \/ \E k \in Tasks : Mark(k) /\ Slot(k) = <<i, h>>
  BY <1>4, <1>1 DEF StartBoot
<1>5. ASSUME NEW t \in Tasks,
             Look(t) \/ Create(t) \/ Insert(t) \/ List(t) \/ Finish(t)
             \/ (\E v \in todo[t] : Pass(t, v))
             \/ (\E v \in todo[t], k \in Devices : PickMember(t, v, k)) \/ InspectAndAdd(t)
             \/ AddFails(t) \/ StoreWelcome(t) \/ Recover(t) \/ DropSession(t)
             \/ DropSnapshot(t) \/ JoinWelcome(t) \/ JoinFails(t) \/ ClearPending(t)
             \/ SaveJoined(t) \/ PostFails(t)
      PROVE  \A i \in Users, h \in Channels :
           h \in ready'[i] => h \in ready[i] \/ \E k \in Tasks : Mark(k) /\ Slot(k) = <<i, h>>
  BY <1>5, <1>1 DEF Look, Create, Insert, List, Finish, Pass, PickMember, InspectAndAdd,
      AddFails, StoreWelcome, Recover, DropSession, DropSnapshot, JoinWelcome, JoinFails,
      ClearPending, SaveJoined, PostFails
<1>6. ASSUME NEW u \in Users, Login(u)
      PROVE  \A i \in Users, h \in Channels :
           h \in ready'[i] => h \in ready[i] \/ \E k \in Tasks : Mark(k) /\ Slot(k) = <<i, h>>
  BY <1>6, DataTypes DEF Login
<1>7. ASSUME NEW u \in Users, NEW c \in Channels, ForceResync(u, c)
      PROVE  \A i \in Users, h \in Channels :
           h \in ready'[i] => h \in ready[i] \/ \E k \in Tasks : Mark(k) /\ Slot(k) = <<i, h>>
  BY <1>7, DataTypes DEF ForceResync
<1>8. ASSUME NEW t \in Tasks, Unmark(t)
      PROVE  \A i \in Users, h \in Channels :
           h \in ready'[i] => h \in ready[i] \/ \E k \in Tasks : Mark(k) /\ Slot(k) = <<i, h>>
  BY <1>8, DataTypes DEF Unmark
<1>9. ASSUME NEW t \in Tasks, Mark(t)
      PROVE  \A i \in Users, h \in Channels :
           h \in ready'[i] => h \in ready[i] \/ \E k \in Tasks : Mark(k) /\ Slot(k) = <<i, h>>
  <2>1. \A i \in Users, h \in Channels : h \in ready'[i] => h \in ready[i] \/ (i = t[1]
           /\ h = t[2])
    BY <1>9, DataTypes DEF Mark
  <2> QED
    BY <1>9, <2>1 DEF Slot
<1>10. CASE UNCHANGED vars
  BY <1>10, <1>1 DEF vars
<1>11. ASSUME NEW t \in Tasks, Drops(t)
      PROVE  \A i \in Users, h \in Channels :
           h \in ready'[i] => h \in ready[i] \/ \E k \in Tasks : Mark(k) /\ Slot(k) = <<i, h>>
  BY <1>11, <1>1, DropStep
<1>12. ASSUME NEW t \in Tasks, SaveFails(t)
      PROVE  \A i \in Users, h \in Channels :
           h \in ready'[i] => h \in ready[i] \/ \E k \in Tasks : Mark(k) /\ Slot(k) = <<i, h>>
  BY <1>12, <1>1 DEF SaveFails
<1> QED
  BY <1>1, <1>2, <1>3, <1>4, <1>5, <1>6, <1>7, <1>8, <1>9, <1>10, <1>11, <1>12
     DEF Next, TaskStep, FailStep, Drops

\* ... and what is ready is open, whatever the step.
LEMMA OpenStep ==
  ASSUME TypeOK, AddInv, LoginInv, RosterInv, OpenInv, [Next]_vars
  PROVE  OpenInv'
<1>1. ASSUME resets' = 0, NEW u \in Users, NEW h \in ready'[u]
      PROVE  live'[<<u, h>>] # NoGroup
  <2>1. TypeOK'
    BY TypeStep
  <2>2. h \in Channels
    BY <2>1 DEF TypeOK
  <2>3. <<u, h>> \in Slots /\ <<u, h>>[1] = u
    BY <2>2, TaskParts
  <2>4. live[<<u, h>>] # NoGroup
    BY <1>1, <2>2, <2>3, ReadyByMark, NoResetsBefore DEF OpenInv, Mark
  <2>5. ~Login(u)
    BY <1>1 DEF Login, TypeOK
  <2> QED
    BY <1>1, <2>3, <2>4, <2>5, SessionsStay
<1> QED
  BY <1>1, OpensWithGroup, MarksOpen DEF OpenInv

-----------------------------------------------------------------------------
\* The creator saves nothing but what it has just changed.
LEMMA OwnDisk ==
  ASSUME TypeOK, AddInv, FollowInv, CreatorLeads, [Next]_vars
  PROVE  \A h \in Channels :
           \/ disk'[<<Creator, h>>] \in {disk[<<Creator, h>>], NoGroup}
           \/ \E k \in Tasks : /\ k[2] = h
                             /\ \/ Founds(k, disk'[<<Creator, h>>])
                                \/ Grows(k, disk'[<<Creator, h>>])
<1>1. CASE UNCHANGED <<disk>>
  BY <1>1
<1>2. ASSUME NEW u \in Users,
             JoinGuild(u) \/ Login(u) \/ MakeKey(u) \/ PublishKey(u)
      PROVE  \A h \in Channels :
           \/ disk'[<<Creator, h>>] \in {disk[<<Creator, h>>], NoGroup}
           \/ \E k \in Tasks : /\ k[2] = h
                             /\ \/ Founds(k, disk'[<<Creator, h>>])
                                \/ Grows(k, disk'[<<Creator, h>>])
  BY <1>2, <1>1 DEF JoinGuild, Login, MakeKey, PublishKey
<1>3. ASSUME NEW u \in Users, NEW c \in Channels,
             StartSync(u, c) \/ StartRestore(u, c) \/ ForceResync(u, c)
      PROVE  \A h \in Channels :
           \/ disk'[<<Creator, h>>] \in {disk[<<Creator, h>>], NoGroup}
           \/ \E k \in Tasks : /\ k[2] = h
                             /\ \/ Founds(k, disk'[<<Creator, h>>])
                                \/ Grows(k, disk'[<<Creator, h>>])
  BY <1>3, <1>1 DEF StartSync, StartRestore, ForceResync
<1>4. ASSUME NEW u \in Users, NEW c \in Channels, NEW v \in members \union {NoUser},
             NEW d \in Devices \union {NoDevice}, StartBoot(u, c, v, d)
      PROVE  \A h \in Channels :
           \/ disk'[<<Creator, h>>] \in {disk[<<Creator, h>>], NoGroup}
           \/ \E k \in Tasks : /\ k[2] = h
                             /\ \/ Founds(k, disk'[<<Creator, h>>])
                                \/ Grows(k, disk'[<<Creator, h>>])
  BY <1>4, <1>1 DEF StartBoot
<1>5. ASSUME NEW t \in Tasks,
             Look(t) \/ Insert(t) \/ Mark(t) \/ List(t) \/ Finish(t)
             \/ (\E v \in todo[t] : Pass(t, v))
             \/ (\E v \in todo[t], k \in Devices : PickMember(t, v, k)) \/ AddFails(t)
             \/ StoreWelcome(t) \/ Recover(t) \/ DropSession(t) \/ Unmark(t)
             \/ JoinWelcome(t) \/ JoinFails(t) \/ ClearPending(t) \/ PostFails(t)
      PROVE  \A h \in Channels :
           \/ disk'[<<Creator, h>>] \in {disk[<<Creator, h>>], NoGroup}
           \/ \E k \in Tasks : /\ k[2] = h
                             /\ \/ Founds(k, disk'[<<Creator, h>>])
                                \/ Grows(k, disk'[<<Creator, h>>])
  BY <1>5, <1>1 DEF Look, Insert, Mark, List, Finish, Pass, PickMember, AddFails,
      StoreWelcome, Recover, DropSession, Unmark, JoinWelcome, JoinFails, ClearPending,
      PostFails
<1>6. ASSUME NEW t \in Tasks, Create(t)
      PROVE  \A h \in Channels :
           \/ disk'[<<Creator, h>>] \in {disk[<<Creator, h>>], NoGroup}
           \/ \E k \in Tasks : /\ k[2] = h
                             /\ \/ Founds(k, disk'[<<Creator, h>>])
                                \/ Grows(k, disk'[<<Creator, h>>])
  <2>1. Slot(t) \in Slots /\ Slot(t) = <<t[1], t[2]>>
          /\ \A h \in Channels : <<Creator, h>> \in Slots
    BY TaskParts, UserAssumption
  <2> DEFINE g == Grp(created + 1, t[1], {t[1]})
  <2>2. Founds(t, g)
    BY <1>6 DEF Founds
  <2>3. \A h \in Channels : \/ disk'[<<Creator, h>>] = disk[<<Creator, h>>]
                          \/ (h = t[2] /\ disk'[<<Creator, h>>] = g)
    BY <1>6, <2>1, DataTypes DEF Create
  <2> HIDE DEF g
  <2> QED
    BY <2>2, <2>3
<1>7. ASSUME NEW t \in Tasks, InspectAndAdd(t)
      PROVE  \A h \in Channels :
           \/ disk'[<<Creator, h>>] \in {disk[<<Creator, h>>], NoGroup}
           \/ \E k \in Tasks : /\ k[2] = h
                             /\ \/ Founds(k, disk'[<<Creator, h>>])
                                \/ Grows(k, disk'[<<Creator, h>>])
  <2>1. Slot(t) \in Slots /\ Slot(t) = <<t[1], t[2]>>
          /\ \A h \in Channels : <<Creator, h>> \in Slots
    BY TaskParts, UserAssumption
  <2> DEFINE g == Grp(live[Slot(t)].gid, live[Slot(t)].by, live[Slot(t)].roster \union {who[t]})
  <2>2. who[t] \notin live[Slot(t)].roster => Grows(t, g)
    BY <1>7 DEF Grows, Grown
  <2>3. \A h \in Channels : \/ disk'[<<Creator, h>>] = disk[<<Creator, h>>]
                          \/ (h = t[2] /\ disk'[<<Creator, h>>] = g
                                /\ who[t] \notin live[Slot(t)].roster)
    BY <1>7, <2>1, DataTypes DEF InspectAndAdd
  <2> HIDE DEF g
  <2> QED
    BY <2>2, <2>3
<1>8. ASSUME NEW t \in Tasks, DropSnapshot(t)
      PROVE  \A h \in Channels :
           \/ disk'[<<Creator, h>>] \in {disk[<<Creator, h>>], NoGroup}
           \/ \E k \in Tasks : /\ k[2] = h
                             /\ \/ Founds(k, disk'[<<Creator, h>>])
                                \/ Grows(k, disk'[<<Creator, h>>])
  <2>1. Slot(t) \in Slots /\ Slot(t) = <<t[1], t[2]>>
          /\ \A h \in Channels : <<Creator, h>> \in Slots
    BY TaskParts, UserAssumption
  <2>2. \A h \in Channels : disk'[<<Creator, h>>] \in {disk[<<Creator, h>>], NoGroup}
    BY <1>8, <2>1, DataTypes DEF DropSnapshot
  <2> QED
    BY <2>2
<1>9. ASSUME NEW t \in Tasks, SaveJoined(t)
      PROVE  \A h \in Channels :
           \/ disk'[<<Creator, h>>] \in {disk[<<Creator, h>>], NoGroup}
           \/ \E k \in Tasks : /\ k[2] = h
                             /\ \/ Founds(k, disk'[<<Creator, h>>])
                                \/ Grows(k, disk'[<<Creator, h>>])
  <2>1. Slot(t) \in Slots /\ Slot(t) = <<t[1], t[2]>>
          /\ \A h \in Channels : <<Creator, h>> \in Slots
    BY TaskParts, UserAssumption
  <2>2. t[1] # Creator
    BY <1>9 DEF SaveJoined, FollowInv, FollowTask, Joining
  <2>3. \A h \in Channels : disk'[<<Creator, h>>] = disk[<<Creator, h>>]
    BY <1>9, <2>1, <2>2, DataTypes DEF SaveJoined
  <2> QED
    BY <2>3
<1>10. CASE UNCHANGED vars
  BY <1>10, <1>1 DEF vars
<1>11. ASSUME NEW t \in Tasks, Drops(t)
      PROVE  \A h \in Channels :
           \/ disk'[<<Creator, h>>] \in {disk[<<Creator, h>>], NoGroup}
           \/ \E k \in Tasks : /\ k[2] = h
                             /\ \/ Founds(k, disk'[<<Creator, h>>])
                                \/ Grows(k, disk'[<<Creator, h>>])
  BY <1>11, <1>1, DropStep
<1>12. ASSUME NEW t \in Tasks, SaveFails(t)
      PROVE  \A h \in Channels :
           \/ disk'[<<Creator, h>>] \in {disk[<<Creator, h>>], NoGroup}
           \/ \E k \in Tasks : /\ k[2] = h
                             /\ \/ Founds(k, disk'[<<Creator, h>>])
                                \/ Grows(k, disk'[<<Creator, h>>])
  BY <1>12, <1>1 DEF SaveFails
<1> QED
  BY <1>1, <1>2, <1>3, <1>4, <1>5, <1>6, <1>7, <1>8, <1>9, <1>10, <1>11, <1>12
     DEF Next, TaskStep, FailStep, Drops

\* It opens what one of its tasks has in hand, or adds to what it has open.
LEMMA OwnLive ==
  ASSUME TypeOK, AddInv, [Next]_vars
  PROVE  \A h \in Channels :
           \/ live'[<<Creator, h>>] \in {live[<<Creator, h>>], NoGroup}
           \/ /\ live[<<Creator, h>>] = NoGroup
              /\ \E k \in Kinds : /\ at[<<Creator, h, k>>] = "insert"
                                /\ live'[<<Creator, h>>] = held[<<Creator, h, k>>]
           \/ \E k \in Tasks :
                k[2] = h /\ (Grows(k, live'[<<Creator, h>>]) \/ Saves(k, live'[<<Creator, h>>]))
<1>1. CASE UNCHANGED <<live>>
  BY <1>1
<1>2. ASSUME NEW u \in Users,
             JoinGuild(u) \/ MakeKey(u) \/ PublishKey(u)
      PROVE  \A h \in Channels :
           \/ live'[<<Creator, h>>] \in {live[<<Creator, h>>], NoGroup}
           \/ /\ live[<<Creator, h>>] = NoGroup
              /\ \E k \in Kinds : /\ at[<<Creator, h, k>>] = "insert"
                                /\ live'[<<Creator, h>>] = held[<<Creator, h, k>>]
           \/ \E k \in Tasks :
                k[2] = h /\ (Grows(k, live'[<<Creator, h>>]) \/ Saves(k, live'[<<Creator, h>>]))
  BY <1>2, <1>1 DEF JoinGuild, MakeKey, PublishKey
<1>3. ASSUME NEW u \in Users, NEW c \in Channels,
             StartSync(u, c) \/ StartRestore(u, c) \/ ForceResync(u, c)
      PROVE  \A h \in Channels :
           \/ live'[<<Creator, h>>] \in {live[<<Creator, h>>], NoGroup}
           \/ /\ live[<<Creator, h>>] = NoGroup
              /\ \E k \in Kinds : /\ at[<<Creator, h, k>>] = "insert"
                                /\ live'[<<Creator, h>>] = held[<<Creator, h, k>>]
           \/ \E k \in Tasks :
                k[2] = h /\ (Grows(k, live'[<<Creator, h>>]) \/ Saves(k, live'[<<Creator, h>>]))
  BY <1>3, <1>1 DEF StartSync, StartRestore, ForceResync
<1>4. ASSUME NEW u \in Users, NEW c \in Channels, NEW v \in members \union {NoUser},
             NEW d \in Devices \union {NoDevice}, StartBoot(u, c, v, d)
      PROVE  \A h \in Channels :
           \/ live'[<<Creator, h>>] \in {live[<<Creator, h>>], NoGroup}
           \/ /\ live[<<Creator, h>>] = NoGroup
              /\ \E k \in Kinds : /\ at[<<Creator, h, k>>] = "insert"
                                /\ live'[<<Creator, h>>] = held[<<Creator, h, k>>]
           \/ \E k \in Tasks :
                k[2] = h /\ (Grows(k, live'[<<Creator, h>>]) \/ Saves(k, live'[<<Creator, h>>]))
  BY <1>4, <1>1 DEF StartBoot
<1>5. ASSUME NEW t \in Tasks,
             Look(t) \/ Create(t) \/ Mark(t) \/ List(t) \/ Finish(t)
             \/ (\E v \in todo[t] : Pass(t, v))
             \/ (\E v \in todo[t], k \in Devices : PickMember(t, v, k)) \/ AddFails(t)
             \/ StoreWelcome(t) \/ Recover(t) \/ DropSnapshot(t) \/ Unmark(t)
             \/ JoinWelcome(t) \/ JoinFails(t) \/ ClearPending(t) \/ SaveJoined(t)
             \/ PostFails(t)
      PROVE  \A h \in Channels :
           \/ live'[<<Creator, h>>] \in {live[<<Creator, h>>], NoGroup}
           \/ /\ live[<<Creator, h>>] = NoGroup
              /\ \E k \in Kinds : /\ at[<<Creator, h, k>>] = "insert"
                                /\ live'[<<Creator, h>>] = held[<<Creator, h, k>>]
           \/ \E k \in Tasks :
                k[2] = h /\ (Grows(k, live'[<<Creator, h>>]) \/ Saves(k, live'[<<Creator, h>>]))
  BY <1>5, <1>1 DEF Look, Create, Mark, List, Finish, Pass, PickMember, AddFails,
      StoreWelcome, Recover, DropSnapshot, Unmark, JoinWelcome, JoinFails, ClearPending,
      SaveJoined, PostFails
<1>6. ASSUME NEW u \in Users, Login(u)
      PROVE  \A h \in Channels :
           \/ live'[<<Creator, h>>] \in {live[<<Creator, h>>], NoGroup}
           \/ /\ live[<<Creator, h>>] = NoGroup
              /\ \E k \in Kinds : /\ at[<<Creator, h, k>>] = "insert"
                                /\ live'[<<Creator, h>>] = held[<<Creator, h, k>>]
           \/ \E k \in Tasks :
                k[2] = h /\ (Grows(k, live'[<<Creator, h>>]) \/ Saves(k, live'[<<Creator, h>>]))
  <2>1. \A h \in Channels : <<Creator, h>> \in Slots
    BY TaskParts, UserAssumption
  <2>2. \A h \in Channels : live'[<<Creator, h>>] \in {live[<<Creator, h>>], NoGroup}
    BY <1>6, <2>1 DEF Login
  <2> QED
    BY <2>2
<1>7. ASSUME NEW t \in Tasks, DropSession(t)
      PROVE  \A h \in Channels :
           \/ live'[<<Creator, h>>] \in {live[<<Creator, h>>], NoGroup}
           \/ /\ live[<<Creator, h>>] = NoGroup
              /\ \E k \in Kinds : /\ at[<<Creator, h, k>>] = "insert"
                                /\ live'[<<Creator, h>>] = held[<<Creator, h, k>>]
           \/ \E k \in Tasks :
                k[2] = h /\ (Grows(k, live'[<<Creator, h>>]) \/ Saves(k, live'[<<Creator, h>>]))
  <2>1. Slot(t) \in Slots /\ Slot(t) = <<t[1], t[2]>>
          /\ \A h \in Channels : <<Creator, h>> \in Slots
    BY TaskParts, UserAssumption
  <2>2. \A h \in Channels : live'[<<Creator, h>>] \in {live[<<Creator, h>>], NoGroup}
    BY <1>7, <2>1, DataTypes DEF DropSession
  <2> QED
    BY <2>2
<1>8. ASSUME NEW t \in Tasks, Insert(t)
      PROVE  \A h \in Channels :
           \/ live'[<<Creator, h>>] \in {live[<<Creator, h>>], NoGroup}
           \/ /\ live[<<Creator, h>>] = NoGroup
              /\ \E k \in Kinds : /\ at[<<Creator, h, k>>] = "insert"
                                /\ live'[<<Creator, h>>] = held[<<Creator, h, k>>]
           \/ \E k \in Tasks :
                k[2] = h /\ (Grows(k, live'[<<Creator, h>>]) \/ Saves(k, live'[<<Creator, h>>]))
  <2>1. Slot(t) \in Slots /\ Slot(t) = <<t[1], t[2]>>
          /\ \A h \in Channels : <<Creator, h>> \in Slots
    BY TaskParts, UserAssumption
  <2>2. \A h \in Channels : \/ live'[<<Creator, h>>] = live[<<Creator, h>>]
                          \/ (Slot(t) = <<Creator, h>> /\ live[<<Creator, h>>] = NoGroup
                                /\ live'[<<Creator, h>>] = held[t])
    BY <1>8, <2>1, DataTypes DEF Insert
  <2>3. \A h \in Channels : Slot(t) = <<Creator, h>> =>
          t = <<Creator, h, t[3]>> /\ t[3] \in Kinds /\ at[t] = "insert"
    BY <1>8, TaskParts DEF Insert, Slot
  <2> QED
    BY <2>2, <2>3
<1>9. ASSUME NEW t \in Tasks, InspectAndAdd(t)
      PROVE  \A h \in Channels :
           \/ live'[<<Creator, h>>] \in {live[<<Creator, h>>], NoGroup}
           \/ /\ live[<<Creator, h>>] = NoGroup
              /\ \E k \in Kinds : /\ at[<<Creator, h, k>>] = "insert"
                                /\ live'[<<Creator, h>>] = held[<<Creator, h, k>>]
           \/ \E k \in Tasks :
                k[2] = h /\ (Grows(k, live'[<<Creator, h>>]) \/ Saves(k, live'[<<Creator, h>>]))
  <2>1. Slot(t) \in Slots /\ Slot(t) = <<t[1], t[2]>>
          /\ \A h \in Channels : <<Creator, h>> \in Slots
    BY TaskParts, UserAssumption
  <2> DEFINE g == Grp(live[Slot(t)].gid, live[Slot(t)].by, live[Slot(t)].roster \union {who[t]})
  <2>2. who[t] \notin live[Slot(t)].roster => Grows(t, g)
    BY <1>9 DEF Grows, Grown
  <2>3. \A h \in Channels : \/ live'[<<Creator, h>>] = live[<<Creator, h>>]
                          \/ (h = t[2] /\ live'[<<Creator, h>>] = g
                                /\ who[t] \notin live[Slot(t)].roster)
    BY <1>9, <2>1, DataTypes DEF InspectAndAdd
  <2> HIDE DEF g
  <2> QED
    BY <2>2, <2>3
<1>10. CASE UNCHANGED vars
  BY <1>10, <1>1 DEF vars
<1>11. ASSUME NEW t \in Tasks, Drops(t)
      PROVE  \A h \in Channels :
           \/ live'[<<Creator, h>>] \in {live[<<Creator, h>>], NoGroup}
           \/ /\ live[<<Creator, h>>] = NoGroup
              /\ \E k \in Kinds : /\ at[<<Creator, h, k>>] = "insert"
                                /\ live'[<<Creator, h>>] = held[<<Creator, h, k>>]
           \/ \E k \in Tasks :
                k[2] = h /\ (Grows(k, live'[<<Creator, h>>]) \/ Saves(k, live'[<<Creator, h>>]))
  BY <1>11, <1>1, DropStep
<1>12. ASSUME NEW t \in Tasks, SaveFails(t)
      PROVE  \A h \in Channels :
           \/ live'[<<Creator, h>>] \in {live[<<Creator, h>>], NoGroup}
           \/ /\ live[<<Creator, h>>] = NoGroup
              /\ \E k \in Kinds : /\ at[<<Creator, h, k>>] = "insert"
                                /\ live'[<<Creator, h>>] = held[<<Creator, h, k>>]
           \/ \E k \in Tasks :
                k[2] = h /\ (Grows(k, live'[<<Creator, h>>]) \/ Saves(k, live'[<<Creator, h>>]))
  <2>1. Slot(t) \in Slots /\ Slot(t) = <<t[1], t[2]>>
          /\ \A h \in Channels : <<Creator, h>> \in Slots
    BY TaskParts, UserAssumption
  <2>2. Saves(t, Grown(t))
    BY <1>12 DEF Saves
  <2>3. \A h \in Channels :
          \/ live'[<<Creator, h>>] = live[<<Creator, h>>]
          \/ h = t[2] /\ live'[<<Creator, h>>] = Grown(t)
    <3> SUFFICES ASSUME NEW h \in Channels
                 PROVE  \/ live'[<<Creator, h>>] = live[<<Creator, h>>]
                        \/ h = t[2] /\ live'[<<Creator, h>>] = Grown(t)
      OBVIOUS
    <3>1. CASE <<Creator, h>> = Slot(t)
      <4>1. h = t[2]
        BY <2>1, <3>1
      <4> QED
        BY <1>12, <3>1, <4>1, SaveStep
    <3>2. CASE <<Creator, h>> # Slot(t)
      BY <1>12, <2>1, <3>2, SaveStep
    <3> QED
      BY <3>1, <3>2
  <2> QED
    BY <2>2, <2>3
<1> QED
  BY <1>1, <1>2, <1>3, <1>4, <1>5, <1>6, <1>7, <1>8, <1>9, <1>10, <1>11, <1>12
     DEF Next, TaskStep, FailStep, Drops

\* It is about to open a group it found on its disk or has just founded.
LEMMA OwnInsert ==
  ASSUME TypeOK, AddInv, FollowInv, CreatorLeads, [Next]_vars
  PROVE  \A j \in Tasks :
           j[1] = Creator /\ at'[j] = "insert" =>
             \/ at[j] = "insert" /\ held'[j] = held[j]
             \/ live[Slot(j)] = NoGroup /\ held'[j] = disk[Slot(j)]
             \/ Founds(j, held'[j])
<1>1. CASE UNCHANGED <<at, held>>
  BY <1>1
<1>2. ASSUME NEW u \in Users,
             JoinGuild(u) \/ MakeKey(u) \/ PublishKey(u)
      PROVE  \A j \in Tasks :
           j[1] = Creator /\ at'[j] = "insert" =>
             \/ at[j] = "insert" /\ held'[j] = held[j]
             \/ live[Slot(j)] = NoGroup /\ held'[j] = disk[Slot(j)]
             \/ Founds(j, held'[j])
  BY <1>2, <1>1 DEF JoinGuild, MakeKey, PublishKey
<1>3. ASSUME NEW u \in Users, NEW c \in Channels,
             ForceResync(u, c)
      PROVE  \A j \in Tasks :
           j[1] = Creator /\ at'[j] = "insert" =>
             \/ at[j] = "insert" /\ held'[j] = held[j]
             \/ live[Slot(j)] = NoGroup /\ held'[j] = disk[Slot(j)]
             \/ Founds(j, held'[j])
  BY <1>3, <1>1 DEF ForceResync
<1>4. ASSUME NEW t \in Tasks,
             (\E v \in todo[t] : Pass(t, v))
      PROVE  \A j \in Tasks :
           j[1] = Creator /\ at'[j] = "insert" =>
             \/ at[j] = "insert" /\ held'[j] = held[j]
             \/ live[Slot(j)] = NoGroup /\ held'[j] = disk[Slot(j)]
             \/ Founds(j, held'[j])
  BY <1>4, <1>1 DEF Pass
<1>5. ASSUME NEW u \in Users, Login(u)
      PROVE  \A j \in Tasks :
           j[1] = Creator /\ at'[j] = "insert" =>
             \/ at[j] = "insert" /\ held'[j] = held[j]
             \/ live[Slot(j)] = NoGroup /\ held'[j] = disk[Slot(j)]
             \/ Founds(j, held'[j])
  <2>1. \A j \in Tasks : at'[j] = "idle" \/ (at'[j] = at[j] /\ held'[j] = held[j])
    BY <1>5 DEF Login
  <2> QED
    BY <2>1
<1>6. ASSUME NEW u \in Users, NEW c \in Channels, StartSync(u, c)
      PROVE  \A j \in Tasks :
           j[1] = Creator /\ at'[j] = "insert" =>
             \/ at[j] = "insert" /\ held'[j] = held[j]
             \/ live[Slot(j)] = NoGroup /\ held'[j] = disk[Slot(j)]
             \/ Founds(j, held'[j])
  <2> DEFINE t == <<u, c, "sync">>
  <2>1. t \in Tasks
    BY TaskParts DEF Kinds
  <2>2. at'[t] \in {"look", "join"}
    BY <1>6, <2>1, TaskTypes DEF StartSync
  <2>3. \A j \in Tasks \ {t} : at'[j] = at[j] /\ held'[j] = held[j]
    BY <1>6, TaskTypes DEF StartSync
  <2> QED
    BY <2>2, <2>3
<1>7. ASSUME NEW u \in Users, NEW c \in Channels, StartRestore(u, c)
      PROVE  \A j \in Tasks :
           j[1] = Creator /\ at'[j] = "insert" =>
             \/ at[j] = "insert" /\ held'[j] = held[j]
             \/ live[Slot(j)] = NoGroup /\ held'[j] = disk[Slot(j)]
             \/ Founds(j, held'[j])
  <2> DEFINE t == <<u, c, "restore">>
  <2>1. t \in Tasks
    BY TaskParts DEF Kinds
  <2>2. at'[t] \in {"look", "join"}
    BY <1>7, <2>1, TaskTypes DEF StartRestore
  <2>3. \A j \in Tasks \ {t} : at'[j] = at[j] /\ held'[j] = held[j]
    BY <1>7, TaskTypes DEF StartRestore
  <2> QED
    BY <2>2, <2>3
<1>8. ASSUME NEW u \in Users, NEW c \in Channels, NEW v \in members \union {NoUser},
             NEW d \in Devices \union {NoDevice}, StartBoot(u, c, v, d)
      PROVE  \A j \in Tasks :
           j[1] = Creator /\ at'[j] = "insert" =>
             \/ at[j] = "insert" /\ held'[j] = held[j]
             \/ live[Slot(j)] = NoGroup /\ held'[j] = disk[Slot(j)]
             \/ Founds(j, held'[j])
  <2> DEFINE t == <<u, c, "boot">>
  <2>1. t \in Tasks
    BY TaskParts DEF Kinds
  <2>2. at'[t] \in {"look", "join"}
    BY <1>8, <2>1, TaskTypes DEF StartBoot
  <2>3. \A j \in Tasks \ {t} : at'[j] = at[j] /\ held'[j] = held[j]
    BY <1>8, TaskTypes DEF StartBoot
  <2> QED
    BY <2>2, <2>3
<1>9. ASSUME NEW t \in Tasks, Look(t)
      PROVE  \A j \in Tasks :
           j[1] = Creator /\ at'[j] = "insert" =>
             \/ at[j] = "insert" /\ held'[j] = held[j]
             \/ live[Slot(j)] = NoGroup /\ held'[j] = disk[Slot(j)]
             \/ Founds(j, held'[j])
  <2>1. at'[t] = "insert" => live[Slot(t)] = NoGroup /\ held'[t] = disk[Slot(t)]
    BY <1>9, TaskTypes DEF Look
  <2>2. \A j \in Tasks \ {t} : at'[j] = at[j] /\ held'[j] = held[j]
    BY <1>9, TaskFrame DEF TaskStep, SameTask
  <2> QED
    BY <2>1, <2>2
<1>10. ASSUME NEW t \in Tasks, Create(t)
      PROVE  \A j \in Tasks :
           j[1] = Creator /\ at'[j] = "insert" =>
             \/ at[j] = "insert" /\ held'[j] = held[j]
             \/ live[Slot(j)] = NoGroup /\ held'[j] = disk[Slot(j)]
             \/ Founds(j, held'[j])
  <2>1. Founds(t, held'[t])
    BY <1>10, TaskTypes DEF Create, Founds
  <2>2. \A j \in Tasks \ {t} : at'[j] = at[j] /\ held'[j] = held[j]
    BY <1>10, TaskFrame DEF TaskStep, SameTask
  <2> QED
    BY <2>1, <2>2
<1>11. ASSUME NEW t \in Tasks, SaveJoined(t)
      PROVE  \A j \in Tasks :
           j[1] = Creator /\ at'[j] = "insert" =>
             \/ at[j] = "insert" /\ held'[j] = held[j]
             \/ live[Slot(j)] = NoGroup /\ held'[j] = disk[Slot(j)]
             \/ Founds(j, held'[j])
  <2>1. t[1] # Creator
    BY <1>11 DEF SaveJoined, FollowInv, FollowTask, Joining
  <2>2. \A j \in Tasks \ {t} : at'[j] = at[j] /\ held'[j] = held[j]
    BY <1>11, TaskFrame DEF TaskStep, SameTask
  <2> QED
    BY <2>1, <2>2
<1>12. ASSUME NEW t \in Tasks,
             Insert(t) \/ Mark(t) \/ List(t) \/ Finish(t)
             \/ (\E v \in todo[t], k \in Devices : PickMember(t, v, k)) \/ InspectAndAdd(t)
             \/ AddFails(t) \/ StoreWelcome(t) \/ Recover(t) \/ DropSession(t)
             \/ DropSnapshot(t) \/ Unmark(t) \/ JoinWelcome(t) \/ JoinFails(t)
             \/ ClearPending(t) \/ PostFails(t)
      PROVE  \A j \in Tasks :
           j[1] = Creator /\ at'[j] = "insert" =>
             \/ at[j] = "insert" /\ held'[j] = held[j]
             \/ live[Slot(j)] = NoGroup /\ held'[j] = disk[Slot(j)]
             \/ Founds(j, held'[j])
  <2>1. at'[t] # "insert"
    BY <1>12, TaskTypes
       DEF Insert, Mark, List, Finish, PickMember, InspectAndAdd, AddFails, StoreWelcome,
         Recover, DropSession, DropSnapshot, Unmark, JoinWelcome, JoinFails, ClearPending,
           PostFails, End, NextMember
  <2>2. \A j \in Tasks \ {t} : at'[j] = at[j] /\ held'[j] = held[j]
    BY <1>12, TaskFrame DEF TaskStep, FailStep, SameTask
  <2> QED
    BY <2>1, <2>2
<1>13. CASE UNCHANGED vars
  BY <1>13, <1>1 DEF vars
<1>14. ASSUME NEW t \in Tasks, Drops(t)
      PROVE  \A j \in Tasks :
           j[1] = Creator /\ at'[j] = "insert" =>
             \/ at[j] = "insert" /\ held'[j] = held[j]
             \/ live[Slot(j)] = NoGroup /\ held'[j] = disk[Slot(j)]
             \/ Founds(j, held'[j])
  <2>1. at'[t] # "insert" /\ \A j \in Tasks \ {t} : at'[j] = at[j] /\ held'[j] = held[j]
    BY <1>14, DropStep DEF SameTask
  <2> QED
    BY <2>1
<1>15. ASSUME NEW t \in Tasks, SaveFails(t)
      PROVE  \A j \in Tasks :
           j[1] = Creator /\ at'[j] = "insert" =>
             \/ at[j] = "insert" /\ held'[j] = held[j]
             \/ live[Slot(j)] = NoGroup /\ held'[j] = disk[Slot(j)]
             \/ Founds(j, held'[j])
  <2>1. at'[t] # "insert" /\ \A j \in Tasks \ {t} : at'[j] = at[j] /\ held'[j] = held[j]
    BY <1>15, SaveStep DEF SameTask
  <2> QED
    BY <2>1
<1> QED
  BY <1>1, <1>2, <1>3, <1>4, <1>5, <1>6, <1>7, <1>8, <1>9, <1>10, <1>11, <1>12, <1>13, <1>14,
     <1>15
     DEF Next, TaskStep, FailStep, Drops

\* Nobody else adds a member, ...
LEMMA OnlyCreatorAdds ==
  ASSUME TypeOK, AddInv, FollowInv, CreatorLeads, NEW t \in Tasks,
         InspectAndAdd(t) \/ SaveFails(t)
  PROVE  t = <<Creator, t[2], "boot">> /\ Slot(t) = <<Creator, t[2]>>
<1>1. at[t] = "inspect" /\ t[3] = "boot"
  BY DEF InspectAndAdd, SaveFails, AddInv, Adding
<1> QED
  BY <1>1, TaskParts DEF FollowInv, FollowTask

\* ... so that every copy but the one it has open was one before, or is saved.
LEMMA AwayNext ==
  ASSUME TypeOK, AddInv, FollowInv, CreatorLeads, [Next]_vars, NEW h \in Channels,
         NEW g \in Away(h)'
  PROVE  \/ g = NoGroup
         \/ g \in Away(h)
         \/ \E t \in Tasks : t[2] = h /\ (Founds(t, g) \/ Grows(t, g))
<1>1. CopiedAway(g, h)
  BY AwayStep
<1>2. \A t \in Tasks : Saves(t, g) => t[1] = Creator
  BY OnlyCreatorAdds, TaskParts DEF Saves
<1> QED
  BY <1>1, <1>2 DEF CopiedAway

\* While nothing was thrown away, the creator knew all there was to know, ...
LEMMA KnownBefore ==
  ASSUME TypeOK, KnowInv, CreatorLeads, resets' = 0, [Next]_vars, NEW h \in Channels
  PROVE  Knows(h)
  BY NoResetsBefore DEF KnowInv

\* ... and it still does when no group of the channel is founded or grows, ...
LEMMA KnowQuiet ==
  ASSUME TypeOK, AddInv, GidInv, FollowInv, KnowInv, CreatorLeads, resets' = 0, [Next]_vars,
         NEW h \in Channels,
         \A t \in Tasks : \A g : t[2] = h => ~Founds(t, g) /\ ~Grows(t, g)
  PROVE  KnowsNext(h)
<1> DEFINE o == <<Creator, h>>
<1>1. \A g \in Away(h)' : g = NoGroup \/ g \in Away(h)
  <2> SUFFICES ASSUME NEW g \in Away(h)' PROVE g = NoGroup \/ g \in Away(h)
    OBVIOUS
  <2>1. \A t \in Tasks : t[2] = h => ~Founds(t, g) /\ ~Grows(t, g)
    OBVIOUS
  <2> QED
    BY <2>1, AwayNext
<1>2. ASSUME NEW x, Latest(x, h) PROVE LatestNext(x, h)
  BY <1>1, <1>2, GroupParts DEF Latest, LatestNext
<1>3. LatestNext(NoGroup, h)
  <2>1. \A g \in Away(h)' : g = NoGroup \/ g \in Copies(h)
    BY <1>1, AwayParts
  <2>2. NoGroup.gid = 0
    BY GroupParts DEF NoGroup
  <2> QED
    BY <2>1, <2>2, GroupParts DEF LatestNext, GidInv
<1>4. LatestNext(disk'[o], h)
  BY <1>2, <1>3, OwnDisk, KnownBefore DEF Knows
<1>5. live'[o] # NoGroup => LatestNext(live'[o], h)
  <2>1. ASSUME NEW t \in Tasks, t[2] = h, Saves(t, live'[o]) PROVE LatestNext(live'[o], h)
    <3>1. Slot(t) = o /\ live[o] # NoGroup /\ live'[o] = Grown(t)
      BY <2>1, OnlyCreatorAdds, SaveStep DEF Saves
    <3>2. LatestNext(live[o], h)
      BY <1>2, <3>1, KnownBefore DEF Knows
    <3>3. live'[o].gid = live[o].gid /\ live[o].roster \subseteq live'[o].roster
      BY <2>1, <3>1, SaveStep DEF Saves
    <3> QED
      BY <3>2, <3>3 DEF LatestNext
  <2> QED
    BY <1>2, <1>3, <2>1, OwnLive, KnownBefore DEF Knows
<1>6. ASSUME live'[o] = NoGroup, NEW k \in Kinds, at'[<<Creator, h, k>>] = "insert"
      PROVE  LatestNext(held'[<<Creator, h, k>>], h)
  <2> DEFINE t == <<Creator, h, k>>
  <2>1. t \in Tasks /\ t[1] = Creator /\ t[2] = h /\ Slot(t) = o /\ o \in Slots /\ o[1] = Creator
    BY TaskParts, UserAssumption DEF Slot
  <2>2. ~Login(Creator)
    BY <1>6, <2>1 DEF Login
  <2>3. live[o] = NoGroup
    BY <1>6, <2>1, <2>2, SessionsStay
  <2>4. \/ at[t] = "insert" /\ held'[t] = held[t]
        \/ held'[t] = disk[o]
    BY <1>6, <2>1, OwnInsert
  <2> QED
    BY <1>2, <2>3, <2>4, KnownBefore DEF Knows
<1> QED
  BY <1>4, <1>5, <1>6 DEF KnowsNext

\* ... when it founds one, which is its own, ...
LEMMA KnowFounded ==
  ASSUME TypeOK, AddInv, GidInv, FollowInv, KnowInv, CreatorLeads, resets' = 0, [Next]_vars,
         NEW h \in Channels,
         NEW t \in Tasks, NEW g, t[2] = h, Founds(t, g)
  PROVE  KnowsNext(h)
<1> DEFINE o == <<Creator, h>>
<1>1. /\ Create(t) /\ g = Grp(created + 1, Creator, {Creator}) /\ t[1] = Creator
      /\ Slot(t) = o /\ o \in Slots
  BY TaskParts DEF Founds, Create, FollowInv, FollowTask
<1>2. created \in Nat /\ created' = created + 1 /\ live' = live /\ disk'[o] = g
  BY <1>1, CreatedGrows, DataTypes DEF Create
<1>3. \A j \in Tasks : \A x : ~Grows(j, x)
  BY <1>2 DEF Grows, InspectAndAdd
<1>4. \A j \in Tasks : \A x : Founds(j, x) => x = g
  BY <1>1 DEF Founds, Create, FollowInv, FollowTask
<1>5. \A x \in Away(h)' : x = NoGroup \/ x \in Away(h) \/ x = g
  BY <1>3, <1>4, AwayNext
<1>6. \A x \in Copies(h) : x.gid # g.gid
  <2> SUFFICES ASSUME NEW x \in Copies(h) PROVE x.gid # g.gid
    OBVIOUS
  <2>1. x.gid \in Nat /\ x.gid <= created
    BY CopyParts, GroupParts, BoundAssumption DEF GidInv
  <2>2. g.gid = created + 1
    BY <1>1, GroupParts
  <2> QED
    BY <1>2, <2>1, <2>2
<1>7. NoGroup.gid # g.gid
  <2>1. NoGroup.gid = 0 /\ g.gid = created + 1
    BY <1>1, GroupParts DEF NoGroup
  <2> QED
    BY <1>2, <2>1
<1>8. LatestNext(g, h)
  BY <1>5, <1>6, <1>7, AwayParts DEF LatestNext
<1>9. ASSUME NEW x \in Copies(h), Latest(x, h) PROVE LatestNext(x, h)
  BY <1>5, <1>6, <1>9, GroupParts DEF Latest, LatestNext
<1>10. live[o] \in Copies(h) /\ disk[o] \in Copies(h)
  BY <1>1, CopyParts
<1>11. live'[o] # NoGroup => LatestNext(live'[o], h)
  BY <1>2, <1>9, <1>10, KnownBefore DEF Knows
<1>12. ASSUME live'[o] = NoGroup, NEW k \in Kinds, at'[<<Creator, h, k>>] = "insert"
       PROVE  LatestNext(held'[<<Creator, h, k>>], h)
  <2> DEFINE j == <<Creator, h, k>>
  <2>1. j \in Tasks /\ j[1] = Creator /\ j[2] = h /\ Slot(j) = o
    BY TaskParts, UserAssumption DEF Slot
  <2>2. \/ at[j] = "insert" /\ held'[j] = held[j]
        \/ held'[j] = disk[o]
        \/ held'[j] = g
    BY <1>4, <1>12, <2>1, OwnInsert
  <2>3. held[j] \in Copies(h) /\ live[o] = NoGroup
    BY <1>2, <1>12, <2>1, CopyParts
  <2> QED
    BY <1>8, <1>9, <1>10, <2>2, <2>3, KnownBefore DEF Knows
<1> QED
  BY <1>2, <1>8, <1>11, <1>12 DEF KnowsNext

\* ... and when it adds a member, for it saves the group with the member in it.
LEMMA KnowGrown ==
  ASSUME TypeOK, AddInv, GidInv, FollowInv, KnowInv, CreatorLeads, resets' = 0, [Next]_vars,
         NEW h \in Channels,
         NEW t \in Tasks, NEW g, t[2] = h, Grows(t, g)
  PROVE  KnowsNext(h)
<1> DEFINE o == <<Creator, h>>
<1>1. ASSUME NEW j \in Tasks, InspectAndAdd(j) PROVE j = <<Creator, j[2], "boot">>
  BY <1>1, OnlyCreatorAdds
<1>2. t = <<Creator, h, "boot">> /\ Slot(t) = o /\ o \in Slots /\ InspectAndAdd(t)
  BY <1>1, TaskParts DEF Grows, Slot
<1>3. /\ who[t] \notin live[o].roster /\ live[o] # NoGroup
      /\ g = Grp(live[o].gid, live[o].by, live[o].roster \union {who[t]})
      /\ live'[o] = g /\ disk'[o] = g /\ created' = created
  BY <1>2, DataTypes DEF Grows, Grown, InspectAndAdd
<1>4. g.gid = live[o].gid /\ g.roster = live[o].roster \union {who[t]} /\ g # NoGroup
  BY <1>3, GroupParts
<1>5. \A j \in Tasks : \A x : ~Founds(j, x)
  <2>1. created \in Nat
    BY CreatedGrows
  <2> QED
    BY <1>3, <2>1 DEF Founds, Create
<1>6. ASSUME NEW j \in Tasks, NEW x, j[2] = h, Grows(j, x) PROVE x = g
  <2>1. j = t
    BY <1>1, <1>2, <1>6 DEF Grows
  <2> QED
    BY <1>6, <2>1 DEF Grows
<1>7. \A x \in Away(h)' : x = NoGroup \/ x \in Away(h) \/ x = g
  BY <1>5, <1>6, AwayNext
<1>8. LatestNext(g, h)
  BY <1>3, <1>4, <1>7, KnownBefore, GroupParts DEF Knows, Latest, LatestNext
<1> QED
  BY <1>3, <1>4, <1>8 DEF KnowsNext

\* So the creator keeps knowing, whatever the step.
LEMMA KnowStep ==
  ASSUME TypeOK, AddInv, GidInv, FollowInv, KnowInv, [Next]_vars
  PROVE  KnowInv'
<1> SUFFICES ASSUME CreatorLeads, resets' = 0, NEW h \in Channels
             PROVE  KnowsNext(h)
  <2>1. ASSUME NEW h \in Channels, KnowsNext(h) PROVE Knows(h)'
    BY <2>1 DEF Knows, KnowsNext, Latest, LatestNext
  <2> QED
    BY <2>1 DEF KnowInv, CreatorLeads
<1>1. CASE \A t \in Tasks : \A g : t[2] = h => ~Founds(t, g) /\ ~Grows(t, g)
  BY <1>1, KnowQuiet
<1>2. ASSUME NEW t \in Tasks, NEW g, t[2] = h, Founds(t, g) \/ Grows(t, g)
      PROVE  KnowsNext(h)
  BY <1>2, KnowFounded, KnowGrown
<1> QED
  BY <1>1, <1>2

-----------------------------------------------------------------------------
\* At first there are no groups.
LEMMA InitIInv == Init => IInv
<1> SUFFICES ASSUME Init PROVE IInv
  OBVIOUS
<1>1. TypeOK
  BY GroupParts, UserAssumption, BoundAssumption DEF Init, TypeOK, Points, Devices
<1>2. /\ \A s \in Slots : live[s] = NoGroup /\ disk[s] = NoGroup
      /\ \A u \in Users, c \in Channels, d \in Devices : welcomes[<<u, c, d>>] = NoGroup
      /\ \A t \in Tasks : at[t] = "idle" /\ todo[t] = {} /\ dev[t] = NoDevice /\ held[t] = NoGroup
  BY DEF Init
<1>3. AddInv
  BY <1>2 DEF AddInv, Adding
<1>4. LoginInv
  BY DEF Init, LoginInv
<1>5. RosterInv /\ HolderIsOnRoster
  BY <1>2 DEF RosterInv, WelcomeInv, HeldInv, HeldOK, Joining, HolderIsOnRoster
<1>6. AttemptedHasWelcome
  BY DEF Init, AttemptedHasWelcome
<1>7. ServedInv
  BY <1>2, GroupParts DEF ServedInv, Accounted
<1>8. DeviceInv
  BY <1>2, UserAssumption DEF Init, DeviceInv
<1>9. LeadInv
  BY <1>2, GroupParts, TaskParts, UserAssumption DEF LeadInv, LeadTask, Joining
<1>10. GroupInv
  BY <1>2, TaskParts DEF GroupInv, HeldOfCreator, OfCreator
<1>11. OpenInv
  BY <1>2 DEF Init, OpenInv
<1>12. ASSUME NEW c \in Channels, NEW g \in Copies(c) PROVE g = NoGroup
  <2>1. CASE \E u \in Users : g = live[<<u, c>>] \/ g = disk[<<u, c>>]
    BY <1>2, <2>1, TaskParts
  <2>2. CASE \E u \in Users, d \in Devices : g = welcomes[<<u, c, d>>]
    BY <1>2, <2>2
  <2>3. CASE \E u \in Users, k \in Kinds : g = held[<<u, c, k>>]
    BY <1>2, <2>3, TaskParts
  <2> QED
    BY <2>1, <2>2, <2>3 DEF Copies
<1>13. GidInv /\ FoundedInv
  <2>1. NoGroup.gid = 0 /\ created = 0
    BY GroupParts DEF Init, NoGroup
  <2> QED
    BY <1>12, <2>1 DEF GidInv, FoundedInv
<1>14. FollowInv
  BY <1>2, UserAssumption DEF Init, FollowInv, FollowTask, Joining
<1>15. KnowInv
  BY <1>1, <1>12, AwayParts, GroupParts DEF KnowInv, Knows, Latest
<1> QED
  BY <1>1, <1>3, <1>4, <1>5, <1>6, <1>7, <1>8, <1>9, <1>10, <1>11, <1>13, <1>14, <1>15
     DEF IInv, CalmInv

\* The lemmas above together: the invariant is inductive.
LEMMA NextIInv == IInv /\ [Next]_vars => IInv'
<1> SUFFICES ASSUME IInv, [Next]_vars PROVE IInv'
  OBVIOUS
<1>1. /\ TypeOK /\ AddInv /\ LoginInv /\ RosterInv /\ HolderIsOnRoster /\ AttemptedHasWelcome
      /\ ServedInv /\ CalmInv /\ OpenInv /\ GidInv /\ FollowInv /\ FoundedInv /\ KnowInv
  BY DEF IInv
<1>2. TypeOK' /\ AddInv' /\ LoginInv'
  BY <1>1, TypeStep, AddStep, LoginStep
<1>3. RosterInv' /\ HolderIsOnRoster'
  BY <1>1, WelcomeStep, HeldStep, HolderStep DEF RosterInv
<1>4. AttemptedHasWelcome' /\ ServedInv'
  BY <1>1, AttemptedStep, ServedStep
<1>5. DeviceInv'
  <2>1. CASE Calm'
    BY <1>1, <2>1, DeviceStep
  <2>2. CASE ~Calm'
    BY <2>2 DEF DeviceInv
  <2> QED
    BY <2>1, <2>2
<1>6. LeadInv' /\ GroupInv'
  BY <1>1, LeadStep, GroupStep
<1>7. OpenInv' /\ FollowInv'
  BY <1>1, OpenStep, FollowStep
<1>8. GidInv' /\ FoundedInv' /\ KnowInv'
  BY <1>1, GidStep, FoundedStep, KnowStep
<1> QED
  BY <1>2, <1>3, <1>4, <1>5, <1>6, <1>7, <1>8 DEF IInv, CalmInv

\* The invariant holds in every state of every behaviour.
THEOREM Invariant == Spec => []IInv
  BY InitIInv, NextIInv, PTL DEF Spec

\* Every variable keeps its type.
THEOREM TypeCorrect == Spec => []TypeOK
<1>1. IInv => TypeOK
  BY DEF IInv
<1> QED
  BY <1>1, Invariant, PTL

\* A client never holds a group, in memory or on disk, that it is not a member of:
\* open_or_create_group and join_from_welcome give it nothing else.
THEOREM HoldersAreOnTheirRosters == Spec => []HolderIsOnRoster
<1>1. IInv => HolderIsOnRoster
  BY DEF IInv
<1> QED
  BY <1>1, Invariant, PTL

\* A client passes a member over as attempted only when the server has a welcome for
\* it, so that no member is given up before it can join.
THEOREM AttemptedHaveWelcomes == Spec => []AttemptedHasWelcome
<1>1. IInv => AttemptedHasWelcome
  BY DEF IInv
<1> QED
  BY <1>1, Invariant, PTL

\* Whoever a group lists besides its founder has a welcome, is about to get one, or
\* lost it to a snapshot or a POST that failed or to a restart in between: nothing
\* else loses anybody, neither a recovery nor another member's bootstrap.
THEOREM RostersHaveWelcomes == Spec => []RosterHasWelcome
<1>1. IInv => RosterHasWelcome
  <2> SUFFICES ASSUME IInv, NEW s \in Slots, NEW v \in live[s].roster \ {live[s].by}
               PROVE  Covered(v, s[2])
    BY DEF RosterHasWelcome, Covered
  <2> QED
    BY DEF IInv, ServedInv, Accounted
<1> QED
  BY <1>1, Invariant, PTL

\* While the creator leads, no welcome is lost and nobody logs in again, all members
\* of a channel are in one group, however their tasks interleave and whichever of
\* their other requests fail.
THEOREM CalmGroupsAreTheSame == Spec => []CalmMeansSameGroup
<1>1. IInv => CalmMeansSameGroup
  <2> SUFFICES ASSUME IInv, Calm, NEW u \in Users, NEW c \in Channels, live[<<u, c>>] # NoGroup
               PROVE  live[<<u, c>>].gid = live[<<Creator, c>>].gid
    BY DEF CalmMeansSameGroup, SameGroup
  <2>1. CASE u = Creator
    BY <2>1
  <2>2. CASE u # Creator
    BY <2>2 DEF IInv, CalmInv, GroupInv, OfCreator
  <2> QED
    BY <2>1, <2>2
<1> QED
  BY <1>1, Invariant, PTL

\* Until a self-heal throws a session away, a channel that is marked as initialized
\* has an open session, in whatever order the tasks that open and mark it run.
THEOREM ReadyChannelsAreOpen == Spec => []ReadyMeansOpen
<1>1. IInv => ReadyMeansOpen
  BY DEF IInv, OpenInv, ReadyMeansOpen
<1> QED
  BY <1>1, Invariant, PTL

\* While the creator leads and nothing is thrown away, nobody else has a member in
\* its group whom the creator would have forgotten after a restart: add_member
\* persists the group before the welcome leaves, and without its snapshot no welcome
\* leaves at all.
THEOREM TheFounderKnowsAll == Spec => []FounderKnowsAll
<1>1. IInv => FounderKnowsAll
  <2> DEFINE own(s) == disk[<<live[s].by, s[2]>>]
  <2> SUFFICES ASSUME IInv, CreatorLeads, resets = 0, NEW s \in Slots,
                      live[s] # NoGroup, s[1] # live[s].by, own(s).gid = live[s].gid
               PROVE  live[s].roster \subseteq own(s).roster
    BY DEF FounderKnowsAll, CreatorLeads
  <2>1. s[2] \in Channels /\ live[s] \in Copies(s[2])
    BY TaskParts, CopyParts DEF IInv
  <2>2. live[s].by = Creator
    BY <2>1 DEF IInv, FoundedInv
  <2>3. Latest(disk[<<Creator, s[2]>>], s[2]) /\ live[s] \in Away(s[2])
    BY <2>1, <2>2, AwayParts DEF IInv, KnowInv, Knows
  <2> QED
    BY <2>2, <2>3 DEF Latest
<1> QED
  BY <1>1, Invariant, PTL

=============================================================================
