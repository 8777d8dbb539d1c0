---------------------------- MODULE GuildServer -----------------------------
(***************************************************************************)
(* The server's tables of users, guilds, channels, memberships, devices,   *)
(* key packages and welcomes, and the requests that write them.  A request *)
(* is several statements with an await after each: two requests may take   *)
(* turns at every statement, and one may end at any of them, by an error   *)
(* of the store or because its connection is gone.                         *)
(*                                                                         *)
(* Rows are never deleted.  Each guild has the one channel that its login  *)
(* makes.  The server only broadcasts that a welcome is there or that the  *)
(* members changed; how an event gets to a client is MessageRelay.         *)
(***************************************************************************)
EXTENDS Integers, Sequences, FiniteSets

CONSTANTS
  Users, Guilds, Devices,
  Requests,  \* requests the server works on at a time
  Nothing,
  Home,      \* the guild of each user that the tables hold when the server starts
  MaxPacks, MaxMail, MaxTurns  \* bounds: key packages; welcomes; requests and failures together

ASSUME GuildServerAssumption ==
  /\ Nothing \notin Users \union Guilds \union Devices
  /\ Home \in [Users -> Guilds \union {Nothing}]
  /\ \A u, v \in Users : Home[u] = Home[v] => u = v \/ Home[u] = Nothing
  /\ {MaxPacks, MaxMail, MaxTurns} \subseteq Nat

VARIABLES
  owner,   \* owner[g]: owner_user_id of the row of guild g
  chans,   \* the guilds with a row in channels
  role,    \* role[g][u]: the memberships
  device,  \* device[d]: user_devices, the user of device d
  packs,   \* mls_key_packages by id
  mail,    \* pending_welcomes by id; welcome numbers the client's own uploads
  made,    \* welcomes uploaded so far
  req,     \* req[r]: how far request r is
  told,    \* told[g]: the member list of the last GuildMembersUpdated
  served,  \* history: the users whose last login was answered
  past,    \* history: twice: users with two logins at a time; cut: users with
           \* a failed login; late: guilds where a list was overtaken by an older one or
           \* failed, and no current one came since; buried: welcomes stored while a recovery was under way
  turns    \* requests and failures so far, for the bound

vars == <<owner, chans, role, device, packs, mail, made, req, told, served, past, turns>>

Roles == {"none", "owner", "member"}
NoRole == [u \in Users |-> "none"]
NoRequest == [kind |-> "none", step |-> "none", user |-> Nothing, guild |-> Nothing, target |-> Nothing,
              device |-> Nothing, list |-> NoRole, welcome |-> 0]
Rank(r) == IF r = "none" THEN 0 ELSE IF r = "owner" THEN 1 ELSE 2

Settled(g) == {u \in Users : Home[u] = g}

Init ==
  /\ owner = [g \in Guilds |-> IF Settled(g) = {} THEN Nothing ELSE CHOOSE u \in Settled(g) : TRUE]
  /\ chans = {g \in Guilds : Settled(g) # {}}
  /\ role = [g \in Guilds |-> [u \in Users |-> IF u \in Settled(g) THEN "owner" ELSE "none"]]
  /\ device = [d \in Devices |-> Nothing]
  /\ packs = <<>> /\ mail = <<>> /\ made = 0
  /\ req = [r \in Requests |-> NoRequest]
  /\ told = [g \in Guilds |-> NoRole]
  /\ served = {u \in Users : Home[u] # Nothing}
  /\ past = [twice |-> {}, cut |-> {}, late |-> {}, buried |-> {}]
  /\ turns = 0

Idle(r) == req[r].kind = "none"
At(r, kind, step) == req[r].kind = kind /\ req[r].step = step
Turn == turns < MaxTurns /\ turns' = turns + 1
Begin(r, q) == Idle(r) /\ Turn /\ req' = [req EXCEPT ![r] = q]
Move(r, step) == req' = [req EXCEPT ![r].step = step]
Answer(r) == req' = [req EXCEPT ![r] = NoRequest]

-----------------------------------------------------------------------------
(* What the checks and the reads of the store return. *)

(* Nothing that runs bans, mutes or revokes: those columns stay 0. *)
Member(g, u) == role[g][u] # "none"
InChannel(g, u) == Member(g, u) /\ g \in chans

(* The newest key package of the user, of one device or of any; no row or one. *)
Packs(g, u, d) ==
  {i \in DOMAIN packs : packs[i].guild = g /\ packs[i].user = u /\ d \in {packs[i].device, Nothing}}
NewestPack(g, u, d) == {i \in Packs(g, u, d) : \A j \in Packs(g, u, d) : j <= i}

(* load_pending_welcome; nothing that runs ever marks a welcome as consumed,   *)
(* so load_latest_welcome_any_state finds the same row.                        *)
Mail(g, u, d) == {i \in DOMAIN mail : mail[i].guild = g /\ mail[i].user = u /\ mail[i].device = d}
NewestMail(g, u, d) == {i \in Mail(g, u, d) : \A j \in Mail(g, u, d) : j <= i}

OldestAnyState(g, u, d) == {i \in Mail(g, u, d) : \A j \in Mail(g, u, d) : i <= j}
LatestAnyState(g, u, d) == NewestMail(g, u, d)

(* What a member gets for one of its devices: a welcome or "not found". *)
FetchPendingWelcome(g, u, d) ==
  {mail[i].welcome : i \in {j \in NewestMail(g, u, d) : InChannel(g, u)}}

-----------------------------------------------------------------------------
(* A login makes the user, and a guild for a user without one. *)

OwnGuilds(u) == {g \in Guilds : Member(g, u)}

LoginsOf(u) == {r \in Requests : req[r].kind = "login" /\ req[r].user = u}

StartLogin(r, u) ==
  /\ Begin(r, [NoRequest EXCEPT !.kind = "login", !.step = "list", !.user = u])
  /\ past' = [past EXCEPT !.twice = IF LoginsOf(u) = {} THEN @ ELSE @ \union {u}]
  /\ UNCHANGED <<owner, chans, role, device, packs, mail, made, told, served>>

AnswerLogin(r) == Answer(r) /\ served' = served \union {req[r].user}

ListOwnAlwaysEmpty(r) ==
  /\ At(r, "login", "list") /\ Move(r, "guild")
  /\ UNCHANGED <<owner, chans, role, device, packs, mail, made, told, served, past, turns>>

ListOwn(r) ==
  /\ At(r, "login", "list")
  /\ IF OwnGuilds(req[r].user) = {}
     THEN Move(r, "guild") /\ UNCHANGED served
     ELSE AnswerLogin(r)
  /\ UNCHANGED <<owner, chans, role, device, packs, mail, made, told, past, turns>>

NewGuild(r, g) ==
  /\ At(r, "login", "guild") /\ owner[g] = Nothing
  /\ owner' = [owner EXCEPT ![g] = req[r].user]
  /\ req' = [req EXCEPT ![r].guild = g, ![r].step = "owner"]
  /\ UNCHANGED <<chans, role, device, packs, mail, made, told, served, past, turns>>

AddMembership(g, u, as) == role' = [role EXCEPT ![g][u] = as]

AddOwnerAnswers(r) ==
  /\ At(r, "login", "owner")
  /\ AddMembership(req[r].guild, req[r].user, "owner")
  /\ AnswerLogin(r)
  /\ UNCHANGED <<owner, chans, device, packs, mail, made, told, past, turns>>

AddOwner(r) ==
  /\ At(r, "login", "owner")
  /\ AddMembership(req[r].guild, req[r].user, "owner")
  /\ Move(r, "channel")
  /\ UNCHANGED <<owner, chans, device, packs, mail, made, told, served, past, turns>>

CreateChannel(g) == chans' = chans \union {g}

NewChannel(r) ==
  /\ At(r, "login", "channel")
  /\ CreateChannel(req[r].guild)
  /\ AnswerLogin(r)
  /\ UNCHANGED <<owner, role, device, packs, mail, made, told, past, turns>>

Register(u, d) ==
  /\ u \in served /\ device[d] = Nothing /\ Turn
  /\ device' = [device EXCEPT ![d] = u]
  /\ UNCHANGED <<owner, chans, role, packs, mail, made, req, told, served, past>>

-----------------------------------------------------------------------------
(* A join and an upload of a key package: the row first, then the list, then *)
(* the broadcast.  The code of an invite is made for a member of the guild   *)
(* and names nobody: everyone may use it, an owner too.                      *)

Invited(g) == \E u \in Users : Member(g, u)

InsertKeyPackage(g, u, d) == packs' = Append(packs, [guild |-> g, user |-> u, device |-> d])

ListMembers(g) == role[g]

Listing(kind, u, g) == [NoRequest EXCEPT !.kind = kind, !.step = "read", !.user = u, !.guild = g]

StartJoin(r, u, g) ==
  /\ u \in served /\ Invited(g)
  /\ Begin(r, Listing("join", u, g))
  /\ AddMembership(g, u, "member")
  /\ UNCHANGED <<owner, chans, device, packs, mail, made, told, served, past>>

StartUpload(r, d, g) ==
  /\ Len(packs) < MaxPacks /\ device[d] # Nothing /\ Member(g, device[d])
  /\ Begin(r, Listing("upload", device[d], g))
  /\ InsertKeyPackage(g, device[d], d)
  /\ UNCHANGED <<owner, chans, role, device, mail, made, told, served, past>>

(* The list read before the row was there. *)
ReadMembersBefore(r) ==
  /\ req[r].step = "read"
  /\ req' = [req EXCEPT ![r].list = [ListMembers(req[r].guild) EXCEPT ![req[r].user] =
                                       IF req[r].kind = "join" THEN "none" ELSE @],
                        ![r].step = "announce"]
  /\ UNCHANGED <<owner, chans, role, device, packs, mail, made, told, served, past, turns>>

ReadMembers(r) ==
  /\ req[r].step = "read"
  /\ req' = [req EXCEPT ![r].list = ListMembers(req[r].guild), ![r].step = "announce"]
  /\ UNCHANGED <<owner, chans, role, device, packs, mail, made, told, served, past, turns>>

Older(old, new) == \E u \in Users : Rank(old[u]) < Rank(new[u])

Announce(r) ==
  LET g == req[r].guild IN
  /\ req[r].step = "announce"
  /\ told' = [told EXCEPT ![g] = req[r].list]
  /\ past' = [past EXCEPT !.late = IF req[r].list = ListMembers(g) THEN @ \ {g}
                                   ELSE IF Older(req[r].list, told[g]) THEN @ \union {g}
                                   ELSE @]
  /\ Answer(r)
  /\ UNCHANGED <<owner, chans, role, device, packs, mail, made, served, turns>>

-----------------------------------------------------------------------------
(* A member makes a welcome with the newest key package of another member    *)
(* and stores it for the device of that package; a recovery stores the       *)
(* newest welcome of a device again.                                         *)

(* With the device asked for instead of the device of the package. *)
FetchKeyPackageForAsked(r, u, t, g, d) ==
  /\ u # t /\ Member(g, u) /\ NewestPack(g, t, d) # {}
  /\ Begin(r, [NoRequest EXCEPT !.kind = "welcome", !.step = "store", !.user = u,
                 !.guild = g, !.target = t, !.device = d])
  /\ UNCHANGED <<owner, chans, role, device, packs, mail, made, told, served, past>>

FetchKeyPackage(r, u, t, g, d) ==
  /\ u # t /\ Member(g, u)
  /\ \E i \in NewestPack(g, t, d) :
       Begin(r, [NoRequest EXCEPT !.kind = "welcome", !.step = "store", !.user = u,
                   !.guild = g, !.target = t, !.device = packs[i].device])
  /\ UNCHANGED <<owner, chans, role, device, packs, mail, made, told, served, past>>

InsertPendingWelcome(g, t, d, w) ==
  /\ Len(mail) < MaxMail
  /\ mail' = Append(mail, [guild |-> g, user |-> t, device |-> d, welcome |-> w])

Recovering(g, t, d) ==
  \E r \in Requests : At(r, "recover", "copy") /\ req[r].guild = g /\ req[r].target = t
                      /\ req[r].device = d

StorePendingWelcome(r) ==
  LET q == req[r]
      w == made + 1 IN
  /\ At(r, "welcome", "store")
  /\ InChannel(q.guild, q.user) /\ InChannel(q.guild, q.target)
  /\ InsertPendingWelcome(q.guild, q.target, q.device, w)
  /\ made' = w
  /\ past' = [past EXCEPT !.buried = IF Recovering(q.guild, q.target, q.device)
                                     THEN @ \union {w} ELSE @]
  /\ Answer(r)
  /\ UNCHANGED <<owner, chans, role, device, packs, told, served, turns>>

StartRecover(r, u, t, g, d) ==
  /\ InChannel(g, u) /\ InChannel(g, t)
  /\ \E i \in LatestAnyState(g, t, d) :
       Begin(r, [NoRequest EXCEPT !.kind = "recover", !.step = "copy", !.user = u, !.guild = g,
                   !.target = t, !.device = d, !.welcome = mail[i].welcome])
  /\ UNCHANGED <<owner, chans, role, device, packs, mail, made, told, served, past>>

CopyMail(r) ==
  LET q == req[r] IN
  /\ At(r, "recover", "copy")
  /\ InsertPendingWelcome(q.guild, q.target, q.device, q.welcome)
  /\ Answer(r)
  /\ UNCHANGED <<owner, chans, role, device, packs, made, told, served, past, turns>>

(* A request ends where it stands: an error of the store, or its connection  *)
(* is gone.                                                                  *)
Fail(r) ==
  /\ ~Idle(r) /\ Turn
  /\ past' = [past EXCEPT
       !.cut = IF req[r].kind = "login" THEN @ \union {req[r].user} ELSE @,
       !.late = IF req[r].step \in {"read", "announce"} THEN @ \union {req[r].guild} ELSE @]
  /\ Answer(r)
  /\ UNCHANGED <<owner, chans, role, device, packs, mail, made, told, served>>

Next ==
  \/ \E r \in Requests :
       \/ \E u \in Users : StartLogin(r, u)
       \/ ListOwn(r) \/ (\E g \in Guilds : NewGuild(r, g)) \/ AddOwner(r) \/ NewChannel(r)
       \/ \E u \in Users, g \in Guilds : StartJoin(r, u, g)
       \/ \E d \in Devices, g \in Guilds : StartUpload(r, d, g)
       \/ ReadMembers(r) \/ Announce(r)
       \/ \E u, t \in Users, g \in Guilds, d \in Devices \union {Nothing} : FetchKeyPackage(r, u, t, g, d)
       \/ StorePendingWelcome(r)
       \/ \E u, t \in Users, g \in Guilds, d \in Devices : StartRecover(r, u, t, g, d)
       \/ CopyMail(r) \/ Fail(r)
  \/ \E u \in Users, d \in Devices : Register(u, d)

Spec == Init /\ [][Next]_vars

-----------------------------------------------------------------------------
(* Properties. *)

Steps == {"none", "list", "guild", "owner", "channel", "read", "announce", "store", "copy"}

(* Every row names what it may name: welcomes go from and to a device, and a *)
(* request for one knows which (fetch_key_package, store_pending_welcome).    *)
TypeOK ==
  /\ owner \in [Guilds -> Users \union {Nothing}] /\ chans \subseteq Guilds
  /\ role \in [Guilds -> [Users -> Roles]]
  /\ device \in [Devices -> Users \union {Nothing}]
  /\ packs \in Seq([guild : Guilds, user : Users, device : Devices])
  /\ mail \in Seq([guild : Guilds, user : Users, device : Devices, welcome : Nat])
  /\ made \in Nat
  /\ req \in [Requests -> [
       kind : {"none", "login", "join", "upload", "welcome", "recover"}, step : Steps,
       user : Users \union {Nothing}, guild : Guilds \union {Nothing}, target : Users \union {Nothing},
       device : Devices \union {Nothing}, list : [Users -> Roles], welcome : Nat]]
  /\ \A r \in Requests :
       /\ req[r].kind \in {"welcome", "recover"} => req[r].device \in Devices /\ req[r].target \in Users
       /\ req[r].kind # "none" => req[r].user \in Users
  /\ told \in [Guilds -> [Users -> Roles]]
  /\ served \subseteq Users
  /\ past \in [twice : SUBSET Users, cut : SUBSET Users, late : SUBSET Guilds,
               buried : SUBSET Nat]
  /\ turns \in Nat

(* Who got an answer to its login is a member of a guild with a channel,     *)
(* unless one of its logins is still under way, which may be the one that    *)
(* makes the channel, or one was cut: the rows of a login are not one        *)
(* transaction, and the next login takes a guild without channel as it is.   *)
AnsweredHasChannel ==
  \A u \in served \ past.cut :
    LoginsOf(u) = {} => \E g \in chans : Member(g, u)

(* A user gets one guild of its own, however often it logs in, unless two of *)
(* its logins ran at a time or one was cut between the guild and the owner's *)
(* membership.                                                               *)
OneHome ==
  \A u \in Users \ (past.twice \union past.cut) : Cardinality({g \in Guilds : owner[g] = u}) <= 1

(* When no join or upload of a guild is under way the last member list that  *)
(* was broadcast is the member list, roles included, unless an older one     *)
(* overtook it or its request failed, and that is over with the next list.   *)
ListsAreCurrent ==
  \A g \in Guilds \ past.late :
    (told[g] # NoRole /\ \A r \in Requests : ~(req[r].step \in {"read", "announce"} /\ req[r].guild = g))
      => told[g] = role[g]

(* A member gets the newest welcome that was stored for its device, unless a *)
(* recovery had read an older one before and stored it again after.          *)
NewestCounts ==
  \A g \in Guilds, u \in Users, d \in Devices :
    LET given == {mail[i].welcome : i \in Mail(g, u, d)} IN
    \A w \in given : (\A v \in given : v <= w) => w \in past.buried \/ FetchPendingWelcome(g, u, d) = {w}
=============================================================================
