------------------------- MODULE GuildServerProofs -------------------------
(***************************************************************************)
(* Proofs about GuildServer, for any users, guilds, devices, requests and  *)
(* bounds.                                                                 *)
(*                                                                         *)
(* OneHome needs HomeInv: a user's guild has its owner as a member or the  *)
(* login that makes it on the way there, and a user has one login.         *)
(* AnsweredHasChannel needs ChannelInv: a member has a channel or a login  *)
(* that makes one.  ListsAreCurrent needs ListInv: as long as a member     *)
(* list is stale, a request is on its way that will read the current one   *)
(* or has.  NewestCounts needs RowInv: the last row of a device covers the *)
(* others, but for those a recovery has buried.                            *)
(***************************************************************************)
EXTENDS GuildServer, FiniteSetTheorems, TLAPS

(* The parts of TypeOK. *)
Tables ==
  /\ owner \in [Guilds -> Users \union {Nothing}] /\ chans \subseteq Guilds
  /\ role \in [Guilds -> [Users -> Roles]] /\ told \in [Guilds -> [Users -> Roles]]
  /\ device \in [Devices -> Users \union {Nothing}] /\ served \subseteq Users
PackRows == [guild : Guilds, user : Users, device : Devices]
MailRows == [guild : Guilds, user : Users, device : Devices, welcome : Nat]
Rows == packs \in Seq(PackRows) /\ mail \in Seq(MailRows) /\ made \in Nat
RequestSet ==
  [kind : {"none", "login", "join", "upload", "welcome", "recover"}, step : Steps,
   user : Users \union {Nothing}, guild : Guilds \union {Nothing}, target : Users \union {Nothing},
   device : Devices \union {Nothing}, list : [Users -> Roles], welcome : Nat]
Reqs == req \in [Requests -> RequestSet]
Hists ==
  /\ past \in [twice : SUBSET Users, cut : SUBSET Users, late : SUBSET Guilds, buried : SUBSET Nat]
  /\ turns \in Nat

(* The steps of each kind of request and what it names. *)
StepInv ==
  \A r \in Requests :
    /\ req[r].kind = "none" => req[r].step = "none"
    /\ req[r].kind = "login" => req[r].step \in {"list", "guild", "owner", "channel"}
    /\ req[r].kind \in {"join", "upload"} => req[r].step \in {"read", "announce"}
    /\ req[r].kind = "welcome" => req[r].step = "store"
    /\ req[r].kind = "recover" => req[r].step = "copy"
    /\ req[r].kind # "none" => req[r].user \in Users
    /\ req[r].kind \in {"welcome", "recover"} => req[r].device \in Devices /\ req[r].target \in Users
    /\ req[r].step \notin {"none", "list", "guild"} => req[r].guild \in Guilds

Pending(r, g) == req[r].step \in {"read", "announce"} /\ req[r].guild = g

Empty(g) == \A u \in Users : ~ Member(g, u)

(* A guild without owner has no members, and one without members has one     *)
(* login at most that is about to make its owner one; nobody has heard of it. *)
MakerInv ==
  /\ \A g \in Guilds : owner[g] = Nothing => Empty(g)
  /\ \A r \in Requests : At(r, "login", "owner") => owner[req[r].guild] = req[r].user /\ Empty(req[r].guild)
  /\ \A r, s \in Requests :
       At(r, "login", "owner") /\ At(s, "login", "owner") /\ req[r].guild = req[s].guild => r = s
  /\ \A r \in Requests : At(r, "login", "channel") => Member(req[r].guild, req[r].user)
QuietInv == \A g \in Guilds : Empty(g) => told[g] = NoRole /\ \A r \in Requests : ~ Pending(r, g)

OnTheWay(g, u) == \E r \in Requests : At(r, "login", "owner") /\ req[r].guild = g /\ req[r].user = u

HomeOf(u) ==
  /\ \A r, s \in LoginsOf(u) : r = s
  /\ \A g \in Guilds : owner[g] = u => Member(g, u) \/ OnTheWay(g, u)
  /\ \A r \in LoginsOf(u) : req[r].step = "guild" => \A g \in Guilds : owner[g] # u
  /\ \A g, h \in Guilds : owner[g] = u /\ owner[h] = u => g = h
HomeInv == \A u \in Users \ (past.twice \union past.cut) : HomeOf(u)

ChannelInv ==
  /\ \A u \in served : \E g \in Guilds : Member(g, u)
  /\ \A u \in Users \ past.cut : (\E g \in Guilds : Member(g, u)) =>
       (\E g \in chans : Member(g, u)) \/ \E r \in LoginsOf(u) : req[r].step = "channel"

(* Some request that is under way has the current list or will read it. *)
Fresh(g) == \E r \in Requests : Pending(r, g) /\ (req[r].step = "read" \/ req[r].list = role[g])

ListInv ==
  /\ \A r \in Requests : req[r].step = "announce" =>
       \A u \in Users : Rank(req[r].list[u]) <= Rank(role[req[r].guild][u])
  /\ \A g \in Guilds :
       \/ g \in past.late \/ told[g] = role[g] \/ Fresh(g)
       \/ told[g] = NoRole /\ \A r \in Requests : ~ Pending(r, g)

(* Who has a welcome is in the channel. *)
MailInv == \A i \in DOMAIN mail : InChannel(mail[i].guild, mail[i].user)

(* No welcome of the device is newer than w, but those that are buried. *)
Covers(w, g, u, d) == \A j \in Mail(g, u, d) : mail[j].welcome <= w \/ mail[j].welcome \in past.buried

RowInv ==
  /\ \A i \in DOMAIN mail : mail[i].welcome <= made
  /\ \A g \in Guilds, u \in Users, d \in Devices :
       /\ Mail(g, u, d) # {} => NewestMail(g, u, d) # {}
       /\ \A i \in NewestMail(g, u, d) : Covers(mail[i].welcome, g, u, d)
  /\ \A r \in Requests : req[r].kind = "recover" =>
       /\ \E j \in Mail(req[r].guild, req[r].target, req[r].device) : mail[j].welcome = req[r].welcome
       /\ Covers(req[r].welcome, req[r].guild, req[r].target, req[r].device)

(* The type invariant, taken apart. *)
LEMMA TypeParts ==
  TypeOK => Tables /\ Rows /\ Reqs /\ Hists
  BY DEF TypeOK, Tables, Rows, PackRows, MailRows, Reqs, RequestSet, Hists

LEMMA TypeFromParts ==
  Tables /\ Rows /\ Reqs /\ Hists /\ StepInv => TypeOK
  BY DEF TypeOK, Tables, Rows, PackRows, MailRows, Reqs, RequestSet, Hists, StepInv

(* An idle request is one of the requests there may be. *)
LEMMA NoRequestType ==
  /\ NoRequest \in RequestSet /\ NoRole \in [Users -> Roles]
  /\ NoRequest.kind = "none" /\ NoRequest.step = "none" /\ NoRequest.list = NoRole
  BY DEF NoRequest, NoRole, Roles, RequestSet, Steps

(* The ranks of the roles tell them apart. *)
LEMMA RankFacts ==
  /\ \A a \in Roles : Rank(a) \in Nat
  /\ \A a, b \in Roles : Rank(a) = Rank(b) => a = b
  /\ \A a \in Roles : Rank("none") <= Rank(a) /\ Rank(a) <= Rank("member")
  BY DEF Roles, Rank

\* No step breaks the types of the tables.
LEMMA TablesKept ==
  ASSUME TypeOK, StepInv, [Next]_vars
  PROVE  Tables'
<1> USE DEF Begin, Move, Answer, Turn, Idle, At
<1>0. Tables /\ Rows /\ Reqs /\ Hists
  BY TypeParts
<1>1. CASE UNCHANGED vars
  BY <1>0, <1>1, NoRequestType DEF vars, Tables, Roles
<1>2. ASSUME NEW r \in Requests, NEW u \in Users, StartLogin(r, u) PROVE Tables'
  BY <1>0, <1>2, NoRequestType DEF Tables, StartLogin, Roles
<1>3. ASSUME NEW r \in Requests, ListOwn(r) PROVE Tables'
  BY <1>0, <1>3, NoRequestType DEF Tables, ListOwn, AnswerLogin, Roles, StepInv, Reqs, RequestSet
<1>4. ASSUME NEW r \in Requests, NEW g \in Guilds, NewGuild(r, g) PROVE Tables'
  BY <1>0, <1>4, NoRequestType DEF Tables, NewGuild, Roles, StepInv, Reqs, RequestSet
<1>5. ASSUME NEW r \in Requests, AddOwner(r) PROVE Tables'
  BY <1>0, <1>5, NoRequestType DEF Tables, AddOwner, AddMembership, Roles, StepInv, Reqs, RequestSet
<1>6. ASSUME NEW r \in Requests, NewChannel(r) PROVE Tables'
  BY <1>0, <1>6, NoRequestType DEF Tables, NewChannel, AnswerLogin, CreateChannel, Roles, StepInv, Reqs, RequestSet
<1>7. ASSUME NEW r \in Requests, NEW u \in Users, NEW g \in Guilds, StartJoin(r, u, g) PROVE Tables'
  BY <1>0, <1>7, NoRequestType DEF Tables, StartJoin, AddMembership, Listing, Roles
<1>8. ASSUME NEW r \in Requests, NEW d \in Devices, NEW g \in Guilds, StartUpload(r, d, g) PROVE Tables'
  BY <1>0, <1>8, NoRequestType DEF Tables, StartUpload, InsertKeyPackage, Listing, Roles
<1>9. ASSUME NEW r \in Requests, ReadMembers(r) PROVE Tables'
  BY <1>0, <1>9, NoRequestType DEF Tables, ReadMembers, ListMembers, Roles
<1>10. ASSUME NEW r \in Requests, Announce(r) PROVE Tables'
  BY <1>0, <1>10, NoRequestType DEF Tables, Announce, ListMembers, Roles, StepInv, Reqs, RequestSet
<1>11. ASSUME NEW r \in Requests, NEW u \in Users, NEW t \in Users, NEW g \in Guilds, NEW d \in Devices \union {Nothing}, FetchKeyPackage(r, u, t, g, d) PROVE Tables'
  BY <1>0, <1>11, NoRequestType DEF Tables, FetchKeyPackage, Roles
<1>12. ASSUME NEW r \in Requests, StorePendingWelcome(r) PROVE Tables'
  BY <1>0, <1>12, NoRequestType DEF Tables, StorePendingWelcome, InsertPendingWelcome, Roles
<1>13. ASSUME NEW r \in Requests, NEW u \in Users, NEW t \in Users, NEW g \in Guilds, NEW d \in Devices, StartRecover(r, u, t, g, d) PROVE Tables'
  BY <1>0, <1>13, NoRequestType DEF Tables, StartRecover, Roles
<1>14. ASSUME NEW r \in Requests, CopyMail(r) PROVE Tables'
  BY <1>0, <1>14, NoRequestType DEF Tables, CopyMail, InsertPendingWelcome, Roles
<1>15. ASSUME NEW r \in Requests, Fail(r) PROVE Tables'
  BY <1>0, <1>15, NoRequestType DEF Tables, Fail, Roles
<1>16. ASSUME NEW u \in Users, NEW d \in Devices, Register(u, d) PROVE Tables'
  BY <1>0, <1>16, NoRequestType DEF Tables, Register, Roles
<1> QED
  BY <1>1, <1>2, <1>3, <1>4, <1>5, <1>6, <1>7, <1>8, <1>9, <1>10, <1>11, <1>12, <1>13, <1>14, <1>15, <1>16 DEF Next

\* No step breaks the types of key packages and welcomes.
LEMMA RowsKept ==
  ASSUME TypeOK, StepInv, [Next]_vars
  PROVE  Rows'
<1> USE DEF Begin, Move, Answer, Turn, Idle, At
<1>0. Tables /\ Rows /\ Reqs /\ Hists
  BY TypeParts
<1>1. CASE UNCHANGED vars
  BY <1>0, <1>1 DEF vars, Rows
<1>2. ASSUME NEW r \in Requests, NEW u \in Users, StartLogin(r, u) PROVE Rows'
  BY <1>0, <1>2 DEF Rows, StartLogin
<1>3. ASSUME NEW r \in Requests, ListOwn(r) PROVE Rows'
  BY <1>0, <1>3 DEF Rows, ListOwn, AnswerLogin
<1>4. ASSUME NEW r \in Requests, NEW g \in Guilds, NewGuild(r, g) PROVE Rows'
  BY <1>0, <1>4 DEF Rows, NewGuild
<1>5. ASSUME NEW r \in Requests, AddOwner(r) PROVE Rows'
  BY <1>0, <1>5 DEF Rows, AddOwner, AddMembership
<1>6. ASSUME NEW r \in Requests, NewChannel(r) PROVE Rows'
  BY <1>0, <1>6 DEF Rows, NewChannel, AnswerLogin, CreateChannel
<1>7. ASSUME NEW r \in Requests, NEW u \in Users, NEW g \in Guilds, StartJoin(r, u, g) PROVE Rows'
  BY <1>0, <1>7 DEF Rows, StartJoin, AddMembership, Listing
<1>8. ASSUME NEW r \in Requests, NEW d \in Devices, NEW g \in Guilds, StartUpload(r, d, g) PROVE Rows'
  BY <1>0, <1>8, GuildServerAssumption DEF Rows, StartUpload, InsertKeyPackage, Listing, Tables, PackRows, Member, Roles
<1>9. ASSUME NEW r \in Requests, ReadMembers(r) PROVE Rows'
  BY <1>0, <1>9 DEF Rows, ReadMembers, ListMembers
<1>10. ASSUME NEW r \in Requests, Announce(r) PROVE Rows'
  BY <1>0, <1>10 DEF Rows, Announce, ListMembers
<1>11. ASSUME NEW r \in Requests, NEW u \in Users, NEW t \in Users, NEW g \in Guilds, NEW d \in Devices \union {Nothing}, FetchKeyPackage(r, u, t, g, d) PROVE Rows'
  BY <1>0, <1>11 DEF Rows, FetchKeyPackage
<1>12. ASSUME NEW r \in Requests, StorePendingWelcome(r) PROVE Rows'
  BY <1>0, <1>12 DEF Rows, StorePendingWelcome, InsertPendingWelcome, MailRows, StepInv, Reqs, RequestSet
<1>13. ASSUME NEW r \in Requests, NEW u \in Users, NEW t \in Users, NEW g \in Guilds, NEW d \in Devices, StartRecover(r, u, t, g, d) PROVE Rows'
  BY <1>0, <1>13 DEF Rows, StartRecover
<1>14. ASSUME NEW r \in Requests, CopyMail(r) PROVE Rows'
  <2>1. req[r].guild \in Guilds /\ req[r].target \in Users /\ req[r].device \in Devices /\ req[r].welcome \in Nat
    BY <1>0, <1>14 DEF CopyMail, StepInv, Reqs, RequestSet
  <2> QED
    BY <1>0, <1>14, <2>1 DEF Rows, CopyMail, InsertPendingWelcome, MailRows
<1>15. ASSUME NEW r \in Requests, Fail(r) PROVE Rows'
  BY <1>0, <1>15 DEF Rows, Fail
<1>16. ASSUME NEW u \in Users, NEW d \in Devices, Register(u, d) PROVE Rows'
  BY <1>0, <1>16 DEF Rows, Register
<1> QED
  BY <1>1, <1>2, <1>3, <1>4, <1>5, <1>6, <1>7, <1>8, <1>9, <1>10, <1>11, <1>12, <1>13, <1>14, <1>15, <1>16 DEF Next

\* No step breaks the types of the requests.
LEMMA ReqsKept ==
  ASSUME TypeOK, StepInv, [Next]_vars
  PROVE  Reqs'
<1> USE DEF Begin, Move, Answer, Turn, Idle, At
<1>0. Tables /\ Rows /\ Reqs /\ Hists
  BY TypeParts
<1>1. CASE UNCHANGED vars
  BY <1>0, <1>1, NoRequestType DEF vars, Reqs, RequestSet, Steps
<1>2. ASSUME NEW r \in Requests, NEW u \in Users, StartLogin(r, u) PROVE Reqs'
  BY <1>0, <1>2, NoRequestType DEF Reqs, StartLogin, RequestSet, Steps, LoginsOf
<1>3. ASSUME NEW r \in Requests, ListOwn(r) PROVE Reqs'
  <2>1. req[r] \in RequestSet
    BY <1>0 DEF Reqs
  <2>2. \A s \in Steps : [req[r] EXCEPT !.step = s] \in RequestSet
    BY <2>1 DEF RequestSet
  <2>3. \E q \in RequestSet : req' = [req EXCEPT ![r] = q]
    BY <2>1, <2>2, <1>3, NoRequestType DEF ListOwn, AnswerLogin, Steps
  <2> QED
    BY <1>0, <2>3 DEF Reqs
<1>4. ASSUME NEW r \in Requests, NEW g \in Guilds, NewGuild(r, g) PROVE Reqs'
  BY <1>0, <1>4, NoRequestType DEF Reqs, NewGuild, RequestSet, Steps
<1>5. ASSUME NEW r \in Requests, AddOwner(r) PROVE Reqs'
  <2>1. req[r] \in RequestSet
    BY <1>0 DEF Reqs
  <2>2. \A s \in Steps : [req[r] EXCEPT !.step = s] \in RequestSet
    BY <2>1 DEF RequestSet
  <2>3. \E q \in RequestSet : req' = [req EXCEPT ![r] = q]
    BY <2>1, <2>2, <1>5, NoRequestType DEF AddOwner, Steps
  <2> QED
    BY <1>0, <2>3 DEF Reqs
<1>6. ASSUME NEW r \in Requests, NewChannel(r) PROVE Reqs'
  BY <1>0, <1>6, NoRequestType DEF Reqs, NewChannel, AnswerLogin, CreateChannel, RequestSet, Steps
<1>7. ASSUME NEW r \in Requests, NEW u \in Users, NEW g \in Guilds, StartJoin(r, u, g) PROVE Reqs'
  BY <1>0, <1>7, NoRequestType DEF Reqs, StartJoin, AddMembership, Listing, RequestSet, Steps
<1>8. ASSUME NEW r \in Requests, NEW d \in Devices, NEW g \in Guilds, StartUpload(r, d, g) PROVE Reqs'
  BY <1>0, <1>8, NoRequestType DEF Reqs, StartUpload, InsertKeyPackage, Listing, RequestSet, Steps, Tables
<1>9. ASSUME NEW r \in Requests, ReadMembers(r) PROVE Reqs'
  BY <1>0, <1>9, NoRequestType DEF Reqs, ReadMembers, ListMembers, RequestSet, Steps, Tables, StepInv
<1>10. ASSUME NEW r \in Requests, Announce(r) PROVE Reqs'
  BY <1>0, <1>10, NoRequestType DEF Reqs, Announce, ListMembers, RequestSet, Steps
<1>11. ASSUME NEW r \in Requests, NEW u \in Users, NEW t \in Users, NEW g \in Guilds, NEW d \in Devices \union {Nothing}, FetchKeyPackage(r, u, t, g, d) PROVE Reqs'
  <2>1. PICK i \in DOMAIN packs : packs[i].guild = g /\ packs[i].user = t
            /\ Idle(r) /\ req' = [req EXCEPT ![r] = [NoRequest EXCEPT !.kind = "welcome", !.step = "store", !.user = u,
                 !.guild = g, !.target = t, !.device = packs[i].device]]
    BY <1>11 DEF FetchKeyPackage, NewestPack, Packs
  <2>2. packs[i] \in PackRows
    BY <1>0, <2>1 DEF Rows
  <2> QED
    BY <1>0, <2>1, <2>2, <1>11, NoRequestType DEF FetchKeyPackage, Reqs, PackRows, RequestSet, Steps
<1>12. ASSUME NEW r \in Requests, StorePendingWelcome(r) PROVE Reqs'
  BY <1>0, <1>12, NoRequestType DEF Reqs, StorePendingWelcome, InsertPendingWelcome, RequestSet, Steps
<1>13. ASSUME NEW r \in Requests, NEW u \in Users, NEW t \in Users, NEW g \in Guilds, NEW d \in Devices, StartRecover(r, u, t, g, d) PROVE Reqs'
  <2>1. PICK i \in DOMAIN mail : mail[i].guild = g /\ mail[i].user = t /\ mail[i].device = d
            /\ Idle(r) /\ req' = [req EXCEPT ![r] = [NoRequest EXCEPT !.kind = "recover", !.step = "copy", !.user = u,
                 !.guild = g, !.target = t, !.device = d, !.welcome = mail[i].welcome]]
    BY <1>13 DEF StartRecover, LatestAnyState, NewestMail, Mail
  <2>2. mail[i] \in MailRows
    BY <1>0, <2>1 DEF Rows
  <2> QED
    BY <1>0, <2>1, <2>2, <1>13, NoRequestType DEF StartRecover, Reqs, MailRows, RequestSet, Steps
<1>14. ASSUME NEW r \in Requests, CopyMail(r) PROVE Reqs'
  BY <1>0, <1>14, NoRequestType DEF Reqs, CopyMail, InsertPendingWelcome, RequestSet, Steps
<1>15. ASSUME NEW r \in Requests, Fail(r) PROVE Reqs'
  BY <1>0, <1>15, NoRequestType DEF Reqs, Fail, RequestSet, Steps
<1>16. ASSUME NEW u \in Users, NEW d \in Devices, Register(u, d) PROVE Reqs'
  BY <1>0, <1>16, NoRequestType DEF Reqs, Register, RequestSet, Steps
<1> QED
  BY <1>1, <1>2, <1>3, <1>4, <1>5, <1>6, <1>7, <1>8, <1>9, <1>10, <1>11, <1>12, <1>13, <1>14, <1>15, <1>16 DEF Next

\* No step breaks the types of the history.
LEMMA HistsKept ==
  ASSUME TypeOK, StepInv, [Next]_vars
  PROVE  Hists'
<1> USE DEF Begin, Move, Answer, Turn, Idle, At
<1>0. Tables /\ Rows /\ Reqs /\ Hists
  BY TypeParts
<1>1. CASE UNCHANGED vars
  BY <1>0, <1>1 DEF vars, Hists
<1>2. ASSUME NEW r \in Requests, NEW u \in Users, StartLogin(r, u) PROVE Hists'
  BY <1>0, <1>2 DEF Hists, StartLogin, LoginsOf
<1>3. ASSUME NEW r \in Requests, ListOwn(r) PROVE Hists'
  BY <1>0, <1>3 DEF Hists, ListOwn, AnswerLogin
<1>4. ASSUME NEW r \in Requests, NEW g \in Guilds, NewGuild(r, g) PROVE Hists'
  BY <1>0, <1>4 DEF Hists, NewGuild
<1>5. ASSUME NEW r \in Requests, AddOwner(r) PROVE Hists'
  BY <1>0, <1>5 DEF Hists, AddOwner, AddMembership
<1>6. ASSUME NEW r \in Requests, NewChannel(r) PROVE Hists'
  BY <1>0, <1>6 DEF Hists, NewChannel, AnswerLogin, CreateChannel
<1>7. ASSUME NEW r \in Requests, NEW u \in Users, NEW g \in Guilds, StartJoin(r, u, g) PROVE Hists'
  BY <1>0, <1>7 DEF Hists, StartJoin, AddMembership, Listing
<1>8. ASSUME NEW r \in Requests, NEW d \in Devices, NEW g \in Guilds, StartUpload(r, d, g) PROVE Hists'
  BY <1>0, <1>8 DEF Hists, StartUpload, InsertKeyPackage, Listing
<1>9. ASSUME NEW r \in Requests, ReadMembers(r) PROVE Hists'
  BY <1>0, <1>9 DEF Hists, ReadMembers, ListMembers
<1>10. ASSUME NEW r \in Requests, Announce(r) PROVE Hists'
  BY <1>0, <1>10 DEF Hists, Announce, ListMembers, StepInv, Reqs, RequestSet
<1>11. ASSUME NEW r \in Requests, NEW u \in Users, NEW t \in Users, NEW g \in Guilds, NEW d \in Devices \union {Nothing}, FetchKeyPackage(r, u, t, g, d) PROVE Hists'
  BY <1>0, <1>11 DEF Hists, FetchKeyPackage
<1>12. ASSUME NEW r \in Requests, StorePendingWelcome(r) PROVE Hists'
  <2>1. made + 1 \in Nat
    BY <1>0 DEF Rows
  <2>2. past.buried \union {made + 1} \in SUBSET Nat
    BY <1>0, <2>1 DEF Hists
  <2>3. past' = past \/ past' = [past EXCEPT !.buried = past.buried \union {made + 1}]
    <3>1. past = [past EXCEPT !.buried = past.buried]
      BY <1>0 DEF Hists
    <3> QED
      BY <3>1, <1>12 DEF StorePendingWelcome
  <2> QED
    BY <1>0, <2>2, <2>3, <1>12 DEF StorePendingWelcome, Hists
<1>13. ASSUME NEW r \in Requests, NEW u \in Users, NEW t \in Users, NEW g \in Guilds, NEW d \in Devices, StartRecover(r, u, t, g, d) PROVE Hists'
  BY <1>0, <1>13 DEF Hists, StartRecover
<1>14. ASSUME NEW r \in Requests, CopyMail(r) PROVE Hists'
  BY <1>0, <1>14 DEF Hists, CopyMail, InsertPendingWelcome
<1>15. ASSUME NEW r \in Requests, Fail(r) PROVE Hists'
  <2> DEFINE cut == IF req[r].kind = "login" THEN past.cut \union {req[r].user} ELSE past.cut
  <2> DEFINE late == IF req[r].step \in {"read", "announce"} THEN past.late \union {req[r].guild} ELSE past.late
  <2>1. cut \in SUBSET Users
    BY <1>0 DEF StepInv, Hists
  <2>2. late \in SUBSET Guilds
    BY <1>0 DEF StepInv, Hists
  <2>3. past' = [past EXCEPT !.cut = cut, !.late = late] /\ turns' = turns + 1
    BY <1>15 DEF Fail
  <2> HIDE DEF cut, late
  <2>4. past' = [twice |-> past.twice, cut |-> cut, late |-> late, buried |-> past.buried]
    BY <1>0, <2>3 DEF Hists
  <2>5. turns' \in Nat
    BY <1>0, <2>3 DEF Hists
  <2>6. past.twice \in SUBSET Users /\ past.buried \in SUBSET Nat
    BY <1>0 DEF Hists
  <2> QED
    BY <2>1, <2>2, <2>4, <2>5, <2>6 DEF Hists
<1>16. ASSUME NEW u \in Users, NEW d \in Devices, Register(u, d) PROVE Hists'
  BY <1>0, <1>16 DEF Hists, Register
<1> QED
  BY <1>1, <1>2, <1>3, <1>4, <1>5, <1>6, <1>7, <1>8, <1>9, <1>10, <1>11, <1>12, <1>13, <1>14, <1>15, <1>16 DEF Next

\* No step breaks what a request names at its step.
LEMMA StepInvKept ==
  ASSUME TypeOK, StepInv, [Next]_vars
  PROVE  StepInv'
<1> USE DEF Begin, Move, Answer, Turn, Idle, At
<1>0. Tables /\ Rows /\ Reqs /\ Hists
  BY TypeParts
<1>1. CASE UNCHANGED vars
  BY <1>0, <1>1, NoRequestType DEF vars, StepInv, Reqs, RequestSet
<1>2. ASSUME NEW r \in Requests, NEW u \in Users, StartLogin(r, u) PROVE StepInv'
  BY <1>0, <1>2, NoRequestType DEF StepInv, StartLogin, Reqs, RequestSet, NoRequest
<1>3. ASSUME NEW r \in Requests, ListOwn(r) PROVE StepInv'
  <2>1. CASE OwnGuilds(req[r].user) = {}
    BY <1>0, <2>1, <1>3 DEF ListOwn, StepInv, Reqs, RequestSet
  <2>2. CASE OwnGuilds(req[r].user) # {}
    BY <1>0, <2>2, <1>3, NoRequestType DEF ListOwn, AnswerLogin, StepInv, Reqs, RequestSet
  <2> QED
    BY <2>1, <2>2
<1>4. ASSUME NEW r \in Requests, NEW g \in Guilds, NewGuild(r, g) PROVE StepInv'
  BY <1>0, <1>4, NoRequestType DEF StepInv, NewGuild, Reqs, RequestSet
<1>5. ASSUME NEW r \in Requests, AddOwner(r) PROVE StepInv'
  BY <1>0, <1>5, NoRequestType DEF StepInv, AddOwner, AddMembership, Reqs, RequestSet
<1>6. ASSUME NEW r \in Requests, NewChannel(r) PROVE StepInv'
  BY <1>0, <1>6, NoRequestType DEF StepInv, NewChannel, AnswerLogin, CreateChannel, Reqs, RequestSet
<1>7. ASSUME NEW r \in Requests, NEW u \in Users, NEW g \in Guilds, StartJoin(r, u, g) PROVE StepInv'
  BY <1>0, <1>7, NoRequestType DEF StepInv, StartJoin, AddMembership, Listing, Reqs, RequestSet
<1>8. ASSUME NEW r \in Requests, NEW d \in Devices, NEW g \in Guilds, StartUpload(r, d, g) PROVE StepInv'
  BY <1>0, <1>8, NoRequestType, GuildServerAssumption DEF StepInv, StartUpload, InsertKeyPackage, Listing, Reqs, RequestSet, Tables, Member
<1>9. ASSUME NEW r \in Requests, ReadMembers(r) PROVE StepInv'
  BY <1>0, <1>9, NoRequestType DEF StepInv, ReadMembers, ListMembers, Reqs, RequestSet
<1>10. ASSUME NEW r \in Requests, Announce(r) PROVE StepInv'
  BY <1>0, <1>10, NoRequestType DEF StepInv, Announce, ListMembers, Reqs, RequestSet
<1>11. ASSUME NEW r \in Requests, NEW u \in Users, NEW t \in Users, NEW g \in Guilds, NEW d \in Devices \union {Nothing}, FetchKeyPackage(r, u, t, g, d) PROVE StepInv'
  <2>1. PICK i \in DOMAIN packs : packs[i].guild = g /\ packs[i].user = t
            /\ Idle(r) /\ req' = [req EXCEPT ![r] = [NoRequest EXCEPT !.kind = "welcome", !.step = "store", !.user = u,
                 !.guild = g, !.target = t, !.device = packs[i].device]]
    BY <1>11 DEF FetchKeyPackage, NewestPack, Packs
  <2>2. packs[i] \in PackRows
    BY <1>0, <2>1 DEF Rows
  <2> QED
    BY <1>0, <2>1, <2>2, <1>11, NoRequestType DEF FetchKeyPackage, Reqs, PackRows, RequestSet, StepInv
<1>12. ASSUME NEW r \in Requests, StorePendingWelcome(r) PROVE StepInv'
  BY <1>0, <1>12, NoRequestType DEF StepInv, StorePendingWelcome, InsertPendingWelcome, Reqs, RequestSet
<1>13. ASSUME NEW r \in Requests, NEW u \in Users, NEW t \in Users, NEW g \in Guilds, NEW d \in Devices, StartRecover(r, u, t, g, d) PROVE StepInv'
  <2>1. PICK i \in DOMAIN mail : mail[i].guild = g /\ mail[i].user = t /\ mail[i].device = d
            /\ Idle(r) /\ req' = [req EXCEPT ![r] = [NoRequest EXCEPT !.kind = "recover", !.step = "copy", !.user = u,
                 !.guild = g, !.target = t, !.device = d, !.welcome = mail[i].welcome]]
    BY <1>13 DEF StartRecover, LatestAnyState, NewestMail, Mail
  <2>2. mail[i] \in MailRows
    BY <1>0, <2>1 DEF Rows
  <2> QED
    BY <1>0, <2>1, <2>2, <1>13, NoRequestType DEF StartRecover, Reqs, MailRows, RequestSet, StepInv
<1>14. ASSUME NEW r \in Requests, CopyMail(r) PROVE StepInv'
  BY <1>0, <1>14, NoRequestType DEF StepInv, CopyMail, InsertPendingWelcome, Reqs, RequestSet
<1>15. ASSUME NEW r \in Requests, Fail(r) PROVE StepInv'
  BY <1>0, <1>15, NoRequestType DEF StepInv, Fail, Reqs, RequestSet
<1>16. ASSUME NEW u \in Users, NEW d \in Devices, Register(u, d) PROVE StepInv'
  BY <1>0, <1>16, NoRequestType DEF StepInv, Register, Reqs, RequestSet
<1> QED
  BY <1>1, <1>2, <1>3, <1>4, <1>5, <1>6, <1>7, <1>8, <1>9, <1>10, <1>11, <1>12, <1>13, <1>14, <1>15, <1>16 DEF Next

(* The request that a fetched key package makes. *)
LEMMA FetchEffect ==
  ASSUME Rows, Reqs, NEW r \in Requests, NEW u \in Users, NEW t \in Users, NEW g \in Guilds,
         NEW d \in Devices \union {Nothing}, FetchKeyPackage(r, u, t, g, d)
  PROVE  \E i \in DOMAIN packs :
           /\ packs[i] \in PackRows /\ packs[i].guild = g /\ packs[i].user = t
           /\ Idle(r) /\ \A s \in Requests : s # r => req'[s] = req[s]
           /\ req'[r].kind = "welcome" /\ req'[r].step = "store" /\ req'[r].guild = g
           /\ req'[r].user = u /\ req'[r].target = t /\ req'[r].device = packs[i].device
<1>1. PICK i \in DOMAIN packs : packs[i].guild = g /\ packs[i].user = t
            /\ Idle(r) /\ req' = [req EXCEPT ![r] = [NoRequest EXCEPT !.kind = "welcome", !.step = "store", !.user = u,
                 !.guild = g, !.target = t, !.device = packs[i].device]]
  BY DEF FetchKeyPackage, NewestPack, Packs, Begin
<1>2. packs[i] \in PackRows
  BY <1>1 DEF Rows
<1> QED
  BY <1>1, <1>2, NoRequestType DEF Reqs, RequestSet

(* The request that a recovery is between its two statements. *)
LEMMA RecoverEffect ==
  ASSUME Rows, Reqs, NEW r \in Requests, NEW u \in Users, NEW t \in Users, NEW g \in Guilds,
         NEW d \in Devices, StartRecover(r, u, t, g, d)
  PROVE  \E i \in NewestMail(g, t, d) :
           /\ mail[i] \in MailRows /\ i \in Mail(g, t, d)
           /\ Idle(r) /\ \A s \in Requests : s # r => req'[s] = req[s]
           /\ req'[r].kind = "recover" /\ req'[r].step = "copy" /\ req'[r].guild = g
           /\ req'[r].user = u /\ req'[r].target = t /\ req'[r].device = d
           /\ req'[r].welcome = mail[i].welcome
<1>1. PICK i \in NewestMail(g, t, d) : 
            Idle(r) /\ req' = [req EXCEPT ![r] = [NoRequest EXCEPT !.kind = "recover", !.step = "copy", !.user = u,
                 !.guild = g, !.target = t, !.device = d, !.welcome = mail[i].welcome]]
  BY DEF StartRecover, LatestAnyState, Begin
<1>2. i \in Mail(g, t, d) /\ mail[i] \in MailRows
  BY <1>1 DEF Rows, Mail, NewestMail
<1> QED
  BY <1>1, <1>2, NoRequestType DEF Reqs, RequestSet

(* A step that moves no login. *)
LoginsStay ==
  /\ \A s \in Requests : req[s].kind = "login" \/ req'[s].kind = "login" => req'[s] = req[s]
  /\ owner' = owner /\ chans' = chans /\ served' = served
  /\ past'.twice = past.twice /\ past'.cut = past.cut

LoginStep ==
  \E r \in Requests :
    \/ \E u \in Users : StartLogin(r, u)
    \/ ListOwn(r) \/ (\E g \in Guilds : NewGuild(r, g)) \/ AddOwner(r) \/ NewChannel(r) \/ Fail(r)

(* Every step moves a login, adds a member or does neither. *)
LEMMA KindsOfSteps ==
  ASSUME TypeOK, StepInv, [Next]_vars
  PROVE  \/ LoginStep
         \/ LoginsStay /\ \E r \in Requests, u \in Users, g \in Guilds : StartJoin(r, u, g)
         \/ LoginsStay /\ role' = role
<1> USE DEF Begin, Move, Answer, Turn, Idle, At
<1>0. Tables /\ Rows /\ Reqs /\ Hists
  BY TypeParts
<1>1. CASE UNCHANGED vars
  BY <1>1 DEF vars, LoginsStay
<1>2. CASE LoginStep
  BY <1>2
<1>3. ASSUME NEW r \in Requests, NEW u \in Users, NEW g \in Guilds, StartJoin(r, u, g) PROVE LoginsStay
  BY <1>0, <1>3, NoRequestType DEF StartJoin, Listing, LoginsStay, Reqs, RequestSet
<1>4. ASSUME NEW r \in Requests, NEW d \in Devices, NEW g \in Guilds, StartUpload(r, d, g)
      PROVE  LoginsStay /\ role' = role
  BY <1>0, <1>4, NoRequestType DEF StartUpload, Listing, LoginsStay, Reqs, RequestSet
<1>5. ASSUME NEW r \in Requests, ReadMembers(r) PROVE LoginsStay /\ role' = role
  BY <1>0, <1>5 DEF ReadMembers, StepInv, LoginsStay, Reqs, RequestSet
<1>6. ASSUME NEW r \in Requests, Announce(r) PROVE LoginsStay /\ role' = role
  BY <1>0, <1>6, NoRequestType DEF Announce, StepInv, LoginsStay, Reqs, RequestSet, Hists
<1>7. ASSUME NEW r \in Requests, NEW u \in Users, NEW t \in Users, NEW g \in Guilds, NEW d \in Devices \union {Nothing},
             FetchKeyPackage(r, u, t, g, d)
      PROVE  LoginsStay /\ role' = role
  <2>1. UNCHANGED <<owner, chans, role, served, past>>
    BY <1>7 DEF FetchKeyPackage
  <2> QED
    BY <1>0, <1>7, <2>1, FetchEffect DEF LoginsStay
<1>8. ASSUME NEW r \in Requests, StorePendingWelcome(r) PROVE LoginsStay /\ role' = role
  <2>1. UNCHANGED <<owner, chans, role, served>> /\ past'.twice = past.twice /\ past'.cut = past.cut
    BY <1>0, <1>8 DEF StorePendingWelcome, Hists
  <2>2. req[r].kind = "welcome" /\ req' = [req EXCEPT ![r] = NoRequest]
    BY <1>8 DEF StorePendingWelcome
  <2> QED
    BY <1>0, <2>1, <2>2, NoRequestType DEF LoginsStay, Reqs
<1>9. ASSUME NEW r \in Requests, NEW u \in Users, NEW t \in Users, NEW g \in Guilds, NEW d \in Devices, StartRecover(r, u, t, g, d)
      PROVE  LoginsStay /\ role' = role
  <2>1. UNCHANGED <<owner, chans, role, served, past>>
    BY <1>9 DEF StartRecover
  <2> QED
    BY <1>0, <1>9, <2>1, RecoverEffect DEF LoginsStay
<1>10. ASSUME NEW r \in Requests, CopyMail(r) PROVE LoginsStay /\ role' = role
  BY <1>0, <1>10, NoRequestType DEF CopyMail, LoginsStay, Reqs
<1>11. ASSUME NEW u \in Users, NEW d \in Devices, Register(u, d) PROVE LoginsStay /\ role' = role
  BY <1>11 DEF Register, LoginsStay
<1> QED
  BY <1>1, <1>2, <1>3, <1>4, <1>5, <1>6, <1>7, <1>8, <1>9, <1>10, <1>11 DEF Next, LoginStep

(* No step takes a membership away; only a login gives a guild its first. *)
LEMMA MembersStay ==
  ASSUME TypeOK, StepInv, [Next]_vars
  PROVE  \A g \in Guilds, u \in Users : Member(g, u) => Member(g, u)'
<1> USE DEF Member, Tables, Roles
<1>0. Tables /\ Reqs
  BY TypeParts
<1>1. CASE LoginStep
  <2>1. ASSUME NEW r \in Requests, AddOwner(r) PROVE \A g \in Guilds, u \in Users : Member(g, u) => Member(g, u)'
    <3>1. req[r].guild \in Guilds /\ req[r].user \in Users
      BY <2>1 DEF AddOwner, At, StepInv
    <3> QED
      BY <1>0, <2>1, <3>1 DEF AddOwner, AddMembership
  <2>2. ASSUME NEW r \in Requests, NEW u \in Users, NEW g \in Guilds,
               StartLogin(r, u) \/ ListOwn(r) \/ NewGuild(r, g) \/ NewChannel(r) \/ Fail(r)
        PROVE  role' = role
    BY <2>2 DEF StartLogin, ListOwn, NewGuild, NewChannel, Fail
  <2> QED
    BY <1>1, <2>1, <2>2 DEF LoginStep
<1>2. ASSUME NEW r \in Requests, NEW v \in Users, NEW h \in Guilds, StartJoin(r, v, h)
      PROVE  \A g \in Guilds, u \in Users : Member(g, u) => Member(g, u)'
  BY <1>0, <1>2 DEF StartJoin, AddMembership
<1>3. CASE role' = role
  BY <1>3
<1> QED
  BY <1>1, <1>2, <1>3, KindsOfSteps

(* Only a join and an upload start to list members, and only they broadcast. *)
LEMMA PendingFrom ==
  ASSUME TypeOK, StepInv, [Next]_vars
  PROVE  \/ /\ \A s \in Requests, g \in Guilds : Pending(s, g)' => Pending(s, g)
            /\ told' = told \/ \E r \in Requests : Announce(r)
         \/ /\ \E r \in Requests, h \in Guilds :
                 /\ ~ Empty(h) /\ \A s \in Requests, g \in Guilds :
                                    Pending(s, g)' => Pending(s, g) \/ (s = r /\ g = h)
            /\ told' = told
<1> USE DEF Begin, Move, Answer, Turn, Idle, At, Pending
<1>0. Tables /\ Rows /\ Reqs /\ Hists
  BY TypeParts
<1> DEFINE Less == \A s \in Requests, g \in Guilds : Pending(s, g)' => Pending(s, g)
<1>1. CASE UNCHANGED vars
  BY <1>1 DEF vars
<1>2. ASSUME NEW r \in Requests, NEW u \in Users, StartLogin(r, u) PROVE Less /\ told' = told
  BY <1>0, <1>2, NoRequestType DEF StartLogin, Reqs, RequestSet
<1>3. ASSUME NEW r \in Requests, ListOwn(r) PROVE Less /\ told' = told
  BY <1>0, <1>3, NoRequestType DEF ListOwn, AnswerLogin, Reqs, RequestSet
<1>4. ASSUME NEW r \in Requests, NEW g \in Guilds, NewGuild(r, g) PROVE Less /\ told' = told
  BY <1>0, <1>4 DEF NewGuild, Reqs, RequestSet
<1>5. ASSUME NEW r \in Requests, AddOwner(r) PROVE Less /\ told' = told
  BY <1>0, <1>5 DEF AddOwner, Reqs, RequestSet
<1>6. ASSUME NEW r \in Requests, NewChannel(r) \/ StorePendingWelcome(r) \/ CopyMail(r) \/ Fail(r) PROVE Less /\ told' = told
  BY <1>0, <1>6, NoRequestType DEF NewChannel, AnswerLogin, StorePendingWelcome, CopyMail, Fail, Reqs
<1>7. ASSUME NEW r \in Requests, NEW u \in Users, NEW h \in Guilds, StartJoin(r, u, h)
      PROVE  /\ ~ Empty(h) /\ told' = told
             /\ \A s \in Requests, g \in Guilds : Pending(s, g)' => Pending(s, g) \/ (s = r /\ g = h)
  BY <1>0, <1>7, NoRequestType DEF StartJoin, Listing, Invited, Empty, Reqs, RequestSet
<1>8. ASSUME NEW r \in Requests, NEW d \in Devices, NEW h \in Guilds, StartUpload(r, d, h)
      PROVE  /\ ~ Empty(h) /\ told' = told
             /\ \A s \in Requests, g \in Guilds : Pending(s, g)' => Pending(s, g) \/ (s = r /\ g = h)
  <2>1. device[d] \in Users /\ Member(h, device[d])
    BY <1>0, <1>8 DEF StartUpload, Tables
  <2> QED
    BY <1>0, <1>8, <2>1, NoRequestType DEF StartUpload, Listing, Empty, Reqs, RequestSet
<1>9. ASSUME NEW r \in Requests, ReadMembers(r) PROVE Less /\ told' = told
  BY <1>0, <1>9 DEF ReadMembers, Reqs, RequestSet
<1>10. ASSUME NEW r \in Requests, Announce(r) PROVE Less
  BY <1>0, <1>10, NoRequestType DEF Announce, Reqs, RequestSet
<1>11. ASSUME NEW r \in Requests, NEW u \in Users, NEW t \in Users, NEW g \in Guilds, NEW d \in Devices \union {Nothing},
              FetchKeyPackage(r, u, t, g, d)
       PROVE  Less /\ told' = told
  <2>1. told' = told
    BY <1>11 DEF FetchKeyPackage
  <2> QED
    BY <1>0, <1>11, <2>1, FetchEffect
<1>12. ASSUME NEW r \in Requests, NEW u \in Users, NEW t \in Users, NEW g \in Guilds, NEW d \in Devices, StartRecover(r, u, t, g, d)
       PROVE  Less /\ told' = told
  <2>1. told' = told
    BY <1>12 DEF StartRecover
  <2> QED
    BY <1>0, <1>12, <2>1, RecoverEffect
<1>13. ASSUME NEW u \in Users, NEW d \in Devices, Register(u, d) PROVE Less /\ told' = told
  BY <1>13 DEF Register
<1> QED
  BY <1>1, <1>2, <1>3, <1>4, <1>5, <1>6, <1>7, <1>8, <1>9, <1>10, <1>11, <1>12, <1>13 DEF Next

(* A guild without members stays unheard of. *)
LEMMA QuietInvKept ==
  ASSUME TypeOK, StepInv, QuietInv, [Next]_vars
  PROVE  QuietInv'
<1>0. Tables /\ Reqs
  BY TypeParts
<1>1. \A g \in Guilds : Empty(g)' => Empty(g)
  BY MembersStay DEF Empty
<1>2. ASSUME NEW r \in Requests, Announce(r)
      PROVE  /\ req[r].guild \in Guilds /\ Pending(r, req[r].guild)
             /\ \A g \in Guilds : g # req[r].guild => told'[g] = told[g]
  BY <1>0, <1>2 DEF Announce, Pending, StepInv, Tables
<1>3. ASSUME NEW g \in Guilds, Empty(g)'
      PROVE  told'[g] = NoRole /\ \A s \in Requests : ~ Pending(s, g)'
  <2>1. Empty(g) /\ told[g] = NoRole /\ \A s \in Requests : ~ Pending(s, g)
    BY <1>1, <1>3 DEF QuietInv
  <2>2. told'[g] = told[g]
    BY <1>2, <2>1, PendingFrom
  <2>3. \A s \in Requests : ~ Pending(s, g)'
    BY <2>1, PendingFrom
  <2> QED
    BY <2>1, <2>2, <2>3
<1> QED
  BY <1>3 DEF QuietInv

(* No step gives a guild without owner a member, or a new one a second login. *)
LEMMA MakerInvKept ==
  ASSUME TypeOK, StepInv, MakerInv, [Next]_vars
  PROVE  MakerInv'
<1> USE DEF At
<1>0. Tables /\ Reqs
  BY TypeParts
<1>3. CASE LoginsStay /\ role' = role
  BY <1>0, <1>3 DEF MakerInv, LoginsStay, Empty, Member
<1>4. ASSUME LoginsStay, NEW r \in Requests, NEW u \in Users, NEW g \in Guilds, StartJoin(r, u, g) PROVE MakerInv'
  <2>1. role' = [role EXCEPT ![g][u] = "member"] /\ ~ Empty(g)
    BY <1>4 DEF StartJoin, AddMembership, Invited, Empty
  <2>2. \A h \in Guilds : Empty(h) => Empty(h)'
    BY <1>0, <2>1 DEF Empty, Member, Tables
  <2>3. \A s \in Requests : At(s, "login", "owner") \/ At(s, "login", "channel") => req[s].guild \in Guilds /\ req[s].user \in Users
    BY DEF StepInv
  <2> QED
    BY <1>0, <1>4, <2>2, <2>3, MembersStay DEF MakerInv, LoginsStay
<1>5. CASE LoginStep
  <2> USE DEF Begin, Move, Answer, Turn, Idle
  <2>1. ASSUME NEW r \in Requests, NEW u \in Users, StartLogin(r, u) PROVE MakerInv'
    BY <1>0, <2>1, NoRequestType DEF StartLogin, MakerInv, Empty, Member, Reqs, RequestSet
  <2>2. ASSUME NEW r \in Requests, ListOwn(r) PROVE MakerInv'
    <3>1. UNCHANGED <<owner, role>> /\ (\A s \in Requests : s # r => req'[s] = req[s]) /\ req'[r].step \in {"none", "guild"}
      BY <1>0, <2>2, NoRequestType DEF ListOwn, AnswerLogin, Reqs, RequestSet
    <3> QED
      BY <3>1 DEF MakerInv, Empty, Member
  <2>3. ASSUME NEW r \in Requests, NEW g \in Guilds, NewGuild(r, g) PROVE MakerInv'
    <3>1. req[r].user \in Users /\ owner[g] = Nothing /\ owner' = [owner EXCEPT ![g] = req[r].user] /\ role' = role
      BY <2>3 DEF NewGuild, StepInv
    <3>2. (\A s \in Requests : s # r => req'[s] = req[s]) /\ req'[r].step = "owner" /\ req'[r].guild = g /\ req'[r].user = req[r].user
      BY <1>0, <2>3 DEF NewGuild, Reqs, RequestSet
    <3>3. \A s \in Requests : At(s, "login", "owner") => req[s].guild # g /\ req[s].guild \in Guilds
      BY <1>0, <3>1, GuildServerAssumption DEF MakerInv, StepInv
    <3>4. \A h \in Guilds : owner'[h] = Nothing => Empty(h)'
      BY <1>0, <3>1, GuildServerAssumption DEF MakerInv, Empty, Member, Tables
    <3>5. Empty(g) /\ \A s \in Requests : At(s, "login", "owner") \/ At(s, "login", "channel") => req[s].guild \in Guilds
      BY <3>1 DEF MakerInv, StepInv
    <3>6. \A s \in Requests : At(s, "login", "owner")' =>
            owner'[req'[s].guild] = req'[s].user /\ \A u \in Users : ~ role'[req'[s].guild][u] # "none"
      BY <1>0, <3>1, <3>2, <3>3, <3>5 DEF MakerInv, Empty, Member, Tables
    <3>7. \A s \in Requests : At(s, "login", "channel")' => role'[req'[s].guild][req'[s].user] # "none"
      BY <3>1, <3>2 DEF MakerInv, Member
    <3> QED
      BY <3>2, <3>3, <3>4, <3>6, <3>7 DEF MakerInv, Empty, Member
  <2>4. ASSUME NEW r \in Requests, AddOwner(r) PROVE MakerInv'
    <3>0. PICK g \in Guilds, u \in Users : g = req[r].guild /\ u = req[r].user
      BY <2>4 DEF AddOwner, StepInv
    <3>1. role' = [role EXCEPT ![g][u] = "owner"] /\ owner' = owner /\ At(r, "login", "owner")
      BY <2>4, <3>0 DEF AddOwner, AddMembership
    <3>2. (\A s \in Requests : s # r => req'[s] = req[s]) /\ req'[r].step = "channel" /\ req'[r].guild = g /\ req'[r].user = u
      BY <1>0, <2>4, <3>0 DEF AddOwner, Reqs, RequestSet
    <3>3. owner[g] # Nothing /\ \A s \in Requests : s # r /\ At(s, "login", "owner") => req[s].guild # g
      BY <3>0, <3>1, GuildServerAssumption DEF MakerInv
    <3>4. \A h \in Guilds : h # g /\ Empty(h) => Empty(h)'
      BY <1>0, <3>1 DEF Empty, Member, Tables
    <3>5. Member(g, u)'
      BY <1>0, <3>1 DEF Member, Tables
    <3>6. \A s \in Requests : At(s, "login", "owner") \/ At(s, "login", "channel") => req[s].guild \in Guilds /\ req[s].user \in Users
      BY DEF StepInv
    <3>7. \A h \in Guilds : owner'[h] = Nothing => Empty(h)'
      BY <3>1, <3>3, <3>4 DEF MakerInv
    <3>8. \A s \in Requests : At(s, "login", "owner")' =>
            /\ s # r /\ At(s, "login", "owner") /\ req'[s] = req[s]
            /\ owner'[req[s].guild] = req[s].user /\ req[s].guild # g /\ Empty(req[s].guild)
      BY <3>1, <3>2, <3>3 DEF MakerInv
    <3>9. \A s \in Requests : At(s, "login", "owner")' => owner[req[s].guild]' = req'[s].user /\ Empty(req[s].guild)'
      <4> SUFFICES ASSUME NEW s \in Requests, At(s, "login", "owner")'
                   PROVE  owner[req[s].guild]' = req'[s].user /\ Empty(req[s].guild)'
        OBVIOUS
      <4>1. PICK h \in Guilds : h = req[s].guild /\ h # g /\ h = req'[s].guild
        BY <3>6, <3>8
      <4>2. Empty(h)'
        BY <3>4, <3>8, <4>1
      <4>3. \A v \in Users : role'[h][v] = "none"
        BY <4>2 DEF Empty, Member
      <4> QED
        BY <3>8, <4>1, <4>3 DEF Empty, Member
    <3>10. \A s \in Requests : At(s, "login", "channel")' => Member(req[s].guild, req[s].user)'
      <4> SUFFICES ASSUME NEW s \in Requests, At(s, "login", "channel")'
                   PROVE  Member(req[s].guild, req[s].user)'
        OBVIOUS
      <4>1. CASE s = r
        BY <3>2, <3>5, <4>1 DEF Member
      <4>2. CASE s # r
        <5>1. PICK h \in Guilds, v \in Users : h = req[s].guild /\ v = req[s].user /\ Member(h, v) /\ req'[s] = req[s]
          BY <3>2, <3>6, <4>2 DEF MakerInv
        <5>2. role'[h][v] # "none"
          BY <5>1, MembersStay DEF Member
        <5> QED
          BY <5>1, <5>2 DEF Member
      <4> QED
        BY <4>1, <4>2
    <3> QED
      BY <3>7, <3>8, <3>9, <3>10 DEF MakerInv
  <2>5. ASSUME NEW r \in Requests, NewChannel(r) \/ Fail(r) PROVE MakerInv'
    <3>1. UNCHANGED <<owner, role>> /\ (\A s \in Requests : s # r => req'[s] = req[s]) /\ req'[r].step = "none"
      BY <1>0, <2>5, NoRequestType DEF NewChannel, AnswerLogin, Fail, Reqs
    <3> QED
      BY <3>1 DEF MakerInv, Empty, Member
  <2> QED
    BY <1>5, <2>1, <2>2, <2>3, <2>4, <2>5 DEF LoginStep
<1> QED
  BY <1>3, <1>4, <1>5, KindsOfSteps

(* What the steps of a login, and its end, do to the logins. *)
LEMMA LoginEffect ==
  ASSUME TypeOK, StepInv, NEW r \in Requests,
         (\E v \in Users : StartLogin(r, v)) \/ ListOwn(r) \/ (\E g \in Guilds : NewGuild(r, g)) \/ AddOwner(r) \/ NewChannel(r) \/ Fail(r)
  PROVE  /\ \A s \in Requests : s # r => req'[s] = req[s]
         /\ past.twice \subseteq past'.twice /\ past.cut \subseteq past'.cut
         /\ req[r].kind = "login" => req'[r].kind = "none" \/ (req'[r].kind = "login" /\ req'[r].user = req[r].user)
<1> USE DEF Begin, Move, Answer, Turn, Idle, At
<1>0. Reqs /\ Hists
  BY TypeParts
<1>1. CASE \E v \in Users : StartLogin(r, v)
  <2>1. PICK v \in Users : StartLogin(r, v)
    BY <1>1
  <2> QED
    BY <1>0, <2>1, NoRequestType DEF StartLogin, Reqs, RequestSet, Hists
<1>2. CASE ListOwn(r)
  BY <1>0, <1>2, NoRequestType DEF ListOwn, AnswerLogin, Reqs, RequestSet
<1>3. CASE \E g \in Guilds : NewGuild(r, g)
  <2>1. PICK g \in Guilds : NewGuild(r, g)
    BY <1>3
  <2> QED
    BY <1>0, <2>1, NoRequestType DEF NewGuild, Reqs, RequestSet
<1>4. CASE AddOwner(r)
  BY <1>0, <1>4 DEF AddOwner, Reqs, RequestSet
<1>5. CASE NewChannel(r)
  BY <1>0, <1>5, NoRequestType DEF NewChannel, AnswerLogin, Reqs, RequestSet
<1>6. CASE Fail(r)
  BY <1>0, <1>6, NoRequestType DEF Fail, Reqs, RequestSet, Hists
<1> QED
  BY <1>1, <1>2, <1>3, <1>4, <1>5, <1>6

(* A user without a second login and without a cut one keeps its one guild. *)
LEMMA HomeInvKept ==
  ASSUME TypeOK, StepInv, HomeInv, [Next]_vars
  PROVE  HomeInv'
<1>0. Tables /\ Reqs /\ Hists
  BY TypeParts
<1> SUFFICES ASSUME NEW u \in Users, u \notin past'.twice, u \notin past'.cut
             PROVE  HomeOf(u)'
  BY DEF HomeInv
<1>1. CASE LoginsStay
  <2>1. HomeOf(u) /\ LoginsOf(u)' = LoginsOf(u)
    BY <1>1 DEF LoginsStay, HomeInv, LoginsOf
  <2>2. \A g \in Guilds : OnTheWay(g, u) => OnTheWay(g, u)'
    BY <1>1 DEF LoginsStay, OnTheWay, At
  <2> QED
    BY <1>1, <2>1, <2>2, MembersStay DEF HomeOf, LoginsStay, LoginsOf
<1>2. CASE LoginStep
  <2> USE DEF Begin, Move, Answer, Turn, Idle, At
  <2>1. ASSUME NEW r \in Requests, NEW v \in Users, StartLogin(r, v) PROVE HomeOf(u)'
    <3>1. UNCHANGED <<owner, role>> /\ req[r].kind = "none" /\ (\A s \in Requests : s # r => req'[s] = req[s])
          /\ req'[r].kind = "login" /\ req'[r].step = "list" /\ req'[r].user = v
      BY <1>0, <2>1 DEF StartLogin, Reqs, RequestSet, NoRequest
    <3>2. u \notin past.twice /\ u \notin past.cut /\ (v = u => LoginsOf(u) = {})
      BY <1>0, <2>1 DEF StartLogin, Hists
    <3>3. HomeOf(u)
      BY <3>2 DEF HomeInv
    <3>4. LoginsOf(u)' = IF v = u THEN {r} ELSE LoginsOf(u)
      BY <3>1, <3>2 DEF LoginsOf
    <3>5. \A g \in Guilds : OnTheWay(g, u) => OnTheWay(g, u)'
      BY <3>1 DEF OnTheWay
    <3>6. r \notin LoginsOf(u) /\ \A s \in LoginsOf(u) : s \in Requests
      BY <3>1 DEF LoginsOf
    <3> QED
      BY <3>1, <3>3, <3>4, <3>5, <3>6 DEF HomeOf, Member
  <2>2. ASSUME NEW r \in Requests, ListOwn(r) \/ (\E g \in Guilds : NewGuild(r, g)) \/ AddOwner(r) \/ NewChannel(r) \/ Fail(r)
        PROVE  HomeOf(u)'
    <3>1. /\ \A s \in Requests : s # r => req'[s] = req[s]
          /\ u \notin past.twice /\ u \notin past.cut
          /\ req[r].kind = "login" => req'[r].kind = "none" \/ (req'[r].kind = "login" /\ req'[r].user = req[r].user)
      BY <2>2, LoginEffect
    <3>2. HomeOf(u)
      BY <3>1 DEF HomeInv
    <3>3. LoginsOf(u)' \subseteq LoginsOf(u) /\ (r \notin LoginsOf(u) => LoginsOf(u)' = LoginsOf(u))
      <4>1. req[r].kind # "login" => req'[r].kind # "login"
        BY <1>0, <2>2, NoRequestType DEF Fail, ListOwn, NewGuild, AddOwner, NewChannel, Reqs
      <4> QED
        BY <3>1, <4>1 DEF LoginsOf
    <3>4. \A g \in Guilds : OnTheWay(g, u) /\ ~ (r \in LoginsOf(u) /\ req[r].step = "owner") => OnTheWay(g, u)'
      BY <3>1 DEF OnTheWay, LoginsOf
    <3>5. CASE r \notin LoginsOf(u)
      <4>1. \A g \in Guilds : owner'[g] = u => owner[g] = u
        BY <1>0, <2>2, <3>5 DEF ListOwn, NewGuild, AddOwner, NewChannel, Fail, LoginsOf, Tables
      <4>2. \A s \in LoginsOf(u) : s \in Requests /\ s # r
        BY <3>5 DEF LoginsOf
      <4> QED
        BY <3>1, <3>2, <3>3, <3>4, <3>5, <4>1, <4>2, MembersStay DEF HomeOf
    <3>6. CASE r \in LoginsOf(u)
      <4>1. \A s \in LoginsOf(u)' : s = r
        BY <3>2, <3>3, <3>6 DEF HomeOf
      <4>2. \A g \in Guilds : OnTheWay(g, u) => req[r].step = "owner" /\ req[r].guild = g
        BY <3>2, <3>6 DEF OnTheWay, HomeOf, LoginsOf
      <4>3. CASE ListOwn(r)
        <5>1. owner' = owner /\ \A g \in Guilds : ~ OnTheWay(g, u)
          BY <4>2, <4>3 DEF ListOwn
        <5>2. req'[r].step = "guild" => \A g \in Guilds : ~ Member(g, u)
          BY <1>0, <3>6, <4>3, NoRequestType DEF ListOwn, AnswerLogin, OwnGuilds, LoginsOf, Reqs, RequestSet
        <5> QED
          BY <3>2, <4>1, <5>1, <5>2, MembersStay DEF HomeOf
      <4>4. ASSUME NEW h \in Guilds, NewGuild(r, h) PROVE HomeOf(u)'
        <5>1. owner' = [owner EXCEPT ![h] = u] /\ \A g \in Guilds : owner[g] # u
          BY <3>2, <3>6, <4>4 DEF NewGuild, LoginsOf, HomeOf
        <5>2. req'[r].step = "owner" /\ OnTheWay(h, u)'
          BY <1>0, <3>6, <4>4 DEF NewGuild, OnTheWay, LoginsOf, Reqs, RequestSet
        <5> QED
          BY <1>0, <4>1, <5>1, <5>2 DEF HomeOf, Tables
      <4>5. CASE AddOwner(r)
        <5>1. owner' = owner /\ req'[r].step = "channel"
          BY <1>0, <4>5 DEF AddOwner, Reqs, RequestSet
        <5>2. \A g \in Guilds : OnTheWay(g, u) => Member(g, u)'
          BY <1>0, <3>6, <4>2, <4>5 DEF AddOwner, AddMembership, Member, LoginsOf, Tables
        <5> QED
          BY <3>2, <4>1, <5>1, <5>2, MembersStay DEF HomeOf
      <4>6. CASE NewChannel(r)
        <5>1. owner' = owner /\ req'[r].step = "none" /\ \A g \in Guilds : ~ OnTheWay(g, u)
          BY <1>0, <4>2, <4>6, NoRequestType DEF NewChannel, AnswerLogin, Reqs
        <5> QED
          BY <3>2, <4>1, <5>1, MembersStay DEF HomeOf
      <4>7. CASE Fail(r)
        BY <1>0, <3>6, <4>7 DEF Fail, LoginsOf, Hists
      <4> QED
        BY <2>2, <4>3, <4>4, <4>5, <4>6, <4>7
    <3> QED
      BY <3>5, <3>6
  <2> QED
    BY <1>2, <2>1, <2>2 DEF LoginStep
<1> QED
  BY <1>1, <1>2, KindsOfSteps


(* What ChannelInv says of a user with a guild. *)
Settles(u) == (\E g \in chans : Member(g, u)) \/ \E r \in LoginsOf(u) : req[r].step = "channel"

(* A member keeps what it has of a channel, unless its login is the one that *)
(* moves.                                                                    *)
LEMMA SettlesStays ==
  ASSUME TypeOK, StepInv, [Next]_vars, chans \subseteq chans', NEW u \in Users, Settles(u),
         \A r \in LoginsOf(u) : req[r].step = "channel" => req'[r] = req[r]
  PROVE  Settles(u)'
<1>1. chans \subseteq Guilds
  BY TypeParts DEF Tables
<1>2. CASE \E g \in chans : Member(g, u)
  BY <1>1, <1>2, MembersStay DEF Settles
<1>3. CASE \E r \in LoginsOf(u) : req[r].step = "channel"
  BY <1>3 DEF Settles, LoginsOf
<1> QED
  BY <1>2, <1>3 DEF Settles

(* Who was answered has a guild, and who has one a channel or a login that   *)
(* makes it, unless a login was cut.                                         *)
LEMMA ChannelInvKept ==
  ASSUME TypeOK, StepInv, MakerInv, ChannelInv, [Next]_vars
  PROVE  ChannelInv'
<1> USE DEF At
<1>0. Tables /\ Reqs /\ Hists
  BY TypeParts
<1> DEFINE Has(u) == \E g \in Guilds : Member(g, u)
<1>1. \A u \in Users : Has(u) => Has(u)'
  BY MembersStay
<1>2. \A u \in served : u \in Users /\ Has(u)
  BY <1>0 DEF ChannelInv, Tables
<1>3. \A u \in Users \ past.cut : Has(u) => Settles(u)
  BY DEF ChannelInv, Settles
<1>4. SUFFICES /\ \A u \in served' : Has(u)'
               /\ \A u \in Users \ past'.cut : Has(u)' => Settles(u)'
  BY <1>4 DEF ChannelInv, Settles
<1>5. CASE LoginsStay /\ role' = role
  <2>1. \A u \in Users : Has(u)' => Has(u)
    BY <1>5 DEF Member
  <2>2. chans \subseteq chans' /\ \A u \in Users : \A r \in LoginsOf(u) : req'[r] = req[r]
    BY <1>5 DEF LoginsStay, LoginsOf
  <2>3. \A u \in Users : Settles(u) => Settles(u)'
    BY <2>2, SettlesStays
  <2> QED
    BY <1>1, <1>2, <1>3, <1>5, <2>1, <2>3 DEF LoginsStay
<1>6. ASSUME LoginsStay, NEW r \in Requests, NEW v \in Users, NEW h \in Guilds, StartJoin(r, v, h)
      PROVE  /\ \A u \in served' : Has(u)'
             /\ \A u \in Users \ past'.cut : Has(u)' => Settles(u)'
  <2>1. \A u \in Users : Has(u)' => Has(u)
    BY <1>0, <1>2, <1>6 DEF StartJoin, AddMembership, Member, Tables
  <2>2. chans \subseteq chans' /\ \A u \in Users : \A s \in LoginsOf(u) : req'[s] = req[s]
    BY <1>6 DEF LoginsStay, LoginsOf
  <2>3. \A u \in Users : Settles(u) => Settles(u)'
    BY <2>2, SettlesStays
  <2> QED
    BY <1>1, <1>2, <1>3, <1>6, <2>1, <2>3 DEF LoginsStay
<1>7. ASSUME NEW r \in Requests,
             (\E v \in Users : StartLogin(r, v)) \/ ListOwn(r) \/ (\E g \in Guilds : NewGuild(r, g))
      PROVE  /\ \A u \in served' : Has(u)'
             /\ \A u \in Users \ past'.cut : Has(u)' => Settles(u)'
  <2>1. role' = role /\ chans' = chans
    BY <1>7 DEF StartLogin, ListOwn, NewGuild
  <2>2. \A u \in Users : Has(u)' => Has(u)
    BY <2>1 DEF Member
  <2>3. \A u \in Users : \A s \in LoginsOf(u) : req[s].step = "channel" => s # r
    BY <1>7 DEF StartLogin, ListOwn, NewGuild, Begin, Idle, LoginsOf
  <2>4. \A u \in Users : Settles(u) => Settles(u)'
    BY <1>7, <2>1, <2>3, LoginEffect, SettlesStays DEF LoginsOf
  <2>5. served' = served \/ (served' = served \union {req[r].user} /\ Has(req[r].user) /\ req[r].user \in Users)
    BY <1>7 DEF StartLogin, ListOwn, NewGuild, AnswerLogin, OwnGuilds, StepInv
  <2>6. past.cut \subseteq past'.cut
    BY <1>7, LoginEffect
  <2> QED
    BY <1>1, <1>2, <1>3, <2>2, <2>4, <2>5, <2>6
<1>8. ASSUME NEW r \in Requests, AddOwner(r)
      PROVE  /\ \A u \in served' : Has(u)'
             /\ \A u \in Users \ past'.cut : Has(u)' => Settles(u)'
  <2>0. PICK g \in Guilds, v \in Users : g = req[r].guild /\ v = req[r].user
    BY <1>8 DEF AddOwner, StepInv
  <2>1. role' = [role EXCEPT ![g][v] = "owner"] /\ chans' = chans /\ served' = served /\ past' = past
    BY <1>8, <2>0 DEF AddOwner, AddMembership
  <2>2. \A u \in Users : u # v => (Has(u)' => Has(u))
    BY <1>0, <2>1 DEF Member, Tables
  <2>3. \A u \in Users : \A s \in LoginsOf(u) : req[s].step = "channel" => s # r
    BY <1>8 DEF AddOwner
  <2>4. \A u \in Users : Settles(u) => Settles(u)'
    BY <1>8, <2>1, <2>3, LoginEffect, SettlesStays DEF LoginsOf
  <2>5. req'[r].kind = "login" /\ req'[r].user = v /\ req'[r].step = "channel"
    BY <1>0, <1>8, <2>0 DEF AddOwner, Move, Reqs, RequestSet
  <2>6. Settles(v)'
    BY <2>5 DEF Settles, LoginsOf
  <2> QED
    BY <1>1, <1>2, <1>3, <2>1, <2>2, <2>4, <2>6
<1>9. ASSUME NEW r \in Requests, NewChannel(r)
      PROVE  /\ \A u \in served' : Has(u)'
             /\ \A u \in Users \ past'.cut : Has(u)' => Settles(u)'
  <2>0. PICK g \in Guilds, v \in Users : g = req[r].guild /\ v = req[r].user
    BY <1>9 DEF NewChannel, StepInv
  <2>1. role' = role /\ chans' = chans \union {g} /\ served' = served \union {v} /\ past' = past
    BY <1>9, <2>0 DEF NewChannel, CreateChannel, AnswerLogin
  <2>2. \A u \in Users : Has(u)' => Has(u)
    BY <2>1 DEF Member
  <2>3. Member(g, v)
    BY <1>9, <2>0 DEF MakerInv, NewChannel
  <2>4. Settles(v)'
    BY <2>1, <2>3 DEF Settles, Member
  <2>5. \A u \in Users : u # v => \A s \in LoginsOf(u) : s # r
    BY <2>0 DEF LoginsOf
  <2>6. \A u \in Users : u # v => (Settles(u) => Settles(u)')
    BY <1>9, <2>1, <2>5, LoginEffect, SettlesStays DEF LoginsOf
  <2> QED
    BY <1>1, <1>2, <1>3, <2>1, <2>2, <2>3, <2>4, <2>6
<1>10. ASSUME NEW r \in Requests, Fail(r)
       PROVE  /\ \A u \in served' : Has(u)'
              /\ \A u \in Users \ past'.cut : Has(u)' => Settles(u)'
  <2>1. role' = role /\ chans' = chans /\ served' = served
    BY <1>10 DEF Fail
  <2>2. \A u \in Users : Has(u)' => Has(u)
    BY <2>1 DEF Member
  <2>3. past.cut \subseteq past'.cut /\ (req[r].kind = "login" => req[r].user \in past'.cut)
    BY <1>0, <1>10 DEF Fail, Hists
  <2>4. \A u \in Users \ past'.cut : \A s \in LoginsOf(u) : s # r
    BY <2>3 DEF LoginsOf
  <2>5. \A u \in Users \ past'.cut : Settles(u) => Settles(u)'
    BY <1>10, <2>1, <2>4, LoginEffect, SettlesStays DEF LoginsOf
  <2> QED
    BY <1>1, <1>2, <1>3, <2>1, <2>2, <2>3, <2>5
<1>11. CASE LoginStep
  BY <1>7, <1>8, <1>9, <1>10, <1>11 DEF LoginStep
<1> QED
  BY <1>5, <1>6, <1>11, KindsOfSteps

(* A step that neither lists members nor broadcasts a list. *)
Lists(q) == q.step \in {"read", "announce"}
ListsStay ==
  /\ \A s \in Requests : Lists(req[s]) \/ Lists(req'[s]) => req'[s] = req[s]
  /\ told' = told /\ past'.late = past.late

LEMMA KindsOfListSteps ==
  ASSUME TypeOK, StepInv, [Next]_vars
  PROVE  \/ ListsStay /\ role' = role
         \/ \E r \in Requests :
              \/ ListsStay /\ AddOwner(r)
              \/ \E u \in Users, g \in Guilds : StartJoin(r, u, g)
              \/ \E d \in Devices, g \in Guilds : StartUpload(r, d, g)
              \/ ReadMembers(r) \/ Announce(r) \/ Fail(r)
<1> USE DEF Begin, Move, Answer, Turn, Idle, At, Lists
<1>0. Tables /\ Rows /\ Reqs /\ Hists
  BY TypeParts
<1>1. CASE UNCHANGED vars
  BY <1>1 DEF vars, ListsStay
<1>2. ASSUME NEW r \in Requests, NEW u \in Users, StartLogin(r, u) PROVE ListsStay /\ role' = role
  BY <1>0, <1>2, NoRequestType DEF StartLogin, StepInv, ListsStay, Reqs, RequestSet, Hists
<1>3. ASSUME NEW r \in Requests, ListOwn(r) PROVE ListsStay /\ role' = role
  BY <1>0, <1>3, NoRequestType DEF ListOwn, AnswerLogin, ListsStay, Reqs, RequestSet
<1>4. ASSUME NEW r \in Requests, NEW g \in Guilds, NewGuild(r, g) PROVE ListsStay /\ role' = role
  BY <1>0, <1>4 DEF NewGuild, ListsStay, Reqs, RequestSet
<1>5. ASSUME NEW r \in Requests, AddOwner(r) PROVE ListsStay
  BY <1>0, <1>5 DEF AddOwner, ListsStay, Reqs, RequestSet
<1>6. ASSUME NEW r \in Requests, NewChannel(r) \/ CopyMail(r) PROVE ListsStay /\ role' = role
  BY <1>0, <1>6, NoRequestType DEF NewChannel, AnswerLogin, CopyMail, ListsStay, Reqs
<1>7. ASSUME NEW r \in Requests, StorePendingWelcome(r) PROVE ListsStay /\ role' = role
  <2>1. told' = told /\ role' = role /\ past'.late = past.late
    BY <1>0, <1>7 DEF StorePendingWelcome, Hists
  <2>2. req[r].step = "store" /\ req' = [req EXCEPT ![r] = NoRequest]
    BY <1>7 DEF StorePendingWelcome
  <2> QED
    BY <1>0, <2>1, <2>2, NoRequestType DEF ListsStay, Reqs
<1>8. ASSUME NEW r \in Requests, NEW u \in Users, NEW t \in Users, NEW g \in Guilds, NEW d \in Devices \union {Nothing},
             FetchKeyPackage(r, u, t, g, d)
      PROVE  ListsStay /\ role' = role
  <2>1. UNCHANGED <<told, role, past>>
    BY <1>8 DEF FetchKeyPackage
  <2> QED
    BY <1>0, <1>8, <2>1, FetchEffect DEF ListsStay, StepInv
<1>9. ASSUME NEW r \in Requests, NEW u \in Users, NEW t \in Users, NEW g \in Guilds, NEW d \in Devices, StartRecover(r, u, t, g, d)
      PROVE  ListsStay /\ role' = role
  <2>1. UNCHANGED <<told, role, past>>
    BY <1>9 DEF StartRecover
  <2> QED
    BY <1>0, <1>9, <2>1, RecoverEffect DEF ListsStay, StepInv
<1>10. ASSUME NEW u \in Users, NEW d \in Devices, Register(u, d) PROVE ListsStay /\ role' = role
  BY <1>10 DEF Register, ListsStay
<1> QED
  BY <1>1, <1>2, <1>3, <1>4, <1>5, <1>6, <1>7, <1>8, <1>9, <1>10 DEF Next

(* Roles only rise, and where no member is added nothing changes. *)
LEMMA RolesRise ==
  ASSUME TypeOK, StepInv, MakerInv, [Next]_vars
  PROVE  \A g \in Guilds, u \in Users : Rank(role[g][u]) <= Rank(role'[g][u])
<1>0. Tables
  BY TypeParts
<1>1. CASE role' = role
  BY <1>0, <1>1, RankFacts DEF Tables
<1>2. ASSUME NEW r \in Requests, NEW v \in Users, NEW h \in Guilds, StartJoin(r, v, h)
      PROVE  \A g \in Guilds, u \in Users : Rank(role[g][u]) <= Rank(role'[g][u])
  BY <1>0, <1>2, RankFacts DEF StartJoin, AddMembership, Tables
<1>3. ASSUME NEW r \in Requests, AddOwner(r)
      PROVE  \A g \in Guilds, u \in Users : Rank(role[g][u]) <= Rank(role'[g][u])
  <2>1. PICK h \in Guilds, v \in Users : h = req[r].guild /\ v = req[r].user
    BY <1>3 DEF AddOwner, StepInv, At
  <2>2. role' = [role EXCEPT ![h][v] = "owner"] /\ role[h][v] = "none"
    BY <1>3, <2>1 DEF AddOwner, AddMembership, MakerInv, Empty, Member
  <2> QED
    BY <1>0, <2>2, RankFacts DEF Tables, Roles
<1>4. ASSUME NEW r \in Requests, ReadMembers(r) \/ Announce(r) \/ Fail(r) \/ \E d \in Devices, g \in Guilds : StartUpload(r, d, g)
      PROVE  role' = role
  BY <1>4 DEF ReadMembers, Announce, Fail, StartUpload
<1> QED
  BY <1>1, <1>2, <1>3, <1>4, KindsOfListSteps

(* A member list that was read is never ahead of the table. *)
Behind == \A r \in Requests : req[r].step = "announce" =>
            \A u \in Users : Rank(req[r].list[u]) <= Rank(role[req[r].guild][u])
(* What is true of the last list of a guild. *)
ListOf(g) ==
  \/ g \in past.late \/ told[g] = role[g] \/ Fresh(g)
  \/ told[g] = NoRole /\ \A r \in Requests : ~ Pending(r, g)

LEMMA BehindKept ==
  ASSUME TypeOK, StepInv, MakerInv, Behind, [Next]_vars
  PROVE  Behind'
<1>0. Tables /\ Reqs /\ Tables'
  BY TypeParts, TablesKept
<1>1. ASSUME NEW s \in Requests, req[s].step = "announce", req'[s] = req[s]
      PROVE  \A u \in Users : Rank(req'[s].list[u]) <= Rank(role'[req'[s].guild][u])
  <2>1. PICK g \in Guilds : g = req[s].guild
    BY <1>1 DEF StepInv
  <2>2. \A u \in Users : req[s].list[u] \in Roles /\ role[g][u] \in Roles /\ role'[g][u] \in Roles
    BY <1>0 DEF Reqs, RequestSet, Tables
  <2>3. \A u \in Users : Rank(req[s].list[u]) <= Rank(role[g][u])
    BY <1>1, <2>1 DEF Behind
  <2>4. \A u \in Users : Rank(role[g][u]) <= Rank(role'[g][u])
    BY RolesRise
  <2>5. \A a, b, c \in Roles : Rank(a) <= Rank(b) /\ Rank(b) <= Rank(c) => Rank(a) <= Rank(c)
    BY RankFacts
  <2>6. \A u \in Users : Rank(req[s].list[u]) <= Rank(role'[g][u])
    BY <2>2, <2>3, <2>4, <2>5
  <2> QED
    BY <1>1, <2>1, <2>6
<1>2. SUFFICES \A s \in Requests : req'[s].step = "announce" =>
                 \/ req'[s] = req[s]
                 \/ \A u \in Users : Rank(req'[s].list[u]) <= Rank(role'[req'[s].guild][u])
  BY <1>1 DEF Behind
<1>3. CASE ListsStay
  BY <1>3 DEF ListsStay, Lists
<1> USE DEF Begin, Answer, Idle, Listing
<1>4. ASSUME NEW r \in Requests, \/ \E u \in Users, g \in Guilds : StartJoin(r, u, g)
                                \/ \E d \in Devices, g \in Guilds : StartUpload(r, d, g)
      PROVE  \A s \in Requests : req'[s].step = "announce" => req'[s] = req[s]
  <2>1. PICK u \in Users \union {Nothing}, g \in Guilds, k \in {"join", "upload"} :
          req' = [req EXCEPT ![r] = [NoRequest EXCEPT !.kind = k, !.step = "read", !.user = u, !.guild = g]]
    BY <1>0, <1>4 DEF StartJoin, StartUpload, Tables
  <2> QED
    BY <1>0, <2>1, NoRequestType DEF Reqs, RequestSet
<1>5. ASSUME NEW r \in Requests, ReadMembers(r)
      PROVE  \A s \in Requests : req'[s].step = "announce" =>
                 \/ req'[s] = req[s]
                 \/ \A u \in Users : Rank(req'[s].list[u]) <= Rank(role'[req'[s].guild][u])
  <2>1. PICK g \in Guilds : g = req[r].guild
    BY <1>5 DEF ReadMembers, StepInv
  <2>2. /\ role' = role /\ req'[r].guild = g /\ req'[r].list = role[g]
        /\ \A s \in Requests : s # r => req'[s] = req[s]
    BY <1>0, <1>5, <2>1 DEF ReadMembers, ListMembers, Reqs, RequestSet
  <2>3. \A u \in Users : Rank(role[g][u]) <= Rank(role[g][u])
    BY <1>0, RankFacts DEF Tables
  <2> QED
    BY <2>2, <2>3
<1>6. ASSUME NEW r \in Requests, Announce(r) \/ Fail(r)
      PROVE  \A s \in Requests : req'[s].step = "announce" => req'[s] = req[s]
  BY <1>0, <1>6, NoRequestType DEF Announce, Fail, Reqs
<1> QED
  BY <1>3, <1>4, <1>5, <1>6, KindsOfListSteps

(* A step that leaves the roles of a guild and its lists alone. *)
LEMMA ListOfStays ==
  ASSUME TypeOK, NEW g \in Guilds, ListOf(g), role'[g] = role[g], told'[g] = told[g],
         g \in past.late => g \in past'.late,
         \A s \in Requests : Pending(s, g) \/ Pending(s, g)' => req'[s] = req[s]
  PROVE  ListOf(g)'
<1>1. CASE g \in past.late \/ told[g] = role[g]
  BY <1>1 DEF ListOf
<1>2. CASE Fresh(g)
  BY <1>2 DEF ListOf, Fresh, Pending
<1>3. CASE told[g] = NoRole /\ \A r \in Requests : ~ Pending(r, g)
  <2>1. \A r \in Requests : ~ Pending(r, g)'
    BY <1>3 DEF Pending
  <2> QED
    BY <1>3, <2>1 DEF ListOf
<1> QED
  BY <1>1, <1>2, <1>3 DEF ListOf

(* As long as a list is stale a request has the current one or will read it. *)
LEMMA ListOfKept ==
  ASSUME TypeOK, StepInv, MakerInv, QuietInv, Behind, [Next]_vars, \A h \in Guilds : ListOf(h),
         NEW g \in Guilds
  PROVE  ListOf(g)'
<1> USE DEF Begin, Answer, Idle, At
<1>0. Tables /\ Reqs /\ Hists /\ Tables'
  BY TypeParts, TablesKept
<1>1. CASE ListsStay /\ role' = role
  BY <1>1, ListOfStays DEF ListsStay, Lists, Pending
<1>2. ASSUME ListsStay, NEW r \in Requests, AddOwner(r) PROVE ListOf(g)'
  <2>1. PICK h \in Guilds, v \in Users : h = req[r].guild /\ v = req[r].user
    BY <1>2 DEF AddOwner, StepInv
  <2>2. role' = [role EXCEPT ![h][v] = "owner"] /\ Empty(h)
    BY <1>2, <2>1 DEF AddOwner, AddMembership, MakerInv
  <2>3. CASE g # h
    BY <1>0, <1>2, <2>2, <2>3, ListOfStays DEF ListsStay, Lists, Pending, Tables
  <2>4. CASE g = h
    <3>1. told[h] = NoRole /\ \A s \in Requests : ~ Pending(s, h)
      BY <2>2 DEF QuietInv
    <3>2. \A s \in Requests : ~ Pending(s, h)'
      BY <1>2, <3>1 DEF ListsStay, Lists, Pending
    <3> QED
      BY <1>2, <2>4, <3>1, <3>2 DEF ListOf, ListsStay
  <2> QED
    BY <2>3, <2>4
<1>3. ASSUME NEW r \in Requests, NEW h \in Guilds,
             (\E u \in Users : StartJoin(r, u, h)) \/ \E d \in Devices : StartUpload(r, d, h)
      PROVE  ListOf(g)'
  <2>1. PICK u \in Users \union {Nothing}, k \in {"join", "upload"} :
          req' = [req EXCEPT ![r] = [NoRequest EXCEPT !.kind = k, !.step = "read", !.user = u, !.guild = h]]
    BY <1>0, <1>3 DEF StartJoin, StartUpload, Listing, Tables
  <2>2. /\ req'[r].step = "read" /\ req'[r].guild = h /\ \A s \in Requests : s # r => req'[s] = req[s]
        /\ req[r].step = "none"
    BY <1>0, <1>3, <2>1, NoRequestType DEF Reqs, RequestSet, StepInv, StartJoin, StartUpload
  <2>3. told' = told /\ past' = past /\ \A f \in Guilds : f # h => role'[f] = role[f]
    BY <1>0, <1>3 DEF StartJoin, StartUpload, AddMembership, Tables
  <2>4. CASE g = h
    BY <2>2, <2>4 DEF ListOf, Fresh, Pending
  <2>5. CASE g # h
    BY <2>2, <2>3, <2>5, ListOfStays DEF Pending
  <2> QED
    BY <2>4, <2>5
<1>4. ASSUME NEW r \in Requests, ReadMembers(r) PROVE ListOf(g)'
  <2>1. PICK h \in Guilds : h = req[r].guild
    BY <1>4 DEF ReadMembers, StepInv
  <2>2. /\ req'[r].step = "announce" /\ req'[r].guild = h /\ req'[r].list = role[h]
        /\ \A s \in Requests : s # r => req'[s] = req[s]
    BY <1>0, <1>4, <2>1 DEF ReadMembers, ListMembers, Reqs, RequestSet
  <2>3. told' = told /\ past' = past /\ role' = role
    BY <1>4 DEF ReadMembers
  <2>4. CASE g = h
    BY <2>2, <2>3, <2>4 DEF ListOf, Fresh, Pending
  <2>5. CASE g # h
    BY <2>1, <2>2, <2>3, <2>5, ListOfStays DEF Pending
  <2> QED
    BY <2>4, <2>5
<1>5. ASSUME NEW r \in Requests, Announce(r) PROVE ListOf(g)'
  <2>1. PICK h \in Guilds : h = req[r].guild
    BY <1>5 DEF Announce, StepInv
  <2>2. req[r].step = "announce" /\ req'[r].step = "none" /\ \A s \in Requests : s # r => req'[s] = req[s]
    BY <1>0, <1>5, NoRequestType DEF Announce, Reqs
  <2>3. /\ role' = role /\ told' = [told EXCEPT ![h] = req[r].list]
        /\ past'.late = IF req[r].list = role[h] THEN past.late \ {h}
                        ELSE IF Older(req[r].list, told[h]) THEN past.late \union {h} ELSE past.late
    BY <1>0, <1>5, <2>1 DEF Announce, ListMembers, Hists
  <2>4. CASE g # h
    BY <1>0, <2>1, <2>2, <2>3, <2>4, ListOfStays DEF Pending, Tables
  <2>5. CASE g = h /\ req[r].list = role[h]
    BY <1>0, <2>3, <2>5 DEF ListOf, Tables
  <2>6. CASE g = h /\ req[r].list # role[h] /\ (Older(req[r].list, told[h]) \/ h \in past.late)
    BY <2>3, <2>6 DEF ListOf
  <2>7. CASE g = h /\ req[r].list # role[h] /\ ~ Older(req[r].list, told[h]) /\ h \notin past.late
    <3>1. \A u \in Users : req[r].list[u] \in Roles /\ told[h][u] \in Roles /\ role[h][u] \in Roles
      BY <1>0 DEF Tables, Reqs, RequestSet
    <3>2. \A u \in Users : Rank(told[h][u]) <= Rank(req[r].list[u]) /\ Rank(req[r].list[u]) <= Rank(role[h][u])
      <4>1. \A u \in Users : Rank(req[r].list[u]) <= Rank(role[h][u])
        BY <2>1, <2>2 DEF Behind
      <4>2. \A u \in Users : ~ (Rank(req[r].list[u]) < Rank(told[h][u]))
        BY <2>7 DEF Older
      <4>3. \A a, b \in Roles : Rank(a) < Rank(b) \/ Rank(b) <= Rank(a)
        BY RankFacts
      <4> QED
        BY <3>1, <4>1, <4>2, <4>3
    <3>3. told[h] # role[h]
      <4>1. SUFFICES ASSUME told[h] = role[h] PROVE FALSE
        OBVIOUS
      <4>2. \A a, b \in Roles : Rank(a) <= Rank(b) /\ Rank(b) <= Rank(a) => a = b
        BY RankFacts
      <4>3. \A u \in Users : req[r].list[u] = role[h][u]
        BY <3>1, <3>2, <4>1, <4>2
      <4>4. req[r].list \in [Users -> Roles] /\ role[h] \in [Users -> Roles]
        BY <1>0 DEF Tables, Reqs, RequestSet
      <4>5. req[r].list = role[h]
        BY <4>3, <4>4
      <4> QED
        BY <2>7, <4>5
    <3>4. Pending(r, h)
      BY <2>1, <2>2 DEF Pending
    <3>5. PICK s \in Requests : Pending(s, h) /\ (req[s].step = "read" \/ req[s].list = role[h])
      BY <2>7, <3>3, <3>4 DEF ListOf, Fresh
    <3>6. s # r
      BY <2>2, <2>7, <3>5
    <3> QED
      BY <2>2, <2>3, <2>7, <3>5, <3>6 DEF ListOf, Fresh, Pending
  <2> QED
    BY <2>4, <2>5, <2>6, <2>7
<1>6. ASSUME NEW r \in Requests, Fail(r) PROVE ListOf(g)'
  <2>1. told' = told /\ role' = role /\ req'[r].step = "none" /\ \A s \in Requests : s # r => req'[s] = req[s]
    BY <1>0, <1>6, NoRequestType DEF Fail, Reqs
  <2>2. past'.late = IF req[r].step \in {"read", "announce"} THEN past.late \union {req[r].guild} ELSE past.late
    BY <1>0, <1>6 DEF Fail, Hists
  <2>3. CASE Pending(r, g)
    BY <2>2, <2>3 DEF ListOf, Pending
  <2>4. CASE ~ Pending(r, g)
    BY <2>1, <2>2, <2>4, ListOfStays DEF Pending
  <2> QED
    BY <2>3, <2>4
<1> QED
  BY <1>1, <1>2, <1>3, <1>4, <1>5, <1>6, KindsOfListSteps

LEMMA ListInvKept ==
  ASSUME TypeOK, StepInv, MakerInv, QuietInv, ListInv, [Next]_vars
  PROVE  ListInv'
<1>1. Behind /\ \A g \in Guilds : ListOf(g)
  BY DEF ListInv, Behind, ListOf
<1>2. Behind' /\ \A g \in Guilds : ListOf(g)'
  BY <1>1, BehindKept, ListOfKept
<1> QED
  BY <1>2 DEF ListInv, Behind, ListOf

(* A step that stores no welcome and starts no recovery. *)
MailStays ==
  /\ mail' = mail /\ made' = made /\ past'.buried = past.buried
  /\ \A s \in Requests : req'[s].kind = "recover" => req'[s] = req[s]

LEMMA KindsOfMailSteps ==
  ASSUME TypeOK, StepInv, [Next]_vars
  PROVE  \/ MailStays
         \/ \E r \in Requests :
              \/ StorePendingWelcome(r) \/ CopyMail(r)
              \/ \E u, t \in Users, g \in Guilds, d \in Devices : StartRecover(r, u, t, g, d)
<1> USE DEF Begin, Move, Answer, Turn, Idle, At
<1>0. Tables /\ Rows /\ Reqs /\ Hists
  BY TypeParts
<1>1. CASE UNCHANGED vars
  BY <1>1 DEF vars, MailStays
<1>2. ASSUME NEW r \in Requests, NEW u \in Users, StartLogin(r, u) PROVE MailStays
  BY <1>0, <1>2, NoRequestType DEF StartLogin, MailStays, Reqs, RequestSet, Hists
<1>3. ASSUME NEW r \in Requests, ListOwn(r) PROVE MailStays
  BY <1>0, <1>3, NoRequestType DEF ListOwn, AnswerLogin, MailStays, Reqs, RequestSet
<1>4. ASSUME NEW r \in Requests, NEW g \in Guilds, NewGuild(r, g) PROVE MailStays
  BY <1>0, <1>4 DEF NewGuild, MailStays, Reqs, RequestSet
<1>5. ASSUME NEW r \in Requests, AddOwner(r) \/ NewChannel(r) PROVE MailStays
  BY <1>0, <1>5, NoRequestType DEF AddOwner, NewChannel, AnswerLogin, MailStays, Reqs, RequestSet
<1>6. ASSUME NEW r \in Requests, NEW u \in Users, NEW h \in Guilds, StartJoin(r, u, h) PROVE MailStays
  BY <1>0, <1>6, NoRequestType DEF StartJoin, Listing, MailStays, Reqs, RequestSet
<1>7. ASSUME NEW r \in Requests, NEW d \in Devices, NEW h \in Guilds, StartUpload(r, d, h) PROVE MailStays
  BY <1>0, <1>7, NoRequestType DEF StartUpload, Listing, MailStays, Reqs, RequestSet
<1>8. ASSUME NEW r \in Requests, ReadMembers(r) PROVE MailStays
  BY <1>0, <1>8 DEF ReadMembers, StepInv, MailStays, Reqs, RequestSet
<1>9. ASSUME NEW r \in Requests, Announce(r) \/ Fail(r) PROVE MailStays
  BY <1>0, <1>9, NoRequestType DEF Announce, Fail, MailStays, Reqs, Hists
<1>10. ASSUME NEW r \in Requests, NEW u \in Users, NEW t \in Users, NEW g \in Guilds, NEW d \in Devices \union {Nothing},
              FetchKeyPackage(r, u, t, g, d)
       PROVE  MailStays
  <2>1. UNCHANGED <<mail, made, past>>
    BY <1>10 DEF FetchKeyPackage
  <2> QED
    BY <1>0, <1>10, <2>1, FetchEffect DEF MailStays
<1>11. ASSUME NEW u \in Users, NEW d \in Devices, Register(u, d) PROVE MailStays
  BY <1>11 DEF Register, MailStays
<1> QED
  BY <1>1, <1>2, <1>3, <1>4, <1>5, <1>6, <1>7, <1>8, <1>9, <1>10, <1>11 DEF Next

(* The rows of a device stay as they are. *)
LEMMA RowsStay ==
  ASSUME mail \in Seq(MailRows), NEW row \in MailRows, mail' = Append(mail, row),
         NEW g \in Guilds, NEW u \in Users, NEW d \in Devices, NEW i \in Mail(g, u, d)
  PROVE  mail'[i] = mail[i] /\ i \in Mail(g, u, d)'
<1>1. i \in 1..Len(mail) /\ DOMAIN mail' = 1..(Len(mail) + 1) /\ Len(mail) \in Nat
  BY DEF Mail
<1>2. mail'[i] = mail[i]
  BY <1>1
<1> QED
  BY <1>1, <1>2 DEF Mail

(* What a row more does to the rows of its device, and to those of another. *)
LEMMA RowHere ==
  ASSUME mail \in Seq(MailRows), NEW row \in MailRows, mail' = Append(mail, row),
         NEW g \in Guilds, NEW u \in Users, NEW d \in Devices,
         row.guild = g, row.user = u, row.device = d
  PROVE  /\ Mail(g, u, d)' = Mail(g, u, d) \union {Len(mail) + 1} /\ NewestMail(g, u, d)' = {Len(mail) + 1}
         /\ mail'[Len(mail) + 1] = row
<1>1. DOMAIN mail = 1..Len(mail) /\ DOMAIN mail' = 1..(Len(mail) + 1) /\ Len(mail) \in Nat
  OBVIOUS
<1>2. mail'[Len(mail) + 1] = row /\ \A i \in 1..Len(mail) : mail'[i] = mail[i]
  OBVIOUS
<1>3. Mail(g, u, d) \subseteq 1..Len(mail)
  BY <1>1 DEF Mail
<1>4. Mail(g, u, d)' = Mail(g, u, d) \union {Len(mail) + 1}
  BY <1>1, <1>2 DEF Mail
<1>5. NewestMail(g, u, d)' = {Len(mail) + 1}
  BY <1>1, <1>3, <1>4 DEF NewestMail
<1> QED
  BY <1>2, <1>3, <1>4, <1>5

LEMMA RowElsewhere ==
  ASSUME mail \in Seq(MailRows), NEW row \in MailRows, mail' = Append(mail, row),
         NEW g \in Guilds, NEW u \in Users, NEW d \in Devices,
         ~ (row.guild = g /\ row.user = u /\ row.device = d)
  PROVE  Mail(g, u, d)' = Mail(g, u, d) /\ NewestMail(g, u, d)' = NewestMail(g, u, d)
<1>1. DOMAIN mail = 1..Len(mail) /\ DOMAIN mail' = 1..(Len(mail) + 1) /\ Len(mail) \in Nat
  OBVIOUS
<1>2. mail'[Len(mail) + 1] = row /\ \A i \in 1..Len(mail) : mail'[i] = mail[i]
  OBVIOUS
<1>3. Mail(g, u, d) \subseteq 1..Len(mail)
  BY <1>1 DEF Mail
<1>4. Mail(g, u, d)' = Mail(g, u, d)
  BY <1>1, <1>2 DEF Mail
<1> QED
  BY <1>2, <1>3, <1>4 DEF NewestMail

(* Who has a welcome is in the channel. *)
LEMMA MailInvKept ==
  ASSUME TypeOK, StepInv, MailInv, RowInv, [Next]_vars
  PROVE  MailInv'
<1>0. Tables /\ Rows /\ Reqs
  BY TypeParts
<1>1. chans \subseteq chans'
  <2>1. CASE LoginStep
    BY <2>1 DEF LoginStep, StartLogin, ListOwn, NewGuild, AddOwner, NewChannel, CreateChannel, Fail
  <2> QED
    BY <2>1, KindsOfSteps DEF LoginsStay
<1>2. \A g \in Guilds, u \in Users : InChannel(g, u) => InChannel(g, u)'
  BY <1>1, MembersStay DEF InChannel
<1>3. \A i \in DOMAIN mail : mail[i].guild \in Guilds /\ mail[i].user \in Users
  <2>1. \A i \in DOMAIN mail : mail[i] \in MailRows
    BY <1>0 DEF Rows
  <2> QED
    BY <2>1 DEF MailRows
<1>4. CASE mail' = mail
  BY <1>2, <1>3, <1>4 DEF MailInv
<1>5. ASSUME NEW row \in MailRows, mail' = Append(mail, row), InChannel(row.guild, row.user) PROVE MailInv'
  <2>1. DOMAIN mail' = DOMAIN mail \union {Len(mail) + 1} /\ mail'[Len(mail) + 1] = row
        /\ \A i \in DOMAIN mail : mail'[i] = mail[i]
    BY <1>0, <1>5 DEF Rows
  <2>2. row.guild \in Guilds /\ row.user \in Users
    BY DEF MailRows
  <2>3. InChannel(row.guild, row.user)'
    BY <1>2, <1>5, <2>2
  <2> QED
    BY <1>2, <1>3, <2>1, <2>3 DEF MailInv
<1>6. ASSUME NEW r \in Requests, StorePendingWelcome(r) PROVE MailInv'
  <2>1. PICK g \in Guilds, u \in Users, d \in Devices : g = req[r].guild /\ u = req[r].target /\ d = req[r].device
    BY <1>6 DEF StorePendingWelcome, StepInv, At
  <2>2. InChannel(g, u) /\ mail' = Append(mail, [guild |-> g, user |-> u, device |-> d, welcome |-> made + 1])
    BY <1>6, <2>1 DEF StorePendingWelcome, InsertPendingWelcome
  <2>3. [guild |-> g, user |-> u, device |-> d, welcome |-> made + 1] \in MailRows
    BY <1>0 DEF Rows, MailRows
  <2> QED
    BY <1>5, <2>2, <2>3
<1>7. ASSUME NEW r \in Requests, CopyMail(r) PROVE MailInv'
  <2>1. PICK g \in Guilds, u \in Users, d \in Devices : g = req[r].guild /\ u = req[r].target /\ d = req[r].device
    BY <1>7 DEF CopyMail, StepInv, At
  <2>2. mail' = Append(mail, [guild |-> g, user |-> u, device |-> d, welcome |-> req[r].welcome])
    BY <1>7, <2>1 DEF CopyMail, InsertPendingWelcome
  <2>3. [guild |-> g, user |-> u, device |-> d, welcome |-> req[r].welcome] \in MailRows
    BY <1>0 DEF Reqs, RequestSet, MailRows
  <2>4. InChannel(g, u)
    <3>1. PICK j \in DOMAIN mail : mail[j].guild = g /\ mail[j].user = u
      BY <1>7, <2>1 DEF CopyMail, RowInv, Mail, At
    <3> QED
      BY <3>1 DEF MailInv
  <2> QED
    BY <1>5, <2>2, <2>3, <2>4
<1>8. ASSUME NEW r \in Requests, NEW u \in Users, NEW t \in Users, NEW g \in Guilds, NEW d \in Devices, StartRecover(r, u, t, g, d)
      PROVE  mail' = mail
  BY <1>8 DEF StartRecover
<1> QED
  BY <1>4, <1>6, <1>7, <1>8, KindsOfMailSteps DEF MailStays

(* The parts of RowInv: of the rows of a device and of a recovery. *)
RowsOf(g, u, d) ==
  /\ Mail(g, u, d) # {} => NewestMail(g, u, d) # {}
  /\ \A i \in NewestMail(g, u, d) : Covers(mail[i].welcome, g, u, d)
RecoveryOf(r) ==
  req[r].kind = "recover" =>
    /\ \E j \in Mail(req[r].guild, req[r].target, req[r].device) : mail[j].welcome = req[r].welcome
    /\ Covers(req[r].welcome, req[r].guild, req[r].target, req[r].device)

(* A row more keeps a device covered when the last row covers the others, and *)
(* a recovery when the row is one it had seen or is buried.                   *)
LEMMA CoversAfter ==
  ASSUME mail \in Seq(MailRows), NEW row \in MailRows, mail' = Append(mail, row),
         past.buried \subseteq past'.buried,
         NEW g \in Guilds, NEW u \in Users, NEW d \in Devices, NEW w \in Nat, Covers(w, g, u, d),
         row.guild = g /\ row.user = u /\ row.device = d => row.welcome <= w \/ row.welcome \in past'.buried
  PROVE  \A j \in Mail(g, u, d)' : mail'[j].welcome <= w \/ mail'[j].welcome \in past'.buried
<1>0. \A j \in Mail(g, u, d) : mail'[j].welcome <= w \/ mail'[j].welcome \in past'.buried
  BY RowsStay DEF Covers
<1>1. CASE row.guild = g /\ row.user = u /\ row.device = d
  <2>1. Mail(g, u, d)' = Mail(g, u, d) \union {Len(mail) + 1} /\ mail'[Len(mail) + 1] = row
    BY <1>1, RowHere
  <2> QED
    BY <1>0, <1>1, <2>1
<1>2. CASE ~ (row.guild = g /\ row.user = u /\ row.device = d)
  <2>1. Mail(g, u, d)' = Mail(g, u, d)
    BY <1>2, RowElsewhere
  <2> QED
    BY <1>0, <2>1
<1> QED
  BY <1>1, <1>2

LEMMA RowsOfAfter ==
  ASSUME mail \in Seq(MailRows), NEW row \in MailRows, mail' = Append(mail, row),
         past.buried \subseteq past'.buried,
         NEW g \in Guilds, NEW u \in Users, NEW d \in Devices, RowsOf(g, u, d),
         row.guild = g /\ row.user = u /\ row.device = d => Covers(row.welcome, g, u, d)
  PROVE  RowsOf(g, u, d)'
<1>0. row.welcome \in Nat /\ row.welcome <= row.welcome
  BY DEF MailRows
<1>1. CASE row.guild = g /\ row.user = u /\ row.device = d
  <2>1. \A j \in Mail(g, u, d)' : mail'[j].welcome <= row.welcome \/ mail'[j].welcome \in past'.buried
    BY <1>0, <1>1, CoversAfter
  <2>2. NewestMail(g, u, d)' = {Len(mail) + 1} /\ mail'[Len(mail) + 1] = row
    BY <1>1, RowHere
  <2> QED
    BY <2>1, <2>2 DEF RowsOf, Covers
<1>2. CASE ~ (row.guild = g /\ row.user = u /\ row.device = d)
  <2>0. \A i \in Mail(g, u, d) : mail'[i] = mail[i]
    BY RowsStay
  <2>1. /\ Mail(g, u, d)' = Mail(g, u, d) /\ NewestMail(g, u, d)' = NewestMail(g, u, d)
    BY <1>2, RowElsewhere
  <2>2. NewestMail(g, u, d) \subseteq Mail(g, u, d)
    BY DEF NewestMail
  <2> QED
    BY <2>0, <2>1, <2>2 DEF RowsOf, Covers
<1> QED
  BY <1>1, <1>2

LEMMA RecoveryOfAfter ==
  ASSUME mail \in Seq(MailRows), NEW row \in MailRows, mail' = Append(mail, row),
         past.buried \subseteq past'.buried, Reqs, StepInv,
         NEW s \in Requests, RecoveryOf(s), req'[s].kind = "recover" => req'[s] = req[s],
         req[s].kind = "recover" /\ req'[s] = req[s] /\ row.guild = req[s].guild /\ row.user = req[s].target /\ row.device = req[s].device =>
           row.welcome <= req[s].welcome \/ row.welcome \in past'.buried
  PROVE  RecoveryOf(s)'
<1> SUFFICES ASSUME req'[s].kind = "recover"
             PROVE  RecoveryOf(s)'
  BY DEF RecoveryOf
<1>0. req'[s] = req[s] /\ req[s].kind = "recover"
  OBVIOUS
<1>1. PICK g \in Guilds, u \in Users, d \in Devices, w \in Nat :
        g = req[s].guild /\ u = req[s].target /\ d = req[s].device /\ w = req[s].welcome
  BY DEF StepInv, Reqs, RequestSet
<1>2. Covers(w, g, u, d) /\ \E j \in Mail(g, u, d) : mail[j].welcome = w
  BY <1>1 DEF RecoveryOf
<1>3. \A j \in Mail(g, u, d)' : mail'[j].welcome <= w \/ mail'[j].welcome \in past'.buried
  <2>1. row.guild = g /\ row.user = u /\ row.device = d => row.welcome <= w \/ row.welcome \in past'.buried
    BY <1>0, <1>1
  <2> QED
    BY <1>2, <2>1, CoversAfter
<1>4. \E j \in Mail(g, u, d)' : mail'[j].welcome = w
  <2>1. PICK j \in Mail(g, u, d) : mail[j].welcome = w
    BY <1>2
  <2>2. mail'[j] = mail[j] /\ j \in Mail(g, u, d)'
    BY RowsStay
  <2> QED
    BY <2>1, <2>2
<1>5. req'[s].guild = g /\ req'[s].target = u /\ req'[s].device = d /\ req'[s].welcome = w
  BY <1>1
<1> QED
  BY <1>3, <1>4, <1>5 DEF RecoveryOf, Covers

LEMMA RowInvKept ==
  ASSUME TypeOK, StepInv, RowInv, [Next]_vars
  PROVE  RowInv'
<1>0. Tables /\ Rows /\ Reqs /\ Hists
  BY TypeParts
<1>1. /\ \A i \in DOMAIN mail : mail[i] \in MailRows /\ mail[i].welcome \in Nat /\ mail[i].welcome <= made
      /\ \A g \in Guilds, u \in Users, d \in Devices : RowsOf(g, u, d)
      /\ \A s \in Requests : RecoveryOf(s)
  <2>1. \A i \in DOMAIN mail : mail[i] \in MailRows
    BY <1>0 DEF Rows
  <2> QED
    BY <2>1 DEF RowInv, RowsOf, RecoveryOf, MailRows
<1>2. SUFFICES /\ \A i \in DOMAIN mail' : mail'[i].welcome <= made'
               /\ \A g \in Guilds, u \in Users, d \in Devices : RowsOf(g, u, d)'
               /\ \A s \in Requests : RecoveryOf(s)'
  BY <1>2 DEF RowInv, RowsOf, RecoveryOf
<1>3. ASSUME mail' = mail, made' = made, past'.buried = past.buried
      PROVE  /\ \A i \in DOMAIN mail' : mail'[i].welcome <= made'
             /\ \A g \in Guilds, u \in Users, d \in Devices : RowsOf(g, u, d)'
             /\ \A s \in Requests : req'[s] = req[s] => RecoveryOf(s)'
  BY <1>1, <1>3 DEF RowsOf, RecoveryOf, Covers, Mail, NewestMail
<1>4. CASE MailStays
  BY <1>3, <1>4 DEF MailStays, RecoveryOf
<1>5. ASSUME NEW r \in Requests, NEW u \in Users, NEW t \in Users, NEW g \in Guilds, NEW d \in Devices, StartRecover(r, u, t, g, d)
      PROVE  RowInv'
  <2>1. mail' = mail /\ made' = made /\ past' = past
    BY <1>5 DEF StartRecover
  <2>2. PICK i \in NewestMail(g, t, d) :
           /\ i \in Mail(g, t, d)
           /\ \A s \in Requests : s # r => req'[s] = req[s]
           /\ req'[r].guild = g /\ req'[r].target = t /\ req'[r].device = d /\ req'[r].welcome = mail[i].welcome
    BY <1>0, <1>5, RecoverEffect
  <2>3. Covers(mail[i].welcome, g, t, d)
    BY <1>1 DEF RowsOf
  <2>4. RecoveryOf(r)'
    BY <2>1, <2>2, <2>3 DEF RecoveryOf, Covers, Mail
  <2> QED
    BY <1>3, <2>1, <2>2, <2>4 DEF RowInv, RowsOf, RecoveryOf
<1>6. ASSUME NEW r \in Requests, StorePendingWelcome(r) PROVE RowInv'
  <2>1. PICK g \in Guilds, u \in Users, d \in Devices : g = req[r].guild /\ u = req[r].target /\ d = req[r].device
    BY <1>6 DEF StorePendingWelcome, StepInv, At
  <2>2. PICK w \in Nat, row \in MailRows :
          w = made + 1 /\ row = [guild |-> g, user |-> u, device |-> d, welcome |-> w] /\ mail' = Append(mail, row) /\ made' = w
    <3>1. made + 1 \in Nat /\ [guild |-> g, user |-> u, device |-> d, welcome |-> made + 1] \in MailRows
      BY <1>0 DEF Rows, MailRows
    <3>2. mail' = Append(mail, [guild |-> g, user |-> u, device |-> d, welcome |-> made + 1]) /\ made' = made + 1
      BY <1>6, <2>1 DEF StorePendingWelcome, InsertPendingWelcome
    <3> QED
      BY <3>1, <3>2
  <2>3. past'.buried = IF Recovering(g, u, d) THEN past.buried \union {w} ELSE past.buried
    BY <1>0, <1>6, <2>1, <2>2 DEF StorePendingWelcome, Hists
  <2>4. req'[r].kind = "none" /\ \A s \in Requests : s # r => req'[s] = req[s]
    BY <1>0, <1>6, NoRequestType DEF StorePendingWelcome, Answer, Reqs
  <2>5. \A i \in DOMAIN mail' : mail'[i].welcome <= made'
    <3>1. DOMAIN mail' = DOMAIN mail \union {Len(mail) + 1} /\ mail'[Len(mail) + 1] = row
          /\ \A i \in DOMAIN mail : mail'[i] = mail[i]
      BY <1>0, <2>2 DEF Rows
    <3> QED
      BY <1>0, <1>1, <2>2, <3>1 DEF Rows
  <2>6. Covers(w, g, u, d)
    <3>1. \A i \in DOMAIN mail : mail[i].welcome <= w
      BY <1>0, <1>1, <2>2 DEF Rows
    <3> QED
      BY <3>1 DEF Covers, Mail
  <2>7. \A f \in Guilds, v \in Users, e \in Devices : RowsOf(f, v, e)'
    BY <1>0, <1>1, <2>2, <2>3, <2>6, RowsOfAfter DEF Rows
  <2>8. \A s \in Requests : RecoveryOf(s)'
    <3>1. \A s \in Requests : req[s].kind = "recover" /\ req[s].guild = g /\ req[s].target = u /\ req[s].device = d => w \in past'.buried
      BY <2>3 DEF Recovering, At, StepInv
    <3> QED
      BY <1>0, <1>1, <2>2, <2>3, <2>4, <3>1, RecoveryOfAfter DEF Rows
  <2> QED
    BY <2>5, <2>7, <2>8 DEF RowInv, RowsOf, RecoveryOf
<1>7. ASSUME NEW r \in Requests, CopyMail(r) PROVE RowInv'
  <2>1. PICK g \in Guilds, u \in Users, d \in Devices, w \in Nat :
          g = req[r].guild /\ u = req[r].target /\ d = req[r].device /\ w = req[r].welcome /\ req[r].kind = "recover"
    BY <1>0, <1>7 DEF CopyMail, StepInv, At, Reqs, RequestSet
  <2>2. PICK row \in MailRows :
          row = [guild |-> g, user |-> u, device |-> d, welcome |-> w] /\ mail' = Append(mail, row)
    BY <1>7, <2>1 DEF CopyMail, InsertPendingWelcome, MailRows
  <2>3. past' = past /\ made' = made
    BY <1>7 DEF CopyMail
  <2>4. req'[r].kind = "none" /\ \A s \in Requests : s # r => req'[s] = req[s]
    BY <1>0, <1>7, NoRequestType DEF CopyMail, Answer, Reqs
  <2>5. Covers(w, g, u, d) /\ \E j \in Mail(g, u, d) : mail[j].welcome = w
    BY <1>1, <2>1 DEF RecoveryOf
  <2>6. \A i \in DOMAIN mail' : mail'[i].welcome <= made'
    <3>1. DOMAIN mail' = DOMAIN mail \union {Len(mail) + 1} /\ mail'[Len(mail) + 1] = row
          /\ \A i \in DOMAIN mail : mail'[i] = mail[i]
      BY <1>0, <2>2 DEF Rows
    <3>2. w <= made
      BY <1>1, <2>5 DEF Mail
    <3> QED
      BY <1>1, <2>2, <2>3, <3>1, <3>2
  <2>7. \A f \in Guilds, v \in Users, e \in Devices : RowsOf(f, v, e)'
    BY <1>0, <1>1, <2>2, <2>3, <2>5, RowsOfAfter DEF Rows
  <2>8. \A s \in Requests : RecoveryOf(s)'
    <3>1. \A s \in Requests : req[s].kind = "recover" /\ req[s].guild = g /\ req[s].target = u /\ req[s].device = d =>
            w <= req[s].welcome \/ w \in past'.buried
      BY <1>1, <2>3, <2>5 DEF RecoveryOf, Covers
    <3> QED
      BY <1>0, <1>1, <2>2, <2>3, <2>4, <3>1, RecoveryOfAfter DEF Rows
  <2> QED
    BY <2>6, <2>7, <2>8 DEF RowInv, RowsOf, RecoveryOf
<1> QED
  BY <1>4, <1>5, <1>6, <1>7, KindsOfMailSteps DEF RowInv, RowsOf, RecoveryOf

-----------------------------------------------------------------------------
(* The inductive invariant and the theorems. *)

IInv ==
  /\ TypeOK /\ StepInv /\ MakerInv /\ QuietInv
  /\ HomeInv /\ ChannelInv /\ ListInv /\ MailInv /\ RowInv

LEMMA IInvInit == Init => IInv
<1> SUFFICES ASSUME Init PROVE IInv
  OBVIOUS
<1>1. \A r \in Requests : req[r].kind = "none" /\ req[r].step = "none"
  BY NoRequestType DEF Init
<1>2. mail = <<>> /\ packs = <<>> /\ made = 0 /\ turns = 0 /\ past = [twice |-> {}, cut |-> {}, late |-> {}, buried |-> {}]
  BY DEF Init
<1>3. \A g \in Guilds, u \in Users : Member(g, u) <=> u \in Settled(g)
  BY DEF Init, Member
<1>4. \A g \in Guilds : told[g] = NoRole /\ owner[g] = IF Settled(g) = {} THEN Nothing ELSE CHOOSE u \in Settled(g) : TRUE
  BY DEF Init
<1>5. \A g \in Guilds, u \in Users : u \in Settled(g) <=> Home[u] = g
  BY DEF Settled
<1>6. \A g \in Guilds, u \in Users : owner[g] = u => u \in Settled(g)
  BY <1>4, <1>5, GuildServerAssumption DEF Settled
<1>7. Tables
  <2>1. owner \in [Guilds -> Users \union {Nothing}]
    <3>1. \A g \in Guilds : Settled(g) # {} => (CHOOSE u \in Settled(g) : TRUE) \in Users
      BY DEF Settled
    <3> QED
      BY <3>1 DEF Init
  <2>2. chans \subseteq Guilds /\ served \subseteq Users
    BY DEF Init
  <2>3. role \in [Guilds -> [Users -> Roles]]
    BY DEF Init, Roles
  <2>4. told \in [Guilds -> [Users -> Roles]]
    BY NoRequestType DEF Init
  <2>5. device \in [Devices -> Users \union {Nothing}]
    BY DEF Init
  <2> QED
    BY <2>1, <2>2, <2>3, <2>4, <2>5 DEF Tables
<1>8. Rows /\ Reqs /\ Hists
  BY <1>2, NoRequestType DEF Init, Rows, Reqs, Hists
<1>9. StepInv
  BY <1>1 DEF StepInv
<1>10. MakerInv
  <2>1. \A g \in Guilds : owner[g] = Nothing => Settled(g) = {}
    <3>1. \A g \in Guilds : Settled(g) # {} => (CHOOSE u \in Settled(g) : TRUE) \in Users
      BY DEF Settled
    <3> QED
      BY <1>4, <3>1, GuildServerAssumption
  <2> QED
    BY <1>1, <1>3, <2>1 DEF MakerInv, Empty, At
<1>11. QuietInv
  BY <1>1, <1>4 DEF QuietInv, Pending
<1>12. HomeInv
  BY <1>1, <1>3, <1>5, <1>6 DEF HomeInv, HomeOf, LoginsOf
<1>13. ChannelInv
  <2>1. \A g \in Guilds, u \in Users : Member(g, u) => g \in chans
    BY <1>3, <1>5 DEF Init
  <2>2. \A u \in served : u \in Users /\ Home[u] \in Guilds /\ Member(Home[u], u)
    BY <1>3, <1>5, GuildServerAssumption DEF Init
  <2> QED
    BY <2>1, <2>2 DEF ChannelInv
<1>14. ListInv
  BY <1>1, <1>4 DEF ListInv, Pending
<1>15. MailInv
  BY <1>2 DEF MailInv
<1>16. RowInv
  BY <1>1, <1>2 DEF RowInv, Mail, NewestMail
<1> QED
  BY <1>7, <1>8, <1>9, <1>10, <1>11, <1>12, <1>13, <1>14, <1>15, <1>16, TypeFromParts DEF IInv

LEMMA IInvStep ==
  ASSUME IInv, [Next]_vars
  PROVE  IInv'
<1>1. TypeOK /\ StepInv /\ MakerInv /\ QuietInv /\ HomeInv /\ ChannelInv /\ ListInv /\ MailInv /\ RowInv
  BY DEF IInv
<1>2. TypeOK'
  <2>1. Tables' /\ Rows' /\ Reqs' /\ Hists' /\ StepInv'
    BY <1>1, TablesKept, RowsKept, ReqsKept, HistsKept, StepInvKept
  <2> QED
    BY <2>1, TypeFromParts, PTL
<1>3. StepInv' /\ MakerInv' /\ QuietInv' /\ HomeInv' /\ ChannelInv'
  BY <1>1, StepInvKept, MakerInvKept, QuietInvKept, HomeInvKept, ChannelInvKept
<1>4. ListInv' /\ MailInv' /\ RowInv'
  BY <1>1, ListInvKept, MailInvKept, RowInvKept
<1> QED
  BY <1>2, <1>3, <1>4 DEF IInv

LEMMA IInvAlways == Spec => []IInv
<1>1. Init => IInv
  BY IInvInit
<1>2. IInv /\ [Next]_vars => IInv'
  BY IInvStep
<1> QED
  BY <1>1, <1>2, PTL DEF Spec

\* Every row and request names what it may name: a welcome goes from and to a
\* device (fetch_key_package, store_pending_welcome).
THEOREM TypeCorrect == Spec => []TypeOK
<1>1. IInv => TypeOK
  BY DEF IInv
<1> QED
  BY <1>1, IInvAlways, PTL

\* Who got an answer to its login, has none under way and none cut, is a member
\* of a guild with a channel (login, list_guilds_for_user).
THEOREM TheAnsweredHaveChannels == Spec => []AnsweredHasChannel
<1>1. IInv => AnsweredHasChannel
  <2>1. ASSUME IInv, NEW u \in served, u \notin past.cut, LoginsOf(u) = {}
        PROVE  \E g \in chans : Member(g, u)
    <3>1. u \in Users /\ \E g \in Guilds : Member(g, u)
      BY <2>1, TypeParts DEF IInv, ChannelInv, Tables
    <3> QED
      BY <2>1, <3>1 DEF IInv, ChannelInv
  <2> QED
    BY <2>1 DEF AnsweredHasChannel
<1> QED
  BY <1>1, IInvAlways, PTL

\* A user whose logins never overlap and are never cut owns one guild at most,
\* however often it logs in (login, create_guild).
THEOREM OneHomeEach == Spec => []OneHome
<1>1. IInv => OneHome
  <2>1. ASSUME IInv, NEW u \in Users \ (past.twice \union past.cut)
        PROVE  Cardinality({g \in Guilds : owner[g] = u}) <= 1
    <3> DEFINE G == {g \in Guilds : owner[g] = u}
    <3>1. \A g, h \in G : g = h
      BY <2>1 DEF IInv, HomeInv, HomeOf
    <3>2. CASE G = {}
      BY <3>2, FS_EmptySet
    <3>3. CASE G # {}
      <4>1. PICK g : G = {g}
        BY <3>1, <3>3
      <4>2. Cardinality({g}) = 1
        BY FS_Singleton
      <4>3. Cardinality(G) = 1
        BY <4>1, <4>2
      <4> QED
        BY <4>3
    <3> HIDE DEF G
    <3> QED
      BY <3>2, <3>3
  <2> QED
    BY <2>1 DEF OneHome
<1> QED
  BY <1>1, IInvAlways, PTL

\* Without a join or an upload under way the last member list that was broadcast
\* is the member list, unless one was overtaken or its request failed
\* (http_join_guild, upload_key_package).
THEOREM LastListIsCurrent == Spec => []ListsAreCurrent
<1>1. IInv => ListsAreCurrent
  <2>1. ASSUME IInv, NEW g \in Guilds, g \notin past.late, told[g] # NoRole,
               \A r \in Requests : ~ (req[r].step \in {"read", "announce"} /\ req[r].guild = g)
        PROVE  told[g] = role[g]
    BY <2>1 DEF IInv, ListInv, Fresh, Pending
  <2> QED
    BY <2>1 DEF ListsAreCurrent
<1> QED
  BY <1>1, IInvAlways, PTL

\* A member gets the newest welcome stored for its device, but for one that a
\* recovery has put an older one behind (fetch_pending_welcome, issue_recovery_welcome).
THEOREM NewestWelcomeCounts == Spec => []NewestCounts
<1>1. IInv => NewestCounts
  <2>1. ASSUME IInv, NEW g \in Guilds, NEW u \in Users, NEW d \in Devices,
               NEW w \in {mail[i].welcome : i \in Mail(g, u, d)},
               \A v \in {mail[i].welcome : i \in Mail(g, u, d)} : v <= w
        PROVE  w \in past.buried \/ FetchPendingWelcome(g, u, d) = {w}
    <3>1. PICK i \in Mail(g, u, d) : mail[i].welcome = w
      BY <2>1
    <3>2. PICK n \in NewestMail(g, u, d) : Covers(mail[n].welcome, g, u, d)
      BY <2>1, <3>1 DEF IInv, RowInv
    <3>3. \A m \in NewestMail(g, u, d) : m = n
      <4>1. \A m \in Mail(g, u, d) : m \in Nat
        <5>1. mail \in Seq(MailRows)
          BY <2>1, TypeParts DEF IInv, Rows
        <5> QED
          BY <5>1 DEF Mail
      <4> QED
        BY <3>2, <4>1 DEF NewestMail
    <3>4. n \in Mail(g, u, d) /\ mail[n].welcome <= w
      BY <2>1, <3>2 DEF NewestMail
    <3>5. w <= mail[n].welcome \/ w \in past.buried
      BY <3>1, <3>2 DEF Covers
    <3>6. w \in Nat /\ mail[n].welcome \in Nat
      <4>1. mail[i] \in MailRows /\ mail[n] \in MailRows
        BY <2>1, <3>1, <3>4, TypeParts DEF IInv, Rows, Mail
      <4> QED
        BY <3>1, <4>1 DEF MailRows
    <3>7. InChannel(g, u)
      BY <2>1, <3>4 DEF IInv, MailInv, Mail
    <3>8. w \in past.buried \/ mail[n].welcome = w
      BY <3>4, <3>5, <3>6
    <3>9. {j \in NewestMail(g, u, d) : InChannel(g, u)} = {n}
      BY <3>2, <3>3, <3>7
    <3>10. FetchPendingWelcome(g, u, d) = {mail[n].welcome}
      BY <3>9 DEF FetchPendingWelcome
    <3> QED
      BY <3>8, <3>10
  <2> QED
    BY <2>1 DEF NewestCounts
<1> QED
  BY <1>1, IInvAlways, PTL
=============================================================================
