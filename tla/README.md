# proto_RTC: formal models, checks and proofs

proto_RTC is a small Discord-like system: a desktop client with end-to-end
encrypted text channels (OpenMLS groups, one per channel), a relay server over
SQLite, and LiveKit for voice. The cryptography is the library's; what can go
wrong in *this* code is the bookkeeping around it: which task may decrypt which
message, when a group, a welcome or a key package is current, what the server
hands out twice, and what a crash or an overlapping login leaves behind. The
modules here model that bookkeeping.

Paths below: `CC` = `src/crates/client_core/src/lib.rs`, `SM` =
`src/crates/client_core/src/mls_session_manager.rs`, `MLS` =
`src/crates/mls/src/lib.rs`, `SRV` = `src/crates/server/src/main.rs`, `API` =
`src/crates/server/src/api/mod.rs`, `ST` = `src/crates/storage/src/lib.rs`.

## 1. Inventory

| Component | State it keeps | Operations | Interacts with | What makes it correct |
|---|---|---|---|---|
| Inbound pipeline (CC 2332-2575, 2881) | processed ids and eviction queue, inflight ids, cached own plaintexts, channel map | `emit_decrypted_message`, `mark_message_processed`, `login` | websocket reader, history fetches, send path, session manager | no text shown twice, none lost after decryption, no id stuck inflight |
| MLS group handle (MLS) | live group (epoch, ratchets), provider keys, persisted snapshot | create, join, add member, encrypt, decrypt, persist, restore | storage, session manager | what peers have seen of us is persisted; a restored group can still talk |
| MLS session manager (SM) | `sessions`, `channel_index`, one store | open, join, key package, reset, import | handles, client | the live group is the stored one; a published key package stays usable |
| Welcome sync (CC 1395-1894) | inflight syncs, retry-after, bootstrap rate limit, initialised channels | join with retry, bootstrap request, leader fast path | server, session manager, pipeline | one sync per channel, requests bounded, a stored welcome is found |
| Leader bootstrap and onboarding (CC 1962-2330, 3098-3246) | attempted additions, inflight bootstraps | add members, recovery welcome, self-heal, reconcile | every client of a guild through the server | every member ends up in the leader's group |
| Server messages and events (SRV 1251-1337, API) | messages, memberships, broadcast ring (256) | send, list, websocket fan-out | clients | only members see messages; a member that keeps up sees each one |
| Login, guilds and invites (SRV 333-450, 1389-1480) | users, guilds, channels, memberships | login, create, join, invite, member list | storage, event ring | one guild with a channel per new user; the list last announced is the list |
| Server welcomes and key packages (SRV 879-1242, ST 692-892) | devices, key packages, pending welcomes | upload, fetch, store, recover | clients | the newest welcome of a device is the one it gets |
| Device link (SRV 452-694, ST 559-690, CC 2940-3038) | link tokens, bundles; on the new device the imported groups | start, upload, fetch, complete, export, import | two devices of one user | one bundle hand-over per token, none after expiry; an import takes effect |
| Voice session (CC 792-1046) | active session, participants, E2EE key cache | connect, disconnect, events | LiveKit, session manager | one room at a time, keys no older than promised, the right people shown |
| Desktop GUI backend (apps/desktop_gui) | command queue, event queue, current client, view state | commands, events, sign in/out | client core | what is sent goes where the user saw it go; every event reaches the view or is a known drop |
| Files (SRV 724-877) | files | upload, download | clients | members only |

Hard behaviours: every client operation runs on a multi-threaded tokio runtime
and yields at each await, with the state mutex released in between; the
websocket reader, fetches, prewarms and bootstraps overlap; the server fans
events out through a lossy ring; requests fail with or without effect; the
process can stop between two writes to SQLite; a login can begin while tasks of
the previous one still run.

## 2. Plan

Order: what every message depends on first, then what decides who can read it,
then how it travels, then the parts around it.

| Step | Module | Composes | State |
|---|---|---|---|
| 1 | `InboundPipeline`, abstract `MessageFeed` | the feed by refinement | done, proved |
| 2 | `MlsGroup` | - | done, proved |
| 3 | `Onboarding` | clients' bootstrap, welcome sync and restore with the server's mailbox | done, safety proved |
| 4 | `MessageRelay` | handlers, ring, websocket tasks, client's pages | done, safety proved |
| 5 | `DeviceLink`, abstract `HandOver` | server tables with the import on the new device; the hand-over by refinement | done, proved |
| 6 | `Voice` | commands, participant tasks, rooms, key cache | done, proved |
| 7 | `Desktop` | window, backend loop, forwarder, client, server | done, proved |
| 8 | `GuildServer` | logins, joins, uploads, welcomes by device | done, proved |

Every safety property of the runs is a theorem. Liveness stays with TLC.

## 3. Modules and the code

An action is the code between two awaits of one task, handler or client call;
the mutex around the client's state is held within one action and never across
two, as in the code. Each action's lines are named in the `map` of
`PROJECT.json`. Definitions called "Mutant of ..." are plausible mistakes in the
definition after them; they are no part of a specification and only show that a
property would notice.

**MessageFeed** is what a user is promised: a text is shown after the server has
the message, and once.

**InboundPipeline** is `emit_decrypted_message` (CC 2381-2575) with all its
callers, as a set of interchangeable tasks. `Deliver` is the first lock
section (gate, own plaintext), `CheckReady`, `JoinForMessage`, `RecheckReady` the
readiness phase, `DecryptPlaintext`, `DecryptNothing`, `DecryptDrift`, `Resync`,
`DecryptFailed` the outcomes, `Show` the event with the processed mark. `Login`
is three actions because other tasks run between its lock sections. OpenMLS is
reduced to what it may answer for a message: `secret[m]` is held, used or pruned.
`processed` and `order` are the bounded cache (4096 in the code, `CacheMax`
here) with its eviction queue.

**MlsGroup** is one group of fixed members, one of which commits: the live
group (epoch, next generation, spent secrets), its snapshot, and `saving`, the
gap between a merge and its `persist_group`. `PersistFails` is the error of that call
(MLS 359, 439): an own commit is not handed out, and the handle goes on with the
merged group, ahead of its snapshot until the next persist. `failed` and `base` are
bookkeeping: who missed a snapshot, and from which epoch each commit leads, since a
commit that was lost that way leaves its author in an epoch nobody else can enter.
A message's loss and redelivery are `Lose` and `Decrypt` in any order. That a receiver may decrypt
generations in any order is wider than OpenMLS's window of out-of-order
messages; what holds with it holds without it.

**Onboarding** is a guild of users with their clients, databases and devices,
and the server's tables. Every client runs up to one bootstrap, one welcome sync
and one restore per channel (`at[t]` is where a task stands). The pass over the
members (CC 1962-2275) is `List`, then per member `Pass` or `PickMember`,
`InspectAndAdd`, `StoreWelcome` or the failures, `Recover` and the self-heal in
three steps (`DropSession`, `DropSnapshot`, `Unmark`). Bootstrap requests are
fire-and-forget events, so `StartBoot` may take place at any time for any target.
`Login` is a new process on the same database: a device stands for the key
package published for it. Each place where the code handles an error has its action
beside the step that succeeds (`FailStep`): `SaveFails` is `add_member` that has
merged and cannot write the snapshot, which leaves the member on the open group's
roster, off the snapshot and without a welcome (CC 2206-2215); `MemberFails` and
`FetchFails` pass the member by; `WipeFails` is a self-heal that cannot delete the
snapshot and goes on; `CallFails` ends the task; `PostFails` is a commit or a welcome
that does not arrive, or whose answer does not. `lost` records the members whose
welcome a failure or a stop took. A stop between `add_member`'s merge and its snapshot
is `MlsGroup`'s subject: nobody outside the process can see it. An open session refuses
a welcome (SM 335-352: `CanJoin`). A leader that fails to read the member list or to
open its group asks for a welcome like anybody else (CC 1730-1735), so `StartSync` has
both ways for it.

**MessageRelay** is the way of an event from a row in the database to a
client. `Insert` and `Join` write the row, `Broadcast` puts the event on the ring
and answers, `Die` is a handler that fails or is dropped in between; `Subscribe`,
`Receive`, `Lag`, `Forward`, `Filter`, `CheckFails` are the loop of a websocket's
task; `Ask`, `Answer`, `Absorb` are a page of history from the button to the
pipeline. `got` is what was handed to the inbound pipeline. Message ids are
ranked within the channel. Memberships only grow: no handler removes, bans or
mutes anybody. `from`, `owed` and `prior` are history variables that say what a
client may expect; no guard reads them.

**HandOver** is what a link between two devices promises: it takes bundles in
while it is open, is never reopened, and each waiting bundle goes to one fetch,
which closes the link.

**DeviceLink** is both ends of it. On the server, `CheckUpload` and `StoreBundle`
are one handler (SRV 526-591), `CheckFetch`, `SelectBundle` and `ConsumeBundle`
another (SRV 593-665, ST 641-690): the select and the updates are separate steps of
one deferred SQLite transaction, and `clean` says that nobody has written since its
read, without which the write fails. On the new device `SaveState`, `DropSession`,
then the shared steps of `open_or_create_group` and `MarkChannel` are one record of
an import (SM 425-455, CC 3022-3048), beside `Opener`, a background task that opens
the same channel, and `PersistSession`, a commit that is persisted meanwhile. Under
the refinement `link` is the token's row, `waiting` the unconsumed bundle.

**Voice** is one client's `connect_voice_session` and `disconnect_voice_session`,
from await to await, beside the participant task of each room. The GUI's backend
runs one command at a time, so two calls never overlap; what overlaps is a call
with the tasks, the rooms and the groups. A key stands for the epoch it was exported
from. `missed`, `mixed`, `floor` and `leaked` are history: whom a task could not hear
of, whether two rooms' tasks wrote the one participant map, the epoch in which a room
was left, and the rooms the client lost hold of. The shipped GUI builds its client
without a voice provider (CC 721-760), so there a connect always fails; the module is
the client as the tests build it, with one.

**Desktop** is the program around the client: the window's event loop (`Handle...`),
its clicks, the backend's commands (`Take(kind)` starts one, `FetchMessages`, `Send`,
... are its later steps), the forwarder and what the socket brings. A selection has
three steps: `StartSelect` moves the client's selection, `FetchSelected` is the start
of `fetch_messages` once the group has been opened, `FetchMessages` its answer.
`Dismiss` is the button of the failure banner (GUI `main.rs` 1120-1122), which takes the
banner off either page and does nothing else; `waved` records that the user has done
so. Queues are
bounded and drop what does not fit, as `try_send` does. `lost` records what was
dropped or wiped and why a message need not be on the screen. `sure` and `fit` travel
with a message as history: whether the channel's selection was put into the queue,
and whether the window has asked for another guild's list since. `strays` is history
too: the channels that `fetch_messages` (CC 2888-2895) puts down as the selected
guild's, counted from the selection on, because the client had not listed them yet. That needs a channel on screen
from an earlier client, two sign-ins of which the window hears late and a click in
between, a behaviour of some sixty steps, beyond the bounds of the run; the proof
attempt asked for it, and `SendsFitGuild` excepts the channel selected then.

**GuildServer** is the server's other tables. A login is `ListOwn`, `NewGuild`,
`AddOwner`, `NewChannel` (SRV 333-390), a join or an upload the row, then
`ReadMembers`, then `Announce`; a welcome is made with `FetchKeyPackage` and stored by
`StorePendingWelcome`, or stored again by `StartRecover` and `CopyMail`. `Fail` ends
any of them between two statements. `past` is history: what overlapped or was cut, the
exceptions the properties name. Joining one's own guild by invite makes the owner a
member, since the membership is an upsert; nothing in the server reads that role.

## 4. Runs

| Run | Shows |
|---|---|
| `inbound_safety` | Two tasks, an own message and somebody's attachment, a cache of one id, an import, logins at any moment: `GateExclusive`, `TextShownOnce`, `DecryptedIsShown`, `OwnEchoShown`, `NoReplayWhileRemembered` (a step property). |
| `inbound_feed` | With an own message and a commit the pipeline implements `MessageFeed`, and every in-flight mark is cleared in the end (`InflightReleased`). |
| `mls_group` | Restarts between merge and snapshot, snapshots that fail, losses, replays: `SentIsDurable`, `NoRivalCommits`, `LeaderCanRestore`, `DropsOnlyReplays`. |
| `onboarding` | Two members, three tasks at once, one failure anywhere: `RosterHasWelcome`, `HolderIsOnRoster`, `CalmMeansSameGroup`, `ReadyMeansOpen`. |
| `onboarding_logins` | Three members, one task at a time, one more login with a new device at any moment, one failure: `AttemptedHasWelcome`, `FounderKnowsAll`. |
| `onboarding_liveness` | A pass ends, and whoever it had to look at and has a key package then has a welcome (`PassServes`). |
| `message_relay` | Reading a page while listening leaves no hole (`NoHoles`), joins are heard (`JoinIsHeard`), nothing comes ahead of what was answered before it was sent (`InOrder`), and what is due arrives (`AllArrive`). |
| `device_link` | The handlers implement `HandOver` (`LinkSpec`) while uploads, fetches, expiry and failures interleave; a marked channel is open (`MarkedIsOpen`); an import nothing disturbed is what runs and what is stored (`ImportTakesEffect`). |
| `device_link_late` (violated) | A token can be completed after its expiry: `CompletedInTime` fails because ST 682 compares `...T...` with `... ...` as text. |
| `voice` | Whatever fails or overlaps: `OneSession`, `FreshAfterLeaving`, `PeopleAreHere`, `KeyAge` (a step property). |
| `desktop` | Full queues, failing requests, sign-ins one over another, dismissed banners: `SendsWhereShown`, `SendsFitGuild`, `ShownOrLost`, `MainIsLoggedIn`. |
| `guild_server` | Two requests taking turns at every statement: `AnsweredHasChannel`, `OneHome`, `ListsAreCurrent`, `NewestCounts`. |

The type invariant of each module is a theorem (`TypeCorrect`); the runs `voice`,
`desktop` and `guild_server` check it too.

The violated run is a disagreement between the code and what it says of itself;
`PROJECT.json` quotes both sides.

### Disagreements without a run

Each of these formulas is in its module, says what a doc, a comment or a test says,
and is false of the code. To see it, check it alone as the INVARIANT, with the
constants of the named run's cfg but for those given.

| Formula | Constants | Counterexample |
|---|---|---|
| `EmptyTextOnlyIfSentEmpty` (`InboundPipeline`) | `inbound_safety`, `Msgs = {file, text}`, `AttachmentOnly = {}`, `MaxImports = 0` | A message with text and attachment whose secret is used or pruned decrypts to zero bytes and is displayed with an empty text (CC 2551-2559, MLS 427). |
| `RestoredSenderIsHeard` (`MlsGroup`) | `mls_group` | `encrypt_application` does not persist the ratchet: a sender that restarts and has had no commit since reuses a generation, and its next message is dropped as a replay (MLS 387-397). |
| `OneFounder` (`Onboarding`) | `onboarding`, `Creator = 2` | A member with a lower id than the creator's takes itself for the leader and founds a second group (CC 1862-1874). |
| `WelcomeUsable` (`Onboarding`) | `onboarding`, `Channels = {general, random}` | Joining the first channel deletes the private key that the second's welcome was made for (MLS 326-328). |
| `NoResetWithoutLoss` (`Onboarding`) | `onboarding`, `MaxLogins = 1`, `MaxFailures = 0` | A member signs in again and has a new device without a welcome; the leader takes the 409 for a server that lost its data and gives its healthy group up (CC 2131-2160, ST 476-489). With `MaxFailures = 1` a snapshot that was not written leads there too: the member is on the open roster and its welcome was never sent. |

Also seen and not stated as a formula: `docs/PROTOCOL.md:61-62` says that a welcome
is returned while it is unconsumed and that its retrieval marks it as consumed, while
the fetch only reads (SRV 975-1045); `NewestCounts` is what holds instead.

What `NoHoles` leaves to the code's own excuses: an event counts as excused when
its handler died before the broadcast, when the task lagged behind the ring, or
when the membership check failed; and nothing is promised about a page that was
read before the task subscribed (the client has its 101 answer earlier). In each
of these the user must load the history again, and no code asks for it.

### Bounds and why they are enough

- `InboundPipeline`: two tasks are what a race needs; the gate, the cache and the
  text are per message, and two messages are what one eviction needs
  (`CacheMax = 1`). One import puts a used secret back, which a second would
  only repeat. Logins, deliveries and evictions are unbounded.
- `MlsGroup`: three ciphertexts are a commit with a message before and after
  it, or a generation that is used, lost and used again; two epochs are one step
  of the group and one more on top of it; three commits (`MaxCommits`) are two and
  one that was merged and never handed out. Restarts, failing snapshots, replays and
  deliveries are unbounded.
- `Onboarding`: two users are a leader and a member. The third user of
  `onboarding_logins` is the member a pass reaches after a self-heal has taken the
  group from it (`AddFails`). Two groups are one that is lost and its successor, in
  `onboarding_logins` there is one, since both its properties are about members of a
  group there is. Concurrency is bounded by `MaxTasks`: three in `onboarding`, so
  bootstrap, sync and restore of either client overlap; one with three users and a
  second login, two in `onboarding_liveness`. One failure is one at any of the calls.
  Three users with overlapping tasks, and more failures, are in the theorems, which
  hold for every value of the bounds.
- `MessageRelay`: a ring of one event makes every second unread event a lag, a
  page of one message makes every page end inside the history, two failures let a
  handler die and a socket break in one behaviour. Logins and requests are
  unbounded. The safety properties were also run with three messages and with
  rings and pages of two, without a different answer.

- `DeviceLink`: two uploads and two fetches are what a race for one token needs;
  nothing of one token touches another. The clock passes the expiry and then the end
  of a day (`Lifetime`, `DayLength`), two device rows are a device that registers
  twice. Restarts, openings and commits are unbounded.
- `Voice`: two rooms are one joined over the other or left and joined again, one
  other person enters and leaves without bound, a ring of one event makes the second
  unread event a lag. One commit and one tick are a key that is old and a key that
  has expired; commands, failures and the emptying of the cache are unbounded.
- `Desktop`: two guilds of one channel each are what a selection can mix; a queue of
  two, an inbox and a ring of one make each of them full in a few steps; of the two
  messages one is old. `MaxTurns` bounds clicks, sign-ins and faults together: three
  are a sign-in, one more step and a fault, or a sign-in over another.
- `GuildServer`: two requests are a race at every statement. One user starts with a
  guild, the other makes or joins one; three rows of welcomes are two and a
  recovered one; `MaxTurns` lets eight requests and failures happen.

The theorems remove these bounds for the properties they name.

`CHECK_DEADLOCK FALSE` is set where the bounds on groups, failures or sends let a
finished system stop, and for rooms, requests or clicks likewise; `message_relay`
always has a step and checks deadlock.

### Fairness

- A task that can move is polled by tokio: weak fairness of a task's steps
  (`InboundPipeline`, `Onboarding`), of `Broadcast` (the handler's last step) and of
  the loop of a websocket's task and the reading of an open socket (`MessageRelay`).
  That a call to the server or the database returns, with an answer or an error, is
  part of it.
- `Onboarding` assumes nothing else. No task is assumed to start: a bootstrap is
  skipped while one runs, requests for one are rate-limited, and no timer repeats
  them (CC 2285, 1477-1487). So that every member gets in is not claimed, only that a
  pass that did start ends and serves.
- Nothing is assumed of logins, failures, restarts or of users who send, and
  `DeviceLink`, `Voice`, `Desktop` and `GuildServer` state no fairness: their
  properties are about every state that is reached.

## 5. Proofs

`...Proofs` modules hold them. Each rests on one inductive invariant `IInv` of
named parts, the same three facts (it holds at the start, every action keeps it,
it implies the property), and lemmas with one step per action.

- **InboundPipelineProofs**: types, the cache with its queue
  (`CacheMatchesQueue`), the owners of in-flight marks (`InflightHasOwner`), the safety
  properties of the run, and
  that it implements `MessageFeed`. `TextShownOnce` is not inductive because a
  text may be on its way in three places: the cached own plaintext (`PendingInv`,
  `EchoInv`), a task's hand (`TextInv`) or the ratchet; `TextInv` says that at
  most one of them has it. `GateInv` ties the in-flight set to the tasks until a
  login overtakes one.
- **MlsGroupProofs**: types and all four properties. `EpochInv` says that the snapshot is
  in the live group's epoch unless a merge is unsaved, in which time the handle emits
  nothing, or a snapshot has failed; `SentInv` that a sender that has never restarted is
  in no epoch before one it has sent in, which a failed snapshot does not change.
  `RatchetInv` and `SeenInv` tie spent secrets to displayed messages.
- **OnboardingProofs**: `TypeOK`, `HolderIsOnRoster`, `AttemptedHasWelcome`,
  `RosterHasWelcome`, `CalmMeansSameGroup`, `ReadyMeansOpen`, `FounderKnowsAll`.
  For `CalmMeansSameGroup`, a self-heal is the only
  way for the creator to give its group up, and it needs a welcome that is
  missing; in a calm guild the member it asks for is on the creator's roster, and
  whoever is on it has a welcome (`ServedInv`). So the creator's group stays, and
  everything that leaves it, in a welcome, a snapshot or a task's hand, is a copy
  of it (`GroupInv`). `OpenInv` carries `ReadyMeansOpen` from the insert over the
  mark to the ready channel, past the other tasks that run in between. For
  `FounderKnowsAll`, logins and lost welcomes included, every copy of a group there
  is after a step was one before or has just been founded or grown (`CopiesStep`);
  only the creator does either (`FollowInv`). The group the creator has open may be
  ahead of its snapshot, since that may fail; so `KnowInv` is about the copies without
  that one (`AwayStep`), and says that the creator's snapshot, its open group and what
  it is about to open list whomever one of these lists.
- **MessageRelayProofs**: `TypeOK`, `NoHoles`, `JoinIsHeard`, `InOrder`. The key
  lemma, `CoveredStays`: what a member has, will get, or is excused from stays so
  in every step its socket survives. `PageInv` carries it over to a page in
  flight. `InOrder` follows from where an answered event may be (`BusKnown`,
  `LineKnown`) and from the order between the parts of a line (`LineInv`).

- **DeviceLinkProofs**: `TypeOK`, the refinement of `HandOver` (`ImplementsLink`),
  `MarkedIsOpen`, `ImportTakesEffect`. For the refinement, a request that goes on has
  passed its check (`RequestInv`), and a fetch that may still commit has read what
  the row holds (`CleanInv`), since any write in between has overtaken it.
  `ImportTakesEffect` needs who may be at a channel together (`AloneInv`) and what an
  import that is alone holds at each of its steps (`StepInv`, `EffectInv`).
- **VoiceProofs**: types, `OneSession`, `FreshAfterLeaving`, `PeopleAreHere` and the
  step property `KeyAge`. `SessionInv` says at each step of a command which rooms the
  client is in and whose tasks run. `KeyInv` keeps each cached key at least as young as
  the last leave, and its expiry within a lifetime of its epoch's end. For
  `PeopleAreHere` the last event of a person that a task has still to work in says
  where the person is (`LastInv`, of every room, since the map is handed from task to
  task); of whom nothing is to come the map is right (`PeopleInv`), and the screen shows
  the map, or the list in the task's hand is it (`ScreenInv`).
- **GuildServerProofs**: types, `AnsweredHasChannel`, `OneHome`, `ListsAreCurrent`,
  `NewestCounts`. `HomeInv` and `ChannelInv` follow a login statement by statement: the
  guild has its owner as a member, the member a channel, or the login that will see to
  it is under way. They need that a guild without members has one login at most that
  makes its owner one and that nobody has heard of it (`MakerInv`, `QuietInv`).
  `ListInv`: while a list is stale some request has the current one or will read it.
  `RowInv`: a device's last row covers its others, but for buried welcomes.
- **DesktopProofs**: types, `SendsWhereShown`, `SendsFitGuild`, `ShownOrLost`,
  `MainIsLoggedIn`. The window runs ahead of the backend by the queue of commands, so
  `LeadInv` says where the queue leads: at the turn of the n-th command the channel a
  message was written in is the one selected, since each command that moves the
  selection, and has no other mover behind it, selects it. `FitInv` says the same of
  the guild, with `KnownInv` about the client's channel map. `SignInv`: while the
  client is not logged in, each `LoginOk` in the inbox has a failure behind it, and so
  has a main page that neither shows one nor had it dismissed. It
  needs that only a sign-in reports one (`OkInv`). `SeenInv` ties the ids of a list to
  the list, and `PostInv` counts the messages that the waiting commands will make.

Assumptions: only those on the constants, named in each module
(`UserAssumption`, `MsgAssumption`, `LeaderAssumption`, `BoundAssumption`,
`ClockAssumption`, `NameAssumption`, `GuildServerAssumption`).

They say that the bounds are numbers, that queues, rings and pages have room for
something, and that what the server holds at the start is within the bounds.

Model-checked only: the liveness properties (`InflightReleased`,
`PassServes`, `AllArrive`), which are out of the prover's reach.

## 6. Not modelled

- Cryptography and the wire formats. Wall-clock time: cooldowns of 15 s and 30 s and
  retry delays only delay what may happen at any time here; where time decides, in
  `DeviceLink` and `Voice`, there is a clock.
- Files (SRV 724-877): an upload checks and writes one row, a download reads it.
- The minting of LiveKit tokens, configuration, and the shared types: functions or
  data without state. Rooms and tokens are external.
- In the desktop program attachment previews and downloads, invite creation, the voice
  controls, settings and layout: each is one request whose answer changes what is drawn
  and nothing a property here is about.
- Bans, kicks, mutes and revoked invites: the schema has columns for them and no code
  writes them. The fetch of a welcome that consumes it (ST) has no caller.
- The request for a bootstrap (SRV) only sends an event; its effect is a bootstrap that
  starts (`Onboarding`).
- Two clients of one program on one MLS database after a second sign-in: `Desktop` says
  which of them the window hears, not what they write.
- More than one guild, except in `Desktop` and `GuildServer`; the content of member
  lists, except in `GuildServer`.
- `src/src`, which belongs to no crate; command-line tools and scripts.

`PROJECT.json` lists every component and, under `hazards`, every place in the code
that is hard to test, with the property that covers it or the reason why none does.

Several properties name exceptions that are outcomes of the code's own hazards: what a
failed, cut or overtaken request, a full queue or an interleaving leaves. Such a
property says that the outcome has no other cause; the notes of the hazards say which
one it excuses.

Three weaknesses seen while modelling are in `Onboarding` and are the exceptions its
properties name, without a run of their own. A member that `add_member` has merged and
whose snapshot failed stays on the leader's roster without a welcome; the next pass that
asks for it gets a 409 and gives the group up (`RosterHasWelcome`, `CalmMeansSameGroup`
and `FounderKnowsAll` say what holds around it). Two tasks of the leader that both
find no session create a group each (SM 235-258): the first to insert is live, the
last to create is on disk until the next `add_member` persists the live one, and a
restart in between comes back with a group nobody else has (`FounderKnowsAll`
speaks of the snapshot only when it is the live group's). And the mark that the
leader's fast path sets after a self-heal has dropped the session (CC 1871-1880
against 1913-1944) calls a channel ready that has none (`ReadyMeansOpen` is about
clients before the first self-heal).

## 7. Running

In this directory: `tlc -workers 2 -config Onboarding.cfg MCOnboarding` (each run's
module and cfg are in `PROJECT.json`), and `tlapm OnboardingProofs.tla` for a
proof module. The largest runs (`desktop`, the three of `Onboarding`,
`message_relay`, `guild_server`) take one to three minutes, the largest proof a few.
