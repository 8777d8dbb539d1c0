---------------------------- MODULE MessageRelay ----------------------------
(***************************************************************************)
(* How a message or a join gets from the server's database to the members' *)
(* clients, for one guild and one text channel.  A handler writes a row,    *)
(* awaits once more and puts an event on a broadcast ring; the task of each *)
(* websocket takes events off the ring, keeps those its user may see and    *)
(* writes them to its socket; a client also asks for the newest page of the *)
(* history when its user opens the channel, and for older pages on demand.  *)
(*                                                                         *)
(* An event is named by what it announces: a message id, or the user who    *)
(* joined.  A membership is never taken back, because no handler does so.   *)
(* What decryption makes of a message is the subject of InboundPipeline.    *)
(***************************************************************************)
EXTENDS Naturals, Sequences

CONSTANTS
  Users,
  Founders,     \* members from the start
  Clients,      \* bound on the users who log in; the others' requests just arrive
  MaxMsgs,      \* bound on the messages sent
  Cap,          \* capacity of the ring
  Page,         \* rows in a page of history
  WireCap,      \* events a socket buffers
  MaxFailures   \* bound on the failures of all kinds

ASSUME UserAssumption ==
  Founders \subseteq Users /\ Clients \subseteq Users /\ Users \cap Nat = {}
ASSUME BoundAssumption ==
  /\ MaxMsgs \in Nat /\ MaxFailures \in Nat
  /\ Cap \in Nat \ {0} /\ Page \in Nat \ {0} /\ WireCap \in Nat \ {0}

VARIABLES
  member,     \* the memberships table
  last,       \* the newest message id in the messages table
  sending,    \* events whose handler has written its row and not yet sent them
  log,        \* all events ever sent; the ring holds the last Cap of them
  unsent,     \* events whose handler died before it sent them
  link,       \* link[u]: "none" before the first login, "accepted" when the upgrade
              \* is answered, "open" when its task listens, "down" when it broke
  next,       \* next[u]: the position its task reads the ring at
  held,       \* held[u]: the event its task has in hand, if any
  wire,       \* wire[u]: the events on its socket
  mapped,     \* users whose client knows the guild of the channel
  fetch,      \* fetch[u]: the history request under way
  got,        \* got[u]: the events the client has seen
  from,       \* history: from this id on the client should lack nothing
  owed,       \* history: joins announced while u was listening
  lost,       \* lost[u]: events its task skipped or could not check
  answered,   \* events whose request was answered
  prior,      \* history: prior[i], what was answered when i was inserted
  failures    \* number of failures

tableVars == <<member, last>>
busVars == <<sending, log, unsent, answered, prior>>
taskVars == <<next, held, lost>>
clientVars == <<mapped, fetch, got, from, owed>>
vars == <<tableVars, busVars, link, taskVars, wire, clientVars, failures>>

Msgs == 1..MaxMsgs
Events == Msgs \union Users

\* No message has this id: as a bound of a history request it means the newest
\* page, as from[u] that nothing is owed to u yet.
Beyond == MaxMsgs + 1

NoFetch == [stage |-> "idle", before |-> Beyond, ids |-> {}, fresh |-> FALSE]

Least(S) == CHOOSE i \in S : \A j \in S : i <= j

\* The rows of a page: the newest ones below a bound.
PageBefore(b) ==
  LET top == Least({b, last + 1}) IN {i \in 1..last : i < top /\ top - i <= Page}

\* The id a page reaches down to: it is empty only if there is nothing below it.
Floor(ids) == IF ids = {} THEN 1 ELSE Least(ids)

Init ==
  /\ member = Founders
  /\ last = 0
  /\ sending = {}
  /\ log = <<>>
  /\ unsent = {}
  /\ link = [u \in Users |-> "none"]
  /\ next = [u \in Users |-> 1]
  /\ held = [u \in Users |-> {}]
  /\ wire = [u \in Users |-> <<>>]
  /\ mapped = {}
  /\ fetch = [u \in Users |-> NoFetch]
  /\ got = [u \in Users |-> {}]
  /\ from = [u \in Users |-> Beyond]
  /\ owed = [u \in Users |-> {}]
  /\ lost = [u \in Users |-> {}]
  /\ answered = {}
  /\ prior = [i \in Msgs |-> {}]
  /\ failures = 0

Fail == failures < MaxFailures /\ failures' = failures + 1

-----------------------------------------------------------------------------
(* The handlers                                                            *)

\* Mutant of Join: the join is not announced.
JoinSilently(v) ==
  /\ v \notin member
  /\ member' = member \union {v}
  /\ owed' = [u \in Users |->
       IF link[u] = "open" /\ u \in member' THEN owed[u] \union {v} ELSE owed[u]]
  /\ UNCHANGED <<last, busVars, link, taskVars, wire, mapped, fetch, got, from,
                 failures>>

\* The membership row is there; the list of the members is read after it.  Joining
\* once more announces the same again and is left out.
Join(v) ==
  /\ v \notin member
  /\ member' = member \union {v}
  /\ sending' = sending \union {v}
  /\ owed' = [u \in Users |->
       IF link[u] = "open" /\ u \in member' THEN owed[u] \union {v} ELSE owed[u]]
  /\ UNCHANGED <<last, log, unsent, answered, prior, link, taskVars, wire,
                 mapped, fetch, got, from, failures>>

\* Mutant of Insert: the request is answered and the event sent in the background.
InsertAndAnswer(u) ==
  /\ u \in member
  /\ last < MaxMsgs
  /\ last' = last + 1
  /\ sending' = sending \union {last + 1}
  /\ prior' = [prior EXCEPT ![last + 1] = answered]
  /\ answered' = answered \union {last + 1}
  /\ UNCHANGED <<member, log, unsent, link, taskVars, wire, clientVars, failures>>

\* The ciphertext is stored; the sender's name is read after it.
Insert(u) ==
  /\ u \in member
  /\ last < MaxMsgs
  /\ last' = last + 1
  /\ sending' = sending \union {last + 1}
  /\ prior' = [prior EXCEPT ![last + 1] = answered]
  /\ UNCHANGED <<member, log, unsent, answered, link, taskVars, wire, clientVars,
                 failures>>

\* The event goes on the ring and the request is answered, with no await between.
Broadcast(e) ==
  /\ e \in sending
  /\ sending' = sending \ {e}
  /\ log' = Append(log, e)
  /\ answered' = answered \union {e}
  /\ UNCHANGED <<tableVars, unsent, prior, link, taskVars, wire, clientVars, failures>>

\* The lookup after the row fails, or the handler is dropped with its connection.
Die(e) ==
  /\ e \in sending
  /\ Fail
  /\ sending' = sending \ {e}
  /\ unsent' = unsent \union {e}
  /\ UNCHANGED <<tableVars, log, answered, prior, link, taskVars, wire, clientVars>>

-----------------------------------------------------------------------------
(* The task of a websocket                                                 *)

\* The task starts some time after the client got the answer to its upgrade, and
\* hears what is sent from then on.
Subscribe(u) ==
  /\ link[u] = "accepted"
  /\ link' = [link EXCEPT ![u] = "open"]
  /\ next' = [next EXCEPT ![u] = Len(log) + 1]
  /\ UNCHANGED <<tableVars, busVars, held, lost, wire, clientVars, failures>>

Idle(u) == link[u] = "open" /\ held[u] = {}
Behind(u) == Len(log) + 1 - next[u]

\* Mutant of Receive: the newest event waits for the one after it.
ReceiveAllButLast(u) ==
  /\ Idle(u)
  /\ Behind(u) \in 2..Cap
  /\ held' = [held EXCEPT ![u] = {log[next[u]]}]
  /\ next' = [next EXCEPT ![u] = @ + 1]
  /\ UNCHANGED <<tableVars, busVars, link, lost, wire, clientVars, failures>>

\* Take the next event off the ring.
Receive(u) ==
  /\ Idle(u)
  /\ Behind(u) \in 1..Cap
  /\ held' = [held EXCEPT ![u] = {log[next[u]]}]
  /\ next' = [next EXCEPT ![u] = @ + 1]
  /\ UNCHANGED <<tableVars, busVars, link, lost, wire, clientVars, failures>>

\* Mutant of Lag: the task subscribes again and goes on with the next new event.
LagToEnd(u) ==
  /\ Idle(u)
  /\ Behind(u) > Cap
  /\ next' = [next EXCEPT ![u] = Len(log) + 1]
  /\ lost' = [lost EXCEPT ![u] = @ \union {log[k] : k \in next[u]..(Len(log) - Cap)}]
  /\ UNCHANGED <<tableVars, busVars, link, held, wire, clientVars, failures>>

\* The task has lagged: it goes on with the oldest event the ring still holds.
Lag(u) ==
  /\ Idle(u)
  /\ Behind(u) > Cap
  /\ next' = [next EXCEPT ![u] = Len(log) + 1 - Cap]
  /\ lost' = [lost EXCEPT ![u] = @ \union {log[k] : k \in next[u]..(Len(log) - Cap)}]
  /\ UNCHANGED <<tableVars, busVars, link, held, wire, clientVars, failures>>

\* Its user is a member: the event is written once the socket has room for it.
Forward(u) ==
  /\ link[u] = "open" /\ held[u] # {}
  /\ u \in member
  /\ Len(wire[u]) < WireCap
  /\ wire' = [wire EXCEPT ![u] = @ \o <<CHOOSE e \in held[u] : TRUE>>]
  /\ held' = [held EXCEPT ![u] = {}]
  /\ UNCHANGED <<tableVars, busVars, link, next, lost, clientVars, failures>>

\* Its user is no member: the event is passed over.
Filter(u) ==
  /\ link[u] = "open" /\ held[u] # {}
  /\ u \notin member
  /\ held' = [held EXCEPT ![u] = {}]
  /\ UNCHANGED <<tableVars, busVars, link, next, lost, wire, clientVars, failures>>

\* The membership cannot be read, which counts as not being a member.
CheckFails(u) ==
  /\ link[u] = "open" /\ held[u] # {}
  /\ Fail
  /\ held' = [held EXCEPT ![u] = {}]
  /\ lost' = [lost EXCEPT ![u] = @ \union held[u]]
  /\ UNCHANGED <<tableVars, busVars, link, next, wire, clientVars>>

\* What is left of the sockets of the users of U: nothing on the server, and on
\* the client what it has already seen.
Hangup(U) ==
  /\ link' = [u \in Users |-> IF u \in U THEN "down" ELSE link[u]]
  /\ held' = [u \in Users |-> IF u \in U THEN {} ELSE held[u]]
  /\ wire' = [u \in Users |-> IF u \in U THEN <<>> ELSE wire[u]]
  /\ next' = [u \in Users |-> IF u \in U THEN 1 ELSE next[u]]
  /\ lost' = [u \in Users |-> IF u \in U THEN {} ELSE lost[u]]
  /\ from' = [u \in Users |-> IF u \in U THEN Beyond ELSE from[u]]
  /\ owed' = [u \in Users |-> IF u \in U THEN {} ELSE owed[u]]
  /\ fetch' = [u \in Users |->
       IF u \in U THEN [fetch[u] EXCEPT !.fresh = FALSE] ELSE fetch[u]]

\* A socket breaks.  The client does not connect again by itself.
Disconnect(u) ==
  /\ link[u] \in {"accepted", "open"}
  /\ Fail
  /\ Hangup({u})
  /\ UNCHANGED <<tableVars, busVars, mapped, got>>

\* The server restarts: handlers, ring and sockets are gone.
Restart ==
  /\ Fail
  /\ sending' = {}
  /\ unsent' = unsent \union sending
  /\ Hangup({u \in Users : link[u] # "none"})
  /\ UNCHANGED <<tableVars, log, answered, prior, mapped, got>>

-----------------------------------------------------------------------------
(* The client                                                              *)

\* A login starts with an empty view and a websocket of its own.
Login(u) ==
  /\ u \in Clients
  /\ link' = [link EXCEPT ![u] = "accepted"]
  /\ held' = [held EXCEPT ![u] = {}]
  /\ wire' = [wire EXCEPT ![u] = <<>>]
  /\ mapped' = mapped \ {u}
  /\ fetch' = [fetch EXCEPT ![u] = NoFetch]
  /\ got' = [got EXCEPT ![u] = {}]
  /\ from' = [from EXCEPT ![u] = Beyond]
  /\ owed' = [owed EXCEPT ![u] = {}]
  /\ next' = [next EXCEPT ![u] = 1]
  /\ lost' = [lost EXCEPT ![u] = {}]
  /\ UNCHANGED <<tableVars, busVars, failures>>

\* A message of a channel whose guild is not known yet is refused.
Read(u) ==
  /\ wire[u] # <<>>
  /\ wire' = [wire EXCEPT ![u] = Tail(@)]
  /\ got' = [got EXCEPT ![u] =
       IF Head(wire[u]) \in Users \/ u \in mapped THEN @ \union {Head(wire[u])} ELSE @]
  /\ UNCHANGED <<tableVars, busVars, link, taskVars, mapped, fetch, from, owed, failures>>

\* The client lists the channels of the guild.
Map(u) ==
  /\ link[u] # "none" /\ u \notin mapped
  /\ mapped' = mapped \union {u}
  /\ UNCHANGED <<tableVars, busVars, link, taskVars, wire, fetch, got, from, owed,
                 failures>>

\* The history is asked for, from a bound down.
Ask(u, b) ==
  /\ link[u] # "none"
  /\ fetch[u].stage = "idle"
  /\ fetch' = [fetch EXCEPT ![u] = [NoFetch EXCEPT !.stage = "asked", !.before = b]]
  /\ mapped' = mapped \union {u}
  /\ UNCHANGED <<tableVars, busVars, link, taskVars, wire, got, from, owed, failures>>

Open(u) == Ask(u, Beyond)
LoadOlder(u) ==
  \E b \in got[u] \cap Msgs : (\A i \in got[u] \cap Msgs : b <= i) /\ Ask(u, b)

\* The server reads the page.
Answer(u) ==
  /\ fetch[u].stage = "asked"
  /\ u \in member
  /\ fetch' = [fetch EXCEPT ![u].stage = "answered",
                            ![u].ids = PageBefore(fetch[u].before),
                            ![u].fresh = (link[u] = "open")]
  /\ UNCHANGED <<tableVars, busVars, link, taskVars, wire, mapped, got, from, owed,
                 failures>>

\* A page is the whole table from its floor up to its bound: with the events after
\* it, if the task was listening when it was read, it makes one piece, and so do
\* adjacent pages.
Continues(u) == fetch[u].fresh /\ fetch[u].before >= from[u]

Absorb(u) ==
  /\ fetch[u].stage = "answered"
  /\ got' = [got EXCEPT ![u] = @ \union fetch[u].ids]
  /\ from' = [from EXCEPT ![u] =
       IF Continues(u) THEN Least({@, Floor(fetch[u].ids)}) ELSE @]
  /\ fetch' = [fetch EXCEPT ![u] = NoFetch]
  /\ UNCHANGED <<tableVars, busVars, link, taskVars, wire, mapped, owed, failures>>

\* The request is refused, or it or its answer is lost.
FetchFails(u) ==
  /\ fetch[u].stage # "idle"
  /\ (u \notin member /\ UNCHANGED failures) \/ Fail
  /\ fetch' = [fetch EXCEPT ![u] = NoFetch]
  /\ UNCHANGED <<tableVars, busVars, link, taskVars, wire, mapped, got, from, owed>>

-----------------------------------------------------------------------------
Next ==
  \/ \E u \in Users :
       \/ Join(u) \/ Insert(u)
       \/ Subscribe(u) \/ Receive(u) \/ Lag(u) \/ Forward(u) \/ Filter(u)
       \/ CheckFails(u) \/ Disconnect(u)
       \/ Login(u) \/ Read(u) \/ Map(u) \/ Open(u) \/ LoadOlder(u)
       \/ Answer(u) \/ Absorb(u) \/ FetchFails(u)
  \/ \E e \in Events : Broadcast(e) \/ Die(e)
  \/ Restart

Spec == Init /\ [][Next]_vars

\* Tasks are polled and an open socket is read as long as it is open.
FairSpec ==
  /\ Spec
  /\ \A e \in Events : WF_vars(Broadcast(e))
  /\ \A u \in Users :
       /\ WF_vars(Receive(u)) /\ WF_vars(Lag(u))
       /\ WF_vars(Forward(u)) /\ WF_vars(Filter(u)) /\ WF_vars(Read(u))

-----------------------------------------------------------------------------
(* Properties                                                              *)

TypeOK ==
  /\ member \subseteq Users /\ mapped \subseteq Users
  /\ last \in 0..MaxMsgs
  /\ sending \subseteq Events /\ unsent \subseteq Events /\ answered \subseteq Events
  /\ log \in Seq(Events)
  /\ link \in [Users -> {"none", "down", "accepted", "open"}]
  /\ next \in [Users -> Nat \ {0}]
  /\ held \in [Users -> SUBSET Events]
  /\ wire \in [Users -> Seq(Events)]
  /\ \A u \in Users : next[u] <= Len(log) + 1 /\ Len(wire[u]) <= WireCap
  /\ fetch \in [Users -> [stage : {"idle", "asked", "answered"}, before : 1..Beyond,
                          ids : SUBSET Msgs, fresh : BOOLEAN]]
  /\ got \in [Users -> SUBSET Events] /\ lost \in [Users -> SUBSET Events]
  /\ owed \in [Users -> SUBSET Users]
  /\ from \in [Users -> 1..Beyond]
  /\ prior \in [Msgs -> SUBSET Events]
  /\ failures \in 0..MaxFailures

\* What will still come to u over its socket, and what it will never get.
OnTheWay(u) ==
  sending \union {log[k] : k \in next[u]..Len(log)} \union held[u]
          \union {wire[u][k] : k \in DOMAIN wire[u]}
Excused(u) == unsent \union lost[u]

\* The history page a client read and the events after it leave no hole between
\* them: from the page's first message to the newest one, the client has each
\* message or it is on its way, but for those the server is known to have lost.
NoHoles ==
  \A u \in Users : link[u] = "open" =>
    \A i \in from[u]..last : i \in got[u] \union OnTheWay(u) \union Excused(u)

\* A member that is listening hears of everybody who joins, of itself first.
JoinIsHeard ==
  \A u \in Users : link[u] = "open" => owed[u] \subseteq got[u] \union OnTheWay(u) \union Excused(u)

\* A message comes after everything that was answered before it was sent: the
\* sender's earlier messages, those of others, and the news that the sender joined.
InOrder ==
  \A u \in Users :
    LET line == wire[u] \o (IF held[u] = {} THEN <<>> ELSE <<CHOOSE e \in held[u] : TRUE>>)
                \o SubSeq(log, next[u], Len(log))
    IN link[u] = "open" =>
         \A a, b \in DOMAIN line : a < b /\ line[a] \in Msgs => line[b] \notin prior[line[a]]

\* A message a listening client should get reaches it while its socket lasts.
AllArrive ==
  \A u \in Users, i \in Msgs :
    link[u] = "open" /\ i \in from[u]..last ~>
      i \in got[u] \union Excused(u) \/ link[u] # "open"
=============================================================================
