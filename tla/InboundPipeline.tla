-------------------------- MODULE InboundPipeline --------------------------
(***************************************************************************)
(* The inbound half of the realtime client: emit_decrypted_message, run by *)
(* every task that has been handed a message (the websocket reader, a page *)
(* of a history fetch, the refresh after a send), the set of ids being     *)
(* decrypted, the bounded cache of ids already handled, the cache of       *)
(* plaintexts of one's own messages, and the login that resets all of them *)
(* while tasks of the previous login may still be running.                 *)
(*                                                                         *)
(* Every step between two awaits of the code is one action of a task; the  *)
(* mutex that guards the state is held for exactly one action.  OpenMLS is *)
(* represented by what it can answer: secret[m] says whether the ratchet   *)
(* secret of m is still held, was used, or was pruned.                     *)
(***************************************************************************)
EXTENDS Naturals, Sequences, FiniteSets

CONSTANTS
  Msgs,            \* application messages and commits, each in one channel
  Own,             \* those sent by the logged-in user
  Commits,         \* MLS handshake messages (empty plaintext, no attachment)
  WithFile,        \* messages that carry an attachment
  AttachmentOnly,  \* those of WithFile whose text is empty
  Channels,
  ChannelOf,       \* ChannelOf[m]: the channel m belongs to
  Tasks,           \* tasks that may run emit_decrypted_message concurrently
  CacheMax,        \* PROCESSED_MESSAGE_CACHE_MAX
  MaxImports       \* bound on the imports of a device bundle

ASSUME MsgAssumption ==
  /\ Own \subseteq Msgs
  /\ Commits \subseteq Msgs \ Own
  /\ WithFile \subseteq Msgs \ Commits
  /\ AttachmentOnly \subseteq WithFile
  /\ ChannelOf \in [Msgs -> Channels]

ASSUME BoundAssumption == CacheMax \in Nat \ {0} /\ MaxImports \in Nat

VARIABLES
  session,      \* "out", "connecting" (user_id set, websocket not yet), "in"
  mapped,       \* keys of channel_guilds
  initialized,  \* initialized_mls_channels
  pending,      \* own messages whose text is in pending_outbound_plaintexts
  processed,    \* processed_inbound_message_ids
  order,        \* processed_inbound_message_order
  inflight,     \* inflight_inbound_message_ids
  pc,           \* where each task stands in emit_decrypted_message
  msg,          \* the message it was last handed
  body,         \* the plaintext it holds: "none", "text" or "empty"
  secret,       \* the MLS session: "held", "used" or "pruned" for each message
  sent,         \* an own message: "new", "posting", "ok" or "failed"
  onServer,     \* messages stored by the server
  shown,        \* history: events that carried the text of the message
  blank,        \* history: messages for which an event carried an empty text
  imports,      \* history: imports of a device bundle
  overtaken,    \* history: a reset has hit a task that was running
  forgotten     \* history: own messages whose text a reset discarded

cacheVars == <<processed, order>>
clientVars == <<session, mapped, initialized, pending, processed, order, inflight>>
taskVars == <<pc, msg, body>>
historyVars == <<imports, overtaken, forgotten>>
serverVars == <<sent, onServer>>
vars == <<clientVars, taskVars, secret, serverVars, shown, blank, historyVars>>

\* The points at which a task owns the inflight mark it has set.
Owning == {"check", "join", "recheck", "decrypt", "show", "mark"}
Points == Owning \union {"idle", "resync"}

\* The text an event about m carries when the plaintext of m is at hand.
Body(m) == IF m \in AttachmentOnly THEN "empty" ELSE "text"

Init ==
  /\ session = "out"
  /\ mapped = {} /\ initialized = {} /\ pending = {}
  /\ processed = {} /\ order = <<>> /\ inflight = {}
  /\ pc = [t \in Tasks |-> "idle"]
  /\ msg \in [Tasks -> Msgs]
  /\ body = [t \in Tasks |-> "none"]
  /\ secret = [m \in Msgs |-> "held"]
  /\ sent = [m \in Own |-> "new"]
  /\ onServer = {}
  /\ shown = [m \in Msgs |-> 0]
  /\ blank = {}
  /\ imports = 0 /\ overtaken = FALSE /\ forgotten = {}

-----------------------------------------------------------------------------
(* Login and the other writers of the shared state                         *)

\* The clearing both arms of login perform under one lock.
ResetState ==
  /\ mapped' = {} /\ initialized' = {} /\ pending' = {}
  /\ processed' = {} /\ order' = <<>> /\ inflight' = {}
  /\ overtaken' = (overtaken \/ \E t \in Tasks : pc[t] # "idle")
  /\ forgotten' = forgotten \union pending
  /\ UNCHANGED <<taskVars, secret, serverVars, shown, blank, imports>>

\* The server accepted the login; tasks of an earlier login keep running.
Login ==
  /\ session \in {"out", "in"}
  /\ session' = "connecting"
  /\ ResetState

LoginConnected ==
  /\ session = "connecting"
  /\ session' = "in"
  /\ UNCHANGED <<mapped, initialized, pending, processed, order, inflight,
                 taskVars, secret, serverVars, shown, blank, historyVars>>

LoginRolledBack ==
  /\ session = "connecting"
  /\ session' = "out"
  /\ ResetState

\* list_channels, select_channel, fetch_messages and a message for the selected
\* channel all record the guild of a channel.
MapChannel(c) ==
  /\ session # "out"
  /\ c \notin mapped
  /\ mapped' = mapped \union {c}
  /\ UNCHANGED <<session, initialized, pending, processed, order, inflight,
                 taskVars, secret, serverVars, shown, blank, historyVars>>

\* A channel became usable outside the pipeline (select_channel, a send, a
\* prewarm, a welcome event).
ChannelReady(c) ==
  /\ session # "out"
  /\ c \notin initialized
  /\ initialized' = initialized \union {c}
  /\ UNCHANGED <<session, mapped, pending, processed, order, inflight,
                 taskVars, secret, serverVars, shown, blank, historyVars>>

\* import_channel_state_bundle replaces the live group by a snapshot, whose
\* ratchet is that of the moment it was taken: secrets used since are back.
ImportBundle(c) ==
  /\ imports < MaxImports
  /\ imports' = imports + 1
  /\ secret' = [m \in Msgs |-> IF ChannelOf[m] = c THEN "held" ELSE secret[m]]
  /\ initialized' = initialized \union {c}
  /\ UNCHANGED <<session, mapped, pending, processed, order, inflight,
                 taskVars, serverVars, shown, blank, overtaken, forgotten>>

-----------------------------------------------------------------------------
(* Sending, and messages arriving at the server                            *)

\* The ciphertext exists and its plaintext is cached before the POST starts.
StartSend(m) ==
  /\ session # "out"
  /\ sent[m] = "new"
  /\ ChannelOf[m] \in initialized
  /\ sent' = [sent EXCEPT ![m] = "posting"]
  /\ pending' = pending \union {m}
  /\ UNCHANGED <<session, mapped, initialized, processed, order, inflight,
                 taskVars, secret, onServer, shown, blank, historyVars>>

\* The server stores a message: one of ours that is being posted, even if we
\* have already given up on the answer, or somebody else's.
ServerStores(m) ==
  /\ m \notin onServer
  /\ m \in Own => sent[m] \in {"posting", "failed"}
  /\ onServer' = onServer \union {m}
  /\ UNCHANGED <<clientVars, taskVars, secret, sent, shown, blank, historyVars>>

\* Mutant of PostSucceeded: cleans the cached plaintext up as a failure does.
PostSucceededCleansUp(m) ==
  /\ sent[m] = "posting"
  /\ m \in onServer
  /\ sent' = [sent EXCEPT ![m] = "ok"]
  /\ pending' = pending \ {m}
  /\ UNCHANGED <<session, mapped, initialized, processed, order, inflight,
                 taskVars, secret, onServer, shown, blank, historyVars>>

PostSucceeded(m) ==
  /\ sent[m] = "posting"
  /\ m \in onServer
  /\ sent' = [sent EXCEPT ![m] = "ok"]
  /\ UNCHANGED <<clientVars, taskVars, secret, onServer, shown, blank, historyVars>>

\* The request was refused or its answer was lost: the server may hold m or not.
PostFailed(m) ==
  /\ sent[m] = "posting"
  /\ sent' = [sent EXCEPT ![m] = "failed"]
  /\ pending' = pending \ {m}
  /\ UNCHANGED <<session, mapped, initialized, processed, order, inflight,
                 taskVars, secret, onServer, shown, blank, historyVars>>

-----------------------------------------------------------------------------
(* emit_decrypted_message                                                  *)

\* Mutants of Deliver: without the gate on inflight ids, without the one on
\* processed ids, and reading the cached plaintext without removing it.
DeliverIgnoresInflight(t, m) ==
  LET cached == m \in pending IN
  /\ session # "out"
  /\ pc[t] = "idle"
  /\ m \in onServer
  /\ m \notin processed
  /\ ChannelOf[m] \in mapped
  /\ inflight' = inflight \union {m}
  /\ msg' = [msg EXCEPT ![t] = m]
  /\ pc' = [pc EXCEPT ![t] = IF m \notin Own THEN "check"
                             ELSE IF cached THEN "show" ELSE "mark"]
  /\ body' = [body EXCEPT ![t] = IF cached THEN Body(m) ELSE "none"]
  /\ pending' = pending \ {m}
  /\ UNCHANGED <<session, mapped, initialized, processed, order,
                 secret, serverVars, shown, blank, historyVars>>

DeliverIgnoresProcessed(t, m) ==
  LET cached == m \in pending IN
  /\ session # "out"
  /\ pc[t] = "idle"
  /\ m \in onServer
  /\ m \notin inflight
  /\ ChannelOf[m] \in mapped
  /\ inflight' = inflight \union {m}
  /\ msg' = [msg EXCEPT ![t] = m]
  /\ pc' = [pc EXCEPT ![t] = IF m \notin Own THEN "check"
                             ELSE IF cached THEN "show" ELSE "mark"]
  /\ body' = [body EXCEPT ![t] = IF cached THEN Body(m) ELSE "none"]
  /\ pending' = pending \ {m}
  /\ UNCHANGED <<session, mapped, initialized, processed, order,
                 secret, serverVars, shown, blank, historyVars>>

DeliverKeepsPlaintext(t, m) ==
  LET cached == m \in pending IN
  /\ session # "out"
  /\ pc[t] = "idle"
  /\ m \in onServer
  /\ m \notin processed /\ m \notin inflight
  /\ ChannelOf[m] \in mapped
  /\ inflight' = inflight \union {m}
  /\ msg' = [msg EXCEPT ![t] = m]
  /\ pc' = [pc EXCEPT ![t] = IF m \notin Own THEN "check"
                             ELSE IF cached THEN "show" ELSE "mark"]
  /\ body' = [body EXCEPT ![t] = IF cached THEN Body(m) ELSE "none"]
  /\ pending' = pending
  /\ UNCHANGED <<session, mapped, initialized, processed, order,
                 secret, serverVars, shown, blank, historyVars>>

\* Phase 1, under one lock.  A message that is processed or inflight, or whose
\* channel is unknown, is dropped with the state unchanged.  An own message
\* takes its cached plaintext, if there is one, and is done with after it.
Deliver(t, m) ==
  LET cached == m \in pending IN
  /\ session # "out"
  /\ pc[t] = "idle"
  /\ m \in onServer
  /\ m \notin processed /\ m \notin inflight
  /\ ChannelOf[m] \in mapped
  /\ inflight' = inflight \union {m}
  /\ msg' = [msg EXCEPT ![t] = m]
  /\ pc' = [pc EXCEPT ![t] = IF m \notin Own THEN "check"
                             ELSE IF cached THEN "show" ELSE "mark"]
  /\ body' = [body EXCEPT ![t] = IF cached THEN Body(m) ELSE "none"]
  /\ pending' = pending \ {m}
  /\ UNCHANGED <<session, mapped, initialized, processed, order,
                 secret, serverVars, shown, blank, historyVars>>

\* is_mls_channel_initialized before the join.
CheckReady(t) ==
  /\ pc[t] = "check"
  /\ pc' = [pc EXCEPT ![t] =
              IF ChannelOf[msg[t]] \in initialized THEN "decrypt" ELSE "join"]
  /\ UNCHANGED <<clientVars, msg, body, secret, serverVars, shown, blank, historyVars>>

\* One run of maybe_join_from_pending_welcome_with_retry, whatever it achieved.
JoinAttempt(t, from, to) ==
  /\ pc[t] = from
  /\ pc' = [pc EXCEPT ![t] = to]
  /\ initialized' \in {initialized, initialized \union {ChannelOf[msg[t]]}}
  /\ UNCHANGED <<session, mapped, pending, processed, order, inflight,
                 msg, body, secret, serverVars, shown, blank, historyVars>>

JoinForMessage(t) == JoinAttempt(t, "join", "recheck")

Resync(t) == JoinAttempt(t, "resync", "idle")

\* The second check: still no group, so the mark is released for a later delivery.
RecheckReady(t) ==
  /\ pc[t] = "recheck"
  /\ IF ChannelOf[msg[t]] \in initialized
       THEN pc' = [pc EXCEPT ![t] = "decrypt"] /\ inflight' = inflight
       ELSE pc' = [pc EXCEPT ![t] = "idle"] /\ inflight' = inflight \ {msg[t]}
  /\ UNCHANGED <<session, mapped, initialized, pending, processed, order,
                 msg, body, secret, serverVars, shown, blank, historyVars>>

\* Mutant of DecryptPlaintext: drops the plaintext when the channel has been
\* given up in the meantime.
DecryptPlaintextDrops(t) ==
  LET m == msg[t] IN
  /\ pc[t] = "decrypt"
  /\ m \notin Commits
  /\ secret[m] = "held"
  /\ secret' = [secret EXCEPT ![m] = "used"]
  /\ body' = [body EXCEPT ![t] = Body(m)]
  /\ pc' = [pc EXCEPT ![t] = IF ChannelOf[m] \in initialized THEN "show" ELSE "mark"]
  /\ UNCHANGED <<clientVars, msg, serverVars, shown, blank, historyVars>>

\* The ratchet still holds the secret: the plaintext comes out, once.
DecryptPlaintext(t) ==
  LET m == msg[t] IN
  /\ pc[t] = "decrypt"
  /\ m \notin Commits
  /\ secret[m] = "held"
  /\ secret' = [secret EXCEPT ![m] = "used"]
  /\ body' = [body EXCEPT ![t] = Body(m)]
  /\ pc' = [pc EXCEPT ![t] = "show"]
  /\ UNCHANGED <<clientVars, msg, serverVars, shown, blank, historyVars>>

\* A commit, or a secret already used or pruned, comes back as zero bytes.  With
\* an attachment zero bytes are displayed as an empty text, without they are not.
DecryptNothing(t) ==
  LET m == msg[t] IN
  /\ pc[t] = "decrypt"
  /\ secret' = IF m \notin Commits /\ secret[m] = "held"
                 THEN [secret EXCEPT ![m] = "pruned"] ELSE secret
  /\ body' = [body EXCEPT ![t] = IF m \in WithFile THEN "empty" ELSE "none"]
  /\ pc' = [pc EXCEPT ![t] = IF m \in WithFile THEN "show" ELSE "mark"]
  /\ UNCHANGED <<clientVars, msg, serverVars, shown, blank, historyVars>>

\* Mutant of DecryptDrift: resyncs without releasing the mark.
DecryptDriftLeaks(t) ==
  /\ pc[t] = "decrypt"
  /\ initialized' = initialized \ {ChannelOf[msg[t]]}
  /\ pc' = [pc EXCEPT ![t] = "resync"]
  /\ UNCHANGED <<session, mapped, pending, processed, order, inflight,
                 msg, body, secret, serverVars, shown, blank, historyVars>>

\* "wrong epoch" and the other drift errors: give the channel up and resync.
DecryptDrift(t) ==
  /\ pc[t] = "decrypt"
  /\ initialized' = initialized \ {ChannelOf[msg[t]]}
  /\ inflight' = inflight \ {msg[t]}
  /\ pc' = [pc EXCEPT ![t] = "resync"]
  /\ UNCHANGED <<session, mapped, pending, processed, order,
                 msg, body, secret, serverVars, shown, blank, historyVars>>

\* Historical, malformed (base64 included) and unexpected failures: skipped for good.
DecryptFailed(t) ==
  /\ pc[t] = "decrypt"
  /\ pc' = [pc EXCEPT ![t] = "mark"]
  /\ UNCHANGED <<clientVars, msg, body, secret, serverVars, shown, blank, historyVars>>

\* events.send(MessageDecrypted), outside the lock.
Show(t) ==
  LET m == msg[t] IN
  /\ pc[t] = "show"
  /\ shown' = IF body[t] = "text" THEN [shown EXCEPT ![m] = @ + 1] ELSE shown
  /\ blank' = IF body[t] = "empty" THEN blank \union {m} ELSE blank
  /\ body' = [body EXCEPT ![t] = "none"]
  /\ pc' = [pc EXCEPT ![t] = "mark"]
  /\ UNCHANGED <<clientVars, msg, secret, serverVars, historyVars>>

\* The processed cache after m: the oldest id leaves when the cache is full.
Remember(m) ==
  LET longer == Append(order, m)
      full   == Len(longer) > CacheMax
  IN IF m \in processed
       THEN UNCHANGED cacheVars
       ELSE /\ order' = IF full THEN Tail(longer) ELSE longer
            /\ processed' = (processed \union {m}) \ (IF full THEN {Head(longer)} ELSE {})

\* mark_message_processed, under the lock again.
MarkProcessed(t) ==
  /\ pc[t] = "mark"
  /\ Remember(msg[t])
  /\ inflight' = inflight \ {msg[t]}
  /\ pc' = [pc EXCEPT ![t] = "idle"]
  /\ body' = [body EXCEPT ![t] = "none"]
  /\ UNCHANGED <<session, mapped, initialized, pending,
                 msg, secret, serverVars, shown, blank, historyVars>>

TaskStep(t) ==
  \/ CheckReady(t) \/ JoinForMessage(t) \/ RecheckReady(t) \/ Resync(t)
  \/ DecryptPlaintext(t) \/ DecryptNothing(t) \/ DecryptDrift(t) \/ DecryptFailed(t)
  \/ Show(t) \/ MarkProcessed(t)

Next ==
  \/ Login \/ LoginConnected \/ LoginRolledBack
  \/ \E c \in Channels : MapChannel(c) \/ ChannelReady(c) \/ ImportBundle(c)
  \/ \E m \in Own : StartSend(m) \/ PostSucceeded(m) \/ PostFailed(m)
  \/ \E m \in Msgs : ServerStores(m)
  \/ \E t \in Tasks, m \in Msgs : Deliver(t, m)
  \/ \E t \in Tasks : TaskStep(t)

Spec == Init /\ [][Next]_vars

\* tokio keeps polling a task that can run, and the join inside it is bounded:
\* six attempts with a capped delay between them.
FairSpec == Spec /\ \A t \in Tasks : WF_vars(TaskStep(t))

-----------------------------------------------------------------------------
(* Properties                                                              *)

TypeOK ==
  /\ session \in {"out", "connecting", "in"}
  /\ mapped \subseteq Channels
  /\ initialized \subseteq Channels
  /\ pending \subseteq Own
  /\ processed \subseteq Msgs
  /\ order \in Seq(Msgs)
  /\ inflight \subseteq Msgs
  /\ pc \in [Tasks -> Points]
  /\ msg \in [Tasks -> Msgs]
  /\ body \in [Tasks -> {"none", "text", "empty"}]
  /\ secret \in [Msgs -> {"held", "used", "pruned"}]
  /\ sent \in [Own -> {"new", "posting", "ok", "failed"}]
  /\ onServer \subseteq Msgs
  /\ shown \in [Msgs -> Nat]
  /\ blank \subseteq Msgs
  /\ imports \in 0..MaxImports
  /\ overtaken \in BOOLEAN
  /\ forgotten \subseteq Own

\* The cache and its eviction queue name the same ids, each once, within the
\* bound: an id in the set alone would never be evicted, one in the queue alone
\* would later evict an id that has been remembered again.
CacheMatchesQueue ==
  /\ processed = {order[i] : i \in 1..Len(order)}
  /\ \A i, j \in 1..Len(order) : order[i] = order[j] => i = j
  /\ Len(order) <= CacheMax

\* Whoever set an inflight mark is still on the way to clear it.  A leaked mark
\* would silence its message until the next login.
InflightHasOwner ==
  \A m \in inflight : \E t \in Tasks : msg[t] = m /\ pc[t] \in Owning

\* As long as no login has overtaken a running delivery, one task at a time is
\* past the gate for a message, whatever paths deliver it.
GateExclusive ==
  ~overtaken =>
    \A t, u \in Tasks :
      t # u /\ pc[t] \in Owning /\ pc[u] \in Owning => msg[t] # msg[u]

\* A text is displayed at most once unless a bundle import has rewound the
\* ratchet: across evictions from the cache, redeliveries and even logins that
\* overtake a delivery, where the gate no longer helps.
TextShownOnce == imports = 0 => \A m \in Msgs : shown[m] <= 1

\* Task t is about to display the text of m.
HoldsText(t, m) == msg[t] = m /\ pc[t] = "show" /\ body[t] = "text"

\* A plaintext that has left the ratchet is not lost: its secret is gone, so a
\* task that dropped it could not be made good by any later delivery.
DecryptedIsShown ==
  \A m \in Msgs \ AttachmentOnly :
    secret[m] = "used" => shown[m] > 0 \/ \E t \in Tasks : HoldsText(t, m)

\* A message the server accepted from us and the client has handled was
\* displayed (or is about to be, by a task a login has overtaken), although the
\* echo may overtake the answer to the POST; only a login in between makes the
\* client forget the text.
OwnEchoShown ==
  \A m \in Own \ AttachmentOnly :
    sent[m] = "ok" /\ m \in processed /\ m \notin forgotten =>
      shown[m] > 0 \/ \E t \in Tasks : HoldsText(t, m)

\* Nothing is displayed again while its id is remembered, even after an import
\* has made it decryptable again.
NoReplayWhileRemembered ==
  [][\A m \in Msgs : shown'[m] > shown[m] => overtaken \/ m \notin processed]_vars

\* No delivery is stuck: every inflight mark is cleared in the end.
InflightReleased == \A m \in Msgs : m \in inflight ~> m \notin inflight

\* The MLS layer says of a reused or pruned secret that it is "safe to skip", and
\* the pipeline that an empty text is emitted for messages sent with an empty
\* text: then no event carries an empty text for a message that has one.
EmptyTextOnlyIfSentEmpty == blank \subseteq AttachmentOnly

\* Without imports the pipeline implements the feed the user is promised.
Feed == INSTANCE MessageFeed
FeedSpec == Feed!Spec
=============================================================================
