----------------------- MODULE InboundPipelineProofs -----------------------
(***************************************************************************)
(* Proofs about InboundPipeline, for any messages, tasks and cache size.   *)
(*                                                                         *)
(* The safety properties rest on one inductive invariant, IInv: besides    *)
(* the properties themselves it says where an owned message may stand       *)
(* (GateInv), which task may hold a text and how often it can have been     *)
(* displayed (TextInv), and that a cached plaintext is the text of a        *)
(* message no task has touched yet (PendingInv).                           *)
(***************************************************************************)
EXTENDS InboundPipeline, TLAPS

\* The points a task reaches only with somebody else's message.
Foreign == {"check", "join", "recheck", "decrypt", "resync"}

\* Owned and remembered messages come from the server, which stores an own
\* message only after its send has started.
OriginInv ==
  /\ \A t \in Tasks : pc[t] \in Owning => msg[t] \in onServer
  /\ \A t \in Tasks : pc[t] \in Foreign => msg[t] \notin Own
  /\ processed \subseteq onServer
  /\ \A m \in Own : m \in onServer => sent[m] # "new"

GateInv ==
  ~overtaken =>
    /\ \A t \in Tasks : pc[t] \in Owning => msg[t] \in inflight /\ msg[t] \notin processed
    /\ \A t, u \in Tasks :
         t # u /\ pc[t] \in Owning /\ pc[u] \in Owning => msg[t] # msg[u]

\* A cached plaintext belongs to a message that is neither owned nor remembered.
PendingInv ==
  \A m \in pending :
    /\ sent[m] # "new"
    /\ m \notin processed
    /\ \A t \in Tasks : pc[t] \in Owning => msg[t] # m

\* The text of m can no longer come out of the ratchet or the plaintext cache.
Consumed(m) ==
  IF m \in Own THEN m \notin pending /\ sent[m] # "new" ELSE secret[m] = "used"

TextInv ==
  imports = 0 =>
    \A m \in Msgs :
      /\ shown[m] <= 1
      /\ shown[m] > 0 => Consumed(m)
      /\ \A t \in Tasks : HoldsText(t, m) => shown[m] = 0 /\ Consumed(m)
      /\ \A t, u \in Tasks : HoldsText(t, m) /\ HoldsText(u, m) => t = u

\* The text of an own message that has not failed is cached, held or displayed.
EchoInv ==
  \A m \in Own \ AttachmentOnly :
    sent[m] \in {"posting", "ok"} /\ m \notin forgotten =>
      m \in pending \/ shown[m] > 0 \/ \E t \in Tasks : HoldsText(t, m)

IInv ==
  /\ TypeOK
  /\ CacheMatchesQueue
  /\ OriginInv
  /\ InflightHasOwner
  /\ GateInv
  /\ PendingInv
  /\ TextInv
  /\ DecryptedIsShown
  /\ EchoInv

USE DEF cacheVars, clientVars, taskVars, historyVars, serverVars

-----------------------------------------------------------------------------
\* Remembering an id keeps the cache and its queue in step, whether or not the
\* oldest id is evicted, and adds nothing but that id.
LEMMA RememberLemma ==
  ASSUME TypeOK, CacheMatchesQueue, NEW m \in Msgs, Remember(m)
  PROVE  /\ order' \in Seq(Msgs)
         /\ processed' \subseteq processed \union {m}
         /\ CacheMatchesQueue'
<1> DEFINE longer == Append(order, m)
           full == Len(longer) > CacheMax
<1>0. /\ order \in Seq(Msgs) /\ Len(order) \in Nat /\ CacheMax \in Nat \ {0}
      /\ processed = {order[i] : i \in 1..Len(order)}
      /\ \A i, j \in 1..Len(order) : order[i] = order[j] => i = j
      /\ Len(order) <= CacheMax
  BY BoundAssumption DEF TypeOK, CacheMatchesQueue
<1>1. CASE m \in processed
  BY <1>1, <1>0 DEF Remember, CacheMatchesQueue
<1>2. CASE m \notin processed
  <2>1. /\ longer \in Seq(Msgs)
        /\ Len(longer) = Len(order) + 1
        /\ \A i \in 1..Len(order) : longer[i] = order[i]
        /\ longer[Len(order) + 1] = m
    BY <1>0
  <2>2. \A i, j \in 1..Len(longer) : longer[i] = longer[j] => i = j
    <3> SUFFICES ASSUME NEW i \in 1..Len(longer), NEW j \in 1..Len(longer),
                        longer[i] = longer[j]
                 PROVE  i = j
      OBVIOUS
    <3>1. \A k \in 1..Len(order) : order[k] # m
      BY <1>0, <1>2
    <3> HIDE DEF longer
    <3> QED
      BY <3>1, <2>1, <1>0
  <2>3. processed \union {m} = {longer[i] : i \in 1..Len(longer)}
    <3> HIDE DEF longer
    <3>1. \A x \in processed \union {m} : \E i \in 1..Len(longer) : longer[i] = x
      <4> TAKE x \in processed \union {m}
      <4>1. CASE x = m
        <5>1. Len(order) + 1 \in 1..Len(longer)
          BY <2>1, <1>0
        <5> QED
          BY <5>1, <4>1, <2>1
      <4>2. CASE x \in processed
        <5>1. PICK i \in 1..Len(order) : order[i] = x
          BY <4>2, <1>0
        <5>2. i \in 1..Len(longer)
          BY <2>1, <1>0
        <5> QED
          BY <5>1, <5>2, <2>1
      <4> QED
        BY <4>1, <4>2
    <3>2. \A i \in 1..Len(longer) : longer[i] \in processed \union {m}
      <4> TAKE i \in 1..Len(longer)
      <4>1. i \in 1..Len(order) \/ i = Len(order) + 1
        BY <2>1, <1>0
      <4> QED
        BY <4>1, <2>1, <1>0
    <3> QED
      BY <3>1, <3>2
  <2>4. CASE ~full
    <3>1. order' = longer /\ processed' = processed \union {m}
      BY <2>4, <1>2 DEF Remember
    <3> QED
      BY <3>1, <2>1, <2>2, <2>3, <2>4, <1>0 DEF CacheMatchesQueue
  <2>5. CASE full
    <3>1. order' = Tail(longer) /\ processed' = (processed \union {m}) \ {Head(longer)}
      BY <2>5, <1>2 DEF Remember
    <3> HIDE DEF longer
    <3>2. longer # <<>> /\ Head(longer) = longer[1]
      BY <2>1, <1>0
    <3>3. /\ Tail(longer) \in Seq(Msgs)
          /\ Len(Tail(longer)) = Len(order)
          /\ \A i \in 1..Len(order) : Tail(longer)[i] = longer[i + 1]
      BY <2>1, <3>2, <1>0
    <3>4. \A i, j \in 1..Len(order') : order'[i] = order'[j] => i = j
      <4> TAKE i, j \in 1..Len(order')
      <4> HAVE order'[i] = order'[j]
      <4>1. longer[i + 1] = longer[j + 1] /\ i + 1 \in 1..Len(longer) /\ j + 1 \in 1..Len(longer)
        BY <3>1, <3>3, <2>1, <1>0
      <4>2. i + 1 = j + 1
        BY <4>1, <2>2
      <4> QED
        BY <4>2, <3>1, <3>3, <1>0
    <3>5. processed' = {order'[i] : i \in 1..Len(order')}
      <4>1. \A x \in processed' : \E i \in 1..Len(order') : order'[i] = x
        <5> TAKE x \in processed'
        <5>1. PICK i \in 1..Len(longer) : longer[i] = x
          BY <3>1, <2>3
        <5>2. i # 1
          BY <5>1, <3>1, <3>2
        <5>3. i - 1 \in 1..Len(order') /\ order'[i - 1] = longer[i]
          BY <5>1, <5>2, <3>1, <3>3, <2>1, <1>0
        <5> QED
          BY <5>1, <5>3
      <4>2. \A i \in 1..Len(order') : order'[i] \in processed'
        <5> TAKE i \in 1..Len(order')
        <5>1. i + 1 \in 1..Len(longer) /\ 1 \in 1..Len(longer) /\ i + 1 # 1
          BY <3>1, <3>3, <2>1, <1>0
        <5>2. longer[i + 1] # longer[1] /\ longer[i + 1] \in processed \union {m}
          BY <5>1, <2>2, <2>3
        <5> QED
          BY <5>2, <3>1, <3>2, <3>3
      <4> QED
        BY <4>1, <4>2
    <3>6. Len(order') <= CacheMax
      BY <3>1, <3>3, <1>0
    <3> QED
      BY <3>1, <3>3, <3>4, <3>5, <3>6 DEF CacheMatchesQueue
  <2> QED
    BY <2>4, <2>5
<1> QED
  BY <1>1, <1>2

\* Every action preserves the types.
LEMMA TypeStep ==
  ASSUME TypeOK, CacheMatchesQueue, [Next]_vars
  PROVE  TypeOK'
<1>1. CASE Login
  BY <1>1, MsgAssumption, BoundAssumption DEF Login, ResetState, TypeOK, Owning, Points, Body
<1>2. CASE LoginConnected
  BY <1>2, MsgAssumption, BoundAssumption DEF LoginConnected, TypeOK, Owning, Points, Body
<1>3. CASE LoginRolledBack
  BY <1>3, MsgAssumption, BoundAssumption DEF LoginRolledBack, ResetState, TypeOK, Owning, Points, Body
<1>4. ASSUME NEW c \in Channels, MapChannel(c) PROVE TypeOK'
  BY <1>4, MsgAssumption, BoundAssumption DEF MapChannel, TypeOK, Owning, Points, Body
<1>5. ASSUME NEW c \in Channels, ChannelReady(c) PROVE TypeOK'
  BY <1>5, MsgAssumption, BoundAssumption DEF ChannelReady, TypeOK, Owning, Points, Body
<1>6. ASSUME NEW c \in Channels, ImportBundle(c) PROVE TypeOK'
  BY <1>6, MsgAssumption, BoundAssumption DEF ImportBundle, TypeOK, Owning, Points, Body
<1>7. ASSUME NEW m \in Own, StartSend(m) PROVE TypeOK'
  BY <1>7, MsgAssumption, BoundAssumption DEF StartSend, TypeOK, Owning, Points, Body
<1>8. ASSUME NEW m \in Own, PostSucceeded(m) PROVE TypeOK'
  BY <1>8, MsgAssumption, BoundAssumption DEF PostSucceeded, TypeOK, Owning, Points, Body
<1>9. ASSUME NEW m \in Own, PostFailed(m) PROVE TypeOK'
  BY <1>9, MsgAssumption, BoundAssumption DEF PostFailed, TypeOK, Owning, Points, Body
<1>10. ASSUME NEW m \in Msgs, ServerStores(m) PROVE TypeOK'
  BY <1>10, MsgAssumption, BoundAssumption DEF ServerStores, TypeOK, Owning, Points, Body
<1>11. ASSUME NEW t \in Tasks, NEW m \in Msgs, Deliver(t, m) PROVE TypeOK'
  BY <1>11, MsgAssumption, BoundAssumption DEF Deliver, TypeOK, Owning, Points, Body
<1>12. ASSUME NEW t \in Tasks, CheckReady(t) PROVE TypeOK'
  BY <1>12, MsgAssumption, BoundAssumption DEF CheckReady, TypeOK, Owning, Points, Body
<1>13. ASSUME NEW t \in Tasks, JoinForMessage(t) PROVE TypeOK'
  BY <1>13, MsgAssumption, BoundAssumption DEF JoinForMessage, JoinAttempt, TypeOK, Owning, Points, Body
<1>14. ASSUME NEW t \in Tasks, RecheckReady(t) PROVE TypeOK'
  BY <1>14, MsgAssumption, BoundAssumption DEF RecheckReady, TypeOK, Owning, Points, Body
<1>15. ASSUME NEW t \in Tasks, Resync(t) PROVE TypeOK'
  BY <1>15, MsgAssumption, BoundAssumption DEF Resync, JoinAttempt, TypeOK, Owning, Points, Body
<1>16. ASSUME NEW t \in Tasks, DecryptPlaintext(t) PROVE TypeOK'
  BY <1>16, MsgAssumption, BoundAssumption DEF DecryptPlaintext, TypeOK, Owning, Points, Body
<1>17. ASSUME NEW t \in Tasks, DecryptNothing(t) PROVE TypeOK'
  BY <1>17, MsgAssumption, BoundAssumption DEF DecryptNothing, TypeOK, Owning, Points, Body
<1>18. ASSUME NEW t \in Tasks, DecryptDrift(t) PROVE TypeOK'
  BY <1>18, MsgAssumption, BoundAssumption DEF DecryptDrift, TypeOK, Owning, Points, Body
<1>19. ASSUME NEW t \in Tasks, DecryptFailed(t) PROVE TypeOK'
  BY <1>19, MsgAssumption, BoundAssumption DEF DecryptFailed, TypeOK, Owning, Points, Body
<1>20. ASSUME NEW t \in Tasks, Show(t) PROVE TypeOK'
  BY <1>20, MsgAssumption, BoundAssumption DEF Show, TypeOK, Owning, Points, Body
<1>21. ASSUME NEW t \in Tasks, MarkProcessed(t) PROVE TypeOK'
  <2>1. order' \in Seq(Msgs) /\ processed' \subseteq Msgs
    BY <1>21, RememberLemma DEF MarkProcessed, TypeOK
  <2> QED
    BY <1>21, <2>1 DEF MarkProcessed, TypeOK, Points, Owning
<1>22. CASE UNCHANGED vars
  BY <1>22 DEF vars, TypeOK, Owning, Points, Body
<1> QED
  BY <1>1, <1>2, <1>3, <1>4, <1>5, <1>6, <1>7, <1>8, <1>9, <1>10, <1>11, <1>12, <1>13, <1>14, <1>15, <1>16, <1>17, <1>18, <1>19, <1>20, <1>21, <1>22 DEF Next, TaskStep

\* The cache and its queue change together.
LEMMA CacheStep ==
  ASSUME TypeOK, CacheMatchesQueue, [Next]_vars
  PROVE  CacheMatchesQueue'
<1>1. CASE Login
  <2>1. processed' = {} /\ order' = <<>>
    BY <1>1 DEF Login, ResetState
  <2> QED
    BY <2>1, BoundAssumption DEF CacheMatchesQueue
<1>2. CASE LoginConnected
  BY <1>2 DEF LoginConnected, CacheMatchesQueue
<1>3. CASE LoginRolledBack
  <2>1. processed' = {} /\ order' = <<>>
    BY <1>3 DEF LoginRolledBack, ResetState
  <2> QED
    BY <2>1, BoundAssumption DEF CacheMatchesQueue
<1>4. ASSUME NEW c \in Channels, MapChannel(c) PROVE CacheMatchesQueue'
  BY <1>4 DEF MapChannel, CacheMatchesQueue
<1>5. ASSUME NEW c \in Channels, ChannelReady(c) PROVE CacheMatchesQueue'
  BY <1>5 DEF ChannelReady, CacheMatchesQueue
<1>6. ASSUME NEW c \in Channels, ImportBundle(c) PROVE CacheMatchesQueue'
  BY <1>6 DEF ImportBundle, CacheMatchesQueue
<1>7. ASSUME NEW m \in Own, StartSend(m) PROVE CacheMatchesQueue'
  BY <1>7 DEF StartSend, CacheMatchesQueue
<1>8. ASSUME NEW m \in Own, PostSucceeded(m) PROVE CacheMatchesQueue'
  BY <1>8 DEF PostSucceeded, CacheMatchesQueue
<1>9. ASSUME NEW m \in Own, PostFailed(m) PROVE CacheMatchesQueue'
  BY <1>9 DEF PostFailed, CacheMatchesQueue
<1>10. ASSUME NEW m \in Msgs, ServerStores(m) PROVE CacheMatchesQueue'
  BY <1>10 DEF ServerStores, CacheMatchesQueue
<1>11. ASSUME NEW t \in Tasks, NEW m \in Msgs, Deliver(t, m) PROVE CacheMatchesQueue'
  BY <1>11 DEF Deliver, CacheMatchesQueue
<1>12. ASSUME NEW t \in Tasks, CheckReady(t) PROVE CacheMatchesQueue'
  BY <1>12 DEF CheckReady, CacheMatchesQueue
<1>13. ASSUME NEW t \in Tasks, JoinForMessage(t) PROVE CacheMatchesQueue'
  BY <1>13 DEF JoinForMessage, JoinAttempt, CacheMatchesQueue
<1>14. ASSUME NEW t \in Tasks, RecheckReady(t) PROVE CacheMatchesQueue'
  BY <1>14 DEF RecheckReady, CacheMatchesQueue
<1>15. ASSUME NEW t \in Tasks, Resync(t) PROVE CacheMatchesQueue'
  BY <1>15 DEF Resync, JoinAttempt, CacheMatchesQueue
<1>16. ASSUME NEW t \in Tasks, DecryptPlaintext(t) PROVE CacheMatchesQueue'
  BY <1>16 DEF DecryptPlaintext, CacheMatchesQueue
<1>17. ASSUME NEW t \in Tasks, DecryptNothing(t) PROVE CacheMatchesQueue'
  BY <1>17 DEF DecryptNothing, CacheMatchesQueue
<1>18. ASSUME NEW t \in Tasks, DecryptDrift(t) PROVE CacheMatchesQueue'
  BY <1>18 DEF DecryptDrift, CacheMatchesQueue
<1>19. ASSUME NEW t \in Tasks, DecryptFailed(t) PROVE CacheMatchesQueue'
  BY <1>19 DEF DecryptFailed, CacheMatchesQueue
<1>20. ASSUME NEW t \in Tasks, Show(t) PROVE CacheMatchesQueue'
  BY <1>20 DEF Show, CacheMatchesQueue
<1>21. ASSUME NEW t \in Tasks, MarkProcessed(t) PROVE CacheMatchesQueue'
  BY <1>21, RememberLemma DEF MarkProcessed, TypeOK
<1>22. CASE UNCHANGED vars
  BY <1>22 DEF vars, CacheMatchesQueue
<1> QED
  BY <1>1, <1>2, <1>3, <1>4, <1>5, <1>6, <1>7, <1>8, <1>9, <1>10, <1>11, <1>12, <1>13, <1>14, <1>15, <1>16, <1>17, <1>18, <1>19, <1>20, <1>21, <1>22 DEF Next, TaskStep

\* Tasks and the cache only know messages the server holds.
LEMMA OriginStep ==
  ASSUME TypeOK, CacheMatchesQueue, OriginInv, [Next]_vars
  PROVE  OriginInv'
<1>1. CASE Login
  BY <1>1 DEF Login, ResetState, TypeOK, OriginInv, Owning, Points, Foreign
<1>2. CASE LoginConnected
  BY <1>2 DEF LoginConnected, TypeOK, OriginInv, Owning, Points, Foreign
<1>3. CASE LoginRolledBack
  BY <1>3 DEF LoginRolledBack, ResetState, TypeOK, OriginInv, Owning, Points, Foreign
<1>4. ASSUME NEW c \in Channels, MapChannel(c) PROVE OriginInv'
  BY <1>4 DEF MapChannel, TypeOK, OriginInv, Owning, Points, Foreign
<1>5. ASSUME NEW c \in Channels, ChannelReady(c) PROVE OriginInv'
  BY <1>5 DEF ChannelReady, TypeOK, OriginInv, Owning, Points, Foreign
<1>6. ASSUME NEW c \in Channels, ImportBundle(c) PROVE OriginInv'
  BY <1>6 DEF ImportBundle, TypeOK, OriginInv, Owning, Points, Foreign
<1>7. ASSUME NEW m \in Own, StartSend(m) PROVE OriginInv'
  BY <1>7 DEF StartSend, TypeOK, OriginInv, Owning, Points, Foreign
<1>8. ASSUME NEW m \in Own, PostSucceeded(m) PROVE OriginInv'
  BY <1>8 DEF PostSucceeded, TypeOK, OriginInv, Owning, Points, Foreign
<1>9. ASSUME NEW m \in Own, PostFailed(m) PROVE OriginInv'
  BY <1>9 DEF PostFailed, TypeOK, OriginInv, Owning, Points, Foreign
<1>10. ASSUME NEW m \in Msgs, ServerStores(m) PROVE OriginInv'
  BY <1>10 DEF ServerStores, TypeOK, OriginInv, Owning, Points, Foreign
<1>11. ASSUME NEW t \in Tasks, NEW m \in Msgs, Deliver(t, m) PROVE OriginInv'
  BY <1>11 DEF Deliver, TypeOK, OriginInv, Owning, Points, Foreign
<1>12. ASSUME NEW t \in Tasks, CheckReady(t) PROVE OriginInv'
  BY <1>12 DEF CheckReady, TypeOK, OriginInv, Owning, Points, Foreign
<1>13. ASSUME NEW t \in Tasks, JoinForMessage(t) PROVE OriginInv'
  BY <1>13 DEF JoinForMessage, JoinAttempt, TypeOK, OriginInv, Owning, Points, Foreign
<1>14. ASSUME NEW t \in Tasks, RecheckReady(t) PROVE OriginInv'
  BY <1>14 DEF RecheckReady, TypeOK, OriginInv, Owning, Points, Foreign
<1>15. ASSUME NEW t \in Tasks, Resync(t) PROVE OriginInv'
  BY <1>15 DEF Resync, JoinAttempt, TypeOK, OriginInv, Owning, Points, Foreign
<1>16. ASSUME NEW t \in Tasks, DecryptPlaintext(t) PROVE OriginInv'
  BY <1>16 DEF DecryptPlaintext, TypeOK, OriginInv, Owning, Points, Foreign
<1>17. ASSUME NEW t \in Tasks, DecryptNothing(t) PROVE OriginInv'
  BY <1>17 DEF DecryptNothing, TypeOK, OriginInv, Owning, Points, Foreign
<1>18. ASSUME NEW t \in Tasks, DecryptDrift(t) PROVE OriginInv'
  BY <1>18 DEF DecryptDrift, TypeOK, OriginInv, Owning, Points, Foreign
<1>19. ASSUME NEW t \in Tasks, DecryptFailed(t) PROVE OriginInv'
  BY <1>19 DEF DecryptFailed, TypeOK, OriginInv, Owning, Points, Foreign
<1>20. ASSUME NEW t \in Tasks, Show(t) PROVE OriginInv'
  BY <1>20 DEF Show, TypeOK, OriginInv, Owning, Points, Foreign
<1>21. ASSUME NEW t \in Tasks, MarkProcessed(t) PROVE OriginInv'
  <2>1. processed' \subseteq processed \union {msg[t]} /\ msg[t] \in onServer
    BY <1>21, RememberLemma DEF MarkProcessed, TypeOK, OriginInv, Owning
  <2> QED
    BY <1>21, <2>1 DEF MarkProcessed, TypeOK, OriginInv, Owning, Points, Foreign
<1>22. CASE UNCHANGED vars
  BY <1>22 DEF vars, TypeOK, OriginInv, Owning, Points, Foreign
<1> QED
  BY <1>1, <1>2, <1>3, <1>4, <1>5, <1>6, <1>7, <1>8, <1>9, <1>10, <1>11, <1>12, <1>13, <1>14, <1>15, <1>16, <1>17, <1>18, <1>19, <1>20, <1>21, <1>22 DEF Next, TaskStep

\* No action drops an inflight mark without clearing it.
LEMMA OwnerStep ==
  ASSUME TypeOK, InflightHasOwner, [Next]_vars
  PROVE  InflightHasOwner'
<1>1. CASE Login
  BY <1>1 DEF Login, ResetState, TypeOK, InflightHasOwner, Owning, Points
<1>2. CASE LoginConnected
  BY <1>2 DEF LoginConnected, TypeOK, InflightHasOwner, Owning, Points
<1>3. CASE LoginRolledBack
  BY <1>3 DEF LoginRolledBack, ResetState, TypeOK, InflightHasOwner, Owning, Points
<1>4. ASSUME NEW c \in Channels, MapChannel(c) PROVE InflightHasOwner'
  BY <1>4 DEF MapChannel, TypeOK, InflightHasOwner, Owning, Points
<1>5. ASSUME NEW c \in Channels, ChannelReady(c) PROVE InflightHasOwner'
  BY <1>5 DEF ChannelReady, TypeOK, InflightHasOwner, Owning, Points
<1>6. ASSUME NEW c \in Channels, ImportBundle(c) PROVE InflightHasOwner'
  BY <1>6 DEF ImportBundle, TypeOK, InflightHasOwner, Owning, Points
<1>7. ASSUME NEW m \in Own, StartSend(m) PROVE InflightHasOwner'
  BY <1>7 DEF StartSend, TypeOK, InflightHasOwner, Owning, Points
<1>8. ASSUME NEW m \in Own, PostSucceeded(m) PROVE InflightHasOwner'
  BY <1>8 DEF PostSucceeded, TypeOK, InflightHasOwner, Owning, Points
<1>9. ASSUME NEW m \in Own, PostFailed(m) PROVE InflightHasOwner'
  BY <1>9 DEF PostFailed, TypeOK, InflightHasOwner, Owning, Points
<1>10. ASSUME NEW m \in Msgs, ServerStores(m) PROVE InflightHasOwner'
  BY <1>10 DEF ServerStores, TypeOK, InflightHasOwner, Owning, Points
<1>11. ASSUME NEW t \in Tasks, NEW m \in Msgs, Deliver(t, m) PROVE InflightHasOwner'
  <2>1. /\ pc' = [pc EXCEPT ![t] = pc'[t]] /\ msg' = [msg EXCEPT ![t] = m]
        /\ pc[t] = "idle" /\ pc'[t] \in Owning /\ inflight' = inflight \union {m}
    BY <1>11 DEF Deliver, TypeOK, Owning
  <2>2. SUFFICES ASSUME NEW n \in inflight' PROVE \E u \in Tasks : msg'[u] = n /\ pc'[u] \in Owning
    BY DEF InflightHasOwner
  <2>3. CASE n = m
    BY <2>1, <2>3 DEF TypeOK
  <2>4. CASE n # m
    <3>1. PICK u \in Tasks : msg[u] = n /\ pc[u] \in Owning
      BY <2>1, <2>4 DEF InflightHasOwner
    <3>2. u # t
      BY <3>1, <2>1 DEF Owning
    <3> QED
      BY <3>1, <3>2, <2>1 DEF TypeOK
  <2> QED
    BY <2>3, <2>4
<1>12. ASSUME NEW t \in Tasks, CheckReady(t) PROVE InflightHasOwner'
  BY <1>12 DEF CheckReady, TypeOK, InflightHasOwner, Owning, Points
<1>13. ASSUME NEW t \in Tasks, JoinForMessage(t) PROVE InflightHasOwner'
  BY <1>13 DEF JoinForMessage, JoinAttempt, TypeOK, InflightHasOwner, Owning, Points
<1>14. ASSUME NEW t \in Tasks, RecheckReady(t) PROVE InflightHasOwner'
  BY <1>14 DEF RecheckReady, TypeOK, InflightHasOwner, Owning, Points
<1>15. ASSUME NEW t \in Tasks, Resync(t) PROVE InflightHasOwner'
  BY ZenonT(60), <1>15 DEF Resync, JoinAttempt, TypeOK, InflightHasOwner, Owning, Points
<1>16. ASSUME NEW t \in Tasks, DecryptPlaintext(t) PROVE InflightHasOwner'
  BY <1>16 DEF DecryptPlaintext, TypeOK, InflightHasOwner, Owning, Points
<1>17. ASSUME NEW t \in Tasks, DecryptNothing(t) PROVE InflightHasOwner'
  BY <1>17 DEF DecryptNothing, TypeOK, InflightHasOwner, Owning, Points
<1>18. ASSUME NEW t \in Tasks, DecryptDrift(t) PROVE InflightHasOwner'
  BY <1>18 DEF DecryptDrift, TypeOK, InflightHasOwner, Owning, Points
<1>19. ASSUME NEW t \in Tasks, DecryptFailed(t) PROVE InflightHasOwner'
  BY <1>19 DEF DecryptFailed, TypeOK, InflightHasOwner, Owning, Points
<1>20. ASSUME NEW t \in Tasks, Show(t) PROVE InflightHasOwner'
  BY <1>20 DEF Show, TypeOK, InflightHasOwner, Owning, Points
<1>21. ASSUME NEW t \in Tasks, MarkProcessed(t) PROVE InflightHasOwner'
  BY <1>21 DEF MarkProcessed, Remember, TypeOK, InflightHasOwner, Owning, Points
<1>22. CASE UNCHANGED vars
  BY <1>22 DEF vars, TypeOK, InflightHasOwner, Owning, Points
<1> QED
  BY <1>1, <1>2, <1>3, <1>4, <1>5, <1>6, <1>7, <1>8, <1>9, <1>10, <1>11, <1>12, <1>13, <1>14, <1>15, <1>16, <1>17, <1>18, <1>19, <1>20, <1>21, <1>22 DEF Next, TaskStep

\* The gate admits one task per message until a login overtakes it.
LEMMA GateStep ==
  ASSUME TypeOK, CacheMatchesQueue, GateInv, [Next]_vars
  PROVE  GateInv'
<1>1. CASE Login
  BY <1>1 DEF Login, ResetState, TypeOK, GateInv, Owning, Points
<1>2. CASE LoginConnected
  BY <1>2 DEF LoginConnected, TypeOK, GateInv, Owning, Points
<1>3. CASE LoginRolledBack
  BY <1>3 DEF LoginRolledBack, ResetState, TypeOK, GateInv, Owning, Points
<1>4. ASSUME NEW c \in Channels, MapChannel(c) PROVE GateInv'
  BY <1>4 DEF MapChannel, TypeOK, GateInv, Owning, Points
<1>5. ASSUME NEW c \in Channels, ChannelReady(c) PROVE GateInv'
  BY <1>5 DEF ChannelReady, TypeOK, GateInv, Owning, Points
<1>6. ASSUME NEW c \in Channels, ImportBundle(c) PROVE GateInv'
  BY <1>6 DEF ImportBundle, TypeOK, GateInv, Owning, Points
<1>7. ASSUME NEW m \in Own, StartSend(m) PROVE GateInv'
  BY <1>7 DEF StartSend, TypeOK, GateInv, Owning, Points
<1>8. ASSUME NEW m \in Own, PostSucceeded(m) PROVE GateInv'
  BY <1>8 DEF PostSucceeded, TypeOK, GateInv, Owning, Points
<1>9. ASSUME NEW m \in Own, PostFailed(m) PROVE GateInv'
  BY <1>9 DEF PostFailed, TypeOK, GateInv, Owning, Points
<1>10. ASSUME NEW m \in Msgs, ServerStores(m) PROVE GateInv'
  BY <1>10 DEF ServerStores, TypeOK, GateInv, Owning, Points
<1>11. ASSUME NEW t \in Tasks, NEW m \in Msgs, Deliver(t, m) PROVE GateInv'
  BY <1>11 DEF Deliver, TypeOK, GateInv, Owning, Points
<1>12. ASSUME NEW t \in Tasks, CheckReady(t) PROVE GateInv'
  BY <1>12 DEF CheckReady, TypeOK, GateInv, Owning, Points
<1>13. ASSUME NEW t \in Tasks, JoinForMessage(t) PROVE GateInv'
  BY <1>13 DEF JoinForMessage, JoinAttempt, TypeOK, GateInv, Owning, Points
<1>14. ASSUME NEW t \in Tasks, RecheckReady(t) PROVE GateInv'
  <2>1. CASE ChannelOf[msg[t]] \in initialized
    BY <1>14, <2>1 DEF RecheckReady, TypeOK, GateInv, Owning, Points
  <2>2. CASE ChannelOf[msg[t]] \notin initialized
    BY <1>14, <2>2 DEF RecheckReady, TypeOK, GateInv, Owning, Points
  <2> QED
    BY <2>1, <2>2
<1>15. ASSUME NEW t \in Tasks, Resync(t) PROVE GateInv'
  BY <1>15 DEF Resync, JoinAttempt, TypeOK, GateInv, Owning, Points
<1>16. ASSUME NEW t \in Tasks, DecryptPlaintext(t) PROVE GateInv'
  BY <1>16 DEF DecryptPlaintext, TypeOK, GateInv, Owning, Points
<1>17. ASSUME NEW t \in Tasks, DecryptNothing(t) PROVE GateInv'
  BY <1>17 DEF DecryptNothing, TypeOK, GateInv, Owning, Points
<1>18. ASSUME NEW t \in Tasks, DecryptDrift(t) PROVE GateInv'
  BY <1>18 DEF DecryptDrift, TypeOK, GateInv, Owning, Points
<1>19. ASSUME NEW t \in Tasks, DecryptFailed(t) PROVE GateInv'
  BY <1>19 DEF DecryptFailed, TypeOK, GateInv, Owning, Points
<1>20. ASSUME NEW t \in Tasks, Show(t) PROVE GateInv'
  BY <1>20 DEF Show, TypeOK, GateInv, Owning, Points
<1>21. ASSUME NEW t \in Tasks, MarkProcessed(t) PROVE GateInv'
  <2>1. processed' \subseteq processed \union {msg[t]}
    BY <1>21, RememberLemma DEF MarkProcessed, TypeOK
  <2> QED
    BY <1>21, <2>1 DEF MarkProcessed, TypeOK, GateInv, Owning, Points
<1>22. CASE UNCHANGED vars
  BY <1>22 DEF vars, TypeOK, GateInv, Owning, Points
<1> QED
  BY <1>1, <1>2, <1>3, <1>4, <1>5, <1>6, <1>7, <1>8, <1>9, <1>10, <1>11, <1>12, <1>13, <1>14, <1>15, <1>16, <1>17, <1>18, <1>19, <1>20, <1>21, <1>22 DEF Next, TaskStep

\* A cached plaintext is taken by the first task that is handed its message.
LEMMA PendingStep ==
  ASSUME TypeOK, CacheMatchesQueue, OriginInv, PendingInv, [Next]_vars
  PROVE  PendingInv'
<1>1. CASE Login
  BY <1>1, MsgAssumption DEF Login, ResetState, TypeOK, OriginInv, PendingInv, Owning, Points
<1>2. CASE LoginConnected
  BY <1>2, MsgAssumption DEF LoginConnected, TypeOK, OriginInv, PendingInv, Owning, Points
<1>3. CASE LoginRolledBack
  BY <1>3, MsgAssumption DEF LoginRolledBack, ResetState, TypeOK, OriginInv, PendingInv, Owning, Points
<1>4. ASSUME NEW c \in Channels, MapChannel(c) PROVE PendingInv'
  BY <1>4, MsgAssumption DEF MapChannel, TypeOK, OriginInv, PendingInv, Owning, Points
<1>5. ASSUME NEW c \in Channels, ChannelReady(c) PROVE PendingInv'
  BY <1>5, MsgAssumption DEF ChannelReady, TypeOK, OriginInv, PendingInv, Owning, Points
<1>6. ASSUME NEW c \in Channels, ImportBundle(c) PROVE PendingInv'
  BY <1>6, MsgAssumption DEF ImportBundle, TypeOK, OriginInv, PendingInv, Owning, Points
<1>7. ASSUME NEW m \in Own, StartSend(m) PROVE PendingInv'
  BY <1>7, MsgAssumption DEF StartSend, TypeOK, OriginInv, PendingInv, Owning, Points
<1>8. ASSUME NEW m \in Own, PostSucceeded(m) PROVE PendingInv'
  BY <1>8, MsgAssumption DEF PostSucceeded, TypeOK, OriginInv, PendingInv, Owning, Points
<1>9. ASSUME NEW m \in Own, PostFailed(m) PROVE PendingInv'
  BY <1>9, MsgAssumption DEF PostFailed, TypeOK, OriginInv, PendingInv, Owning, Points
<1>10. ASSUME NEW m \in Msgs, ServerStores(m) PROVE PendingInv'
  BY <1>10, MsgAssumption DEF ServerStores, TypeOK, OriginInv, PendingInv, Owning, Points
<1>11. ASSUME NEW t \in Tasks, NEW m \in Msgs, Deliver(t, m) PROVE PendingInv'
  BY <1>11, MsgAssumption DEF Deliver, TypeOK, OriginInv, PendingInv, Owning, Points
<1>12. ASSUME NEW t \in Tasks, CheckReady(t) PROVE PendingInv'
  BY <1>12, MsgAssumption DEF CheckReady, TypeOK, OriginInv, PendingInv, Owning, Points
<1>13. ASSUME NEW t \in Tasks, JoinForMessage(t) PROVE PendingInv'
  BY <1>13, MsgAssumption DEF JoinForMessage, JoinAttempt, TypeOK, OriginInv, PendingInv, Owning, Points
<1>14. ASSUME NEW t \in Tasks, RecheckReady(t) PROVE PendingInv'
  BY <1>14, MsgAssumption DEF RecheckReady, TypeOK, OriginInv, PendingInv, Owning, Points
<1>15. ASSUME NEW t \in Tasks, Resync(t) PROVE PendingInv'
  BY <1>15, MsgAssumption DEF Resync, JoinAttempt, TypeOK, OriginInv, PendingInv, Owning, Points
<1>16. ASSUME NEW t \in Tasks, DecryptPlaintext(t) PROVE PendingInv'
  BY <1>16, MsgAssumption DEF DecryptPlaintext, TypeOK, OriginInv, PendingInv, Owning, Points
<1>17. ASSUME NEW t \in Tasks, DecryptNothing(t) PROVE PendingInv'
  BY <1>17, MsgAssumption DEF DecryptNothing, TypeOK, OriginInv, PendingInv, Owning, Points
<1>18. ASSUME NEW t \in Tasks, DecryptDrift(t) PROVE PendingInv'
  BY <1>18, MsgAssumption DEF DecryptDrift, TypeOK, OriginInv, PendingInv, Owning, Points
<1>19. ASSUME NEW t \in Tasks, DecryptFailed(t) PROVE PendingInv'
  BY <1>19, MsgAssumption DEF DecryptFailed, TypeOK, OriginInv, PendingInv, Owning, Points
<1>20. ASSUME NEW t \in Tasks, Show(t) PROVE PendingInv'
  BY <1>20, MsgAssumption DEF Show, TypeOK, OriginInv, PendingInv, Owning, Points
<1>21. ASSUME NEW t \in Tasks, MarkProcessed(t) PROVE PendingInv'
  <2>1. processed' \subseteq processed \union {msg[t]}
    BY <1>21, RememberLemma DEF MarkProcessed, TypeOK
  <2> QED
    BY <1>21, <2>1 DEF MarkProcessed, TypeOK, PendingInv, Owning, Points
<1>22. CASE UNCHANGED vars
  BY <1>22 DEF vars, TypeOK, OriginInv, PendingInv, Owning, Points
<1> QED
  BY <1>1, <1>2, <1>3, <1>4, <1>5, <1>6, <1>7, <1>8, <1>9, <1>10, <1>11, <1>12, <1>13, <1>14, <1>15, <1>16, <1>17, <1>18, <1>19, <1>20, <1>21, <1>22 DEF Next, TaskStep

\* A text leaves the ratchet or the plaintext cache once.
LEMMA TextStep ==
  ASSUME TypeOK, OriginInv, PendingInv, TextInv, [Next]_vars
  PROVE  TextInv'
<1>1. CASE Login
  BY <1>1, MsgAssumption DEF Login, ResetState, TypeOK, OriginInv, PendingInv, TextInv, Consumed, HoldsText, Owning, Foreign, Points, Body
<1>2. CASE LoginConnected
  BY <1>2, MsgAssumption DEF LoginConnected, TypeOK, OriginInv, PendingInv, TextInv, Consumed, HoldsText, Owning, Foreign, Points, Body
<1>3. CASE LoginRolledBack
  BY <1>3, MsgAssumption DEF LoginRolledBack, ResetState, TypeOK, OriginInv, PendingInv, TextInv, Consumed, HoldsText, Owning, Foreign, Points, Body
<1>4. ASSUME NEW c \in Channels, MapChannel(c) PROVE TextInv'
  BY <1>4, MsgAssumption DEF MapChannel, TypeOK, OriginInv, PendingInv, TextInv, Consumed, HoldsText, Owning, Foreign, Points, Body
<1>5. ASSUME NEW c \in Channels, ChannelReady(c) PROVE TextInv'
  BY <1>5, MsgAssumption DEF ChannelReady, TypeOK, OriginInv, PendingInv, TextInv, Consumed, HoldsText, Owning, Foreign, Points, Body
<1>6. ASSUME NEW c \in Channels, ImportBundle(c) PROVE TextInv'
  BY <1>6, MsgAssumption DEF ImportBundle, TypeOK, OriginInv, PendingInv, TextInv, Consumed, HoldsText, Owning, Foreign, Points, Body
<1>7. ASSUME NEW m \in Own, StartSend(m) PROVE TextInv'
  BY <1>7, MsgAssumption DEF StartSend, TypeOK, OriginInv, PendingInv, TextInv, Consumed, HoldsText, Owning, Foreign, Points, Body
<1>8. ASSUME NEW m \in Own, PostSucceeded(m) PROVE TextInv'
  BY <1>8, MsgAssumption DEF PostSucceeded, TypeOK, OriginInv, PendingInv, TextInv, Consumed, HoldsText, Owning, Foreign, Points, Body
<1>9. ASSUME NEW m \in Own, PostFailed(m) PROVE TextInv'
  BY <1>9, MsgAssumption DEF PostFailed, TypeOK, OriginInv, PendingInv, TextInv, Consumed, HoldsText, Owning, Foreign, Points, Body
<1>10. ASSUME NEW m \in Msgs, ServerStores(m) PROVE TextInv'
  BY <1>10, MsgAssumption DEF ServerStores, TypeOK, OriginInv, PendingInv, TextInv, Consumed, HoldsText, Owning, Foreign, Points, Body
<1>11. ASSUME NEW t \in Tasks, NEW m \in Msgs, Deliver(t, m) PROVE TextInv'
  BY <1>11, MsgAssumption DEF Deliver, TypeOK, OriginInv, PendingInv, TextInv, Consumed, HoldsText, Owning, Foreign, Points, Body
<1>12. ASSUME NEW t \in Tasks, CheckReady(t) PROVE TextInv'
  BY <1>12, MsgAssumption DEF CheckReady, TypeOK, OriginInv, PendingInv, TextInv, Consumed, HoldsText, Owning, Foreign, Points, Body
<1>13. ASSUME NEW t \in Tasks, JoinForMessage(t) PROVE TextInv'
  BY <1>13, MsgAssumption DEF JoinForMessage, JoinAttempt, TypeOK, OriginInv, PendingInv, TextInv, Consumed, HoldsText, Owning, Foreign, Points, Body
<1>14. ASSUME NEW t \in Tasks, RecheckReady(t) PROVE TextInv'
  BY <1>14, MsgAssumption DEF RecheckReady, TypeOK, OriginInv, PendingInv, TextInv, Consumed, HoldsText, Owning, Foreign, Points, Body
<1>15. ASSUME NEW t \in Tasks, Resync(t) PROVE TextInv'
  BY <1>15, MsgAssumption DEF Resync, JoinAttempt, TypeOK, OriginInv, PendingInv, TextInv, Consumed, HoldsText, Owning, Foreign, Points, Body
<1>16. ASSUME NEW t \in Tasks, DecryptPlaintext(t) PROVE TextInv'
  BY <1>16, MsgAssumption DEF DecryptPlaintext, TypeOK, OriginInv, PendingInv, TextInv, Consumed, HoldsText, Owning, Foreign, Points, Body
<1>17. ASSUME NEW t \in Tasks, DecryptNothing(t) PROVE TextInv'
  BY <1>17, MsgAssumption DEF DecryptNothing, TypeOK, OriginInv, PendingInv, TextInv, Consumed, HoldsText, Owning, Foreign, Points, Body
<1>18. ASSUME NEW t \in Tasks, DecryptDrift(t) PROVE TextInv'
  BY <1>18, MsgAssumption DEF DecryptDrift, TypeOK, OriginInv, PendingInv, TextInv, Consumed, HoldsText, Owning, Foreign, Points, Body
<1>19. ASSUME NEW t \in Tasks, DecryptFailed(t) PROVE TextInv'
  BY <1>19, MsgAssumption DEF DecryptFailed, TypeOK, OriginInv, PendingInv, TextInv, Consumed, HoldsText, Owning, Foreign, Points, Body
<1>20. ASSUME NEW t \in Tasks, Show(t) PROVE TextInv'
  BY <1>20, MsgAssumption DEF Show, TypeOK, OriginInv, PendingInv, TextInv, Consumed, HoldsText, Owning, Foreign, Points, Body
<1>21. ASSUME NEW t \in Tasks, MarkProcessed(t) PROVE TextInv'
  BY <1>21, MsgAssumption DEF MarkProcessed, Remember, TypeOK, OriginInv, PendingInv, TextInv, Consumed, HoldsText, Owning, Foreign, Points, Body
<1>22. CASE UNCHANGED vars
  BY <1>22 DEF vars, TypeOK, OriginInv, PendingInv, TextInv, Consumed, HoldsText, Owning, Foreign, Points, Body
<1> QED
  BY <1>1, <1>2, <1>3, <1>4, <1>5, <1>6, <1>7, <1>8, <1>9, <1>10, <1>11, <1>12, <1>13, <1>14, <1>15, <1>16, <1>17, <1>18, <1>19, <1>20, <1>21, <1>22 DEF Next, TaskStep

\* A plaintext taken from the ratchet is held until it is displayed.
LEMMA ShownStep ==
  ASSUME TypeOK, DecryptedIsShown, [Next]_vars
  PROVE  DecryptedIsShown'
<1>1. CASE Login
  BY <1>1 DEF Login, ResetState, TypeOK, DecryptedIsShown, HoldsText, Points, Owning, Body
<1>2. CASE LoginConnected
  BY <1>2 DEF LoginConnected, TypeOK, DecryptedIsShown, HoldsText, Points, Owning, Body
<1>3. CASE LoginRolledBack
  BY <1>3 DEF LoginRolledBack, ResetState, TypeOK, DecryptedIsShown, HoldsText, Points, Owning, Body
<1>4. ASSUME NEW c \in Channels, MapChannel(c) PROVE DecryptedIsShown'
  BY <1>4 DEF MapChannel, TypeOK, DecryptedIsShown, HoldsText, Points, Owning, Body
<1>5. ASSUME NEW c \in Channels, ChannelReady(c) PROVE DecryptedIsShown'
  BY <1>5 DEF ChannelReady, TypeOK, DecryptedIsShown, HoldsText, Points, Owning, Body
<1>6. ASSUME NEW c \in Channels, ImportBundle(c) PROVE DecryptedIsShown'
  BY <1>6 DEF ImportBundle, TypeOK, DecryptedIsShown, HoldsText, Points, Owning, Body
<1>7. ASSUME NEW m \in Own, StartSend(m) PROVE DecryptedIsShown'
  BY <1>7 DEF StartSend, TypeOK, DecryptedIsShown, HoldsText, Points, Owning, Body
<1>8. ASSUME NEW m \in Own, PostSucceeded(m) PROVE DecryptedIsShown'
  BY <1>8 DEF PostSucceeded, TypeOK, DecryptedIsShown, HoldsText, Points, Owning, Body
<1>9. ASSUME NEW m \in Own, PostFailed(m) PROVE DecryptedIsShown'
  BY <1>9 DEF PostFailed, TypeOK, DecryptedIsShown, HoldsText, Points, Owning, Body
<1>10. ASSUME NEW m \in Msgs, ServerStores(m) PROVE DecryptedIsShown'
  BY <1>10 DEF ServerStores, TypeOK, DecryptedIsShown, HoldsText, Points, Owning, Body
<1>11. ASSUME NEW t \in Tasks, NEW m \in Msgs, Deliver(t, m) PROVE DecryptedIsShown'
  BY <1>11 DEF Deliver, TypeOK, DecryptedIsShown, HoldsText, Points, Owning, Body
<1>12. ASSUME NEW t \in Tasks, CheckReady(t) PROVE DecryptedIsShown'
  BY <1>12 DEF CheckReady, TypeOK, DecryptedIsShown, HoldsText, Points, Owning, Body
<1>13. ASSUME NEW t \in Tasks, JoinForMessage(t) PROVE DecryptedIsShown'
  BY <1>13 DEF JoinForMessage, JoinAttempt, TypeOK, DecryptedIsShown, HoldsText, Points, Owning, Body
<1>14. ASSUME NEW t \in Tasks, RecheckReady(t) PROVE DecryptedIsShown'
  BY <1>14 DEF RecheckReady, TypeOK, DecryptedIsShown, HoldsText, Points, Owning, Body
<1>15. ASSUME NEW t \in Tasks, Resync(t) PROVE DecryptedIsShown'
  BY <1>15 DEF Resync, JoinAttempt, TypeOK, DecryptedIsShown, HoldsText, Points, Owning, Body
<1>16. ASSUME NEW t \in Tasks, DecryptPlaintext(t) PROVE DecryptedIsShown'
  BY <1>16 DEF DecryptPlaintext, TypeOK, DecryptedIsShown, HoldsText, Points, Owning, Body
<1>17. ASSUME NEW t \in Tasks, DecryptNothing(t) PROVE DecryptedIsShown'
  BY <1>17 DEF DecryptNothing, TypeOK, DecryptedIsShown, HoldsText, Points, Owning, Body
<1>18. ASSUME NEW t \in Tasks, DecryptDrift(t) PROVE DecryptedIsShown'
  BY <1>18 DEF DecryptDrift, TypeOK, DecryptedIsShown, HoldsText, Points, Owning, Body
<1>19. ASSUME NEW t \in Tasks, DecryptFailed(t) PROVE DecryptedIsShown'
  BY <1>19 DEF DecryptFailed, TypeOK, DecryptedIsShown, HoldsText, Points, Owning, Body
<1>20. ASSUME NEW t \in Tasks, Show(t) PROVE DecryptedIsShown'
  BY <1>20 DEF Show, TypeOK, DecryptedIsShown, HoldsText, Points, Owning, Body
<1>21. ASSUME NEW t \in Tasks, MarkProcessed(t) PROVE DecryptedIsShown'
  BY <1>21 DEF MarkProcessed, Remember, TypeOK, DecryptedIsShown, HoldsText, Points, Owning, Body
<1>22. CASE UNCHANGED vars
  BY <1>22 DEF vars, TypeOK, DecryptedIsShown, HoldsText, Points, Owning, Body
<1> QED
  BY <1>1, <1>2, <1>3, <1>4, <1>5, <1>6, <1>7, <1>8, <1>9, <1>10, <1>11, <1>12, <1>13, <1>14, <1>15, <1>16, <1>17, <1>18, <1>19, <1>20, <1>21, <1>22 DEF Next, TaskStep

\* The text of an own message is cached, held or displayed.
LEMMA EchoStep ==
  ASSUME TypeOK, EchoInv, [Next]_vars
  PROVE  EchoInv'
<1>1. CASE Login
  BY <1>1, MsgAssumption DEF Login, ResetState, TypeOK, EchoInv, HoldsText, Points, Owning, Body
<1>2. CASE LoginConnected
  BY <1>2, MsgAssumption DEF LoginConnected, TypeOK, EchoInv, HoldsText, Points, Owning, Body
<1>3. CASE LoginRolledBack
  BY <1>3, MsgAssumption DEF LoginRolledBack, ResetState, TypeOK, EchoInv, HoldsText, Points, Owning, Body
<1>4. ASSUME NEW c \in Channels, MapChannel(c) PROVE EchoInv'
  BY <1>4, MsgAssumption DEF MapChannel, TypeOK, EchoInv, HoldsText, Points, Owning, Body
<1>5. ASSUME NEW c \in Channels, ChannelReady(c) PROVE EchoInv'
  BY <1>5, MsgAssumption DEF ChannelReady, TypeOK, EchoInv, HoldsText, Points, Owning, Body
<1>6. ASSUME NEW c \in Channels, ImportBundle(c) PROVE EchoInv'
  BY <1>6, MsgAssumption DEF ImportBundle, TypeOK, EchoInv, HoldsText, Points, Owning, Body
<1>7. ASSUME NEW m \in Own, StartSend(m) PROVE EchoInv'
  BY <1>7, MsgAssumption DEF StartSend, TypeOK, EchoInv, HoldsText, Points, Owning, Body
<1>8. ASSUME NEW m \in Own, PostSucceeded(m) PROVE EchoInv'
  BY <1>8, MsgAssumption DEF PostSucceeded, TypeOK, EchoInv, HoldsText, Points, Owning, Body
<1>9. ASSUME NEW m \in Own, PostFailed(m) PROVE EchoInv'
  BY <1>9, MsgAssumption DEF PostFailed, TypeOK, EchoInv, HoldsText, Points, Owning, Body
<1>10. ASSUME NEW m \in Msgs, ServerStores(m) PROVE EchoInv'
  BY <1>10, MsgAssumption DEF ServerStores, TypeOK, EchoInv, HoldsText, Points, Owning, Body
<1>11. ASSUME NEW t \in Tasks, NEW m \in Msgs, Deliver(t, m) PROVE EchoInv'
  BY <1>11, MsgAssumption DEF Deliver, TypeOK, EchoInv, HoldsText, Points, Owning, Body
<1>12. ASSUME NEW t \in Tasks, CheckReady(t) PROVE EchoInv'
  BY <1>12, MsgAssumption DEF CheckReady, TypeOK, EchoInv, HoldsText, Points, Owning, Body
<1>13. ASSUME NEW t \in Tasks, JoinForMessage(t) PROVE EchoInv'
  BY <1>13, MsgAssumption DEF JoinForMessage, JoinAttempt, TypeOK, EchoInv, HoldsText, Points, Owning, Body
<1>14. ASSUME NEW t \in Tasks, RecheckReady(t) PROVE EchoInv'
  BY <1>14, MsgAssumption DEF RecheckReady, TypeOK, EchoInv, HoldsText, Points, Owning, Body
<1>15. ASSUME NEW t \in Tasks, Resync(t) PROVE EchoInv'
  BY <1>15, MsgAssumption DEF Resync, JoinAttempt, TypeOK, EchoInv, HoldsText, Points, Owning, Body
<1>16. ASSUME NEW t \in Tasks, DecryptPlaintext(t) PROVE EchoInv'
  BY <1>16, MsgAssumption DEF DecryptPlaintext, TypeOK, EchoInv, HoldsText, Points, Owning, Body
<1>17. ASSUME NEW t \in Tasks, DecryptNothing(t) PROVE EchoInv'
  BY <1>17, MsgAssumption DEF DecryptNothing, TypeOK, EchoInv, HoldsText, Points, Owning, Body
<1>18. ASSUME NEW t \in Tasks, DecryptDrift(t) PROVE EchoInv'
  BY <1>18, MsgAssumption DEF DecryptDrift, TypeOK, EchoInv, HoldsText, Points, Owning, Body
<1>19. ASSUME NEW t \in Tasks, DecryptFailed(t) PROVE EchoInv'
  BY <1>19, MsgAssumption DEF DecryptFailed, TypeOK, EchoInv, HoldsText, Points, Owning, Body
<1>20. ASSUME NEW t \in Tasks, Show(t) PROVE EchoInv'
  BY <1>20, MsgAssumption DEF Show, TypeOK, EchoInv, HoldsText, Points, Owning, Body
<1>21. ASSUME NEW t \in Tasks, MarkProcessed(t) PROVE EchoInv'
  BY <1>21, MsgAssumption DEF MarkProcessed, Remember, TypeOK, EchoInv, HoldsText, Points, Owning, Body
<1>22. CASE UNCHANGED vars
  BY <1>22 DEF vars, TypeOK, EchoInv, HoldsText, Points, Owning, Body
<1> QED
  BY <1>1, <1>2, <1>3, <1>4, <1>5, <1>6, <1>7, <1>8, <1>9, <1>10, <1>11, <1>12, <1>13, <1>14, <1>15, <1>16, <1>17, <1>18, <1>19, <1>20, <1>21, <1>22 DEF Next, TaskStep

-----------------------------------------------------------------------------
\* The strengthened invariant holds in every reachable state.
LEMMA Inductive == Spec => []IInv
<1>1. Init => IInv
  <2> SUFFICES ASSUME Init PROVE IInv
    OBVIOUS
  <2>1. TypeOK
    <3>1. order \in Seq(Msgs) /\ imports \in 0..MaxImports
      BY BoundAssumption DEF Init
    <3> QED
      BY <3>1 DEF Init, TypeOK, Points, Owning
  <2>2. CacheMatchesQueue
    <3>1. order = <<>> /\ processed = {}
      BY DEF Init
    <3> QED
      BY <3>1, BoundAssumption DEF CacheMatchesQueue
  <2>3. OriginInv /\ InflightHasOwner /\ GateInv /\ PendingInv
    BY DEF Init, OriginInv, InflightHasOwner, GateInv, PendingInv, Owning, Foreign
  <2>4. TextInv /\ DecryptedIsShown /\ EchoInv
    BY MsgAssumption DEF Init, TextInv, DecryptedIsShown, EchoInv, HoldsText, Consumed
  <2> QED
    BY <2>1, <2>2, <2>3, <2>4 DEF IInv
<1>2. IInv /\ [Next]_vars => IInv'
  <2> SUFFICES ASSUME IInv, [Next]_vars PROVE IInv'
    OBVIOUS
  <2> USE DEF IInv
  <2>1. TypeOK' /\ CacheMatchesQueue'
    BY TypeStep, CacheStep
  <2>2. OriginInv' /\ InflightHasOwner' /\ GateInv' /\ PendingInv'
    BY OriginStep, OwnerStep, GateStep, PendingStep
  <2>3. TextInv' /\ DecryptedIsShown' /\ EchoInv'
    BY TextStep, ShownStep, EchoStep
  <2> QED
    BY <2>1, <2>2, <2>3
<1> QED
  BY <1>1, <1>2, PTL DEF Spec

\* The variables of the pipeline keep their types, whatever the messages, tasks,
\* channels and cache size.
THEOREM TypeCorrect == Spec => []TypeOK
<1>1. IInv => TypeOK
  BY DEF IInv
<1> QED
  BY <1>1, Inductive, PTL

\* processed_inbound_message_ids and its eviction queue never disagree and never
\* exceed PROCESSED_MESSAGE_CACHE_MAX.
THEOREM CacheCorrect == Spec => []CacheMatchesQueue
<1>1. IInv => CacheMatchesQueue
  BY DEF IInv
<1> QED
  BY <1>1, Inductive, PTL

\* No exit of emit_decrypted_message leaks its inflight mark, and until a login
\* overtakes a delivery one task at a time handles a message.
THEOREM GateCorrect == Spec => [](InflightHasOwner /\ GateExclusive)
<1>1. IInv => InflightHasOwner /\ GateExclusive
  BY DEF IInv, GateInv, GateExclusive
<1> QED
  BY <1>1, Inductive, PTL

\* Without imports no text is displayed twice, even when logins overtake
\* deliveries and the cache has evicted the message.
THEOREM TextAtMostOnce == Spec => []TextShownOnce
<1>1. IInv => TextShownOnce
  BY DEF IInv, TextInv, TextShownOnce
<1> QED
  BY <1>1, Inductive, PTL

\* No plaintext that left the ratchet is dropped.
THEOREM DecryptedReachesUser == Spec => []DecryptedIsShown
<1>1. IInv => DecryptedIsShown
  BY DEF IInv
<1> QED
  BY <1>1, Inductive, PTL

\* An own message that was accepted and handled has been displayed, unless a
\* login discarded its cached text.
THEOREM OwnEchoReachesUser == Spec => []OwnEchoShown
<1>1. IInv => OwnEchoShown
  BY DEF IInv, PendingInv, EchoInv, OwnEchoShown
<1> QED
  BY <1>1, Inductive, PTL

\* A remembered message is not displayed again, imports included.
THEOREM NoReplay == Spec => NoReplayWhileRemembered
<1> DEFINE Fresh == \A m \in Msgs : shown'[m] > shown[m] => overtaken \/ m \notin processed
<1>1. IInv /\ [Next]_vars => [Fresh]_vars
  <2> SUFFICES ASSUME IInv, [Next]_vars, NEW m \in Msgs, shown'[m] > shown[m]
               PROVE  overtaken \/ m \notin processed
    OBVIOUS
  <2>1. PICK t \in Tasks : Show(t) /\ msg[t] = m
    <3>1. shown \in [Msgs -> Nat] /\ msg \in [Tasks -> Msgs]
      BY DEF IInv, TypeOK
    <3>2. ~UNCHANGED shown
      BY <3>1
    <3>3. PICK t \in Tasks : Show(t)
      BY <3>2 DEF Next, TaskStep, vars, Login, LoginConnected, LoginRolledBack, ResetState,
        MapChannel, ChannelReady, ImportBundle, StartSend, PostSucceeded, PostFailed,
        ServerStores, Deliver, CheckReady, JoinForMessage, RecheckReady, Resync, JoinAttempt,
        DecryptPlaintext, DecryptNothing, DecryptDrift, DecryptFailed, MarkProcessed
    <3>4. msg[t] = m
      BY <3>1, <3>3 DEF Show
    <3> QED
      BY <3>3, <3>4
  <2> QED
    BY <2>1 DEF IInv, GateInv, Show, Owning
<1>2. [][Fresh]_vars => NoReplayWhileRemembered
  BY PTL DEF NoReplayWhileRemembered
<1> QED
  BY <1>1, <1>2, Inductive, PTL DEF Spec

\* When no bundle is imported, the pipeline implements MessageFeed: each of its
\* steps posts a message, displays a text for the first time, or stutters.
THEOREM ImplementsFeed ==
  ASSUME MaxImports = 0
  PROVE  Spec => FeedSpec
<1>1. Init => Feed!Init
  BY DEF Init, Feed!Init
<1>2. IInv /\ [Next]_vars => [Feed!Next]_(Feed!vars)
  <2> SUFFICES ASSUME IInv, [Next]_vars, ~UNCHANGED Feed!vars
               PROVE  Feed!Next
    OBVIOUS
  <2>0. TypeOK /\ imports = 0 /\ TextInv /\ OriginInv
    BY DEF IInv, TypeOK
  <2>1. \/ \E m \in Msgs : ServerStores(m)
        \/ \E t \in Tasks : Show(t)
    BY DEF Feed!vars, Next, TaskStep, vars, Login, LoginConnected, LoginRolledBack, ResetState,
      MapChannel, ChannelReady, ImportBundle, StartSend, PostSucceeded, PostFailed,
      Deliver, CheckReady, JoinForMessage, RecheckReady, Resync, JoinAttempt,
      DecryptPlaintext, DecryptNothing, DecryptDrift, DecryptFailed, MarkProcessed
  <2>2. ASSUME NEW m \in Msgs, ServerStores(m) PROVE Feed!Post(m)
    BY <2>2 DEF ServerStores, Feed!Post
  <2>3. ASSUME NEW t \in Tasks, Show(t) PROVE Feed!Show(msg[t])
    <3>1. body[t] = "text" /\ shown' = [shown EXCEPT ![msg[t]] = @ + 1] /\ UNCHANGED onServer
      BY <2>3 DEF Show, Feed!vars
    <3>2. msg[t] \in Msgs /\ msg[t] \in onServer /\ shown[msg[t]] = 0
      BY <2>0, <2>3, <3>1 DEF Show, TypeOK, TextInv, OriginInv, HoldsText, Owning
    <3> QED
      BY <3>1, <3>2, <2>0 DEF Feed!Show, TypeOK
  <2> QED
    BY <2>0, <2>1, <2>2, <2>3 DEF Feed!Next, TypeOK
<1> QED
  BY <1>1, <1>2, Inductive, PTL DEF Spec, FeedSpec, Feed!Spec
=============================================================================
