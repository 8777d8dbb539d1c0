------------------------- MODULE DeviceLinkProofs -------------------------
(***************************************************************************)
(* Proofs about DeviceLink, for any tokens, bundles, fetches and channels   *)
(* and any clock.                                                           *)
(*                                                                         *)
(* LinkSpec: the handlers map step by step to HandOver.  What makes the     *)
(* hand-over of a bundle one step is CleanInv: a fetch whose read nobody    *)
(* has overtaken still sees the open bundle it read, so its write takes     *)
(* that bundle and no other.                                                *)
(*                                                                         *)
(* MarkedIsOpen needs DropInv: a channel without session has a task that    *)
(* dropped it and is not through.  ImportTakesEffect needs AloneInv, that   *)
(* two tasks on one channel are recorded, and StepInv, what disk and        *)
(* session are at each step of an import that is alone.                     *)
(***************************************************************************)
EXTENDS DeviceLink, TLAPS

\* The parts of TypeOK.
ServerTypes ==
  /\ now \in 0..MaxTime /\ devices \in 0..MaxDevices /\ mine \in 0..devices
  /\ token \in [Tokens -> [device : 0..devices, expires : Nat, consumed : Nat \union {Never}]]
  /\ box \in [Tokens -> [bundle : Uploads \union {Nothing}, open : BOOLEAN]]
UploadTypes ==
  upload \in [Uploads -> [state : {"new", "made", "checked", "stored", "refused"},
                         token : Tokens \union {Nothing}, chans : SUBSET Channels]]
Requests ==
  [state : {"new", "checked", "selected", "answered", "refused"},
   token : Tokens \union {Nothing}, bundle : Uploads \union {Nothing},
   clean : BOOLEAN, awaited : BOOLEAN]
FetchTypes == fetch \in [Fetches -> Requests]
StateTypes ==
  /\ disk \in [Channels -> States] /\ live \in [Channels -> States]
  /\ marked \subseteq Channels /\ mixed \subseteq Channels
Jobs ==
       [step : {"idle", "save", "drop", "look", "load", "create", "insert", "opened", "over"},
        todo : SUBSET Channels, chan : Channels \union {Nothing}, handle : States]
TaskTypes == task \in [Tasks -> Jobs]

\* What a request carries on with has passed its check.
RequestInv ==
  /\ \A u \in Uploads : upload[u].state = "checked" =>
       upload[u].token \in Tokens /\ token[upload[u].token].device # 0
  /\ \A f \in Fetches : fetch[f].state \in {"checked", "selected"} =>
       fetch[f].token \in Tokens /\ token[fetch[f].token].device # 0
  /\ \A f \in Fetches : fetch[f].state \in {"selected", "answered"} => fetch[f].bundle \in Uploads
  /\ \A t \in Tokens : box[t].open => box[t].bundle \in Uploads

\* Nobody has overtaken a clean fetch.
CleanInv ==
  \A f \in Fetches : fetch[f].state = "selected" /\ fetch[f].clean =>
    box[fetch[f].token].open /\ box[fetch[f].token].bundle = fetch[f].bundle

\* A task that is past its check has a channel, an import that is under way a bundle.
Engaged == {"drop", "look", "load", "create", "insert", "opened"}

ChanInv ==
  /\ \A k \in Tasks : task[k].step \in Engaged => task[k].chan \in Channels
  /\ \A k \in Tasks : task[k].step \in {"idle", "save"} => task[k].chan = Nothing
  /\ \A k \in Tasks : task[k].step = "insert" => task[k].handle # Nothing
  /\ \A f \in Fetches : task[f].step # "idle" =>
       fetch[f].state \in {"answered", "refused"} /\ (task[f].step # "over" => fetch[f].state = "answered")
       /\ ~ fetch[f].awaited
  /\ task[Opener].step \notin {"save", "drop", "over"}
  /\ task[Opener].step = "idle" => task[Opener].chan = Nothing

\* f has dropped the session of c and is not through.
Dropper(f, c) == task[f].chan = c /\ task[f].step \in {"look", "load", "create", "insert", "over"}

DropInv ==
  /\ \A f \in Fetches : task[f].step = "opened" =>
       live[task[f].chan] # Nothing \/ \E g \in Fetches : Dropper(g, task[f].chan)
  /\ \A c \in marked : live[c] # Nothing \/ \E g \in Fetches : Dropper(g, c)

\* An import and another task at one channel: it is mixed.
AloneInv ==
  \A f \in Fetches, k \in Tasks :
    task[f].step \in Engaged /\ task[k].step \in Engaged /\ k # f /\ task[k].chan = task[f].chan
      => task[f].chan \in mixed

\* An import that is alone, step by step.
StepInv ==
  \A f \in Fetches :
    LET c == task[f].chan IN
    task[f].step \in Engaged /\ c \notin mixed =>
      /\ disk[c] \in Uploads /\ task[f].step # "create"
      /\ task[f].step \in {"look", "load", "insert"} => live[c] = Nothing
      /\ task[f].step = "insert" => task[f].handle = disk[c]
      /\ task[f].step = "opened" => live[c] = disk[c]

\* A channel whose import is through, and the task that looks at it after that.
EffectInv ==
  \A c \in marked \ mixed : ~ Reopening(c) =>
    /\ live[c] = disk[c] /\ live[c] \in Uploads
    /\ task[Opener].chan = c => task[Opener].step \in {"look", "opened"}

\* The type invariant, taken apart.
LEMMA TypeParts ==
  TypeOK <=> ServerTypes /\ UploadTypes /\ FetchTypes /\ StateTypes /\ TaskTypes
  BY DEF TypeOK, ServerTypes, UploadTypes, FetchTypes, Requests, StateTypes, TaskTypes, Jobs

\* A write of another connection changes nothing of a fetch but its cleanness.
LEMMA OvertakenFields ==
  ASSUME FetchTypes
  PROVE  /\ Overtaken \in [Fetches -> Requests]
         /\ \A f \in Fetches :
              /\ Overtaken[f].state = fetch[f].state /\ Overtaken[f].token = fetch[f].token
              /\ Overtaken[f].bundle = fetch[f].bundle /\ Overtaken[f].awaited = fetch[f].awaited
              /\ ~ Overtaken[f].clean
  BY DEF FetchTypes, Requests, Overtaken

\* No step breaks the types of the clock, the devices, the tokens and the bundles.
LEMMA ServerTypesKept ==
  ASSUME TypeOK, RequestInv, [Next]_vars
  PROVE  ServerTypes'
<1> USE DEF serverVars, requestVars, clientVars
<1>0. ServerTypes /\ UploadTypes /\ FetchTypes /\ StateTypes /\ TaskTypes
  BY TypeParts
<1>1. CASE UNCHANGED vars
  BY <1>0, ClockAssumption, <1>1 DEF vars, ServerTypes
<1>2. CASE Tick
  BY <1>0, ClockAssumption, <1>2 DEF Tick, ServerTypes
<1>3. CASE Register
  BY OvertakenFields, <1>0, ClockAssumption, <1>3 DEF Register, ServerTypes
<1>4. ASSUME NEW t \in Tokens, StartLink(t) PROVE ServerTypes'
  BY OvertakenFields, <1>0, ClockAssumption, <1>4 DEF StartLink, Never, ServerTypes
<1>5. ASSUME NEW t \in Tokens, Complete(t) PROVE ServerTypes'
  BY OvertakenFields, <1>0, ClockAssumption, <1>5 DEF Complete, Never, ServerTypes
<1>6. ASSUME NEW u \in Uploads, NEW t \in Tokens, CheckUpload(u, t) PROVE ServerTypes'
  BY <1>0, ClockAssumption, <1>6 DEF CheckUpload, Usable, UploadTypes, ServerTypes
<1>7. ASSUME NEW u \in Uploads, StoreBundle(u) PROVE ServerTypes'
  BY OvertakenFields, <1>0, ClockAssumption, <1>7 DEF StoreBundle, RequestInv, UploadTypes, ServerTypes
<1>8. ASSUME NEW u \in Uploads, UploadFails(u) PROVE ServerTypes'
  BY <1>0, ClockAssumption, <1>8 DEF UploadFails, ServerTypes
<1>9. ASSUME NEW u \in Uploads, NEW chans \in SUBSET Channels, Export(u, chans) PROVE ServerTypes'
  BY <1>0, ClockAssumption, <1>9 DEF Export, ServerTypes
<1>10. ASSUME NEW f \in Fetches, NEW t \in Tokens, CheckFetch(f, t) PROVE ServerTypes'
  BY <1>0, ClockAssumption, <1>10 DEF CheckFetch, ServerTypes
<1>11. ASSUME NEW f \in Fetches, SelectBundle(f) PROVE ServerTypes'
  BY <1>0, ClockAssumption, <1>11 DEF SelectBundle, ServerTypes
<1>12. ASSUME NEW f \in Fetches, ConsumeBundle(f) PROVE ServerTypes'
  <2>1. fetch[f].token \in Tokens
    BY <1>12 DEF ConsumeBundle, RequestInv
  <2>2. box' \in [Tokens -> [bundle : Uploads \union {Nothing}, open : BOOLEAN]]
    BY <1>0, <1>12, <2>1 DEF ConsumeBundle, ServerTypes
  <2>3. token' \in [Tokens -> [device : 0..devices, expires : Nat, consumed : Nat \union {Never}]]
    BY <1>0, <1>12, <2>1, ClockAssumption DEF ConsumeBundle, ServerTypes, Never
  <2> QED
    BY <1>0, <1>12, <2>2, <2>3 DEF ConsumeBundle, ServerTypes
<1>13. ASSUME NEW f \in Fetches, FetchFails(f) PROVE ServerTypes'
  BY <1>0, ClockAssumption, <1>13 DEF FetchFails, ServerTypes
<1>14. ASSUME NEW f \in Fetches, LoseAnswer(f) PROVE ServerTypes'
  BY <1>0, ClockAssumption, <1>14 DEF LoseAnswer, ServerTypes
<1>15. ASSUME NEW f \in Fetches, StartImport(f) PROVE ServerTypes'
  BY <1>0, ClockAssumption, <1>15 DEF StartImport, NextRecord, Idle, ServerTypes
<1>16. ASSUME NEW f \in Fetches, ImportFails(f) PROVE ServerTypes'
  BY <1>0, ClockAssumption, <1>16 DEF ImportFails, ServerTypes
<1>17. ASSUME NEW f \in Fetches, DropSession(f) PROVE ServerTypes'
  BY <1>0, ClockAssumption, <1>17 DEF DropSession, ServerTypes
<1>18. ASSUME NEW f \in Fetches, MarkChannel(f) PROVE ServerTypes'
  BY <1>0, ClockAssumption, <1>18 DEF MarkChannel, NextRecord, Idle, ServerTypes
<1>19. ASSUME NEW f \in Fetches, NEW c \in Channels, SaveState(f, c) PROVE ServerTypes'
  BY <1>0, ClockAssumption, <1>19 DEF SaveState, ServerTypes
<1>20. ASSUME NEW k \in Tasks, LookForSession(k) PROVE ServerTypes'
  BY <1>0, ClockAssumption, <1>20 DEF LookForSession, ServerTypes
<1>21. ASSUME NEW k \in Tasks, LoadState(k) PROVE ServerTypes'
  BY <1>0, ClockAssumption, <1>21 DEF LoadState, ServerTypes
<1>22. ASSUME NEW k \in Tasks, CreateGroup(k) PROVE ServerTypes'
  BY <1>0, ClockAssumption, <1>22 DEF CreateGroup, ServerTypes
<1>23. ASSUME NEW k \in Tasks, InsertSession(k) PROVE ServerTypes'
  BY <1>0, ClockAssumption, <1>23 DEF InsertSession, ServerTypes
<1>24. ASSUME NEW c \in Channels, StartOpening(c) PROVE ServerTypes'
  BY <1>0, ClockAssumption, <1>24 DEF StartOpening, ServerTypes
<1>25. ASSUME NEW c \in Channels, PersistSession(c) PROVE ServerTypes'
  BY <1>0, ClockAssumption, <1>25 DEF PersistSession, ServerTypes
<1>26. CASE OpenerDone
  BY <1>0, ClockAssumption, <1>26 DEF OpenerDone, Idle, ServerTypes
<1>27. CASE Restart
  BY <1>0, ClockAssumption, <1>27 DEF Restart, Idle, ServerTypes
<1> QED
  BY <1>1, <1>2, <1>3, <1>4, <1>5, <1>6, <1>7, <1>8, <1>9, <1>10, <1>11, <1>12, <1>13,
     <1>14, <1>15, <1>16, <1>17, <1>18, <1>19, <1>20, <1>21, <1>22, <1>23, <1>24,
     <1>25, <1>26, <1>27 DEF Next, ServerStep, DeviceStep

\* No step breaks the types of the uploads.
LEMMA UploadTypesKept ==
  ASSUME TypeOK, [Next]_vars
  PROVE  UploadTypes'
<1> USE DEF serverVars, requestVars, clientVars
<1>0. ServerTypes /\ UploadTypes /\ FetchTypes /\ StateTypes /\ TaskTypes
  BY TypeParts
<1>1. CASE UNCHANGED vars
  BY <1>0, <1>1 DEF vars, UploadTypes
<1>2. CASE Tick
  BY <1>0, <1>2 DEF Tick, UploadTypes
<1>3. CASE Register
  BY OvertakenFields, <1>0, <1>3 DEF Register, UploadTypes
<1>4. ASSUME NEW t \in Tokens, StartLink(t) PROVE UploadTypes'
  BY OvertakenFields, <1>0, <1>4 DEF StartLink, UploadTypes
<1>5. ASSUME NEW t \in Tokens, Complete(t) PROVE UploadTypes'
  BY OvertakenFields, <1>0, <1>5 DEF Complete, UploadTypes
<1>6. ASSUME NEW u \in Uploads, NEW t \in Tokens, CheckUpload(u, t) PROVE UploadTypes'
  BY <1>0, <1>6 DEF CheckUpload, Usable, UploadTypes
<1>7. ASSUME NEW u \in Uploads, StoreBundle(u) PROVE UploadTypes'
  BY OvertakenFields, <1>0, <1>7 DEF StoreBundle, UploadTypes
<1>8. ASSUME NEW u \in Uploads, UploadFails(u) PROVE UploadTypes'
  BY <1>0, <1>8 DEF UploadFails, UploadTypes
<1>9. ASSUME NEW u \in Uploads, NEW chans \in SUBSET Channels, Export(u, chans) PROVE UploadTypes'
  BY <1>0, <1>9 DEF Export, UploadTypes
<1>10. ASSUME NEW f \in Fetches, NEW t \in Tokens, CheckFetch(f, t) PROVE UploadTypes'
  BY <1>0, <1>10 DEF CheckFetch, UploadTypes
<1>11. ASSUME NEW f \in Fetches, SelectBundle(f) PROVE UploadTypes'
  BY <1>0, <1>11 DEF SelectBundle, UploadTypes
<1>12. ASSUME NEW f \in Fetches, ConsumeBundle(f) PROVE UploadTypes'
  BY OvertakenFields, <1>0, <1>12 DEF ConsumeBundle, UploadTypes
<1>13. ASSUME NEW f \in Fetches, FetchFails(f) PROVE UploadTypes'
  BY <1>0, <1>13 DEF FetchFails, UploadTypes
<1>14. ASSUME NEW f \in Fetches, LoseAnswer(f) PROVE UploadTypes'
  BY <1>0, <1>14 DEF LoseAnswer, UploadTypes
<1>15. ASSUME NEW f \in Fetches, StartImport(f) PROVE UploadTypes'
  BY <1>0, <1>15 DEF StartImport, NextRecord, Idle, UploadTypes
<1>16. ASSUME NEW f \in Fetches, ImportFails(f) PROVE UploadTypes'
  BY <1>0, <1>16 DEF ImportFails, UploadTypes
<1>17. ASSUME NEW f \in Fetches, DropSession(f) PROVE UploadTypes'
  BY <1>0, <1>17 DEF DropSession, UploadTypes
<1>18. ASSUME NEW f \in Fetches, MarkChannel(f) PROVE UploadTypes'
  BY <1>0, <1>18 DEF MarkChannel, NextRecord, Idle, UploadTypes
<1>19. ASSUME NEW f \in Fetches, NEW c \in Channels, SaveState(f, c) PROVE UploadTypes'
  BY <1>0, <1>19 DEF SaveState, UploadTypes
<1>20. ASSUME NEW k \in Tasks, LookForSession(k) PROVE UploadTypes'
  BY <1>0, <1>20 DEF LookForSession, UploadTypes
<1>21. ASSUME NEW k \in Tasks, LoadState(k) PROVE UploadTypes'
  BY <1>0, <1>21 DEF LoadState, UploadTypes
<1>22. ASSUME NEW k \in Tasks, CreateGroup(k) PROVE UploadTypes'
  BY <1>0, <1>22 DEF CreateGroup, UploadTypes
<1>23. ASSUME NEW k \in Tasks, InsertSession(k) PROVE UploadTypes'
  BY <1>0, <1>23 DEF InsertSession, UploadTypes
<1>24. ASSUME NEW c \in Channels, StartOpening(c) PROVE UploadTypes'
  BY <1>0, <1>24 DEF StartOpening, UploadTypes
<1>25. ASSUME NEW c \in Channels, PersistSession(c) PROVE UploadTypes'
  BY <1>0, <1>25 DEF PersistSession, UploadTypes
<1>26. CASE OpenerDone
  BY <1>0, <1>26 DEF OpenerDone, Idle, UploadTypes
<1>27. CASE Restart
  BY <1>0, <1>27 DEF Restart, Idle, UploadTypes
<1> QED
  BY <1>1, <1>2, <1>3, <1>4, <1>5, <1>6, <1>7, <1>8, <1>9, <1>10, <1>11, <1>12, <1>13,
     <1>14, <1>15, <1>16, <1>17, <1>18, <1>19, <1>20, <1>21, <1>22, <1>23, <1>24,
     <1>25, <1>26, <1>27 DEF Next, ServerStep, DeviceStep

\* No step breaks the types of the fetches.
LEMMA FetchTypesKept ==
  ASSUME TypeOK, RequestInv, [Next]_vars
  PROVE  FetchTypes'
<1> USE DEF serverVars, requestVars, clientVars
<1>0. ServerTypes /\ UploadTypes /\ FetchTypes /\ StateTypes /\ TaskTypes
  BY TypeParts
<1>1. CASE UNCHANGED vars
  BY <1>0, <1>1 DEF vars, FetchTypes, Requests
<1>2. CASE Tick
  BY <1>0, <1>2 DEF Tick, FetchTypes, Requests
<1>3. CASE Register
  BY OvertakenFields, <1>0, <1>3 DEF Register, FetchTypes, Requests
<1>4. ASSUME NEW t \in Tokens, StartLink(t) PROVE FetchTypes'
  BY OvertakenFields, <1>0, <1>4 DEF StartLink, FetchTypes, Requests
<1>5. ASSUME NEW t \in Tokens, Complete(t) PROVE FetchTypes'
  BY OvertakenFields, <1>0, <1>5 DEF Complete, FetchTypes, Requests
<1>6. ASSUME NEW u \in Uploads, NEW t \in Tokens, CheckUpload(u, t) PROVE FetchTypes'
  BY <1>0, <1>6 DEF CheckUpload, Usable, FetchTypes, Requests
<1>7. ASSUME NEW u \in Uploads, StoreBundle(u) PROVE FetchTypes'
  BY OvertakenFields, <1>0, <1>7 DEF StoreBundle, FetchTypes, Requests
<1>8. ASSUME NEW u \in Uploads, UploadFails(u) PROVE FetchTypes'
  BY <1>0, <1>8 DEF UploadFails, FetchTypes, Requests
<1>9. ASSUME NEW u \in Uploads, NEW chans \in SUBSET Channels, Export(u, chans) PROVE FetchTypes'
  BY <1>0, <1>9 DEF Export, FetchTypes, Requests
<1>10. ASSUME NEW f \in Fetches, NEW t \in Tokens, CheckFetch(f, t) PROVE FetchTypes'
  BY <1>0, <1>10 DEF CheckFetch, FetchTypes, Requests
<1>11. ASSUME NEW f \in Fetches, SelectBundle(f) PROVE FetchTypes'
  <2> DEFINE row == box[fetch[f].token]
             b == IF row.open THEN row.bundle ELSE Nothing
             s == IF row.open THEN "selected" ELSE "refused"
  <2>1. b \in Uploads \union {Nothing}
    BY <1>11 DEF SelectBundle, RequestInv
  <2>2. s \in {"new", "checked", "selected", "answered", "refused"}
    OBVIOUS
  <2>3. fetch' = [fetch EXCEPT ![f].bundle = b, ![f].clean = TRUE, ![f].state = s]
    BY <1>11 DEF SelectBundle
  <2> HIDE DEF b, s
  <2>4. fetch \in [Fetches -> Requests]
    BY <1>0 DEF FetchTypes
  <2>5. [fetch[f] EXCEPT !.bundle = b, !.clean = TRUE, !.state = s] \in Requests
    BY <2>1, <2>2, <2>4 DEF Requests
  <2>6. fetch' = [fetch EXCEPT ![f] = [fetch[f] EXCEPT !.bundle = b, !.clean = TRUE, !.state = s]]
    BY <2>3, <2>4
  <2> QED
    BY <2>4, <2>5, <2>6 DEF FetchTypes
<1>12. ASSUME NEW f \in Fetches, ConsumeBundle(f) PROVE FetchTypes'
  BY OvertakenFields, <1>0, <1>12 DEF ConsumeBundle, FetchTypes, Requests
<1>13. ASSUME NEW f \in Fetches, FetchFails(f) PROVE FetchTypes'
  BY <1>0, <1>13 DEF FetchFails, FetchTypes, Requests
<1>14. ASSUME NEW f \in Fetches, LoseAnswer(f) PROVE FetchTypes'
  BY <1>0, <1>14 DEF LoseAnswer, FetchTypes, Requests
<1>15. ASSUME NEW f \in Fetches, StartImport(f) PROVE FetchTypes'
  BY <1>0, <1>15 DEF StartImport, NextRecord, Idle, FetchTypes, Requests
<1>16. ASSUME NEW f \in Fetches, ImportFails(f) PROVE FetchTypes'
  BY <1>0, <1>16 DEF ImportFails, FetchTypes, Requests
<1>17. ASSUME NEW f \in Fetches, DropSession(f) PROVE FetchTypes'
  BY <1>0, <1>17 DEF DropSession, FetchTypes, Requests
<1>18. ASSUME NEW f \in Fetches, MarkChannel(f) PROVE FetchTypes'
  BY <1>0, <1>18 DEF MarkChannel, NextRecord, Idle, FetchTypes, Requests
<1>19. ASSUME NEW f \in Fetches, NEW c \in Channels, SaveState(f, c) PROVE FetchTypes'
  BY <1>0, <1>19 DEF SaveState, FetchTypes, Requests
<1>20. ASSUME NEW k \in Tasks, LookForSession(k) PROVE FetchTypes'
  BY <1>0, <1>20 DEF LookForSession, FetchTypes, Requests
<1>21. ASSUME NEW k \in Tasks, LoadState(k) PROVE FetchTypes'
  BY <1>0, <1>21 DEF LoadState, FetchTypes, Requests
<1>22. ASSUME NEW k \in Tasks, CreateGroup(k) PROVE FetchTypes'
  BY <1>0, <1>22 DEF CreateGroup, FetchTypes, Requests
<1>23. ASSUME NEW k \in Tasks, InsertSession(k) PROVE FetchTypes'
  BY <1>0, <1>23 DEF InsertSession, FetchTypes, Requests
<1>24. ASSUME NEW c \in Channels, StartOpening(c) PROVE FetchTypes'
  BY <1>0, <1>24 DEF StartOpening, FetchTypes, Requests
<1>25. ASSUME NEW c \in Channels, PersistSession(c) PROVE FetchTypes'
  BY <1>0, <1>25 DEF PersistSession, FetchTypes, Requests
<1>26. CASE OpenerDone
  BY <1>0, <1>26 DEF OpenerDone, Idle, FetchTypes, Requests
<1>27. CASE Restart
  BY <1>0, <1>27 DEF Restart, Idle, FetchTypes, Requests
<1> QED
  BY <1>1, <1>2, <1>3, <1>4, <1>5, <1>6, <1>7, <1>8, <1>9, <1>10, <1>11, <1>12, <1>13,
     <1>14, <1>15, <1>16, <1>17, <1>18, <1>19, <1>20, <1>21, <1>22, <1>23, <1>24,
     <1>25, <1>26, <1>27 DEF Next, ServerStep, DeviceStep

\* No step breaks the types of the channels' states.
LEMMA StateTypesKept ==
  ASSUME TypeOK, RequestInv, ChanInv, [Next]_vars
  PROVE  StateTypes'
<1> USE DEF serverVars, requestVars, clientVars
<1>0. ServerTypes /\ UploadTypes /\ FetchTypes /\ StateTypes /\ TaskTypes
  BY TypeParts
<1>1. CASE UNCHANGED vars
  BY <1>0, <1>1 DEF vars, StateTypes
<1>2. CASE Tick
  BY <1>0, <1>2 DEF Tick, StateTypes, TaskTypes, Jobs, States
<1>3. CASE Register
  BY OvertakenFields, <1>0, <1>3 DEF Register, StateTypes, TaskTypes, Jobs, States
<1>4. ASSUME NEW t \in Tokens, StartLink(t) PROVE StateTypes'
  BY OvertakenFields, <1>0, <1>4 DEF StartLink, StateTypes, TaskTypes, Jobs, States
<1>5. ASSUME NEW t \in Tokens, Complete(t) PROVE StateTypes'
  BY OvertakenFields, <1>0, <1>5 DEF Complete, StateTypes, TaskTypes, Jobs, States
<1>6. ASSUME NEW u \in Uploads, NEW t \in Tokens, CheckUpload(u, t) PROVE StateTypes'
  BY <1>0, <1>6 DEF CheckUpload, Usable, StateTypes, TaskTypes, Jobs, States
<1>7. ASSUME NEW u \in Uploads, StoreBundle(u) PROVE StateTypes'
  BY OvertakenFields, <1>0, <1>7 DEF StoreBundle, StateTypes, TaskTypes, Jobs, States
<1>8. ASSUME NEW u \in Uploads, UploadFails(u) PROVE StateTypes'
  BY <1>0, <1>8 DEF UploadFails, StateTypes, TaskTypes, Jobs, States
<1>9. ASSUME NEW u \in Uploads, NEW chans \in SUBSET Channels, Export(u, chans) PROVE StateTypes'
  BY <1>0, <1>9 DEF Export, StateTypes, TaskTypes, Jobs, States
<1>10. ASSUME NEW f \in Fetches, NEW t \in Tokens, CheckFetch(f, t) PROVE StateTypes'
  BY <1>0, <1>10 DEF CheckFetch, StateTypes, TaskTypes, Jobs, States
<1>11. ASSUME NEW f \in Fetches, SelectBundle(f) PROVE StateTypes'
  BY <1>0, <1>11 DEF SelectBundle, StateTypes, TaskTypes, Jobs, States
<1>12. ASSUME NEW f \in Fetches, ConsumeBundle(f) PROVE StateTypes'
  BY OvertakenFields, <1>0, <1>12 DEF ConsumeBundle, StateTypes, TaskTypes, Jobs, States
<1>13. ASSUME NEW f \in Fetches, FetchFails(f) PROVE StateTypes'
  BY <1>0, <1>13 DEF FetchFails, StateTypes, TaskTypes, Jobs, States
<1>14. ASSUME NEW f \in Fetches, LoseAnswer(f) PROVE StateTypes'
  BY <1>0, <1>14 DEF LoseAnswer, StateTypes, TaskTypes, Jobs, States
<1>15. ASSUME NEW f \in Fetches, StartImport(f) PROVE StateTypes'
  BY <1>0, <1>15 DEF StartImport, NextRecord, Idle, StateTypes, TaskTypes, Jobs, States
<1>16. ASSUME NEW f \in Fetches, ImportFails(f) PROVE StateTypes'
  BY <1>0, <1>16 DEF ImportFails, StateTypes, TaskTypes, Jobs, States
<1>17. ASSUME NEW f \in Fetches, DropSession(f) PROVE StateTypes'
  BY <1>0, <1>17 DEF DropSession, StateTypes, TaskTypes, Jobs, States
<1>18. ASSUME NEW f \in Fetches, MarkChannel(f) PROVE StateTypes'
  BY <1>0, <1>18 DEF MarkChannel, NextRecord, Idle, ChanInv, Engaged, Tasks, StateTypes, TaskTypes, Jobs, States
<1>19. ASSUME NEW f \in Fetches, NEW c \in Channels, SaveState(f, c) PROVE StateTypes'
  BY <1>0, <1>19 DEF SaveState, RequestInv, ChanInv, Tasks, FetchTypes, Requests, StateTypes, TaskTypes, Jobs, States
<1>20. ASSUME NEW k \in Tasks, LookForSession(k) PROVE StateTypes'
  BY <1>0, <1>20 DEF LookForSession, StateTypes, TaskTypes, Jobs, States
<1>21. ASSUME NEW k \in Tasks, LoadState(k) PROVE StateTypes'
  BY <1>0, <1>21 DEF LoadState, StateTypes, TaskTypes, Jobs, States
<1>22. ASSUME NEW k \in Tasks, CreateGroup(k) PROVE StateTypes'
  BY <1>0, <1>22 DEF CreateGroup, StateTypes, TaskTypes, Jobs, States
<1>23. ASSUME NEW k \in Tasks, InsertSession(k) PROVE StateTypes'
  BY <1>0, <1>23 DEF InsertSession, StateTypes, TaskTypes, Jobs, States
<1>24. ASSUME NEW c \in Channels, StartOpening(c) PROVE StateTypes'
  BY <1>0, <1>24 DEF StartOpening, StateTypes, TaskTypes, Jobs, States
<1>25. ASSUME NEW c \in Channels, PersistSession(c) PROVE StateTypes'
  BY <1>0, <1>25 DEF PersistSession, StateTypes, TaskTypes, Jobs, States
<1>26. CASE OpenerDone
  BY <1>0, <1>26 DEF OpenerDone, Idle, StateTypes, TaskTypes, Jobs, States
<1>27. CASE Restart
  BY <1>0, <1>27 DEF Restart, Idle, StateTypes, TaskTypes, Jobs, States
<1> QED
  BY <1>1, <1>2, <1>3, <1>4, <1>5, <1>6, <1>7, <1>8, <1>9, <1>10, <1>11, <1>12, <1>13,
     <1>14, <1>15, <1>16, <1>17, <1>18, <1>19, <1>20, <1>21, <1>22, <1>23, <1>24,
     <1>25, <1>26, <1>27 DEF Next, ServerStep, DeviceStep

\* No step breaks the types of the tasks.
LEMMA TaskTypesKept ==
  ASSUME TypeOK, RequestInv, ChanInv, [Next]_vars
  PROVE  TaskTypes'
<1> USE DEF serverVars, requestVars, clientVars
<1>0. ServerTypes /\ UploadTypes /\ FetchTypes /\ StateTypes /\ TaskTypes
  BY TypeParts
<1>1. CASE UNCHANGED vars
  BY <1>0, <1>1 DEF vars, TaskTypes
<1>2. CASE Tick
  BY <1>0, <1>2 DEF Tick, TaskTypes, Jobs, Tasks
<1>3. CASE Register
  BY OvertakenFields, <1>0, <1>3 DEF Register, TaskTypes, Jobs, Tasks
<1>4. ASSUME NEW t \in Tokens, StartLink(t) PROVE TaskTypes'
  BY OvertakenFields, <1>0, <1>4 DEF StartLink, TaskTypes, Jobs, Tasks
<1>5. ASSUME NEW t \in Tokens, Complete(t) PROVE TaskTypes'
  BY OvertakenFields, <1>0, <1>5 DEF Complete, TaskTypes, Jobs, Tasks
<1>6. ASSUME NEW u \in Uploads, NEW t \in Tokens, CheckUpload(u, t) PROVE TaskTypes'
  BY <1>0, <1>6 DEF CheckUpload, Usable, TaskTypes, Jobs, Tasks
<1>7. ASSUME NEW u \in Uploads, StoreBundle(u) PROVE TaskTypes'
  BY OvertakenFields, <1>0, <1>7 DEF StoreBundle, TaskTypes, Jobs, Tasks
<1>8. ASSUME NEW u \in Uploads, UploadFails(u) PROVE TaskTypes'
  BY <1>0, <1>8 DEF UploadFails, TaskTypes, Jobs, Tasks
<1>9. ASSUME NEW u \in Uploads, NEW chans \in SUBSET Channels, Export(u, chans) PROVE TaskTypes'
  BY <1>0, <1>9 DEF Export, TaskTypes, Jobs, Tasks
<1>10. ASSUME NEW f \in Fetches, NEW t \in Tokens, CheckFetch(f, t) PROVE TaskTypes'
  BY <1>0, <1>10 DEF CheckFetch, TaskTypes, Jobs, Tasks
<1>11. ASSUME NEW f \in Fetches, SelectBundle(f) PROVE TaskTypes'
  BY <1>0, <1>11 DEF SelectBundle, TaskTypes, Jobs, Tasks
<1>12. ASSUME NEW f \in Fetches, ConsumeBundle(f) PROVE TaskTypes'
  BY OvertakenFields, <1>0, <1>12 DEF ConsumeBundle, TaskTypes, Jobs, Tasks
<1>13. ASSUME NEW f \in Fetches, FetchFails(f) PROVE TaskTypes'
  BY <1>0, <1>13 DEF FetchFails, TaskTypes, Jobs, Tasks
<1>14. ASSUME NEW f \in Fetches, LoseAnswer(f) PROVE TaskTypes'
  BY <1>0, <1>14 DEF LoseAnswer, TaskTypes, Jobs, Tasks
<1>15. ASSUME NEW f \in Fetches, StartImport(f) PROVE TaskTypes'
  BY <1>0, <1>15 DEF StartImport, NextRecord, Idle, RequestInv, UploadTypes, States, TaskTypes, Jobs, Tasks
<1>16. ASSUME NEW f \in Fetches, ImportFails(f) PROVE TaskTypes'
  BY <1>0, <1>16 DEF ImportFails, TaskTypes, Jobs, Tasks
<1>17. ASSUME NEW f \in Fetches, DropSession(f) PROVE TaskTypes'
  BY <1>0, <1>17 DEF DropSession, TaskTypes, Jobs, Tasks
<1>18. ASSUME NEW f \in Fetches, MarkChannel(f) PROVE TaskTypes'
  BY <1>0, <1>18 DEF MarkChannel, NextRecord, Idle, States, TaskTypes, Jobs, Tasks
<1>19. ASSUME NEW f \in Fetches, NEW c \in Channels, SaveState(f, c) PROVE TaskTypes'
  BY <1>0, <1>19 DEF SaveState, TaskTypes, Jobs, Tasks
<1>20. ASSUME NEW k \in Tasks, LookForSession(k) PROVE TaskTypes'
  BY <1>0, <1>20 DEF LookForSession, TaskTypes, Jobs, Tasks
<1>21. ASSUME NEW k \in Tasks, LoadState(k) PROVE TaskTypes'
  BY <1>0, <1>21 DEF LoadState, ChanInv, Engaged, StateTypes, TaskTypes, Jobs, Tasks
<1>22. ASSUME NEW k \in Tasks, CreateGroup(k) PROVE TaskTypes'
  BY <1>0, <1>22 DEF CreateGroup, States, TaskTypes, Jobs, Tasks
<1>23. ASSUME NEW k \in Tasks, InsertSession(k) PROVE TaskTypes'
  BY <1>0, <1>23 DEF InsertSession, TaskTypes, Jobs, Tasks
<1>24. ASSUME NEW c \in Channels, StartOpening(c) PROVE TaskTypes'
  <2>1. [task[Opener] EXCEPT !.step = "look", !.chan = c] \in Jobs
    BY <1>0 DEF TaskTypes, Jobs, Tasks
  <2>2. task' = [task EXCEPT ![Opener] = [task[Opener] EXCEPT !.step = "look", !.chan = c]]
    BY <1>0, <1>24 DEF StartOpening, TaskTypes, Tasks
  <2> QED
    BY <1>0, <2>1, <2>2 DEF TaskTypes, Tasks
<1>25. ASSUME NEW c \in Channels, PersistSession(c) PROVE TaskTypes'
  BY <1>0, <1>25 DEF PersistSession, TaskTypes, Jobs, Tasks
<1>26. CASE OpenerDone
  <2>1. Idle \in Jobs
    BY DEF Idle, Jobs, States
  <2> QED
    BY <1>0, <1>26, <2>1 DEF OpenerDone, TaskTypes
<1>27. CASE Restart
  <2>1. Idle \in Jobs /\ [Idle EXCEPT !.step = "over"] \in Jobs
    BY DEF Idle, Jobs, States
  <2> QED
    BY <1>0, <1>27, <2>1 DEF Restart, TaskTypes
<1> QED
  BY <1>1, <1>2, <1>3, <1>4, <1>5, <1>6, <1>7, <1>8, <1>9, <1>10, <1>11, <1>12, <1>13,
     <1>14, <1>15, <1>16, <1>17, <1>18, <1>19, <1>20, <1>21, <1>22, <1>23, <1>24,
     <1>25, <1>26, <1>27 DEF Next, ServerStep, DeviceStep

\* A request that carries on has passed its check, after every step.
LEMMA RequestInvKept ==
  ASSUME TypeOK, RequestInv, [Next]_vars
  PROVE  RequestInv'
<1> USE DEF serverVars, requestVars, clientVars
<1>0. ServerTypes /\ UploadTypes /\ FetchTypes /\ StateTypes /\ TaskTypes
  BY TypeParts
<1>1. CASE UNCHANGED vars
  BY <1>0, <1>1 DEF vars, RequestInv
<1>2. CASE Tick
  BY <1>0, <1>2 DEF Tick, ServerTypes, UploadTypes, FetchTypes, Requests, RequestInv
<1>3. CASE Register
  BY OvertakenFields, <1>0, <1>3 DEF Register, ServerTypes, UploadTypes, FetchTypes, Requests, RequestInv
<1>4. ASSUME NEW t \in Tokens, StartLink(t) PROVE RequestInv'
  BY OvertakenFields, <1>0, <1>4 DEF StartLink, ServerTypes, UploadTypes, FetchTypes, Requests, RequestInv
<1>5. ASSUME NEW t \in Tokens, Complete(t) PROVE RequestInv'
  BY OvertakenFields, <1>0, <1>5 DEF Complete, ServerTypes, UploadTypes, FetchTypes, Requests, RequestInv
<1>6. ASSUME NEW u \in Uploads, NEW t \in Tokens, CheckUpload(u, t) PROVE RequestInv'
  BY <1>0, <1>6 DEF CheckUpload, Usable, ServerTypes, UploadTypes, FetchTypes, Requests, RequestInv
<1>7. ASSUME NEW u \in Uploads, StoreBundle(u) PROVE RequestInv'
  BY OvertakenFields, <1>0, <1>7 DEF StoreBundle, ServerTypes, UploadTypes, FetchTypes, Requests, RequestInv
<1>8. ASSUME NEW u \in Uploads, UploadFails(u) PROVE RequestInv'
  BY <1>0, <1>8 DEF UploadFails, ServerTypes, UploadTypes, FetchTypes, Requests, RequestInv
<1>9. ASSUME NEW u \in Uploads, NEW chans \in SUBSET Channels, Export(u, chans) PROVE RequestInv'
  BY <1>0, <1>9 DEF Export, ServerTypes, UploadTypes, FetchTypes, Requests, RequestInv
<1>10. ASSUME NEW f \in Fetches, NEW t \in Tokens, CheckFetch(f, t) PROVE RequestInv'
  BY <1>0, <1>10 DEF CheckFetch, ServerTypes, UploadTypes, FetchTypes, Requests, RequestInv
<1>11. ASSUME NEW f \in Fetches, SelectBundle(f) PROVE RequestInv'
  <2>1. /\ \A g \in Fetches \ {f} : fetch'[g] = fetch[g]
        /\ fetch[f].state = "checked" /\ fetch'[f].token = fetch[f].token
        /\ fetch'[f].state \in {"selected", "refused"}
        /\ fetch'[f].state = "selected" =>
             box[fetch[f].token].open /\ fetch'[f].bundle = box[fetch[f].token].bundle
    BY <1>0, <1>11 DEF SelectBundle, FetchTypes, Requests
  <2>2. UNCHANGED <<upload, token, box>>
    BY <1>11 DEF SelectBundle
  <2> QED
    BY <2>1, <2>2 DEF RequestInv
<1>12. ASSUME NEW f \in Fetches, ConsumeBundle(f) PROVE RequestInv'
  BY OvertakenFields, <1>0, <1>12 DEF ConsumeBundle, ServerTypes, UploadTypes, FetchTypes, Requests, RequestInv
<1>13. ASSUME NEW f \in Fetches, FetchFails(f) PROVE RequestInv'
  BY <1>0, <1>13 DEF FetchFails, ServerTypes, UploadTypes, FetchTypes, Requests, RequestInv
<1>14. ASSUME NEW f \in Fetches, LoseAnswer(f) PROVE RequestInv'
  BY <1>0, <1>14 DEF LoseAnswer, ServerTypes, UploadTypes, FetchTypes, Requests, RequestInv
<1>15. ASSUME NEW f \in Fetches, StartImport(f) PROVE RequestInv'
  BY <1>0, <1>15 DEF StartImport, NextRecord, Idle, ServerTypes, UploadTypes, FetchTypes, Requests, RequestInv
<1>16. ASSUME NEW f \in Fetches, ImportFails(f) PROVE RequestInv'
  BY <1>0, <1>16 DEF ImportFails, ServerTypes, UploadTypes, FetchTypes, Requests, RequestInv
<1>17. ASSUME NEW f \in Fetches, DropSession(f) PROVE RequestInv'
  BY <1>0, <1>17 DEF DropSession, ServerTypes, UploadTypes, FetchTypes, Requests, RequestInv
<1>18. ASSUME NEW f \in Fetches, MarkChannel(f) PROVE RequestInv'
  BY <1>0, <1>18 DEF MarkChannel, NextRecord, Idle, ServerTypes, UploadTypes, FetchTypes, Requests, RequestInv
<1>19. ASSUME NEW f \in Fetches, NEW c \in Channels, SaveState(f, c) PROVE RequestInv'
  BY <1>0, <1>19 DEF SaveState, ServerTypes, UploadTypes, FetchTypes, Requests, RequestInv
<1>20. ASSUME NEW k \in Tasks, LookForSession(k) PROVE RequestInv'
  BY <1>0, <1>20 DEF LookForSession, ServerTypes, UploadTypes, FetchTypes, Requests, RequestInv
<1>21. ASSUME NEW k \in Tasks, LoadState(k) PROVE RequestInv'
  BY <1>0, <1>21 DEF LoadState, ServerTypes, UploadTypes, FetchTypes, Requests, RequestInv
<1>22. ASSUME NEW k \in Tasks, CreateGroup(k) PROVE RequestInv'
  BY <1>0, <1>22 DEF CreateGroup, ServerTypes, UploadTypes, FetchTypes, Requests, RequestInv
<1>23. ASSUME NEW k \in Tasks, InsertSession(k) PROVE RequestInv'
  BY <1>0, <1>23 DEF InsertSession, ServerTypes, UploadTypes, FetchTypes, Requests, RequestInv
<1>24. ASSUME NEW c \in Channels, StartOpening(c) PROVE RequestInv'
  BY <1>0, <1>24 DEF StartOpening, ServerTypes, UploadTypes, FetchTypes, Requests, RequestInv
<1>25. ASSUME NEW c \in Channels, PersistSession(c) PROVE RequestInv'
  BY <1>0, <1>25 DEF PersistSession, ServerTypes, UploadTypes, FetchTypes, Requests, RequestInv
<1>26. CASE OpenerDone
  BY <1>0, <1>26 DEF OpenerDone, Idle, ServerTypes, UploadTypes, FetchTypes, Requests, RequestInv
<1>27. CASE Restart
  <2>1. \A g \in Fetches :
          /\ fetch'[g].state = fetch[g].state /\ fetch'[g].token = fetch[g].token
          /\ fetch'[g].bundle = fetch[g].bundle
    BY <1>0, <1>27 DEF Restart, FetchTypes, Requests
  <2>2. UNCHANGED <<upload, token, box>>
    BY <1>27 DEF Restart
  <2> QED
    BY <2>1, <2>2 DEF RequestInv
<1> QED
  BY <1>1, <1>2, <1>3, <1>4, <1>5, <1>6, <1>7, <1>8, <1>9, <1>10, <1>11, <1>12, <1>13,
     <1>14, <1>15, <1>16, <1>17, <1>18, <1>19, <1>20, <1>21, <1>22, <1>23, <1>24,
     <1>25, <1>26, <1>27 DEF Next, ServerStep, DeviceStep

\* A clean fetch still sees what it read, after every step.
LEMMA CleanInvKept ==
  ASSUME TypeOK, RequestInv, CleanInv, [Next]_vars
  PROVE  CleanInv'
<1> USE DEF serverVars, requestVars, clientVars
<1>0. ServerTypes /\ UploadTypes /\ FetchTypes /\ StateTypes /\ TaskTypes
  BY TypeParts
<1>1. CASE UNCHANGED vars
  BY <1>0, <1>1 DEF vars, CleanInv
<1>2. CASE Tick
  BY <1>0, <1>2 DEF Tick, ServerTypes, UploadTypes, FetchTypes, Requests, RequestInv, CleanInv
<1>3. CASE Register
  BY OvertakenFields, <1>0, <1>3 DEF Register, ServerTypes, UploadTypes, FetchTypes, Requests, RequestInv, CleanInv
<1>4. ASSUME NEW t \in Tokens, StartLink(t) PROVE CleanInv'
  BY OvertakenFields, <1>0, <1>4 DEF StartLink, ServerTypes, UploadTypes, FetchTypes, Requests, RequestInv, CleanInv
<1>5. ASSUME NEW t \in Tokens, Complete(t) PROVE CleanInv'
  BY OvertakenFields, <1>0, <1>5 DEF Complete, ServerTypes, UploadTypes, FetchTypes, Requests, RequestInv, CleanInv
<1>6. ASSUME NEW u \in Uploads, NEW t \in Tokens, CheckUpload(u, t) PROVE CleanInv'
  BY <1>0, <1>6 DEF CheckUpload, Usable, ServerTypes, UploadTypes, FetchTypes, Requests, RequestInv, CleanInv
<1>7. ASSUME NEW u \in Uploads, StoreBundle(u) PROVE CleanInv'
  BY OvertakenFields, <1>0, <1>7 DEF StoreBundle, ServerTypes, UploadTypes, FetchTypes, Requests, RequestInv, CleanInv
<1>8. ASSUME NEW u \in Uploads, UploadFails(u) PROVE CleanInv'
  BY <1>0, <1>8 DEF UploadFails, ServerTypes, UploadTypes, FetchTypes, Requests, RequestInv, CleanInv
<1>9. ASSUME NEW u \in Uploads, NEW chans \in SUBSET Channels, Export(u, chans) PROVE CleanInv'
  BY <1>0, <1>9 DEF Export, ServerTypes, UploadTypes, FetchTypes, Requests, RequestInv, CleanInv
<1>10. ASSUME NEW f \in Fetches, NEW t \in Tokens, CheckFetch(f, t) PROVE CleanInv'
  BY <1>0, <1>10 DEF CheckFetch, ServerTypes, UploadTypes, FetchTypes, Requests, RequestInv, CleanInv
<1>11. ASSUME NEW f \in Fetches, SelectBundle(f) PROVE CleanInv'
  <2>1. /\ \A g \in Fetches \ {f} : fetch'[g] = fetch[g]
        /\ fetch[f].token \in Tokens /\ fetch'[f].token = fetch[f].token /\ box' = box
        /\ fetch'[f].state = "selected" =>
             box[fetch[f].token].open /\ fetch'[f].bundle = box[fetch[f].token].bundle
    BY <1>0, <1>11 DEF SelectBundle, FetchTypes, Requests, RequestInv
  <2> QED
    BY <2>1 DEF CleanInv
<1>12. ASSUME NEW f \in Fetches, ConsumeBundle(f) PROVE CleanInv'
  BY OvertakenFields, <1>0, <1>12 DEF ConsumeBundle, ServerTypes, UploadTypes, FetchTypes, Requests, RequestInv, CleanInv
<1>13. ASSUME NEW f \in Fetches, FetchFails(f) PROVE CleanInv'
  BY <1>0, <1>13 DEF FetchFails, ServerTypes, UploadTypes, FetchTypes, Requests, RequestInv, CleanInv
<1>14. ASSUME NEW f \in Fetches, LoseAnswer(f) PROVE CleanInv'
  BY <1>0, <1>14 DEF LoseAnswer, ServerTypes, UploadTypes, FetchTypes, Requests, RequestInv, CleanInv
<1>15. ASSUME NEW f \in Fetches, StartImport(f) PROVE CleanInv'
  BY <1>0, <1>15 DEF StartImport, NextRecord, Idle, ServerTypes, UploadTypes, FetchTypes, Requests, RequestInv, CleanInv
<1>16. ASSUME NEW f \in Fetches, ImportFails(f) PROVE CleanInv'
  BY <1>0, <1>16 DEF ImportFails, ServerTypes, UploadTypes, FetchTypes, Requests, RequestInv, CleanInv
<1>17. ASSUME NEW f \in Fetches, DropSession(f) PROVE CleanInv'
  BY <1>0, <1>17 DEF DropSession, ServerTypes, UploadTypes, FetchTypes, Requests, RequestInv, CleanInv
<1>18. ASSUME NEW f \in Fetches, MarkChannel(f) PROVE CleanInv'
  BY <1>0, <1>18 DEF MarkChannel, NextRecord, Idle, ServerTypes, UploadTypes, FetchTypes, Requests, RequestInv, CleanInv
<1>19. ASSUME NEW f \in Fetches, NEW c \in Channels, SaveState(f, c) PROVE CleanInv'
  BY <1>0, <1>19 DEF SaveState, ServerTypes, UploadTypes, FetchTypes, Requests, RequestInv, CleanInv
<1>20. ASSUME NEW k \in Tasks, LookForSession(k) PROVE CleanInv'
  BY <1>0, <1>20 DEF LookForSession, ServerTypes, UploadTypes, FetchTypes, Requests, RequestInv, CleanInv
<1>21. ASSUME NEW k \in Tasks, LoadState(k) PROVE CleanInv'
  BY <1>0, <1>21 DEF LoadState, ServerTypes, UploadTypes, FetchTypes, Requests, RequestInv, CleanInv
<1>22. ASSUME NEW k \in Tasks, CreateGroup(k) PROVE CleanInv'
  BY <1>0, <1>22 DEF CreateGroup, ServerTypes, UploadTypes, FetchTypes, Requests, RequestInv, CleanInv
<1>23. ASSUME NEW k \in Tasks, InsertSession(k) PROVE CleanInv'
  BY <1>0, <1>23 DEF InsertSession, ServerTypes, UploadTypes, FetchTypes, Requests, RequestInv, CleanInv
<1>24. ASSUME NEW c \in Channels, StartOpening(c) PROVE CleanInv'
  BY <1>0, <1>24 DEF StartOpening, ServerTypes, UploadTypes, FetchTypes, Requests, RequestInv, CleanInv
<1>25. ASSUME NEW c \in Channels, PersistSession(c) PROVE CleanInv'
  BY <1>0, <1>25 DEF PersistSession, ServerTypes, UploadTypes, FetchTypes, Requests, RequestInv, CleanInv
<1>26. CASE OpenerDone
  BY <1>0, <1>26 DEF OpenerDone, Idle, ServerTypes, UploadTypes, FetchTypes, Requests, RequestInv, CleanInv
<1>27. CASE Restart
  <2>1. \A g \in Fetches :
          /\ fetch'[g].state = fetch[g].state /\ fetch'[g].token = fetch[g].token
          /\ fetch'[g].bundle = fetch[g].bundle /\ fetch'[g].clean = fetch[g].clean
    BY <1>0, <1>27 DEF Restart, FetchTypes, Requests
  <2> QED
    BY <1>27, <2>1 DEF CleanInv, Restart
<1> QED
  BY <1>1, <1>2, <1>3, <1>4, <1>5, <1>6, <1>7, <1>8, <1>9, <1>10, <1>11, <1>12, <1>13,
     <1>14, <1>15, <1>16, <1>17, <1>18, <1>19, <1>20, <1>21, <1>22, <1>23, <1>24,
     <1>25, <1>26, <1>27 DEF Next, ServerStep, DeviceStep

\* A task that is under way has its channel and its bundle, after every step.
LEMMA ChanInvKept ==
  ASSUME TypeOK, ChanInv, [Next]_vars
  PROVE  ChanInv'
<1> USE DEF serverVars, requestVars, clientVars
<1>0. ServerTypes /\ UploadTypes /\ FetchTypes /\ StateTypes /\ TaskTypes
  BY TypeParts
<1>1. CASE UNCHANGED vars
  BY <1>0, NameAssumption, <1>1 DEF vars, ChanInv
<1>2. CASE Tick
  BY <1>0, NameAssumption, <1>2 DEF Tick, FetchTypes, Requests, TaskTypes, Jobs, ChanInv, Engaged, Tasks
<1>3. CASE Register
  BY OvertakenFields, <1>0, NameAssumption, <1>3 DEF Register, FetchTypes, Requests, TaskTypes, Jobs, ChanInv, Engaged, Tasks
<1>4. ASSUME NEW t \in Tokens, StartLink(t) PROVE ChanInv'
  BY OvertakenFields, <1>0, NameAssumption, <1>4 DEF StartLink, FetchTypes, Requests, TaskTypes, Jobs, ChanInv, Engaged, Tasks
<1>5. ASSUME NEW t \in Tokens, Complete(t) PROVE ChanInv'
  BY OvertakenFields, <1>0, NameAssumption, <1>5 DEF Complete, FetchTypes, Requests, TaskTypes, Jobs, ChanInv, Engaged, Tasks
<1>6. ASSUME NEW u \in Uploads, NEW t \in Tokens, CheckUpload(u, t) PROVE ChanInv'
  BY <1>0, NameAssumption, <1>6 DEF CheckUpload, Usable, FetchTypes, Requests, TaskTypes, Jobs, ChanInv, Engaged, Tasks
<1>7. ASSUME NEW u \in Uploads, StoreBundle(u) PROVE ChanInv'
  BY OvertakenFields, <1>0, NameAssumption, <1>7 DEF StoreBundle, FetchTypes, Requests, TaskTypes, Jobs, ChanInv, Engaged, Tasks
<1>8. ASSUME NEW u \in Uploads, UploadFails(u) PROVE ChanInv'
  BY <1>0, NameAssumption, <1>8 DEF UploadFails, FetchTypes, Requests, TaskTypes, Jobs, ChanInv, Engaged, Tasks
<1>9. ASSUME NEW u \in Uploads, NEW chans \in SUBSET Channels, Export(u, chans) PROVE ChanInv'
  BY <1>0, NameAssumption, <1>9 DEF Export, FetchTypes, Requests, TaskTypes, Jobs, ChanInv, Engaged, Tasks
<1>10. ASSUME NEW f \in Fetches, NEW t \in Tokens, CheckFetch(f, t) PROVE ChanInv'
  BY <1>0, NameAssumption, <1>10 DEF CheckFetch, FetchTypes, Requests, TaskTypes, Jobs, ChanInv, Engaged, Tasks
<1>11. ASSUME NEW f \in Fetches, SelectBundle(f) PROVE ChanInv'
  BY <1>0, NameAssumption, <1>11 DEF SelectBundle, FetchTypes, Requests, TaskTypes, Jobs, ChanInv, Engaged, Tasks
<1>12. ASSUME NEW f \in Fetches, ConsumeBundle(f) PROVE ChanInv'
  BY OvertakenFields, <1>0, NameAssumption, <1>12 DEF ConsumeBundle, FetchTypes, Requests, TaskTypes, Jobs, ChanInv, Engaged, Tasks
<1>13. ASSUME NEW f \in Fetches, FetchFails(f) PROVE ChanInv'
  BY <1>0, NameAssumption, <1>13 DEF FetchFails, FetchTypes, Requests, TaskTypes, Jobs, ChanInv, Engaged, Tasks
<1>14. ASSUME NEW f \in Fetches, LoseAnswer(f) PROVE ChanInv'
  BY <1>0, NameAssumption, <1>14 DEF LoseAnswer, FetchTypes, Requests, TaskTypes, Jobs, ChanInv, Engaged, Tasks
<1>15. ASSUME NEW f \in Fetches, StartImport(f) PROVE ChanInv'
  BY <1>0, NameAssumption, <1>15 DEF StartImport, NextRecord, Idle, FetchTypes, Requests, TaskTypes, Jobs, ChanInv, Engaged, Tasks
<1>16. ASSUME NEW f \in Fetches, ImportFails(f) PROVE ChanInv'
  BY <1>0, NameAssumption, <1>16 DEF ImportFails, FetchTypes, Requests, TaskTypes, Jobs, ChanInv, Engaged, Tasks
<1>17. ASSUME NEW f \in Fetches, DropSession(f) PROVE ChanInv'
  BY <1>0, NameAssumption, <1>17 DEF DropSession, FetchTypes, Requests, TaskTypes, Jobs, ChanInv, Engaged, Tasks
<1>18. ASSUME NEW f \in Fetches, MarkChannel(f) PROVE ChanInv'
  BY <1>0, NameAssumption, <1>18 DEF MarkChannel, NextRecord, Idle, FetchTypes, Requests, TaskTypes, Jobs, ChanInv, Engaged, Tasks
<1>19. ASSUME NEW f \in Fetches, NEW c \in Channels, SaveState(f, c) PROVE ChanInv'
  BY <1>0, NameAssumption, <1>19 DEF SaveState, FetchTypes, Requests, TaskTypes, Jobs, ChanInv, Engaged, Tasks
<1>20. ASSUME NEW k \in Tasks, LookForSession(k) PROVE ChanInv'
  BY <1>0, NameAssumption, <1>20 DEF LookForSession, FetchTypes, Requests, TaskTypes, Jobs, ChanInv, Engaged, Tasks
<1>21. ASSUME NEW k \in Tasks, LoadState(k) PROVE ChanInv'
  BY <1>0, NameAssumption, <1>21 DEF LoadState, FetchTypes, Requests, TaskTypes, Jobs, ChanInv, Engaged, Tasks
<1>22. ASSUME NEW k \in Tasks, CreateGroup(k) PROVE ChanInv'
  BY <1>0, NameAssumption, <1>22 DEF CreateGroup, FetchTypes, Requests, TaskTypes, Jobs, ChanInv, Engaged, Tasks
<1>23. ASSUME NEW k \in Tasks, InsertSession(k) PROVE ChanInv'
  BY <1>0, NameAssumption, <1>23 DEF InsertSession, FetchTypes, Requests, TaskTypes, Jobs, ChanInv, Engaged, Tasks
<1>24. ASSUME NEW c \in Channels, StartOpening(c) PROVE ChanInv'
  BY <1>0, NameAssumption, <1>24 DEF StartOpening, FetchTypes, Requests, TaskTypes, Jobs, ChanInv, Engaged, Tasks
<1>25. ASSUME NEW c \in Channels, PersistSession(c) PROVE ChanInv'
  BY <1>0, NameAssumption, <1>25 DEF PersistSession, FetchTypes, Requests, TaskTypes, Jobs, ChanInv, Engaged, Tasks
<1>26. CASE OpenerDone
  BY <1>0, NameAssumption, <1>26 DEF OpenerDone, Idle, FetchTypes, Requests, TaskTypes, Jobs, ChanInv, Engaged, Tasks
<1>27. CASE Restart
  BY <1>0, NameAssumption, <1>27 DEF Restart, Idle, FetchTypes, Requests, TaskTypes, Jobs, ChanInv, Engaged, Tasks
<1> QED
  BY <1>1, <1>2, <1>3, <1>4, <1>5, <1>6, <1>7, <1>8, <1>9, <1>10, <1>11, <1>12, <1>13,
     <1>14, <1>15, <1>16, <1>17, <1>18, <1>19, <1>20, <1>21, <1>22, <1>23, <1>24,
     <1>25, <1>26, <1>27 DEF Next, ServerStep, DeviceStep

\* Without a session somebody is about to reopen it, after every step.
LEMMA DropInvKept ==
  ASSUME TypeOK, ChanInv, DropInv, [Next]_vars
  PROVE  DropInv'
<1> USE DEF serverVars, requestVars, clientVars
<1>0. ServerTypes /\ UploadTypes /\ FetchTypes /\ StateTypes /\ TaskTypes
  BY TypeParts
<1>1. CASE UNCHANGED vars
  BY <1>0, NameAssumption, <1>1 DEF vars, DropInv, Dropper
<1>2. CASE Tick
  BY <1>0, NameAssumption, <1>2 DEF Tick, FetchTypes, Requests, StateTypes, States, TaskTypes, Jobs, ChanInv, DropInv, Dropper, Engaged, Tasks
<1>3. CASE Register
  BY OvertakenFields, <1>0, NameAssumption, <1>3 DEF Register, FetchTypes, Requests, StateTypes, States, TaskTypes, Jobs, ChanInv, DropInv, Dropper, Engaged, Tasks
<1>4. ASSUME NEW t \in Tokens, StartLink(t) PROVE DropInv'
  BY OvertakenFields, <1>0, NameAssumption, <1>4 DEF StartLink, FetchTypes, Requests, StateTypes, States, TaskTypes, Jobs, ChanInv, DropInv, Dropper, Engaged, Tasks
<1>5. ASSUME NEW t \in Tokens, Complete(t) PROVE DropInv'
  BY OvertakenFields, <1>0, NameAssumption, <1>5 DEF Complete, FetchTypes, Requests, StateTypes, States, TaskTypes, Jobs, ChanInv, DropInv, Dropper, Engaged, Tasks
<1>6. ASSUME NEW u \in Uploads, NEW t \in Tokens, CheckUpload(u, t) PROVE DropInv'
  BY <1>0, NameAssumption, <1>6 DEF CheckUpload, Usable, FetchTypes, Requests, StateTypes, States, TaskTypes, Jobs, ChanInv, DropInv, Dropper, Engaged, Tasks
<1>7. ASSUME NEW u \in Uploads, StoreBundle(u) PROVE DropInv'
  BY OvertakenFields, <1>0, NameAssumption, <1>7 DEF StoreBundle, FetchTypes, Requests, StateTypes, States, TaskTypes, Jobs, ChanInv, DropInv, Dropper, Engaged, Tasks
<1>8. ASSUME NEW u \in Uploads, UploadFails(u) PROVE DropInv'
  BY <1>0, NameAssumption, <1>8 DEF UploadFails, FetchTypes, Requests, StateTypes, States, TaskTypes, Jobs, ChanInv, DropInv, Dropper, Engaged, Tasks
<1>9. ASSUME NEW u \in Uploads, NEW chans \in SUBSET Channels, Export(u, chans) PROVE DropInv'
  BY <1>0, NameAssumption, <1>9 DEF Export, FetchTypes, Requests, StateTypes, States, TaskTypes, Jobs, ChanInv, DropInv, Dropper, Engaged, Tasks
<1>10. ASSUME NEW f \in Fetches, NEW t \in Tokens, CheckFetch(f, t) PROVE DropInv'
  BY <1>0, NameAssumption, <1>10 DEF CheckFetch, FetchTypes, Requests, StateTypes, States, TaskTypes, Jobs, ChanInv, DropInv, Dropper, Engaged, Tasks
<1>11. ASSUME NEW f \in Fetches, SelectBundle(f) PROVE DropInv'
  BY <1>0, NameAssumption, <1>11 DEF SelectBundle, FetchTypes, Requests, StateTypes, States, TaskTypes, Jobs, ChanInv, DropInv, Dropper, Engaged, Tasks
<1>12. ASSUME NEW f \in Fetches, ConsumeBundle(f) PROVE DropInv'
  BY OvertakenFields, <1>0, NameAssumption, <1>12 DEF ConsumeBundle, FetchTypes, Requests, StateTypes, States, TaskTypes, Jobs, ChanInv, DropInv, Dropper, Engaged, Tasks
<1>13. ASSUME NEW f \in Fetches, FetchFails(f) PROVE DropInv'
  BY <1>0, NameAssumption, <1>13 DEF FetchFails, FetchTypes, Requests, StateTypes, States, TaskTypes, Jobs, ChanInv, DropInv, Dropper, Engaged, Tasks
<1>14. ASSUME NEW f \in Fetches, LoseAnswer(f) PROVE DropInv'
  BY <1>0, NameAssumption, <1>14 DEF LoseAnswer, FetchTypes, Requests, StateTypes, States, TaskTypes, Jobs, ChanInv, DropInv, Dropper, Engaged, Tasks
<1>15. ASSUME NEW f \in Fetches, StartImport(f) PROVE DropInv'
  BY <1>0, NameAssumption, <1>15 DEF StartImport, NextRecord, Idle, FetchTypes, Requests, StateTypes, States, TaskTypes, Jobs, ChanInv, DropInv, Dropper, Engaged, Tasks
<1>16. ASSUME NEW f \in Fetches, ImportFails(f) PROVE DropInv'
  BY <1>0, NameAssumption, <1>16 DEF ImportFails, FetchTypes, Requests, StateTypes, States, TaskTypes, Jobs, ChanInv, DropInv, Dropper, Engaged, Tasks
<1>17. ASSUME NEW f \in Fetches, DropSession(f) PROVE DropInv'
  BY <1>0, NameAssumption, <1>17 DEF DropSession, FetchTypes, Requests, StateTypes, States, TaskTypes, Jobs, ChanInv, DropInv, Dropper, Engaged, Tasks
<1>18. ASSUME NEW f \in Fetches, MarkChannel(f) PROVE DropInv'
  BY <1>0, NameAssumption, <1>18 DEF MarkChannel, NextRecord, Idle, FetchTypes, Requests, StateTypes, States, TaskTypes, Jobs, ChanInv, DropInv, Dropper, Engaged, Tasks
<1>19. ASSUME NEW f \in Fetches, NEW c \in Channels, SaveState(f, c) PROVE DropInv'
  BY <1>0, NameAssumption, <1>19 DEF SaveState, FetchTypes, Requests, StateTypes, States, TaskTypes, Jobs, ChanInv, DropInv, Dropper, Engaged, Tasks
<1>20. ASSUME NEW k \in Tasks, LookForSession(k) PROVE DropInv'
  BY <1>0, NameAssumption, <1>20 DEF LookForSession, FetchTypes, Requests, StateTypes, States, TaskTypes, Jobs, ChanInv, DropInv, Dropper, Engaged, Tasks
<1>21. ASSUME NEW k \in Tasks, LoadState(k) PROVE DropInv'
  BY <1>0, NameAssumption, <1>21 DEF LoadState, FetchTypes, Requests, StateTypes, States, TaskTypes, Jobs, ChanInv, DropInv, Dropper, Engaged, Tasks
<1>22. ASSUME NEW k \in Tasks, CreateGroup(k) PROVE DropInv'
  BY <1>0, NameAssumption, <1>22 DEF CreateGroup, FetchTypes, Requests, StateTypes, States, TaskTypes, Jobs, ChanInv, DropInv, Dropper, Engaged, Tasks
<1>23. ASSUME NEW k \in Tasks, InsertSession(k) PROVE DropInv'
  BY <1>0, NameAssumption, <1>23 DEF InsertSession, FetchTypes, Requests, StateTypes, States, TaskTypes, Jobs, ChanInv, DropInv, Dropper, Engaged, Tasks
<1>24. ASSUME NEW c \in Channels, StartOpening(c) PROVE DropInv'
  BY <1>0, NameAssumption, <1>24 DEF StartOpening, FetchTypes, Requests, StateTypes, States, TaskTypes, Jobs, ChanInv, DropInv, Dropper, Engaged, Tasks
<1>25. ASSUME NEW c \in Channels, PersistSession(c) PROVE DropInv'
  BY <1>0, NameAssumption, <1>25 DEF PersistSession, FetchTypes, Requests, StateTypes, States, TaskTypes, Jobs, ChanInv, DropInv, Dropper, Engaged, Tasks
<1>26. CASE OpenerDone
  BY <1>0, NameAssumption, <1>26 DEF OpenerDone, Idle, FetchTypes, Requests, StateTypes, States, TaskTypes, Jobs, ChanInv, DropInv, Dropper, Engaged, Tasks
<1>27. CASE Restart
  BY <1>0, NameAssumption, <1>27 DEF Restart, Idle, FetchTypes, Requests, StateTypes, States, TaskTypes, Jobs, ChanInv, DropInv, Dropper, Engaged, Tasks
<1> QED
  BY <1>1, <1>2, <1>3, <1>4, <1>5, <1>6, <1>7, <1>8, <1>9, <1>10, <1>11, <1>12, <1>13,
     <1>14, <1>15, <1>16, <1>17, <1>18, <1>19, <1>20, <1>21, <1>22, <1>23, <1>24,
     <1>25, <1>26, <1>27 DEF Next, ServerStep, DeviceStep

\* Two tasks at one channel are recorded, after every step.
LEMMA AloneInvKept ==
  ASSUME TypeOK, ChanInv, AloneInv, [Next]_vars
  PROVE  AloneInv'
<1> USE DEF serverVars, requestVars, clientVars
<1>0. ServerTypes /\ UploadTypes /\ FetchTypes /\ StateTypes /\ TaskTypes
  BY TypeParts
<1>1. CASE UNCHANGED vars
  BY <1>0, NameAssumption, <1>1 DEF vars, AloneInv
<1>2. CASE Tick
  BY <1>0, NameAssumption, <1>2 DEF Tick, TaskTypes, Jobs, ChanInv, AloneInv, Engaged, Tasks
<1>3. CASE Register
  BY OvertakenFields, <1>0, NameAssumption, <1>3 DEF Register, TaskTypes, Jobs, ChanInv, AloneInv, Engaged, Tasks
<1>4. ASSUME NEW t \in Tokens, StartLink(t) PROVE AloneInv'
  BY OvertakenFields, <1>0, NameAssumption, <1>4 DEF StartLink, TaskTypes, Jobs, ChanInv, AloneInv, Engaged, Tasks
<1>5. ASSUME NEW t \in Tokens, Complete(t) PROVE AloneInv'
  BY OvertakenFields, <1>0, NameAssumption, <1>5 DEF Complete, TaskTypes, Jobs, ChanInv, AloneInv, Engaged, Tasks
<1>6. ASSUME NEW u \in Uploads, NEW t \in Tokens, CheckUpload(u, t) PROVE AloneInv'
  BY <1>0, NameAssumption, <1>6 DEF CheckUpload, Usable, TaskTypes, Jobs, ChanInv, AloneInv, Engaged, Tasks
<1>7. ASSUME NEW u \in Uploads, StoreBundle(u) PROVE AloneInv'
  BY OvertakenFields, <1>0, NameAssumption, <1>7 DEF StoreBundle, TaskTypes, Jobs, ChanInv, AloneInv, Engaged, Tasks
<1>8. ASSUME NEW u \in Uploads, UploadFails(u) PROVE AloneInv'
  BY <1>0, NameAssumption, <1>8 DEF UploadFails, TaskTypes, Jobs, ChanInv, AloneInv, Engaged, Tasks
<1>9. ASSUME NEW u \in Uploads, NEW chans \in SUBSET Channels, Export(u, chans) PROVE AloneInv'
  BY <1>0, NameAssumption, <1>9 DEF Export, TaskTypes, Jobs, ChanInv, AloneInv, Engaged, Tasks
<1>10. ASSUME NEW f \in Fetches, NEW t \in Tokens, CheckFetch(f, t) PROVE AloneInv'
  BY <1>0, NameAssumption, <1>10 DEF CheckFetch, TaskTypes, Jobs, ChanInv, AloneInv, Engaged, Tasks
<1>11. ASSUME NEW f \in Fetches, SelectBundle(f) PROVE AloneInv'
  BY <1>0, NameAssumption, <1>11 DEF SelectBundle, TaskTypes, Jobs, ChanInv, AloneInv, Engaged, Tasks
<1>12. ASSUME NEW f \in Fetches, ConsumeBundle(f) PROVE AloneInv'
  BY OvertakenFields, <1>0, NameAssumption, <1>12 DEF ConsumeBundle, TaskTypes, Jobs, ChanInv, AloneInv, Engaged, Tasks
<1>13. ASSUME NEW f \in Fetches, FetchFails(f) PROVE AloneInv'
  BY <1>0, NameAssumption, <1>13 DEF FetchFails, TaskTypes, Jobs, ChanInv, AloneInv, Engaged, Tasks
<1>14. ASSUME NEW f \in Fetches, LoseAnswer(f) PROVE AloneInv'
  BY <1>0, NameAssumption, <1>14 DEF LoseAnswer, TaskTypes, Jobs, ChanInv, AloneInv, Engaged, Tasks
<1>15. ASSUME NEW f \in Fetches, StartImport(f) PROVE AloneInv'
  BY <1>0, NameAssumption, <1>15 DEF StartImport, NextRecord, Idle, TaskTypes, Jobs, ChanInv, AloneInv, Engaged, Tasks
<1>16. ASSUME NEW f \in Fetches, ImportFails(f) PROVE AloneInv'
  BY <1>0, NameAssumption, <1>16 DEF ImportFails, TaskTypes, Jobs, ChanInv, AloneInv, Engaged, Tasks
<1>17. ASSUME NEW f \in Fetches, DropSession(f) PROVE AloneInv'
  BY <1>0, NameAssumption, <1>17 DEF DropSession, TaskTypes, Jobs, ChanInv, AloneInv, Engaged, Tasks
<1>18. ASSUME NEW f \in Fetches, MarkChannel(f) PROVE AloneInv'
  BY <1>0, NameAssumption, <1>18 DEF MarkChannel, NextRecord, Idle, TaskTypes, Jobs, ChanInv, AloneInv, Engaged, Tasks
<1>19. ASSUME NEW f \in Fetches, NEW c \in Channels, SaveState(f, c) PROVE AloneInv'
  BY <1>0, NameAssumption, <1>19 DEF SaveState, Importing, Opening, TaskTypes, Jobs, ChanInv, AloneInv, Engaged, Tasks
<1>20. ASSUME NEW k \in Tasks, LookForSession(k) PROVE AloneInv'
  BY <1>0, NameAssumption, <1>20 DEF LookForSession, TaskTypes, Jobs, ChanInv, AloneInv, Engaged, Tasks
<1>21. ASSUME NEW k \in Tasks, LoadState(k) PROVE AloneInv'
  BY <1>0, NameAssumption, <1>21 DEF LoadState, TaskTypes, Jobs, ChanInv, AloneInv, Engaged, Tasks
<1>22. ASSUME NEW k \in Tasks, CreateGroup(k) PROVE AloneInv'
  BY <1>0, NameAssumption, <1>22 DEF CreateGroup, TaskTypes, Jobs, ChanInv, AloneInv, Engaged, Tasks
<1>23. ASSUME NEW k \in Tasks, InsertSession(k) PROVE AloneInv'
  BY <1>0, NameAssumption, <1>23 DEF InsertSession, TaskTypes, Jobs, ChanInv, AloneInv, Engaged, Tasks
<1>24. ASSUME NEW c \in Channels, StartOpening(c) PROVE AloneInv'
  BY <1>0, NameAssumption, <1>24 DEF StartOpening, Importing, Opening, TaskTypes, Jobs, ChanInv, AloneInv, Engaged, Tasks
<1>25. ASSUME NEW c \in Channels, PersistSession(c) PROVE AloneInv'
  BY <1>0, NameAssumption, <1>25 DEF PersistSession, TaskTypes, Jobs, ChanInv, AloneInv, Engaged, Tasks
<1>26. CASE OpenerDone
  BY <1>0, NameAssumption, <1>26 DEF OpenerDone, Idle, TaskTypes, Jobs, ChanInv, AloneInv, Engaged, Tasks
<1>27. CASE Restart
  BY <1>0, NameAssumption, <1>27 DEF Restart, Idle, TaskTypes, Jobs, ChanInv, AloneInv, Engaged, Tasks
<1> QED
  BY <1>1, <1>2, <1>3, <1>4, <1>5, <1>6, <1>7, <1>8, <1>9, <1>10, <1>11, <1>12, <1>13,
     <1>14, <1>15, <1>16, <1>17, <1>18, <1>19, <1>20, <1>21, <1>22, <1>23, <1>24,
     <1>25, <1>26, <1>27 DEF Next, ServerStep, DeviceStep

\* An import that is alone finds its own state, after every step.
LEMMA StepInvKept ==
  ASSUME TypeOK, RequestInv, ChanInv, AloneInv, StepInv, [Next]_vars
  PROVE  StepInv'
<1> USE DEF serverVars, requestVars, clientVars
<1>0. ServerTypes /\ UploadTypes /\ FetchTypes /\ StateTypes /\ TaskTypes
  BY TypeParts
<1>1. CASE UNCHANGED vars
  BY <1>0, NameAssumption, <1>1 DEF vars, StepInv
<1>2. CASE Tick
  BY <1>0, NameAssumption, <1>2 DEF Tick, FetchTypes, Requests, StateTypes, States, TaskTypes, Jobs, RequestInv, ChanInv, AloneInv, StepInv, Engaged, Tasks
<1>3. CASE Register
  BY OvertakenFields, <1>0, NameAssumption, <1>3 DEF Register, FetchTypes, Requests, StateTypes, States, TaskTypes, Jobs, RequestInv, ChanInv, AloneInv, StepInv, Engaged, Tasks
<1>4. ASSUME NEW t \in Tokens, StartLink(t) PROVE StepInv'
  BY OvertakenFields, <1>0, NameAssumption, <1>4 DEF StartLink, FetchTypes, Requests, StateTypes, States, TaskTypes, Jobs, RequestInv, ChanInv, AloneInv, StepInv, Engaged, Tasks
<1>5. ASSUME NEW t \in Tokens, Complete(t) PROVE StepInv'
  BY OvertakenFields, <1>0, NameAssumption, <1>5 DEF Complete, FetchTypes, Requests, StateTypes, States, TaskTypes, Jobs, RequestInv, ChanInv, AloneInv, StepInv, Engaged, Tasks
<1>6. ASSUME NEW u \in Uploads, NEW t \in Tokens, CheckUpload(u, t) PROVE StepInv'
  BY <1>0, NameAssumption, <1>6 DEF CheckUpload, Usable, FetchTypes, Requests, StateTypes, States, TaskTypes, Jobs, RequestInv, ChanInv, AloneInv, StepInv, Engaged, Tasks
<1>7. ASSUME NEW u \in Uploads, StoreBundle(u) PROVE StepInv'
  BY OvertakenFields, <1>0, NameAssumption, <1>7 DEF StoreBundle, FetchTypes, Requests, StateTypes, States, TaskTypes, Jobs, RequestInv, ChanInv, AloneInv, StepInv, Engaged, Tasks
<1>8. ASSUME NEW u \in Uploads, UploadFails(u) PROVE StepInv'
  BY <1>0, NameAssumption, <1>8 DEF UploadFails, FetchTypes, Requests, StateTypes, States, TaskTypes, Jobs, RequestInv, ChanInv, AloneInv, StepInv, Engaged, Tasks
<1>9. ASSUME NEW u \in Uploads, NEW chans \in SUBSET Channels, Export(u, chans) PROVE StepInv'
  BY <1>0, NameAssumption, <1>9 DEF Export, FetchTypes, Requests, StateTypes, States, TaskTypes, Jobs, RequestInv, ChanInv, AloneInv, StepInv, Engaged, Tasks
<1>10. ASSUME NEW f \in Fetches, NEW t \in Tokens, CheckFetch(f, t) PROVE StepInv'
  BY <1>0, NameAssumption, <1>10 DEF CheckFetch, FetchTypes, Requests, StateTypes, States, TaskTypes, Jobs, RequestInv, ChanInv, AloneInv, StepInv, Engaged, Tasks
<1>11. ASSUME NEW f \in Fetches, SelectBundle(f) PROVE StepInv'
  BY <1>0, NameAssumption, <1>11 DEF SelectBundle, FetchTypes, Requests, StateTypes, States, TaskTypes, Jobs, RequestInv, ChanInv, AloneInv, StepInv, Engaged, Tasks
<1>12. ASSUME NEW f \in Fetches, ConsumeBundle(f) PROVE StepInv'
  BY OvertakenFields, <1>0, NameAssumption, <1>12 DEF ConsumeBundle, FetchTypes, Requests, StateTypes, States, TaskTypes, Jobs, RequestInv, ChanInv, AloneInv, StepInv, Engaged, Tasks
<1>13. ASSUME NEW f \in Fetches, FetchFails(f) PROVE StepInv'
  BY <1>0, NameAssumption, <1>13 DEF FetchFails, FetchTypes, Requests, StateTypes, States, TaskTypes, Jobs, RequestInv, ChanInv, AloneInv, StepInv, Engaged, Tasks
<1>14. ASSUME NEW f \in Fetches, LoseAnswer(f) PROVE StepInv'
  BY <1>0, NameAssumption, <1>14 DEF LoseAnswer, FetchTypes, Requests, StateTypes, States, TaskTypes, Jobs, RequestInv, ChanInv, AloneInv, StepInv, Engaged, Tasks
<1>15. ASSUME NEW f \in Fetches, StartImport(f) PROVE StepInv'
  BY <1>0, NameAssumption, <1>15 DEF StartImport, NextRecord, Idle, FetchTypes, Requests, StateTypes, States, TaskTypes, Jobs, RequestInv, ChanInv, AloneInv, StepInv, Engaged, Tasks
<1>16. ASSUME NEW f \in Fetches, ImportFails(f) PROVE StepInv'
  BY <1>0, NameAssumption, <1>16 DEF ImportFails, FetchTypes, Requests, StateTypes, States, TaskTypes, Jobs, RequestInv, ChanInv, AloneInv, StepInv, Engaged, Tasks
<1>17. ASSUME NEW f \in Fetches, DropSession(f) PROVE StepInv'
  BY <1>0, NameAssumption, <1>17 DEF DropSession, FetchTypes, Requests, StateTypes, States, TaskTypes, Jobs, RequestInv, ChanInv, AloneInv, StepInv, Engaged, Tasks
<1>18. ASSUME NEW f \in Fetches, MarkChannel(f) PROVE StepInv'
  BY <1>0, NameAssumption, <1>18 DEF MarkChannel, NextRecord, Idle, FetchTypes, Requests, StateTypes, States, TaskTypes, Jobs, RequestInv, ChanInv, AloneInv, StepInv, Engaged, Tasks
<1>19. ASSUME NEW f \in Fetches, NEW c \in Channels, SaveState(f, c) PROVE StepInv'
  BY <1>0, NameAssumption, <1>19 DEF SaveState, Importing, Opening, FetchTypes, Requests, StateTypes, States, TaskTypes, Jobs, RequestInv, ChanInv, AloneInv, StepInv, Engaged, Tasks
<1>20. ASSUME NEW k \in Tasks, LookForSession(k) PROVE StepInv'
  BY <1>0, NameAssumption, <1>20 DEF LookForSession, FetchTypes, Requests, StateTypes, States, TaskTypes, Jobs, RequestInv, ChanInv, AloneInv, StepInv, Engaged, Tasks
<1>21. ASSUME NEW k \in Tasks, LoadState(k) PROVE StepInv'
  BY <1>0, NameAssumption, <1>21 DEF LoadState, FetchTypes, Requests, StateTypes, States, TaskTypes, Jobs, RequestInv, ChanInv, AloneInv, StepInv, Engaged, Tasks
<1>22. ASSUME NEW k \in Tasks, CreateGroup(k) PROVE StepInv'
  BY <1>0, NameAssumption, <1>22 DEF CreateGroup, FetchTypes, Requests, StateTypes, States, TaskTypes, Jobs, RequestInv, ChanInv, AloneInv, StepInv, Engaged, Tasks
<1>23. ASSUME NEW k \in Tasks, InsertSession(k) PROVE StepInv'
  BY <1>0, NameAssumption, <1>23 DEF InsertSession, FetchTypes, Requests, StateTypes, States, TaskTypes, Jobs, RequestInv, ChanInv, AloneInv, StepInv, Engaged, Tasks
<1>24. ASSUME NEW c \in Channels, StartOpening(c) PROVE StepInv'
  BY <1>0, NameAssumption, <1>24 DEF StartOpening, Importing, FetchTypes, Requests, StateTypes, States, TaskTypes, Jobs, RequestInv, ChanInv, AloneInv, StepInv, Engaged, Tasks
<1>25. ASSUME NEW c \in Channels, PersistSession(c) PROVE StepInv'
  BY <1>0, NameAssumption, <1>25 DEF PersistSession, Importing, FetchTypes, Requests, StateTypes, States, TaskTypes, Jobs, RequestInv, ChanInv, AloneInv, StepInv, Engaged, Tasks
<1>26. CASE OpenerDone
  BY <1>0, NameAssumption, <1>26 DEF OpenerDone, Idle, FetchTypes, Requests, StateTypes, States, TaskTypes, Jobs, RequestInv, ChanInv, AloneInv, StepInv, Engaged, Tasks
<1>27. CASE Restart
  BY <1>0, NameAssumption, <1>27 DEF Restart, Idle, FetchTypes, Requests, StateTypes, States, TaskTypes, Jobs, RequestInv, ChanInv, AloneInv, StepInv, Engaged, Tasks
<1> QED
  BY <1>1, <1>2, <1>3, <1>4, <1>5, <1>6, <1>7, <1>8, <1>9, <1>10, <1>11, <1>12, <1>13,
     <1>14, <1>15, <1>16, <1>17, <1>18, <1>19, <1>20, <1>21, <1>22, <1>23, <1>24,
     <1>25, <1>26, <1>27 DEF Next, ServerStep, DeviceStep

\* An import that is through stays in effect, after every step.
LEMMA EffectInvKept ==
  ASSUME TypeOK, RequestInv, ChanInv, AloneInv, StepInv, EffectInv, [Next]_vars
  PROVE  EffectInv'
<1> USE DEF serverVars, requestVars, clientVars
<1>0. ServerTypes /\ UploadTypes /\ FetchTypes /\ StateTypes /\ TaskTypes
  BY TypeParts
<1>1. CASE UNCHANGED vars
  BY <1>0, NameAssumption, <1>1 DEF vars, EffectInv, Reopening
<1>2. CASE Tick
  BY <1>0, NameAssumption, <1>2 DEF Tick, FetchTypes, Requests, StateTypes, States, TaskTypes, Jobs, RequestInv, ChanInv, AloneInv, StepInv, EffectInv, Reopening, Engaged, Tasks
<1>3. CASE Register
  BY OvertakenFields, <1>0, NameAssumption, <1>3 DEF Register, FetchTypes, Requests, StateTypes, States, TaskTypes, Jobs, RequestInv, ChanInv, AloneInv, StepInv, EffectInv, Reopening, Engaged, Tasks
<1>4. ASSUME NEW t \in Tokens, StartLink(t) PROVE EffectInv'
  BY OvertakenFields, <1>0, NameAssumption, <1>4 DEF StartLink, FetchTypes, Requests, StateTypes, States, TaskTypes, Jobs, RequestInv, ChanInv, AloneInv, StepInv, EffectInv, Reopening, Engaged, Tasks
<1>5. ASSUME NEW t \in Tokens, Complete(t) PROVE EffectInv'
  BY OvertakenFields, <1>0, NameAssumption, <1>5 DEF Complete, FetchTypes, Requests, StateTypes, States, TaskTypes, Jobs, RequestInv, ChanInv, AloneInv, StepInv, EffectInv, Reopening, Engaged, Tasks
<1>6. ASSUME NEW u \in Uploads, NEW t \in Tokens, CheckUpload(u, t) PROVE EffectInv'
  BY <1>0, NameAssumption, <1>6 DEF CheckUpload, Usable, FetchTypes, Requests, StateTypes, States, TaskTypes, Jobs, RequestInv, ChanInv, AloneInv, StepInv, EffectInv, Reopening, Engaged, Tasks
<1>7. ASSUME NEW u \in Uploads, StoreBundle(u) PROVE EffectInv'
  BY OvertakenFields, <1>0, NameAssumption, <1>7 DEF StoreBundle, FetchTypes, Requests, StateTypes, States, TaskTypes, Jobs, RequestInv, ChanInv, AloneInv, StepInv, EffectInv, Reopening, Engaged, Tasks
<1>8. ASSUME NEW u \in Uploads, UploadFails(u) PROVE EffectInv'
  BY <1>0, NameAssumption, <1>8 DEF UploadFails, FetchTypes, Requests, StateTypes, States, TaskTypes, Jobs, RequestInv, ChanInv, AloneInv, StepInv, EffectInv, Reopening, Engaged, Tasks
<1>9. ASSUME NEW u \in Uploads, NEW chans \in SUBSET Channels, Export(u, chans) PROVE EffectInv'
  BY <1>0, NameAssumption, <1>9 DEF Export, FetchTypes, Requests, StateTypes, States, TaskTypes, Jobs, RequestInv, ChanInv, AloneInv, StepInv, EffectInv, Reopening, Engaged, Tasks
<1>10. ASSUME NEW f \in Fetches, NEW t \in Tokens, CheckFetch(f, t) PROVE EffectInv'
  BY <1>0, NameAssumption, <1>10 DEF CheckFetch, FetchTypes, Requests, StateTypes, States, TaskTypes, Jobs, RequestInv, ChanInv, AloneInv, StepInv, EffectInv, Reopening, Engaged, Tasks
<1>11. ASSUME NEW f \in Fetches, SelectBundle(f) PROVE EffectInv'
  BY <1>0, NameAssumption, <1>11 DEF SelectBundle, FetchTypes, Requests, StateTypes, States, TaskTypes, Jobs, RequestInv, ChanInv, AloneInv, StepInv, EffectInv, Reopening, Engaged, Tasks
<1>12. ASSUME NEW f \in Fetches, ConsumeBundle(f) PROVE EffectInv'
  BY OvertakenFields, <1>0, NameAssumption, <1>12 DEF ConsumeBundle, FetchTypes, Requests, StateTypes, States, TaskTypes, Jobs, RequestInv, ChanInv, AloneInv, StepInv, EffectInv, Reopening, Engaged, Tasks
<1>13. ASSUME NEW f \in Fetches, FetchFails(f) PROVE EffectInv'
  BY <1>0, NameAssumption, <1>13 DEF FetchFails, FetchTypes, Requests, StateTypes, States, TaskTypes, Jobs, RequestInv, ChanInv, AloneInv, StepInv, EffectInv, Reopening, Engaged, Tasks
<1>14. ASSUME NEW f \in Fetches, LoseAnswer(f) PROVE EffectInv'
  BY <1>0, NameAssumption, <1>14 DEF LoseAnswer, FetchTypes, Requests, StateTypes, States, TaskTypes, Jobs, RequestInv, ChanInv, AloneInv, StepInv, EffectInv, Reopening, Engaged, Tasks
<1>15. ASSUME NEW f \in Fetches, StartImport(f) PROVE EffectInv'
  BY <1>0, NameAssumption, <1>15 DEF StartImport, NextRecord, Idle, FetchTypes, Requests, StateTypes, States, TaskTypes, Jobs, RequestInv, ChanInv, AloneInv, StepInv, EffectInv, Reopening, Engaged, Tasks
<1>16. ASSUME NEW f \in Fetches, ImportFails(f) PROVE EffectInv'
  BY <1>0, NameAssumption, <1>16 DEF ImportFails, FetchTypes, Requests, StateTypes, States, TaskTypes, Jobs, RequestInv, ChanInv, AloneInv, StepInv, EffectInv, Reopening, Engaged, Tasks
<1>17. ASSUME NEW f \in Fetches, DropSession(f) PROVE EffectInv'
  BY <1>0, NameAssumption, <1>17 DEF DropSession, FetchTypes, Requests, StateTypes, States, TaskTypes, Jobs, RequestInv, ChanInv, AloneInv, StepInv, EffectInv, Reopening, Engaged, Tasks
<1>18. ASSUME NEW f \in Fetches, MarkChannel(f) PROVE EffectInv'
  BY <1>0, NameAssumption, <1>18 DEF MarkChannel, NextRecord, Idle, FetchTypes, Requests, StateTypes, States, TaskTypes, Jobs, RequestInv, ChanInv, AloneInv, StepInv, EffectInv, Reopening, Engaged, Tasks
<1>19. ASSUME NEW f \in Fetches, NEW c \in Channels, SaveState(f, c) PROVE EffectInv'
  BY <1>0, NameAssumption, <1>19 DEF SaveState, Importing, Opening, FetchTypes, Requests, StateTypes, States, TaskTypes, Jobs, RequestInv, ChanInv, AloneInv, StepInv, EffectInv, Reopening, Engaged, Tasks
<1>20. ASSUME NEW k \in Tasks, LookForSession(k) PROVE EffectInv'
  BY <1>0, NameAssumption, <1>20 DEF LookForSession, FetchTypes, Requests, StateTypes, States, TaskTypes, Jobs, RequestInv, ChanInv, AloneInv, StepInv, EffectInv, Reopening, Engaged, Tasks
<1>21. ASSUME NEW k \in Tasks, LoadState(k) PROVE EffectInv'
  BY <1>0, NameAssumption, <1>21 DEF LoadState, FetchTypes, Requests, StateTypes, States, TaskTypes, Jobs, RequestInv, ChanInv, AloneInv, StepInv, EffectInv, Reopening, Engaged, Tasks
<1>22. ASSUME NEW k \in Tasks, CreateGroup(k) PROVE EffectInv'
  BY <1>0, NameAssumption, <1>22 DEF CreateGroup, FetchTypes, Requests, StateTypes, States, TaskTypes, Jobs, RequestInv, ChanInv, AloneInv, StepInv, EffectInv, Reopening, Engaged, Tasks
<1>23. ASSUME NEW k \in Tasks, InsertSession(k) PROVE EffectInv'
  BY <1>0, NameAssumption, <1>23 DEF InsertSession, FetchTypes, Requests, StateTypes, States, TaskTypes, Jobs, RequestInv, ChanInv, AloneInv, StepInv, EffectInv, Reopening, Engaged, Tasks
<1>24. ASSUME NEW c \in Channels, StartOpening(c) PROVE EffectInv'
  BY <1>0, NameAssumption, <1>24 DEF StartOpening, Importing, FetchTypes, Requests, StateTypes, States, TaskTypes, Jobs, RequestInv, ChanInv, AloneInv, StepInv, EffectInv, Reopening, Engaged, Tasks
<1>25. ASSUME NEW c \in Channels, PersistSession(c) PROVE EffectInv'
  BY <1>0, NameAssumption, <1>25 DEF PersistSession, Importing, FetchTypes, Requests, StateTypes, States, TaskTypes, Jobs, RequestInv, ChanInv, AloneInv, StepInv, EffectInv, Reopening, Engaged, Tasks
<1>26. CASE OpenerDone
  BY <1>0, NameAssumption, <1>26 DEF OpenerDone, Idle, FetchTypes, Requests, StateTypes, States, TaskTypes, Jobs, RequestInv, ChanInv, AloneInv, StepInv, EffectInv, Reopening, Engaged, Tasks
<1>27. CASE Restart
  BY <1>0, NameAssumption, <1>27 DEF Restart, Idle, FetchTypes, Requests, StateTypes, States, TaskTypes, Jobs, RequestInv, ChanInv, AloneInv, StepInv, EffectInv, Reopening, Engaged, Tasks
<1> QED
  BY <1>1, <1>2, <1>3, <1>4, <1>5, <1>6, <1>7, <1>8, <1>9, <1>10, <1>11, <1>12, <1>13,
     <1>14, <1>15, <1>16, <1>17, <1>18, <1>19, <1>20, <1>21, <1>22, <1>23, <1>24,
     <1>25, <1>26, <1>27 DEF Next, ServerStep, DeviceStep

\* At the start there is no link.
LEMMA LinkInit ==
  ASSUME Init
  PROVE  Link!Init
  BY DEF Init, Link!Init, LinkState, Offered, Accepted, Waiting, Taken

\* What the links are read from tells what they are.
LEMMA LinkParts ==
  /\ UNCHANGED token => UNCHANGED LinkState
  /\ UNCHANGED upload => UNCHANGED <<Offered, Accepted>>
  /\ UNCHANGED box => UNCHANGED Waiting
  /\ (\A f \in Fetches : /\ (fetch'[f].state = "answered") <=> (fetch[f].state = "answered")
                         /\ fetch[f].state = "answered" => fetch'[f].bundle = fetch[f].bundle)
       => UNCHANGED Taken
  /\ UNCHANGED fetch => UNCHANGED Taken
<1>1. UNCHANGED token => UNCHANGED LinkState
  BY DEF LinkState
<1>2. UNCHANGED upload => UNCHANGED <<Offered, Accepted>>
  BY DEF Offered, Accepted
<1>3. UNCHANGED box => UNCHANGED Waiting
  BY DEF Waiting
<1>4. ASSUME \A f \in Fetches : /\ (fetch'[f].state = "answered") <=> (fetch[f].state = "answered")
                                /\ fetch[f].state = "answered" => fetch'[f].bundle = fetch[f].bundle
      PROVE  UNCHANGED Taken
  <2>1. \A p \in Fetches \X Uploads :
          (fetch'[p[1]].state = "answered" /\ fetch'[p[1]].bundle = p[2])
            <=> (fetch[p[1]].state = "answered" /\ fetch[p[1]].bundle = p[2])
    BY <1>4
  <2> QED
    BY <2>1 DEF Taken
<1> QED
  BY <1>1, <1>2, <1>3, <1>4 DEF Taken

\* Every step of the handlers is a step of the link, or none.
LEMMA LinkStep ==
  ASSUME TypeOK, RequestInv, CleanInv, [Next]_vars
  PROVE  [Link!Next]_Link!vars
<1> USE DEF serverVars, requestVars, clientVars
<1>0. ServerTypes /\ UploadTypes /\ FetchTypes
  BY TypeParts
<1> DEFINE Still == UNCHANGED <<LinkState, Offered, Accepted, Waiting, Taken>>
<1>1. Still => [Link!Next]_Link!vars
  BY DEF Link!vars
<1>2. CASE UNCHANGED vars
  BY <1>1, <1>2, LinkParts DEF vars
<1>3. CASE Tick
  BY <1>1, <1>3, LinkParts DEF Tick
<1>4. CASE Register
  <2>1. UNCHANGED Taken
    BY <1>0, <1>4, LinkParts, OvertakenFields DEF Register
  <2> QED
    BY <1>1, <1>4, <2>1, LinkParts DEF Register
<1>5. ASSUME NEW t \in Tokens, StartLink(t) PROVE [Link!Next]_Link!vars
  <2>1. UNCHANGED Taken
    BY <1>0, <1>5, LinkParts, OvertakenFields DEF StartLink
  <2>2. UNCHANGED <<Offered, Accepted, Waiting>>
    BY <1>5, LinkParts DEF StartLink
  <2>3. LinkState[t] = "none" /\ LinkState' = [LinkState EXCEPT ![t] = "open"]
    BY <1>0, <1>5 DEF StartLink, LinkState, ServerTypes
  <2> QED
    BY <2>1, <2>2, <2>3 DEF Link!Next, Link!Open
<1>6. ASSUME NEW t \in Tokens, Complete(t) PROVE [Link!Next]_Link!vars
  <2>1. UNCHANGED Taken
    BY <1>0, <1>6, LinkParts, OvertakenFields DEF Complete
  <2>2. UNCHANGED <<Offered, Accepted, Waiting>>
    BY <1>6, LinkParts DEF Complete
  <2>3. LinkState[t] = "open" /\ LinkState' = [LinkState EXCEPT ![t] = "closed"]
    <3>1. now # Never /\ token'[t].device = token[t].device /\ token'[t].consumed = now
      BY <1>0, <1>6, ClockAssumption DEF Complete, ServerTypes, Never
    <3>2. \A s \in Tokens \ {t} : token'[s] = token[s]
      BY <1>0, <1>6 DEF Complete, ServerTypes
    <3> QED
      BY <1>6, <3>1, <3>2 DEF Complete, LinkState
  <2> QED
    BY <2>1, <2>2, <2>3 DEF Link!Next, Link!Close
<1>7. ASSUME NEW u \in Uploads, NEW t \in Tokens, CheckUpload(u, t) PROVE [Link!Next]_Link!vars
  <2>1. UNCHANGED <<LinkState, Waiting, Taken>>
    BY <1>7, LinkParts DEF CheckUpload
  <2>2. /\ u \notin Offered /\ upload[u].state = "made"
        /\ \A v \in Uploads \ {u} : upload'[v] = upload[v]
        /\ upload'[u].token = t
        /\ upload'[u].state = IF Usable(t) THEN "checked" ELSE "refused"
    BY <1>0, <1>7 DEF CheckUpload, UploadTypes, Offered
  <2>3. Offered' = Offered \union {u}
    BY <2>2 DEF Offered
  <2>4. CASE Usable(t)
    <3>1. LinkState[t] = "open"
      BY <1>7, <2>4 DEF CheckUpload, Usable, LinkState
    <3>2. Accepted' = Accepted \union {<<u, t>>}
      BY <2>2, <2>4 DEF Accepted
    <3> QED
      BY <2>1, <2>2, <2>3, <3>1, <3>2 DEF Link!Next, Link!Accept
  <2>5. CASE ~ Usable(t)
    <3>1. Accepted' = Accepted
      BY <2>2, <2>5 DEF Accepted
    <3> QED
      BY <2>1, <2>3, <3>1 DEF Link!Next, Link!Refuse
  <2> QED
    BY <2>4, <2>5
<1>8. ASSUME NEW u \in Uploads, StoreBundle(u) PROVE [Link!Next]_Link!vars
  <2> DEFINE t == upload[u].token
  <2>1. UNCHANGED Taken
    BY <1>0, <1>8, LinkParts, OvertakenFields DEF StoreBundle
  <2>2. UNCHANGED LinkState /\ t \in Tokens
    BY <1>8, LinkParts DEF StoreBundle, RequestInv
  <2>3. /\ upload[u].state = "checked" /\ upload'[u].state = "stored"
        /\ upload'[u].token = upload[u].token
        /\ \A v \in Uploads \ {u} : upload'[v] = upload[v]
    BY <1>0, <1>8 DEF StoreBundle, UploadTypes
  <2>4. Offered' = Offered
    BY <2>3 DEF Offered
  <2>5. <<u, t>> \in Accepted /\ Accepted' = Accepted \ {<<u, t>>}
    BY <2>2, <2>3 DEF Accepted
  <2>6. Waiting' = [Waiting EXCEPT ![t] = u]
    BY <1>0, <1>8, <2>2 DEF StoreBundle, ServerTypes, Waiting
  <2> QED
    BY <2>1, <2>2, <2>4, <2>5, <2>6 DEF Link!Next, Link!Post
<1>9. ASSUME NEW u \in Uploads, UploadFails(u) PROVE [Link!Next]_Link!vars
  <2> DEFINE t == upload[u].token
  <2>1. UNCHANGED <<LinkState, Waiting, Taken>> /\ t \in Tokens
    BY <1>9, LinkParts DEF UploadFails, RequestInv
  <2>2. /\ upload[u].state = "checked" /\ upload'[u].state = "refused"
        /\ upload'[u].token = upload[u].token
        /\ \A v \in Uploads \ {u} : upload'[v] = upload[v]
    BY <1>0, <1>9 DEF UploadFails, UploadTypes
  <2>3. Offered' = Offered
    BY <2>2 DEF Offered
  <2>4. Accepted' = Accepted \ {<<u, t>>}
    BY <2>1, <2>2 DEF Accepted
  <2> QED
    BY <2>1, <2>3, <2>4 DEF Link!Next, Link!GiveUp
<1>10. ASSUME NEW u \in Uploads, NEW chans \in SUBSET Channels, Export(u, chans)
       PROVE  [Link!Next]_Link!vars
  <2>1. /\ \A v \in Uploads : upload'[v].token = upload[v].token
        /\ \A v \in Uploads : upload'[v].state \in {"new", "made"} <=> upload[v].state \in {"new", "made"}
        /\ \A v \in Uploads : upload'[v].state = "checked" <=> upload[v].state = "checked"
    BY <1>0, <1>10 DEF Export, UploadTypes
  <2>2. UNCHANGED <<Offered, Accepted>>
    BY <2>1 DEF Offered, Accepted
  <2> QED
    BY <1>1, <1>10, <2>2, LinkParts DEF Export
<1>11. ASSUME NEW f \in Fetches, ConsumeBundle(f) PROVE [Link!Next]_Link!vars
  <2> DEFINE t == fetch[f].token
  <2>1. /\ t \in Tokens /\ fetch[f].bundle \in Uploads
        /\ box[t].open /\ box[t].bundle = fetch[f].bundle /\ token[t].device # 0
    BY <1>11 DEF ConsumeBundle, RequestInv, CleanInv
  <2>2. UNCHANGED <<Offered, Accepted>>
    BY <1>11, LinkParts DEF ConsumeBundle
  <2>3. Waiting[t] = fetch[f].bundle /\ Waiting[t] # Nothing
    BY <2>1, NameAssumption DEF Waiting
  <2>4. Waiting' = [Waiting EXCEPT ![t] = Nothing]
    BY <1>0, <1>11, <2>1 DEF ConsumeBundle, ServerTypes, Waiting
  <2>5. LinkState' = [LinkState EXCEPT ![t] = "closed"]
    <3>1. token'[t].device = token[t].device /\ token'[t].consumed # Never
      BY <1>0, <1>11, <2>1, ClockAssumption DEF ConsumeBundle, ServerTypes, Never
    <3>2. \A s \in Tokens \ {t} : token'[s] = token[s]
      BY <1>0, <1>11 DEF ConsumeBundle, ServerTypes
    <3> QED
      BY <2>1, <3>1, <3>2 DEF LinkState
  <2>6. Taken' = Taken \union {<<f, fetch[f].bundle>>}
    <3>1. /\ fetch'[f].state = "answered" /\ fetch'[f].bundle = fetch[f].bundle
          /\ \A g \in Fetches \ {f} : fetch'[g].state = fetch[g].state /\ fetch'[g].bundle = fetch[g].bundle
      BY <1>0, <1>11, OvertakenFields DEF ConsumeBundle, Requests
    <3>2. fetch[f].state # "answered"
      BY <1>11 DEF ConsumeBundle
    <3> QED
      BY <2>1, <3>1, <3>2 DEF Taken
  <2> HIDE DEF t
  <2> QED
    BY <2>1, <2>2, <2>3, <2>4, <2>5, <2>6 DEF Link!Next, Link!Take, t
<1>12. ASSUME NEW f \in Fetches, NEW t \in Tokens, CheckFetch(f, t) PROVE [Link!Next]_Link!vars
  <2>1. UNCHANGED Taken
    BY <1>0, <1>12, LinkParts DEF CheckFetch, FetchTypes, Requests
  <2> QED
    BY <1>1, <1>12, <2>1, LinkParts DEF CheckFetch
<1>13. ASSUME NEW f \in Fetches, SelectBundle(f) PROVE [Link!Next]_Link!vars
  <2>1. UNCHANGED Taken
    BY <1>0, <1>13, LinkParts DEF SelectBundle, FetchTypes, Requests
  <2> QED
    BY <1>1, <1>13, <2>1, LinkParts DEF SelectBundle
<1>14. ASSUME NEW f \in Fetches, FetchFails(f) \/ LoseAnswer(f) \/ StartImport(f)
       PROVE  [Link!Next]_Link!vars
  <2>1. UNCHANGED Taken
    BY <1>0, <1>14, LinkParts DEF FetchFails, LoseAnswer, StartImport, FetchTypes, Requests
  <2> QED
    BY <1>1, <1>14, <2>1, LinkParts DEF FetchFails, LoseAnswer, StartImport
<1>15. CASE Restart
  <2>1. UNCHANGED Taken
    BY <1>0, <1>15, LinkParts DEF Restart, FetchTypes, Requests
  <2> QED
    BY <1>1, <1>15, <2>1, LinkParts DEF Restart
<1>16. CASE /\ DeviceStep /\ ~ Restart
            /\ \A f \in Fetches : ~ LoseAnswer(f) /\ ~ StartImport(f)
  <2>1. UNCHANGED <<serverVars, requestVars>>
    BY <1>16 DEF DeviceStep, ImportFails, DropSession, MarkChannel, SaveState, LookForSession,
      LoadState, CreateGroup, InsertSession, StartOpening, PersistSession, OpenerDone
  <2> QED
    BY <1>1, <2>1, LinkParts
<1> QED
  BY <1>2, <1>3, <1>4, <1>5, <1>6, <1>7, <1>8, <1>9, <1>10, <1>11, <1>12, <1>13, <1>14, <1>15, <1>16
     DEF Next, ServerStep

\* The strengthening of the invariants.
IInv ==
  /\ TypeOK /\ RequestInv /\ CleanInv /\ ChanInv
  /\ DropInv /\ AloneInv /\ StepInv /\ EffectInv

LEMMA IInvInit ==
  ASSUME Init
  PROVE  IInv
<1>1. TypeOK
  BY ClockAssumption DEF Init, TypeOK, States, Tasks, Idle, Never
<1>2. RequestInv /\ CleanInv /\ ChanInv
  BY NameAssumption DEF Init, RequestInv, CleanInv, ChanInv, Idle, Engaged, Tasks
<1>3. DropInv /\ AloneInv /\ StepInv /\ EffectInv
  BY DEF Init, DropInv, AloneInv, StepInv, EffectInv, Idle, Engaged, Tasks
<1> QED
  BY <1>1, <1>2, <1>3 DEF IInv

LEMMA IInvStep ==
  ASSUME IInv, [Next]_vars
  PROVE  IInv'
<1>1. TypeOK /\ RequestInv /\ CleanInv /\ ChanInv /\ DropInv /\ AloneInv /\ StepInv /\ EffectInv
  BY DEF IInv
<1>2. TypeOK'
  <2>1. ServerTypes' /\ UploadTypes' /\ FetchTypes' /\ StateTypes' /\ TaskTypes'
    BY <1>1, ServerTypesKept, UploadTypesKept, FetchTypesKept, StateTypesKept, TaskTypesKept
  <2> QED
    BY <2>1, TypeParts, PTL
<1>3. RequestInv' /\ CleanInv' /\ ChanInv' /\ DropInv'
  BY <1>1, RequestInvKept, CleanInvKept, ChanInvKept, DropInvKept
<1>4. AloneInv' /\ StepInv' /\ EffectInv'
  BY <1>1, AloneInvKept, StepInvKept, EffectInvKept
<1> QED
  BY <1>2, <1>3, <1>4 DEF IInv

LEMMA IInvAlways == Spec => []IInv
<1>1. Init => IInv
  BY IInvInit
<1>2. IInv /\ [Next]_vars => IInv'
  BY IInvStep
<1> QED
  BY <1>1, <1>2, PTL DEF Spec

\* The variables keep their types (start_device_link and its successors, the
\* import and the tasks beside it).
THEOREM TypeCorrect == Spec => []TypeOK
<1>1. IInv => TypeOK
  BY DEF IInv
<1> QED
  BY <1>1, IInvAlways, PTL

\* The server's handlers implement the link: a bundle taken in while the link
\* was open goes to one fetch, which closes the link (consume_device_link_bundle).
THEOREM ImplementsLink == Spec => LinkSpec
<1>1. Init => Link!Init
  BY LinkInit
<1>2. IInv /\ [Next]_vars => [Link!Next]_Link!vars
  BY LinkStep DEF IInv
<1> QED
  BY <1>1, <1>2, IInvAlways, PTL DEF Spec, LinkSpec, Link!Spec

\* A channel counted as initialised has a session or an import that is about to
\* reopen it, or failed to (import_channel_state_bundle).
THEOREM MarksAreOpen == Spec => []MarkedIsOpen
<1>1. IInv => MarkedIsOpen
  BY DEF IInv, DropInv, Dropper, MarkedIsOpen, Reopening
<1> QED
  BY <1>1, IInvAlways, PTL

\* An import that no other task met at its channel is what the channel runs on,
\* before and after a restart (import_group_state).
THEOREM ImportsTakeEffect == Spec => []ImportTakesEffect
<1>1. IInv => ImportTakesEffect
  BY DEF IInv, EffectInv, ImportTakesEffect
<1> QED
  BY <1>1, IInvAlways, PTL
=============================================================================
