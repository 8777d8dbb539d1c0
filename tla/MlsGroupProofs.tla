--------------------------- MODULE MlsGroupProofs ---------------------------
(***************************************************************************)
(* Proofs about MlsGroup, for any members and any bounds.                  *)
(*                                                                         *)
(* IInv adds to the properties: a snapshot is behind the live group only    *)
(* while a merge is waiting to be persisted or after a snapshot that failed *)
(* (EpochInv), commits come from the leader (CommitInv), ids are unique     *)
(* (IdInv), a sender that has never restarted is past what it has sent      *)
(* (SentInv) and uses a generation once (RatchetInv), and a secret that is  *)
(* gone was spent on a message that was displayed (SeenInv).               *)
(***************************************************************************)
EXTENDS MlsGroup, FiniteSetTheorems, TLAPS

\* The snapshot is never ahead of the live group, and in the same epoch unless a
\* merge is pending or a snapshot has failed.
EpochInv ==
  \A p \in Members :
    /\ live[p].epoch >= disk[p].epoch
    /\ saving[p] # "no" => live[p].epoch > disk[p].epoch
    /\ saving[p] = "no" /\ p \notin failed => live[p].epoch = disk[p].epoch

\* A sender that has never restarted is in no epoch before one it has sent in.
SentInv ==
  \A c \in created : c.from \notin restarted => c.epoch <= live[c.from].epoch

\* Only the leader commits, and nobody else merges its own commit.
CommitInv ==
  /\ \A c \in created : c.kind = "commit" => c.from = Leader
  /\ \A p \in Members : saving[p] = "own" <=> (p = Leader /\ saving[p] # "no")

IdInv == IsFiniteSet(created) /\ \A c \in created : c.id < Cardinality(created)

\* A sender that has never restarted has used its generations one by one.
RatchetInv ==
  /\ \A c \in created :
       c.kind = "app" /\ c.from \notin restarted /\ c.epoch = live[c.from].epoch =>
         c.gen < live[c.from].gen
  /\ \A c, d \in created :
       /\ c.kind = "app" /\ d.kind = "app"
       /\ c.from = d.from /\ c.from \notin restarted
       /\ c.epoch = d.epoch /\ c.gen = d.gen
       => c = d

\* The message on which p spent the secret s in epoch e.
SpentOn(p, s, e) ==
  \E c \in created :
    /\ c.kind = "app" /\ c.from = s[1] /\ c.gen = s[2] /\ c.epoch = e
    /\ <<p, c>> \in displayed

SeenInv ==
  \A p \in Members :
    /\ \A s \in live[p].seen : SpentOn(p, s, live[p].epoch)
    /\ \A s \in disk[p].seen : SpentOn(p, s, disk[p].epoch)

IInv ==
  /\ TypeOK
  /\ IdInv
  /\ EpochInv
  /\ SentInv
  /\ CommitInv
  /\ SentIsDurable
  /\ NoRivalCommits
  /\ LeaderCanRestore
  /\ RatchetInv
  /\ SeenInv
  /\ DropsOnlyReplays

USE DEF network, histories

-----------------------------------------------------------------------------
\* A new ciphertext adds one to their number.
LEMMA EmitLemma ==
  ASSUME TypeOK, IdInv, NEW kind, NEW p, NEW e, NEW k, NEW g, Emit(kind, p, e, k, g)
  PROVE  IdInv'
<1> DEFINE c == [kind |-> kind, from |-> p, epoch |-> e, key |-> k, gen |-> g,
      id |-> Cardinality(created)]
<1>0. Cardinality(created) \in Nat /\ \A d \in created : d.id \in Nat
  BY FS_CardinalityType DEF IdInv, TypeOK, Ciphertext
<1>1. c \notin created /\ created' = created \union {c}
  BY <1>0 DEF IdInv, Emit
<1>2. IsFiniteSet(created') /\ Cardinality(created') = Cardinality(created) + 1
  BY <1>1, FS_AddElement DEF IdInv
<1>3. c.id = Cardinality(created)
  OBVIOUS
<1> HIDE DEF c
<1> QED
  BY <1>0, <1>1, <1>2, <1>3 DEF IdInv

\* The parts of a group.
LEMMA GroupParts ==
  ASSUME NEW e \in 0..MaxEpoch, NEW k \in Nat, NEW g \in Nat, NEW s \in SUBSET (Members \X Nat)
  PROVE  /\ Group(e, k, g, s) \in GroupState
         /\ Group(e, k, g, s).epoch = e /\ Group(e, k, g, s).key = k
         /\ Group(e, k, g, s).gen = g /\ Group(e, k, g, s).seen = s
  BY DEF Group, GroupState

\* A ciphertext that is handed to the network has its type.
LEMMA EmitTypes ==
  ASSUME TypeOK, IdInv, NEW kind \in {"app", "commit"}, NEW p \in Members,
         NEW e \in 0..MaxEpoch, NEW k \in Nat, NEW g \in Nat, Emit(kind, p, e, k, g)
  PROVE  /\ created' \subseteq Ciphertext /\ created \subseteq created'
         /\ onTheWay' \subseteq created' /\ stored' = stored
<1>1. Cardinality(created) \in Nat
  BY FS_CardinalityType DEF IdInv
<1>2. [kind |-> kind, from |-> p, epoch |-> e, key |-> k, gen |-> g,
        id |-> Cardinality(created)] \in Ciphertext
  BY <1>1 DEF Ciphertext
<1> QED
  BY <1>2 DEF Emit, TypeOK

\* A spent secret stays spent.
LEMMA SpentStays ==
  ASSUME NEW p, NEW s, NEW e, SpentOn(p, s, e),
         created \subseteq created', displayed \subseteq displayed'
  PROVE  SpentOn(p, s, e)'
  BY DEF SpentOn

\* Every step keeps the types.
LEMMA TypeStep ==
  ASSUME TypeOK, IdInv, [Next]_vars
  PROVE  TypeOK'
<1>1. CASE MergeOwnCommit
  BY <1>1, LeaderAssumption, BoundAssumption, FS_CardinalityType
     DEF MergeOwnCommit, GroupState, Ciphertext, Group, Fresh, TypeOK
<1>2. ASSUME NEW p \in Members, Encrypt(p) PROVE TypeOK'
  <2>1. live[p] \in GroupState /\ live[p].epoch \in 0..MaxEpoch /\ live[p].key \in Nat
          /\ live[p].gen \in Nat /\ live[p].seen \in SUBSET (Members \X Nat)
    BY DEF TypeOK, GroupState
  <2>2. Group(live[p].epoch, live[p].key, live[p].gen + 1, live[p].seen) \in GroupState
    BY <2>1, GroupParts
  <2>3. live' \in [Members -> GroupState]
    BY <1>2, <2>2 DEF Encrypt, TypeOK
  <2>4. /\ created' \subseteq Ciphertext /\ created \subseteq created'
        /\ onTheWay' \subseteq created' /\ stored' = stored
    BY <1>2, <2>1, EmitTypes DEF Encrypt
  <2> QED
    BY <1>2, <2>3, <2>4 DEF Encrypt, TypeOK
<1>3. ASSUME NEW p \in Members, PersistOwn(p) PROVE TypeOK'
  <2>1. live[p].epoch \in 0..MaxEpoch /\ live[p].key \in Nat /\ 0 \in Nat
    BY DEF TypeOK, GroupState
  <2>4. /\ created' \subseteq Ciphertext /\ created \subseteq created'
        /\ onTheWay' \subseteq created' /\ stored' = stored
    BY <1>3, <2>1, EmitTypes DEF PersistOwn
  <2> QED
    BY <1>3, <2>4 DEF PersistOwn, TypeOK
<1>4. ASSUME NEW p \in Members, PersistPeer(p) PROVE TypeOK'
  BY <1>4, LeaderAssumption, BoundAssumption, FS_CardinalityType
     DEF PersistPeer, GroupState, Ciphertext, Group, Fresh, TypeOK
<1>5. ASSUME NEW p \in Members, Restart(p) PROVE TypeOK'
  BY <1>5, LeaderAssumption, BoundAssumption, FS_CardinalityType
     DEF Restart, GroupState, Ciphertext, Group, Fresh, TypeOK
<1>6. ASSUME NEW p \in Members, NEW c \in stored, MergePeerCommit(p, c) PROVE TypeOK'
  BY <1>6, LeaderAssumption, BoundAssumption, FS_CardinalityType
     DEF MergePeerCommit, GroupState, Ciphertext, Group, Fresh, TypeOK
<1>7. ASSUME NEW p \in Members, NEW c \in stored, Decrypt(p, c) PROVE TypeOK'
  <2>1. live[p] \in GroupState /\ live[p].epoch \in 0..MaxEpoch /\ live[p].key \in Nat
          /\ live[p].gen \in Nat /\ live[p].seen \in SUBSET (Members \X Nat)
    BY DEF TypeOK, GroupState
  <2>2. <<c.from, c.gen>> \in Members \X Nat
    BY DEF TypeOK, Ciphertext
  <2>3. Group(live[p].epoch, live[p].key, live[p].gen, live[p].seen \union {<<c.from,
          c.gen>>}) \in GroupState
    BY <2>1, <2>2, GroupParts
  <2>4. live' \in [Members -> GroupState]
    BY <1>7, <2>3 DEF Decrypt, TypeOK
  <2> QED
    BY <1>7, <2>4 DEF Decrypt, TypeOK
<1>8. ASSUME NEW c \in onTheWay, Store(c) PROVE TypeOK'
  BY <1>8, LeaderAssumption, BoundAssumption, FS_CardinalityType
     DEF Store, GroupState, Ciphertext, Group, Fresh, TypeOK
<1>9. ASSUME NEW c \in onTheWay, Lose(c) PROVE TypeOK'
  BY <1>9, LeaderAssumption, BoundAssumption, FS_CardinalityType
     DEF Lose, GroupState, Ciphertext, Group, Fresh, TypeOK
<1>10. CASE UNCHANGED vars
  BY <1>10 DEF vars, GroupState, Ciphertext, Group, Fresh, TypeOK
<1>11. ASSUME NEW p \in Members, PersistFails(p) PROVE TypeOK'
  BY <1>11, LeaderAssumption, BoundAssumption, FS_CardinalityType
     DEF PersistFails, GroupState, Ciphertext, Group, Fresh, TypeOK
<1> QED
  BY <1>1, <1>2, <1>3, <1>4, <1>5, <1>6, <1>7, <1>8, <1>9, <1>10, <1>11 DEF Next

\* A new ciphertext gets an id of its own.
LEMMA IdStep ==
  ASSUME TypeOK, IdInv, [Next]_vars
  PROVE  IdInv'
<1>1. CASE MergeOwnCommit
  BY <1>1, EmitLemma DEF MergeOwnCommit, IdInv
<1>2. ASSUME NEW p \in Members, Encrypt(p) PROVE IdInv'
  BY <1>2, EmitLemma DEF Encrypt, Emit, IdInv
<1>3. ASSUME NEW p \in Members, PersistOwn(p) PROVE IdInv'
  BY <1>3, EmitLemma DEF PersistOwn, Emit, IdInv
<1>4. ASSUME NEW p \in Members, PersistPeer(p) PROVE IdInv'
  BY <1>4, EmitLemma DEF PersistPeer, IdInv
<1>5. ASSUME NEW p \in Members, Restart(p) PROVE IdInv'
  BY <1>5, EmitLemma DEF Restart, IdInv
<1>6. ASSUME NEW p \in Members, NEW c \in stored, MergePeerCommit(p, c) PROVE IdInv'
  BY <1>6, EmitLemma DEF MergePeerCommit, IdInv
<1>7. ASSUME NEW p \in Members, NEW c \in stored, Decrypt(p, c) PROVE IdInv'
  BY <1>7, EmitLemma DEF Decrypt, IdInv
<1>8. ASSUME NEW c \in onTheWay, Store(c) PROVE IdInv'
  BY <1>8, EmitLemma DEF Store, IdInv
<1>9. ASSUME NEW c \in onTheWay, Lose(c) PROVE IdInv'
  BY <1>9, EmitLemma DEF Lose, IdInv
<1>10. CASE UNCHANGED vars
  BY <1>10 DEF vars, IdInv
<1>11. ASSUME NEW p \in Members, PersistFails(p) PROVE IdInv'
  BY <1>11, EmitLemma DEF PersistFails, IdInv
<1> QED
  BY <1>1, <1>2, <1>3, <1>4, <1>5, <1>6, <1>7, <1>8, <1>9, <1>10, <1>11 DEF Next

-----------------------------------------------------------------------------
(* What a step can do to a member's handle and to the ciphertexts.         *)

Keeps(q) ==
  /\ live'[q].epoch = live[q].epoch /\ live'[q].gen >= live[q].gen
  /\ disk'[q] = disk[q] /\ saving'[q] = saving[q]

Merges(q) ==
  /\ saving[q] = "no" /\ saving'[q] # "no"
  /\ live'[q].epoch = live[q].epoch + 1 /\ disk'[q] = disk[q]
  /\ q = Leader \/ \E c \in created : c.kind = "commit" /\ c.epoch = live'[q].epoch

Persists(q) ==
  saving[q] # "no" /\ saving'[q] = "no" /\ disk'[q] = live[q] /\ live'[q] = live[q]

Fails(q) ==
  /\ saving[q] # "no" /\ saving'[q] = "no"
  /\ disk'[q] = disk[q] /\ live'[q] = live[q] /\ q \in failed'

Restarts(q) ==
  saving'[q] = "no" /\ disk'[q] = disk[q] /\ live'[q] = disk[q] /\ q \in restarted'

Moves ==
  /\ failed \subseteq failed' /\ restarted \subseteq restarted'
  /\ \A q \in Members : Keeps(q) \/ Merges(q) \/ Persists(q) \/ Fails(q) \/ Restarts(q)

\* A new message: nothing else happens, and its author's ratchet moves on.
Sends(c) ==
  /\ c.kind = "app" /\ c.from \in Members /\ saving[c.from] = "no"
  /\ c.epoch = live[c.from].epoch /\ c.gen = live[c.from].gen
  /\ live'[c.from].epoch = live[c.from].epoch /\ live'[c.from].gen = live[c.from].gen + 1
  /\ UNCHANGED <<disk, saving, failed, restarted>>

\* A new commit: its author has just persisted what it leads into.
Commits(c) ==
  /\ c.kind = "commit" /\ c.from \in Members /\ saving[c.from] = "own"
  /\ c.epoch = live[c.from].epoch
  /\ live' = live /\ disk' = [disk EXCEPT ![c.from] = live[c.from]]
  /\ UNCHANGED <<failed, restarted>>

Adds == created' = created \/ \E c : created' = created \union {c} /\ (Sends(c) \/ Commits(c))

\* The parts of a member's two groups.
LEMMA HandleTypes ==
  ASSUME TypeOK, NEW q \in Members
  PROVE  /\ live[q].epoch \in 0..MaxEpoch /\ live[q].key \in Nat /\ live[q].gen \in Nat
         /\ live[q].seen \in SUBSET (Members \X Nat)
         /\ disk[q].epoch \in Nat /\ disk[q].gen \in Nat
  BY BoundAssumption DEF TypeOK, GroupState

\* Every step leaves each handle, merges, persists, fails to or restarts it.
LEMMA HandleStep ==
  ASSUME TypeOK, [Next]_vars
  PROVE  Moves
<1> USE DEF Moves, Keeps
<1>0. \A q \in Members : /\ live[q].epoch \in Nat /\ live[q].gen \in Nat
                         /\ live[q].key \in Nat /\ live[q].seen \in SUBSET (Members \X Nat)
  BY HandleTypes, BoundAssumption
<1>1. CASE MergeOwnCommit
  <2>1. /\ live' = [live EXCEPT ![Leader] = Fresh(live[Leader].epoch + 1, Len(base) + 1)]
        /\ saving' = [saving EXCEPT ![Leader] = "own"] /\ saving[Leader] = "no"
        /\ UNCHANGED <<disk, failed, restarted>>
    BY <1>1 DEF MergeOwnCommit
  <2>2. \A q \in Members \ {Leader} : Keeps(q)
    BY <1>0, <2>1 DEF TypeOK
  <2>3. Merges(Leader)
    BY <2>1, LeaderAssumption DEF TypeOK, Merges, Fresh, Group
  <2> QED
    BY <2>1, <2>2, <2>3
<1>2. ASSUME NEW p \in Members, Encrypt(p) PROVE Moves
  <2>1. /\ live' = [live EXCEPT ![p] = Group(live[p].epoch, live[p].key, live[p].gen + 1,
           live[p].seen)]
        /\ UNCHANGED <<disk, saving, failed, restarted>>
    BY <1>2 DEF Encrypt
  <2> QED
    BY <1>0, <2>1 DEF TypeOK, Group
<1>3. ASSUME NEW p \in Members, PersistOwn(p) PROVE Moves
  <2>1. /\ saving[p] = "own" /\ disk' = [disk EXCEPT ![p] = live[p]]
        /\ saving' = [saving EXCEPT ![p] = "no"] /\ UNCHANGED <<live, failed, restarted>>
    BY <1>3 DEF PersistOwn
  <2> QED
    BY <1>0, <2>1 DEF TypeOK, Persists
<1>4. ASSUME NEW p \in Members, PersistPeer(p) PROVE Moves
  BY <1>0, <1>4 DEF TypeOK, PersistPeer, Persists
<1>5. ASSUME NEW p \in Members, PersistFails(p) PROVE Moves
  BY <1>0, <1>5 DEF TypeOK, PersistFails, Fails
<1>6. ASSUME NEW p \in Members, Restart(p) PROVE Moves
  BY <1>0, <1>6 DEF TypeOK, Restart, Restarts
<1>7. ASSUME NEW p \in Members, NEW c \in stored, MergePeerCommit(p, c) PROVE Moves
  <2>1. /\ live' = [live EXCEPT ![p] = Fresh(c.epoch, c.key)] /\ c.epoch = live[p].epoch + 1
        /\ saving' = [saving EXCEPT ![p] = "peer"] /\ saving[p] = "no" /\ c.kind = "commit"
        /\ UNCHANGED <<disk, failed, restarted>>
    BY <1>7 DEF MergePeerCommit
  <2>2. \A q \in Members \ {p} : Keeps(q)
    BY <1>0, <2>1 DEF TypeOK
  <2>3. c \in created
    BY DEF TypeOK
  <2>4. Merges(p)
    BY <2>1, <2>3 DEF TypeOK, Merges, Fresh, Group
  <2> QED
    BY <2>1, <2>2, <2>4
<1>8. ASSUME NEW p \in Members, NEW c \in stored, Decrypt(p, c) PROVE Moves
  <2>1. /\ \/ live' = live
           \/ live' = [live EXCEPT ![p] = Group(live[p].epoch, live[p].key, live[p].gen,
                                                live[p].seen \union {<<c.from, c.gen>>})]
        /\ UNCHANGED <<disk, saving, failed, restarted>>
    BY <1>8 DEF Decrypt
  <2> QED
    BY <1>0, <2>1 DEF TypeOK, Group
<1>9. ASSUME NEW c \in onTheWay, Store(c) PROVE Moves
  BY <1>0, <1>9 DEF Store
<1>10. ASSUME NEW c \in onTheWay, Lose(c) PROVE Moves
  BY <1>0, <1>10 DEF Lose
<1>11. CASE UNCHANGED vars
  BY <1>0, <1>11 DEF vars
<1> QED
  BY <1>1, <1>2, <1>3, <1>4, <1>5, <1>6, <1>7, <1>8, <1>9, <1>10, <1>11 DEF Next

\* Every step creates nothing, a message, or a commit that is persisted.
LEMMA AddStep ==
  ASSUME TypeOK, [Next]_vars
  PROVE  Adds
<1> USE DEF Adds
<1>1. CASE MergeOwnCommit
  BY <1>1 DEF MergeOwnCommit
<1>2. ASSUME NEW p \in Members, Encrypt(p) PROVE Adds
  <2> DEFINE m == [kind |-> "app", from |-> p, epoch |-> live[p].epoch, key |-> live[p].key,
                   gen |-> live[p].gen, id |-> Cardinality(created)]
  <2>1. /\ live' = [live EXCEPT ![p] = Group(live[p].epoch, live[p].key, live[p].gen + 1,
           live[p].seen)]
        /\ created' = created \union {m} /\ saving[p] = "no"
        /\ UNCHANGED <<disk, saving, failed, restarted>>
    BY <1>2 DEF Encrypt, Emit
  <2>2. Sends(m)
    BY <2>1 DEF TypeOK, Sends, Group
  <2> QED
    BY <2>1, <2>2
<1>3. ASSUME NEW p \in Members, PersistOwn(p) PROVE Adds
  <2> DEFINE m == [kind |-> "commit", from |-> p, epoch |-> live[p].epoch, key |-> live[p].key,
                   gen |-> 0, id |-> Cardinality(created)]
  <2>1. created' = created \union {m} /\ Commits(m)
    BY <1>3 DEF PersistOwn, Emit, Commits
  <2> QED
    BY <2>1
<1>4. ASSUME NEW p \in Members, PersistPeer(p) PROVE Adds
  BY <1>4 DEF PersistPeer
<1>5. ASSUME NEW p \in Members, PersistFails(p) PROVE Adds
  BY <1>5 DEF PersistFails
<1>6. ASSUME NEW p \in Members, Restart(p) PROVE Adds
  BY <1>6 DEF Restart
<1>7. ASSUME NEW p \in Members, NEW c \in stored, MergePeerCommit(p, c) PROVE Adds
  BY <1>7 DEF MergePeerCommit
<1>8. ASSUME NEW p \in Members, NEW c \in stored, Decrypt(p, c) PROVE Adds
  BY <1>8 DEF Decrypt
<1>9. ASSUME NEW c \in onTheWay, Store(c) PROVE Adds
  BY <1>9 DEF Store
<1>10. ASSUME NEW c \in onTheWay, Lose(c) PROVE Adds
  BY <1>10 DEF Lose
<1>11. CASE UNCHANGED vars
  BY <1>11 DEF vars
<1> QED
  BY <1>1, <1>2, <1>3, <1>4, <1>5, <1>6, <1>7, <1>8, <1>9, <1>10, <1>11 DEF Next

\* The epochs of what exists are numbers, and its senders members.
LEMMA SentTypes ==
  ASSUME TypeOK
  PROVE  \A c \in created : c.from \in Members /\ c.epoch \in Nat /\ c.gen \in Nat
            /\ c.kind \in {"app", "commit"}
  BY BoundAssumption DEF TypeOK, Ciphertext

-----------------------------------------------------------------------------
\* Merging moves the live group ahead, persisting lets the snapshot catch up.
LEMMA EpochStep ==
  ASSUME TypeOK, EpochInv, [Next]_vars
  PROVE  EpochInv'
<1>1. Moves
  BY HandleStep
<1>2. \A q \in Members : live[q].epoch \in Nat /\ disk[q].epoch \in Nat
  BY HandleTypes, BoundAssumption
<1> QED
  BY <1>1, <1>2 DEF EpochInv, Moves, Keeps, Merges, Persists, Fails, Restarts

\* Only a restart takes a member back, and then it counts as restarted.
LEMMA SentStep ==
  ASSUME TypeOK, SentInv, [Next]_vars
  PROVE  SentInv'
<1>1. Moves /\ Adds
  BY HandleStep, AddStep
<1>2. \A q \in Members : live[q].epoch \in Nat /\ disk[q].epoch \in Nat
  BY HandleTypes, BoundAssumption
<1>3. \A q \in Members : q \notin restarted' => q \notin restarted
         /\ live'[q].epoch >= live[q].epoch
  BY <1>1, <1>2 DEF Moves, Keeps, Merges, Persists, Fails, Restarts
<1>4. ASSUME NEW c \in created, c.from \notin restarted' PROVE c.epoch <= live'[c.from].epoch
  <2>1. c.from \in Members /\ c.epoch \in Nat /\ c.epoch <= live[c.from].epoch
    BY <1>3, <1>4, SentTypes DEF SentInv
  <2>2. live'[c.from].epoch \in Nat
    BY <1>1, <1>2, <2>1 DEF Moves, Keeps, Merges, Persists, Fails, Restarts
  <2> QED
    BY <1>2, <1>3, <1>4, <2>1, <2>2
<1>5. ASSUME NEW c, created' = created \union {c}, Sends(c) \/ Commits(c)
      PROVE  c.epoch <= live'[c.from].epoch
  BY <1>2, <1>5 DEF Sends, Commits
<1> QED
  BY <1>1, <1>4, <1>5 DEF SentInv, Adds

\* Only MergeOwnCommit leads to a commit, and only the leader takes it.
LEMMA CommitStep ==
  ASSUME TypeOK, CommitInv, [Next]_vars
  PROVE  CommitInv'
<1>1. CASE MergeOwnCommit
  BY <1>1, LeaderAssumption, BoundAssumption
     DEF MergeOwnCommit, CommitInv, GroupState, Ciphertext, Group, Fresh, TypeOK
<1>2. ASSUME NEW p \in Members, Encrypt(p) PROVE CommitInv'
  BY <1>2 DEF Encrypt, Emit, CommitInv
<1>3. ASSUME NEW p \in Members, PersistOwn(p) PROVE CommitInv'
  BY <1>3, LeaderAssumption, BoundAssumption
     DEF PersistOwn, Emit, CommitInv, GroupState, Ciphertext, Group, Fresh, TypeOK
<1>4. ASSUME NEW p \in Members, PersistPeer(p) PROVE CommitInv'
  BY <1>4, LeaderAssumption, BoundAssumption
     DEF PersistPeer, CommitInv, GroupState, Ciphertext, Group, Fresh, TypeOK
<1>5. ASSUME NEW p \in Members, Restart(p) PROVE CommitInv'
  BY <1>5 DEF Restart, CommitInv, TypeOK
<1>6. ASSUME NEW p \in Members, NEW c \in stored, MergePeerCommit(p, c) PROVE CommitInv'
  BY <1>6 DEF MergePeerCommit, CommitInv, TypeOK
<1>7. ASSUME NEW p \in Members, NEW c \in stored, Decrypt(p, c) PROVE CommitInv'
  BY <1>7 DEF Decrypt, CommitInv, TypeOK
<1>8. ASSUME NEW c \in onTheWay, Store(c) PROVE CommitInv'
  BY <1>8 DEF Store, CommitInv
<1>9. ASSUME NEW c \in onTheWay, Lose(c) PROVE CommitInv'
  BY <1>9 DEF Lose, CommitInv
<1>10. CASE UNCHANGED vars
  BY <1>10 DEF vars, CommitInv
<1>11. ASSUME NEW p \in Members, PersistFails(p) PROVE CommitInv'
  BY <1>11, LeaderAssumption, BoundAssumption
     DEF PersistFails, CommitInv, GroupState, Ciphertext, Group, Fresh, TypeOK
<1> QED
  BY <1>1, <1>2, <1>3, <1>4, <1>5, <1>6, <1>7, <1>8, <1>9, <1>10, <1>11 DEF Next

\* A message is created only when snapshot and live group agree or a snapshot has
\* failed, a commit only with its snapshot; and no step writes an older snapshot.
LEMMA DurableStep ==
  ASSUME TypeOK, EpochInv, SentIsDurable, [Next]_vars
  PROVE  SentIsDurable'
<1>1. Moves /\ Adds
  BY HandleStep, AddStep
<1>2. \A q \in Members : live[q].epoch \in Nat /\ disk[q].epoch \in Nat
  BY HandleTypes, BoundAssumption
<1>3. \A q \in Members : disk'[q].epoch \in Nat /\ disk'[q].epoch >= disk[q].epoch
  BY <1>1, <1>2 DEF EpochInv, Moves, Keeps, Merges, Persists, Fails, Restarts
<1>4. ASSUME NEW c \in created
      PROVE  c.epoch <= disk'[c.from].epoch \/ (c.kind = "app" /\ c.from \in failed')
  <2>1. c.from \in Members /\ c.epoch \in Nat
    BY SentTypes
  <2>2. c.epoch <= disk[c.from].epoch \/ (c.kind = "app" /\ c.from \in failed)
    BY DEF SentIsDurable
  <2>3. failed \subseteq failed'
    BY <1>1 DEF Moves
  <2> QED
    BY <1>2, <1>3, <2>1, <2>2, <2>3
<1>5. ASSUME NEW c, created' = created \union {c}, Sends(c) \/ Commits(c)
      PROVE  c.epoch <= disk'[c.from].epoch \/ (c.kind = "app" /\ c.from \in failed')
  <2>1. CASE Sends(c)
    BY <1>2, <2>1 DEF Sends, EpochInv
  <2>2. CASE Commits(c)
    <3>1. disk'[c.from] = live[c.from]
      BY <2>2 DEF Commits, TypeOK
    <3> QED
      BY <1>2, <2>2, <3>1 DEF Commits
  <2> QED
    BY <1>5, <2>1, <2>2
<1> QED
  BY <1>1, <1>4, <1>5 DEF SentIsDurable, Adds

\* The epoch a commit leads into is newer than every epoch the leader had on disk.
LEMMA RivalStep ==
  ASSUME TypeOK, EpochInv, CommitInv, SentIsDurable, NoRivalCommits, [Next]_vars
  PROVE  NoRivalCommits'
<1>1. Adds
  BY AddStep
<1>2. CASE created' = created
  BY <1>2 DEF NoRivalCommits
<1>3. ASSUME NEW c, created' = created \union {c}, Sends(c) PROVE NoRivalCommits'
  BY <1>3 DEF NoRivalCommits, Sends
<1>4. ASSUME NEW c, created' = created \union {c}, Commits(c) PROVE NoRivalCommits'
  <2>1. c.from = Leader /\ Leader \in Members /\ saving[Leader] = "own"
          /\ c.epoch = live[Leader].epoch
    BY <1>4, LeaderAssumption DEF Commits, CommitInv
  <2>2. live[Leader].epoch \in Nat /\ disk[Leader].epoch \in Nat
          /\ live[Leader].epoch > disk[Leader].epoch
    BY <2>1, HandleTypes, BoundAssumption DEF EpochInv
  <2>3. \A d \in created : d.kind = "commit" => d.epoch \in Nat /\ d.epoch <= disk[Leader].epoch
    BY SentTypes DEF CommitInv, SentIsDurable
  <2>4. \A d \in created : d.kind = "commit" => d.epoch # c.epoch
    BY <2>1, <2>2, <2>3
  <2> QED
    BY <1>4, <2>4 DEF NoRivalCommits
<1> QED
  BY <1>1, <1>2, <1>3, <1>4 DEF Adds

\* Others merge only what was handed out, and that is on the leader's disk.
LEMMA LeaderStep ==
  ASSUME TypeOK, EpochInv, CommitInv, SentIsDurable, LeaderCanRestore, [Next]_vars
  PROVE  LeaderCanRestore'
<1>1. Moves
  BY HandleStep
<1>2. \A q \in Members : live[q].epoch \in Nat /\ disk[q].epoch \in Nat
         /\ live[q].epoch >= disk[q].epoch
  BY HandleTypes, BoundAssumption DEF EpochInv
<1>3. disk'[Leader].epoch \in Nat /\ disk'[Leader].epoch >= disk[Leader].epoch
  BY <1>1, <1>2, LeaderAssumption DEF Moves, Keeps, Merges, Persists, Fails, Restarts
<1>4. \A d \in created : d.kind = "commit" => d.epoch \in Nat /\ d.epoch <= disk[Leader].epoch
  BY SentTypes DEF CommitInv, SentIsDurable
<1>5. ASSUME NEW q \in Members \ {Leader} PROVE live'[q].epoch <= disk'[Leader].epoch
  <2>1. live[q].epoch <= disk[Leader].epoch
    BY DEF LeaderCanRestore
  <2>2. /\ live'[q].epoch \in Nat
        /\ \/ live'[q].epoch <= live[q].epoch
           \/ \E d \in created : d.kind = "commit" /\ d.epoch = live'[q].epoch
    BY <1>1, <1>2 DEF Moves, Keeps, Merges, Persists, Fails, Restarts
  <2> QED
    BY <1>2, <1>3, <1>4, <2>1, <2>2, LeaderAssumption
<1> QED
  BY <1>5 DEF LeaderCanRestore

\* A live ratchet is ahead of all that its never restarted owner has sent.
LEMMA RatchetStep ==
  ASSUME TypeOK, IdInv, SentInv, RatchetInv, [Next]_vars
  PROVE  RatchetInv'
<1>1. Moves /\ Adds
  BY HandleStep, AddStep
<1>2. \A q \in Members : live[q].epoch \in Nat /\ disk[q].epoch \in Nat /\ live[q].gen \in Nat
  BY HandleTypes, BoundAssumption
<1>3. \A q \in Members :
        q \notin restarted' =>
          /\ q \notin restarted
          /\ \/ live'[q].epoch > live[q].epoch
             \/ live'[q].epoch = live[q].epoch /\ live'[q].gen >= live[q].gen
          /\ live'[q].epoch \in Nat
  BY <1>1, <1>2 DEF Moves, Keeps, Merges, Persists, Fails, Restarts
<1>4. \A q \in Members : live'[q].gen \in Nat
  BY TypeStep DEF TypeOK, GroupState
<1>5. ASSUME NEW c \in created, c.kind = "app", c.from \notin restarted',
               c.epoch = live'[c.from].epoch
      PROVE  c.gen < live'[c.from].gen
  <2>1. c.from \in Members /\ c.epoch \in Nat /\ c.gen \in Nat
    BY SentTypes
  <2>2. c.epoch <= live[c.from].epoch
    BY <1>3, <1>5, <2>1 DEF SentInv
  <2>3. c.epoch = live[c.from].epoch /\ live'[c.from].gen >= live[c.from].gen
    BY <1>2, <1>3, <1>5, <2>1, <2>2
  <2>4. c.gen < live[c.from].gen
    BY <1>3, <1>5, <2>1, <2>3 DEF RatchetInv
  <2> QED
    BY <1>2, <1>4, <2>1, <2>3, <2>4
<1>6. CASE created' = created
  BY <1>3, <1>5, <1>6, SentTypes DEF RatchetInv
<1>7. ASSUME NEW c, created' = created \union {c}, Sends(c) PROVE RatchetInv'
  <2>1. \A d \in created : d.kind = "app" /\ d.from = c.from /\ d.from \notin restarted'
           /\ d.epoch = c.epoch =>
          d.gen # c.gen
    BY <1>2, <1>3, <1>7, SentTypes DEF RatchetInv, Sends
  <2>2. c.gen < live'[c.from].gen
    BY <1>2, <1>7 DEF Sends
  <2>3. \A d \in created : d.from \in Members
    BY SentTypes
  <2> QED
    BY <1>3, <1>5, <1>7, <2>1, <2>2, <2>3 DEF RatchetInv
<1>8. ASSUME NEW c, created' = created \union {c}, Commits(c) PROVE RatchetInv'
  <2>1. c.kind # "app" /\ \A d \in created : d.from \in Members
    BY <1>8, SentTypes DEF Commits
  <2> QED
    BY <1>3, <1>5, <1>8, <2>1 DEF RatchetInv
<1> QED
  BY <1>1, <1>6, <1>7, <1>8 DEF Adds

\* A secret is spent by displaying, and a restart forgets some of the spending.
LEMMA SeenStep ==
  ASSUME TypeOK, SeenInv, [Next]_vars
  PROVE  SeenInv'
<1>1. CASE MergeOwnCommit
  BY <1>1, SpentStays, LeaderAssumption, BoundAssumption
     DEF MergeOwnCommit, SeenInv, GroupState, Ciphertext, Group, Fresh, TypeOK
<1>2. ASSUME NEW p \in Members, Encrypt(p) PROVE SeenInv'
  <2>1. live[p].epoch \in 0..MaxEpoch /\ live[p].key \in Nat /\ live[p].gen \in Nat
          /\ live[p].seen \in SUBSET (Members \X Nat)
    BY DEF TypeOK, GroupState
  <2>2. \A q \in Members : live'[q].epoch = live[q].epoch /\ live'[q].seen = live[q].seen
    BY <1>2, <2>1, GroupParts DEF Encrypt, TypeOK
  <2>3. created \subseteq created' /\ displayed' = displayed /\ disk' = disk
    BY <1>2 DEF Encrypt, Emit
  <2> QED
    BY <2>2, <2>3, SpentStays DEF SeenInv
<1>3. ASSUME NEW p \in Members, PersistOwn(p) PROVE SeenInv'
  <2>1. created \subseteq created' /\ displayed' = displayed /\ live' = live
    BY <1>3 DEF PersistOwn, Emit
  <2>2. \A q \in Members : disk'[q] = disk[q] \/ disk'[q] = live[q]
    BY <1>3 DEF PersistOwn, TypeOK
  <2> QED
    BY <2>1, <2>2, SpentStays DEF SeenInv
<1>4. ASSUME NEW p \in Members, PersistPeer(p) PROVE SeenInv'
  <2>1. created' = created /\ displayed' = displayed /\ live' = live
    BY <1>4 DEF PersistPeer
  <2>2. \A q \in Members : disk'[q] = disk[q] \/ disk'[q] = live[q]
    BY <1>4 DEF PersistPeer, TypeOK
  <2> QED
    BY <2>1, <2>2, SpentStays DEF SeenInv
<1>5. ASSUME NEW p \in Members, Restart(p) PROVE SeenInv'
  BY <1>5, SpentStays, LeaderAssumption, BoundAssumption
     DEF Restart, SeenInv, GroupState, Ciphertext, Group, Fresh, TypeOK
<1>6. ASSUME NEW p \in Members, NEW c \in stored, MergePeerCommit(p, c) PROVE SeenInv'
  BY <1>6, SpentStays, LeaderAssumption, BoundAssumption
     DEF MergePeerCommit, SeenInv, GroupState, Ciphertext, Group, Fresh, TypeOK
<1>7. ASSUME NEW p \in Members, NEW c \in stored, Decrypt(p, c) PROVE SeenInv'
  <2>1. live[p].epoch \in 0..MaxEpoch /\ live[p].key \in Nat /\ live[p].gen \in Nat
          /\ live[p].seen \in SUBSET (Members \X Nat)
    BY DEF TypeOK, GroupState
  <2>2. <<c.from, c.gen>> \in Members \X Nat
    BY DEF TypeOK, Ciphertext
  <2>3. UNCHANGED <<created, disk>> /\ displayed \subseteq displayed'
    BY <1>7 DEF Decrypt
  <2>4. \A q \in Members : live'[q].epoch = live[q].epoch
    BY <1>7, <2>1, <2>2, GroupParts DEF Decrypt, TypeOK
  <2>5. \A q \in Members : \A s \in live'[q].seen : s \in live[q].seen \/
          (q = p /\ s = <<c.from, c.gen>> /\ displayed' = displayed \union {<<p, c>>})
    <3>1. CASE live' = live
      BY <3>1
    <3>2. CASE live' # live
      <4>1. /\ live' = [live EXCEPT ![p] = Group(live[p].epoch, live[p].key, live[p].gen,
                                                 live[p].seen \union {<<c.from, c.gen>>})]
            /\ displayed' = displayed \union {<<p, c>>}
        BY <1>7, <3>2 DEF Decrypt
      <4>2. live'[p].seen = live[p].seen \union {<<c.from, c.gen>>}
        BY <4>1 DEF TypeOK, Group
      <4>3. \A q \in Members \ {p} : live'[q] = live[q]
        BY <4>1 DEF TypeOK
      <4> QED
        BY <4>1, <4>2, <4>3
    <3> QED
      BY <3>1, <3>2
  <2>6. ASSUME displayed' = displayed \union {<<p, c>>}
        PROVE  SpentOn(p, <<c.from, c.gen>>, live[p].epoch)'
    BY <1>7, <2>3, <2>4, <2>6 DEF Decrypt, SpentOn, TypeOK
  <2> QED
    BY <2>3, <2>4, <2>5, <2>6, SpentStays DEF SeenInv
<1>8. ASSUME NEW c \in onTheWay, Store(c) PROVE SeenInv'
  BY <1>8, SpentStays, LeaderAssumption, BoundAssumption
     DEF Store, SeenInv, GroupState, Ciphertext, Group, Fresh, TypeOK
<1>9. ASSUME NEW c \in onTheWay, Lose(c) PROVE SeenInv'
  BY <1>9, SpentStays, LeaderAssumption, BoundAssumption
     DEF Lose, SeenInv, GroupState, Ciphertext, Group, Fresh, TypeOK
<1>10. CASE UNCHANGED vars
  BY <1>10, SpentStays DEF vars, SeenInv, GroupState, Ciphertext, Group, Fresh, TypeOK
<1>11. ASSUME NEW p \in Members, PersistFails(p) PROVE SeenInv'
  BY <1>11 DEF PersistFails, SeenInv, SpentOn
<1> QED
  BY <1>1, <1>2, <1>3, <1>4, <1>5, <1>6, <1>7, <1>8, <1>9, <1>10, <1>11 DEF Next

\* The message a secret was spent on is the one that is dropped.
LEMMA DropsStep ==
  ASSUME TypeOK, RatchetInv, SeenInv, DropsOnlyReplays, [Next]_vars
  PROVE  DropsOnlyReplays'
<1>1. CASE MergeOwnCommit
  BY <1>1, LeaderAssumption, BoundAssumption DEF MergeOwnCommit, SeenInv, SpentOn, RatchetInv,
     DropsOnlyReplays, GroupState, Ciphertext, Group, Fresh, TypeOK
<1>2. ASSUME NEW p \in Members, Encrypt(p) PROVE DropsOnlyReplays'
  BY <1>2, LeaderAssumption, BoundAssumption DEF Encrypt, Emit, SeenInv, SpentOn, RatchetInv,
     DropsOnlyReplays, GroupState, Ciphertext, Group, Fresh, TypeOK
<1>3. ASSUME NEW p \in Members, PersistOwn(p) PROVE DropsOnlyReplays'
  BY <1>3, LeaderAssumption, BoundAssumption DEF PersistOwn, Emit, SeenInv, SpentOn, RatchetInv,
     DropsOnlyReplays, GroupState, Ciphertext, Group, Fresh, TypeOK
<1>4. ASSUME NEW p \in Members, PersistPeer(p) PROVE DropsOnlyReplays'
  BY <1>4, LeaderAssumption, BoundAssumption DEF PersistPeer, SeenInv, SpentOn, RatchetInv,
     DropsOnlyReplays, GroupState, Ciphertext, Group, Fresh, TypeOK
<1>5. ASSUME NEW p \in Members, Restart(p) PROVE DropsOnlyReplays'
  BY <1>5, LeaderAssumption, BoundAssumption DEF Restart, SeenInv, SpentOn, RatchetInv,
     DropsOnlyReplays, GroupState, Ciphertext, Group, Fresh, TypeOK
<1>6. ASSUME NEW p \in Members, NEW c \in stored, MergePeerCommit(p, c) PROVE DropsOnlyReplays'
  BY <1>6, LeaderAssumption, BoundAssumption DEF MergePeerCommit, SeenInv, SpentOn, RatchetInv,
     DropsOnlyReplays, GroupState, Ciphertext, Group, Fresh, TypeOK
<1>7. ASSUME NEW p \in Members, NEW c \in stored, Decrypt(p, c) PROVE DropsOnlyReplays'
  <2>1. displayed \subseteq displayed' /\ restarted' = restarted
    BY <1>7 DEF Decrypt
  <2>2. CASE skipped' = skipped
    BY <2>1, <2>2 DEF DropsOnlyReplays
  <2>3. CASE skipped' # skipped
    <3>1. <<c.from, c.gen>> \in live[p].seen /\ skipped' = skipped \union {<<p, c>>}
      BY <1>7, <2>3 DEF Decrypt
    <3>2. PICK d \in created : /\ d.kind = "app" /\ d.from = c.from /\ d.gen = c.gen
                               /\ d.epoch = live[p].epoch /\ <<p, d>> \in displayed
      BY <3>1 DEF SeenInv, SpentOn
    <3>3. c.from \in restarted \/ c = d
      BY <1>7, <3>2 DEF Decrypt, RatchetInv, TypeOK
    <3> QED
      BY <2>1, <3>1, <3>2, <3>3 DEF DropsOnlyReplays
  <2> QED
    BY <2>2, <2>3
<1>8. ASSUME NEW c \in onTheWay, Store(c) PROVE DropsOnlyReplays'
  BY <1>8, LeaderAssumption, BoundAssumption DEF Store, SeenInv, SpentOn, RatchetInv,
     DropsOnlyReplays, GroupState, Ciphertext, Group, Fresh, TypeOK
<1>9. ASSUME NEW c \in onTheWay, Lose(c) PROVE DropsOnlyReplays'
  BY <1>9, LeaderAssumption, BoundAssumption DEF Lose, SeenInv, SpentOn, RatchetInv,
     DropsOnlyReplays, GroupState, Ciphertext, Group, Fresh, TypeOK
<1>10. CASE UNCHANGED vars
  BY <1>10 DEF vars, SeenInv, SpentOn, RatchetInv, DropsOnlyReplays, GroupState, Ciphertext,
     Group, Fresh, TypeOK
<1>11. ASSUME NEW p \in Members, PersistFails(p) PROVE DropsOnlyReplays'
  BY <1>11, LeaderAssumption, BoundAssumption DEF PersistFails, SeenInv, SpentOn, RatchetInv,
     DropsOnlyReplays, GroupState, Ciphertext, Group, Fresh, TypeOK
<1> QED
  BY <1>1, <1>2, <1>3, <1>4, <1>5, <1>6, <1>7, <1>8, <1>9, <1>10, <1>11 DEF Next

-----------------------------------------------------------------------------
\* IInv holds in every reachable state.
THEOREM Inductive == Spec => []IInv
<1>1. Init => IInv
  BY LeaderAssumption, BoundAssumption, FS_EmptySet
     DEF Init, IInv, IdInv, EpochInv, SentInv, CommitInv, SentIsDurable,
    NoRivalCommits, LeaderCanRestore, RatchetInv, SeenInv, DropsOnlyReplays, GroupState,
      Ciphertext, Group, Fresh, TypeOK
<1>2. IInv /\ [Next]_vars => IInv'
  BY TypeStep, IdStep, EpochStep, SentStep, CommitStep, DurableStep, RivalStep, LeaderStep,
     RatchetStep,
    SeenStep, DropsStep DEF IInv
<1> QED
  BY <1>1, <1>2, PTL DEF Spec

\* Every variable keeps its type, whatever the bounds.
THEOREM TypeCorrect == Spec => []TypeOK
  BY Inductive, PTL DEF IInv

\* No restart takes a member behind a commit it has handed out, nor, unless a
\* snapshot of it has failed, behind an epoch it has sent a message in: the code
\* persists a merge before its commit leaves and before anything is encrypted.
THEOREM SentStaysDurable == Spec => []SentIsDurable
  BY Inductive, PTL DEF IInv

\* No two commits lead into one epoch, however often their author restarts.
THEOREM CommitsAreUnique == Spec => []NoRivalCommits
  BY Inductive, PTL DEF IInv

\* No member is in an epoch that the leader would not find on its disk.
THEOREM LeaderIsNeverBehind == Spec => []LeaderCanRestore
  BY Inductive, PTL DEF IInv

\* A message of a never restarted sender is dropped only by a member that has
\* displayed it.
THEOREM OnlyReplaysAreDropped == Spec => []DropsOnlyReplays
  BY Inductive, PTL DEF IInv
=============================================================================
