------------------------------ MODULE MlsGroup ------------------------------
(***************************************************************************)
(* One channel's MLS group as its members' MlsGroupHandles hold it: the    *)
(* live group, the snapshot in the client's database, and the moments at    *)
(* which the code writes one to the other.  add_member and a received       *)
(* commit merge in memory and then persist, which may fail and leave the    *)
(* live group ahead of its snapshot; encrypt and decrypt advance the        *)
(* ratchets in memory only.  A restart (MlsGroupHandle::new) resumes from   *)
(* the snapshot.                                                            *)
(*                                                                         *)
(* The group starts with all Members in one epoch.  Leader is the one       *)
(* member that adds devices, so the only one that commits.  A ciphertext    *)
(* is on its way, then stored by the server or lost; stored ones may reach  *)
(* a member in any order and more than once (websocket and history).        *)
(***************************************************************************)
EXTENDS Naturals, FiniteSets, Sequences

CONSTANTS
  Members,
  Leader,
  MaxEpoch,   \* bound on the epochs
  MaxCommits, \* bound on the commits made, those that are never handed out included
  MaxSends    \* bound on the ciphertexts created, commits included

ASSUME LeaderAssumption == Leader \in Members
ASSUME BoundAssumption == MaxEpoch \in Nat /\ MaxCommits \in Nat /\ MaxSends \in Nat

VARIABLES
  live,       \* live[p]: the group in memory, see GroupState
  disk,       \* disk[p]: the snapshot in p's database
  saving,     \* saving[p]: "no", or merged and not yet persisted: "own", "peer"
  created,    \* history: every ciphertext that has left a handle
  onTheWay,   \* those handed to the network
  stored,     \* those the server has stored
  displayed,  \* history: <<p, c>> where p got the plaintext of c
  skipped,    \* history: <<p, c>> where p dropped c as a replay
  restarted,  \* history: members that have restarted
  failed,     \* history: members with a snapshot that was not written
  base        \* base[k]: the key of the epoch that the k-th commit was made in

vars == <<live, disk, saving, created, onTheWay, stored, displayed, skipped, restarted, failed,
  base>>
network == <<onTheWay, stored>>
histories == <<displayed, skipped, restarted, failed>>

\* An epoch has a number and a key.  The key stands for its secrets: the number
\* of the commit that made it, 0 at the start.  Two commits into one epoch make
\* two keys.  gen numbers the sender's own ciphertexts within the epoch; seen
\* holds the <<sender, gen>> pairs whose secrets have been used and deleted.
GroupState ==
  [epoch : 0..MaxEpoch, key : Nat, gen : Nat, seen : SUBSET (Members \X Nat)]

\* A commit carries the epoch and the key it leads into.
Ciphertext ==
  [kind : {"app", "commit"}, from : Members, epoch : 0..MaxEpoch, key : Nat, gen : Nat, id : Nat]

Group(e, k, g, s) == [epoch |-> e, key |-> k, gen |-> g, seen |-> s]

Fresh(e, k) == Group(e, k, 0, {})

Init ==
  /\ live = [p \in Members |-> Fresh(0, 0)]
  /\ disk = [p \in Members |-> Fresh(0, 0)]
  /\ saving = [p \in Members |-> "no"]
  /\ created = {} /\ onTheWay = {} /\ stored = {}
  /\ displayed = {} /\ skipped = {} /\ restarted = {} /\ failed = {}
  /\ base = <<>>

\* Hand a new ciphertext to the network; id tells it from every other one.
Emit(kind, p, e, k, g) ==
  LET c == [kind |-> kind, from |-> p, epoch |-> e, key |-> k, gen |-> g,
            id |-> Cardinality(created)]
  IN /\ created' = created \union {c}
     /\ onTheWay' = onTheWay \union {c}
     /\ UNCHANGED stored

\* Mutant of Encrypt: the ratchet stays where it is.
EncryptKeepsRatchet(p) ==
  /\ saving[p] = "no"
  /\ Cardinality(created) < MaxSends
  /\ Emit("app", p, live[p].epoch, live[p].key, live[p].gen)
  /\ UNCHANGED <<live, disk, saving, histories, base>>

\* encrypt_application: the ratchet advances in memory, nothing is written.
Encrypt(p) ==
  /\ saving[p] = "no"
  /\ Cardinality(created) < MaxSends
  /\ Emit("app", p, live[p].epoch, live[p].key, live[p].gen)
  /\ live' = [live EXCEPT ![p] = Group(@.epoch, @.key, @.gen + 1, @.seen)]
  /\ UNCHANGED <<disk, saving, histories, base>>

\* Mutant of MergeOwnCommit: the commit is handed out before the snapshot is written.
MergeOwnCommitSends ==
  /\ saving[Leader] = "no"
  /\ live[Leader].epoch < MaxEpoch
  /\ Len(base) < MaxCommits
  /\ Cardinality(created) < MaxSends
  /\ base' = Append(base, live[Leader].key)
  /\ live' = [live EXCEPT ![Leader] = Fresh(@.epoch + 1, Len(base) + 1)]
  /\ saving' = [saving EXCEPT ![Leader] = "peer"]
  /\ Emit("commit", Leader, live[Leader].epoch + 1, Len(base) + 1, 0)
  /\ UNCHANGED <<disk, histories>>

\* add_member up to merge_pending_commit; the session lock is held until the
\* snapshot is written.
MergeOwnCommit ==
  /\ saving[Leader] = "no"
  /\ live[Leader].epoch < MaxEpoch
  /\ Len(base) < MaxCommits
  /\ Cardinality(created) < MaxSends
  /\ base' = Append(base, live[Leader].key)
  /\ live' = [live EXCEPT ![Leader] = Fresh(@.epoch + 1, Len(base) + 1)]
  /\ saving' = [saving EXCEPT ![Leader] = "own"]
  /\ UNCHANGED <<disk, created, network, histories>>

\* Mutant of PersistOwn: the snapshot is not written.
PersistOwnForgets(p) ==
  /\ saving[p] = "own"
  /\ saving' = [saving EXCEPT ![p] = "no"]
  /\ Emit("commit", p, live[p].epoch, live[p].key, 0)
  /\ UNCHANGED <<live, disk, histories, base>>

\* persist_group in add_member; the commit is returned, and sent, after it.
PersistOwn(p) ==
  /\ saving[p] = "own"
  /\ disk' = [disk EXCEPT ![p] = live[p]]
  /\ saving' = [saving EXCEPT ![p] = "no"]
  /\ Emit("commit", p, live[p].epoch, live[p].key, 0)
  /\ UNCHANGED <<live, histories, base>>

\* decrypt_application on a commit made in the member's epoch: merged, not yet
\* persisted.
MergePeerCommit(p, c) ==
  /\ saving[p] = "no"
  /\ c \in stored /\ c.kind = "commit" /\ c.from # p
  /\ c.epoch = live[p].epoch + 1 /\ base[c.key] = live[p].key
  /\ live' = [live EXCEPT ![p] = Fresh(c.epoch, c.key)]
  /\ saving' = [saving EXCEPT ![p] = "peer"]
  /\ UNCHANGED <<disk, created, network, histories, base>>

PersistPeer(p) ==
  /\ saving[p] = "peer"
  /\ disk' = [disk EXCEPT ![p] = live[p]]
  /\ saving' = [saving EXCEPT ![p] = "no"]
  /\ UNCHANGED <<live, created, network, histories, base>>

\* Mutant of PersistFails: the error is swallowed and an own commit handed out.
PersistFailsSends(p) ==
  /\ saving[p] = "own"
  /\ saving' = [saving EXCEPT ![p] = "no"]
  /\ failed' = failed \union {p}
  /\ Emit("commit", p, live[p].epoch, live[p].key, 0)
  /\ UNCHANGED <<live, disk, displayed, skipped, restarted, base>>

\* persist_group returns an error: the handle stays with the merged group, an
\* own commit is not handed out, and the next persist writes what is live then.
PersistFails(p) ==
  /\ saving[p] # "no"
  /\ saving' = [saving EXCEPT ![p] = "no"]
  /\ failed' = failed \union {p}
  /\ UNCHANGED <<live, disk, created, network, displayed, skipped, restarted, base>>

\* decrypt_application on an application message of the current epoch and key:
\* the plaintext, or nothing when its secret is gone.  Any other is an error that
\* leaves the group alone.
Decrypt(p, c) ==
  LET secret == <<c.from, c.gen>> IN
  /\ saving[p] = "no"
  /\ c \in stored /\ c.kind = "app" /\ c.from # p
  /\ c.epoch = live[p].epoch /\ c.key = live[p].key
  /\ IF secret \in live[p].seen
       THEN /\ skipped' = skipped \union {<<p, c>>}
            /\ UNCHANGED <<live, displayed>>
       ELSE /\ live' = [live EXCEPT ![p] = Group(@.epoch, @.key, @.gen, @.seen \union {secret})]
            /\ displayed' = displayed \union {<<p, c>>}
            /\ UNCHANGED skipped
  /\ UNCHANGED <<disk, saving, created, network, restarted, failed, base>>

Store(c) ==
  /\ c \in onTheWay
  /\ onTheWay' = onTheWay \ {c}
  /\ stored' = stored \union {c}
  /\ UNCHANGED <<live, disk, saving, created, histories, base>>

\* A failed POST: neither the send path nor the bootstrap keeps the ciphertext.
Lose(c) ==
  /\ c \in onTheWay
  /\ onTheWay' = onTheWay \ {c}
  /\ UNCHANGED <<live, disk, saving, created, stored, histories, base>>

\* The process stops at any point; a new handle loads the snapshot.
Restart(p) ==
  /\ live' = [live EXCEPT ![p] = disk[p]]
  /\ saving' = [saving EXCEPT ![p] = "no"]
  /\ restarted' = restarted \union {p}
  /\ UNCHANGED <<disk, created, network, displayed, skipped, failed, base>>

Next ==
  \/ MergeOwnCommit
  \/ \E p \in Members : \/ Encrypt(p) \/ PersistOwn(p) \/ PersistPeer(p)
                      \/ PersistFails(p) \/ Restart(p)
  \/ \E p \in Members, c \in stored : MergePeerCommit(p, c) \/ Decrypt(p, c)
  \/ \E c \in onTheWay : Store(c) \/ Lose(c)

Spec == Init /\ [][Next]_vars

-----------------------------------------------------------------------------
(* Properties                                                              *)

TypeOK ==
  /\ live \in [Members -> GroupState]
  /\ disk \in [Members -> GroupState]
  /\ saving \in [Members -> {"no", "own", "peer"}]
  /\ created \subseteq Ciphertext
  /\ onTheWay \subseteq created /\ stored \subseteq created
  /\ displayed \subseteq Members \X stored
  /\ skipped \subseteq Members \X stored
  /\ restarted \subseteq Members /\ failed \subseteq Members
  /\ base \in Seq(Nat)

\* A commit that has left a handle leads into an epoch that its author can
\* restore, whatever failed; and so does what a member encrypts, unless a snapshot
\* of it was not written: then its messages are of an epoch a restart may lose.
SentIsDurable ==
  \A c \in created :
    \/ c.epoch <= disk[c.from].epoch
    \/ c.kind = "app" /\ c.from \in failed

\* At most one commit ever leads into an epoch, across restarts of its author:
\* two of them would split the group between those who merged either.
NoRivalCommits ==
  \A c, d \in created :
    c.kind = "commit" /\ d.kind = "commit" /\ c.epoch = d.epoch => c = d

\* Nobody is in an epoch the leader would not find on its own disk.
LeaderCanRestore == \A p \in Members \ {Leader} : live[p].epoch <= disk[Leader].epoch

\* A message is only dropped as a replay by a member that has displayed it
\* before, provided its sender has not restarted.
DropsOnlyReplays ==
  \A d \in skipped : d[2].from \in restarted \/ d \in displayed

\* The same of every sender, as the test of the session manager has it: what a
\* restored member encrypts is decrypted by the others.
RestoredSenderIsHeard == skipped \subseteq displayed
=============================================================================
