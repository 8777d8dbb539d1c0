------------------------------ MODULE HandOver ------------------------------
(***************************************************************************)
(* What a device link promises, whatever the server's handlers interleave   *)
(* with: a link takes bundles in while it is open and is never reopened, a  *)
(* bundle that was taken in may still be posted after the link has closed,  *)
(* the newest posted one waits, and a waiting bundle goes to one fetch,     *)
(* which closes the link.                                                   *)
(*                                                                         *)
(* DeviceLink implements this specification (Link there).                   *)
(***************************************************************************)
CONSTANTS Tokens, Uploads, Fetches, Nothing

VARIABLES
  link,      \* link[t]: "none", "open" or "closed"
  offered,   \* the bundles that have reached the server
  accepted,  \* <<u, t>>: bundle u was taken in for link t and is not posted yet
  waiting,   \* waiting[t]: the bundle a fetch would get, or Nothing
  taken      \* <<f, u>>: fetch f got bundle u

vars == <<link, offered, accepted, waiting, taken>>

Init ==
  /\ link = [t \in Tokens |-> "none"]
  /\ offered = {}
  /\ accepted = {}
  /\ waiting = [t \in Tokens |-> Nothing]
  /\ taken = {}

Open(t) ==
  /\ link[t] = "none"
  /\ link' = [link EXCEPT ![t] = "open"]
  /\ UNCHANGED <<offered, accepted, waiting, taken>>

Accept(u, t) ==
  /\ link[t] = "open"
  /\ u \notin offered
  /\ offered' = offered \union {u}
  /\ accepted' = accepted \union {<<u, t>>}
  /\ UNCHANGED <<link, waiting, taken>>

Refuse(u) ==
  /\ offered' = offered \union {u}
  /\ UNCHANGED <<link, accepted, waiting, taken>>

GiveUp(u, t) ==
  /\ accepted' = accepted \ {<<u, t>>}
  /\ UNCHANGED <<link, offered, waiting, taken>>

Post(u, t) ==
  /\ <<u, t>> \in accepted
  /\ accepted' = accepted \ {<<u, t>>}
  /\ waiting' = [waiting EXCEPT ![t] = u]
  /\ UNCHANGED <<link, offered, taken>>

Take(f, t) ==
  /\ waiting[t] # Nothing
  /\ taken' = taken \union {<<f, waiting[t]>>}
  /\ waiting' = [waiting EXCEPT ![t] = Nothing]
  /\ link' = [link EXCEPT ![t] = "closed"]
  /\ UNCHANGED <<offered, accepted>>

Close(t) ==
  /\ link[t] = "open"
  /\ link' = [link EXCEPT ![t] = "closed"]
  /\ UNCHANGED <<offered, accepted, waiting, taken>>

Next ==
  \/ \E u \in Uploads : Refuse(u)
  \/ \E t \in Tokens :
       \/ Open(t) \/ Close(t)
       \/ \E u \in Uploads : Accept(u, t) \/ GiveUp(u, t) \/ Post(u, t)
       \/ \E f \in Fetches : Take(f, t)

Spec == Init /\ [][Next]_vars
=============================================================================
