------------------------- MODULE MCInboundPipeline -------------------------
(***************************************************************************)
(* Small instance: one channel, two tasks, and messages of the kinds the   *)
(* pipeline tells apart.  The cache holds one id, so it evicts.            *)
(***************************************************************************)
EXTENDS InboundPipeline

CONSTANTS mine, text, file, commit, general

MCChannels == {general}
MCOwn == {mine} \intersect Msgs
MCCommits == {commit} \intersect Msgs
MCWithFile == {file} \intersect Msgs
MCChannelOf == [m \in Msgs |-> general]
=============================================================================
