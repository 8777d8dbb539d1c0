--------------------------- MODULE MCMessageRelay ---------------------------
(* Small instances of MessageRelay: users as model values.                 *)
EXTENDS MessageRelay

CONSTANTS ann, bob
=============================================================================
