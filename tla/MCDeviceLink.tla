---------------------------- MODULE MCDeviceLink ----------------------------
EXTENDS DeviceLink, TLC

CONSTANTS t1, t2, u1, u2, f1, f2, f3, general

Symmetry ==
  Permutations(Tokens) \union Permutations(Uploads) \union Permutations(Fetches)
=============================================================================
