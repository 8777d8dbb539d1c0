---------------------------- MODULE MCOnboarding ----------------------------
(* Small instances of Onboarding: users 1 to 3, channels as model values.  *)
EXTENDS Onboarding

CONSTANTS general, random
=============================================================================
