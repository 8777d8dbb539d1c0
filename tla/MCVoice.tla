------------------------------ MODULE MCVoice ------------------------------
EXTENDS Voice

CONSTANTS lounge, ann
=============================================================================
