----------------------------- MODULE MCDesktop ------------------------------
EXTENDS Desktop

CONSTANTS crew, club, deck, hall

DeckAndHall == [c \in {deck, hall} |-> IF c = deck THEN crew ELSE club]
OneOnDeck == <<deck>>
=============================================================================
