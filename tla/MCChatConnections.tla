------------------------- MODULE MCChatConnections -------------------------
EXTENDS ChatConnections
CONSTANTS ann, bob, a1, a2, a3, b1, b2

MCUsers == {ann, bob}
MCUserOf(c) == IF c \in {a1, a2, a3} THEN ann ELSE bob
=============================================================================
