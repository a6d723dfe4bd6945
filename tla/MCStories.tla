------------------------------ MODULE MCStories ------------------------------
EXTENDS Stories
CONSTANTS s1, s2, ann, bob

MCOwnerOf(s) == IF s = s1 THEN ann ELSE bob
=============================================================================
