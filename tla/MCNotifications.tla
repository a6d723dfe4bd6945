-------------------------- MODULE MCNotifications --------------------------
EXTENDS Notifications
CONSTANTS m1, n1, x1, mail, post, ann

MCEvents      == {m1, n1, x1}
MCTopicOf(e)  == IF e = m1 THEN mail ELSE post
MCEffectOf(e) == IF e = m1 THEN "mail" ELSE IF e = x1 THEN "none" ELSE "row"
MCReceiverOf(e) == ann
=============================================================================
