--------------------------- MODULE MCConversation ---------------------------
(* Two devices.  Bob's clock is two messages late, so that his answers are   *)
(* dated before the messages they answer.                                    *)
EXTENDS Conversation
CONSTANTS ann, bob
MCDevices == {ann, bob}
MCSkew == [d \in {ann, bob} |-> IF d = ann THEN 0 ELSE -2]
=============================================================================
