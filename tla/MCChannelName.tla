---------------------------- MODULE MCChannelName ----------------------------
(* The user types a name with white space around it.                         *)
EXTENDS ChannelName
CONSTANTS mine, theirs, padded

MCTrimmed == [text \in {padded} |-> mine]
=============================================================================
