----------------------------- MODULE MCChannels -----------------------------
(* Three texts: the upper-case and the lower-case spelling of one UUID, and  *)
(* a text of the required length that is no UUID.                            *)
EXTENDS Channels
CONSTANTS upper, lower, free
MCKeys == {upper, lower, free}
MCIdOf == [k \in MCKeys |-> IF k = free THEN NoId ELSE upper]

(* Without two spellings of one UUID.                                        *)
CleanKeys == {upper, free}
CleanIdOf == [k \in CleanKeys |-> IF k = free THEN NoId ELSE upper]
=============================================================================
