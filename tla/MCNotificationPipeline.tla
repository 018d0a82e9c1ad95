----------------------- MODULE MCNotificationPipeline -----------------------
(* Small instances of NotificationPipeline for TLC.                        *)
EXTENDS NotificationPipeline, TLC

CONSTANTS p1

OnePartition == [e \in Events |-> p1]
NoOthers == {}
InvalidOnly == {"invalid"}
UnknownOnly == {"unknown"}
Symmetry == Permutations(Members)
=============================================================================
