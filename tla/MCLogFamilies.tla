---------------------------- MODULE MCLogFamilies ----------------------------
(* Instances of LogFamilies for TLC.                                        *)
EXTENDS LogFamilies

\* Refused, chosen by the function, the system's, free for the caller.
AddedNumbers == {-2, -1, 0, 1, 2, MAX_NUM_FAMILY}
=============================================================================
