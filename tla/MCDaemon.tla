------------------------------ MODULE MCDaemon ------------------------------
(***************************************************************************)
(* The research daemon for TLC: what daemons do with their files and their *)
(* day (ResearchDaemon), and what is seen of one of them (DaemonWatch).    *)
(* The two parts share no state, so in a behaviour one of them takes steps *)
(* and the other rests.                                                    *)
(***************************************************************************)
EXTENDS ResearchDaemon, DaemonWatch

MCInit == Init /\ WatchInit

MCNext ==
    \/ WatchInit /\ Next /\ UNCHANGED watchVars
    \/ Init /\ WatchNext /\ UNCHANGED vars

MCSpec ==
    /\ MCInit /\ [][MCNext]_<<vars, watchVars>>
    /\ \A d \in Daemons : WF_vars(WatchInit /\ Step(d))
=============================================================================
