---------------------------- MODULE SessionSilence ----------------------------
(***************************************************************************)
(* A session with a clock of its own: how long the server has taken nothing   *)
(* from the client.  The code keeps no such clock; it has two timers and      *)
(* says of them what they are to measure.                                    *)
(***************************************************************************)
EXTENDS Session

VARIABLE silence   \* history: the time since the server last took a message

silenceVars == <<sessionVars, silence>>

SilenceInit == SessionInit /\ silence = 0

SilenceNext ==
  /\ SessionNext
  /\ silence' = IF ServerReceives THEN 0
                ELSE IF Tick /\ Handled THEN silence + 1
                ELSE silence

SilenceSpec == SilenceInit /\ [][SilenceNext]_silenceVars /\ Fairness

\* clientconnectionhandler.cpp restarts its timer in one handler and leaves it
\* running when it fires: still no session outlives a silence of the length of
\* the timer, authenticated or not, whatever its TeamSpeak 3 check does.
SilentAreCut == Handled => silence <= ConnectionTimeout

================================================================================
