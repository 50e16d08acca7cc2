----------------------------- MODULE MCServices -----------------------------
(* The runtime's shared services for TLC: the speech queue and the mode       *)
(* registry, one in focus in each behaviour while the other stays as it       *)
(* begins.  How turns, modes and speech meet is in TurnLoop.                  *)
EXTENDS SpeechQueue, ModeRegistry, TLC

CONSTANTS i1, i2, i3, view, m1, m2, m3

MCItem == {i1, i2, i3}
MCScope == {view}
MCMode == {m1, m2, m3}

VARIABLE focus

Speech == focus = "speech" /\ UNCHANGED <<focus, modeVars>>
Modes == focus = "modes" /\ UNCHANGED <<focus, speechVars>>

Next == (SpeechNext /\ Speech) \/ (ModeNext /\ Modes)

serviceVars == <<focus, speechVars, modeVars>>

Start == focus \in {"speech", "modes"} /\ SpeechInit /\ ModeInit

Spec == Start /\ [][Next]_serviceVars

\* The fairness of the speech thread, of the worker and of the Qt thread in
\* close(), each in the behaviours it takes part in.
FairSpec ==
    /\ Spec /\ WF_serviceVars(SpeechThread /\ Speech)
    /\ WF_serviceVars(WorkerContinues /\ Modes) /\ WF_serviceVars(QtContinues /\ Modes)
=============================================================================
