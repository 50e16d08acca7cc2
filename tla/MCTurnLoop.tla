----------------------------- MODULE MCTurnLoop -----------------------------
(* TurnLoop on a small instance: two vision requests, a mode that captures    *)
(* continuously and one that suspends input, one typed request.               *)
EXTENDS TurnLoop, TLC

CONSTANTS v1, v2, talk, game

MCVision == {v1, v2}
MCMode == {talk, game}
MCSuspends == {game}
=============================================================================
