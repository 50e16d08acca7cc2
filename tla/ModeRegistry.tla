---------------------------- MODULE ModeRegistry ----------------------------
(* bmo.modes.registry.ModeRegistry: the assistant worker routes input to the  *)
(* active mode, starts a mode from a matching request or a menu launch, and   *)
(* quarantines a mode whose callback raises; the Qt thread closes the         *)
(* registry while the worker may be inside any callback.  A step is one       *)
(* critical section of the registry's lock or one call of a mode, which runs  *)
(* outside the lock.  The order of the modes is abstracted to a choice.       *)
EXTENDS Naturals, FiniteSets

CONSTANTS Mode, NoMode
ASSUME ModeConstants == NoMode \notin Mode

VARIABLES registered,    \* _modes
          active,        \* _active_mode
          quarantined,   \* _quarantined_modes
          marked,        \* _closed_modes: whose close() was claimed
          closed,        \* _closed
          running,       \* modes whose is_active() is true
          closes,        \* how often close() of each mode was called
          pc, mode,      \* the worker, and the mode it is dealing with
          alive,         \* its unlocked reading of is_active()
          candidates,    \* the snapshot match_start_request goes through
          ui, todo, closing  \* the Qt thread in close()

registry == <<registered, active, quarantined, marked, closed>>
modes == <<running, closes>>
worker == <<pc, mode, alive, candidates>>
qt == <<ui, todo, closing>>
modeVars == <<registry, modes, worker, qt>>

ModeInit ==
    /\ registered = Mode /\ active = NoMode /\ quarantined = {} /\ marked = {}
    /\ closed = FALSE /\ running = {} /\ closes = [m \in Mode |-> 0]
    /\ pc = "idle" /\ mode = NoMode /\ alive = FALSE /\ candidates = {}
    /\ ui = "open" /\ todo = {} /\ closing = NoMode

\* _current_mode: an active mode that reports it has ended is released
Current == IF active \in running THEN active ELSE NoMode

Goto(l, m) == pc' = l /\ mode' = m /\ UNCHANGED <<alive, candidates>>

-----------------------------------------------------------------------------
(* The worker *)

\* route_input: the active mode first, else a match among the registered ones
RouteInput ==
    /\ pc = "idle"
    /\ active' = Current
    /\ IF Current # NoMode
       THEN Goto("input", Current)
       ELSE Goto("match", NoMode)
    /\ UNCHANGED <<registered, quarantined, marked, closed, modes, qt>>

Snapshot ==
    /\ pc = "match"
    /\ active' = Current
    /\ IF closed \/ Current # NoMode
       THEN Goto("idle", NoMode)
       ELSE /\ candidates' = registered
            /\ pc' = "matching" /\ UNCHANGED <<mode, alive>>
    /\ UNCHANGED <<registered, quarantined, marked, closed, modes, qt>>

\* matches_start_request: no candidate matches, one does, or one raises
Match ==
    /\ pc = "matching"
    /\ \/ Goto("idle", NoMode)
       \/ \E m \in candidates : Goto("start", m) \/ Goto("fail", m)
    /\ UNCHANGED <<registry, modes, qt>>

\* start_menu_item: a second tap on the mode that already runs is ignored
MenuLaunch(m) ==
    /\ pc = "idle"
    /\ active' = Current
    /\ Goto(IF m \in registered /\ Current # m THEN "start" ELSE "idle", m)
    /\ UNCHANGED <<registered, quarantined, marked, closed, modes, qt>>

\* slip: the mode that owns input is not looked at
OwnerUnchecked(m) == ~closed /\ m \in registered

\* what start() requires, under the lock
MayStart(m) == ~closed /\ Current = NoMode /\ m \in registered

BeginStart ==
    /\ pc = "start"
    /\ IF MayStart(mode)
       THEN active' = mode /\ Goto("starting", mode)
       ELSE active' = Current /\ Goto("idle", NoMode)
    /\ UNCHANGED <<registered, quarantined, marked, closed, modes, qt>>

\* mode.start(): runs, ends at once, or raises part way
StartCall ==
    /\ pc = "starting"
    /\ \E l \in {"settle", "fail"} : Goto(l, mode)
    /\ running' \in {running \cup {mode}, running \ {mode}}
    /\ UNCHANGED <<registry, closes, qt>>

\* mode.handle_input(): the mode goes on, ends, or raises
InputCall ==
    /\ pc = "input"
    /\ \E l \in {"settle", "fail"} : Goto(l, mode)
    /\ running' \in {running, running \ {mode}}
    /\ UNCHANGED <<registry, closes, qt>>

\* input_policy(), asked before each turn, may raise as well, and so may
\* is_active() wherever the registry reads it
PolicyRaises ==
    /\ pc = "idle" /\ Current # NoMode
    /\ Goto("fail", Current)
    /\ UNCHANGED <<registry, modes, qt>>

\* _clear_inactive: is_active() is read without the lock, then acted on
ReadAlive ==
    /\ pc = "settle"
    /\ alive' = (mode \in running)
    /\ pc' \in {"clear", "fail"} /\ UNCHANGED <<mode, candidates>>
    /\ UNCHANGED <<registry, modes, qt>>

ClearInactive ==
    /\ pc = "clear"
    /\ active' = (IF active = mode /\ ~alive THEN NoMode ELSE active)
    /\ Goto("idle", NoMode)
    /\ UNCHANGED <<registered, quarantined, marked, closed, modes, qt>>

\* slip: the failed mode is released but stays registered
StillRegistered(m) == registered

AfterQuarantine(m) == registered \ {m}

\* _handle_lifecycle_failure: release, unregister, quarantine
Quarantine ==
    /\ pc = "fail"
    /\ active' = (IF active = mode THEN NoMode ELSE active)
    /\ registered' = AfterQuarantine(mode)
    /\ quarantined' = quarantined \cup {mode}
    /\ Goto("claim", mode)
    /\ UNCHANGED <<marked, closed, modes, qt>>

Claimed(m) == m \in marked

\* _close_mode_once on the worker: claim under the lock, then call
Claim ==
    /\ pc = "claim"
    /\ marked' = marked \cup {mode}
    /\ IF Claimed(mode) THEN Goto("idle", NoMode) ELSE Goto("closing", mode)
    /\ UNCHANGED <<registered, active, quarantined, closed, modes, qt>>

Closes(m) == /\ running' = running \ {m}
             /\ closes' = [closes EXCEPT ![m] = @ + 1]

WorkerCloses ==
    /\ pc = "closing" /\ Closes(mode)
    /\ Goto("idle", NoMode)
    /\ UNCHANGED <<registry, qt>>

-----------------------------------------------------------------------------
(* The Qt thread, and a mode that ends by itself (its view is closed) *)

ToClose == registered

CloseRegistry ==
    /\ ui = "open" /\ ui' = "closing"
    /\ closed' = TRUE /\ active' = NoMode /\ todo' = ToClose
    /\ UNCHANGED <<registered, quarantined, marked, modes, worker, closing>>

CloseClaim(m) ==
    /\ ui = "closing" /\ closing = NoMode /\ m \in todo
    /\ todo' = todo \ {m}
    /\ marked' = marked \cup {m}
    /\ closing' = (IF Claimed(m) THEN NoMode ELSE m)
    /\ UNCHANGED <<registered, active, quarantined, closed, modes, worker, ui>>

CloseCall ==
    /\ ui = "closing" /\ closing # NoMode /\ Closes(closing)
    /\ closing' = NoMode
    /\ UNCHANGED <<registry, worker, ui, todo>>

CloseReturns ==
    /\ ui = "closing" /\ closing = NoMode /\ todo = {} /\ ui' = "closed"
    /\ UNCHANGED <<registry, modes, worker, todo, closing>>

ModeEnds(m) ==
    /\ m \in running /\ running' = running \ {m}
    /\ UNCHANGED <<registry, closes, worker, qt>>

-----------------------------------------------------------------------------
\* what the worker goes on with once it has begun
WorkerContinues == Snapshot \/ Match \/ BeginStart \/ StartCall \/ InputCall
                   \/ ReadAlive \/ ClearInactive \/ Quarantine \/ Claim \/ WorkerCloses

QtContinues == (\E m \in Mode : CloseClaim(m)) \/ CloseCall \/ CloseReturns

ModeNext == \/ RouteInput \/ PolicyRaises \/ WorkerContinues
            \/ \E m \in Mode : MenuLaunch(m) \/ ModeEnds(m)
            \/ CloseRegistry \/ QtContinues

ModeSpec == ModeInit /\ [][ModeNext]_modeVars

\* Neither thread is starved inside a call, and every callback returns
FairModeSpec == ModeSpec /\ WF_modeVars(WorkerContinues) /\ WF_modeVars(QtContinues)

-----------------------------------------------------------------------------
(* Properties *)

ModeTypeOK ==
    /\ registered \subseteq Mode /\ active \in Mode \cup {NoMode}
    /\ quarantined = Mode \ registered
    /\ marked \subseteq Mode /\ running \subseteq Mode /\ candidates \subseteq Mode
    /\ closed \in BOOLEAN /\ alive \in BOOLEAN /\ closes \in [Mode -> Nat]
    /\ pc \in {"idle", "input", "match", "matching", "start", "starting", "settle",
               "clear", "fail", "claim", "closing"}
    /\ mode \in Mode \cup {NoMode}
    /\ pc \in {"input", "start", "starting", "settle", "clear", "fail", "claim", "closing"}
          => mode \in Mode
    /\ todo \subseteq Mode /\ closing \in Mode \cup {NoMode}
    /\ ui \in {"open", "closing", "closed"} /\ closed = (ui # "open")

\* A mode is closed at most once, though the worker may be quarantining it at
\* the moment the Qt thread closes the registry (_close_mode_once).
ClosedAtMostOnce == \A m \in Mode : closes[m] <= 1

\* Two modes never run side by side: a launch, a matched request and a failing
\* callback all respect the mode that owns input (start, start_menu_item,
\* _handle_lifecycle_failure).
OneModeRuns == Cardinality(running) <= 1

\* A mode that failed is closed and never asked for input or started again.
QuarantineHolds ==
    [][\A m \in quarantined :
          ~(mode' = m /\ pc' \in {"input", "starting"} /\ pc # pc')]_modeVars

\* close() reaches every mode, those that the worker is quarantining too.
CloseReachesAll == closed ~> \A m \in Mode : closes[m] >= 1

\* What start() says of itself: "Cannot start a mode after closing the
\* registry."  The call of mode.start() is made after the lock is released, so a
\* whole close() fits in between, and the mode it closed starts to run.
NoStartAfterClose == [][ui = "closed" => running' \subseteq running]_modeVars

\* The registry in every state, whatever the worker and the Qt thread interleave.
ModesAreSafe == ModeTypeOK /\ ClosedAtMostOnce /\ OneModeRuns

\* How modes leave it: a quarantined one for good, all of them at close().
ModesRetire == QuarantineHolds /\ CloseReachesAll
=============================================================================
