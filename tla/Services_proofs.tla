--------------------------- MODULE Services_proofs ---------------------------
(* The runtime's shared services, for any set of modes, utterances and views.  *)
(*                                                                             *)
(* ModeRegistry: each mode is closed at most once, and at most one runs.  Both *)
(* rest on who may have claimed or may be running a mode at each step of the   *)
(* worker (ClaimsOK, RunsOK).                                                  *)
(*                                                                             *)
(* SpeechQueue: a view has at most one utterance that can still be heard, and  *)
(* a turn that waits for its speech outlasts it.  It rests on what cancelling  *)
(* leaves of the list (ExcludingKeeps), in which place an utterance can be     *)
(* (OnePlace), and that no two of a view can be heard (OneHeard).              *)
(*                                                                             *)
(* KioskPresentation: what the face shows is so.  The count is either with the *)
(* one thread that speaks or in the newest signal posted (BadgeFollows); so is *)
(* the lock since it was checked (CoverFollows); and a passcode was entered    *)
(* only in a period that has begun (PeriodOK), which the next one has not.     *)
(*                                                                             *)
(* ExtensionLoading, for any tools, names and modules and scopes nested as     *)
(* deep as may be: what is registered is what was there when a scope began and *)
(* what it was offered (ScopesNest), and a tool that two scopes were offered   *)
(* was there when the inner one began (OfferedTwice): so a rollback closes     *)
(* nothing that another scope still answers for.                               *)
(*                                                                             *)
(* KioskShell, for a catalog of any length and any number of views and posted  *)
(* calls: a call names a view that was made, and closing that view is nothing  *)
(* or takes the one shown off the screen (ClosingAView); so every view but the *)
(* host's is closed, and one that goes leads to its page (OverItsPage).        *)
EXTENDS ModeRegistry, SpeechQueue, KioskPresentation, ExtensionLoading, KioskShell, FiniteSetTheorems,
        FunctionTheorems, Lists_proofs

(***************************************************************************)
(* The mode registry                                                       *)
(***************************************************************************)

\* close() was called only for a claimed mode, and whoever is about to call it
\* has the claim for itself.
ClaimsOK ==
    /\ \A m \in Mode : closes[m] <= 1 /\ (closes[m] # 0 => m \in marked)
    /\ pc = "closing" => mode \in marked /\ closes[mode] = 0
    /\ closing # NoMode => closing \in marked /\ closes[closing] = 0
    /\ pc = "closing" => mode # closing

\* The worker is inside a callback of a mode, or cleaning up after one.
InCallback == {"input", "starting", "settle", "clear"}
Busy == InCallback \cup {"fail", "claim", "closing"}

\* The mode the worker deals with, or else the one that owns input, is the only
\* one that may run; before close(), what it deals with is registered, hence
\* unclaimed, until it is quarantined.
RunsOK ==
    /\ \A x, y \in running : x = y
    /\ active \in registered \cup {NoMode}
    /\ closed => active = NoMode
    /\ pc = "matching" => running = {} /\ candidates \subseteq registered
    /\ pc \in Busy => running \subseteq {mode}
    /\ (pc \notin Busy /\ ~closed) => running \subseteq {active}
    /\ (pc \in InCallback /\ ~closed) => active = mode
    /\ (pc = "clear" /\ ~alive) => mode \notin running
    /\ pc \in InCallback \cup {"fail"} => mode \in registered
    /\ ~closed => marked \cap registered = {}
    /\ pc = "claim" => mode \notin registered
    /\ (pc = "claim" /\ ~closed) => mode \notin marked

LEMMA InitHolds == ModeInit => ModeTypeOK /\ ClaimsOK /\ RunsOK
<1> SUFFICES ASSUME ModeInit PROVE ModeTypeOK /\ ClaimsOK /\ RunsOK
    OBVIOUS
<1>1. ModeTypeOK
      BY ModeConstants DEF ModeInit, ModeTypeOK
<1>2. ClaimsOK
      BY DEF ModeInit, ClaimsOK
<1>3. RunsOK
      BY DEF ModeInit, RunsOK, InCallback, Busy
<1> QED
    BY <1>1, <1>2, <1>3

\* Every step keeps the types.
LEMMA TypeStep == ModeTypeOK /\ [ModeNext]_modeVars => ModeTypeOK'
<1> SUFFICES ASSUME ModeTypeOK, [ModeNext]_modeVars PROVE ModeTypeOK'
    OBVIOUS
<1> USE ModeConstants DEF ModeTypeOK, Goto, Current
<1>1. CASE RouteInput
      BY <1>1 DEF RouteInput, modes, qt
<1>2. CASE PolicyRaises
      BY <1>2 DEF PolicyRaises, registry, modes, qt
<1>3. CASE Snapshot
      BY <1>3 DEF Snapshot, modes, qt
<1>4. CASE Match
      BY <1>4 DEF Match, registry, modes, qt
<1>5. CASE BeginStart
      BY <1>5 DEF BeginStart, MayStart, modes, qt
<1>6. CASE StartCall
      BY <1>6 DEF StartCall, registry, qt
<1>7. CASE InputCall
      BY <1>7 DEF InputCall, registry, qt
<1>8. CASE ReadAlive
      BY <1>8 DEF ReadAlive, registry, modes, qt
<1>9. CASE ClearInactive
      BY <1>9 DEF ClearInactive, modes, qt
<1>10. CASE Quarantine
      BY <1>10 DEF Quarantine, AfterQuarantine, modes, qt
<1>11. CASE Claim
      BY <1>11 DEF Claim, Claimed, modes, qt
<1>12. CASE WorkerCloses
      BY <1>12 DEF WorkerCloses, Closes, registry, qt
<1>13. ASSUME NEW m \in Mode, MenuLaunch(m) PROVE ModeTypeOK'
      BY <1>13 DEF MenuLaunch, modes, qt
<1>14. ASSUME NEW m \in Mode, ModeEnds(m) PROVE ModeTypeOK'
      BY <1>14 DEF ModeEnds, registry, worker, qt
<1>15. CASE CloseRegistry
      BY <1>15 DEF CloseRegistry, ToClose, modes, worker
<1>16. ASSUME NEW m \in Mode, CloseClaim(m) PROVE ModeTypeOK'
      BY <1>16 DEF CloseClaim, Claimed, modes, worker
<1>17. CASE CloseCall
      BY <1>17 DEF CloseCall, Closes, registry, worker
<1>18. CASE CloseReturns
      BY <1>18 DEF CloseReturns, registry, modes, worker
<1>19. CASE UNCHANGED modeVars
      BY <1>19 DEF modeVars, registry, modes, worker, qt
<1> QED
    BY <1>1, <1>2, <1>3, <1>4, <1>5, <1>6, <1>7, <1>8, <1>9, <1>10, <1>11, <1>12,
       <1>13, <1>14, <1>15, <1>16, <1>17, <1>18, <1>19
       DEF ModeNext, WorkerContinues, QtContinues

\* No step gives two callers the same claim.
LEMMA ClaimStep == ModeTypeOK /\ ClaimsOK /\ [ModeNext]_modeVars => ClaimsOK'
<1> SUFFICES ASSUME ModeTypeOK, ClaimsOK, [ModeNext]_modeVars PROVE ClaimsOK'
    OBVIOUS
<1> USE ModeConstants DEF ModeTypeOK, ClaimsOK, Goto
<1>1. CASE RouteInput
      BY <1>1 DEF RouteInput, modes, qt
<1>2. CASE PolicyRaises
      BY <1>2 DEF PolicyRaises, registry, modes, qt
<1>3. CASE Snapshot
      BY <1>3 DEF Snapshot, modes, qt
<1>4. CASE Match
      BY <1>4 DEF Match, registry, modes, qt
<1>5. CASE BeginStart
      BY <1>5 DEF BeginStart, modes, qt
<1>6. CASE StartCall
      BY <1>6 DEF StartCall, registry, qt
<1>7. CASE InputCall
      BY <1>7 DEF InputCall, registry, qt
<1>8. CASE ReadAlive
      BY <1>8 DEF ReadAlive, registry, modes, qt
<1>9. CASE ClearInactive
      BY <1>9 DEF ClearInactive, modes, qt
<1>10. CASE Quarantine
      BY <1>10 DEF Quarantine, modes, qt
<1>11. CASE Claim
      BY <1>11 DEF Claim, Claimed, modes, qt
<1>12. CASE WorkerCloses
      BY <1>12 DEF WorkerCloses, Closes, registry, qt
<1>13. ASSUME NEW m \in Mode, MenuLaunch(m) PROVE ClaimsOK'
      BY <1>13 DEF MenuLaunch, modes, qt
<1>14. ASSUME NEW m \in Mode, ModeEnds(m) PROVE ClaimsOK'
      BY <1>14 DEF ModeEnds, registry, worker, qt
<1>15. CASE CloseRegistry
      BY <1>15 DEF CloseRegistry, modes, worker
<1>16. ASSUME NEW m \in Mode, CloseClaim(m) PROVE ClaimsOK'
      BY <1>16 DEF CloseClaim, Claimed, modes, worker
<1>17. CASE CloseCall
      BY <1>17 DEF CloseCall, Closes, registry, worker
<1>18. CASE CloseReturns
      BY <1>18 DEF CloseReturns, registry, modes, worker
<1>19. CASE UNCHANGED modeVars
      BY <1>19 DEF modeVars, registry, modes, worker, qt
<1> QED
    BY <1>1, <1>2, <1>3, <1>4, <1>5, <1>6, <1>7, <1>8, <1>9, <1>10, <1>11, <1>12,
       <1>13, <1>14, <1>15, <1>16, <1>17, <1>18, <1>19
       DEF ModeNext, WorkerContinues, QtContinues

\* No step lets a second mode run.
LEMMA RunStep == ModeTypeOK /\ RunsOK /\ [ModeNext]_modeVars => RunsOK'
<1> SUFFICES ASSUME ModeTypeOK, RunsOK, [ModeNext]_modeVars PROVE RunsOK'
    OBVIOUS
<1> USE ModeConstants DEF ModeTypeOK, RunsOK, InCallback, Busy, Goto
<1>1. CASE RouteInput
      BY <1>1 DEF RouteInput, Current, modes, qt
<1>2. CASE PolicyRaises
      BY <1>2 DEF PolicyRaises, Current, registry, modes, qt
<1>3. CASE Snapshot
      BY <1>3 DEF Snapshot, Current, modes, qt
<1>4. CASE Match
      BY <1>4 DEF Match, registry, modes, qt
<1>5. CASE BeginStart
      BY <1>5 DEF BeginStart, MayStart, Current, modes, qt
<1>6. CASE StartCall
      BY <1>6 DEF StartCall, registry, qt
<1>7. CASE InputCall
      BY <1>7 DEF InputCall, registry, qt
<1>8. CASE ReadAlive
      BY <1>8 DEF ReadAlive, registry, modes, qt
<1>9. CASE ClearInactive
      BY <1>9 DEF ClearInactive, modes, qt
<1>10. CASE Quarantine
      BY <1>10 DEF Quarantine, AfterQuarantine, modes, qt
<1>11. CASE Claim
      BY <1>11 DEF Claim, Claimed, modes, qt
<1>12. CASE WorkerCloses
      BY <1>12 DEF WorkerCloses, Closes, registry, qt
<1>13. ASSUME NEW m \in Mode, MenuLaunch(m) PROVE RunsOK'
      BY <1>13 DEF MenuLaunch, Current, modes, qt
<1>14. ASSUME NEW m \in Mode, ModeEnds(m) PROVE RunsOK'
      BY <1>14 DEF ModeEnds, registry, worker, qt
<1>15. CASE CloseRegistry
      BY <1>15 DEF CloseRegistry, modes, worker
<1>16. ASSUME NEW m \in Mode, CloseClaim(m) PROVE RunsOK'
      BY <1>16 DEF CloseClaim, Claimed, modes, worker
<1>17. CASE CloseCall
      BY <1>17 DEF CloseCall, Closes, registry, worker
<1>18. CASE CloseReturns
      BY <1>18 DEF CloseReturns, registry, modes, worker
<1>19. CASE UNCHANGED modeVars
      BY <1>19 DEF modeVars, registry, modes, worker, qt
<1> QED
    BY <1>1, <1>2, <1>3, <1>4, <1>5, <1>6, <1>7, <1>8, <1>9, <1>10, <1>11, <1>12,
       <1>13, <1>14, <1>15, <1>16, <1>17, <1>18, <1>19
       DEF ModeNext, WorkerContinues, QtContinues

\* A mode is closed at most once, by the worker that quarantines it or by the
\* Qt thread in ModeRegistry.close, for any set of modes (_close_mode_once).
THEOREM EachClosedAtMostOnce == ModeSpec => []ClosedAtMostOnce
<1>1. ModeTypeOK /\ ClaimsOK /\ [ModeNext]_modeVars => (ModeTypeOK /\ ClaimsOK)'
      BY TypeStep, ClaimStep
<1>2. ClaimsOK => ClosedAtMostOnce
      BY DEF ClaimsOK, ClosedAtMostOnce
<1> QED
    BY InitHolds, <1>1, <1>2, PTL DEF ModeSpec

\* At most one mode runs, whatever start, start_menu_item, route_input and
\* _handle_lifecycle_failure interleave with close, for any set of modes.
THEOREM OnlyOneRuns == ModeSpec => []OneModeRuns
<1>1. ModeTypeOK /\ RunsOK /\ [ModeNext]_modeVars => (ModeTypeOK /\ RunsOK)'
      BY TypeStep, RunStep
<1>2. ASSUME RunsOK PROVE OneModeRuns
  <2>1. CASE running = {}
        BY <2>1, FS_EmptySet DEF OneModeRuns
  <2>2. ASSUME NEW m \in running PROVE OneModeRuns
    <3>1. running = {m}
          BY <1>2, <2>2 DEF RunsOK
    <3> QED
        BY <3>1, FS_Singleton DEF OneModeRuns
  <2> QED
      BY <2>1, <2>2
<1> QED
    BY InitHolds, <1>1, <1>2, PTL DEF ModeSpec

\* Every variable keeps its type; the modes that are not registered any more
\* are exactly the quarantined ones.
THEOREM ModesTyped == ModeSpec => []ModeTypeOK
<1> QED
    BY InitHolds, TypeStep, PTL DEF ModeSpec

\* The three together: the registry is sound in every state, whatever the
\* worker and the Qt thread interleave, for any set of modes.
THEOREM ModesSafe == ModeSpec => []ModesAreSafe
<1> QED
    BY EachClosedAtMostOnce, OnlyOneRuns, ModesTyped, PTL DEF ModesAreSafe

\* The mode that owns input is one that is still registered.
OwnerOK == active \in registered \cup {NoMode}
LEMMA OwnerStep == ModeTypeOK /\ OwnerOK /\ [ModeNext]_modeVars => OwnerOK'
<1> SUFFICES ASSUME ModeTypeOK, OwnerOK, [ModeNext]_modeVars PROVE OwnerOK'
    OBVIOUS
<1>1. CASE RouteInput \/ Snapshot \/ \E m \in Mode : MenuLaunch(m)
      BY <1>1 DEF RouteInput, Snapshot, MenuLaunch, Current, OwnerOK
<1>2. CASE BeginStart
      BY <1>2 DEF BeginStart, MayStart, Current, OwnerOK
<1>3. CASE ClearInactive
      BY <1>3 DEF ClearInactive, OwnerOK
<1>4. CASE Quarantine
      BY <1>4 DEF Quarantine, AfterQuarantine, OwnerOK
<1>5. CASE CloseRegistry
      BY <1>5 DEF CloseRegistry, OwnerOK
<1>6. CASE Claim \/ \E m \in Mode : CloseClaim(m)
      BY <1>6 DEF Claim, CloseClaim, OwnerOK
<1>7. CASE UNCHANGED registry
      BY <1>7 DEF registry, OwnerOK
<1> QED
  <2>1. CASE PolicyRaises \/ Match \/ StartCall \/ InputCall \/ ReadAlive \/ WorkerCloses
        BY <1>7, <2>1 DEF PolicyRaises, Match, StartCall, InputCall, ReadAlive, WorkerCloses
  <2>2. CASE (\E m \in Mode : ModeEnds(m)) \/ CloseCall \/ CloseReturns \/ UNCHANGED modeVars
        BY <1>7, <2>2 DEF ModeEnds, CloseCall, CloseReturns, modeVars
  <2> QED
      BY <1>1, <1>2, <1>3, <1>4, <1>5, <1>6, <2>1, <2>2 DEF ModeNext, WorkerContinues, QtContinues

\* A mode that failed is never asked for input or started again, for any set of
\* modes: the worker asks the mode that owns input and starts one it still finds
\* registered (route_input, _handle_lifecycle_failure).
THEOREM QuarantineKept == ModeSpec => QuarantineHolds
<1>1. ModeInit => OwnerOK
      BY DEF ModeInit, OwnerOK
<1>2. ModeTypeOK /\ OwnerOK /\ [ModeNext]_modeVars => OwnerOK'
      BY OwnerStep
<1>3. ModeTypeOK /\ OwnerOK /\ [ModeNext]_modeVars =>
          [\A m \in quarantined : ~(mode' = m /\ pc' \in {"input", "starting"} /\ pc # pc')]_modeVars
  <2> SUFFICES ASSUME ModeTypeOK, OwnerOK, ModeNext, NEW m \in quarantined,
                      mode' = m, pc' \in {"input", "starting"}, pc # pc'
               PROVE  FALSE
      OBVIOUS
  <2>0. m \in Mode /\ m \notin registered /\ m # NoMode
        BY ModeConstants DEF ModeTypeOK
  <2>1. CASE RouteInput
        BY <2>0, <2>1 DEF RouteInput, Goto, Current, OwnerOK
  <2>2. CASE BeginStart
        BY <2>0, <2>2 DEF BeginStart, MayStart, Goto
  <2>3. CASE PolicyRaises \/ Snapshot \/ Match \/ StartCall \/ InputCall \/ ReadAlive \/ ClearInactive \/ Quarantine
        BY <2>3 DEF PolicyRaises, Snapshot, Match, StartCall, InputCall, ReadAlive, ClearInactive, Quarantine, Goto
  <2>4. CASE Claim \/ WorkerCloses \/ \E k \in Mode : MenuLaunch(k)
        BY <2>4 DEF Claim, WorkerCloses, MenuLaunch, Goto
  <2>5. CASE CloseRegistry \/ QtContinues \/ \E k \in Mode : ModeEnds(k)
        BY <2>5 DEF CloseRegistry, QtContinues, CloseClaim, CloseCall, CloseReturns, ModeEnds, worker
  <2> QED
      BY <2>1, <2>2, <2>3, <2>4, <2>5 DEF ModeNext, WorkerContinues
<1> QED
    BY InitHolds, TypeStep, <1>1, <1>2, <1>3, PTL DEF ModeSpec, QuarantineHolds

(***************************************************************************)
(* The speech queue                                                        *)
(***************************************************************************)

\* The utterances that can still be heard.
Heard == (ToSet(queue) \cup (IF tts \in {"popped", "speak"} THEN {item} ELSE {})) \ cancelled

\* An utterance is in one place: offered, waiting, taken or cancelled.
OnePlace ==
    /\ \A i \in ToSet(queue) : i \notin offered /\ i \notin cancelled /\ i # item
    /\ \A i \in offered : i \notin cancelled /\ i # item
    /\ tts = "popped" => item \notin cancelled

OneHeard == \A x, y \in Heard : scope[x] = scope[y] /\ scope[x] # NoScope => x = y

\* What a turn waits for was put on the list before, so it never comes back, and
\* once the list was seen empty none of it waits.
AwaitedLeave ==
    /\ awaited \cap offered = {}
    /\ waiter = "event" => awaited \cap ToSet(queue) = {}

SpeechInv == RequestsTyped /\ ThreadsTyped /\ OnePlace /\ OneHeard

\* The list after each step that writes it.
LEMMA PutQueue ==
  ASSUME SpeechInv, NEW i \in Item, Put(i)
  PROVE  /\ queue' \in Seq(Item) /\ IsInjective(queue')
         /\ ToSet(queue') = (ToSet(queue) \ Replaced(i)) \cup {i}
<1>1. /\ Without(Replaced(i)) \in Seq(Item) /\ IsInjective(Without(Replaced(i)))
      /\ ToSet(Without(Replaced(i))) = ToSet(queue) \ Replaced(i)
  BY ExcludingKeeps DEF SpeechInv, RequestsTyped, Without
<1>2. i \notin ToSet(queue) /\ queue' = Append(Without(Replaced(i)), i)
  BY DEF SpeechInv, OnePlace, Put
<1>3. QED
  BY <1>1, <1>2, AppendNew

\* See PutQueue.
LEMMA CancelQueue ==
  ASSUME SpeechInv, NEW s \in Scope, CancelScope(s)
  PROVE  /\ queue' \in Seq(Item) /\ IsInjective(queue')
         /\ ToSet(queue') = ToSet(queue) \ InScope(s)
  BY ExcludingKeeps DEF SpeechInv, RequestsTyped, CancelScope, Without

\* See PutQueue.
LEMMA NoQueue == <<>> \in Seq(Item) /\ IsInjective(<<>>) /\ ToSet(<<>>) = {}
  BY DEF IsInjective, ToSet

\* See PutQueue.
LEMMA PopQueue ==
  ASSUME SpeechInv, Pop
  PROVE  /\ queue' \in Seq(Item) /\ IsInjective(queue') /\ item' \in ToSet(queue)
         /\ ToSet(queue') = ToSet(queue) \ {item'}
  BY TailInjective DEF SpeechInv, RequestsTyped, Pop

\* The speech queue begins well.
LEMMA SpeechInit0 == SpeechInit => SpeechInv /\ AwaitedLeave
  BY NoQueue, SpeechConstants DEF SpeechInit, SpeechInv, RequestsTyped, ThreadsTyped, OnePlace,
     OneHeard, Heard, AwaitedLeave

\* Only utterances that were asked for are cancelled.
LEMMA LiveUsed == ASSUME SpeechInv, NEW S \in SUBSET Item PROVE Live(S) \subseteq used
  BY SpeechConstants DEF SpeechInv, RequestsTyped, ThreadsTyped, Live

\* A scope is a set of utterances.
LEMMA ScopesOfItems == \A s : InScope(s) \subseteq Item
  BY DEF InScope

\* Each step keeps the types of the list and the requests.
LEMMA RequestsStep == ASSUME SpeechInv, [SpeechNext]_speechVars PROVE RequestsTyped'
<1> USE DEF SpeechInv, RequestsTyped
<1>1. ASSUME NEW i \in Item, NEW s \in Scope \cup {NoScope}, Offer(i, s) PROVE RequestsTyped'
  BY <1>1 DEF Offer, waiting
<1>2. ASSUME NEW i \in Item, Put(i) PROVE RequestsTyped'
  <2>1. Replaced(i) \subseteq used
    BY LiveUsed, ScopesOfItems DEF Replaced
  <2>2. QED
    BY <1>2, <2>1, PutQueue DEF Put, waiting
<1>3. ASSUME NEW s \in Scope, CancelScope(s) PROVE RequestsTyped'
  <2>1. Live(InScope(s)) \subseteq used
    BY LiveUsed, ScopesOfItems
  <2>2. QED
    BY <1>3, <2>1, CancelQueue DEF CancelScope, waiting, requests
<1>4. CASE ClearQueue
  <2>1. Live(Item) \subseteq used
    BY LiveUsed
  <2>2. QED
    BY <1>4, <2>1, NoQueue DEF ClearQueue, waiting, requests
<1>5. CASE Pop
  BY <1>5, PopQueue DEF Pop, waiting, requests
<1>6. CASE Post
  BY <1>6 DEF Post, Reports, requests, waiting, ThreadsTyped
<1>7. CASE Wait
  BY <1>7 DEF Wait, requests
<1>8. CASE UNCHANGED <<queue, requests, cancelled, completed, awaited>>
  BY <1>8 DEF requests
<1>9. QED
  <2>1. CASE RaiseInterrupt \/ BeginQuietHours \/ RaiseExit \/ EndQuietHours \/ ClearInterrupt
    BY <2>1, <1>8 DEF RaiseInterrupt, BeginQuietHours, RaiseExit, EndQuietHours, ClearInterrupt, waiting
  <2>2. CASE MarkActive \/ Spoken \/ Quit \/ ReadQueue \/ ReadEvent \/ UNCHANGED speechVars
    BY <2>2, <1>8 DEF MarkActive, Spoken, Quit, ReadQueue, ReadEvent, speechVars, waiting
  <2>3. QED
    BY <1>1, <1>2, <1>3, <1>4, <1>5, <1>6, <1>7, <2>1, <2>2 DEF SpeechNext, SpeechThread

\* Each step keeps the types of the threads and the flags.
LEMMA ThreadsStep == ASSUME SpeechInv, [SpeechNext]_speechVars PROVE ThreadsTyped'
<1> USE SpeechConstants DEF SpeechInv, ThreadsTyped
<1>1. ASSUME NEW i \in Item, NEW s \in Scope \cup {NoScope}, Offer(i, s) PROVE ThreadsTyped'
  BY <1>1 DEF Offer, speech, flags, waiting
<1>2. ASSUME NEW i \in Item, Put(i) PROVE ThreadsTyped'
  BY <1>2 DEF Put, speech, flags, waiting
<1>3. CASE \E s \in Scope : CancelScope(s)
  BY <1>3 DEF CancelScope, speech, flags, waiting, requests
<1>4. CASE RaiseInterrupt \/ BeginQuietHours \/ RaiseExit \/ ClearQueue
  <2>1. UNCHANGED <<tts, item, activeItem, ttsActive, waiter, used>> /\ speechUi' \in {"free", "clear"}
    BY <1>4 DEF RaiseInterrupt, BeginQuietHours, RaiseExit, ClearQueue, speech, waiting, requests
  <2>2. interrupted' \in BOOLEAN /\ locked' \in BOOLEAN /\ exiting' \in BOOLEAN
    BY <1>4 DEF RaiseInterrupt, BeginQuietHours, RaiseExit, ClearQueue
  <2>3. QED
    BY <2>1, <2>2
<1>5. CASE EndQuietHours \/ ClearInterrupt
  <2>1. UNCHANGED <<tts, item, activeItem, ttsActive, waiter, used, speechUi>>
    BY <1>5 DEF EndQuietHours, ClearInterrupt, speech, waiting, requests
  <2>2. interrupted' \in BOOLEAN /\ locked' \in BOOLEAN /\ exiting' \in BOOLEAN
    BY <1>5 DEF EndQuietHours, ClearInterrupt
  <2>3. QED
    BY <2>1, <2>2
<1>6. CASE Pop
  BY <1>6, PopQueue DEF Pop, flags, waiting, requests, RequestsTyped
<1>7. CASE MarkActive
  BY <1>7 DEF MarkActive, flags, waiting, requests, OnePlace
<1>8. CASE Spoken \/ Post \/ Quit
  <2>1. UNCHANGED <<interrupted, locked, exiting, speechUi, waiter, used>>
    BY <1>8 DEF Spoken, Post, Quit, flags, waiting, requests
  <2>2. CASE Spoken
    BY <2>1, <2>2 DEF Spoken
  <2>3. CASE Post
    BY <2>1, <2>3 DEF Post
  <2>4. CASE Quit
    BY <2>1, <2>4 DEF Quit
  <2>5. QED
    BY <1>8, <2>2, <2>3, <2>4
<1>9. CASE Wait \/ ReadQueue \/ ReadEvent
  BY <1>9 DEF Wait, ReadQueue, ReadEvent, AgainOrLeave, speech, flags, requests
<1>10. CASE UNCHANGED speechVars
  BY <1>10 DEF speechVars, speech, flags, requests, waiting
<1>11. QED
  BY <1>1, <1>2, <1>3, <1>4, <1>5, <1>6, <1>7, <1>8, <1>9, <1>10 DEF SpeechNext, SpeechThread

\* Each step keeps an utterance in one place.
LEMMA PlacesStep == ASSUME SpeechInv, [SpeechNext]_speechVars PROVE OnePlace'
<1> USE SpeechConstants DEF SpeechInv, OnePlace
<1>1. ASSUME NEW i \in Item, NEW s \in Scope \cup {NoScope}, Offer(i, s) PROVE OnePlace'
  BY <1>1 DEF Offer, speech, RequestsTyped, ThreadsTyped
<1>2. ASSUME NEW i \in Item, Put(i) PROVE OnePlace'
  <2>1. \A x \in Replaced(i) : x \in ToSet(queue) \/ x = item
    BY DEF Replaced, Live, ThreadsTyped, InScope, RequestsTyped
  <2>2. QED
    BY <1>2, <2>1, PutQueue DEF Put, speech, LockFree, ThreadsTyped
<1>3. ASSUME NEW s \in Scope, CancelScope(s) PROVE OnePlace'
  <2>1. \A x \in Live(InScope(s)) : x \in InScope(s) /\ (x \in ToSet(queue) \/ x = item)
    BY DEF Live, ThreadsTyped, InScope, RequestsTyped
  <2>2. QED
    BY <1>3, <2>1, CancelQueue DEF CancelScope, speech, requests, LockFree, ThreadsTyped
<1>4. CASE ClearQueue
  <2>1. \A x \in Live(Item) : x \in ToSet(queue) \/ x = item
    BY DEF Live, ThreadsTyped
  <2>2. QED
    BY <1>4, <2>1, NoQueue DEF ClearQueue, speech, requests, LockFree
<1>5. CASE Pop
  BY <1>5, PopQueue DEF Pop, requests
<1>6. CASE MarkActive \/ Spoken \/ Quit
  BY <1>6 DEF MarkActive, Spoken, Quit, requests
<1>7. CASE Post
  BY <1>7 DEF Post, requests, RequestsTyped
<1>8. CASE UNCHANGED <<queue, offered, cancelled, tts, item>>
  BY <1>8
<1>9. QED
  <2>1. CASE RaiseInterrupt \/ BeginQuietHours \/ RaiseExit \/ EndQuietHours \/ ClearInterrupt
    BY <2>1, <1>8 DEF RaiseInterrupt, BeginQuietHours, RaiseExit, EndQuietHours, ClearInterrupt,
                      requests, speech
  <2>2. CASE Wait \/ ReadQueue \/ ReadEvent \/ UNCHANGED speechVars
    BY <2>2, <1>8 DEF Wait, ReadQueue, ReadEvent, speechVars, requests, speech
  <2>3. QED
    BY <1>1, <1>2, <1>3, <1>4, <1>5, <1>6, <1>7, <2>1, <2>2 DEF SpeechNext, SpeechThread

\* Each step leaves at most one utterance of a view to be heard.
LEMMA HeardStep == ASSUME SpeechInv, [SpeechNext]_speechVars PROVE OneHeard'
<1> USE DEF SpeechInv, OneHeard
<1>1. ASSUME Heard' \subseteq Heard, \A i \in Heard : scope'[i] = scope[i] PROVE OneHeard'
  BY <1>1
<1>2. ASSUME NEW i \in Item, NEW s \in Scope \cup {NoScope}, Offer(i, s) PROVE OneHeard'
  <2>1. Heard' = Heard /\ \A x \in Heard : x \in used \/ x = NoItem
    BY <1>2 DEF Offer, Heard, speech, RequestsTyped, ThreadsTyped
  <2>2. \A x \in Heard : scope'[x] = scope[x]
    BY <1>2, <2>1, SpeechConstants DEF Offer, RequestsTyped
  <2>3. QED
    BY <1>1, <2>1, <2>2
<1>3. ASSUME NEW i \in Item, Put(i) PROVE OneHeard'
  <2>1. tts # "popped" /\ UNCHANGED <<tts, item, scope>>
    BY <1>3 DEF Put, LockFree, speech
  <2>2. \A x \in Heard : x \in Item => (x \in ToSet(queue) \cup {activeItem})
    BY <2>1 DEF Heard, ThreadsTyped
  <2>3. Heard \subseteq Item
    BY <2>1 DEF Heard, RequestsTyped, ThreadsTyped
  <2>4. \A x \in Heard : (scope[x] = scope[i] /\ scope[x] # NoScope) => x \in Replaced(i)
    BY <2>2, <2>3 DEF Replaced, Live, InScope
  <2>5. Heard' \subseteq (Heard \ Replaced(i)) \cup {i}
    <3>1. ToSet(queue') = (ToSet(queue) \ Replaced(i)) \cup {i}
      BY <1>3, PutQueue
    <3>2. cancelled' = cancelled \cup Replaced(i)
      BY <1>3 DEF Put
    <3>3. QED
      BY <2>1, <3>1, <3>2 DEF Heard
  <2>6. QED
    BY <2>1, <2>4, <2>5
<1>4. ASSUME NEW s \in Scope, CancelScope(s) PROVE OneHeard'
  <2>1. Heard' \subseteq Heard
    BY <1>4, CancelQueue DEF CancelScope, Heard, speech
  <2>2. QED
    BY <1>1, <1>4, <2>1 DEF CancelScope, requests
<1>5. CASE ClearQueue
  <2>1. Heard' \subseteq Heard
    BY <1>5, NoQueue DEF ClearQueue, Heard, speech
  <2>2. QED
    BY <1>1, <1>5, <2>1 DEF ClearQueue, requests
<1>6. CASE Pop
  <2>1. Heard' \subseteq Heard
    BY <1>6, PopQueue DEF Pop, Heard
  <2>2. QED
    BY <1>1, <1>6, <2>1 DEF Pop, requests
<1>7. CASE MarkActive \/ Spoken \/ Post \/ Quit
  <2>1. Heard' \subseteq Heard
    BY <1>7 DEF MarkActive, Spoken, Post, Quit, Heard
  <2>2. QED
    BY <1>1, <1>7, <2>1 DEF MarkActive, Spoken, Post, Quit, requests
<1>8. CASE UNCHANGED <<queue, scope, cancelled, tts, item>>
  BY <1>8 DEF Heard
<1>9. QED
  <2>1. CASE RaiseInterrupt \/ BeginQuietHours \/ RaiseExit \/ EndQuietHours \/ ClearInterrupt
    BY <2>1, <1>8 DEF RaiseInterrupt, BeginQuietHours, RaiseExit, EndQuietHours, ClearInterrupt,
                      requests, speech
  <2>2. CASE Wait \/ ReadQueue \/ ReadEvent \/ UNCHANGED speechVars
    BY <2>2, <1>8 DEF Wait, ReadQueue, ReadEvent, speechVars, requests, speech
  <2>3. QED
    BY <1>2, <1>3, <1>4, <1>5, <1>6, <1>7, <2>1, <2>2 DEF SpeechNext, SpeechThread

\* The invariant in the words of OneLivePerScope.
LEMMA OneHeardPerScope == ASSUME SpeechInv PROVE OneLivePerScope
<1> SUFFICES ASSUME NEW s \in Scope,
                    NEW heard, heard = {i \in ToSet(queue) \cup {item} : i \in InScope(s) /\ i \notin cancelled},
                    NEW H, H = IF tts = "post" THEN heard \ {item} ELSE heard
             PROVE  Cardinality(H) <= 1
  BY DEF OneLivePerScope
<1>1. H \subseteq Heard /\ \A i \in H : scope[i] = s
  BY SpeechConstants DEF Heard, InScope, SpeechInv, RequestsTyped, ThreadsTyped
<1>2. \A x, y \in H : x = y
  BY <1>1, SpeechConstants DEF SpeechInv, OneHeard
<1>3. H = {} \/ \E x : H = {x}
  BY <1>2
<1>4. CASE H = {}
  BY <1>4, FS_EmptySet
<1>5. ASSUME NEW x, H = {x} PROVE Cardinality(H) <= 1
  <2>1. Cardinality({x}) = 1
    BY FS_Singleton
  <2>2. QED
    BY <1>5, <2>1
<1>6. QED
  BY <1>3, <1>4, <1>5

\* The speech queue keeps its types, and newer speech of a view replaces the
\* older wherever that is: waiting, just taken, or being spoken, for any number
\* of views and utterances (_enqueue_scoped_speech against _tts_worker).
THEOREM SpeechSafe == SpeechSpec => []SpeechIsSafe
<1>1. SpeechInv /\ [SpeechNext]_speechVars => SpeechInv'
  BY RequestsStep, ThreadsStep, PlacesStep, HeardStep DEF SpeechInv
<1>2. SpeechInv => SpeechIsSafe
  BY OneHeardPerScope DEF SpeechIsSafe, SpeechTypeOK, SpeechInv
<1>3. QED
  BY SpeechInit0, <1>1, <1>2, PTL DEF SpeechSpec

\* Each step keeps what a waiting turn relies on.
LEMMA AwaitedStep ==
  ASSUME SpeechInv, AwaitedLeave, [SpeechNext]_speechVars PROVE AwaitedLeave'
<1> USE DEF SpeechInv, AwaitedLeave
<1>1. ASSUME NEW i \in Item, NEW s \in Scope \cup {NoScope}, Offer(i, s) PROVE AwaitedLeave'
  BY <1>1 DEF Offer, waiting, RequestsTyped
<1>2. ASSUME NEW i \in Item, Put(i) PROVE AwaitedLeave'
  BY <1>2, PutQueue DEF Put, waiting
<1>3. ASSUME NEW s \in Scope, CancelScope(s) PROVE AwaitedLeave'
  BY <1>3, CancelQueue DEF CancelScope, waiting, requests
<1>4. CASE ClearQueue
  BY <1>4, NoQueue DEF ClearQueue, waiting, requests
<1>5. CASE Pop
  BY <1>5, PopQueue DEF Pop, waiting, requests
<1>6. CASE Wait
  BY <1>6 DEF Wait, requests, OnePlace
<1>7. CASE ReadQueue
  BY <1>7, NoQueue DEF ReadQueue, QueueEmpty, AgainOrLeave, requests
<1>8. CASE ReadEvent
  BY <1>8 DEF ReadEvent, AgainOrLeave, requests
<1>9. CASE UNCHANGED <<queue, requests, waiting>>
  BY <1>9 DEF requests, waiting
<1>10. QED
  <2>1. CASE RaiseInterrupt \/ BeginQuietHours \/ RaiseExit \/ EndQuietHours \/ ClearInterrupt
    BY <2>1, <1>9 DEF RaiseInterrupt, BeginQuietHours, RaiseExit, EndQuietHours, ClearInterrupt
  <2>2. CASE MarkActive \/ Spoken \/ Post \/ Quit \/ UNCHANGED speechVars
    BY <2>2, <1>9 DEF MarkActive, Spoken, Post, Quit, speechVars
  <2>3. QED
    BY <1>1, <1>2, <1>3, <1>4, <1>5, <1>6, <1>7, <1>8, <2>1, <2>2 DEF SpeechNext, SpeechThread

\* Only ReadEvent ends a wait, and it saw the event cleared.
LEMMA LeavesSilent ==
  ASSUME SpeechInv, AwaitedLeave, [SpeechNext]_speechVars,
         waiter = "event", waiter' = "idle", ~interrupted, ~exiting, NEW i \in awaited
  PROVE  i \notin ToSet(queue) /\ (i = item => tts \in {"popped", "post"})
<1>1. ReadEvent
  <2>1. ~Wait /\ ~ReadQueue /\ waiter' # waiter
    BY DEF Wait, ReadQueue
  <2>2. CASE \/ \E x \in Item, s \in Scope \cup {NoScope} : Offer(x, s)
             \/ \E x \in Item : Put(x)
             \/ \E s \in Scope : CancelScope(s)
    BY <2>1, <2>2 DEF Offer, Put, CancelScope, waiting
  <2>3. CASE RaiseInterrupt \/ BeginQuietHours \/ RaiseExit \/ ClearQueue
    BY <2>1, <2>3 DEF RaiseInterrupt, BeginQuietHours, RaiseExit, ClearQueue, waiting
  <2>4. CASE EndQuietHours \/ ClearInterrupt \/ SpeechThread \/ UNCHANGED speechVars
    BY <2>1, <2>4 DEF EndQuietHours, ClearInterrupt, SpeechThread, Pop, MarkActive, Spoken,
                      Post, Quit, speechVars, waiting
  <2>5. QED
    BY <2>1, <2>2, <2>3, <2>4 DEF SpeechNext
<1>2. ~ttsActive
  BY <1>1 DEF ReadEvent, AgainOrLeave
<1>3. i \in Item
  BY DEF SpeechInv, RequestsTyped
<1>4. QED
  BY <1>2, <1>3, SpeechConstants DEF AwaitedLeave, SpeechInv, ThreadsTyped

\* A turn that leaves its wait uninterrupted has none of its speech queued or
\* being spoken, except an utterance taken from the list and not yet marked
\* active, for any number of utterances (wait_for_tts).
THEOREM TurnsOutlastSpeech == SpeechSpec => TurnOutlastsSpeech
<1>1. /\ SpeechInv /\ AwaitedLeave /\ [SpeechNext]_speechVars
      => /\ (SpeechInv /\ AwaitedLeave)'
         /\ [(waiter = "event" /\ waiter' = "idle" /\ ~interrupted /\ ~exiting) =>
                \A i \in awaited : /\ i \notin ToSet(queue)
                                   /\ i = item => tts \in {"popped", "post"}]_speechVars
  BY RequestsStep, ThreadsStep, PlacesStep, HeardStep, AwaitedStep, LeavesSilent DEF SpeechInv
<1>2. QED
  BY SpeechInit0, <1>1, PTL DEF SpeechSpec, TurnOutlastsSpeech
(***************************************************************************)
(* The presentation                                                        *)
(***************************************************************************)

\* KioskConstants, one number at a time.
LEMMA KioskNumbers ==
    /\ DayEnd \in Nat /\ DayEnd > 0 /\ LastQuietDay \in Nat /\ LastQuietDay > 0 /\ MaxPosted \in Nat
    /\ MaxPosted > 0
    /\ QuietStart \in 0..DayEnd - 1 /\ QuietEnd \in 0..DayEnd - 1 /\ QuietStart # QuietEnd
    /\ PinLength \in Nat /\ PinLength > 0
    /\ NoPeriod \in Nat /\ NoPeriod > LastQuietDay
  BY KioskConstants DEF ValidQuietHours, NoPeriod

\* A pop takes the key out and leaves the others, each once.
LEMMA PoppedKeeps ==
  ASSUME NEW held \in Seq(Notice), IsInjective(held), NEW n
  PROVE  /\ Popped(held, n) \in Seq(Notice) /\ IsInjective(Popped(held, n))
         /\ ToSet(Popped(held, n)) = ToSet(held) \ {n}
  BY ExcludingKeeps DEF Popped

\* What is on its way to Qt's thread.
Signals == CountSignal \union CoverSignal

\* Once everything in q is shown, what is shown of this kind is v: the last
\* signal of the kind is v, and without one, v is shown already.
Newest(q, kind, old, v) ==
    /\ \A i \in 1..Len(q) :
          q[i].kind = kind /\ (\A j \in (i + 1)..Len(q) : q[j].kind # kind) => q[i] = v
    /\ (\A i \in 1..Len(q) : q[i].kind # kind) => old = v

\* The kinds of signals, and what each carries.
LEMMA SignalKinds ==
    /\ \A s \in CountSignal : s.kind = "count" /\ s.count \in Nat /\ s = Count(s.count)
    /\ \A s \in CoverSignal : s.kind = "cover" /\ s.on \in BOOLEAN /\ s = Cover(s.on)
    /\ \A c \in Nat : Count(c) \in CountSignal /\ Count(c).kind = "count" /\ Count(c).count = c /\ Count(c) # Nothing
    /\ \A on \in BOOLEAN : Cover(on) \in CoverSignal /\ Cover(on).kind = "cover" /\ (Cover(on).on <=> on)
    /\ Nothing \notin CountSignal
<1>1. \A s \in CountSignal : s.kind = "count" /\ s.count \in Nat /\ s = Count(s.count)
  BY DEF CountSignal, Count
<1>2. \A s \in CoverSignal : s.kind = "cover" /\ s.on \in BOOLEAN /\ s = Cover(s.on)
  BY DEF CoverSignal, Cover
<1>3. \A c \in Nat : Count(c) \in CountSignal /\ Count(c).kind = "count" /\ Count(c).count = c
  BY DEF CountSignal, Count
<1>4. Nothing.kind = "none"
  BY DEF Nothing
<1>5. \A on \in BOOLEAN : Cover(on) \in CoverSignal /\ Cover(on).kind = "cover" /\ (Cover(on).on <=> on)
  BY DEF CoverSignal, Cover
<1>6. QED
  BY <1>1, <1>2, <1>3, <1>4, <1>5

\* A signal of another kind changes nothing; one of the kind is now the newest.
LEMMA NewestAppend ==
  ASSUME NEW q \in Seq(Signals), NEW s \in Signals, NEW kind, NEW old, NEW v
  PROVE  /\ (s.kind # kind /\ Newest(q, kind, old, v)) => Newest(Append(q, s), kind, old, v)
         /\ (s.kind = kind /\ s = v) => Newest(Append(q, s), kind, old, v)
<1> DEFINE p == Append(q, s)
<1>1. /\ Len(p) = Len(q) + 1 /\ Len(q) \in Nat
      /\ \A i \in 1..Len(q) : p[i] = q[i]
      /\ p[Len(q) + 1] = s
  OBVIOUS
<1> HIDE DEF p
<1>2. ASSUME s.kind # kind, Newest(q, kind, old, v) PROVE Newest(p, kind, old, v)
  <2>1. ASSUME NEW i \in 1..Len(p), p[i].kind = kind, \A j \in (i + 1)..Len(p) : p[j].kind # kind
        PROVE  p[i] = v
    <3>1. i \in 1..Len(q)
      BY <1>1, <1>2, <2>1
    <3>2. \A j \in (i + 1)..Len(q) : q[j].kind # kind
      BY <1>1, <2>1, <3>1
    <3>3. QED
      BY <1>1, <1>2, <2>1, <3>1, <3>2 DEF Newest
  <2>2. (\A i \in 1..Len(p) : p[i].kind # kind) => old = v
    BY <1>1, <1>2 DEF Newest
  <2>3. QED
    BY <2>1, <2>2 DEF Newest
<1>3. ASSUME s.kind = kind, s = v PROVE Newest(p, kind, old, v)
  <2>1. ASSUME NEW i \in 1..Len(p), p[i].kind = kind, \A j \in (i + 1)..Len(p) : p[j].kind # kind
        PROVE  p[i] = v
    <3>1. CASE i = Len(q) + 1
      BY <1>1, <1>3, <3>1
    <3>2. CASE i # Len(q) + 1
      <4>1. Len(q) + 1 \in (i + 1)..Len(p)
        BY <1>1, <3>2
      <4>2. QED
        BY <1>1, <1>3, <2>1, <4>1
    <3>3. QED
      BY <3>1, <3>2
  <2>2. ~(\A i \in 1..Len(p) : p[i].kind # kind)
    BY <1>1, <1>3
  <2>3. QED
    BY <2>1, <2>2 DEF Newest
<1>4. QED
  BY <1>2, <1>3 DEF p

\* Showing the oldest signal keeps what the newest says.
LEMMA NewestTail ==
  ASSUME NEW q \in Seq(Signals), q # <<>>, NEW kind, NEW old, NEW v, Newest(q, kind, old, v)
  PROVE  Newest(Tail(q), kind, IF q[1].kind = kind THEN q[1] ELSE old, v)
<1> DEFINE p == Tail(q)
<1>1. /\ Len(p) = Len(q) - 1 /\ Len(q) \in Nat /\ Len(q) >= 1
      /\ \A i \in 1..Len(p) : p[i] = q[i + 1]
  OBVIOUS
<1> HIDE DEF p
<1>2. ASSUME NEW i \in 1..Len(p), p[i].kind = kind, \A j \in (i + 1)..Len(p) : p[j].kind # kind
      PROVE  p[i] = v
  <2>1. i + 1 \in 1..Len(q) /\ p[i] = q[i + 1]
    BY <1>1
  <2>2. ASSUME NEW j \in (i + 2)..Len(q) PROVE q[j].kind # kind
    <3>1. j - 1 \in (i + 1)..Len(p) /\ j - 1 \in 1..Len(p) /\ (j - 1) + 1 = j
      BY <1>1
    <3>2. QED
      BY <1>1, <1>2, <3>1
  <2>3. ((i + 1) + 1)..Len(q) = (i + 2)..Len(q)
    BY <1>1
  <2>4. QED
    BY <1>2, <2>1, <2>2, <2>3 DEF Newest
<1>3. ASSUME \A i \in 1..Len(p) : p[i].kind # kind
      PROVE  (IF q[1].kind = kind THEN q[1] ELSE old) = v
  <2>1. ASSUME NEW j \in 2..Len(q) PROVE q[j].kind # kind
    <3>1. j - 1 \in 1..Len(p) /\ (j - 1) + 1 = j
      BY <1>1
    <3>2. QED
      BY <1>1, <1>3, <3>1
  <2>2. 1 \in 1..Len(q) /\ (1 + 1)..Len(q) = 2..Len(q)
    BY <1>1
  <2>3. CASE q[1].kind = kind
    BY <2>1, <2>2, <2>3 DEF Newest
  <2>4. CASE q[1].kind # kind
    <3>1. \A j \in 1..Len(q) : j = 1 \/ j \in 2..Len(q)
      BY <1>1
    <3>2. QED
      BY <2>1, <2>4, <3>1 DEF Newest
  <2>5. QED
    BY <2>3, <2>4
<1>4. QED
  BY <1>2, <1>3 DEF Newest, p

\* No thread holds a count it has not posted.
Silent == \A n \in Notice : saying[n] = Nothing

\* Only n holds a count, the present one.
Speaks(n) == saying[n] = Count(Len(attentions)) /\ \A m \in Notice \ {n} : saying[m] = Nothing

\* What was raised and not answered is held.
RaisedHeld == ~tangled => raised \subseteq ToSet(attentions)

\* The present count is with the only thread that speaks, or the newest posted.
BadgeFollows ==
    ~tangled => \/ \E n \in Notice : Speaks(n)
                \/ Silent /\ Newest(posted, "count", Count(badge), Count(Len(attentions)))

\* The attentions' part of the invariant.
NoticeInv == NoticesTyped /\ RaisedHeld /\ BadgeFollows

\* The period that begins on day p has begun.
Began(p) == p < clock.day \/ (p = clock.day /\ QuietStart <= clock.minute)

\* A passcode was entered in a period that has begun; the unlocked period is one
\* of them, and it is the scheduled one whenever that is.
PeriodOK ==
    /\ \A p \in entered : p \in Nat /\ Began(p)
    /\ unlocked # NoPeriod => unlocked \in entered
    /\ ScheduledPeriod \in entered => unlocked = ScheduledPeriod

\* Since the time was checked, the newest cover posted is the lock.
CoverFollows == checked => Newest(posted, "cover", Cover(cover), Cover(IsLocked))

\* The part of Quiet Hours.
QuietInv == QuietTyped /\ PeriodOK /\ CoverFollows

\* The inductive invariant of the presentation.
FaceInv == NoticeInv /\ PostedTyped /\ QuietInv

\* The signals posted are signals.
LEMMA PostedSeq ==
  ASSUME PostedTyped PROVE posted \in Seq(Signals)
  BY DEF PostedTyped, Signals

\* Posting adds one signal, up to the bound.
LEMMA PostsTyped ==
  ASSUME PostedTyped, NEW s \in Signals, Posts(s) PROVE PostedTyped' /\ posted' = Append(posted, s)
<1>1. posted \in Seq(Signals) /\ Len(posted) < MaxPosted /\ posted' = Append(posted, s) /\ MaxPosted \in Nat
  BY KioskNumbers DEF PostedTyped, Signals, Posts
<1>2. posted' \in Seq(Signals) /\ Len(posted') <= MaxPosted
  BY <1>1
<1>3. QED
  BY <1>1, <1>2 DEF PostedTyped, Signals

\* What Quiet Hours does leaves the attentions and their count alone.
LEMMA NoticesUnmoved ==
  ASSUME NoticeInv, PostedTyped, UNCHANGED noticeParts,
         posted' = posted \/ \E on \in BOOLEAN : posted' = Append(posted, Cover(on))
  PROVE  NoticeInv'
<1>1. UNCHANGED <<attentions, saying, raised, tangled, answering, badge>>
  BY DEF noticeParts
<1>2. NoticesTyped' /\ RaisedHeld'
  BY <1>1 DEF NoticeInv, NoticesTyped, RaisedHeld
<1>3. Newest(posted, "count", Count(badge), Count(Len(attentions)))
         => Newest(posted', "count", Count(badge), Count(Len(attentions)))
  <2>1. CASE posted' = posted
    BY <2>1
  <2>2. ASSUME NEW on \in BOOLEAN, posted' = Append(posted, Cover(on))
        PROVE  Newest(posted, "count", Count(badge), Count(Len(attentions)))
                  => Newest(posted', "count", Count(badge), Count(Len(attentions)))
    <3>1. Cover(on) \in Signals /\ Cover(on).kind # "count"
      BY SignalKinds DEF Signals
    <3>2. QED
      BY <2>2, <3>1, PostedSeq, NewestAppend
  <2>3. QED
    BY <2>1, <2>2
<1>4. BadgeFollows'
  BY <1>1, <1>3 DEF NoticeInv, BadgeFollows, Speaks, Silent
<1>5. QED
  BY <1>2, <1>4 DEF NoticeInv

\* What the attentions do leaves the cover and the lock alone.
LEMMA QuietUnmoved ==
  ASSUME QuietInv, PostedTyped, UNCHANGED quietParts,
         posted' = posted \/ \E c \in Nat : posted' = Append(posted, Count(c))
  PROVE  QuietInv'
<1>1. UNCHANGED <<clock, unlocked, entered, quietActive, cover, checked, pin, pinError>>
  BY DEF quietParts
<1>2. QuietTyped'
  BY <1>1 DEF QuietInv, QuietTyped
<1>3. ScheduledPeriod' = ScheduledPeriod /\ IsLocked' = IsLocked
  BY <1>1 DEF ScheduledPeriod, IsLocked, OvernightPeriod
<1>4. PeriodOK'
  BY <1>1, <1>3 DEF QuietInv, PeriodOK, Began
<1>5. Newest(posted, "cover", Cover(cover), Cover(IsLocked))
         => Newest(posted', "cover", Cover(cover), Cover(IsLocked))
  <2>1. CASE posted' = posted
    BY <2>1
  <2>2. ASSUME NEW c \in Nat, posted' = Append(posted, Count(c))
        PROVE  Newest(posted, "cover", Cover(cover), Cover(IsLocked))
                  => Newest(posted', "cover", Cover(cover), Cover(IsLocked))
    <3>1. Count(c) \in Signals /\ Count(c).kind # "cover"
      BY SignalKinds DEF Signals
    <3>2. QED
      BY <2>2, <3>1, PostedSeq, NewestAppend
  <2>3. QED
    BY <2>1, <2>2
<1>6. CoverFollows'
  BY <1>1, <1>3, <1>5 DEF QuietInv, CoverFollows
<1>7. QED
  BY <1>2, <1>4, <1>6 DEF QuietInv

\* Under the lock the thread takes the count of what is held from then on.
LEMMA HoldKeeps ==
  ASSUME NoticeInv, NEW n \in Notice, NEW held \in Seq(Notice), IsInjective(held), HoldCount(n, held),
         raised' \subseteq Notice,
         ~tangled => raised' \subseteq ToSet(held)
  PROVE  NoticeInv'
<1>1. /\ attentions' = held /\ saying' = [saying EXCEPT ![n] = Count(Len(held))]
      /\ tangled' = (tangled \/ \E m \in Notice \ {n} : saying[m] # Nothing)
      /\ UNCHANGED <<answering, posted, badge>>
  BY DEF HoldCount
<1>2. saying \in [Notice -> {Nothing} \union CountSignal] /\ Len(held) \in Nat
  BY DEF NoticeInv, NoticesTyped
<1>3. Count(Len(held)) \in CountSignal
  BY <1>2, SignalKinds
<1>4. tangled' \in BOOLEAN /\ (~tangled' => ~tangled /\ \A m \in Notice \ {n} : saying[m] = Nothing)
  BY <1>1
<1>5. NoticesTyped'
  BY <1>1, <1>2, <1>3, <1>4 DEF NoticeInv, NoticesTyped
<1>6. RaisedHeld'
  BY <1>1, <1>4 DEF RaisedHeld
<1>7. ~tangled' => Speaks(n)'
  <2> SUFFICES ASSUME ~tangled' PROVE saying'[n] = Count(Len(attentions')) /\ \A m \in Notice \ {n} : saying'[m] = Nothing
    BY DEF Speaks
  <2>1. saying'[n] = Count(Len(held)) /\ \A m \in Notice \ {n} : saying'[m] = saying[m]
    BY <1>1, <1>2
  <2>2. QED
    BY <1>1, <1>4, <2>1
<1>8. QED
  BY <1>5, <1>6, <1>7 DEF NoticeInv, BadgeFollows

\* Raising and dismissing hold each attention once.
LEMMA RaiseKeeps ==
  ASSUME NoticeInv, NEW n \in Notice, RaiseAttention(n) \/ DismissAttention(n)
  PROVE  NoticeInv'
<1>1. /\ attentions \in Seq(Notice) /\ IsInjective(attentions) /\ raised \subseteq Notice
      /\ ~tangled => raised \subseteq ToSet(attentions)
  BY DEF NoticeInv, NoticesTyped, RaisedHeld
<1>2. CASE RaiseAttention(n)
  <2> DEFINE held == IF n \in ToSet(attentions) THEN attentions ELSE Append(attentions, n)
  <2>1. HoldCount(n, held) /\ raised' = raised \union {n}
    BY <1>2 DEF RaiseAttention
  <2>2. held \in Seq(Notice) /\ IsInjective(held) /\ ToSet(held) = ToSet(attentions) \union {n}
    BY <1>1, AppendNew
  <2> HIDE DEF held
  <2>3. QED
    BY <1>1, <2>1, <2>2, HoldKeeps
<1>3. CASE DismissAttention(n)
  <2>1. HoldCount(n, Popped(attentions, n)) /\ raised' = raised \ {n}
    BY <1>3 DEF DismissAttention
  <2>2. /\ Popped(attentions, n) \in Seq(Notice) /\ IsInjective(Popped(attentions, n))
        /\ ToSet(Popped(attentions, n)) = ToSet(attentions) \ {n}
    BY <1>1, PoppedKeeps
  <2>3. QED
    BY <1>1, <2>1, <2>2, HoldKeeps
<1>4. QED
  BY <1>2, <1>3

\* The only thread that speaks posts the present count.
LEMMA PostKeeps ==
  ASSUME NoticeInv, PostedTyped, NEW n \in Notice, PostCount(n)
  PROVE  NoticeInv' /\ PostedTyped' /\ \E c \in Nat : posted' = Append(posted, Count(c))
<1>1. /\ saying[n] # Nothing /\ Posts(saying[n]) /\ saying' = [saying EXCEPT ![n] = Nothing]
      /\ UNCHANGED <<attentions, raised, tangled, answering, badge>>
      /\ saying \in [Notice -> {Nothing} \union CountSignal]
  BY DEF PostCount, NoticeInv, NoticesTyped
<1>2. saying[n] \in CountSignal /\ saying[n] \in Signals /\ saying[n].kind = "count"
      /\ saying[n] = Count(saying[n].count) /\ saying[n].count \in Nat
  BY <1>1, SignalKinds DEF Signals
<1>3. PostedTyped' /\ posted' = Append(posted, saying[n])
  BY <1>1, <1>2, PostsTyped
<1>4. NoticesTyped' /\ RaisedHeld'
  BY <1>1 DEF NoticeInv, NoticesTyped, RaisedHeld
<1>5. BadgeFollows'
  <2> SUFFICES ASSUME ~tangled
               PROVE  Silent' /\ Newest(posted', "count", Count(badge), Count(Len(attentions)))
    BY <1>1 DEF BadgeFollows
  <2>1. PICK m \in Notice : Speaks(m)
    BY <1>1 DEF NoticeInv, BadgeFollows, Silent
  <2>2. m = n
    BY <1>1, <2>1 DEF Speaks
  <2>3. saying[n] = Count(Len(attentions))
    BY <2>1, <2>2 DEF Speaks
  <2>4. Silent'
    BY <1>1, <2>1, <2>2 DEF Speaks, Silent
  <2>5. Newest(posted', "count", Count(badge), Count(Len(attentions)))
    BY <1>2, <1>3, <2>3, PostedSeq, NewestAppend
  <2>6. QED
    BY <2>4, <2>5
<1>6. QED
  BY <1>2, <1>3, <1>4, <1>5 DEF NoticeInv

\* Asking the oldest changes nothing that is held.
LEMMA AskKeeps ==
  ASSUME NoticeInv, AskOldest PROVE NoticeInv' /\ posted' = posted
<1>1. /\ answering' = [kind |-> "answer", notice |-> attentions[1], yes |-> attentions[1] \in raised]
      /\ raised' = raised \ {attentions[1]} /\ attentions # <<>>
      /\ UNCHANGED <<attentions, saying, tangled, posted, badge>>
  BY DEF AskOldest
<1>2. attentions[1] \in Notice /\ (attentions[1] \in raised) \in BOOLEAN
  BY <1>1 DEF NoticeInv, NoticesTyped
<1>3. answering' \in [kind : {"answer"}, notice : Notice, yes : BOOLEAN]
  BY <1>1, <1>2
<1>4. NoticesTyped' /\ RaisedHeld'
  BY <1>1, <1>3 DEF NoticeInv, NoticesTyped, RaisedHeld
<1>5. BadgeFollows'
  BY <1>1 DEF NoticeInv, BadgeFollows, Speaks, Silent
<1>6. QED
  BY <1>1, <1>4, <1>5 DEF NoticeInv

\* Dropping it posts the count, unless another thread is about to.
LEMMA DropKeeps ==
  ASSUME NoticeInv, PostedTyped, DropOldest
  PROVE  /\ NoticeInv' /\ PostedTyped'
         /\ posted' = posted \/ \E c \in Nat : posted' = Append(posted, Count(c))
<1> DEFINE n == answering.notice
<1>1. /\ answering \in [kind : {"answer"}, notice : Notice, yes : BOOLEAN] /\ answering' = Nothing
      /\ UNCHANGED <<saying, raised, badge>>
      /\ tangled' = (tangled \/ n \in raised \/ (answering.yes /\ \E m \in Notice : saying[m] # Nothing))
      /\ attentions \in Seq(Notice) /\ IsInjective(attentions)
  BY DEF DropOldest, NoticeInv, NoticesTyped
<1>2. tangled' \in BOOLEAN /\ (~tangled' => ~tangled /\ n \notin raised /\ (answering.yes => Silent))
  BY <1>1 DEF Silent
<1>3. CASE answering.yes
  <2>1. attentions' = Popped(attentions, n) /\ Posts(Count(Len(attentions')))
    BY <1>3 DEF DropOldest
  <2>2. /\ attentions' \in Seq(Notice) /\ IsInjective(attentions')
        /\ ToSet(attentions') = ToSet(attentions) \ {n}
    BY <1>1, <2>1, PoppedKeeps
  <2>3. Len(attentions') \in Nat /\ Count(Len(attentions')) \in Signals /\ Count(Len(attentions')).kind = "count"
    BY <2>2, SignalKinds DEF Signals
  <2>4. PostedTyped' /\ posted' = Append(posted, Count(Len(attentions')))
    BY <2>1, <2>3, PostsTyped
  <2>5. NoticesTyped'
    BY <1>1, <1>2, <2>2 DEF NoticeInv, NoticesTyped
  <2>6. RaisedHeld'
    BY <1>1, <1>2, <2>2 DEF NoticeInv, RaisedHeld
  <2>7. Newest(posted', "count", Count(badge), Count(Len(attentions')))
    BY <2>3, <2>4, PostedSeq, NewestAppend
  <2>8. BadgeFollows'
    BY <1>1, <1>2, <1>3, <2>7 DEF BadgeFollows, Silent
  <2>9. QED
    BY <2>3, <2>4, <2>5, <2>6, <2>8 DEF NoticeInv
<1>4. CASE ~answering.yes
  <2>1. UNCHANGED <<attentions, posted>>
    BY <1>4 DEF DropOldest
  <2>2. NoticesTyped' /\ RaisedHeld'
    BY <1>1, <1>2, <2>1 DEF NoticeInv, NoticesTyped, RaisedHeld
  <2>3. BadgeFollows'
    BY <1>1, <1>2, <2>1 DEF NoticeInv, BadgeFollows, Speaks, Silent
  <2>4. PostedTyped'
    BY <2>1 DEF PostedTyped
  <2>5. QED
    BY <2>1, <2>2, <2>3, <2>4 DEF NoticeInv
<1>5. QED
  BY <1>1, <1>3, <1>4

\* A scheduled period is one of the days allowed, and has begun.
LEMMA PeriodTyped ==
  ASSUME QuietTyped
  PROVE  /\ ScheduledPeriod \in Nat
         /\ ScheduledPeriod # NoPeriod =>
               ScheduledPeriod \in QuietDays /\ Began(ScheduledPeriod)
<1>1. /\ clock.day \in Nat /\ clock.day > 0 /\ clock.minute \in Nat /\ clock.minute < DayEnd
      /\ QuietStart \in Nat /\ QuietEnd \in Nat /\ NoPeriod \in Nat
  BY KioskNumbers DEF QuietTyped
<1>2. clock.day - 1 \in Nat /\ clock.day - 1 < clock.day
  BY <1>1
<1>3. QED
  BY <1>1, <1>2 DEF ScheduledPeriod, OvernightPeriod, Began

\* A period that becomes the scheduled one had not begun a minute before: so no
\* passcode was entered in it yet.
LEMMA NewPeriodBegins ==
  ASSUME QuietTyped, TimePasses, ScheduledPeriod' # NoPeriod, ScheduledPeriod' # ScheduledPeriod
  PROVE  ~Began(ScheduledPeriod')
<1>1. /\ clock.day \in Nat /\ clock.day > 0 /\ clock.minute \in Nat /\ clock.minute <= DayEnd - 1
      /\ QuietStart \in Nat /\ QuietEnd \in Nat /\ QuietStart <= DayEnd - 1 /\ QuietEnd <= DayEnd - 1
      /\ NoPeriod \in Nat /\ DayEnd \in Nat /\ NoPeriod > clock.day /\ QuietStart # QuietEnd
  BY KioskNumbers DEF QuietTyped
<1>2. CASE clock.minute < DayEnd - 1
  <2>1. clock'.day = clock.day /\ clock'.minute = clock.minute + 1
    BY <1>2 DEF TimePasses, QuietTyped
  <2>2. CASE QuietStart < QuietEnd
    BY <1>1, <2>1, <2>2 DEF ScheduledPeriod, OvernightPeriod, Began
  <2>3. CASE QuietStart > QuietEnd
    BY <1>1, <2>1, <2>3 DEF ScheduledPeriod, OvernightPeriod, Began
  <2>4. QED
    BY <1>1, <2>2, <2>3
<1>3. CASE clock.minute = DayEnd - 1
  <2>1. clock'.day = clock.day + 1 /\ clock'.minute = 0
    BY <1>1, <1>3 DEF TimePasses, QuietTyped
  <2>2. CASE QuietStart < QuietEnd
    BY <1>1, <1>3, <2>1, <2>2 DEF ScheduledPeriod, OvernightPeriod, Began
  <2>3. CASE QuietStart > QuietEnd
    BY <1>1, <1>3, <2>1, <2>3 DEF ScheduledPeriod, OvernightPeriod, Began
  <2>4. QED
    BY <1>1, <2>2, <2>3
<1>4. QED
  BY <1>1, <1>2, <1>3

\* Whoever asks forgets an unlock only outside a period.
LEMMA AskedKeeps ==
  ASSUME QuietInv, AskLocked, UNCHANGED <<clock, entered>>
  PROVE  /\ PeriodOK' /\ unlocked' \in QuietDays \union {NoPeriod}
         /\ ScheduledPeriod' = ScheduledPeriod /\ IsLocked' = IsLocked /\ IsLocked \in BOOLEAN
<1>1. ScheduledPeriod' = ScheduledPeriod
  BY DEF ScheduledPeriod, OvernightPeriod
<1>2. NoPeriod \notin entered
  <2>1. clock.day \in Nat /\ clock.day <= LastQuietDay
    BY KioskNumbers DEF QuietInv, QuietTyped
  <2>2. ~Began(NoPeriod)
    BY <2>1, KioskNumbers DEF Began
  <2>3. QED
    BY <2>2 DEF QuietInv, PeriodOK
<1>3. unlocked' = IF ScheduledPeriod = NoPeriod THEN NoPeriod ELSE unlocked
  BY DEF AskLocked
<1>4. PeriodOK'
  <2>1. \A p \in entered : p \in Nat /\ Began(p)'
    BY DEF QuietInv, PeriodOK, Began
  <2>2. unlocked' # NoPeriod => unlocked' \in entered
    BY <1>3 DEF QuietInv, PeriodOK
  <2>3. ScheduledPeriod \in entered => unlocked' = ScheduledPeriod
    BY <1>2, <1>3 DEF QuietInv, PeriodOK
  <2>4. QED
    BY <1>1, <2>1, <2>2, <2>3 DEF PeriodOK
<1>5. IsLocked' = IsLocked
  <2>1. CASE ScheduledPeriod = NoPeriod
    BY <1>1, <2>1 DEF IsLocked
  <2>2. CASE ScheduledPeriod # NoPeriod
    <3>1. unlocked' = unlocked
      BY <1>3, <2>2
    <3>2. QED
      BY <1>1, <3>1 DEF IsLocked
  <2>3. QED
    BY <2>1, <2>2
<1>6. unlocked' \in QuietDays \union {NoPeriod}
  BY <1>3 DEF QuietInv, QuietTyped
<1>7. IsLocked \in BOOLEAN
  BY DEF IsLocked
<1>8. QED
  BY <1>1, <1>4, <1>5, <1>6, <1>7

\* A minute later the unlock is good for the same period and no other.
LEMMA TimeKeeps ==
  ASSUME QuietInv, TimePasses PROVE QuietInv' /\ UNCHANGED <<noticeParts, posted>>
<1>1. /\ UNCHANGED <<posted, unlocked, entered, quietActive, cover, pin, pinError>> /\ checked' = FALSE
      /\ UNCHANGED noticeParts
  BY DEF TimePasses
<1>2. /\ clock \in [day : 1..LastQuietDay, minute : 0..DayEnd - 1]
      /\ clock.day \in Nat /\ clock.minute \in Nat
  BY KioskNumbers DEF QuietInv, QuietTyped
<1>3. /\ clock' \in [day : 1..LastQuietDay, minute : 0..DayEnd - 1]
      /\ \A p \in Nat : Began(p) => Began(p)'
  <2>1. CASE clock.minute < DayEnd - 1
    <3>1. clock' = [clock EXCEPT !.minute = clock.minute + 1]
      BY <2>1 DEF TimePasses
    <3>2. clock'.day = clock.day /\ clock'.minute = clock.minute + 1
      BY <1>2, <3>1
    <3>3. clock' \in [day : 1..LastQuietDay, minute : 0..DayEnd - 1]
      BY <1>2, <2>1, <3>1, KioskNumbers
    <3>4. QED
      BY <1>2, <3>2, <3>3, KioskNumbers DEF Began
  <2>2. CASE ~(clock.minute < DayEnd - 1)
    <3>1. clock' = [day |-> clock.day + 1, minute |-> 0] /\ clock.day < LastQuietDay
      BY <2>2 DEF TimePasses
    <3>2. clock.day + 1 \in 1..LastQuietDay /\ 0 \in 0..DayEnd - 1
      BY <1>2, <3>1, KioskNumbers
    <3>3. QED
      BY <1>2, <3>1, <3>2, KioskNumbers DEF Began
  <2>3. QED
    BY <2>1, <2>2
<1>4. QuietTyped'
  BY <1>1, <1>3 DEF QuietInv, QuietTyped
<1>5. PeriodOK'
  <2>1. \A p \in entered : p \in Nat /\ Began(p)'
    BY <1>3 DEF QuietInv, PeriodOK
  <2>2. ScheduledPeriod' \in entered => unlocked = ScheduledPeriod'
    <3>1. SUFFICES ASSUME ScheduledPeriod' \in entered, ScheduledPeriod' # ScheduledPeriod PROVE FALSE
      BY DEF QuietInv, PeriodOK
    <3>2. ScheduledPeriod' \in Nat /\ Began(ScheduledPeriod')
      BY <3>1 DEF QuietInv, PeriodOK
    <3>3. ScheduledPeriod' # NoPeriod
      <4>1. clock.day \in Nat /\ clock.day <= LastQuietDay
        BY KioskNumbers DEF QuietInv, QuietTyped
      <4>2. ~Began(NoPeriod)
        BY <4>1, KioskNumbers DEF Began
      <4>3. QED
        BY <3>2, <4>2
    <3>4. QED
      BY <3>1, <3>2, <3>3, NewPeriodBegins DEF QuietInv
  <2>3. QED
    BY <1>1, <2>1, <2>2 DEF PeriodOK, QuietInv
<1>6. QED
  BY <1>1, <1>4, <1>5 DEF QuietInv, CoverFollows

\* The check posts the lock as it is.
LEMMA CheckKeepsQuiet ==
  ASSUME QuietInv, PostedTyped, CheckQuietHours
  PROVE  /\ QuietInv' /\ PostedTyped' /\ UNCHANGED noticeParts
         /\ \E on \in BOOLEAN : posted' = Append(posted, Cover(on))
<1>1. /\ AskLocked /\ quietActive' = IsLocked /\ checked' = TRUE /\ Posts(Cover(IsLocked))
      /\ UNCHANGED <<clock, entered, cover, pin, pinError>> /\ UNCHANGED noticeParts
  BY DEF CheckQuietHours
<1>2. /\ PeriodOK' /\ unlocked' \in QuietDays \union {NoPeriod}
      /\ ScheduledPeriod' = ScheduledPeriod /\ IsLocked' = IsLocked /\ IsLocked \in BOOLEAN
  BY <1>1, AskedKeeps
<1>3. Cover(IsLocked) \in Signals /\ Cover(IsLocked).kind = "cover"
  BY <1>2, SignalKinds DEF Signals
<1>4. PostedTyped' /\ posted' = Append(posted, Cover(IsLocked))
  BY <1>1, <1>3, PostsTyped
<1>5. QuietTyped'
  BY <1>1, <1>2 DEF QuietInv, QuietTyped
<1>6. Newest(posted', "cover", Cover(cover), Cover(IsLocked))
  BY <1>3, <1>4, PostedSeq, NewestAppend
<1>7. CoverFollows'
  BY <1>1, <1>2, <1>6 DEF CoverFollows
<1>8. QED
  BY <1>1, <1>2, <1>4, <1>5, <1>7 DEF QuietInv

\* Asking without a check shows nothing new.
LEMMA AnyoneKeeps ==
  ASSUME QuietInv, AnyoneAsks PROVE QuietInv' /\ UNCHANGED <<noticeParts, posted>>
<1>1. /\ AskLocked /\ UNCHANGED <<posted, clock, entered, quietActive, cover, checked, pin, pinError>>
      /\ UNCHANGED noticeParts
  BY DEF AnyoneAsks
<1>2. /\ PeriodOK' /\ unlocked' \in QuietDays \union {NoPeriod}
      /\ IsLocked' = IsLocked
  BY <1>1, AskedKeeps
<1>3. QuietTyped'
  BY <1>1, <1>2 DEF QuietInv, QuietTyped
<1>4. CoverFollows'
  BY <1>1, <1>2 DEF QuietInv, CoverFollows
<1>5. QED
  BY <1>1, <1>2, <1>3, <1>4 DEF QuietInv

\* A digit is kept, refused with the others, or the last of a right passcode.
LEMMA DigitKeeps ==
  ASSUME QuietInv, PostedTyped, NEW right \in BOOLEAN, QuietPinDigit(right)
  PROVE  /\ QuietInv' /\ PostedTyped' /\ UNCHANGED noticeParts
         /\ posted' = posted \/ \E on \in BOOLEAN : posted' = Append(posted, Cover(on))
<1> DEFINE digits == Append(pin, right)
<1>1. /\ cover /\ Len(pin) < PinLength /\ UNCHANGED <<clock, checked>> /\ UNCHANGED noticeParts
      /\ IF Len(digits) < PinLength
         THEN pin' = digits /\ pinError' = FALSE /\ UNCHANGED <<posted, unlocked, entered, quietActive, cover>>
         ELSE /\ QuietPinResult(PinAccepted(digits))
              /\ IF PinAccepted(digits) THEN UnlockQuietHours
                 ELSE UNCHANGED <<posted, unlocked, entered, quietActive>>
  BY DEF QuietPinDigit
<1>2. digits \in Seq(BOOLEAN)
  BY DEF QuietInv, QuietTyped
<1>3. ScheduledPeriod' = ScheduledPeriod
  BY <1>1 DEF ScheduledPeriod, OvernightPeriod
<1>4. <<>> \in Seq(BOOLEAN) /\ Len(<<>>) < PinLength
  BY KioskNumbers
<1> HIDE DEF digits
<1>5. CASE UNCHANGED <<posted, unlocked, entered, quietActive>> /\ cover' = cover
           /\ pin' \in Seq(BOOLEAN) /\ Len(pin') < PinLength /\ pinError' \in BOOLEAN
  <2>1. QuietTyped'
    BY <1>1, <1>5 DEF QuietInv, QuietTyped
  <2>2. PeriodOK'
    BY <1>1, <1>3, <1>5 DEF QuietInv, PeriodOK, Began
  <2>3. IsLocked' = IsLocked
    BY <1>3, <1>5 DEF IsLocked
  <2>4. CoverFollows'
    BY <1>1, <1>5, <2>3 DEF QuietInv, CoverFollows
  <2>5. PostedTyped'
    BY <1>5 DEF PostedTyped
  <2>6. QED
    BY <1>1, <1>5, <2>1, <2>2, <2>4, <2>5 DEF QuietInv
<1>6. CASE Len(digits) < PinLength
  BY <1>1, <1>2, <1>5, <1>6
<1>7. CASE ~(Len(digits) < PinLength) /\ ~PinAccepted(digits)
  <2>1. pin' = <<>> /\ pinError' = TRUE /\ cover' = cover /\ UNCHANGED <<posted, unlocked, entered, quietActive>>
    BY <1>1, <1>7 DEF QuietPinResult
  <2>2. QED
    BY <1>4, <1>5, <2>1
<1>8. CASE ~(Len(digits) < PinLength) /\ PinAccepted(digits)
  <2>1. /\ cover' = FALSE /\ pin' = <<>> /\ pinError' = FALSE
        /\ unlocked' = ScheduledPeriod /\ entered' = entered \union {ScheduledPeriod}
        /\ quietActive' = FALSE /\ Posts(Cover(FALSE))
    BY <1>1, <1>8 DEF QuietPinResult, SetQuietHours, UnlockQuietHours
  <2>2. /\ ScheduledPeriod \in QuietDays /\ ScheduledPeriod \in Nat /\ Began(ScheduledPeriod)
    BY <1>8, PeriodTyped DEF PinAccepted, QuietInv
  <2>3. QuietTyped'
    BY <1>1, <1>4, <2>1, <2>2 DEF QuietInv, QuietTyped
  <2>4. PeriodOK'
    <3>1. \A p \in entered' : p \in Nat /\ Began(p)'
      BY <1>1, <2>1, <2>2 DEF QuietInv, PeriodOK, Began
    <3>2. QED
      BY <1>3, <2>1, <3>1 DEF PeriodOK
  <2>5. IsLocked' = FALSE
    BY <1>3, <2>1 DEF IsLocked
  <2>6. Cover(FALSE) \in Signals /\ Cover(FALSE).kind = "cover"
    BY SignalKinds DEF Signals
  <2>7. PostedTyped' /\ posted' = Append(posted, Cover(FALSE))
    BY <2>1, <2>6, PostsTyped
  <2>8. Newest(posted', "cover", Cover(FALSE), Cover(FALSE))
    BY <2>6, <2>7, PostedSeq, NewestAppend
  <2>9. CoverFollows'
    BY <2>1, <2>5, <2>8 DEF CoverFollows
  <2>10. QED
    BY <1>1, <2>3, <2>4, <2>7, <2>9 DEF QuietInv
<1>9. QED
  BY <1>6, <1>7, <1>8

\* Backspace takes digits away.
LEMMA BackspaceKeeps ==
  ASSUME QuietInv, QuietPinBackspace PROVE QuietInv' /\ UNCHANGED <<noticeParts, posted>>
<1>1. /\ cover /\ pin # <<>> /\ pinError' = FALSE /\ pin' \in {<<>>, Front(pin)}
      /\ UNCHANGED <<posted, clock, unlocked, entered, quietActive, cover, checked>>
      /\ UNCHANGED noticeParts /\ pin \in Seq(BOOLEAN) /\ Len(pin) < PinLength
  BY DEF QuietPinBackspace, QuietInv, QuietTyped
<1>2. Front(pin) \in Seq(BOOLEAN) /\ Len(Front(pin)) < PinLength
  BY <1>1, KioskNumbers DEF Front
<1>3. <<>> \in Seq(BOOLEAN) /\ Len(<<>>) < PinLength
  BY KioskNumbers
<1>4. QuietTyped'
  BY <1>1, <1>2, <1>3 DEF QuietInv, QuietTyped
<1>5. ScheduledPeriod' = ScheduledPeriod
  BY <1>1 DEF ScheduledPeriod, OvernightPeriod
<1>6. IsLocked' = IsLocked
  BY <1>1, <1>5 DEF IsLocked
<1>7. PeriodOK'
  BY <1>1, <1>5 DEF QuietInv, PeriodOK, Began
<1>8. CoverFollows'
  BY <1>1, <1>6 DEF QuietInv, CoverFollows
<1>9. QED
  BY <1>1, <1>4, <1>7, <1>8 DEF QuietInv

\* Qt's thread shows the oldest signal.
LEMMA ShowKeeps ==
  ASSUME FaceInv, ShowPosted PROVE FaceInv'
<1>1. /\ posted # <<>> /\ posted' = Tail(posted) /\ posted \in Seq(Signals)
      /\ UNCHANGED <<attentions, saying, raised, tangled, answering>>
  BY PostedSeq DEF ShowPosted, FaceInv
<1>2. posted[1] \in Signals
  BY <1>1
<1>3. PostedTyped'
  <2>1. posted' \in Seq(Signals) /\ Len(posted') <= Len(posted) /\ Len(posted') \in Nat /\ Len(posted) \in Nat
    BY <1>1
  <2>2. Len(posted') <= MaxPosted
    BY <2>1, KioskNumbers DEF FaceInv, PostedTyped
  <2>3. QED
    BY <2>1, <2>2 DEF PostedTyped, Signals
<1>4. CASE posted[1] \in CountSignal
  <2>1. posted[1].kind = "count" /\ posted[1].count \in Nat /\ posted[1] = Count(posted[1].count)
    BY <1>4, SignalKinds
  <2>2. /\ badge' = posted[1].count /\ UNCHANGED quietParts
    BY <2>1 DEF ShowPosted
  <2>3. NoticesTyped' /\ RaisedHeld'
    BY <1>1, <2>1, <2>2 DEF FaceInv, NoticeInv, NoticesTyped, RaisedHeld
  <2>4. Newest(posted, "count", Count(badge), Count(Len(attentions)))
           => Newest(posted', "count", Count(badge'), Count(Len(attentions)))
    BY <1>1, <2>1, <2>2, NewestTail
  <2>5. BadgeFollows'
    BY <1>1, <2>4 DEF FaceInv, NoticeInv, BadgeFollows, Speaks, Silent
  <2>6. Newest(posted, "cover", Cover(cover), Cover(IsLocked))
           => Newest(posted', "cover", Cover(cover), Cover(IsLocked))
    BY <1>1, <2>1, NewestTail
  <2>7. UNCHANGED <<clock, unlocked, entered, quietActive, cover, checked, pin, pinError>>
    BY <2>2 DEF quietParts
  <2>8. ScheduledPeriod' = ScheduledPeriod /\ IsLocked' = IsLocked
    BY <2>7 DEF ScheduledPeriod, IsLocked, OvernightPeriod
  <2>9. QuietTyped' /\ PeriodOK'
    BY <2>7, <2>8 DEF FaceInv, QuietInv, QuietTyped, PeriodOK, Began
  <2>10. CoverFollows'
    BY <2>6, <2>7, <2>8 DEF FaceInv, QuietInv, CoverFollows
  <2>11. QED
    BY <1>3, <2>3, <2>5, <2>9, <2>10 DEF FaceInv, NoticeInv, QuietInv
<1>5. CASE posted[1] \in CoverSignal
  <2> DEFINE on == posted[1].on
  <2>1. posted[1].kind = "cover" /\ on \in BOOLEAN /\ posted[1] = Cover(on)
    BY <1>5, SignalKinds
  <2> HIDE DEF on
  <2>2. SetQuietHours(on) /\ UNCHANGED <<badge, clock, unlocked, entered, quietActive, checked>>
    BY <2>1 DEF ShowPosted, on
  <2>3. /\ cover' = on
        /\ IF on # cover THEN pin' = <<>> /\ pinError' = FALSE ELSE UNCHANGED <<pin, pinError>>
    BY <2>2 DEF SetQuietHours
  <2>4. <<>> \in Seq(BOOLEAN) /\ Len(<<>>) < PinLength
    BY KioskNumbers
  <2>5. QuietTyped'
    BY <2>1, <2>2, <2>3, <2>4 DEF FaceInv, QuietInv, QuietTyped
  <2>6. ScheduledPeriod' = ScheduledPeriod /\ IsLocked' = IsLocked
    BY <2>2 DEF ScheduledPeriod, IsLocked, OvernightPeriod
  <2>7. PeriodOK'
    BY <2>2, <2>6 DEF FaceInv, QuietInv, PeriodOK, Began
  <2>8. Newest(posted, "cover", Cover(cover), Cover(IsLocked))
           => Newest(posted', "cover", Cover(cover'), Cover(IsLocked))
    BY <1>1, <2>1, <2>3, NewestTail
  <2>9. CoverFollows'
    BY <2>2, <2>6, <2>8 DEF FaceInv, QuietInv, CoverFollows
  <2>10. Newest(posted, "count", Count(badge), Count(Len(attentions)))
           => Newest(posted', "count", Count(badge), Count(Len(attentions)))
    BY <1>1, <2>1, NewestTail
  <2>11. NoticesTyped' /\ RaisedHeld'
    BY <1>1, <2>2 DEF FaceInv, NoticeInv, NoticesTyped, RaisedHeld
  <2>12. BadgeFollows'
    BY <1>1, <2>2, <2>10 DEF FaceInv, NoticeInv, BadgeFollows, Speaks, Silent
  <2>13. QED
    BY <1>3, <2>5, <2>7, <2>9, <2>11, <2>12 DEF FaceInv, NoticeInv, QuietInv
<1>6. QED
  BY <1>2, <1>4, <1>5 DEF Signals

\* The invariant holds when the kiosk starts.
LEMMA FaceInit == KioskInit => FaceInv
<1> HAVE KioskInit
<1>1. /\ attentions = <<>> /\ saying = [n \in Notice |-> Nothing] /\ raised = {} /\ tangled = FALSE
      /\ answering = Nothing /\ posted = <<>> /\ badge = 0
      /\ clock \in [day : {1}, minute : 0..DayEnd - 1] /\ unlocked = NoPeriod /\ entered = {}
      /\ quietActive = FALSE /\ cover = FALSE /\ checked = FALSE /\ pin = <<>> /\ pinError = FALSE
  BY DEF KioskInit
<1>2. ToSet(attentions) = {} /\ IsInjective(attentions) /\ attentions \in Seq(Notice) /\ Len(attentions) = 0
  BY <1>1 DEF ToSet, IsInjective
<1>3. NoticesTyped /\ RaisedHeld
  BY <1>1, <1>2 DEF NoticesTyped, RaisedHeld
<1>4. Newest(posted, "count", Count(badge), Count(Len(attentions)))
  BY <1>1, <1>2 DEF Newest
<1>5. BadgeFollows
  BY <1>1, <1>4 DEF BadgeFollows, Silent
<1>6. PostedTyped
  BY <1>1, KioskNumbers DEF PostedTyped
<1>7. clock \in [day : 1..LastQuietDay, minute : 0..DayEnd - 1]
  BY <1>1, KioskNumbers
<1>8. pin \in Seq(BOOLEAN) /\ Len(pin) < PinLength
  BY <1>1, KioskNumbers
<1>9. QuietTyped /\ PeriodOK /\ CoverFollows
  BY <1>1, <1>7, <1>8 DEF QuietTyped, PeriodOK, CoverFollows
<1>10. QED
  BY <1>3, <1>5, <1>6, <1>9 DEF FaceInv, NoticeInv, QuietInv

\* The invariant is inductive.
LEMMA FaceStep == ASSUME FaceInv, [KioskNext]_kioskVars PROVE FaceInv'
<1> USE DEF FaceInv
<1>1. ASSUME NEW n \in Notice, RaiseAttention(n) \/ DismissAttention(n) PROVE FaceInv'
  <2>1. UNCHANGED quietParts /\ posted' = posted
    BY <1>1 DEF RaiseAttention, DismissAttention, HoldCount
  <2>2. PostedTyped'
    BY <2>1 DEF PostedTyped
  <2>3. QED
    BY <1>1, <2>1, <2>2, RaiseKeeps, QuietUnmoved
<1>2. ASSUME NEW n \in Notice, PostCount(n) PROVE FaceInv'
  <2>1. UNCHANGED quietParts
    BY <1>2 DEF PostCount
  <2>2. QED
    BY <1>2, <2>1, PostKeeps, QuietUnmoved
<1>3. CASE AskOldest
  <2>1. UNCHANGED quietParts
    BY <1>3 DEF AskOldest
  <2>2. PostedTyped'
    BY <1>3, AskKeeps DEF PostedTyped
  <2>3. QED
    BY <1>3, <2>1, <2>2, AskKeeps, QuietUnmoved
<1>4. CASE DropOldest
  <2>1. UNCHANGED quietParts
    BY <1>4 DEF DropOldest
  <2>2. QED
    BY <1>4, <2>1, DropKeeps, QuietUnmoved
<1>5. CASE TimePasses \/ AnyoneAsks \/ QuietPinBackspace
  <2>1. QuietInv' /\ UNCHANGED <<noticeParts, posted>>
    BY <1>5, TimeKeeps, AnyoneKeeps, BackspaceKeeps
  <2>2. PostedTyped'
    BY <2>1 DEF PostedTyped
  <2>3. QED
    BY <2>1, <2>2, NoticesUnmoved
<1>6. CASE CheckQuietHours
  BY <1>6, CheckKeepsQuiet, NoticesUnmoved
<1>7. ASSUME NEW right \in BOOLEAN, QuietPinDigit(right) PROVE FaceInv'
  BY <1>7, DigitKeeps, NoticesUnmoved
<1>8. CASE ShowPosted
  BY <1>8, ShowKeeps
<1>9. CASE UNCHANGED kioskVars
  <2>1. UNCHANGED noticeParts /\ UNCHANGED quietParts /\ posted' = posted
    BY <1>9 DEF kioskVars, noticeParts, quietParts
  <2>2. PostedTyped'
    BY <2>1 DEF PostedTyped
  <2>3. QED
    BY <2>1, <2>2, NoticesUnmoved, QuietUnmoved
<1>10. QED
  BY <1>1, <1>2, <1>3, <1>4, <1>5, <1>6, <1>7, <1>8, <1>9 DEF KioskNext

\* It gives what the face promises.
LEMMA FaceHolds == ASSUME FaceInv PROVE FaceIsTrue
<1>1. KioskTypeOK
  BY DEF FaceInv, NoticeInv, QuietInv, KioskTypeOK, RaisedHeld
<1>2. UnlockIsForOnePeriod
  BY DEF FaceInv, QuietInv, PeriodOK, UnlockIsForOnePeriod, IsLocked
<1>3. CoverFollowsLock
  <2> SUFFICES ASSUME posted = <<>>, checked PROVE cover = IsLocked
    BY DEF CoverFollowsLock
  <2>1. Cover(cover) = Cover(IsLocked)
    BY DEF FaceInv, QuietInv, CoverFollows, Newest
  <2>2. cover \in BOOLEAN /\ IsLocked \in BOOLEAN
    BY DEF FaceInv, QuietInv, QuietTyped, IsLocked
  <2>3. Cover(cover).on = cover /\ Cover(IsLocked).on = IsLocked
    BY DEF Cover
  <2>4. QED
    BY <2>1, <2>3
<1>4. BadgeIsCurrent
  <2> SUFFICES ASSUME AllShown, ~tangled PROVE badge = Len(attentions)
    BY DEF BadgeIsCurrent
  <2>1. posted = <<>> /\ \A n \in Notice : saying[n] = Nothing
    BY DEF AllShown
  <2>2. Len(attentions) \in Nat /\ badge \in Nat
    BY DEF FaceInv, NoticeInv, NoticesTyped
  <2>3. ~\E n \in Notice : Speaks(n)
    BY <2>1, <2>2, SignalKinds DEF Speaks
  <2>4. Count(badge) = Count(Len(attentions))
    BY <2>1, <2>3 DEF FaceInv, NoticeInv, BadgeFollows, Newest
  <2>5. QED
    BY <2>2, <2>4, SignalKinds
<1>5. QED
  BY <1>1, <1>2, <1>3, <1>4 DEF FaceIsTrue

\* The face is true: the badge counts the attentions unless counts crossed, the
\* cover is there exactly when the kiosk is locked, and a passcode unlocks the
\* quiet period it is entered in, over midnight too, and no other.
THEOREM FaceTrue == KioskSpec => []FaceIsTrue
BY FaceInit, FaceStep, FaceHolds, PTL DEF KioskSpec

(***************************************************************************)
(* The loading of extensions                                               *)
(***************************************************************************)

HookScope == [attempts : SUBSET Tool, before : SUBSET Tool]

LoadingTyped ==
    /\ tools \subseteq Tool /\ open \in BOOLEAN /\ transactions \in Seq(HookScope)
    /\ pending \subseteq Module /\ loading \subseteq Module /\ loaded \subseteq Module
    /\ failed \subseteq Module /\ catalog \subseteq Module
    /\ toolCloses \in [Tool -> Nat]
    /\ answer \in Tool \union {"none", "closed", "unknown", "refused", "raised"}

\* Scopes are open while a hook runs, and hooks run one at a time, each once.
OneHook ==
    /\ Top <= MaxDepth /\ (Top = 0 <=> loading = {})
    /\ loading = {} \/ \E m \in Module : loading = {m}
    /\ loading # {} => open
OnceEach ==
    /\ pending \intersect (loading \union loaded \union failed) = {}
    /\ loading \intersect (loaded \union failed) = {} /\ loaded \intersect failed = {}

\* What is registered is what was there when a scope began and what it was offered.
ScopesNest ==
    /\ \A i \in 1..(Top - 1) :
          /\ transactions[i].before \subseteq transactions[i + 1].before
          /\ transactions[i + 1].before \subseteq transactions[i].before \union transactions[i].attempts
    /\ Top > 0 => /\ transactions[Top].before \subseteq tools
                  /\ tools \subseteq transactions[Top].before \union transactions[Top].attempts

\* A tool that two scopes were offered was there when the inner one began, so
\* that what the inner one closes is the outer one's no more.
OfferedTwice ==
    \A i, j \in 1..Top :
        i < j => transactions[i].attempts \intersect transactions[j].attempts \subseteq transactions[j].before
OfferedIsOpen == \A i \in 1..Top : \A t \in transactions[i].attempts : toolCloses[t] = 0

LoadingInv ==
    /\ LoadingTyped /\ OneHook /\ OnceEach /\ ScopesNest /\ OfferedTwice /\ OfferedIsOpen
    /\ NamesUnambiguous /\ RegisteredIsOpen

\* At the start nothing is registered and no hook runs.
LEMMA LoadingBegins == ExtensionInit => LoadingInv
<1> SUFFICES ASSUME ExtensionInit PROVE LoadingInv
  OBVIOUS
<1> USE LoadingConstants DEF LoadingConstants
<1>1. Top = 0 /\ transactions = <<>> /\ transactions \in Seq(HookScope)
  BY DEF ExtensionInit, Top
<1>2. LoadingTyped /\ OneHook /\ OnceEach
  BY <1>1 DEF ExtensionInit, LoadingTyped, OneHook, OnceEach
<1>3. ScopesNest /\ OfferedTwice /\ OfferedIsOpen
  BY <1>1 DEF ScopesNest, OfferedTwice, OfferedIsOpen
<1>4. NamesUnambiguous /\ RegisteredIsOpen
  BY DEF ExtensionInit, NamesUnambiguous, RegisteredIsOpen
<1>5. QED
  BY <1>2, <1>3, <1>4 DEF LoadingInv

\* Steps that leave the registry and its scopes alone.
LEMMA ScopesUntouched ==
  ASSUME LoadingInv, UNCHANGED <<tools, transactions, toolCloses, open>>
  PROVE  /\ Top' = Top /\ ScopesNest' /\ OfferedTwice' /\ OfferedIsOpen' /\ NamesUnambiguous' /\ RegisteredIsOpen'
         /\ transactions' \in Seq(HookScope) /\ tools' \subseteq Tool /\ toolCloses' \in [Tool -> Nat] /\ open' \in BOOLEAN
<1>1. Top' = Top
  BY DEF Top
<1>2. ScopesNest' /\ OfferedTwice' /\ OfferedIsOpen'
  BY <1>1 DEF LoadingInv, ScopesNest, OfferedTwice, OfferedIsOpen
<1>3. QED
  BY <1>1, <1>2 DEF LoadingInv, LoadingTyped, NamesUnambiguous, RegisteredIsOpen

\* Metadata, disabled entries and requests change nothing that is registered.
LEMMA QuietSteps ==
  ASSUME LoadingInv,
         \/ \E m \in Module : Catalogue(m) \/ SkipEntry(m)
         \/ \E n \in Name : Execute(n) \/ Prepare(n) \/ OpenMenu(n)
         \/ MatchDirect
         \/ UNCHANGED loadVars
  PROVE  LoadingInv' /\ (failed' = failed \/ loading = {})
<1> DEFINE Given == Tool \union {"none", "closed", "unknown", "refused", "raised"}
           Keep == UNCHANGED <<tools, transactions, toolCloses, open, loading, loaded>>
<1>1. ASSUME Keep, pending' \subseteq pending, failed \subseteq failed', failed' \subseteq failed \union (pending \ pending'),
             catalog' \subseteq Module, answer' \in Given
      PROVE  LoadingInv'
  <2>1. LoadingTyped'
    BY <1>1, ScopesUntouched DEF LoadingInv, LoadingTyped
  <2>2. OneHook' /\ OnceEach'
    BY <1>1, ScopesUntouched DEF LoadingInv, OneHook, OnceEach
  <2>3. QED
    BY <1>1, <2>1, <2>2, ScopesUntouched DEF LoadingInv
<1>2. ASSUME NEW m \in Module, Catalogue(m) \/ SkipEntry(m) PROVE LoadingInv' /\ (failed' = failed \/ loading = {})
  <2>1. /\ Keep /\ pending' \subseteq pending /\ failed \subseteq failed' /\ failed' \subseteq failed \union (pending \ pending')
        /\ catalog' \subseteq Module /\ answer' \in Given /\ loading = {}
    BY <1>2 DEF Catalogue, SkipEntry, LoadingInv, LoadingTyped
  <2>2. QED
    BY <1>1, <2>1
<1>3. ASSUME NEW a \in Given, Answer(a) PROVE LoadingInv' /\ failed' = failed
  BY <1>1, <1>3 DEF Answer, LoadingInv, LoadingTyped
<1>4. \A n : Lookup(n) \subseteq Tool /\ Capable \subseteq Tool /\ \A t \in tools : t \in Tool
  BY DEF LoadingInv, LoadingTyped, Lookup, Capable
<1>5. ASSUME NEW n \in Name, Execute(n) \/ Prepare(n) \/ OpenMenu(n) PROVE \E a \in Given : Answer(a)
  <2>1. CASE Execute(n)
    BY <1>4, <2>1 DEF Execute
  <2>2. CASE Prepare(n)
    BY <1>4, <2>2 DEF Prepare
  <2>3. CASE OpenMenu(n)
    BY <1>4, <2>3 DEF OpenMenu
  <2>4. QED
    BY <1>5, <2>1, <2>2, <2>3
<1>6. CASE MatchDirect
  BY <1>3, <1>4, <1>6 DEF MatchDirect
<1>7. CASE UNCHANGED loadVars
  BY <1>1, <1>7 DEF loadVars, LoadingInv, LoadingTyped
<1>8. QED
  BY <1>2, <1>3, <1>5, <1>6, <1>7

\* A scope is opened on what is registered, by the loader or by a hook.
LEMMA ScopeOpens ==
  ASSUME LoadingInv, Begin, UNCHANGED <<tools, toolCloses, open>>
  PROVE  /\ Top' = Top + 1 /\ transactions' \in Seq(HookScope)
         /\ ScopesNest' /\ OfferedTwice' /\ OfferedIsOpen' /\ NamesUnambiguous' /\ RegisteredIsOpen'
<1> DEFINE new == [attempts |-> {}, before |-> tools]
           n == Len(transactions)
<1>1. new \in HookScope /\ new.attempts = {} /\ new.before = tools /\ transactions \in Seq(HookScope) /\ n \in Nat
  BY DEF HookScope, LoadingInv, LoadingTyped
<1> HIDE DEF new, n
<1>2. transactions' = Append(transactions, new)
  BY DEF Begin, new
<1>3. /\ transactions' \in Seq(HookScope) /\ Len(transactions') = n + 1 /\ transactions'[n + 1] = new
      /\ \A i \in 1..n : transactions'[i] = transactions[i]
  BY <1>1, <1>2 DEF n
<1>4. Top = n /\ Top' = n + 1
  BY <1>3 DEF Top, n
<1>5. ScopesNest'
  <2>1. ASSUME NEW i \in 1..n
        PROVE  /\ transactions'[i].before \subseteq transactions'[i + 1].before
               /\ transactions'[i + 1].before \subseteq transactions'[i].before \union transactions'[i].attempts
    <3>1. CASE i = n
      BY <1>1, <1>3, <1>4, <3>1 DEF LoadingInv, ScopesNest
    <3>2. CASE i # n
      <4>1. i \in 1..(n - 1) /\ i + 1 \in 1..n
        BY <1>1, <3>2
      <4>2. QED
        BY <1>3, <1>4, <4>1 DEF LoadingInv, ScopesNest
    <3>3. QED
      BY <3>1, <3>2
  <2>2. Top' - 1 = n
    BY <1>1, <1>4
  <2>3. QED
    BY <1>1, <1>3, <1>4, <2>1, <2>2 DEF ScopesNest
<1>6. OfferedTwice'
  <2>1. ASSUME NEW i \in 1..(n + 1), NEW j \in 1..(n + 1), i < j
        PROVE  transactions'[i].attempts \intersect transactions'[j].attempts \subseteq transactions'[j].before
    <3>1. CASE j = n + 1
      BY <1>1, <1>3, <3>1
    <3>2. CASE j # n + 1
      <4>1. i \in 1..n /\ j \in 1..n
        BY <1>1, <2>1, <3>2
      <4>2. QED
        BY <1>3, <1>4, <2>1, <4>1 DEF LoadingInv, OfferedTwice
    <3>3. QED
      BY <3>1, <3>2
  <2>2. QED
    BY <1>4, <2>1 DEF OfferedTwice
<1>7. OfferedIsOpen'
  <2>1. ASSUME NEW i \in 1..(n + 1), NEW t \in transactions'[i].attempts PROVE toolCloses[t] = 0
    <3>1. i \in 1..n
      BY <1>1, <1>3, <2>1
    <3>2. QED
      BY <1>3, <1>4, <2>1, <3>1 DEF LoadingInv, OfferedIsOpen
  <2>2. QED
    BY <1>4, <2>1 DEF OfferedIsOpen
<1>8. QED
  BY <1>3, <1>4, <1>5, <1>6, <1>7 DEF LoadingInv, NamesUnambiguous, RegisteredIsOpen

\* The loader opens the outermost scope, a hook those inside it.
LEMMA BeginSteps ==
  ASSUME LoadingInv, (\E m \in Module : BeginHook(m)) \/ BeginNested
  PROVE  LoadingInv' /\ failed' = failed
<1> USE LoadingConstants DEF LoadingConstants
<1>1. ASSUME NEW m \in Module, BeginHook(m) PROVE LoadingInv' /\ failed' = failed
  <2>1. /\ Begin /\ UNCHANGED <<tools, toolCloses, open, loaded, failed, catalog, answer>>
        /\ m \in pending /\ loading = {} /\ open /\ pending' = pending \ {m} /\ loading' = {m}
    BY <1>1 DEF BeginHook
  <2>2. Top = 0
    BY <2>1 DEF LoadingInv, OneHook
  <2>3. OneHook'
    BY <2>1, <2>2, ScopeOpens DEF OneHook
  <2>4. OnceEach' /\ LoadingTyped'
    BY <2>1, ScopeOpens DEF LoadingInv, OnceEach, LoadingTyped
  <2>5. QED
    BY <2>1, <2>3, <2>4, ScopeOpens DEF LoadingInv
<1>2. CASE BeginNested
  <2>1. /\ Begin /\ UNCHANGED <<tools, toolCloses, open, pending, loading, loaded, failed, catalog, answer>>
        /\ loading # {} /\ Top < MaxDepth
    BY <1>2 DEF BeginNested
  <2>2. Top \in Nat
    BY DEF Top, LoadingInv, LoadingTyped
  <2>3. OneHook'
    BY <2>1, <2>2, ScopeOpens DEF LoadingInv, OneHook
  <2>4. OnceEach' /\ LoadingTyped'
    BY <2>1, ScopeOpens DEF LoadingInv, OnceEach, LoadingTyped
  <2>5. QED
    BY <2>1, <2>3, <2>4, ScopeOpens DEF LoadingInv
<1>3. QED
  BY <1>1, <1>2

\* A tool that is offered is remembered by the scope it is offered in.
LEMMA RegisterSteps ==
  ASSUME LoadingInv, NEW t \in Tool, Register(t)
  PROVE  LoadingInv' /\ failed' = failed
<1> DEFINE n == Len(transactions)
           tried == transactions[n].attempts \union {t}
<1>1. /\ loading # {} /\ toolCloses[t] = 0 /\ (t \in tools \/ \A i \in 1..n : t \notin transactions[i].attempts)
      /\ transactions' = [transactions EXCEPT ![n].attempts = @ \union {t}]
      /\ tools' = IF Acceptable(t) THEN tools \union {t} ELSE tools
      /\ UNCHANGED <<pending, loading, loaded, failed, catalog, toolCloses, open, answer>>
  BY DEF Register, Top
<1>2. transactions \in Seq(HookScope) /\ n \in Nat /\ n # 0 /\ n \in 1..n /\ Top = n /\ transactions[n] \in HookScope
  BY <1>1 DEF LoadingInv, LoadingTyped, OneHook, Top
<1> HIDE DEF n
<1>3. /\ transactions' \in Seq(HookScope) /\ Len(transactions') = n
      /\ \A i \in 1..n : transactions'[i].before = transactions[i].before
      /\ transactions'[n].attempts = tried
      /\ \A i \in 1..n : i # n => transactions'[i].attempts = transactions[i].attempts
  <2>1. [transactions[n] EXCEPT !.attempts = tried] \in HookScope
        /\ [transactions[n] EXCEPT !.attempts = tried].attempts = tried
        /\ [transactions[n] EXCEPT !.attempts = tried].before = transactions[n].before
    BY <1>2 DEF HookScope
  <2>2. transactions' = [transactions EXCEPT ![n] = [transactions[n] EXCEPT !.attempts = tried]]
    BY <1>1, <1>2
  <2> HIDE DEF tried
  <2>3. transactions' \in Seq(HookScope) /\ Len(transactions') = n
    BY <1>2, <2>1, <2>2 DEF n
  <2>4. DOMAIN transactions = 1..n
    BY <1>2 DEF n
  <2>5. QED
    BY <1>2, <2>1, <2>2, <2>3, <2>4
<1>4. Top' = n
  BY <1>3 DEF Top
<1>5. tools \subseteq tools' /\ tools' \subseteq tools \union {t} /\ tools' \subseteq Tool
  BY <1>1 DEF LoadingInv, LoadingTyped
<1>6. ScopesNest'
  <2>1. ASSUME NEW i \in 1..(n - 1)
        PROVE  /\ transactions'[i].before \subseteq transactions'[i + 1].before
               /\ transactions'[i + 1].before \subseteq transactions'[i].before \union transactions'[i].attempts
    <3>1. i \in 1..n /\ i + 1 \in 1..n /\ i # n
      BY <1>2
    <3>2. QED
      BY <1>2, <1>3, <3>1 DEF LoadingInv, ScopesNest
  <2>2. transactions'[n].before \subseteq tools' /\ tools' \subseteq transactions'[n].before \union transactions'[n].attempts
    BY <1>2, <1>3, <1>5 DEF LoadingInv, ScopesNest
  <2>3. QED
    BY <1>4, <2>1, <2>2 DEF ScopesNest
<1>7. OfferedTwice'
  <2>1. ASSUME NEW i \in 1..n, NEW j \in 1..n, i < j
        PROVE  transactions'[i].attempts \intersect transactions'[j].attempts \subseteq transactions'[j].before
    <3>1. transactions[i].attempts \intersect transactions[j].attempts \subseteq transactions[j].before
      BY <1>2, <2>1 DEF LoadingInv, OfferedTwice
    <3>2. i # n
      BY <1>2, <2>1
    <3>3. CASE j # n
      BY <1>3, <3>1, <3>2, <3>3
    <3>4. CASE j = n
      <4>1. t \in transactions[i].attempts => t \in transactions[n].before
        <5>1. tools \subseteq transactions[n].before \union transactions[n].attempts
          BY <1>2 DEF LoadingInv, ScopesNest
        <5>2. QED
          BY <1>1, <3>1, <3>4, <5>1
      <4>2. QED
        BY <1>2, <1>3, <3>1, <3>2, <3>4, <4>1
    <3>5. QED
      BY <3>3, <3>4
  <2>2. QED
    BY <1>4, <2>1 DEF OfferedTwice
<1>8. OfferedIsOpen'
  <2>1. ASSUME NEW i \in 1..n, NEW u \in transactions'[i].attempts PROVE toolCloses[u] = 0
    <3>1. u = t \/ u \in transactions[i].attempts
      BY <1>2, <1>3, <2>1
    <3>2. QED
      BY <1>1, <1>2, <3>1 DEF LoadingInv, OfferedIsOpen
  <2>2. QED
    BY <1>1, <1>4, <2>1 DEF OfferedIsOpen
<1>9. NamesUnambiguous'
  <2>1. Acceptable(t) => \A u \in tools : Names(t) \intersect Names(u) = {} /\ Names(u) \intersect Names(t) = {}
    BY DEF Acceptable
  <2>2. \A u, v \in tools : u # v => Names(u) \intersect Names(v) = {}
    BY DEF LoadingInv, NamesUnambiguous
  <2>3. QED
    BY <1>1, <2>1, <2>2 DEF NamesUnambiguous
<1>10. RegisteredIsOpen'
  BY <1>1, <1>5 DEF LoadingInv, RegisteredIsOpen, OneHook
<1>11. LoadingTyped' /\ OneHook' /\ OnceEach'
  BY <1>1, <1>2, <1>3, <1>4, <1>5 DEF LoadingInv, LoadingTyped, OneHook, OnceEach
<1>12. QED
  BY <1>1, <1>6, <1>7, <1>8, <1>9, <1>10, <1>11 DEF LoadingInv

\* What is left of the stack when the innermost scope ends.
LEMMA InnermostEnds ==
  ASSUME NEW V, NEW s \in Seq(V), Len(s) > 1
  PROVE  /\ SubSeq(s, 1, Len(s) - 1) \in Seq(V) /\ Len(SubSeq(s, 1, Len(s) - 1)) = Len(s) - 1
         /\ \A i \in 1..(Len(s) - 1) : SubSeq(s, 1, Len(s) - 1)[i] = s[i]
<1> DEFINE l == Len(s)
           n == l - 1
<1>0. l \in Nat /\ l > 1
  OBVIOUS
<1> HIDE DEF l
<1>1. n \in Nat /\ n <= l
  BY <1>0
<1> HIDE DEF n
<1>2. SubSeq(s, 1, n) \in Seq(V) /\ Len(SubSeq(s, 1, n)) = n /\ \A i \in 1..n : SubSeq(s, 1, n)[i] = s[i]
  BY <1>1 DEF l
<1>3. QED
  BY <1>2 DEF n, l

\* A scope that completes leaves to the one around it what it was offered.
LEMMA CommitSteps == ASSUME LoadingInv, CommitHook PROVE LoadingInv' /\ failed' = failed
<1> DEFINE n == Len(transactions)
<1>1. /\ loading # {} /\ Top = n /\ n \in Nat /\ n # 0 /\ transactions \in Seq(HookScope)
      /\ UNCHANGED <<tools, pending, failed, catalog, toolCloses, open, answer>>
  BY DEF CommitHook, LoadingInv, OneHook, LoadingTyped, Top
<1>2. CASE n > 1
  <2> DEFINE s == SubSeq(transactions, 1, n - 1)
             m == n - 1
             outer == transactions[m].attempts \union transactions[n].attempts
  <2>1. s \in Seq(HookScope) /\ Len(s) = m /\ (\A i \in 1..m : s[i] = transactions[i])
    BY <1>1, <1>2, InnermostEnds
  <2>2. m \in Nat /\ m # 0 /\ m \in 1..m /\ m \in 1..n /\ n \in 1..n /\ m + 1 = n /\ m < n
    BY <1>1, <1>2
  <2>3. transactions' = [s EXCEPT ![m].attempts = @ \union transactions[n].attempts] /\ UNCHANGED <<loading, loaded>>
    BY <1>1, <1>2 DEF CommitHook
  <2> HIDE DEF s, m, n
  <2>4. transactions[m] \in HookScope /\ transactions[n] \in HookScope /\ s[m] = transactions[m]
    BY <1>1, <2>1, <2>2 DEF n
  <2>5. /\ transactions' \in Seq(HookScope) /\ Len(transactions') = m
        /\ \A i \in 1..m : transactions'[i].before = transactions[i].before
        /\ transactions'[m].attempts = outer
        /\ \A i \in 1..m : i # m => transactions'[i].attempts = transactions[i].attempts
    <3>1. [s[m] EXCEPT !.attempts = outer] \in HookScope
          /\ [s[m] EXCEPT !.attempts = outer].attempts = outer
          /\ [s[m] EXCEPT !.attempts = outer].before = transactions[m].before
      BY <2>4 DEF HookScope
    <3>2. transactions' = [s EXCEPT ![m] = [s[m] EXCEPT !.attempts = outer]]
      BY <2>1, <2>2, <2>3, <2>4
    <3> HIDE DEF outer
    <3>3. transactions' \in Seq(HookScope) /\ Len(transactions') = m
      BY <2>1, <2>2, <3>1, <3>2
    <3>4. DOMAIN s = 1..m
      BY <2>1
    <3>5. QED
      BY <2>1, <2>2, <3>1, <3>2, <3>3, <3>4
  <2>6. Top' = m
    BY <2>5 DEF Top
  <2>7. transactions[m].before \subseteq transactions[n].before /\ transactions[n].before \subseteq tools
        /\ transactions[n].before \subseteq transactions[m].before \union transactions[m].attempts
        /\ tools \subseteq transactions[n].before \union transactions[n].attempts
    BY <1>1, <2>2 DEF LoadingInv, ScopesNest
  <2>8. ScopesNest'
    <3>1. ASSUME NEW i \in 1..(m - 1)
          PROVE  /\ transactions'[i].before \subseteq transactions'[i + 1].before
                 /\ transactions'[i + 1].before \subseteq transactions'[i].before \union transactions'[i].attempts
      <4>1. i \in 1..(n - 1) /\ i \in 1..m /\ i + 1 \in 1..m /\ i # m
        BY <1>1, <2>2
      <4>2. QED
        BY <1>1, <2>5, <4>1 DEF LoadingInv, ScopesNest
    <3>2. transactions'[m].before \subseteq tools' /\ tools' \subseteq transactions'[m].before \union transactions'[m].attempts
      BY <1>1, <2>2, <2>5, <2>7
    <3>3. QED
      BY <2>6, <3>1, <3>2 DEF ScopesNest
  <2>9. OfferedTwice'
    <3>1. ASSUME NEW i \in 1..m, NEW j \in 1..m, i < j
          PROVE  transactions'[i].attempts \intersect transactions'[j].attempts \subseteq transactions'[j].before
      <4>1. i \in 1..n /\ j \in 1..n /\ i # m /\ i < n
        BY <1>1, <2>2, <3>1
      <4>2. /\ transactions[i].attempts \intersect transactions[j].attempts \subseteq transactions[j].before
            /\ transactions[i].attempts \intersect transactions[n].attempts \subseteq transactions[n].before
        BY <1>1, <2>2, <3>1, <4>1 DEF LoadingInv, OfferedTwice
      <4>3. CASE j # m
        BY <2>5, <4>1, <4>2, <4>3
      <4>4. CASE j = m
        BY <2>2, <2>5, <2>7, <4>1, <4>2, <4>4
      <4>5. QED
        BY <4>3, <4>4
    <3>2. QED
      BY <2>6, <3>1 DEF OfferedTwice
  <2>10. OfferedIsOpen'
    <3>1. ASSUME NEW i \in 1..m, NEW u \in transactions'[i].attempts PROVE toolCloses[u] = 0
      <4>1. i \in 1..n
        BY <1>1, <2>2
      <4>2. u \in transactions[i].attempts \/ u \in transactions[n].attempts
        BY <2>5, <3>1
      <4>3. QED
        BY <1>1, <2>2, <4>1, <4>2 DEF LoadingInv, OfferedIsOpen
    <3>2. QED
      BY <1>1, <2>6, <3>1 DEF OfferedIsOpen
  <2>11. Top' <= MaxDepth /\ Top' # 0
    <3>1. n <= MaxDepth
      BY <1>1 DEF LoadingInv, OneHook
    <3>2. QED
      BY <2>2, <2>6, <3>1, LoadingConstants DEF LoadingConstants
  <2>12. LoadingTyped' /\ OneHook' /\ OnceEach' /\ NamesUnambiguous' /\ RegisteredIsOpen'
    BY <1>1, <2>3, <2>5, <2>11
    DEF LoadingInv, LoadingTyped, OneHook, OnceEach, NamesUnambiguous, RegisteredIsOpen
  <2>13. QED
    BY <1>1, <2>8, <2>9, <2>10, <2>12 DEF LoadingInv
<1>3. CASE ~(n > 1)
  <2>1. transactions' = <<>> /\ loading' = {} /\ loaded' = loaded \union loading
    BY <1>1, <1>3 DEF CommitHook
  <2>2. Top' = 0 /\ transactions' \in Seq(HookScope)
    BY <2>1 DEF Top
  <2>3. ScopesNest' /\ OfferedTwice' /\ OfferedIsOpen'
    BY <2>2 DEF ScopesNest, OfferedTwice, OfferedIsOpen
  <2>4. OneHook'
    BY <2>1, <2>2, LoadingConstants DEF OneHook, LoadingConstants
  <2>5. LoadingTyped' /\ OnceEach' /\ NamesUnambiguous' /\ RegisteredIsOpen'
    BY <1>1, <2>1, <2>2 DEF LoadingInv, LoadingTyped, OnceEach, NamesUnambiguous, RegisteredIsOpen
  <2>6. QED
    BY <1>1, <2>3, <2>4, <2>5 DEF LoadingInv
<1>4. QED
  BY <1>2, <1>3

\* A hook that failed leaves nothing behind: what its scope brought in is closed.
LEMMA RollbackSteps ==
  ASSUME LoadingInv, Rollback
  PROVE  /\ LoadingInv'
         /\ failed' # failed => \A i \in 1..Top : \A t \in transactions[i].attempts \ tools' : toolCloses'[t] = 1
<1> DEFINE n == Len(transactions)
           gone == transactions[n].attempts \ transactions[n].before
<1>1. /\ loading # {} /\ Top = n /\ n \in Nat /\ n # 0 /\ n \in 1..n /\ transactions \in Seq(HookScope) /\ open
      /\ tools' = transactions[n].before
      /\ toolCloses' = [t \in Tool |-> IF t \in gone THEN toolCloses[t] + 1 ELSE toolCloses[t]]
      /\ UNCHANGED <<pending, loaded, catalog, open, answer>>
  BY DEF Rollback, LoadingInv, OneHook, LoadingTyped, Top, CloseTools, BroughtIn
<1>2. transactions[n] \in HookScope
  BY <1>1
<1> HIDE DEF n
<1>3. /\ tools' \subseteq tools /\ tools' \subseteq Tool /\ gone \subseteq Tool
      /\ \A t \in gone : toolCloses[t] = 0 /\ t \notin tools'
  BY <1>1, <1>2 DEF LoadingInv, LoadingTyped, ScopesNest, OfferedIsOpen, HookScope
<1>4. /\ toolCloses' \in [Tool -> Nat] /\ \A t \in gone : toolCloses'[t] = 1
      /\ \A t \in Tool \ gone : toolCloses'[t] = toolCloses[t]
  BY <1>1, <1>3 DEF LoadingInv, LoadingTyped
<1>5. NamesUnambiguous' /\ RegisteredIsOpen'
  <2>1. \A t \in tools' : t \in Tool \ gone /\ toolCloses[t] = 0
    BY <1>1, <1>3 DEF LoadingInv, RegisteredIsOpen
  <2>2. QED
    BY <1>1, <1>3, <1>4, <2>1 DEF LoadingInv, NamesUnambiguous, RegisteredIsOpen
<1>6. CASE n > 1
  <2> DEFINE s == SubSeq(transactions, 1, n - 1)
             m == n - 1
  <2>1. s \in Seq(HookScope) /\ Len(s) = m /\ (\A i \in 1..m : s[i] = transactions[i])
    BY <1>1, <1>6, InnermostEnds DEF n
  <2>2. m \in Nat /\ m # 0 /\ m \in 1..n /\ m + 1 = n /\ m < n /\ \A i \in 1..m : i \in 1..n /\ i < n
    BY <1>1, <1>6
  <2>3. transactions' = s /\ UNCHANGED <<loading, failed>>
    BY <1>1, <1>6 DEF Rollback
  <2> HIDE DEF s, m
  <2>4. Top' = m /\ transactions' \in Seq(HookScope) /\ \A i \in 1..m : transactions'[i] = transactions[i]
    BY <2>1, <2>3 DEF Top
  <2>5. ScopesNest'
    <3>1. ASSUME NEW i \in 1..(m - 1)
          PROVE  /\ transactions'[i].before \subseteq transactions'[i + 1].before
                 /\ transactions'[i + 1].before \subseteq transactions'[i].before \union transactions'[i].attempts
      <4>1. i \in 1..(n - 1) /\ i \in 1..m /\ i + 1 \in 1..m
        BY <1>1, <2>2
      <4>2. QED
        BY <1>1, <2>4, <4>1 DEF LoadingInv, ScopesNest
    <3>2. transactions'[m].before \subseteq tools' /\ tools' \subseteq transactions'[m].before \union transactions'[m].attempts
      <4>1. m \in 1..(n - 1) /\ m \in 1..m
        BY <1>1, <2>2
      <4>2. QED
        BY <1>1, <2>2, <2>4, <4>1 DEF LoadingInv, ScopesNest
    <3>3. QED
      BY <2>4, <3>1, <3>2 DEF ScopesNest
  <2>6. OfferedTwice'
    BY <1>1, <2>2, <2>4 DEF LoadingInv, OfferedTwice
  <2>7. OfferedIsOpen'
    <3>1. ASSUME NEW i \in 1..m, NEW t \in transactions[i].attempts PROVE toolCloses'[t] = 0
      <4>1. t \in Tool /\ toolCloses[t] = 0
        <5>1. i \in 1..n /\ transactions[i] \in HookScope
          BY <1>1, <2>2 DEF n
        <5>2. QED
          BY <1>1, <5>1 DEF LoadingInv, OfferedIsOpen, HookScope
      <4>2. t \notin gone
        BY <1>1, <2>2 DEF LoadingInv, OfferedTwice
      <4>3. QED
        BY <1>4, <4>1, <4>2
    <3>2. QED
      BY <2>4, <3>1 DEF OfferedIsOpen
  <2>8. Top' <= MaxDepth /\ Top' # 0
    <3>1. n <= MaxDepth
      BY <1>1 DEF LoadingInv, OneHook
    <3>2. QED
      BY <2>2, <2>4, <3>1, LoadingConstants DEF LoadingConstants
  <2>9. LoadingTyped' /\ OneHook' /\ OnceEach'
    BY <1>1, <1>3, <1>4, <2>3, <2>4, <2>8 DEF LoadingInv, LoadingTyped, OneHook, OnceEach
  <2>10. QED
    BY <1>5, <2>3, <2>5, <2>6, <2>7, <2>9 DEF LoadingInv
<1>7. CASE ~(n > 1)
  <2>1. transactions' = <<>> /\ loading' = {} /\ failed' = failed \union loading
    BY <1>1, <1>7 DEF Rollback
  <2>2. Top' = 0 /\ transactions' \in Seq(HookScope)
    BY <2>1 DEF Top
  <2>3. ScopesNest' /\ OfferedTwice' /\ OfferedIsOpen'
    BY <2>2 DEF ScopesNest, OfferedTwice, OfferedIsOpen
  <2>4. OneHook'
    BY <2>1, <2>2, LoadingConstants DEF OneHook, LoadingConstants
  <2>5. LoadingTyped' /\ OnceEach'
    BY <1>1, <1>3, <1>4, <2>1, <2>2 DEF LoadingInv, LoadingTyped, OnceEach
  <2>6. n = 1
    BY <1>1, <1>7
  <2>7. \A i \in 1..Top : \A t \in transactions[i].attempts \ tools' : toolCloses'[t] = 1
    BY <1>1, <1>4, <2>6
  <2>8. QED
    BY <1>5, <2>3, <2>4, <2>5, <2>7 DEF LoadingInv
<1>8. QED
  BY <1>6, <1>7

\* The registry closes each of its tools, once.
LEMMA CloseSteps == ASSUME LoadingInv, CloseFeatures PROVE LoadingInv' /\ loading = {}
<1>1. /\ open = TRUE /\ loading = {} /\ open' = FALSE
      /\ UNCHANGED <<tools, transactions, pending, loading, loaded, failed, catalog, answer>>
      /\ toolCloses' = [t \in Tool |-> IF t \in tools THEN toolCloses[t] + 1 ELSE toolCloses[t]]
  BY DEF CloseFeatures, CloseTools, LoadingInv, LoadingTyped
<1>2. Top = 0 /\ Top' = 0
  BY <1>1 DEF LoadingInv, OneHook, Top
<1>3. ScopesNest' /\ OfferedTwice' /\ OfferedIsOpen'
  BY <1>2 DEF ScopesNest, OfferedTwice, OfferedIsOpen
<1>4. toolCloses' \in [Tool -> Nat] /\ tools \subseteq Tool
  BY <1>1 DEF LoadingInv, LoadingTyped
<1>5. LoadingTyped' /\ OneHook' /\ OnceEach' /\ NamesUnambiguous'
  BY <1>1, <1>2, <1>4 DEF LoadingInv, LoadingTyped, OneHook, OnceEach, NamesUnambiguous
<1>6. RegisteredIsOpen'
  BY <1>1, <1>4 DEF LoadingInv, RegisteredIsOpen
<1>7. QED
  BY <1>1, <1>3, <1>5, <1>6 DEF LoadingInv

\* What a hook that failed was offered is closed, unless it stays registered.
NothingLeftOpen ==
    \A t \in Tool : (\E i \in 1..Top : t \in transactions[i].attempts)
          /\ loading # {} /\ failed' # failed /\ t \notin tools'
          => toolCloses'[t] = 1

\* Every step keeps the invariant, and leaves nothing open.
LEMMA LoadingStep == LoadingInv /\ [ExtensionNext]_loadVars => LoadingInv' /\ NothingLeftOpen
<1> SUFFICES ASSUME LoadingInv, [ExtensionNext]_loadVars PROVE LoadingInv' /\ NothingLeftOpen
  OBVIOUS
<1>1. ASSUME failed' = failed \/ loading = {} PROVE NothingLeftOpen
  BY <1>1 DEF NothingLeftOpen
<1>2. CASE Rollback
  BY <1>2, RollbackSteps DEF NothingLeftOpen
<1>3. QED
  BY <1>1, <1>2, QuietSteps, BeginSteps, RegisterSteps, CommitSteps, CloseSteps DEF ExtensionNext

\* Loading leaves clear names, and nothing open by a failure, of whatever depth.
THEOREM LoadingLeavesNothing == ExtensionSpec => LoadingIsClean
<1>1. LoadingInv => LoadingTypeOK /\ NamesUnambiguous /\ RegisteredIsOpen
  <2> SUFFICES ASSUME LoadingInv PROVE LoadingTypeOK /\ NamesUnambiguous /\ RegisteredIsOpen
    OBVIOUS
  <2>1. Cardinality(loading) <= 1
    <3>1. CASE loading = {}
      BY <3>1, FS_EmptySet
    <3>2. CASE \E m \in Module : loading = {m}
      <4>1. PICK m \in Module : loading = {m}
        BY <3>2
      <4>2. Cardinality(loading) = 1
        BY <4>1, FS_Singleton
      <4>3. QED
        BY <4>2
    <3>3. QED
      BY <3>1, <3>2 DEF LoadingInv, OneHook
  <2>2. QED
    BY <2>1 DEF LoadingInv, LoadingTypeOK, LoadingTyped, OneHook, OnceEach, HookScope
<1>2. LoadingInv /\ [ExtensionNext]_loadVars =>
        [\A t \in Tool : (\E i \in 1..Top : t \in transactions[i].attempts)
            /\ loading # {} /\ failed' # failed /\ t \notin tools'
            => toolCloses'[t] = 1]_loadVars
  BY LoadingStep DEF NothingLeftOpen
<1>3. ExtensionSpec => []LoadingInv
  BY LoadingBegins, LoadingStep, PTL DEF ExtensionSpec
<1>4. QED
  BY <1>1, <1>2, <1>3, PTL DEF ExtensionSpec, LoadingIsClean, FailedIsClosed

(***************************************************************************)
(* The shell                                                               *)
(***************************************************************************)

ShellTyped ==
    /\ phase \in {"loading", "running", "failed", "closed"}
    /\ menuShown \in BOOLEAN /\ viewShown \in BOOLEAN /\ hud \in BOOLEAN
    /\ MenuPages \in Nat /\ page \in 1..MenuPages
    /\ views \in Nat /\ current \in 0..views /\ ended \subseteq 1..views
    /\ calls \in Seq([what : {"open", "close"}, view : Nat]) /\ \A i \in 1..Len(calls) : calls[i].view \in 0..views

\* A view is over the page it was opened from, and nothing is opened before
\* the runtime is there.
OverItsPage == viewShown => origin = page
NothingEarly == phase = "loading" => ~viewShown /\ calls = <<>>

ShellInv == ShellTyped /\ ShellTypeOK /\ NoViewIsOrphaned /\ OverItsPage /\ NothingEarly

-----------------------------------------------------------------------------
(* The pages of the menu *)

CatalogPage(items, k) ==
    [number |-> k, items |-> {i \in 1..items : i > 15 * (k - 1) /\ i <= 15 * (k - 1) + 15}]
PagesOf(items) == ((items - 1) \div 15) + 1

\* The pages are numbered one after the other, and there are as many as it takes.
LEMMA PagesAre ==
  ASSUME NEW items \in Nat \ {0}
  PROVE  /\ PagesOf(items) \in Nat \ {0}
         /\ Paginate(items) = {CatalogPage(items, k) : k \in 1..PagesOf(items)}
         /\ IsFiniteSet(Paginate(items)) /\ Cardinality(Paginate(items)) = PagesOf(items)
<1> DEFINE n == PagesOf(items)
           P == {CatalogPage(items, k) : k \in 1..n}
<1>1. n \in Nat \ {0} /\ 15 * (n - 1) <= items - 1 /\ items - 1 < 15 * n
  BY DEF PagesOf
<1>2. \A k \in 1..n : /\ 15 * (k - 1) \in 0..(items - 1) /\ (15 * (k - 1)) % 15 = 0 /\ 1 + ((15 * (k - 1)) \div 15) = k
  <2> TAKE k \in 1..n
  <2>1. k \in Int /\ k >= 1 /\ k <= n /\ n \in Int
    BY <1>1
  <2> HIDE DEF n
  <2>2. 15 * (k - 1) >= 0 /\ 15 * (k - 1) <= items - 1
    BY <1>1, <2>1
  <2>3. (15 * (k - 1)) % 15 = 0 /\ (15 * (k - 1)) \div 15 = k - 1
    BY <2>1
  <2>4. QED
    BY <2>1, <2>2, <2>3
<1>3. \A o \in 0..(items - 1) : o % 15 = 0 => 1 + (o \div 15) \in 1..n /\ 15 * ((1 + (o \div 15)) - 1) = o
  <2> TAKE o \in 0..(items - 1)
  <2> HAVE o % 15 = 0
  <2> HIDE DEF n
  <2>1. QED
    BY <1>1
<1> HIDE DEF n
<1>4. Paginate(items) = P
  <2>1. ASSUME NEW p \in Paginate(items) PROVE p \in P
    <3>1. PICK o \in 0..(items - 1) : o % 15 = 0 /\ p = [number |-> 1 + (o \div 15), items |-> {i \in 1..items : i > o /\ i <= o + 15}]
      BY DEF Paginate, Capacity
    <3> DEFINE k == 1 + (o \div 15)
    <3>2. k \in 1..n /\ 15 * (k - 1) = o
      BY <1>3, <3>1
    <3>3. p = CatalogPage(items, k)
      BY <3>1, <3>2 DEF CatalogPage
    <3>4. QED
      BY <3>2, <3>3
  <2>2. ASSUME NEW k \in 1..n PROVE CatalogPage(items, k) \in Paginate(items)
    <3> DEFINE o == 15 * (k - 1)
    <3>1. o \in 0..(items - 1) /\ o % 15 = 0 /\ 1 + (o \div 15) = k
      BY <1>2
    <3>2. CatalogPage(items, k) = [number |-> 1 + (o \div 15), items |-> {i \in 1..items : i > o /\ i <= o + 15}]
      BY <3>1 DEF CatalogPage
    <3> HIDE DEF o
    <3>3. QED
      BY <3>1, <3>2 DEF Paginate, Capacity
  <2>3. QED
    BY <2>1, <2>2
<1>5. IsFiniteSet(P) /\ Cardinality(P) = n
  <2> DEFINE f == [k \in 1..n |-> CatalogPage(items, k)]
  <2>1. \A k, l \in 1..n : f[k] = f[l] => k = l
    BY DEF CatalogPage
  <2>2. f \in Bijection(1..n, P)
    BY <2>1, Fun_IsBij
  <2>3. IsFiniteSet(1..n) /\ Cardinality(1..n) = n
    BY <1>1, FS_Interval
  <2>4. ExistsBijection(1..n, P)
    BY <2>2 DEF ExistsBijection
  <2>5. QED
    BY <2>3, <2>4, FS_Bijection
<1>6. QED
  BY <1>1, <1>4, <1>5 DEF n

\* Each item is on the one page its place gives.
LEMMA PagesHold ==
  ASSUME NEW items \in Nat \ {0}
  PROVE  /\ \A i \in 1..items : Cardinality({p \in Paginate(items) : i \in p.items}) = 1
         /\ {p.number : p \in Paginate(items)} = 1..Cardinality(Paginate(items))
         /\ \A p \in Paginate(items) : p.items # {} /\ Cardinality(p.items) <= Capacity
<1> DEFINE n == PagesOf(items)
<1>1. n \in Nat \ {0} /\ 15 * (n - 1) <= items - 1 /\ items - 1 < 15 * n
  BY DEF PagesOf
<1>2. Paginate(items) = {CatalogPage(items, k) : k \in 1..n} /\ Cardinality(Paginate(items)) = n
  BY PagesAre
<1> HIDE DEF n
<1>3. ASSUME NEW i \in 1..items PROVE Cardinality({p \in Paginate(items) : i \in p.items}) = 1
  <2> DEFINE k == ((i - 1) \div 15) + 1
  <2>1. k \in 1..n /\ i > 15 * (k - 1) /\ i <= 15 * (k - 1) + 15
    BY <1>1
  <2>2. \A l \in 1..n : i > 15 * (l - 1) /\ i <= 15 * (l - 1) + 15 => l = k
    BY <1>1
  <2> HIDE DEF k
  <2>3. {p \in Paginate(items) : i \in p.items} = {CatalogPage(items, k)}
    BY <1>2, <2>1, <2>2 DEF CatalogPage
  <2>4. QED
    BY <2>3, FS_Singleton
<1>4. {p.number : p \in Paginate(items)} = 1..n
  <2>1. \A k \in 1..n : CatalogPage(items, k).number = k
    BY DEF CatalogPage
  <2>2. QED
    BY <1>2, <2>1
<1>5. ASSUME NEW p \in Paginate(items) PROVE p.items # {} /\ Cardinality(p.items) <= Capacity
  <2>1. PICK k \in 1..n : p = CatalogPage(items, k)
    BY <1>2
  <2> DEFINE o == 15 * (k - 1)
  <2>2. o \in Nat /\ o + 1 \in 1..items
    BY <1>1
  <2>3. p.items = {i \in 1..items : i > o /\ i <= o + 15}
    BY <2>1 DEF CatalogPage
  <2> HIDE DEF o
  <2>4. p.items # {}
    <3>1. o + 1 \in p.items
      BY <2>2, <2>3
    <3>2. QED
      BY <3>1
  <2>5. p.items \subseteq (o + 1)..(o + 15)
    BY <2>2, <2>3
  <2>6. IsFiniteSet((o + 1)..(o + 15)) /\ Cardinality((o + 1)..(o + 15)) = 15
    <3>1. o + 1 \in Int /\ o + 15 \in Int /\ o + 1 <= o + 15 /\ (o + 15) - (o + 1) + 1 = 15
      BY <2>2
    <3>2. QED
      BY <3>1, FS_Interval
  <2>7. QED
    BY <2>4, <2>5, <2>6, FS_Subset DEF Capacity
<1>6. QED
  BY <1>2, <1>3, <1>4, <1>5

-----------------------------------------------------------------------------
(* What closing and opening leave *)

\* Closing a view that can be asked for changes nothing, or takes the one
\* that is shown off the screen, back to the menu.
LEMMA ClosingAView ==
  ASSUME ShellInv, NEW v \in 0..views
  PROVE  LET s == CloseView(Screen, v) IN
         \/ s.current = current /\ s.view = viewShown /\ s.menu = menuShown /\ s.ended = ended
         \/ /\ v = current /\ current # NoView /\ viewShown
            /\ s.current = NoView /\ s.view = FALSE /\ s.menu = TRUE /\ s.ended = ended \union {current}
<1> DEFINE s == CloseView(Screen, v)
<1>1. CASE v \in ended \/ v = NoView
  <2>1. s = Screen
    BY <1>1 DEF CloseView, Screen
  <2>2. QED
    BY <2>1 DEF Screen
<1>2. CASE ~(v \in ended \/ v = NoView)
  <2>1. v \in 1..views \ ended
    BY <1>2 DEF NoView, ShellInv, ShellTyped
  <2>2. v = current /\ current # NoView /\ viewShown
    BY <2>1 DEF ShellInv, NoViewIsOrphaned
  <2> DEFINE t == [Screen EXCEPT !.ended = @ \union {v}]
  <2>3. t.current = current /\ t.view = viewShown /\ t.menu = menuShown /\ t.ended = ended \union {v}
    BY DEF Screen
  <2>4. t = [current |-> current, view |-> viewShown, menu |-> menuShown, ended |-> ended \union {v}]
    BY DEF Screen
  <2>5. s = Dismiss(t, v)
    BY <1>2 DEF CloseView, Screen
  <2> HIDE DEF t, s
  <2>6. s = [t EXCEPT !.current = NoView, !.view = FALSE, !.menu = t.view \/ t.menu]
    BY <2>2, <2>3, <2>5 DEF Dismiss
  <2>7. s.current = NoView /\ s.view = FALSE /\ s.menu = (viewShown \/ menuShown) /\ s.ended = ended \union {v}
    BY <2>4, <2>6
  <2>8. QED
    BY <2>2, <2>7 DEF s
<1>3. QED
  BY <1>1, <1>2

\* Opening a view closes whatever was shown, and shows the new one.
LEMMA OpeningAView ==
  ASSUME ShellInv, OpenView
  PROVE  /\ views' = views + 1 /\ current' = views + 1 /\ viewShown' = TRUE /\ menuShown' = FALSE
         /\ ended' = 1..views /\ hud' = FALSE /\ origin' = page /\ page' = page /\ phase' = phase
<1> DEFINE s == CloseView(Screen, current)
           t == PresentView(Screen, views + 1)
<1>1. current \in 0..views
  BY DEF ShellInv, ShellTyped
<1>2. s.ended = 1..views
  <2>1. \/ s.current = current /\ s.view = viewShown /\ s.menu = menuShown /\ s.ended = ended
        \/ current # NoView /\ s.ended = ended \union {current}
    BY <1>1, ClosingAView
  <2> HIDE DEF s
  <2>2. CASE current # NoView /\ s.ended = ended \union {current}
    BY <2>2 DEF ShellInv, ShellTyped, NoViewIsOrphaned
  <2>3. CASE s.current = current /\ s.ended = ended
    <3>1. CASE current = NoView
      BY <2>3, <3>1 DEF ShellInv, ShellTyped, NoViewIsOrphaned
    <3>2. CASE current # NoView
      <4>1. current \in 1..views /\ current \notin ended
        BY <3>2 DEF ShellInv, NoViewIsOrphaned
      <4>2. s = Dismiss([Screen EXCEPT !.ended = @ \union {current}], current)
        BY <3>2, <4>1 DEF CloseView, Screen, s
      <4>3. s.current = NoView
        BY <4>2 DEF Dismiss, Screen
      <4>4. QED
        BY <2>3, <3>2, <4>3
    <3>3. QED
      BY <3>1, <3>2
  <2>4. QED
    BY <2>1, <2>2, <2>3
<1>3. s \in [current : Nat, view : BOOLEAN, menu : BOOLEAN, ended : SUBSET Nat]
  <2>1. Screen \in [current : Nat, view : BOOLEAN, menu : BOOLEAN, ended : SUBSET Nat]
    BY DEF Screen, ShellInv, ShellTyped
  <2>2. [Screen EXCEPT !.ended = @ \union {current}] \in [current : Nat, view : BOOLEAN, menu : BOOLEAN, ended : SUBSET Nat]
    BY <2>1 DEF ShellInv, ShellTyped
  <2>3. QED
    BY <2>1, <2>2 DEF CloseView, Dismiss, NoView
<1>4. t = [s EXCEPT !.current = views + 1, !.view = TRUE, !.menu = FALSE]
  BY DEF PresentView, Screen
<1>5. t.current = views + 1 /\ t.view = TRUE /\ t.menu = FALSE /\ t.ended = s.ended
  <2> HIDE DEF s, t
  <2>1. QED
    BY <1>3, <1>4
<1>6. current' = t.current /\ viewShown' = t.view /\ menuShown' = t.menu /\ ended' = t.ended
  BY DEF OpenView, Becomes
<1> HIDE DEF s, t
<1>7. QED
  BY <1>2, <1>5, <1>6 DEF OpenView

\* What a closing step leaves satisfies the invariant, and leads to the page.
LEMMA ClosingKeeps ==
  ASSUME ShellInv, NEW v \in 0..views, Becomes(CloseView(Screen, v)), UNCHANGED <<hud, page, views, origin>>,
         calls' = calls \/ (calls # <<>> /\ calls' = Tail(calls)),
         phase' = phase \/ phase' = "closed"
  PROVE  ShellInv' /\ (viewShown /\ ~viewShown' => menuShown' /\ page' = origin)
<1>1. \/ current' = current /\ viewShown' = viewShown /\ menuShown' = menuShown /\ ended' = ended
      \/ /\ v = current /\ current # NoView /\ viewShown
         /\ current' = NoView /\ viewShown' = FALSE /\ menuShown' = TRUE /\ ended' = ended \union {current}
  BY ClosingAView DEF Becomes
<1>2. /\ calls' \in Seq([what : {"open", "close"}, view : Nat])
      /\ \A i \in 1..Len(calls') : calls'[i].view \in 0..views
      /\ calls = <<>> => calls' = <<>>
  <2>1. CASE calls' = calls
    BY <2>1 DEF ShellInv, ShellTyped
  <2>2. CASE calls # <<>> /\ calls' = Tail(calls)
    BY <2>2 DEF ShellInv, ShellTyped
  <2>3. QED
    BY <2>1, <2>2
<1>3. UNCHANGED MenuPages
  BY DEF MenuPages, Paginate
<1>4. ShellTyped'
  <2>1. current' \in 0..views' /\ ended' \subseteq 1..views' /\ viewShown' \in BOOLEAN /\ menuShown' \in BOOLEAN
    <3>1. views' = views /\ views \in Nat /\ current \in 0..views /\ ended \subseteq 1..views
      BY DEF ShellInv, ShellTyped
    <3>2. viewShown \in BOOLEAN /\ menuShown \in BOOLEAN
      BY DEF ShellInv, ShellTyped
    <3>3. CASE current' = current /\ viewShown' = viewShown /\ menuShown' = menuShown /\ ended' = ended
      BY <3>1, <3>2, <3>3
    <3>4. CASE /\ current # NoView
               /\ current' = NoView /\ viewShown' = FALSE /\ menuShown' = TRUE /\ ended' = ended \union {current}
      <4>1. current \in 1..views
        BY <3>1, <3>4 DEF NoView
      <4>2. ended' \subseteq 1..views'
        BY <3>1, <3>4, <4>1
      <4>3. current' \in 0..views'
        BY <3>1, <3>4 DEF NoView
      <4>4. QED
        BY <3>4, <4>2, <4>3
    <3>5. QED
      BY <1>1, <3>3, <3>4
  <2>2. QED
    BY <1>2, <1>3, <2>1 DEF ShellInv, ShellTyped
<1>5. ShellTypeOK'
  BY <1>1, <1>3, <1>4 DEF ShellInv, ShellTypeOK, ShellTyped
<1>6. NoViewIsOrphaned'
  BY <1>1 DEF ShellInv, NoViewIsOrphaned, ShellTyped
<1>7. OverItsPage' /\ NothingEarly'
  BY <1>1, <1>2 DEF ShellInv, OverItsPage, NothingEarly
<1>8. viewShown /\ ~viewShown' => menuShown' /\ page' = origin
  BY <1>1 DEF ShellInv, OverItsPage
<1>9. QED
  BY <1>4, <1>5, <1>6, <1>7, <1>8 DEF ShellInv

\* What an opening step leaves satisfies the invariant.
LEMMA OpeningKeeps ==
  ASSUME ShellInv, OpenView, phase # "loading",
         calls' = calls \/ (calls # <<>> /\ calls' = Tail(calls))
  PROVE  ShellInv' /\ (viewShown /\ ~viewShown' => menuShown' /\ page' = origin)
<1>1. /\ views' = views + 1 /\ current' = views + 1 /\ viewShown' = TRUE /\ menuShown' = FALSE
      /\ ended' = 1..views /\ hud' = FALSE /\ origin' = page /\ page' = page /\ phase' = phase
  BY OpeningAView
<1>2. /\ calls' \in Seq([what : {"open", "close"}, view : Nat])
      /\ \A i \in 1..Len(calls') : calls'[i].view \in 0..views'
  <2>1. views \in Nat /\ calls \in Seq([what : {"open", "close"}, view : Nat]) /\ \A i \in 1..Len(calls) : calls[i].view \in 0..views
    BY DEF ShellInv, ShellTyped
  <2>2. \A i \in 1..Len(calls) : calls[i].view \in 0..views'
    BY <1>1, <2>1
  <2>3. CASE calls' = calls
    BY <2>1, <2>2, <2>3
  <2>4. CASE calls # <<>> /\ calls' = Tail(calls)
    BY <2>1, <2>2, <2>4
  <2>5. QED
    BY <2>3, <2>4
<1>3. UNCHANGED MenuPages
  BY DEF MenuPages, Paginate
<1>4. ShellTyped'
  <2>1. views \in Nat /\ page \in 1..MenuPages /\ MenuPages \in Nat /\ phase \in {"loading", "running", "failed", "closed"}
    BY DEF ShellInv, ShellTyped
  <2>2. views' \in Nat /\ current' \in 0..views' /\ ended' \subseteq 1..views'
    BY <1>1, <2>1
  <2>3. menuShown' \in BOOLEAN /\ viewShown' \in BOOLEAN /\ hud' \in BOOLEAN
    BY <1>1
  <2>4. QED
    BY <1>1, <1>2, <1>3, <2>1, <2>2, <2>3 DEF ShellTyped
<1>5. ShellTypeOK'
  BY <1>1, <1>3, <1>4 DEF ShellInv, ShellTypeOK, ShellTyped
<1>6. NoViewIsOrphaned'
  BY <1>1 DEF ShellInv, NoViewIsOrphaned, ShellTyped, NoView
<1>7. OverItsPage' /\ NothingEarly'
  BY <1>1 DEF ShellInv, OverItsPage, NothingEarly
<1>8. QED
  BY <1>1, <1>4, <1>5, <1>6, <1>7 DEF ShellInv

-----------------------------------------------------------------------------
(* Every step *)

\* Nothing is on the screen before the runtime is there, and the menu starts
\* at its first page.
LEMMA InitializingKeeps ==
  ASSUME ShellInv, InitializeRuntime
  PROVE  ShellInv' /\ (viewShown /\ ~viewShown' => menuShown' /\ page' = origin)
<1>1. UNCHANGED MenuPages
  BY DEF MenuPages, Paginate
<1>2. MenuPages \in Nat /\ 1 \in 1..MenuPages
  BY DEF ShellInv, ShellTyped
<1>3. page' \in 1..MenuPages
  BY <1>2 DEF InitializeRuntime, ShellInv, ShellTyped
<1>4. ShellTyped'
  BY <1>1, <1>2, <1>3 DEF InitializeRuntime, ShellInv, ShellTyped
<1>5. ShellTypeOK' /\ NoViewIsOrphaned'
  BY <1>1, <1>3 DEF InitializeRuntime, ShellInv, ShellTypeOK, NoViewIsOrphaned
<1>6. OverItsPage' /\ NothingEarly' /\ viewShown' = viewShown
  BY DEF InitializeRuntime, ShellInv, OverItsPage, NothingEarly
<1>7. QED
  BY <1>4, <1>5, <1>6 DEF ShellInv

\* What the face's and the menu's gestures do: no view is there.
LEMMA GesturesKeep ==
  ASSUME ShellInv, NEW stroke, FaceReleased(stroke) \/ MenuReleased(stroke)
  PROVE  ShellInv' /\ (viewShown /\ ~viewShown' => menuShown' /\ page' = origin)
<1>1. UNCHANGED MenuPages
  BY DEF MenuPages, Paginate
<1>2. MenuPages \in Nat /\ page \in 1..MenuPages /\ menuShown \in BOOLEAN /\ hud \in BOOLEAN
  BY DEF ShellInv, ShellTyped
<1>3. /\ ~viewShown /\ ~viewShown' /\ UNCHANGED <<phase, current, viewShown, views, ended, origin, calls>>
      /\ page' \in 1..MenuPages /\ menuShown' \in BOOLEAN /\ hud' \in BOOLEAN
      /\ menuShown' => ~hud'
  <2>1. CASE FaceReleased(stroke)
    <3>1. ~viewShown /\ ~menuShown /\ UNCHANGED <<phase, current, viewShown, views, ended, origin, calls>>
      BY <2>1 DEF FaceReleased, OnFace, StillOpen
    <3>2. \/ menuShown' = TRUE /\ page' = 1 /\ hud' = FALSE
          \/ hud' = ~hud /\ UNCHANGED <<menuShown, page>>
      BY <2>1 DEF FaceReleased
    <3>3. CASE menuShown' = TRUE /\ page' = 1 /\ hud' = FALSE
      <4>1. page' \in 1..MenuPages
        BY <1>2, <3>3
      <4>2. QED
        BY <3>1, <3>3, <4>1
    <3>4. CASE hud' = ~hud /\ UNCHANGED <<menuShown, page>>
      BY <1>2, <3>1, <3>4
    <3>5. QED
      BY <3>2, <3>3, <3>4
  <2>2. CASE MenuReleased(stroke)
    <3>1. ~viewShown /\ menuShown /\ hud' = hud /\ UNCHANGED <<phase, current, viewShown, views, ended, origin, calls>>
      BY <2>2 DEF MenuReleased, OnMenu, StillOpen
    <3>2. ~hud
      BY <3>1 DEF ShellInv, ShellTypeOK
    <3>3. \/ page < PageCount /\ page' = page + 1 /\ menuShown' = menuShown
          \/ page > 1 /\ page' = page - 1 /\ menuShown' = menuShown
          \/ menuShown' = FALSE /\ page' = page
      BY <2>2 DEF MenuReleased
    <3>4. page' \in 1..MenuPages
      BY <1>2, <3>3 DEF PageCount
    <3>5. menuShown' \in BOOLEAN
      BY <1>2, <3>3
    <3>6. QED
      BY <1>2, <3>1, <3>2, <3>4, <3>5
  <2>3. QED
    BY <2>1, <2>2
<1>4. ShellTyped'
  BY <1>1, <1>2, <1>3 DEF ShellInv, ShellTyped
<1>5. ShellTypeOK' /\ NoViewIsOrphaned'
  BY <1>1, <1>3 DEF ShellInv, ShellTypeOK, NoViewIsOrphaned
<1>6. OverItsPage' /\ NothingEarly'
  BY <1>3 DEF ShellInv, OverItsPage, NothingEarly
<1>7. QED
  BY <1>3, <1>4, <1>5, <1>6 DEF ShellInv

\* A call that is posted names a view that was made.
LEMMA PostingKeeps ==
  ASSUME ShellInv, ModeOpens \/ \E v \in 1..views : ModeCloses(v)
  PROVE  ShellInv' /\ (viewShown /\ ~viewShown' => menuShown' /\ page' = origin)
<1>1. PICK call \in [what : {"open", "close"}, view : Nat] :
        /\ PostCall(call) /\ call.view \in 0..views
        /\ UNCHANGED <<phase, menuShown, hud, page, current, viewShown, views, ended, origin>>
  <2>1. views \in Nat
    BY DEF ShellInv, ShellTyped
  <2>2. CASE ModeOpens
    <3> DEFINE c == [what |-> "open", view |-> NoView]
    <3>1. c \in [what : {"open", "close"}, view : Nat] /\ c.view \in 0..views
      BY <2>1 DEF NoView
    <3>2. PostCall(c) /\ UNCHANGED <<phase, menuShown, hud, page, current, viewShown, views, ended, origin>>
      BY <2>2 DEF ModeOpens, StillOpen
    <3> HIDE DEF c
    <3>3. QED
      BY <3>1, <3>2
  <2>3. CASE \E v \in 1..views : ModeCloses(v)
    <3>1. PICK v \in 1..views : ModeCloses(v)
      BY <2>3
    <3> DEFINE c == [what |-> "close", view |-> v]
    <3>2. c \in [what : {"open", "close"}, view : Nat] /\ c.view \in 0..views
      BY <2>1, <3>1
    <3>3. PostCall(c) /\ UNCHANGED <<phase, menuShown, hud, page, current, viewShown, views, ended, origin>>
      BY <3>1 DEF ModeCloses, StillOpen
    <3> HIDE DEF c
    <3>4. QED
      BY <3>2, <3>3
  <2>4. QED
    BY <2>2, <2>3
<1>2. UNCHANGED MenuPages
  BY DEF MenuPages, Paginate
<1>3. /\ calls' \in Seq([what : {"open", "close"}, view : Nat])
      /\ \A i \in 1..Len(calls') : calls'[i].view \in 0..views
  <2>1. calls \in Seq([what : {"open", "close"}, view : Nat]) /\ \A i \in 1..Len(calls) : calls[i].view \in 0..views
    BY DEF ShellInv, ShellTyped
  <2>2. calls' = Append(calls, call)
    BY <1>1 DEF PostCall
  <2>3. QED
    BY <1>1, <2>1, <2>2
<1>4. ShellTyped'
  BY <1>1, <1>2, <1>3 DEF ShellInv, ShellTyped
<1>5. ShellTypeOK' /\ NoViewIsOrphaned'
  BY <1>1, <1>2 DEF ShellInv, ShellTypeOK, NoViewIsOrphaned
<1>6. OverItsPage' /\ NothingEarly'
  BY <1>1 DEF ShellInv, OverItsPage, NothingEarly, PostCall
<1>7. QED
  BY <1>1, <1>4, <1>5, <1>6 DEF ShellInv

\* A callback that Qt's thread runs opens a view or closes the one it names.
LEMMA CallbacksKeep ==
  ASSUME ShellInv, RunCallback
  PROVE  ShellInv' /\ (viewShown /\ ~viewShown' => menuShown' /\ page' = origin)
<1>1. calls # <<>> /\ calls' = Tail(calls) /\ calls[1].view \in 0..views /\ phase # "loading"
  BY DEF RunCallback, ShellInv, ShellTyped, NothingEarly
<1>2. CASE calls[1].what = "open"
  <2>1. OpenView
    BY <1>2 DEF RunCallback
  <2>2. QED
    BY <1>1, <2>1, OpeningKeeps
<1>3. CASE calls[1].what # "open"
  <2>1. Becomes(CloseView(Screen, calls[1].view)) /\ UNCHANGED <<phase, hud, page, views, origin>>
    BY <1>3 DEF RunCallback
  <2>2. QED
    BY <1>1, <2>1, ClosingKeeps
<1>4. QED
  BY <1>2, <1>3

\* Every step keeps the invariant, and the view that goes leads to its page.
LEMMA ShellSteps ==
  ASSUME ShellInv, [ShellNext]_shellVars
  PROVE  ShellInv' /\ (viewShown /\ ~viewShown' => menuShown' /\ page' = origin)
<1>1. CASE InitializeRuntime
  BY <1>1, InitializingKeeps
<1>2. CASE SelectFeature
  BY <1>2, OpeningKeeps DEF SelectFeature
<1>3. CASE ModeOpens \/ \E v \in 1..views : ModeCloses(v)
  BY <1>3, PostingKeeps
<1>4. CASE RunCallback
  BY <1>4, CallbacksKeep
<1>5. CASE CloseCurrent \/ Shutdown
  <2>1. current \in 0..views /\ Becomes(CloseView(Screen, current)) /\ UNCHANGED <<hud, page, views, origin, calls>>
    BY <1>5 DEF CloseCurrent, Shutdown, ShellInv, ShellTyped
  <2>2. phase' = phase \/ phase' = "closed"
    BY <1>5 DEF CloseCurrent, Shutdown
  <2>3. QED
    BY <2>1, <2>2, ClosingKeeps
<1>6. CASE \E stroke \in Strokes : FaceReleased(stroke) \/ MenuReleased(stroke)
  BY <1>6, GesturesKeep
<1>7. CASE UNCHANGED shellVars
  <2>1. UNCHANGED MenuPages /\ viewShown' = viewShown
    BY <1>7 DEF shellVars, MenuPages, Paginate
  <2>2. QED
    BY <1>7, <2>1 DEF shellVars, ShellInv, ShellTyped, ShellTypeOK, NoViewIsOrphaned, OverItsPage, NothingEarly
<1>8. QED
  BY <1>1, <1>2, <1>3, <1>4, <1>5, <1>6, <1>7 DEF ShellNext

\* No view is lost behind the screen however openings and closings interleave,
\* every view leads back to the page it was opened over, and the pages hold
\* every item of a catalog of any length once.
THEOREM ShellKeepsItsViews == ShellSpec => ShellKeepsViews
<1>1. ShellInit => ShellInv
  <2> SUFFICES ASSUME ShellInit PROVE ShellInv
    OBVIOUS
  <2>1. MenuPages \in Nat \ {0}
    BY PagesAre, ShellConstants DEF MenuPages
  <2>2. ShellTyped
    <3>1. /\ phase = "loading" /\ menuShown = FALSE /\ viewShown = FALSE /\ hud = FALSE /\ page = 1
          /\ current = 0 /\ views = 0 /\ ended = {} /\ calls = <<>>
      BY DEF ShellInit, HostStarts, NoView
    <3>2. page \in 1..MenuPages /\ MenuPages \in Nat
      BY <2>1, <3>1
    <3>3. calls \in Seq([what : {"open", "close"}, view : Nat]) /\ \A i \in 1..Len(calls) : calls[i].view \in 0..views
      BY <3>1
    <3>4. current \in 0..views /\ ended \subseteq 1..views
      BY <3>1
    <3>5. QED
      BY <3>1, <3>2, <3>3, <3>4 DEF ShellTyped
  <2>3. ShellTypeOK /\ NoViewIsOrphaned
    BY <2>1 DEF ShellInit, HostStarts, ShellTypeOK, NoViewIsOrphaned, NoView
  <2>4. QED
    BY <2>2, <2>3 DEF ShellInit, HostStarts, ShellInv, OverItsPage, NothingEarly
<1>2. ShellInv /\ [ShellNext]_shellVars => ShellInv'
  BY ShellSteps
<1>3. ShellInv /\ [ShellNext]_shellVars => [viewShown /\ ~viewShown' => menuShown' /\ page' = origin]_shellVars
  BY ShellSteps
<1>4. EveryItemHasOnePage
  <2>1. \A items \in {1, Capacity - 1, Capacity, Capacity + 1, MenuItems} : items \in Nat \ {0}
    BY ShellConstants DEF Capacity
  <2>2. QED
    BY <2>1, PagesHold DEF EveryItemHasOnePage
<1>5. ShellInv => ShellTypeOK /\ NoViewIsOrphaned
  BY DEF ShellInv
<1>6. QED
  BY <1>1, <1>2, <1>3, <1>4, <1>5, PTL DEF ShellSpec, ShellKeepsViews, ReturnsToItsPage
=============================================================================
