------------------------------- MODULE KioskShell -------------------------------
(* The one screen: the face, the pages of the menu, and one hosted view on    *)
(* top.  All of it runs on Qt's thread; what other threads want is posted.    *)
EXTENDS Naturals, Sequences, SequencesExt, FiniteSets

CONSTANTS MenuItems, MaxViews, MaxCalls  \* items of the catalog; bounds on the model
ASSUME ShellConstants == MenuItems \in Nat \ {0}

Capacity == 15

\* the items of a page are those from its offset on, and every page has one
Paginate(items) ==
    {[number |-> 1 + (offset \div Capacity),
      items |-> {i \in 1..items : i > offset /\ i <= offset + Capacity}] :
        offset \in {n \in 0..(items - 1) : n % Capacity = 0}}
MenuPages == Cardinality(Paginate(MenuItems))

VARIABLES phase,        \* of run_qt_application: the runtime's box and the shutdown
          menuShown, hud, page,
          current, viewShown,  \* the host's view, and whether the controller shows one
          views, ended,  \* views made so far; those closed
          origin,       \* the page the view was opened over
          calls         \* callbacks posted to Qt's thread

shellVars == <<phase, menuShown, hud, page, current, viewShown, views, ended, origin, calls>>

NoView == 0
PageCount == IF phase \in {"running", "closed"} THEN MenuPages ELSE 0

HostStarts == current = NoView /\ views = 0 /\ ended = {} /\ origin = 1 /\ calls = <<>>

ShellInit == phase = "loading" /\ menuShown = FALSE /\ viewShown = FALSE /\ hud = FALSE /\ page = 1 /\ HostStarts

\* the catalog starts again at its first page
InitializeRuntime ==
    /\ phase = "loading" /\ phase' \in {"running", "failed"}
    /\ page' = IF phase' = "running" THEN 1 ELSE page
    /\ UNCHANGED <<menuShown, hud, current, viewShown, views, ended, origin, calls>>

OnFace == phase # "closed" /\ ~menuShown /\ ~viewShown
OnMenu == phase # "closed" /\ menuShown /\ ~viewShown
StillOpen == <<current, viewShown, views, ended, origin>>

\* a press and its release: tap, swipe, or neither
Gesture(dx, dy) ==
    LET across == IF dx < 0 THEN 0 - dx ELSE dx
        along == IF dy < 0 THEN 0 - dy ELSE dy
    IN IF across <= 24 /\ along <= 24 THEN "tap"
       ELSE IF across >= 60 /\ across > along THEN IF dx < 0 THEN "swipe_left" ELSE "swipe_right"
       ELSE "other"
Strokes == {<<0, 0>>, <<24, 24>>, <<0 - 60, 59>>, <<60, 0>>, <<0 - 60, 60>>, <<25, 0>>}

FaceReleased(stroke) ==
    LET gesture == Gesture(stroke[1], stroke[2]) IN
    /\ OnFace /\ UNCHANGED <<phase, StillOpen, calls>>
    /\ \/ gesture = "swipe_left" /\ menuShown' = TRUE /\ page' = 1 /\ hud' = FALSE
       \/ gesture = "tap" /\ hud' = ~hud /\ UNCHANGED <<menuShown, page>>

\* left to the next page, right back and in the end to the face
MenuReleased(stroke) ==
    LET gesture == Gesture(stroke[1], stroke[2]) IN
    /\ OnMenu /\ UNCHANGED <<phase, hud, StillOpen, calls>>
    /\ \/ gesture = "swipe_left" /\ page < PageCount /\ page' = page + 1 /\ UNCHANGED menuShown
       \/ gesture = "swipe_right" /\ page > 1 /\ page' = page - 1 /\ UNCHANGED menuShown
       \/ gesture = "swipe_right" /\ page = 1 /\ menuShown' = FALSE /\ UNCHANGED page
       \/ gesture = "tap" /\ menuShown' = FALSE /\ UNCHANGED page

-----------------------------------------------------------------------------
(* Views.  What a step leaves shown is <<current, viewShown, menuShown>>.     *)

Screen == [current |-> current, view |-> viewShown, menu |-> menuShown, ended |-> ended]
Becomes(s) == current' = s.current /\ viewShown' = s.view /\ menuShown' = s.menu /\ ended' = s.ended

\* only the view that is there is dismissed, back to the menu
Dismiss(s, v) ==
    IF s.current # v THEN s ELSE [s EXCEPT !.current = NoView, !.view = FALSE, !.menu = s.view \/ s.menu]

\* a view closes once
CloseView(s, v) == IF v \in s.ended \/ v = NoView THEN s ELSE Dismiss([s EXCEPT !.ended = @ \union {v}], v)

\* whatever was there is closed before
\* slip: the view presented before is forgotten, not closed
PresentOver(s, v) == [s EXCEPT !.current = v, !.view = TRUE, !.menu = FALSE]

PresentView(s, v) == [CloseView(s, s.current) EXCEPT !.current = v, !.view = TRUE, !.menu = FALSE]

OpenView ==
    /\ views < MaxViews /\ views' = views + 1 /\ Becomes(PresentView(Screen, views + 1)) /\ hud' = FALSE
    /\ origin' = page /\ UNCHANGED <<phase, page>>

\* features open at once; modes by the worker, which posts the opening
SelectFeature == phase = "running" /\ OnMenu /\ OpenView /\ UNCHANGED calls
PostCall(call) == Len(calls) < MaxCalls /\ phase = "running" /\ calls' = Append(calls, call)
ModeOpens ==
    PostCall([what |-> "open", view |-> NoView]) /\ UNCHANGED <<phase, menuShown, hud, page, StillOpen>>
ModeCloses(v) ==
    /\ v \in 1..views \ ended /\ PostCall([what |-> "close", view |-> v])
    /\ UNCHANGED <<phase, menuShown, hud, page, StillOpen>>

RunCallback ==
    /\ phase # "closed" /\ calls # <<>> /\ calls' = Tail(calls)
    /\ IF calls[1].what = "open" THEN OpenView
       ELSE Becomes(CloseView(Screen, calls[1].view)) /\ UNCHANGED <<phase, hud, page, views, origin>>

CloseCurrent ==
    /\ phase # "closed" /\ current # NoView /\ Becomes(CloseView(Screen, current))
    /\ UNCHANGED <<phase, hud, page, views, origin, calls>>

\* the runtime first, whose modes post what nobody will run; then the view
Shutdown ==
    /\ phase \in {"loading", "running", "failed"} /\ phase' = "closed"
    /\ Becomes(CloseView(Screen, current)) /\ UNCHANGED <<hud, page, views, origin, calls>>

ShellNext ==
    \/ InitializeRuntime \/ SelectFeature \/ ModeOpens \/ RunCallback \/ CloseCurrent \/ Shutdown
    \/ \E stroke \in Strokes : FaceReleased(stroke) \/ MenuReleased(stroke)
    \/ \E v \in 1..views : ModeCloses(v)

ShellSpec == ShellInit /\ [][ShellNext]_shellVars

-----------------------------------------------------------------------------
(* Properties *)

\* One surface at a time, and the page is one of the catalog's.
ShellTypeOK ==
    /\ ~(menuShown /\ viewShown) /\ (menuShown \/ viewShown => ~hud)
    /\ page \in 1..MenuPages /\ current \in 0..views /\ ended \subseteq 1..views

\* However openings and closings of the features, the modes and the user
\* interleave, the view that is shown is the host's, and every other view that
\* was ever opened has been closed: none keeps its timers behind the screen,
\* and none survives the shutdown.
NoViewIsOrphaned == (viewShown <=> current # NoView) /\ 1..views \ ended = {current} \ {NoView}

\* Leaving a view leads back to the page of the menu it was opened over.
ReturnsToItsPage ==
    [][viewShown /\ ~viewShown' => menuShown' /\ page' = origin]_shellVars

\* The pages hold every item once, in pages that follow one another.
EveryItemHasOnePage ==
    \A items \in {1, Capacity - 1, Capacity, Capacity + 1, MenuItems} :
        /\ \A i \in 1..items : Cardinality({p \in Paginate(items) : i \in p.items}) = 1
        /\ {p.number : p \in Paginate(items)} = 1..Cardinality(Paginate(items))
        /\ \A p \in Paginate(items) : p.items # {} /\ Cardinality(p.items) <= Capacity

\* What the shell promises of views: none is lost, and each leads back.
ShellKeepsViews == [](ShellTypeOK /\ NoViewIsOrphaned /\ EveryItemHasOnePage) /\ ReturnsToItsPage
=============================================================================
