------------------------------- MODULE Calendar -------------------------------
(* The calendar's events in their JSON file and the touch view that edits one *)
(* occurrence or the whole series.  Dates are counted in days and an event    *)
(* repeats every so many days; CalendarRules has the real recurrence rules,   *)
(* CalendarAttentions what is published for today.  Names, times and colours  *)
(* are left out.                                                              *)
EXTENDS Naturals, FiniteSets

CONSTANTS EventId, NoEvent, LastDate,
          Forever,  \* the count of a series without one
          Edits     \* what the editor may hold: <<start, every, count>>
ASSUME CalendarConstants ==
    /\ NoEvent \notin EventId /\ LastDate \in Nat /\ Forever \in Nat /\ Forever > LastDate
    /\ Edits \subseteq (0..LastDate) \X Nat \X (1..Forever)

VARIABLES events,     \* CalendarStore._events and events.json, by id
          calendar,   \* QtCalendarView
          scope       \* the scope of the change just made

calendarVars == <<events, calendar, scope>>

Date == 0..LastDate
AnyEdit == CHOOSE edit \in Edits : TRUE
ClosedView == [mode |-> "closed", date |-> 0, chosen |-> NoEvent, ask |-> "none", edit |-> AnyEdit]

CalendarInit == events = <<>> /\ calendar = ClosedView /\ scope = "none"

-----------------------------------------------------------------------------
(* Records and expansion *)

Series(edit) == [start |-> edit[1], every |-> edit[2], count |-> edit[3], excluded |-> {}, parent |-> NoEvent]

\* the rule's own dates: the count includes the excluded ones
Nth(e, d) == IF e.every = 0 THEN 1 ELSE (d - e.start) \div e.every + 1
Follows(e, d) ==
    /\ d >= e.start
    /\ IF e.every = 0 THEN d = e.start ELSE (d - e.start) % e.every = 0
    /\ Nth(e, d) <= e.count
Occurs(e, d) == Follows(e, d) /\ d \notin e.excluded

-----------------------------------------------------------------------------
(* CalendarStore: what each change makes of the events, written in one piece  *)

Fresh == EventId \ DOMAIN events
Put(es, i, e) == [j \in DOMAIN es \union {i} |-> IF j = i THEN e ELSE es[j]]
\* slip: an exclusion replaces the earlier ones
ExcludeLast(i, d) == [events[i] EXCEPT !.excluded = {d}]
Exclude(i, d) == [events[i] EXCEPT !.excluded = @ \union {d}]

Created(edit) == {Put(events, i, Series(edit)) : i \in Fresh}

\* update_series keeps the exclusions and the parent of what it replaces
Updated(i, edit) ==
    {Put(events, i, [Series(edit) EXCEPT !.excluded = events[i].excluded, !.parent = events[i].parent])}

\* override_occurrence: the exclusion and its replacement together
Overridden(i, d, edit) ==
    {Put(Put(events, i, Exclude(i, d)), j, [Series(<<edit[1], 0, Forever>>) EXCEPT !.parent = i]) : j \in Fresh}

Deleted(i) == {[j \in DOMAIN events \ {i} |-> events[j]]}

-----------------------------------------------------------------------------
(* The touch view, on the Qt thread *)

Chosen == calendar.chosen
Repeating(i) == i # NoEvent /\ events[i].every # 0

\* payload drops a selection that does not occur on the selected day any more
Show(v, es) ==
    calendar' = IF v.chosen \in DOMAIN es /\ Occurs(es[v.chosen], v.date) THEN v ELSE [v EXCEPT !.chosen = NoEvent]

Turn(v) == Show(v, events) /\ UNCHANGED <<events, scope>>

\* _clear_scope
Unasked(mode) == [calendar EXCEPT !.mode = mode, !.ask = "none", !.edit = AnyEdit]

OpenCalendar == calendar.mode = "closed" /\ \E d \in Date : Turn([ClosedView EXCEPT !.mode = "day", !.date = d])
CloseCalendar == calendar.mode # "closed" /\ Turn(ClosedView)

\* _move, the month and year pages, and today
GoTo(d) == calendar.mode = "day" /\ Turn([calendar EXCEPT !.date = d, !.chosen = NoEvent])

\* calendar_select
Select(i) ==
    /\ calendar.mode = "day" /\ i \in DOMAIN events /\ Occurs(events[i], calendar.date)
    /\ Turn([calendar EXCEPT !.chosen = i])

\* calendar_add and calendar_edit
Edit(adding) ==
    /\ calendar.mode = "day" /\ (adding \/ Chosen # NoEvent)
    /\ Turn([calendar EXCEPT !.mode = "editor", !.chosen = IF adding THEN NoEvent ELSE @])

\* a change to a repeating event first asks for its scope
Ask(kind, edit) ==
    /\ calendar.mode = IF kind = "save" THEN "editor" ELSE "day"
    /\ Repeating(Chosen)
    /\ Turn([calendar EXCEPT !.mode = "scope", !.ask = kind, !.edit = edit])

\* calendar_cancel_edit and calendar_scope_cancel
CancelEdit ==
    /\ calendar.mode \in {"editor", "scope"}
    /\ Turn(Unasked(IF calendar.ask = "save" THEN "editor" ELSE "day"))

\* a change is written, or it is refused and shows an error
Commit(changes, s, done, refused) ==
    \/ events' \in changes /\ Show(done, events') /\ scope' = s
    \/ Turn(refused)

\* _save_from_menu by way of _save_with_scope
SaveEvent(edit, s, refused) ==
    Commit(IF Chosen = NoEvent THEN Created(edit)
           ELSE IF s = "occurrence" THEN Overridden(Chosen, calendar.date, edit) ELSE Updated(Chosen, edit),
           s, [ClosedView EXCEPT !.mode = "day", !.date = edit[1]], refused)

\* _delete_from_menu by way of _delete_with_scope
DeleteEvent(s) ==
    Commit(IF s = "occurrence" THEN {Put(events, Chosen, Exclude(Chosen, calendar.date))} ELSE Deleted(Chosen),
           s, [ClosedView EXCEPT !.mode = "day", !.date = calendar.date], Unasked("day"))

\* _request_save and _request_delete without a question
ChangeSingle(edit) ==
    /\ ~Repeating(Chosen)
    /\ \/ calendar.mode = "editor" /\ SaveEvent(edit, "series", calendar)
       \/ calendar.mode = "day" /\ Chosen # NoEvent /\ DeleteEvent("series")

\* _complete_scope
CompleteScope(s) ==
    /\ calendar.mode = "scope" /\ Chosen # NoEvent
    /\ \/ calendar.ask = "save" /\ SaveEvent(calendar.edit, s, Unasked("editor"))
       \/ calendar.ask = "delete" /\ DeleteEvent(s)

-----------------------------------------------------------------------------
CalendarNext ==
    \/ OpenCalendar \/ CloseCalendar \/ CancelEdit
    \/ \E d \in Date : GoTo(d)
    \/ \E i \in EventId : Select(i)
    \/ \E adding \in BOOLEAN : Edit(adding)
    \/ \E edit \in Edits : Ask("save", edit) \/ ChangeSingle(edit)
    \/ Ask("delete", AnyEdit)
    \/ \E s \in {"occurrence", "series"} : CompleteScope(s)

CalendarSpec == CalendarInit /\ [][CalendarNext]_calendarVars

-----------------------------------------------------------------------------
(* Properties *)

\* What the state is made of.
CalendarTypeOK ==
    /\ DOMAIN events \subseteq EventId
    /\ \A i \in DOMAIN events :
          events[i] \in [start : Date, every : Nat, count : 1..Forever,
                         excluded : SUBSET Date, parent : EventId \union {NoEvent}]
    /\ calendar.mode \in {"closed", "day", "editor", "scope"} /\ calendar.date \in Date
    /\ calendar.ask \in {"none", "save", "delete"} /\ Chosen \in EventId \union {NoEvent}
    /\ (calendar.mode = "scope") => Chosen # NoEvent /\ calendar.ask # "none"

\* A change to one occurrence takes that date, and no other, from its series,
\* whatever was excluded before and however the series ends; when the change
\* is an edit, the same write holds the occurrence that replaces it.
OneDateChanges ==
    [][events' # events /\ scope' = "occurrence" =>
          LET i == Chosen IN
          /\ \A d \in Date : Occurs(events'[i], d) <=> Occurs(events[i], d) /\ d # calendar.date
          /\ calendar.ask = "save" => \E j \in DOMAIN events' \ DOMAIN events : events'[j].parent = i]_calendarVars

\* A change to the whole series that keeps its rule keeps its other occurrences.
SeriesKeepsItsDates ==
    [][events' # events /\ scope' = "series" /\ calendar.mode = "scope" /\ calendar.ask = "save"
          /\ calendar.edit = <<calendar.date, events[Chosen].every, events[Chosen].count>> =>
          \A d \in Date : Occurs(events[Chosen], d) => Occurs(events'[Chosen], d)]_calendarVars
=============================================================================
