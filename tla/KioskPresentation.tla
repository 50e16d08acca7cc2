--------------------------- MODULE KioskPresentation ---------------------------
(* What the runtime shows through the presentation port: the badge of the     *)
(* attentions that features raise on threads of their own, and the cover of   *)
(* Quiet Hours with its passcode.  The port posts; Qt's thread shows later.   *)
EXTENDS Naturals, Sequences, SequencesExt, Lists

CONSTANTS Notice,               \* attentions, each raised by a thread of its own
          QuietStart, QuietEnd, DayEnd,  \* minutes; a day has DayEnd of them
          QuietDays,            \* days on which a period may begin
          PinLength,
          LastQuietDay, MaxPosted    \* bounds on the model

\* the settings the kiosk starts with: any others are set aside for the defaults
ValidQuietHours ==
    /\ {QuietStart, QuietEnd} \subseteq 0..DayEnd - 1 /\ QuietStart # QuietEnd
    /\ QuietDays # {} /\ PinLength \in Nat \ {0}
ASSUME KioskConstants == ValidQuietHours /\ {DayEnd, LastQuietDay, MaxPosted} \subseteq Nat \ {0}

VARIABLES attentions,           \* runtime_attentions, oldest first
          saying,               \* thread -> the count it took and has not posted
          raised, tangled,      \* what the features hold raised; counts crossed
          answering,            \* the attention being acknowledged
          posted, badge,        \* signals on their way to Qt's thread; the count shown
          clock, unlocked,      \* the time; _unlocked_period
          entered,              \* periods whose passcode was entered
          quietActive, cover, checked,  \* the cover, and whether the time has been checked
          pin, pinError         \* digits: right or wrong in their place

kioskVars == <<attentions, saying, raised, tangled, answering, posted, badge, clock, unlocked,
               entered, quietActive, cover, checked, pin, pinError>>
noticeParts == <<attentions, saying, raised, tangled, answering, badge>>
quietParts == <<clock, unlocked, entered, quietActive, cover, checked, pin, pinError>>

Nothing == [kind |-> "none"]
Count(n) == [kind |-> "count", count |-> n]
Cover(on) == [kind |-> "cover", on |-> on]
CountSignal == [kind : {"count"}, count : Nat]
CoverSignal == [kind : {"cover"}, on : BOOLEAN]
NoPeriod == LastQuietDay + 1

KioskInit ==
    /\ attentions = <<>> /\ saying = [n \in Notice |-> Nothing] /\ raised = {} /\ tangled = FALSE
    /\ answering = Nothing /\ posted = <<>> /\ badge = 0
    /\ clock \in [day : {1}, minute : 0..DayEnd - 1] /\ unlocked = NoPeriod /\ entered = {}
    /\ quietActive = FALSE /\ cover = FALSE /\ checked = FALSE /\ pin = <<>> /\ pinError = FALSE

Posts(signal) == Len(posted) < MaxPosted /\ posted' = Append(posted, signal)

-----------------------------------------------------------------------------
(* Attentions *)

\* the dict without a key
Popped(held, n) == Excluding(held, {n})

\* under the lock; the count is posted once it is given back
HoldCount(n, held) ==
    /\ saying[n] = Nothing /\ attentions' = held /\ saying' = [saying EXCEPT ![n] = Count(Len(held))]
    /\ tangled' = (tangled \/ \E m \in Notice \ {n} : saying[m] # Nothing)
    /\ UNCHANGED <<answering, posted, badge, quietParts>>
RaiseAttention(n) ==
    /\ n \notin raised /\ raised' = raised \union {n}
    /\ HoldCount(n, IF n \in ToSet(attentions) THEN attentions ELSE Append(attentions, n))
DismissAttention(n) ==
    n \in raised /\ raised' = raised \ {n} /\ HoldCount(n, Popped(attentions, n))

PostCount(n) ==
    /\ saying[n] # Nothing /\ Posts(saying[n]) /\ saying' = [saying EXCEPT ![n] = Nothing]
    /\ UNCHANGED <<attentions, raised, tangled, answering, badge, quietParts>>

\* the badge is pressed: the oldest is asked without the lock, and then dropped
AskOldest ==
    /\ answering = Nothing /\ attentions # <<>> /\ ~cover
    /\ answering' = [kind |-> "answer", notice |-> attentions[1], yes |-> attentions[1] \in raised]
    /\ raised' = raised \ {attentions[1]}
    /\ UNCHANGED <<attentions, saying, tangled, posted, badge, quietParts>>
DropOldest ==
    /\ answering # Nothing /\ answering' = Nothing
    /\ attentions' = IF answering.yes THEN Popped(attentions, answering.notice) ELSE attentions
    /\ IF answering.yes THEN Posts(Count(Len(attentions'))) ELSE UNCHANGED posted
    /\ tangled' = (tangled \/ answering.notice \in raised \/ (answering.yes /\ \E m \in Notice : saying[m] # Nothing))
    /\ UNCHANGED <<saying, raised, badge, quietParts>>

-----------------------------------------------------------------------------
(* Quiet Hours *)

\* an overnight period belongs to the day it began on
\* slip: the hours after midnight are taken for a period of their own
NewPeriod == clock.day
\* the period that the hours before QuietEnd belong to
OvernightPeriod == clock.day - 1

ScheduledPeriod ==
    LET now == clock.minute
        began == IF QuietStart < QuietEnd
                 THEN IF QuietStart <= now /\ now < QuietEnd THEN clock.day ELSE NoPeriod
                 ELSE IF now >= QuietStart THEN clock.day
                 ELSE IF now < QuietEnd THEN OvernightPeriod ELSE NoPeriod
    IN IF began \in QuietDays THEN began ELSE NoPeriod
IsLocked == ScheduledPeriod # NoPeriod /\ ScheduledPeriod # unlocked
\* outside a period the unlock is forgotten by whoever asks
AskLocked == unlocked' = IF ScheduledPeriod = NoPeriod THEN NoPeriod ELSE unlocked

TimePasses ==
    /\ clock.day < LastQuietDay \/ clock.minute < DayEnd - 1
    /\ clock' = IF clock.minute < DayEnd - 1 THEN [clock EXCEPT !.minute = @ + 1]
                ELSE [day |-> clock.day + 1, minute |-> 0]
    /\ checked' = FALSE
    /\ UNCHANGED <<noticeParts, posted, unlocked, entered, quietActive, cover, pin, pinError>>

\* once a second, and by every thread that is about to speak
CheckQuietHours ==
    /\ AskLocked /\ quietActive' = IsLocked /\ checked' = TRUE
    /\ Posts(Cover(IsLocked)) /\ UNCHANGED <<noticeParts, clock, entered, cover, pin, pinError>>
AnyoneAsks ==
    AskLocked /\ UNCHANGED <<noticeParts, posted, clock, entered, quietActive, cover, checked, pin, pinError>>

SetQuietHours(on) ==
    /\ cover' = on
    /\ IF on # cover THEN pin' = <<>> /\ pinError' = FALSE ELSE UNCHANGED <<pin, pinError>>

PinAccepted(digits) == FALSE \notin ToSet(digits) /\ ScheduledPeriod # NoPeriod
UnlockQuietHours ==
    /\ unlocked' = ScheduledPeriod /\ entered' = entered \union {ScheduledPeriod} /\ quietActive' = FALSE
    /\ Posts(Cover(FALSE))
QuietPinResult(accepted) ==
    IF accepted THEN SetQuietHours(FALSE) ELSE pin' = <<>> /\ pinError' = TRUE /\ UNCHANGED cover

\* the last digit sends the passcode to the policy
QuietPinDigit(right) ==
    LET digits == Append(pin, right) IN
    /\ cover /\ Len(pin) < PinLength /\ UNCHANGED <<noticeParts, clock, checked>>
    /\ IF Len(digits) < PinLength
       THEN pin' = digits /\ pinError' = FALSE /\ UNCHANGED <<posted, unlocked, entered, quietActive, cover>>
       ELSE /\ QuietPinResult(PinAccepted(digits))
            /\ IF PinAccepted(digits) THEN UnlockQuietHours ELSE UNCHANGED <<posted, unlocked, entered, quietActive>>
QuietPinBackspace ==
    /\ cover /\ pin # <<>> /\ pinError' = FALSE /\ pin' \in {<<>>, Front(pin)}
    /\ UNCHANGED <<noticeParts, posted, clock, unlocked, entered, quietActive, cover, checked>>

\* Qt's thread takes the next signal
ShowPosted ==
    /\ posted # <<>> /\ posted' = Tail(posted)
    /\ IF posted[1].kind = "count"
       THEN badge' = posted[1].count /\ UNCHANGED quietParts
       ELSE SetQuietHours(posted[1].on) /\ UNCHANGED <<badge, clock, unlocked, entered, quietActive, checked>>
    /\ UNCHANGED <<attentions, saying, raised, tangled, answering>>

KioskNext ==
    \/ \E n \in Notice : RaiseAttention(n) \/ DismissAttention(n) \/ PostCount(n)
    \/ AskOldest \/ DropOldest \/ TimePasses \/ CheckQuietHours \/ AnyoneAsks
    \/ \E right \in BOOLEAN : QuietPinDigit(right)
    \/ QuietPinBackspace \/ ShowPosted

KioskSpec == KioskInit /\ [][KioskNext]_kioskVars

-----------------------------------------------------------------------------
(* Properties *)

NoticesTyped ==
    /\ attentions \in Seq(Notice) /\ IsInjective(attentions) /\ badge \in Nat
    /\ saying \in [Notice -> {Nothing} \union CountSignal]
    /\ answering \in {Nothing} \union [kind : {"answer"}, notice : Notice, yes : BOOLEAN]
    /\ raised \subseteq Notice /\ tangled \in BOOLEAN
PostedTyped ==
    posted \in Seq(CountSignal \union CoverSignal) /\ Len(posted) <= MaxPosted
QuietTyped ==
    /\ clock \in [day : 1..LastQuietDay, minute : 0..DayEnd - 1]
    /\ unlocked \in QuietDays \union {NoPeriod} /\ entered \subseteq QuietDays
    /\ quietActive \in BOOLEAN /\ cover \in BOOLEAN /\ checked \in BOOLEAN /\ pinError \in BOOLEAN
    /\ pin \in Seq(BOOLEAN) /\ Len(pin) < PinLength /\ (pin # <<>> => cover)

\* What the state is made of: what has been raised and not answered is held.
KioskTypeOK ==
    /\ NoticesTyped /\ PostedTyped /\ QuietTyped
    /\ ~tangled => raised \subseteq ToSet(attentions)

\* An unlock is good for the whole of the quiet period it was entered in, over
\* midnight too, and for no other: whoever asks in between, the kiosk is locked
\* in a scheduled period exactly when its passcode was not entered.
UnlockIsForOnePeriod == ScheduledPeriod # NoPeriod => (IsLocked <=> ScheduledPeriod \notin entered)

\* When the signals are shown and the time has been checked, the cover is there
\* exactly when the kiosk is locked.
CoverFollowsLock == posted = <<>> /\ checked => cover = IsLocked

AllShown == posted = <<>> /\ answering = Nothing /\ \A n \in Notice : saying[n] = Nothing

\* When everything has been said the badge counts the attentions held, unless
\* two threads took their counts at once.
BadgeIsCurrent == AllShown /\ ~tangled => badge = Len(attentions)

\* ... whatever the threads do: what counts posted after the lock is given back break.
BadgeIsAlwaysCurrent == AllShown => badge = Len(attentions)

\* What the face shows is so: the cover, the badge, and who may use the kiosk.
FaceIsTrue == KioskTypeOK /\ UnlockIsForOnePeriod /\ CoverFollowsLock /\ BadgeIsCurrent
=============================================================================
