------------------------------ MODULE RelayFeed ------------------------------
(* What the relay view shows of the events the receiver holds: the newest     *)
(* window of them, reactions folded into badges, and the attachments that     *)
(* could be published into the kiosk's media folders.  Events arrive in any   *)
(* order; their number is their place in source time.  Text, names and media  *)
(* categories are left out, and a message has one attachment.                 *)
EXTENDS Integers, FiniteSets

CONSTANTS LastEvent,   \* events 1..LastEvent may arrive
          Slot,        \* reaction slots: a part of a message and who reacts to it
          FeedWindow   \* the limit recent_items gives recent_events
ASSUME FeedConstants == LastEvent \in Nat /\ FeedWindow \in Nat

Event == 1..LastEvent
EventKind == {[kind |-> "message"]}
             \union [kind : {"added", "removed"}, slot : Slot]

VARIABLES kindOf,     \* what each event is
          held,       \* received_events
          whole,      \* messages whose attachment is complete in the private store
          file,       \* the published file of each message's attachment
          copying,    \* a message whose attachment _atomic_copy has begun to copy, or 0
          offered,    \* attachments the last refresh called available
          checkpoint  \* the total a caller of new_message_count keeps

relayFeedVars == <<kindOf, held, whole, file, copying, offered, checkpoint>>

RelayFeedInit ==
    /\ kindOf \in [Event -> EventKind]
    /\ held = {} /\ whole = {} /\ file = [e \in Event |-> "absent"]
    /\ copying = 0 /\ offered = {} /\ checkpoint = 0

Message(e) == kindOf[e].kind = "message"

\* received_message_count and new_message_count: a replaced store counts from 0
MessageCount == Cardinality({e \in held : Message(e)})
NewMessages == IF MessageCount > checkpoint THEN MessageCount - checkpoint ELSE 0

\* recent_events: the newest in source time
RecentEvents == {e \in held : Cardinality({d \in held : d > e}) < FeedWindow}

\* slip: a removal does not settle its slot
FoldAdditions(seen, e) ==
    IF Message(e) \/ kindOf[e].kind = "removed" THEN seen
    ELSE [seen EXCEPT !.badges = @ \union {kindOf[e].slot}]

\* recent_items: the first event met of a slot decides it
FoldReaction(seen, e) ==
    IF Message(e) \/ kindOf[e].slot \in seen.resolved THEN seen
    ELSE [resolved |-> seen.resolved \union {kindOf[e].slot},
          badges |-> IF kindOf[e].kind = "removed" THEN seen.badges
                     ELSE seen.badges \union {kindOf[e].slot}]

\* the newest event is met first
Badges ==
    LET met[n \in 0..LastEvent] ==
            IF n = 0 THEN [resolved |-> {}, badges |-> {}]
            ELSE IF LastEvent + 1 - n \in RecentEvents THEN FoldReaction(met[n - 1], LastEvent + 1 - n)
            ELSE met[n - 1]
    IN  met[LastEvent].badges

Shown == {e \in RecentEvents : Message(e)}

-----------------------------------------------------------------------------
\* the receiver promotes an event whose attachment is complete
Ingest(e) ==
    /\ e \notin held
    /\ held' = held \union {e}
    /\ whole' = IF Message(e) THEN whole \union {e} ELSE whole
    /\ UNCHANGED <<kindOf, file, copying, offered, checkpoint>>

\* the store is replaced by an empty one
StoreReset ==
    /\ held # {} /\ copying = 0
    /\ held' = {} /\ whole' = {}
    /\ UNCHANGED <<kindOf, file, copying, offered, checkpoint>>

Withdraw(e) == offered' = offered \ {e} /\ UNCHANGED <<file, copying>>

\* a file that is there must have the digest; else it is linked, or, across file
\* systems, copied
PublishFile(e) ==
    \/ file[e] = "absent" /\ file' = [file EXCEPT ![e] = "intact"]
       /\ offered' = offered \union {e} /\ UNCHANGED copying
    \/ file[e] = "absent" /\ copying' = e /\ UNCHANGED <<file, offered>>
    \/ file[e] = "intact" /\ offered' = offered \union {e} /\ UNCHANGED <<file, copying>>
    \/ file[e] = "other" /\ Withdraw(e)

\* each attachment the window shows, complete in the private store or not
Publish(e) ==
    /\ e \in Shown /\ copying = 0
    /\ IF e \in whole THEN PublishFile(e) ELSE Withdraw(e)
    /\ UNCHANGED <<kindOf, held, whole, checkpoint>>

\* _atomic_copy ends: the verified temporary file replaces the destination
Copied ==
    /\ copying # 0 /\ copying' = 0
    /\ file' = [file EXCEPT ![copying] = "intact"]
    /\ offered' = offered \union {copying}
    /\ UNCHANGED <<kindOf, held, whole, checkpoint>>

\* the copy fails, or the kiosk stops during it: only a temporary file is left
CopyFails ==
    /\ copying # 0 /\ copying' = 0
    /\ offered' = offered \ {copying}
    /\ UNCHANGED <<kindOf, held, whole, file, checkpoint>>

\* somebody puts another file in its place, or takes it away
Meddle(e) ==
    /\ file[e] # "absent" \/ e \in offered
    /\ \E f \in {"absent", "other"} \ {file[e]} : file' = [file EXCEPT ![e] = f]
    /\ UNCHANGED <<kindOf, held, whole, copying, offered, checkpoint>>

CountSeen ==
    /\ checkpoint' = MessageCount /\ checkpoint' # checkpoint
    /\ UNCHANGED <<kindOf, held, whole, file, copying, offered>>

RelayFeedNext ==
    \/ \E e \in Event : Ingest(e) \/ Publish(e) \/ Meddle(e)
    \/ StoreReset \/ Copied \/ CopyFails \/ CountSeen

RelayFeedSpec == RelayFeedInit /\ [][RelayFeedNext]_relayFeedVars

-----------------------------------------------------------------------------
(* Properties *)

\* What the state is made of.
RelayFeedTypeOK ==
    /\ kindOf \in [Event -> EventKind]
    /\ held \subseteq Event /\ whole \subseteq Event /\ offered \subseteq Event
    /\ file \in [Event -> {"absent", "intact", "other"}]
    /\ copying \in Event \union {0} /\ checkpoint \in 0..LastEvent
    /\ NewMessages \in 0..LastEvent

LatestOf(s) ==
    LET about == {e \in held : ~Message(e) /\ kindOf[e].slot = s}
    IN  {e \in about : \A d \in about : d <= e}

\* A reaction is shown exactly when the latest event of its slot is inside the
\* window and added it, in whatever order its additions and removals arrived.
BadgesAreLatest ==
    Badges = {s \in Slot : \E e \in LatestOf(s) :
                  kindOf[e].kind = "added" /\ e \in RecentEvents}

\* An attachment becomes available only with its own bytes in the folder, after
\* any interrupted copy and any file somebody put in its place.
OfferedIsIntact ==
    [][\A e \in offered' \ offered : file'[e] = "intact"]_relayFeedVars

\* What the message view is told: the reactions of now, and whole attachments.
FeedIsHonest == [](RelayFeedTypeOK /\ BadgesAreLatest) /\ OfferedIsIntact
=============================================================================
