--------------------------- MODULE OutboundCommands ---------------------------
(* A message written on the kiosk: the relay view composes and confirms it,   *)
(* the coordinator's gate holds one command until it is confirmed, a thread   *)
(* of its own submits it through the client, whose store keeps one durable    *)
(* row per command.  The phone and the network are external.  Commands are    *)
(* identifiers: what they say, the signing and the encoding are left out.     *)
EXTENDS Naturals, FiniteSets

CONSTANTS Cmd,      \* command ids, each made for one draft
          Media,    \* those that carry media to be staged first
          NoCmd,
          MaxAttempts   \* bounds record_attempt

ASSUME OutboundConstants == NoCmd \notin Cmd /\ Media \subseteq Cmd /\ MaxAttempts \in Nat

VARIABLES row,        \* outbound_commands.state, "none" without a row
          attempts,   \* attempt_count
          unresolved, \* commands with an attempt no answer of the phone has followed
          gate,       \* OutboundConfirmationGate._pending
          lapsed,     \* the clock has passed its expires_at
          shown,      \* the confirmation the view holds
          composing,  \* the view has a composer open
          job,        \* the submission in progress: [pc, cmd, ui]
          told,       \* OutboundTextCoordinator._status
          stage,      \* "open", "closing" (coordinator closed), "closed" (client too)
          wire,       \* submit requests the network still holds
          phone       \* the phone's own record of each command

store == <<row, attempts, unresolved>>
view == <<shown, composing>>
outboundVars == <<store, gate, lapsed, view, job, told, stage, wire, phone>>

RowState == {"queued", "executing", "sent", "failed", "uncertain"}
Terminal == {"sent", "failed"}
NoJob == [pc |-> "idle", cmd |-> NoCmd, ui |-> FALSE]
Told(s, c) == [state |-> s, cmd |-> c]

OutboundInit ==
    /\ row = [c \in Cmd |-> "none"] /\ attempts = [c \in Cmd |-> 0] /\ unresolved = {}
    /\ gate = NoCmd /\ lapsed = FALSE
    /\ shown = NoCmd /\ composing = FALSE
    /\ job = NoJob /\ told = Told("idle", NoCmd) /\ stage = "open"
    /\ wire = {} /\ phone = [c \in Cmd |-> "none"]

-----------------------------------------------------------------------------
(* The view, on the Qt thread *)

\* _open_new_message and _open_reply
OpenComposer ==
    /\ ~composing /\ shown = NoCmd
    /\ composing' = TRUE
    /\ UNCHANGED <<store, gate, lapsed, shown, job, told, stage, wire, phone>>

\* an expired confirmation counts as none and is discarded where it is met
PendingNow == IF lapsed THEN NoCmd ELSE gate

Hold(c) == gate' = c /\ lapsed' = (c # NoCmd /\ c = gate /\ lapsed)

\* prepare_text: a new command for the draft, unless a live one is held
PrepareText(c) ==
    /\ row[c] = "none" /\ c \notin {gate, shown, told.cmd} \union Media
    /\ PendingNow = NoCmd
    /\ gate' = c /\ lapsed' = FALSE /\ told' = Told("awaiting_confirmation", c)

\* _review_text
Review ==
    /\ composing /\ stage = "open" /\ job.pc = "idle"
    /\ \E c \in Cmd : PrepareText(c) /\ shown' = c
    /\ composing' = FALSE
    /\ UNCHANGED <<store, job, stage, wire, phone>>

\* confirm of the gate: it gives its command up once, and an expired one never
GateConfirms(c) ==
    /\ gate = c /\ ~lapsed
    /\ Hold(NoCmd)

\* confirm of the coordinator: the submission gets a thread of its own
Submit(c) ==
    /\ GateConfirms(c)
    /\ job' = [pc |-> "enqueue", cmd |-> c, ui |-> TRUE]
    /\ told' = Told("submitting", c)

\* _confirm; after a refusal the view goes on showing what it showed
Confirm ==
    /\ shown # NoCmd /\ stage = "open" /\ job.pc = "idle"
    /\ \/ Submit(shown) /\ shown' = NoCmd
       \/ PendingNow # shown /\ Hold(PendingNow) /\ UNCHANGED <<job, told, shown>>
    /\ UNCHANGED <<store, composing, stage, wire, phone>>

\* cancel of the gate
GateCancels(c) == PendingNow = c /\ Hold(NoCmd)

\* _cancel_confirmation and the coordinator's cancel
CancelConfirmation ==
    /\ shown # NoCmd /\ stage = "open"
    /\ \/ GateCancels(shown) /\ shown' = NoCmd /\ told' = Told("idle", NoCmd)
       \/ PendingNow # shown /\ Hold(PendingNow) /\ UNCHANGED <<shown, told>>
    /\ UNCHANGED <<store, composing, job, stage, wire, phone>>

\* the view is closed and opened again: it forgets what it showed
Reopen ==
    /\ stage = "open" /\ view # <<NoCmd, FALSE>>
    /\ shown' = NoCmd /\ composing' = FALSE
    /\ UNCHANGED <<store, gate, lapsed, job, told, stage, wire, phone>>

Lapse ==
    /\ gate # NoCmd /\ ~lapsed
    /\ lapsed' = TRUE
    /\ UNCHANGED <<store, gate, view, job, told, stage, wire, phone>>

-----------------------------------------------------------------------------
(* The submission, on a thread of its own *)

\* _submit reports how it ended, unless the coordinator has been closed
Finish(s) ==
    /\ job' = NoJob
    /\ told' = IF job.ui /\ stage = "open" THEN Told(s, job.cmd) ELSE told

\* an operator resubmits a command the store already has
Resubmit(c) ==
    /\ job.pc = "idle" /\ stage = "open"
    /\ row[c] # "none" \/ c \in Media
    /\ job' = [pc |-> "enqueue", cmd |-> c, ui |-> FALSE]
    /\ UNCHANGED <<store, gate, lapsed, view, told, stage, wire, phone>>

\* submit, up to the branch on what enqueue returned
\* slip: a command whose execution was announced is submitted again
OnlyUncertain == {"uncertain"}
\* states in which the phone may have sent the message already
Unsettled == {"executing", "uncertain"}

Enqueue ==
    /\ job.pc = "enqueue"
    /\ IF stage = "closed" THEN Finish("failed") /\ UNCHANGED row
       ELSE /\ row' = [row EXCEPT ![job.cmd] = IF @ = "none" THEN "queued" ELSE @]
            /\ CASE row[job.cmd] \in Terminal -> Finish(row[job.cmd])
                 [] row[job.cmd] \in Unsettled -> Finish("failed")
                 [] OTHER -> /\ job' = [job EXCEPT !.pc = IF job.cmd \in Media THEN "stage" ELSE "record"]
                             /\ UNCHANGED told
    /\ UNCHANGED <<attempts, unresolved, gate, lapsed, view, stage, wire, phone>>

\* stage: every blob is on the phone, or the submission ends before its attempt
StageMedia ==
    /\ job.pc = "stage"
    /\ \/ stage # "closed" /\ job' = [job EXCEPT !.pc = "record"] /\ UNCHANGED told
       \/ Finish("failed")
    /\ UNCHANGED <<store, gate, lapsed, view, stage, wire, phone>>

\* record_attempt commits before the request leaves
RecordAttempt ==
    /\ job.pc = "record" /\ attempts[job.cmd] < MaxAttempts
    /\ IF stage = "closed" \/ row[job.cmd] \in Terminal
       THEN Finish("failed") /\ UNCHANGED store
       ELSE /\ row' = [row EXCEPT ![job.cmd] = "executing"]
            /\ attempts' = [attempts EXCEPT ![job.cmd] = @ + 1]
            /\ unresolved' = unresolved \union {job.cmd}
            /\ job' = [job EXCEPT !.pc = "send"] /\ UNCHANGED told
    /\ UNCHANGED <<gate, lapsed, view, stage, wire, phone>>

Send ==
    /\ job.pc = "send"
    /\ job' = [job EXCEPT !.pc = "answer"]
    /\ wire' = IF stage = "closed" THEN wire ELSE wire \union {job.cmd}
    /\ UNCHANGED <<store, gate, lapsed, view, told, stage, phone>>

\* apply_ack: a terminal row keeps its state
ApplyAck(c, s) ==
    row' = [row EXCEPT ![c] = IF @ \in Terminal THEN @ ELSE s]

\* the phone's answer to the submission: _decode_response and apply_ack
Answered ==
    /\ job.pc = "answer" /\ phone[job.cmd] # "none"
    /\ IF stage = "closed" THEN UNCHANGED row ELSE ApplyAck(job.cmd, phone[job.cmd])
    /\ unresolved' = unresolved \ {job.cmd}
    /\ Finish(IF row[job.cmd] \in Terminal \ {phone[job.cmd]} \/ stage = "closed"
              THEN "failed" ELSE phone[job.cmd])
    /\ UNCHANGED <<attempts, gate, lapsed, view, stage, wire, phone>>

\* no answer, a refusal or an answer that cannot be accepted: _mark_uncertain
Unanswered ==
    /\ job.pc = "answer"
    /\ IF stage = "closed" THEN UNCHANGED row ELSE ApplyAck(job.cmd, "uncertain")
    /\ Finish("failed")
    /\ UNCHANGED <<attempts, unresolved, gate, lapsed, view, stage, wire, phone>>

\* status: the phone is asked, and its answer committed
Status(c) ==
    /\ job.pc = "idle" /\ stage = "open" /\ row[c] # "none"
    /\ ApplyAck(c, IF phone[c] = "none" THEN "failed" ELSE phone[c])
    /\ unresolved' = unresolved \ {c}
    /\ UNCHANGED <<attempts, gate, lapsed, view, job, told, stage, wire, phone>>

-----------------------------------------------------------------------------
(* Closing, and a kiosk that stops *)

\* close waits for the thread at most five seconds, then closes the client
Close ==
    /\ \/ stage = "open" /\ stage' = "closing" /\ gate' = NoCmd /\ lapsed' = FALSE /\ UNCHANGED told
       \/ /\ stage = "closing" /\ stage' = "closed" /\ told' = Told("closed", NoCmd)
          /\ UNCHANGED <<gate, lapsed>>
    /\ UNCHANGED <<store, view, job, wire, phone>>

\* the process stops in any state and a new one starts on the same store
RestartKiosk ==
    /\ stage' = "open" /\ gate' = NoCmd /\ lapsed' = FALSE
    /\ shown' = NoCmd /\ composing' = FALSE /\ job' = NoJob /\ told' = Told("idle", NoCmd)
    /\ UNCHANGED <<store, wire, phone>>

-----------------------------------------------------------------------------
(* External: the phone reserves a command before it touches Apple's service   *)

PhoneTakes(c) ==
    /\ c \in wire /\ wire' = wire \ {c}
    /\ phone' = [phone EXCEPT ![c] = IF @ = "none" THEN "queued" ELSE @]
    /\ UNCHANGED <<store, gate, lapsed, view, job, told, stage>>

PhoneRuns(c) ==
    /\ \/ phone[c] = "queued" /\ phone' = [phone EXCEPT ![c] = "executing"]
       \/ phone[c] = "executing" /\ \E s \in {"sent", "failed", "uncertain"} :
             phone' = [phone EXCEPT ![c] = s]
    /\ UNCHANGED <<store, gate, lapsed, view, job, told, stage, wire>>

Lose(c) ==
    /\ c \in wire /\ wire' = wire \ {c}
    /\ UNCHANGED <<store, gate, lapsed, view, job, told, stage, phone>>

-----------------------------------------------------------------------------
Submission == Enqueue \/ StageMedia \/ RecordAttempt \/ Send \/ Answered \/ Unanswered

OutboundNext ==
    \/ OpenComposer \/ Review \/ Confirm \/ CancelConfirmation \/ Reopen \/ Lapse
    \/ Submission \/ Close \/ RestartKiosk
    \/ \E c \in Cmd : Resubmit(c) \/ Status(c) \/ PhoneTakes(c) \/ PhoneRuns(c) \/ Lose(c)

OutboundSpec == OutboundInit /\ [][OutboundNext]_outboundVars

-----------------------------------------------------------------------------
(* Properties *)

\* What the state is made of.
OutboundTypeOK ==
    /\ row \in [Cmd -> RowState \union {"none"}] /\ attempts \in [Cmd -> Nat]
    /\ unresolved \subseteq Cmd
    /\ gate \in Cmd \union {NoCmd} /\ shown \in Cmd \union {NoCmd}
    /\ lapsed \in BOOLEAN /\ composing \in BOOLEAN
    /\ job \in [pc : {"idle", "enqueue", "stage", "record", "send", "answer"},
                cmd : Cmd \union {NoCmd}, ui : BOOLEAN]
    /\ told \in [state : RowState \union {"idle", "awaiting_confirmation", "submitting", "closed"},
                 cmd : Cmd \union {NoCmd}]
    /\ stage \in {"open", "closing", "closed"}
    /\ wire \subseteq Cmd /\ phone \in [Cmd -> RowState \union {"none"}]

\* No command is attempted again while an earlier attempt is unresolved, across
\* lost answers, a kiosk that stops between record_attempt and the answer, and
\* resubmissions: the phone must have said where the command stands.
ResolvedBeforeRetry ==
    [][\A c \in Cmd : attempts'[c] > attempts[c] => c \notin unresolved]_outboundVars

\* The coordinator says "failed" only of a message the phone did not send.
FailedMeansNotSent ==
    told.state = "failed" => phone[told.cmd] # "sent"

\* What the kiosk promises of the commands it sends to the phone: the tables
\* are sound, and an unresolved command is asked about before it is tried again.
CommandsAreSafe == []OutboundTypeOK /\ ResolvedBeforeRetry
=============================================================================
