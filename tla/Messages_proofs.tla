---------------------------- MODULE Messages_proofs ---------------------------
(* What the relay has besides delivery, for any number of requests, threads, *)
(* commands and attempts.                                                    *)
(*                                                                           *)
(* ReceiverAuth: no request is accepted twice, for any window, and any       *)
(* stalls and clock steps up to the window and a second.  A thread that      *)
(* works on a request verified it recently, so its nonce is not yet old      *)
(* enough to be dropped (Recent).  What is accepted is stored while a thread *)
(* works on it (Remembered).  And the sum of the clock and of what it was    *)
(* stepped back never falls, so a dropped nonce stays outside the window     *)
(* (Outdated).                                                               *)
(*                                                                           *)
(* OutboundCommands: no command of the kiosk is attempted again before the   *)
(* phone has said where it stands.  A row that enqueue lets through, none or *)
(* queued, has no attempt left unresolved (Settled), and from there to       *)
(* record_attempt nothing but the submission itself writes the row (Claimed). *)
(*                                                                           *)
(* AttachmentTransfer: a complete blob is whole and stays so, for any number *)
(* and size of blobs, any chunk size, edits and faults.  A blob that is      *)
(* complete has every byte of the version it was hashed at (CompleteIsWhole); *)
(* the sender waits for one answer at a time (OneIsAsked), so that what it   *)
(* hears is about the blob it sends, which has a session (SenderKnows), and  *)
(* so has the blob of each chunk still on its way, however late              *)
(* (RequestsFit).                                                            *)
(*                                                                           *)
(* RelayFeed: what the badges are is computed by a loop over the window, so  *)
(* the argument is an induction over its rounds: after each, the newest      *)
(* event met so far has decided every slot it is about (Met); and no event   *)
(* outside the window is newer than one inside (WindowIsNewest).             *)
(*                                                                           *)
(* PhoneLink: a check that was accepted is queued, in hand or reported, and  *)
(* the worker is told to stop only by a link that is closed (WorkerStays).   *)
EXTENDS ReceiverAuth, OutboundCommands, AttachmentTransfer, RelayFeed, PhoneLink, Lists_proofs,
        SequenceTheorems, TLAPS

(***************************************************************************)
(* Requests                                                                *)
(***************************************************************************)

Types ==
  /\ clock \in 0 .. MaxTime /\ back \in 0 .. MaxBack
  /\ signed \in [Nonce -> 0 .. MaxTime]
  /\ handler \in [Handler -> Nonce \cup {NoNonce}]
  /\ age \in [Handler -> 0 .. MaxStall]
  /\ stored \subseteq Nonce
  /\ accepted \in [Nonce -> Nat]

Recent == \A h \in Handler : Busy(h) => clock <= signed[handler[h]] + Skew + age[h]
Remembered == \A h \in Handler : Busy(h) /\ accepted[handler[h]] > 0 => handler[h] \in stored
Outdated ==
  \A n \in Nonce \ stored : accepted[n] > 0 => clock + back >= signed[n] + 2 * Skew + 2

AuthInv == Types /\ Recent /\ Remembered /\ Outdated /\ AtMostOnce

LEMMA AuthInit == Init => AuthInv
  BY TimingAssumption
  DEF Init, AuthInv, Types, Recent, Remembered, Outdated, AtMostOnce, Busy, TimingAssumption

\* Dropped nonces are outside the window, whatever the clock has done since.
LEMMA OutsideTheWindow ==
  ASSUME Types, Outdated, NEW n \in Nonce \ stored, accepted[n] > 0
  PROVE  clock - signed[n] > Skew
  <1>1. clock + back >= signed[n] + 2 * Skew + 2
    BY DEF Outdated
  <1>2. /\ clock \in Nat /\ back \in Nat /\ signed[n] \in Nat /\ Skew \in Nat
        /\ back <= Skew + 1
    BY TimingAssumption DEF Types, TimingAssumption
  <1> QED BY <1>1, <1>2

\* While a thread works on a request its nonce is kept.
LEMMA WorkedOnIsKept ==
  ASSUME Types, Recent, NEW h \in Handler, Busy(h), handler[h] \in stored
  PROVE  handler[h] \in Kept
  <1>1. clock <= signed[handler[h]] + Skew + age[h]
    BY DEF Recent
  <1>2. /\ clock \in Nat /\ signed[handler[h]] \in Nat /\ Skew \in Nat
        /\ age[h] \in Nat /\ age[h] <= Skew + 1
    BY TimingAssumption DEF Types, TimingAssumption
  <1> QED BY <1>1, <1>2 DEF Kept, Retention

LEMMA VerifyKeepsInv ==
  ASSUME AuthInv, NEW h \in Handler, NEW n \in Nonce, Verify(h, n)
  PROVE  AuthInv'
  <1> USE DEF AuthInv
  <1>1. /\ clock \in Nat /\ signed[n] \in Nat /\ Skew \in Nat
        /\ Distance(clock, signed[n]) <= Skew
    BY TimingAssumption DEF Verify, Types, TimingAssumption
  <1>2. clock <= signed[n] + Skew
    BY <1>1 DEF Distance
  <1>3. accepted[n] > 0 => n \in stored
    BY <1>1, <1>2, OutsideTheWindow
  <1>4. Types'
    BY TimingAssumption DEF Verify, Types, TimingAssumption
  <1>5. Recent' /\ Remembered'
    BY <1>1, <1>2, <1>3 DEF Verify, Recent, Remembered, Types, Busy
  <1>6. Outdated' /\ AtMostOnce'
    BY DEF Verify, Outdated, AtMostOnce
  <1> QED BY <1>4, <1>5, <1>6

LEMMA ReserveKeepsInv ==
  ASSUME AuthInv, NEW h \in Handler, Reserve(h)
  PROVE  AuthInv'
  <1> USE DEF AuthInv
  <1>1. PICK n \in Nonce : n = handler[h]
    BY DEF Reserve, Busy, Types
  <1>2. /\ Busy(h) /\ handler' = [handler EXCEPT ![h] = NoNonce]
        /\ UNCHANGED <<clock, back, signed, age>>
    BY DEF Reserve
  <1>3. CASE n \in Kept
    <2>1. UNCHANGED <<stored, accepted>>
      BY <1>1, <1>3 DEF Reserve
    <2>2. Types'
      BY <1>2, <2>1 DEF Types
    <2>3. Recent' /\ Remembered' /\ Outdated' /\ AtMostOnce'
      BY <1>2, <2>1 DEF Types, Recent, Remembered, Outdated, AtMostOnce, Busy
    <2> QED BY <2>2, <2>3
  <1>4. CASE n \notin Kept
    <2>1. stored' = Kept \cup {n} /\ accepted' = [accepted EXCEPT ![n] = @ + 1]
      BY <1>1, <1>4 DEF Reserve
    <2>2. accepted[n] = 0
      BY <1>1, <1>2, <1>4, WorkedOnIsKept DEF Remembered, Types
    <2>3. Types'
      BY <1>2, <2>1 DEF Types, Kept
    <2>4. Recent'
      BY <1>2 DEF Recent, Types, Busy
    <2>5. ASSUME NEW g \in Handler, Busy(g)', accepted'[handler'[g]] > 0
          PROVE  handler'[g] \in stored'
      <3>1. handler'[g] = handler[g] /\ Busy(g)
        BY <1>2, <2>5 DEF Busy, Types
      <3>2. CASE handler[g] = n
        BY <2>1, <3>1, <3>2
      <3>3. CASE handler[g] # n
        <4>1. handler[g] \in Nonce /\ accepted[handler[g]] > 0
          BY <2>1, <2>5, <3>1, <3>3 DEF Types, Busy
        <4> QED BY <2>1, <3>1, <4>1, WorkedOnIsKept DEF Remembered
      <3> QED BY <3>2, <3>3
    <2>6. ASSUME NEW m \in Nonce, m \notin stored', accepted'[m] > 0
          PROVE  clock + back >= signed[m] + 2 * Skew + 2
      <3>1. m # n /\ accepted[m] > 0 /\ m \notin Kept
        BY <2>1, <2>6 DEF Types
      <3>2. CASE m \notin stored
        BY <3>1, <3>2 DEF Outdated
      <3>3. CASE m \in stored
        <4>1. /\ clock \in Nat /\ back \in Nat /\ signed[m] \in Nat /\ Skew \in Nat
              /\ ~(signed[m] >= clock - (Skew * 2 + 1))
          BY <3>1, <3>3, TimingAssumption DEF Kept, Retention, Types, TimingAssumption
        <4> QED BY <4>1
      <3> QED BY <3>2, <3>3
    <2>7. AtMostOnce'
      BY <2>1, <2>2 DEF AtMostOnce, Types
    <2>8. Remembered' /\ Outdated'
      BY <1>2, <2>5, <2>6 DEF Remembered, Outdated
    <2> QED BY <2>3, <2>4, <2>7, <2>8
  <1> QED BY <1>3, <1>4

LEMMA ClockKeepsInv ==
  ASSUME AuthInv, Tick \/ (\E d \in 1 .. MaxBack : StepBack(d))
  PROVE  AuthInv'
  <1> USE DEF AuthInv
  <1>1. UNCHANGED <<signed, handler, stored, accepted>>
    BY DEF Tick, StepBack
  <1>2. clock' \in 0 .. MaxTime /\ back' \in 0 .. MaxBack /\ clock' + back' >= clock + back
    BY TimingAssumption DEF Tick, StepBack, Types, TimingAssumption
  <1>3. age' \in [Handler -> 0 .. MaxStall]
    BY TimingAssumption DEF Tick, StepBack, Types, TimingAssumption
  <1>4. \A h \in Handler : Busy(h) => clock' - age'[h] <= clock - age[h]
    BY TimingAssumption DEF Tick, StepBack, Types, TimingAssumption
  <1>5. Types'
    BY <1>1, <1>2, <1>3 DEF Types
  <1>6. Recent'
    <2>1. ASSUME NEW h \in Handler, Busy(h)'
          PROVE  clock' <= signed[handler[h]] + Skew + age'[h]
      <3>1. Busy(h) /\ clock <= signed[handler[h]] + Skew + age[h]
        BY <1>1, <2>1 DEF Busy, Recent
      <3>2. /\ clock \in Nat /\ clock' \in Nat /\ age[h] \in Nat /\ age'[h] \in Nat
            /\ signed[handler[h]] \in Nat /\ Skew \in Nat
        BY <1>2, <1>3, <3>1, TimingAssumption DEF Types, Busy, TimingAssumption
      <3>3. clock' - age'[h] <= clock - age[h]
        BY <1>4, <3>1
      <3> QED BY <3>1, <3>2, <3>3
    <2> QED BY <1>1, <2>1 DEF Recent
  <1>7. Remembered' /\ AtMostOnce'
    BY <1>1 DEF Remembered, AtMostOnce, Busy
  <1>8. Outdated'
    <2>1. ASSUME NEW n \in Nonce, n \notin stored, accepted[n] > 0
          PROVE  clock' + back' >= signed[n] + 2 * Skew + 2
      <3>1. PICK c \in Nat, b \in Nat : c = clock' /\ b = back'
        BY <1>2, TimingAssumption DEF TimingAssumption
      <3>2. clock + back >= signed[n] + 2 * Skew + 2
        BY <2>1 DEF Outdated
      <3>3. clock \in Nat /\ back \in Nat /\ signed[n] \in Nat /\ Skew \in Nat
        BY TimingAssumption DEF Types, TimingAssumption
      <3>4. c + b >= clock + back
        BY <1>2, <3>1
      <3>5. c + b >= signed[n] + 2 * Skew + 2
        BY <3>2, <3>3, <3>4
      <3> QED BY <3>1, <3>5
    <2> QED BY <1>1, <2>1 DEF Outdated
  <1> QED BY <1>5, <1>6, <1>7, <1>8

LEMMA AuthStep == AuthInv /\ [Next]_vars => AuthInv'
  <1> SUFFICES ASSUME AuthInv, [Next]_vars PROVE AuthInv'
    OBVIOUS
  <1>1. CASE Restart \/ UNCHANGED vars
    BY <1>1
    DEF Restart, vars, AuthInv, Types, Recent, Remembered, Outdated, AtMostOnce, Busy
  <1> QED BY <1>1, VerifyKeepsInv, ReserveKeepsInv, ClockKeepsInv DEF Next

\* A request is accepted at most once, whatever copies of it arrive and
\* whatever the receiver's threads, restarts and clock do within the bounds.
THEOREM AcceptedAtMostOnce == Spec => []AtMostOnce
  <1>1. AuthInv => AtMostOnce
    BY DEF AuthInv
  <1> QED BY <1>1, AuthInit, AuthStep, PTL DEF Spec

\* Every variable keeps its type, and a nonce the store has dropped is one
\* that no clock reading verifies any more (RequestAuthenticator.verify against
\* reserve_nonce): this is why a copy can come as late as it likes.
THEOREM AuthTypeCorrect == Spec => []AuthTypeOK
  <1>1. AuthInv => AuthTypeOK
    BY OutsideTheWindow DEF AuthInv, AuthTypeOK, Types
  <1> QED BY <1>1, AuthInit, AuthStep, PTL DEF Spec

\* Both together: what the receiver's authentication promises in every state.
THEOREM AuthSafe == Spec => []AuthIsSafe
  <1>1. AuthInv => AuthIsSafe
    BY OutsideTheWindow DEF AuthInv, AuthIsSafe, AuthTypeOK, Types
  <1> QED BY <1>1, AuthInit, AuthStep, PTL DEF Spec

(***************************************************************************)
(* Commands of the kiosk                                                   *)
(***************************************************************************)

SomeCmd == Cmd \union {NoCmd}
Jobs == [pc : {"idle", "enqueue", "stage", "record", "send", "answer"}, cmd : SomeCmd, ui : BOOLEAN]
Reports == RowState \union {"idle", "awaiting_confirmation", "submitting", "closed"}

StoreOK ==
    /\ row \in [Cmd -> RowState \union {"none"}] /\ attempts \in [Cmd -> Nat]
    /\ unresolved \subseteq Cmd /\ wire \subseteq Cmd
    /\ phone \in [Cmd -> RowState \union {"none"}]
GateOK ==
    /\ gate \in SomeCmd /\ shown \in SomeCmd /\ lapsed \in BOOLEAN /\ composing \in BOOLEAN
    /\ stage \in {"open", "closing", "closed"}
JobOK == job \in Jobs
ToldOK == told \in [state : Reports, cmd : SomeCmd]

\* A row that may be submitted has nothing unresolved.
Settled == \A c \in Cmd : row[c] \in {"none", "queued"} => c \notin unresolved

\* The submission works on a command; until its attempt its row is queued.
Claimed ==
    /\ job.pc # "idle" => job.cmd \in Cmd
    /\ job.pc \in {"stage", "record"} => row[job.cmd] = "queued"

OutboundInv == StoreOK /\ GateOK /\ JobOK /\ ToldOK /\ Settled /\ Claimed

LEMMA InvIsTyped == OutboundInv => OutboundTypeOK
    BY DEF OutboundInv, StoreOK, GateOK, JobOK, ToldOK, OutboundTypeOK, Jobs, Reports, SomeCmd

LEMMA ToldTyped == ASSUME NEW s \in Reports, NEW c \in SomeCmd
                   PROVE  Told(s, c) \in [state : Reports, cmd : SomeCmd]
    BY DEF Told

LEMMA SomeReports ==
    /\ RowState \subseteq Reports /\ Cmd \subseteq SomeCmd /\ NoCmd \in SomeCmd
    /\ {"idle", "awaiting_confirmation", "submitting", "closed", "failed"} \subseteq Reports
    BY DEF Reports, RowState, SomeCmd

LEMMA NoJobTyped == NoJob \in Jobs /\ NoJob.pc = "idle"
    BY DEF NoJob, Jobs, SomeCmd

LEMMA OutboundInitHolds == OutboundInit => OutboundInv
<1> SUFFICES ASSUME OutboundInit PROVE OutboundInv
    OBVIOUS
<1>1. StoreOK /\ GateOK
      BY SomeReports DEF OutboundInit, StoreOK, GateOK
<1>2. JobOK /\ Claimed
      BY NoJobTyped DEF OutboundInit, JobOK, Claimed
<1>3. ToldOK
      BY ToldTyped, SomeReports DEF OutboundInit, ToldOK
<1>4. Settled
      BY DEF OutboundInit, Settled
<1> QED BY <1>1, <1>2, <1>3, <1>4 DEF OutboundInv

\* The view and the gate never touch the store; only confirm starts a job.
LEMMA ViewStep ==
    ASSUME OutboundInv,
           OpenComposer \/ Review \/ Confirm \/ CancelConfirmation \/ Reopen \/ Lapse
    PROVE  OutboundInv'
<1> USE DEF OutboundInv
<1>1. UNCHANGED <<store, wire, phone, stage>>
      BY DEF OpenComposer, Review, Confirm, CancelConfirmation, Reopen, Lapse
<1>2. StoreOK' /\ Settled'
      BY <1>1 DEF store, StoreOK, Settled
<1>3. GateOK'
      BY <1>1, SomeReports
      DEF OpenComposer, Review, Confirm, CancelConfirmation, Reopen, Lapse, GateOK, PrepareText,
          Submit, GateConfirms, GateCancels, Hold, PendingNow, view
<1>4. CASE job' = job
  <2>1. JobOK' /\ Claimed'
    <3>1. row' = row /\ job' = job
          BY <1>1, <1>4 DEF store
    <3> QED BY <3>1 DEF JobOK, Claimed
  <2>2. \/ told' = told
        \/ \E s \in {"idle", "awaiting_confirmation", "submitting"}, c \in SomeCmd : told' = Told(s, c)
        BY SomeReports
        DEF OpenComposer, Review, Confirm, CancelConfirmation, Reopen, Lapse, GateOK, PrepareText, Submit
  <2>3. ToldOK'
        BY <2>2, ToldTyped, SomeReports DEF ToldOK
  <2> QED BY <1>2, <1>3, <2>1, <2>3
<1>5. CASE job' # job
  <2>1. Submit(shown) /\ shown \in Cmd
        BY <1>5, OutboundConstants
        DEF OpenComposer, Review, Confirm, CancelConfirmation, Reopen, Lapse, OutboundConstants,
            GateOK, SomeCmd
  <2>2. JobOK' /\ Claimed'
        BY <2>1 DEF Submit, JobOK, Jobs, Claimed, SomeCmd
  <2>3. ToldOK'
        BY <2>1, ToldTyped, SomeReports DEF Submit, ToldOK
  <2> QED BY <1>2, <1>3, <2>2, <2>3
<1> QED BY <1>4, <1>5

\* However a submission ends, it leaves no job and a report.
LEMMA FinishTyped ==
    ASSUME OutboundInv, job.pc # "idle", NEW s \in Reports, Finish(s)
    PROVE  JobOK' /\ job'.pc = "idle" /\ ToldOK'
    BY NoJobTyped, ToldTyped, SomeReports DEF Finish, JobOK, ToldOK, OutboundInv, Claimed

\* One more step of the job keeps its command.
LEMMA NextPc ==
    ASSUME OutboundInv, job.pc # "idle", NEW p \in {"stage", "record", "send", "answer"},
           job' = [job EXCEPT !.pc = p]
    PROVE  JobOK' /\ job'.pc = p /\ job'.cmd = job.cmd /\ job.cmd \in Cmd
    BY DEF OutboundInv, JobOK, Jobs, Claimed

LEMMA EnqueueStep == ASSUME OutboundInv, Enqueue PROVE OutboundInv'
<1> USE DEF OutboundInv
<1>1. /\ job.pc = "enqueue" /\ job.cmd \in Cmd
      /\ UNCHANGED <<attempts, unresolved, gate, lapsed, view, stage, wire, phone>>
      BY DEF Enqueue, Claimed
<1>2. GateOK'
      BY <1>1 DEF GateOK, view
<1>3. row' = row \/ row' = [row EXCEPT ![job.cmd] = IF @ = "none" THEN "queued" ELSE @]
      BY DEF Enqueue
<1>4. StoreOK'
      BY <1>1, <1>3 DEF StoreOK, RowState
<1>5. Settled'
      BY <1>1, <1>3 DEF Settled, StoreOK
<1>6. CASE \E s \in Reports : Finish(s)
  <2>1. JobOK' /\ job'.pc = "idle" /\ ToldOK'
        BY <1>1, <1>6, FinishTyped
  <2> QED BY <1>2, <1>4, <1>5, <2>1 DEF Claimed
<1>7. CASE ~\E s \in Reports : Finish(s)
  <2>1. /\ row' = [row EXCEPT ![job.cmd] = IF @ = "none" THEN "queued" ELSE @]
        /\ row[job.cmd] \notin Terminal \union Unsettled
        /\ job' = [job EXCEPT !.pc = IF job.cmd \in Media THEN "stage" ELSE "record"]
        /\ UNCHANGED told
        BY <1>7, SomeReports DEF Enqueue, Terminal, RowState
  <2>2. row'[job.cmd] = "queued"
        BY <1>1, <2>1 DEF StoreOK, RowState, Terminal, Unsettled
  <2>3. JobOK' /\ job'.cmd = job.cmd /\ job'.pc \in {"stage", "record"}
        BY <1>1, <2>1, NextPc
  <2>4. Claimed' /\ ToldOK'
        BY <1>1, <2>1, <2>2, <2>3 DEF Claimed, ToldOK
  <2> QED BY <1>2, <1>4, <1>5, <2>3, <2>4
<1> QED BY <1>6, <1>7

LEMMA StageStep == ASSUME OutboundInv, StageMedia PROVE OutboundInv'
<1> USE DEF OutboundInv
<1>1. /\ job.pc = "stage" /\ row[job.cmd] = "queued"
      /\ UNCHANGED <<store, gate, lapsed, view, stage, wire, phone>>
      BY DEF StageMedia, Claimed
<1>2. GateOK' /\ StoreOK' /\ Settled'
      BY <1>1 DEF GateOK, StoreOK, Settled, view, store
<1>3. CASE Finish("failed")
  <2>1. JobOK' /\ job'.pc = "idle" /\ ToldOK'
        BY <1>1, <1>3, FinishTyped, SomeReports
  <2> QED BY <1>2, <2>1 DEF Claimed
<1>4. CASE job' = [job EXCEPT !.pc = "record"] /\ UNCHANGED told
  <2>1. JobOK' /\ job'.pc = "record" /\ job'.cmd = job.cmd /\ job.cmd \in Cmd
        BY <1>1, <1>4, NextPc
  <2>2. Claimed' /\ ToldOK'
        BY <1>1, <1>4, <2>1 DEF Claimed, ToldOK, store
  <2> QED BY <1>2, <2>1, <2>2
<1> QED BY <1>3, <1>4 DEF StageMedia

LEMMA RecordStep == ASSUME OutboundInv, RecordAttempt PROVE OutboundInv'
<1> USE DEF OutboundInv
<1>1. /\ job.pc = "record" /\ job.cmd \in Cmd
      /\ UNCHANGED <<gate, lapsed, view, stage, wire, phone>>
      BY DEF RecordAttempt, Claimed
<1>2. GateOK'
      BY <1>1 DEF GateOK, view
<1>3. CASE Finish("failed") /\ UNCHANGED store
  <2>1. JobOK' /\ job'.pc = "idle" /\ ToldOK'
        BY <1>1, <1>3, FinishTyped, SomeReports
  <2>2. StoreOK' /\ Settled'
        BY <1>1, <1>3 DEF StoreOK, Settled, store
  <2> QED BY <1>2, <2>1, <2>2 DEF Claimed
<1>4. CASE /\ row' = [row EXCEPT ![job.cmd] = "executing"]
           /\ attempts' = [attempts EXCEPT ![job.cmd] = @ + 1]
           /\ unresolved' = unresolved \union {job.cmd}
           /\ job' = [job EXCEPT !.pc = "send"] /\ UNCHANGED told
  <2>1. JobOK' /\ job'.pc = "send" /\ job'.cmd = job.cmd
        BY <1>1, <1>4, NextPc
  <2>2. StoreOK'
        BY <1>1, <1>4 DEF StoreOK, RowState
  <2>3. Settled' /\ Claimed' /\ ToldOK'
        BY <1>1, <1>4, <2>1 DEF StoreOK, Settled, Claimed, ToldOK
  <2> QED BY <1>2, <2>1, <2>2, <2>3
<1> QED BY <1>3, <1>4 DEF RecordAttempt

LEMMA SendStep == ASSUME OutboundInv, Send PROVE OutboundInv'
<1> USE DEF OutboundInv
<1>1. /\ job.pc = "send" /\ UNCHANGED <<store, gate, lapsed, view, told, stage, phone>>
      /\ job' = [job EXCEPT !.pc = "answer"]
      BY DEF Send
<1>2. JobOK' /\ job'.pc = "answer" /\ job'.cmd = job.cmd /\ job.cmd \in Cmd
      BY <1>1, NextPc
<1>3. StoreOK'
      BY <1>1, <1>2 DEF Send, StoreOK, store
<1>4. GateOK' /\ Settled' /\ Claimed' /\ ToldOK'
      BY <1>1, <1>2 DEF GateOK, Settled, Claimed, ToldOK, store, view
<1> QED BY <1>2, <1>3, <1>4

\* An answer never brings a row back to where it could be submitted while its
\* attempt is unresolved.
LEMMA AckKeepsSettled ==
    ASSUME StoreOK, Settled, NEW c \in Cmd, NEW s \in RowState, ApplyAck(c, s),
           unresolved' = unresolved \ {c} \/ (s = "uncertain" /\ unresolved' = unresolved)
    PROVE  row' \in [Cmd -> RowState \union {"none"}] /\ Settled'
    BY DEF StoreOK, Settled, ApplyAck, Terminal

LEMMA AnswerStep == ASSUME OutboundInv, Answered \/ Unanswered PROVE OutboundInv'
<1> USE DEF OutboundInv
<1>1. /\ job.pc = "answer" /\ job.cmd \in Cmd
      /\ UNCHANGED <<attempts, gate, lapsed, view, stage, wire, phone>>
      BY DEF Answered, Unanswered, Claimed
<1>2. GateOK'
      BY <1>1 DEF GateOK, view
<1>3. phone[job.cmd] # "none" => phone[job.cmd] \in RowState
      BY <1>1 DEF StoreOK
<1>4. \E s \in Reports : Finish(s)
      BY <1>3, SomeReports DEF Answered, Unanswered
<1>5. JobOK' /\ job'.pc = "idle" /\ ToldOK'
      BY <1>1, <1>4, FinishTyped
<1>6. row' \in [Cmd -> RowState \union {"none"}] /\ Settled'
  <2>1. CASE row' = row
        BY <2>1 DEF Answered, Unanswered, StoreOK, Settled
  <2>2. CASE Answered /\ ApplyAck(job.cmd, phone[job.cmd])
        BY <1>1, <1>3, <2>2, AckKeepsSettled DEF Answered
  <2>3. CASE Unanswered /\ ApplyAck(job.cmd, "uncertain")
        BY <1>1, <2>3, AckKeepsSettled DEF Unanswered, RowState
  <2> QED BY <2>1, <2>2, <2>3 DEF Answered, Unanswered
<1>7. unresolved' \subseteq Cmd
      BY DEF Answered, Unanswered, StoreOK
<1>8. StoreOK'
      BY <1>1, <1>6, <1>7 DEF StoreOK
<1> QED BY <1>2, <1>5, <1>6, <1>8 DEF Claimed

\* The operator's two steps are taken while nothing is being submitted.
LEMMA OperatorStep ==
    ASSUME OutboundInv, NEW c \in Cmd, Resubmit(c) \/ Status(c)
    PROVE  OutboundInv'
<1> USE DEF OutboundInv
<1>1. CASE Resubmit(c)
  <2>1. GateOK' /\ StoreOK' /\ Settled' /\ ToldOK'
        BY <1>1 DEF Resubmit, GateOK, StoreOK, Settled, ToldOK, view, store
  <2>2. JobOK' /\ Claimed'
        BY <1>1 DEF Resubmit, JobOK, Jobs, Claimed, SomeCmd
  <2> QED BY <2>1, <2>2
<1>2. CASE Status(c)
  <2>1. /\ job.pc = "idle"
        /\ UNCHANGED <<attempts, gate, lapsed, view, job, told, stage, wire, phone>>
        /\ unresolved' = unresolved \ {c}
        BY <1>2 DEF Status
  <2>2. (IF phone[c] = "none" THEN "failed" ELSE phone[c]) \in RowState
        BY DEF StoreOK, RowState
  <2>3. row' \in [Cmd -> RowState \union {"none"}] /\ Settled'
        BY <1>2, <2>1, <2>2, AckKeepsSettled DEF Status
  <2>4. StoreOK'
        BY <2>1, <2>3 DEF StoreOK
  <2>5. GateOK' /\ JobOK' /\ Claimed' /\ ToldOK'
        BY <2>1 DEF GateOK, JobOK, Claimed, ToldOK, view
  <2> QED BY <2>3, <2>4, <2>5
<1> QED BY <1>1, <1>2

\* Closing, a restart and the phone leave the rows alone.
LEMMA WorldStep ==
    ASSUME OutboundInv,
           \/ Close \/ RestartKiosk \/ UNCHANGED outboundVars
           \/ \E c \in Cmd : PhoneTakes(c) \/ PhoneRuns(c) \/ Lose(c)
    PROVE  OutboundInv'
<1> USE DEF OutboundInv
<1>1. UNCHANGED store
      BY DEF Close, RestartKiosk, outboundVars, PhoneTakes, PhoneRuns, Lose
<1>2. Settled'
      BY <1>1 DEF Settled, store
<1>3. wire' \subseteq Cmd /\ phone' \in [Cmd -> RowState \union {"none"}]
      BY DEF Close, RestartKiosk, outboundVars, PhoneTakes, PhoneRuns, Lose, StoreOK, RowState
<1>4. StoreOK'
      BY <1>1, <1>3 DEF StoreOK, store
<1>5. GateOK'
      BY SomeReports DEF Close, RestartKiosk, outboundVars, PhoneTakes, PhoneRuns, Lose, GateOK, view
<1>6. ToldOK'
      BY ToldTyped, SomeReports
      DEF Close, RestartKiosk, outboundVars, PhoneTakes, PhoneRuns, Lose, ToldOK
<1>7. job' = job \/ job' = NoJob
      BY DEF Close, RestartKiosk, outboundVars, PhoneTakes, PhoneRuns, Lose
<1>8. JobOK' /\ Claimed'
      BY <1>1, <1>7, NoJobTyped DEF JobOK, Claimed, store
<1> QED BY <1>2, <1>4, <1>5, <1>6, <1>8

LEMMA OutboundStep == OutboundInv /\ [OutboundNext]_outboundVars => OutboundInv'
    BY ViewStep, EnqueueStep, StageStep, RecordStep, SendStep, AnswerStep, OperatorStep, WorldStep
    DEF OutboundNext, Submission

\* Only record_attempt counts an attempt, and the row it finds is queued.
LEMMA AttemptIsResolved ==
    ASSUME OutboundInv, [OutboundNext]_outboundVars,
           NEW c \in Cmd, attempts'[c] > attempts[c]
    PROVE  c \notin unresolved
<1>1. attempts' # attempts
      BY DEF OutboundInv, StoreOK
<1>2. RecordAttempt
      BY <1>1 DEF OutboundNext, outboundVars, store, OpenComposer, Review, Confirm,
                  CancelConfirmation, Reopen, Lapse, Submission, Enqueue, StageMedia, Send, Answered,
                  Unanswered, Close, RestartKiosk, Resubmit, Status, PhoneTakes, PhoneRuns, Lose
<1>3. c = job.cmd /\ job.pc = "record"
      BY <1>1, <1>2 DEF RecordAttempt, store, OutboundInv, StoreOK, Claimed
<1> QED BY <1>3 DEF OutboundInv, Claimed, Settled

\* The types hold, and no command is tried again before its last attempt is
\* resolved, for any commands (OutboundCommandClient.submit, record_attempt).
THEOREM CommandsSafe == OutboundSpec => CommandsAreSafe
<1>1. OutboundInv /\ [OutboundNext]_outboundVars =>
          [\A c \in Cmd : attempts'[c] > attempts[c] => c \notin unresolved]_outboundVars
      BY AttemptIsResolved
<1> QED BY <1>1, InvIsTyped, OutboundInitHolds, OutboundStep, PTL
        DEF OutboundSpec, CommandsAreSafe, ResolvedBeforeRetry

(***************************************************************************)
(* The transfer of attachments                                             *)
(***************************************************************************)

\* A complete blob is whole; the digest of an empty one is known beforehand.
CompleteIsWhole ==
  \A b \in Blob : upload[b].status = "complete" =>
    /\ Len(fileBytes[b]) = Size[b]
    /\ \A i \in 1 .. Size[b] : fileBytes[b][i] = upload[b].digest
    /\ Size[b] = 0 => upload[b].digest = 0
ReceivedIsComplete == event = "received" => AllComplete

\* The sender waits for one answer at a time, and knows to what.
AsksFor(q) ==
  \/ q.kind = "event" /\ sender.step \in {"event", "final"}
  \/ q.kind = "session" /\ sender.step = "session" /\ q.blob = sender.blob
  \/ q.kind = "chunk" /\ sender.step = "chunk" /\ q.blob = sender.blob
OneIsAsked ==
  \A q \in requests : q.late = 0 =>
    reply = NoReply /\ AsksFor(q) /\ \A r \in requests : r.late = 0 => r = q

\* Chunks are sent of a blob that has a session, and within it.
HasSession(b) == upload[b].digest # Unknown /\ event # "unknown"
RequestsFit ==
  \A q \in requests :
    /\ q.kind = "chunk" => q.offset < Size[q.blob] /\ HasSession(q.blob)
    /\ q.kind = "session" /\ Size[q.blob] = 0 => q.version = 0
SenderKnows ==
  /\ sender.step = "chunk" => sender.offset < Size[sender.blob] /\ HasSession(sender.blob)
  /\ reply.result = "ready" => sender.step \in {"session", "chunk"} /\ HasSession(sender.blob)
  /\ reply.result = "received" \/ sender.step = "acknowledged" => event = "received"

TransferInv ==
  /\ TransferTyped /\ RowsHold /\ OffsetBackedUnlessReset /\ CompleteIsWhole /\ ReceivedIsComplete
  /\ OneIsAsked /\ RequestsFit /\ SenderKnows

\* At the start nothing is asked, sent or stored.
LEMMA TransferBegins == TransferInit => TransferInv
<1> SUFFICES ASSUME TransferInit PROVE TransferInv
  OBVIOUS
<1> USE TransferConstantsAssumption DEF TransferConstantsAssumption
<1>1. 1 \in Blob /\ 0 \in Version /\ Unknown # 0
  BY DEF Blob, Version, Unknown
<1>2. TransferTyped
  BY <1>1 DEF TransferInit, TransferTyped, Row, RequestStep, NoReply, Idle
<1>3. RowsHold /\ OffsetBackedUnlessReset /\ CompleteIsWhole /\ ReceivedIsComplete
  BY <1>1 DEF TransferInit, RowsHold, OffsetBackedUnlessReset, CompleteIsWhole, ReceivedIsComplete, Short
<1>4. OneIsAsked /\ RequestsFit /\ SenderKnows
  BY DEF TransferInit, OneIsAsked, RequestsFit, SenderKnows, NoReply, Idle
<1>5. QED
  BY <1>2, <1>3, <1>4 DEF TransferInv

\* What is durable is the file up to the offset.
LEMMA DurableBytes ==
  ASSUME TransferTyped, NEW b \in Blob, ~Short(b)
  PROVE  /\ Durable(b) \in Seq(Version \cup {Unknown}) /\ Len(Durable(b)) = upload[b].received
         /\ \A i \in 1 .. upload[b].received : Durable(b)[i] = fileBytes[b][i]
         /\ Len(fileBytes[b]) = upload[b].received => Durable(b) = fileBytes[b]
<1> DEFINE V == Version \cup {Unknown}
           s == fileBytes[b]
           n == upload[b].received
<1>1. s \in Seq(V) /\ n \in Nat /\ n <= Len(s) /\ Len(s) \in Nat /\ Durable(b) = SubSeq(s, 1, n)
  BY DEF TransferTyped, Row, Short, Durable
<1> HIDE DEF V, s, n
<1>2. /\ SubSeq(s, 1, n) \in Seq(V) /\ Len(SubSeq(s, 1, n)) = n
      /\ \A i \in 1 .. n : SubSeq(s, 1, n)[i] = s[i]
  BY <1>1
<1>3. ASSUME Len(s) = n PROVE SubSeq(s, 1, n) = s
  BY <1>1, <1>2, <1>3, SeqDef, LenProperties
<1>4. QED
  BY <1>1, <1>2, <1>3 DEF V, s, n

\* A chunk at the durable offset brings the blob further, and no further than it is long.
LEMMA WrittenBytes ==
  ASSUME TransferTyped, RequestsFit, NEW q \in requests, Appends(q)
  PROVE  /\ q.blob \in Blob /\ NextOffset(q) \in Nat
         /\ upload[q.blob].received < NextOffset(q) /\ NextOffset(q) <= Size[q.blob]
         /\ Written(q) \in Seq(Version \cup {Unknown}) /\ Len(Written(q)) = NextOffset(q)
<1> DEFINE V == Version \cup {Unknown}
           l == Length(q.blob, q.offset)
           d == Durable(q.blob)
<1> USE TransferConstantsAssumption DEF TransferConstantsAssumption
<1>1. q.blob \in Blob /\ q.offset \in Nat /\ q.version \in V /\ q.offset < Size[q.blob]
      /\ q.offset = upload[q.blob].received /\ Size[q.blob] \in Nat
  BY DEF TransferTyped, RequestStep, RequestsFit, Appends
<1>2. l \in Nat \ {0} /\ q.offset + l <= Size[q.blob]
  BY <1>1 DEF Length
<1>3. d \in Seq(V) /\ Len(d) = q.offset
  BY <1>1, DurableBytes DEF Appends
<1>4. Bytes(q) = [i \in 1 .. l |-> q.version]
  BY DEF Bytes
<1> HIDE DEF l, d, V
<1>5. Bytes(q) \in Seq(V) /\ Len(Bytes(q)) = l
  BY <1>1, <1>2, <1>4
<1>6. d \o Bytes(q) \in Seq(V) /\ Len(d \o Bytes(q)) = q.offset + l
  BY <1>3, <1>5
<1>7. NextOffset(q) = q.offset + l /\ Written(q) = d \o Bytes(q)
  BY DEF NextOffset, Written, l, d
<1>8. QED
  BY <1>1, <1>2, <1>6, <1>7 DEF V

\* What a complete blob is, a step leaves as it is.
StaysComplete ==
  \A b \in Blob :
    upload[b].status = "complete" => upload'[b] = upload[b] /\ fileBytes'[b] = fileBytes[b]

\* A step that writes one blob's row and file, and keeps complete blobs.
LEMMA BlobIsWritten ==
  ASSUME TransferInv, NEW b \in Blob, event' = event,
         upload' \in [Blob -> Row], fileBytes' \in [Blob -> Seq(Version \cup {Unknown})],
         \A c \in Blob \ {b} : upload'[c] = upload[c] /\ fileBytes'[c] = fileBytes[c],
         (event = "unknown") = (upload'[b].status = "absent"),
         upload'[b].received <= Size[b], Len(fileBytes'[b]) <= Size[b],
         upload'[b].received > 0 => upload'[b].digest # Unknown,
         Len(fileBytes'[b]) < upload'[b].received => fileBytes'[b] = <<>>,
         upload[b].digest # Unknown => upload'[b].digest # Unknown,
         upload'[b].status = "complete" =>
           /\ upload'[b].received = Size[b] /\ Len(fileBytes'[b]) = Size[b]
           /\ \A i \in 1 .. Size[b] : fileBytes'[b][i] = upload'[b].digest
           /\ Size[b] = 0 => upload'[b].digest = 0,
         upload[b].status = "complete" => upload'[b] = upload[b] /\ fileBytes'[b] = fileBytes[b]
  PROVE  /\ RowsHold' /\ OffsetBackedUnlessReset' /\ CompleteIsWhole' /\ ReceivedIsComplete'
         /\ StaysComplete /\ \A c \in Blob : HasSession(c) => HasSession(c)'
<1>1. RowsHold'
  BY DEF TransferInv, RowsHold
<1>2. OffsetBackedUnlessReset'
  BY DEF TransferInv, OffsetBackedUnlessReset, Short
<1>3. CompleteIsWhole'
  BY DEF TransferInv, CompleteIsWhole
<1>4. StaysComplete
  BY DEF StaysComplete
<1>5. ReceivedIsComplete'
  BY <1>4 DEF TransferInv, ReceivedIsComplete, AllComplete, StaysComplete
<1>6. \A c \in Blob : HasSession(c) => HasSession(c)'
  BY DEF HasSession
<1>7. QED
  BY <1>1, <1>2, <1>3, <1>4, <1>5, <1>6

\* A step of the kiosk that takes a request, and answers it or does not.
LEMMA RequestIsTaken ==
  ASSUME TransferInv, NEW q \in requests, requests' = requests \ {q}, sender' = sender,
         event = "received" => event' = "received",
         \A c \in Blob : HasSession(c) => HasSession(c)',
         \/ reply' = reply
         \/ /\ q.late = 0
            /\ reply'.result = "ready" => q.kind \in {"session", "chunk"} /\ HasSession(q.blob)'
            /\ reply'.result = "received" => event' = "received"
  PROVE  OneIsAsked' /\ RequestsFit' /\ SenderKnows'
<1>1. q.blob \in Blob /\ q.kind \in {"event", "session", "chunk"}
      /\ \A r \in requests : r.blob \in Blob
  BY DEF TransferInv, TransferTyped, RequestStep
<1>2. sender.blob \in Blob
  BY DEF TransferInv, TransferTyped
<1>3. OneIsAsked'
  <2>1. \A r \in requests' : AsksFor(r) => AsksFor(r)'
    BY DEF AsksFor
  <2>2. \A r \in requests' : r.late = 0 => q.late # 0
    BY DEF TransferInv, OneIsAsked
  <2>3. QED
    BY <2>1, <2>2 DEF TransferInv, OneIsAsked
<1>4. RequestsFit'
  BY <1>1 DEF TransferInv, RequestsFit
<1>5. SenderKnows'
  <2>1. sender.step = "chunk" => sender.offset < Size[sender.blob] /\ HasSession(sender.blob)'
    BY <1>2 DEF TransferInv, SenderKnows
  <2>2. reply' = reply => SenderKnows'
    BY <1>2, <2>1 DEF TransferInv, SenderKnows
  <2>3. q.late = 0 => AsksFor(q)
    BY DEF TransferInv, OneIsAsked
  <2>4. reply' # reply => SenderKnows'
    BY <2>1, <2>3 DEF TransferInv, SenderKnows, AsksFor
  <2>5. QED
    BY <2>2, <2>4
<1>6. QED
  BY <1>3, <1>4, <1>5

\* The sender posts one request at a time, or gives the attempt up.
LEMMA SenderSteps == ASSUME TransferInv, SenderStep PROVE TransferInv'
<1> USE TransferConstantsAssumption DEF TransferConstantsAssumption
<1>1. UNCHANGED <<source, kioskVars, faults>>
  BY DEF SenderStep
<1>2. RowsHold' /\ OffsetBackedUnlessReset' /\ CompleteIsWhole' /\ ReceivedIsComplete'
  BY <1>1 DEF TransferInv, kioskVars, RowsHold, OffsetBackedUnlessReset, CompleteIsWhole, ReceivedIsComplete,
              AllComplete, Short
<1>3. \A c \in Blob : HasSession(c) <=> HasSession(c)'
  BY <1>1 DEF HasSession, kioskVars
<1> DEFINE Asked == \E q \in requests : q.late = 0
           Known == /\ sender'.step = "chunk" => sender'.offset < Size[sender'.blob] /\ HasSession(sender'.blob)
                    /\ sender'.step = "acknowledged" => event = "received"
           Attempt == [step : {"idle", "event", "session", "chunk", "final", "acknowledged"},
                       blob : Blob, version : Version, offset : Nat]
<1>4. NoReply \in [result : {"none", "pending", "received", "ready", "error"}, next : Nat]
      /\ NoReply.result = "none"
  BY DEF NoReply
<1>5. 1 \in Blob /\ 0 \in Version /\ Idle \in Attempt /\ Idle.step = "idle"
      /\ [Idle EXCEPT !.step = "event"] \in Attempt /\ [Idle EXCEPT !.step = "final"] \in Attempt
      /\ [Idle EXCEPT !.step = "acknowledged"] \in Attempt
  BY DEF Blob, Version, Idle
<1>6. ASSUME ~Asked, reply' = NoReply, requests' = requests, sender' \in Attempt, Known
      PROVE  TransferInv'
  <2>1. TransferTyped'
    BY <1>1, <1>4, <1>6 DEF TransferInv, TransferTyped, kioskVars
  <2>2. OneIsAsked'
    BY <1>6 DEF OneIsAsked
  <2>3. RequestsFit'
    BY <1>3, <1>6 DEF TransferInv, TransferTyped, RequestStep, RequestsFit
  <2>4. SenderKnows'
    BY <1>1, <1>3, <1>4, <1>6 DEF SenderKnows, kioskVars
  <2>5. QED
    BY <1>2, <2>1, <2>2, <2>3, <2>4 DEF TransferInv
<1> DEFINE May(kind, b, offset, version) ==
             /\ \/ kind = "event" /\ sender'.step \in {"event", "final"}
                \/ kind = sender'.step /\ sender'.blob = b
             /\ kind = "chunk" => offset < Size[b] /\ HasSession(b)
             /\ kind = "session" /\ Size[b] = 0 => version = 0
<1>7. \A kind \in {"event", "session", "chunk"}, b \in Blob, offset \in Nat, version \in Version :
        ~Asked /\ Post(kind, b, offset, version) /\ sender' \in Attempt /\ Known
        /\ May(kind, b, offset, version) => TransferInv'
  <2> SUFFICES ASSUME NEW kind \in {"event", "session", "chunk"}, NEW b \in Blob, NEW offset \in Nat,
                      NEW version \in Version, ~Asked, Post(kind, b, offset, version), sender' \in Attempt,
                      Known, May(kind, b, offset, version)
               PROVE  TransferInv'
    OBVIOUS
  <2> DEFINE q == [kind |-> kind, blob |-> b, offset |-> offset, version |-> version, late |-> 0]
  <2>1. q \in RequestStep /\ q.kind = kind /\ q.blob = b /\ q.offset = offset /\ q.version = version /\ q.late = 0
    BY DEF RequestStep
  <2>2. requests' = requests \cup {q} /\ reply' = NoReply
    BY DEF Post
  <2> HIDE DEF q
  <2>3. TransferTyped'
    BY <1>1, <1>4, <2>1, <2>2 DEF TransferInv, TransferTyped, kioskVars
  <2>4. OneIsAsked'
    <3>1. AsksFor(q)'
      BY <2>1 DEF AsksFor
    <3>2. QED
      BY <2>2, <3>1 DEF OneIsAsked
  <2>5. RequestsFit'
    BY <1>3, <2>1, <2>2 DEF TransferInv, TransferTyped, RequestStep, RequestsFit
  <2>6. SenderKnows'
    BY <1>1, <1>3, <1>4, <2>2 DEF SenderKnows, kioskVars
  <2>7. QED
    BY <1>2, <2>3, <2>4, <2>5, <2>6 DEF TransferInv
<1>8. ASSUME ~Asked, NEW b \in Blob, Open(b) PROVE TransferInv'
  <2>1. Digest(b) \in Version /\ (Size[b] = 0 => Digest(b) = 0)
    BY <1>5 DEF Digest, TransferInv, TransferTyped
  <2>2. sender' \in Attempt /\ sender'.step = "session" /\ sender'.blob = b
    BY <1>8, <2>1 DEF Open
  <2>3. Known /\ Post("session", b, 0, Digest(b)) /\ May("session", b, 0, Digest(b))
    BY <1>8, <2>1, <2>2 DEF Open
  <2> HIDE DEF Asked, Attempt, Known, May
  <2>4. QED
    BY <1>7, <1>8, <2>1, <2>2, <2>3
<1>9. ASSUME ~Asked, Abandon PROVE TransferInv'
  BY <1>5, <1>6, <1>9 DEF Abandon
<1>10. ASSUME ~Asked, HasSession(sender.blob), NEW offset \in Nat, Proceed(offset) PROVE TransferInv'
  <2> DEFINE b == sender.blob
  <2>1. b \in Blob /\ Size[b] \in Nat /\ source[b] \in Version /\ sender \in Attempt
    BY DEF TransferInv, TransferTyped
  <2>2. CASE offset < Size[b] /\ sender' = [sender EXCEPT !.step = "chunk", !.offset = offset]
             /\ Post("chunk", b, offset, source[b])
    <3>1. sender' \in Attempt /\ sender'.step = "chunk" /\ sender'.offset = offset /\ sender'.blob = b
      BY <2>1, <2>2
    <3>2. Known /\ May("chunk", b, offset, source[b])
      BY <1>10, <2>2, <3>1
    <3> HIDE DEF Asked, Attempt, Known, May, b
    <3>3. QED
      BY <1>7, <1>10, <2>1, <2>2, <3>1, <3>2
  <2>3. CASE Abandon
    BY <1>9, <1>10, <2>3
  <2>4. CASE b < BlobCount /\ Open(b + 1)
    <3>1. b + 1 \in Blob
      BY <2>1, <2>4 DEF Blob
    <3>2. QED
      BY <1>8, <1>10, <2>4, <3>1
  <2>5. CASE sender' = [Idle EXCEPT !.step = "final"] /\ Post("event", 1, 0, 0)
    <3>1. sender'.step = "final" /\ sender' \in Attempt
      BY <1>5, <2>5 DEF Idle
    <3>2. Known /\ May("event", 1, 0, 0)
      BY <3>1
    <3> HIDE DEF Asked, Attempt, Known, May
    <3>3. QED
      BY <1>5, <1>7, <1>10, <2>5, <3>1, <3>2
  <2>6. QED
    BY <1>10, <2>2, <2>3, <2>4, <2>5 DEF Proceed
<1>11. CASE Start
  <2>1. ~Asked /\ sender'.step = "event" /\ sender' \in Attempt
    BY <1>5, <1>11 DEF Start, TransferInv, OneIsAsked, AsksFor, Idle
  <2>2. Known /\ May("event", 1, 0, 0)
    BY <2>1
  <2>3. Post("event", 1, 0, 0)
    BY <1>11 DEF Start
  <2> HIDE DEF Asked, Attempt, Known, May
  <2>4. QED
    BY <1>5, <1>7, <2>1, <2>2, <2>3
<1>12. CASE TakeReply
  <2>1. ~Asked /\ reply.next \in Nat
    BY <1>12 DEF TakeReply, TransferInv, TransferTyped, OneIsAsked
  <2>2. CASE reply.result = "received" /\ sender' = [Idle EXCEPT !.step = "acknowledged"]
             /\ reply' = NoReply /\ requests' = requests
    <3>1. sender'.step = "acknowledged" /\ event = "received"
      BY <2>2 DEF Idle, TransferInv, SenderKnows
    <3>2. QED
      BY <1>5, <1>6, <2>1, <2>2, <3>1
  <2>3. CASE Open(1)
    BY <1>5, <1>8, <2>1, <2>3
  <2>4. CASE Abandon
    BY <1>9, <2>1, <2>4
  <2>5. CASE reply.result = "ready" /\ Proceed(reply.next)
    <3>1. HasSession(sender.blob)
      BY <2>5 DEF TransferInv, SenderKnows
    <3>2. QED
      BY <1>10, <2>1, <2>5, <3>1
  <2>6. QED
    BY <1>12, <2>2, <2>3, <2>4, <2>5 DEF TakeReply
<1>13. CASE TimeOut
  <2>1. ~Asked /\ Abandon
    BY <1>13 DEF TimeOut, TransferInv, TransferTyped, RequestStep
  <2>2. QED
    BY <1>9, <2>1
<1>14. QED
  BY <1>11, <1>12, <1>13 DEF SenderStep

\* An event is received only when its blobs are complete.
LEMMA EventSteps ==
  ASSUME TransferInv, NEW q \in requests, HandleEvent(q), UNCHANGED <<source, sender, faults>>
  PROVE  TransferInv' /\ StaysComplete
<1> USE TransferConstantsAssumption DEF TransferConstantsAssumption
<1>1. /\ fileBytes' = fileBytes /\ event \in {"unknown", "pending", "received"}
      /\ event' \in {"pending", "received"} /\ (event = "received" => event' = "received")
      /\ event' = "received" => AllComplete
      /\ \/ upload' = upload /\ event # "unknown"
         \/ /\ event = "unknown" /\ event' = "pending"
            /\ upload' = [b \in Blob |-> [upload[b] EXCEPT !.status = "awaiting"]]
  BY DEF HandleEvent, TransferInv, TransferTyped, ReceivedIsComplete
<1>2. PICK result \in {"pending", "received"} : Answer(q, result, 0) /\ (result = "received" => event' = "received")
  BY DEF HandleEvent
<1>3. upload \in [Blob -> Row] /\ fileBytes \in [Blob -> Seq(Version \cup {Unknown})]
  BY DEF TransferInv, TransferTyped
<1>4. upload' \in [Blob -> Row] /\ \A b \in Blob :
        /\ upload'[b].received = upload[b].received /\ upload'[b].digest = upload[b].digest
        /\ \/ upload'[b].status = upload[b].status
           \/ upload[b].status = "absent" /\ upload'[b].status = "awaiting"
        /\ upload'[b].status # "absent"
  <2>1. CASE upload' = upload /\ event # "unknown"
    BY <1>3, <2>1 DEF TransferInv, RowsHold
  <2>2. CASE event = "unknown" /\ upload' = [b \in Blob |-> [upload[b] EXCEPT !.status = "awaiting"]]
    BY <1>3, <2>2 DEF TransferInv, RowsHold, Row
  <2>3. QED
    BY <1>1, <2>1, <2>2
<1>5. RowsHold' /\ OffsetBackedUnlessReset' /\ CompleteIsWhole'
  BY <1>1, <1>3, <1>4 DEF TransferInv, RowsHold, OffsetBackedUnlessReset, CompleteIsWhole, Short
<1>6. StaysComplete
  <2>1. ASSUME NEW b \in Blob, upload[b].status = "complete" PROVE event # "unknown"
    BY <2>1 DEF TransferInv, RowsHold
  <2>2. QED
    BY <1>1, <2>1 DEF StaysComplete
<1>7. ReceivedIsComplete'
  BY <1>1, <1>6 DEF ReceivedIsComplete, AllComplete, StaysComplete
<1>8. \A c \in Blob : HasSession(c) => HasSession(c)'
  BY <1>1, <1>4 DEF HasSession
<1>9. requests' = requests \ {q} /\ (reply' = reply \/ (q.late = 0 /\ reply' = [result |-> result, next |-> 0]))
  BY <1>2 DEF Answer
<1>10. TransferTyped'
  BY <1>1, <1>3, <1>4, <1>9 DEF TransferInv, TransferTyped
<1>11. OneIsAsked' /\ RequestsFit' /\ SenderKnows'
  <2>1. sender' = sender
    OBVIOUS
  <2>2. \/ reply' = reply
        \/ /\ q.late = 0
           /\ reply'.result = "ready" => q.kind \in {"session", "chunk"} /\ HasSession(q.blob)'
           /\ reply'.result = "received" => event' = "received"
    BY <1>2, <1>9
  <2>3. QED
    BY <1>1, <1>8, <1>9, <2>1, <2>2, RequestIsTaken
<1>12. QED
  BY <1>5, <1>6, <1>7, <1>10, <1>11 DEF TransferInv

\* A session changes no digest of what is durable, and nothing of a complete blob.
LEMMA SessionSteps ==
  ASSUME TransferInv, NEW q \in requests, HandleSession(q), UNCHANGED <<source, sender, faults>>
  PROVE  TransferInv' /\ StaysComplete
<1> USE TransferConstantsAssumption DEF TransferConstantsAssumption
<1> DEFINE b == q.blob
           V == Version \cup {Unknown}
<1>1. b \in Blob /\ q.version \in Version /\ q.version # Unknown /\ q.version \in V
      /\ (Size[b] = 0 => q.version = 0) /\ Size[b] \in Nat /\ q.kind = "session"
  BY DEF HandleSession, TransferInv, TransferTyped, RequestStep, RequestsFit, Version, Unknown
<1>2. upload \in [Blob -> Row] /\ fileBytes \in [Blob -> Seq(V)] /\ event' = event
      /\ upload[b].received \in Nat /\ upload[b].received <= Size[b] /\ TransferTyped
  BY <1>1 DEF TransferInv, TransferTyped, HandleSession, Row, RowsHold
<1>3. CASE UNCHANGED <<upload, fileBytes>> /\ Answer(q, "error", 0)
  <2>1. RowsHold' /\ OffsetBackedUnlessReset' /\ CompleteIsWhole' /\ ReceivedIsComplete' /\ StaysComplete
    BY <1>2, <1>3 DEF TransferInv, RowsHold, OffsetBackedUnlessReset, CompleteIsWhole, ReceivedIsComplete,
                      AllComplete, Short, StaysComplete
  <2>2. \A c \in Blob : HasSession(c) => HasSession(c)'
    BY <1>2, <1>3 DEF HasSession
  <2>3. requests' = requests \ {q} /\ (reply' = reply \/ (q.late = 0 /\ reply' = [result |-> "error", next |-> 0]))
    BY <1>3 DEF Answer
  <2>4. TransferTyped'
    BY <1>2, <1>3, <2>3 DEF TransferTyped
  <2>5. OneIsAsked' /\ RequestsFit' /\ SenderKnows'
    BY <1>2, <2>2, <2>3, RequestIsTaken
  <2>6. QED
    BY <2>1, <2>4, <2>5 DEF TransferInv
<1>4. CASE /\ event = "pending" /\ ~DigestRefused(q) /\ ~Short(b)
           /\ fileBytes' = [fileBytes EXCEPT ![b] = Durable(b)]
           /\ upload' = [upload EXCEPT ![b] = Bound(q)]
           /\ Answer(q, "ready", upload[b].received)
  <2>1. Durable(b) \in Seq(V) /\ Len(Durable(b)) = upload[b].received
        /\ (Len(fileBytes[b]) = upload[b].received => Durable(b) = fileBytes[b])
    BY <1>1, <1>2, <1>4, DurableBytes
  <2>2. /\ Bound(q) \in Row /\ Bound(q).digest = q.version /\ Bound(q).received = upload[b].received
        /\ Size[b] = 0 => Bound(q).status = "complete"
        /\ Size[b] # 0 => Bound(q).status = IF upload[b].status = "awaiting" THEN "partial" ELSE upload[b].status
    <3> DEFINE s == IF Size[b] = 0 THEN "complete"
                    ELSE IF upload[b].status = "awaiting" THEN "partial" ELSE upload[b].status
    <3>1. Bound(q) = [upload[b] EXCEPT !.digest = q.version, !.status = s] /\ upload[b] \in Row
      BY <1>1, <1>2 DEF Bound
    <3>2. s \in {"absent", "awaiting", "partial", "complete"}
      BY <3>1 DEF Row
    <3>3. (Size[b] = 0 => s = "complete")
          /\ (Size[b] # 0 => s = IF upload[b].status = "awaiting" THEN "partial" ELSE upload[b].status)
      OBVIOUS
    <3> HIDE DEF s
    <3>4. Bound(q) \in Row /\ Bound(q).digest = q.version /\ Bound(q).received = upload[b].received /\ Bound(q).status = s
      BY <1>1, <3>1, <3>2 DEF Row
    <3>5. QED
      BY <3>3, <3>4
  <2>3. upload' \in [Blob -> Row] /\ fileBytes' \in [Blob -> Seq(V)]
        /\ upload'[b] = Bound(q) /\ fileBytes'[b] = Durable(b)
        /\ \A c \in Blob \ {b} : upload'[c] = upload[c] /\ fileBytes'[c] = fileBytes[c]
    BY <1>1, <1>2, <1>4, <2>1, <2>2
  <2>4. ASSUME upload[b].status = "complete"
        PROVE  Bound(q) = upload[b] /\ Durable(b) = fileBytes[b]
    <3>1. /\ upload[b].received = Size[b] /\ Len(fileBytes[b]) = Size[b] /\ upload[b] \in Row
          /\ (Size[b] = 0 => upload[b].digest = 0) /\ (Size[b] # 0 => upload[b].digest # Unknown)
      BY <1>1, <1>2, <2>4 DEF TransferInv, RowsHold, CompleteIsWhole
    <3>2. upload[b].digest = q.version
      BY <1>1, <1>4, <3>1 DEF DigestRefused
    <3>3. Bound(q).status = "complete"
      BY <2>2, <2>4
    <3>4. Bound(q) = upload[b]
      BY <2>2, <2>4, <3>1, <3>2, <3>3 DEF Row
    <3>5. QED
      BY <2>1, <3>1, <3>4
  <2>5. ASSUME Bound(q).status = "complete"
        PROVE  /\ upload[b].received = Size[b]
               /\ \A i \in 1 .. Size[b] : Durable(b)[i] = q.version
               /\ Size[b] = 0 => q.version = 0
    <3>1. CASE Size[b] = 0
      BY <1>1, <1>2, <3>1
    <3>2. CASE Size[b] # 0
      <4>1. upload[b].status = "complete"
        BY <2>2, <2>5, <3>2
      <4>2. QED
        BY <1>1, <1>2, <2>2, <2>4, <3>2, <4>1 DEF TransferInv, RowsHold, CompleteIsWhole
    <3>3. QED
      BY <3>1, <3>2
  <2>6. (event = "unknown") = (Bound(q).status = "absent")
    BY <1>1, <1>4, <2>2 DEF TransferInv, RowsHold
  <2>7. /\ RowsHold' /\ OffsetBackedUnlessReset' /\ CompleteIsWhole' /\ ReceivedIsComplete'
        /\ StaysComplete /\ \A c \in Blob : HasSession(c) => HasSession(c)'
    <3>1. /\ upload'[b].received <= Size[b] /\ Len(fileBytes'[b]) <= Size[b]
          /\ upload'[b].received > 0 => upload'[b].digest # Unknown
          /\ Len(fileBytes'[b]) < upload'[b].received => fileBytes'[b] = <<>>
          /\ upload[b].digest # Unknown => upload'[b].digest # Unknown
      BY <1>1, <1>2, <2>1, <2>2, <2>3
    <3>2. /\ upload'[b].status = "complete" =>
                /\ upload'[b].received = Size[b] /\ Len(fileBytes'[b]) = Size[b]
                /\ \A i \in 1 .. Size[b] : fileBytes'[b][i] = upload'[b].digest
                /\ Size[b] = 0 => upload'[b].digest = 0
          /\ upload[b].status = "complete" => upload'[b] = upload[b] /\ fileBytes'[b] = fileBytes[b]
      BY <2>1, <2>2, <2>3, <2>4, <2>5
    <3>3. (event = "unknown") = (upload'[b].status = "absent")
      BY <2>3, <2>6
    <3> HIDE DEF b
    <3>4. QED
      BY <1>1, <1>2, <2>3, <3>1, <3>2, <3>3, BlobIsWritten
  <2>8. requests' = requests \ {q}
        /\ (reply' = reply \/ (q.late = 0 /\ reply' = [result |-> "ready", next |-> upload[b].received]))
    BY <1>4 DEF Answer
  <2>9. TransferTyped'
    BY <1>2, <2>3, <2>8 DEF TransferTyped
  <2>10. OneIsAsked' /\ RequestsFit' /\ SenderKnows'
    <3>1. HasSession(b)'
      BY <1>1, <1>2, <1>4, <2>2, <2>3 DEF HasSession
    <3>2. sender' = sender
      OBVIOUS
    <3>3. \/ reply' = reply
          \/ /\ q.late = 0
             /\ reply'.result = "ready" => q.kind \in {"session", "chunk"} /\ HasSession(b)'
             /\ reply'.result = "received" => event' = "received"
      BY <1>1, <2>8, <3>1
    <3>4. QED
      BY <1>2, <2>7, <2>8, <3>2, <3>3, RequestIsTaken
  <2>11. QED
    BY <2>7, <2>9, <2>10 DEF TransferInv
<1>5. QED
  BY <1>3, <1>4 DEF HandleSession

\* What a chunk at the durable offset makes of its blob is as it should be.
LEMMA ChunkBecomes ==
  ASSUME TransferInv, NEW q \in requests, Appends(q)
  PROVE  LET b == q.blob after == RowAfter(q) bytes == FileAfter(q)
         IN  /\ after \in Row /\ after.digest = upload[b].digest /\ after.status # "absent"
             /\ bytes \in Seq(Version \cup {Unknown})
             /\ after.received <= Size[b] /\ Len(bytes) <= Size[b] /\ after.received <= Len(bytes)
             /\ Len(bytes) < upload[b].received => bytes = <<>>
             /\ after.status = "complete" =>
                  /\ after.received = Size[b] /\ Len(bytes) = Size[b] /\ Size[b] # 0
                  /\ \A i \in 1 .. Size[b] : bytes[i] = upload[b].digest
<1> DEFINE b == q.blob
           V == Version \cup {Unknown}
           n == NextOffset(q)
           w == Written(q)
<1> USE TransferConstantsAssumption DEF TransferConstantsAssumption
<1>1. /\ b \in Blob /\ n \in Nat /\ upload[b].received < n /\ n <= Size[b] /\ w \in Seq(V) /\ Len(w) = n
      /\ upload[b] \in Row /\ upload[b].received \in Nat /\ Size[b] \in Nat
  BY WrittenBytes DEF TransferInv, TransferTyped, Row
<1> DEFINE wrong == Mismatch(q)
           got == IF wrong THEN 0 ELSE n
           s == IF wrong \/ n < Size[b] THEN "partial" ELSE "complete"
<1>2. RowAfter(q) = [upload[b] EXCEPT !.received = got, !.status = s]
      /\ FileAfter(q) = IF wrong THEN <<>> ELSE w
  BY DEF RowAfter, FileAfter
<1>3. ~wrong /\ n = Size[b] => \A i \in 1 .. Size[b] : w[i] = upload[b].digest
  BY DEF Mismatch
<1>4. got \in Nat /\ s \in {"partial", "complete"} /\ (s = "complete" => ~wrong /\ n = Size[b])
      /\ (wrong => got = 0) /\ (~wrong => got = n)
  BY <1>1
<1> HIDE DEF got, s, b, n, w, V, wrong
<1>5. /\ RowAfter(q) \in Row /\ RowAfter(q).digest = upload[b].digest /\ RowAfter(q).received = got
      /\ RowAfter(q).status = s
  BY <1>1, <1>2, <1>4 DEF Row
<1>6. CASE wrong
  <2>1. FileAfter(q) = <<>> /\ got = 0 /\ s # "complete" /\ Len(<<>>) = 0 /\ <<>> \in Seq(V)
    BY <1>2, <1>4, <1>6
  <2>2. QED
    BY <1>1, <1>4, <1>5, <2>1 DEF b, V
<1>7. CASE ~wrong
  BY <1>1, <1>2, <1>3, <1>4, <1>5, <1>7 DEF b, V
<1>8. QED
  BY <1>6, <1>7

\* A step that appends a chunk, stops in the middle of it, or fails: it writes
\* the row and the file as they were, or as the chunk makes them.
LEMMA ChunkIsWritten ==
  ASSUME TransferInv, NEW q \in requests, Appends(q), NEW after, NEW bytes, event' = event,
         upload' = [upload EXCEPT ![q.blob] = after], fileBytes' = [fileBytes EXCEPT ![q.blob] = bytes],
         \/ after = RowAfter(q) /\ bytes = FileAfter(q)
         \/ after = upload[q.blob] /\ bytes = FileAfter(q)
         \/ after = upload[q.blob] /\ bytes \in Seq(Version \cup {Unknown}) /\ Len(bytes) = upload[q.blob].received
  PROVE  /\ upload' \in [Blob -> Row] /\ fileBytes' \in [Blob -> Seq(Version \cup {Unknown})]
         /\ RowsHold' /\ OffsetBackedUnlessReset' /\ CompleteIsWhole' /\ ReceivedIsComplete'
         /\ StaysComplete /\ \A c \in Blob : HasSession(c) => HasSession(c)'
<1> DEFINE b == q.blob
           V == Version \cup {Unknown}
<1> USE TransferConstantsAssumption DEF TransferConstantsAssumption
<1>1. /\ b \in Blob /\ upload \in [Blob -> Row] /\ fileBytes \in [Blob -> Seq(V)] /\ Size[b] \in Nat
      /\ q.offset < Size[b] /\ q.offset = upload[b].received /\ HasSession(b)
  BY DEF TransferInv, TransferTyped, RequestStep, RequestsFit, Appends
<1>2. upload[b] \in Row /\ upload[b].received \in Nat /\ upload[b].received < Size[b]
      /\ upload[b].status # "complete" /\ upload[b].status # "absent" /\ upload[b].digest # Unknown /\ event # "unknown"
  BY <1>1 DEF TransferInv, RowsHold, HasSession, Row
<1>3. /\ RowAfter(q) \in Row /\ RowAfter(q).digest = upload[b].digest /\ RowAfter(q).status # "absent"
      /\ FileAfter(q) \in Seq(V)
      /\ RowAfter(q).received <= Size[b] /\ Len(FileAfter(q)) <= Size[b]
      /\ RowAfter(q).received <= Len(FileAfter(q))
      /\ Len(FileAfter(q)) < upload[b].received => FileAfter(q) = <<>>
      /\ RowAfter(q).status = "complete" =>
           /\ RowAfter(q).received = Size[b] /\ Len(FileAfter(q)) = Size[b] /\ Size[b] # 0
           /\ \A i \in 1 .. Size[b] : FileAfter(q)[i] = upload[b].digest
  BY ChunkBecomes
<1>4. after \in Row /\ bytes \in Seq(V)
  BY <1>2, <1>3
<1>5. /\ upload' \in [Blob -> Row] /\ fileBytes' \in [Blob -> Seq(V)] /\ upload'[b] = after /\ fileBytes'[b] = bytes
      /\ \A c \in Blob \ {b} : upload'[c] = upload[c] /\ fileBytes'[c] = fileBytes[c]
  BY <1>1, <1>4
<1> HIDE DEF V
<1>6. /\ after.digest = upload[b].digest /\ after.status # "absent" /\ after.received <= Size[b] /\ Len(bytes) <= Size[b]
      /\ after.status = "complete" => after = RowAfter(q) /\ bytes = FileAfter(q)
  <2>1. CASE after = RowAfter(q) /\ bytes = FileAfter(q)
    BY <1>3, <2>1
  <2>2. CASE after = upload[b] /\ bytes = FileAfter(q)
    <3>1. after.received <= Size[b]
      BY <1>1, <1>2, <2>2
    <3>2. Len(bytes) <= Size[b]
      BY <1>3, <2>2
    <3>3. QED
      BY <1>2, <2>2, <3>1, <3>2
  <2>3. CASE after = upload[b] /\ Len(bytes) = upload[b].received
    BY <1>1, <1>2, <2>3
  <2>4. QED
    BY <2>1, <2>2, <2>3
<1>7. Len(bytes) < after.received => bytes = <<>>
  <2>1. Len(FileAfter(q)) \in Nat /\ RowAfter(q).received \in Nat
    BY <1>3 DEF Row, V
  <2>2. QED
    BY <1>2, <1>3, <2>1
<1>8. after.status = "complete" =>
        /\ after.received = Size[b] /\ Len(bytes) = Size[b]
        /\ \A i \in 1 .. Size[b] : bytes[i] = after.digest
        /\ Size[b] = 0 => after.digest = 0
  BY <1>3, <1>6
<1> HIDE DEF b
<1>9. /\ RowsHold' /\ OffsetBackedUnlessReset' /\ CompleteIsWhole' /\ ReceivedIsComplete'
      /\ StaysComplete /\ \A c \in Blob : HasSession(c) => HasSession(c)'
  <2>1. /\ (event = "unknown") = (upload'[b].status = "absent")
        /\ upload'[b].received <= Size[b] /\ Len(fileBytes'[b]) <= Size[b]
        /\ upload'[b].received > 0 => upload'[b].digest # Unknown
    BY <1>2, <1>5, <1>6
  <2>2. upload[b].digest # Unknown => upload'[b].digest # Unknown
    BY <1>2, <1>5, <1>6
  <2>3. upload[b].status = "complete" => upload'[b] = upload[b] /\ fileBytes'[b] = fileBytes[b]
    BY <1>2
  <2>4. Len(fileBytes'[b]) < upload'[b].received => fileBytes'[b] = <<>>
    BY <1>5, <1>7
  <2>5. upload'[b].status = "complete" =>
           /\ upload'[b].received = Size[b] /\ Len(fileBytes'[b]) = Size[b]
           /\ \A i \in 1 .. Size[b] : fileBytes'[b][i] = upload'[b].digest
           /\ Size[b] = 0 => upload'[b].digest = 0
    BY <1>5, <1>8
  <2>6. QED
    BY <1>1, <1>5, <2>1, <2>2, <2>3, <2>4, <2>5, BlobIsWritten DEF V
<1>10. QED
  BY <1>5, <1>9 DEF V

\* A chunk is appended, answered from what is there, or refused.
LEMMA ChunkSteps ==
  ASSUME TransferInv, NEW q \in requests, HandleChunk(q), UNCHANGED <<source, sender, faults>>
  PROVE  TransferInv' /\ StaysComplete
<1> DEFINE b == q.blob
           V == Version \cup {Unknown}
           Result == {"error", "ready"}
<1> USE TransferConstantsAssumption DEF TransferConstantsAssumption
<1>1. /\ b \in Blob /\ upload \in [Blob -> Row] /\ fileBytes \in [Blob -> Seq(V)] /\ upload[b].received \in Nat
      /\ TransferTyped /\ q.kind = "chunk" /\ HasSession(b) /\ event' = event /\ sender' = sender
  BY DEF TransferInv, TransferTyped, RequestStep, RequestsFit, HandleChunk, Row
<1>2. ASSUME upload' \in [Blob -> Row], fileBytes' \in [Blob -> Seq(V)],
             RowsHold' /\ OffsetBackedUnlessReset' /\ CompleteIsWhole' /\ ReceivedIsComplete',
             \A c \in Blob : HasSession(c) => HasSession(c)',
             NEW result \in Result, NEW next \in Nat, Answer(q, result, next)
      PROVE  TransferInv'
  <2>1. /\ requests' = requests \ {q}
        /\ reply' = reply \/ (q.late = 0 /\ reply' = [result |-> result, next |-> next])
    BY <1>2 DEF Answer
  <2>2. TransferTyped'
    BY <1>1, <1>2, <2>1 DEF TransferTyped
  <2>3. \/ reply' = reply
        \/ /\ q.late = 0
           /\ reply'.result = "ready" => q.kind \in {"session", "chunk"} /\ HasSession(b)'
           /\ reply'.result = "received" => event' = "received"
    BY <1>1, <1>2, <2>1
  <2>4. OneIsAsked' /\ RequestsFit' /\ SenderKnows'
    BY <1>1, <1>2, <2>1, <2>3, RequestIsTaken
  <2>5. QED
    BY <1>2, <2>2, <2>4 DEF TransferInv
<1>3. CASE /\ Appends(q)
           /\ fileBytes' = [fileBytes EXCEPT ![b] = FileAfter(q)]
           /\ upload' = [upload EXCEPT ![b] = RowAfter(q)]
           /\ Answer(q, IF Mismatch(q) THEN "error" ELSE "ready", NextOffset(q))
  <2>1. /\ upload' \in [Blob -> Row] /\ fileBytes' \in [Blob -> Seq(V)]
        /\ RowsHold' /\ OffsetBackedUnlessReset' /\ CompleteIsWhole' /\ ReceivedIsComplete'
        /\ StaysComplete /\ \A c \in Blob : HasSession(c) => HasSession(c)'
    BY <1>1, <1>3, ChunkIsWritten
  <2>2. NextOffset(q) \in Nat
    BY <1>1, <1>3, WrittenBytes DEF TransferInv
  <2>3. PICK result \in Result : Answer(q, result, NextOffset(q))
    BY <1>3
  <2> HIDE DEF Result, V
  <2>4. QED
    BY <1>2, <2>1, <2>2, <2>3
<1>4. CASE /\ ~Short(b)
           /\ fileBytes' = [fileBytes EXCEPT ![b] = Durable(b)]
           /\ upload' = upload
           /\ Answer(q, IF Replayed(q) THEN "ready" ELSE "error", upload[b].received)
  <2>1. Durable(b) \in Seq(V) /\ Len(Durable(b)) = upload[b].received
        /\ (Len(fileBytes[b]) = upload[b].received => Durable(b) = fileBytes[b])
    BY <1>1, <1>4, DurableBytes
  <2>2. fileBytes' \in [Blob -> Seq(V)] /\ fileBytes'[b] = Durable(b)
        /\ \A c \in Blob \ {b} : upload'[c] = upload[c] /\ fileBytes'[c] = fileBytes[c]
    BY <1>1, <1>4, <2>1
  <2>3. upload[b].status = "complete" => Durable(b) = fileBytes[b]
    BY <1>1, <2>1 DEF TransferInv, RowsHold, CompleteIsWhole
  <2> HIDE DEF Result, V
  <2>4. /\ (event = "unknown") = (upload[b].status = "absent")
        /\ upload[b].received <= Size[b] /\ (upload[b].received > 0 => upload[b].digest # Unknown)
        /\ upload[b].status = "complete" =>
              /\ upload[b].received = Size[b] /\ Len(fileBytes[b]) = Size[b]
              /\ \A i \in 1 .. Size[b] : fileBytes[b][i] = upload[b].digest
              /\ Size[b] = 0 => upload[b].digest = 0
    BY <1>1 DEF TransferInv, RowsHold, CompleteIsWhole
  <2>5. Len(Durable(b)) <= Size[b] /\ ~(Len(Durable(b)) < upload[b].received)
    BY <1>1, <2>1, <2>4
  <2>6. /\ RowsHold' /\ OffsetBackedUnlessReset' /\ CompleteIsWhole' /\ ReceivedIsComplete'
        /\ StaysComplete /\ \A c \in Blob : HasSession(c) => HasSession(c)'
    <3>1. /\ upload' \in [Blob -> Row] /\ (event = "unknown") = (upload'[b].status = "absent")
          /\ upload'[b].received <= Size[b] /\ Len(fileBytes'[b]) <= Size[b]
          /\ upload'[b].received > 0 => upload'[b].digest # Unknown
          /\ Len(fileBytes'[b]) < upload'[b].received => fileBytes'[b] = <<>>
          /\ upload[b].digest # Unknown => upload'[b].digest # Unknown
      BY <1>1, <1>4, <2>2, <2>4, <2>5
    <3>2. /\ upload'[b].status = "complete" =>
              /\ upload'[b].received = Size[b] /\ Len(fileBytes'[b]) = Size[b]
              /\ \A i \in 1 .. Size[b] : fileBytes'[b][i] = upload'[b].digest
              /\ Size[b] = 0 => upload'[b].digest = 0
          /\ upload[b].status = "complete" => upload'[b] = upload[b] /\ fileBytes'[b] = fileBytes[b]
      BY <1>4, <2>2, <2>3, <2>4
    <3> HIDE DEF b
    <3>3. QED
      BY <1>1, <2>2, <3>1, <3>2, BlobIsWritten DEF V
  <2>7. PICK result \in Result : Answer(q, result, upload[b].received)
    BY <1>4 DEF Result
  <2>8. QED
    BY <1>1, <1>2, <1>4, <2>2, <2>6, <2>7
<1>5. CASE UNCHANGED <<upload, fileBytes>> /\ Answer(q, "error", 0)
  <2>1. RowsHold' /\ OffsetBackedUnlessReset' /\ CompleteIsWhole' /\ ReceivedIsComplete' /\ StaysComplete
    BY <1>1, <1>5 DEF TransferInv, RowsHold, OffsetBackedUnlessReset, CompleteIsWhole, ReceivedIsComplete,
                      AllComplete, Short, StaysComplete
  <2>2. \A c \in Blob : HasSession(c) => HasSession(c)'
    BY <1>1, <1>5 DEF HasSession
  <2>3. "error" \in Result /\ 0 \in Nat
    OBVIOUS
  <2> HIDE DEF Result, V
  <2>4. QED
    BY <1>1, <1>2, <1>5, <2>1, <2>2, <2>3
<1>6. QED
  BY <1>3, <1>4, <1>5 DEF HandleChunk

\* Whatever stops or fails in the middle of a chunk, or is lost.
LEMMA FaultSteps ==
  ASSUME TransferInv, NEW q \in requests, CrashInChunk(q) \/ FailInChunk(q) \/ LoseRequest(q)
  PROVE  TransferInv' /\ StaysComplete
<1> DEFINE b == q.blob
           V == Version \cup {Unknown}
<1> USE TransferConstantsAssumption DEF TransferConstantsAssumption
<1>1. /\ b \in Blob /\ upload \in [Blob -> Row] /\ fileBytes \in [Blob -> Seq(V)] /\ upload[b].received \in Nat
      /\ TransferTyped
  BY DEF TransferInv, TransferTyped, RequestStep, Row
<1>2. /\ faults' \in 0 .. MaxFaults /\ source' = source /\ event' = event /\ sender' = sender
      /\ requests' = requests \ {q}
      /\ reply' = reply \/ (q.late = 0 /\ reply' = [result |-> "error", next |-> 0])
  BY <1>1 DEF CrashInChunk, FailInChunk, LoseRequest, Fault, Answer, TransferTyped
<1>3. /\ upload' \in [Blob -> Row] /\ fileBytes' \in [Blob -> Seq(V)]
      /\ RowsHold' /\ OffsetBackedUnlessReset' /\ CompleteIsWhole' /\ ReceivedIsComplete'
      /\ StaysComplete /\ \A c \in Blob : HasSession(c) => HasSession(c)'
  <2>1. CASE CrashInChunk(q)
    BY <1>2, <2>1, ChunkIsWritten DEF CrashInChunk, LeftBehind
  <2>2. CASE FailInChunk(q)
    <3>1. upload' = [upload EXCEPT ![b] = upload[b]] /\ Appends(q) /\ ~Short(b)
      BY <1>1, <2>2 DEF FailInChunk, Appends
    <3>2. PICK bytes : /\ bytes \in Seq(V) /\ Len(bytes) = upload[b].received
                       /\ fileBytes' = [fileBytes EXCEPT ![b] = bytes]
      <4>1. Durable(b) \in Seq(V) /\ Len(Durable(b)) = upload[b].received
        BY <1>1, <3>1, DurableBytes
      <4> DEFINE zeros == [i \in 1 .. upload[b].received |-> Unknown]
      <4>2. zeros \in Seq(V) /\ Len(zeros) = upload[b].received
        BY <1>1
      <4>3. fileBytes' = [fileBytes EXCEPT ![b] = Durable(b)] \/ fileBytes' = [fileBytes EXCEPT ![b] = zeros]
        BY <2>2 DEF FailInChunk
      <4> HIDE DEF zeros, V, b
      <4>4. QED
        BY <4>1, <4>2, <4>3
    <3>3. QED
      BY <1>2, <3>1, <3>2, ChunkIsWritten
  <2>3. CASE LoseRequest(q)
    BY <1>1, <1>2, <2>3
    DEF LoseRequest, TransferInv, RowsHold, OffsetBackedUnlessReset, CompleteIsWhole, ReceivedIsComplete, AllComplete,
        Short, StaysComplete, HasSession
  <2>4. QED
    BY <2>1, <2>2, <2>3
<1>4. TransferTyped'
  BY <1>1, <1>2, <1>3 DEF TransferTyped
<1>5. OneIsAsked' /\ RequestsFit' /\ SenderKnows'
  <2>1. \/ reply' = reply
        \/ /\ q.late = 0
           /\ reply'.result = "ready" => q.kind \in {"session", "chunk"} /\ HasSession(b)'
           /\ reply'.result = "received" => event' = "received"
    BY <1>2
  <2>2. QED
    BY <1>2, <1>3, <2>1, RequestIsTaken
<1>6. QED
  BY <1>3, <1>4, <1>5 DEF TransferInv

\* A request that was given up stays on its way; nothing is waited for any more.
LEMMA GiveUpSteps == ASSUME TransferInv, NEW q \in requests, GiveUp(q) PROVE TransferInv'
<1> USE TransferConstantsAssumption DEF TransferConstantsAssumption
<1> DEFINE late == [q EXCEPT !.late = faults + 1]
<1>1. /\ faults \in Nat /\ faults + 1 \in 1 .. MaxFaults /\ faults' = faults + 1 /\ q \in RequestStep /\ q.late = 0
      /\ requests' = (requests \ {q}) \cup {late} /\ sender' = Idle /\ reply = NoReply
      /\ UNCHANGED <<source, event, upload, fileBytes, reply>>
  BY DEF GiveUp, TransferInv, TransferTyped, OneIsAsked, kioskVars
<1>2. /\ late \in RequestStep /\ late.late = faults + 1 /\ late.late # 0
      /\ late.kind = q.kind /\ late.blob = q.blob /\ late.offset = q.offset /\ late.version = q.version
  <2> DEFINE n == faults + 1
  <2>1. n \in 0 .. MaxFaults /\ n # 0
    BY <1>1
  <2> HIDE DEF n
  <2>2. [q EXCEPT !.late = n] \in RequestStep
    BY <1>1, <2>1 DEF RequestStep
  <2>3. [q EXCEPT !.late = n].late = n /\ [q EXCEPT !.late = n].kind = q.kind /\ [q EXCEPT !.late = n].blob = q.blob
        /\ [q EXCEPT !.late = n].offset = q.offset /\ [q EXCEPT !.late = n].version = q.version
    BY <1>1 DEF RequestStep
  <2>4. QED
    BY <2>1, <2>2, <2>3 DEF n
<1> HIDE DEF late
<1>3. RowsHold' /\ OffsetBackedUnlessReset' /\ CompleteIsWhole' /\ ReceivedIsComplete'
  BY <1>1 DEF TransferInv, RowsHold, OffsetBackedUnlessReset, CompleteIsWhole, ReceivedIsComplete, AllComplete, Short
<1>4. \A c \in Blob : HasSession(c) => HasSession(c)'
  BY <1>1 DEF HasSession
<1>5. 1 \in Blob /\ 0 \in Version /\ Idle.step = "idle" /\ NoReply.result = "none"
      /\ Idle \in [step : {"idle", "event", "session", "chunk", "final", "acknowledged"},
                   blob : Blob, version : Version, offset : Nat]
  BY DEF Blob, Version, Idle, NoReply
<1>6. TransferTyped'
  BY <1>1, <1>2, <1>5 DEF TransferInv, TransferTyped
<1>7. OneIsAsked'
  BY <1>1, <1>2 DEF TransferInv, OneIsAsked
<1>8. RequestsFit'
  BY <1>1, <1>2, <1>4 DEF TransferInv, TransferTyped, RequestStep, RequestsFit
<1>9. SenderKnows'
  BY <1>1, <1>5 DEF SenderKnows
<1>10. QED
  BY <1>3, <1>6, <1>7, <1>8, <1>9 DEF TransferInv

\* Every step keeps the invariant, and what is complete.
LEMMA TransferStep == TransferInv /\ [TransferNext]_transferVars => TransferInv' /\ StaysComplete
<1> SUFFICES ASSUME TransferInv, [TransferNext]_transferVars PROVE TransferInv' /\ StaysComplete
  OBVIOUS
<1> USE TransferConstantsAssumption DEF TransferConstantsAssumption
<1>1. CASE UNCHANGED transferVars
  BY <1>1 DEF transferVars, kioskVars, TransferInv, TransferTyped, RowsHold, OffsetBackedUnlessReset, Short,
              CompleteIsWhole, ReceivedIsComplete, AllComplete, OneIsAsked, AsksFor, RequestsFit, SenderKnows,
              HasSession, StaysComplete
<1>2. ASSUME NEW b \in Blob, EditSource(b) PROVE TransferInv' /\ StaysComplete
  <2>1. source' \in [Blob -> Version]
    BY <1>2 DEF EditSource, TransferInv, TransferTyped, Version
  <2>2. UNCHANGED <<event, upload, fileBytes, sender, requests, reply, faults>>
    BY <1>2 DEF EditSource, kioskVars
  <2>3. QED
    BY <2>1, <2>2 DEF TransferInv, TransferTyped, RowsHold, OffsetBackedUnlessReset, Short, CompleteIsWhole,
                      ReceivedIsComplete, AllComplete, OneIsAsked, AsksFor, RequestsFit, SenderKnows, HasSession,
                      StaysComplete
<1>3. CASE SenderStep
  BY <1>3, SenderSteps DEF SenderStep, kioskVars, StaysComplete
<1>4. ASSUME NEW q \in requests, Handle(q) PROVE TransferInv' /\ StaysComplete
  BY <1>4, EventSteps, SessionSteps, ChunkSteps DEF Handle
<1>5. ASSUME NEW q \in requests, GiveUp(q) PROVE TransferInv' /\ StaysComplete
  BY <1>5, GiveUpSteps DEF GiveUp, kioskVars, StaysComplete
<1>6. ASSUME NEW q \in requests, CrashInChunk(q) \/ FailInChunk(q) \/ LoseRequest(q)
      PROVE  TransferInv' /\ StaysComplete
  BY <1>6, FaultSteps
<1>7. CASE LoseReply
  <2>1. /\ UNCHANGED <<source, event, upload, fileBytes, sender, requests>> /\ reply' = NoReply
        /\ faults' \in 0 .. MaxFaults
    BY <1>7 DEF LoseReply, Fault, TransferInv, TransferTyped
  <2>2. NoReply \in [result : {"none", "pending", "received", "ready", "error"}, next : Nat] /\ NoReply.result = "none"
    BY DEF NoReply
  <2>3. TransferTyped' /\ RowsHold' /\ OffsetBackedUnlessReset' /\ CompleteIsWhole' /\ ReceivedIsComplete' /\ StaysComplete
    BY <2>1, <2>2 DEF TransferInv, TransferTyped, RowsHold, OffsetBackedUnlessReset, Short, CompleteIsWhole,
                      ReceivedIsComplete, AllComplete, StaysComplete
  <2>4. OneIsAsked' /\ RequestsFit' /\ SenderKnows'
    BY <2>1, <2>2 DEF TransferInv, OneIsAsked, AsksFor, RequestsFit, SenderKnows, HasSession
  <2>5. QED
    BY <2>3, <2>4 DEF TransferInv
<1>8. QED
  BY <1>1, <1>2, <1>3, <1>4, <1>5, <1>6, <1>7 DEF TransferNext, Kiosk

\* A kiosk that acknowledges an event holds each of its blobs whole and of one
\* version, and no later session, chunk or failure touches a complete blob.
THEOREM TransfersKeepBlobs == TransferSpec => BlobsAreKept
<1>1. TransferInv => TransferTypeOK /\ ReceivedIsIntact /\ OffsetBackedUnlessReset
  BY DEF TransferInv, TransferTypeOK, ReceivedIsIntact, ReceivedIsComplete, AllComplete, CompleteIsWhole, SenderKnows
<1>2. TransferInv /\ [TransferNext]_transferVars =>
        [\A b \in Blob : upload[b].status = "complete" => upload'[b] = upload[b] /\ fileBytes'[b] = fileBytes[b]]_transferVars
  BY TransferStep DEF StaysComplete
<1>3. TransferSpec => []TransferInv
  BY TransferBegins, TransferStep, PTL DEF TransferSpec
<1>4. QED
  BY <1>1, <1>2, <1>3, PTL DEF TransferSpec, BlobsAreKept, CompleteIsFinal

(***************************************************************************)
(* The message view                                                        *)
(***************************************************************************)

\* The types, without the number of new messages, which follows from them.
FeedTyped ==
  /\ kindOf \in [Event -> EventKind]
  /\ held \subseteq Event /\ whole \subseteq Event /\ offered \subseteq Event
  /\ file \in [Event -> {"absent", "intact", "other"}]
  /\ copying \in Event \union {0} /\ checkpoint \in 0..LastEvent

\* The new messages are counted from the types.
LEMMA FeedTypedCounts == FeedTyped => RelayFeedTypeOK /\ MessageCount \in 0..LastEvent
<1> SUFFICES ASSUME FeedTyped PROVE RelayFeedTypeOK /\ MessageCount \in 0..LastEvent
  OBVIOUS
<1>1. IsFiniteSet(Event) /\ Cardinality(Event) = LastEvent
  BY FeedConstants, FS_Interval DEF Event
<1>2. {e \in held : Message(e)} \subseteq Event
  BY DEF FeedTyped
<1>3. Cardinality({e \in held : Message(e)}) <= LastEvent /\ Cardinality({e \in held : Message(e)}) \in Nat
  BY <1>1, <1>2, FS_Subset, FS_CardinalityType
<1>4. MessageCount \in 0..LastEvent
  BY <1>3, FeedConstants DEF MessageCount
<1>5. checkpoint \in 0..LastEvent
  BY DEF FeedTyped
<1>6. NewMessages \in 0..LastEvent
  BY <1>4, <1>5, FeedConstants DEF NewMessages
<1>7. QED
  BY <1>4, <1>6 DEF FeedTyped, RelayFeedTypeOK

\* Each step keeps the types.
LEMMA FeedTypedStep == FeedTyped /\ [RelayFeedNext]_relayFeedVars => FeedTyped'
<1> SUFFICES ASSUME FeedTyped, [RelayFeedNext]_relayFeedVars PROVE FeedTyped'
  OBVIOUS
<1>1. CASE \E e \in Event : Ingest(e)
  BY <1>1 DEF Ingest, FeedTyped
<1>2. CASE \E e \in Event : Publish(e)
  <2>1. PICK e \in Event : Publish(e)
    BY <1>2
  <2>2. UNCHANGED <<kindOf, held, whole, checkpoint>>
    BY <2>1 DEF Publish
  <2>3. \/ UNCHANGED <<file, copying>> /\ offered' \in SUBSET (offered \union {e})
        \/ file' = [file EXCEPT ![e] = "intact"] /\ offered' = offered \union {e} /\ UNCHANGED copying
        \/ copying' = e /\ UNCHANGED <<file, offered>>
    BY <2>1 DEF Publish, PublishFile, Withdraw
  <2>4. QED
    BY <2>2, <2>3 DEF FeedTyped
<1>3. CASE \E e \in Event : Meddle(e)
  BY <1>3 DEF Meddle, FeedTyped
<1>4. CASE StoreReset
  BY <1>4 DEF StoreReset, FeedTyped
<1>5. CASE Copied
  BY <1>5 DEF Copied, FeedTyped
<1>6. CASE CopyFails
  BY <1>6 DEF CopyFails, FeedTyped
<1>7. CASE CountSeen
  <2>1. MessageCount \in 0..LastEvent
    BY FeedTypedCounts
  <2>2. QED
    BY <1>7, <2>1 DEF CountSeen, FeedTyped
<1>8. CASE UNCHANGED relayFeedVars
  BY <1>8 DEF relayFeedVars, FeedTyped
<1>9. QED
  BY <1>1, <1>2, <1>3, <1>4, <1>5, <1>6, <1>7, <1>8 DEF RelayFeedNext

\* An attachment is offered by what has just seen or made its file.
LEMMA OffersWhole ==
  FeedTyped /\ [RelayFeedNext]_relayFeedVars => \A e \in offered' \ offered : file'[e] = "intact"
<1> SUFFICES ASSUME FeedTyped, [RelayFeedNext]_relayFeedVars, NEW e \in offered' \ offered
             PROVE  file'[e] = "intact"
  OBVIOUS
<1>1. CASE \E d \in Event : Publish(d)
  <2>1. PICK d \in Event : Publish(d)
    BY <1>1
  <2>2. PublishFile(d) \/ Withdraw(d)
    BY <2>1 DEF Publish
  <2>3. \/ file' = [file EXCEPT ![d] = "intact"] /\ offered' = offered \union {d}
        \/ file[d] = "intact" /\ offered' = offered \union {d} /\ UNCHANGED file
    BY <2>2 DEF PublishFile, Withdraw
  <2>4. QED
    BY <2>3 DEF FeedTyped
<1>2. CASE Copied
  BY <1>2 DEF Copied, FeedTyped
<1>3. QED
  BY <1>1, <1>2 DEF RelayFeedNext, relayFeedVars, Ingest, Meddle, StoreReset, CopyFails, CountSeen

-----------------------------------------------------------------------------
(* Reactions *)

\* The events the window shows are the newest: with one it shows every later one.
LEMMA WindowIsNewest ==
  ASSUME FeedTyped, NEW e \in RecentEvents, NEW d \in held, d > e
  PROVE  d \in RecentEvents
<1> DEFINE After(x) == {y \in held : y > x}
<1>1. held \subseteq Event /\ IsFiniteSet(held) /\ e \in held
  <2>1. held \subseteq Event /\ IsFiniteSet(Event)
    BY FeedConstants, FS_Interval DEF Event, FeedTyped
  <2>2. QED
    BY <2>1, FS_Subset DEF RecentEvents
<1>2. \A y \in held : y \in Int
  BY <1>1, FeedConstants DEF Event
<1>3. After(d) \subseteq After(e)
  BY <1>1, <1>2
<1>4. IsFiniteSet(After(e))
  BY <1>1, FS_Subset
<1>5. Cardinality(After(d)) <= Cardinality(After(e)) /\ Cardinality(After(d)) \in Nat /\ Cardinality(After(e)) \in Nat
  BY <1>3, <1>4, FS_Subset, FS_CardinalityType
<1>6. Cardinality(After(e)) < FeedWindow
  BY DEF RecentEvents
<1>7. QED
  BY <1>5, <1>6, FeedConstants DEF RecentEvents

About(s, e) == ~Message(e) /\ kindOf[e].slot = s
Heads(s, e) == About(s, e) /\ kindOf[e].kind = "added" /\ \A d \in RecentEvents : About(s, d) => d <= e

\* After n events the newest of them has decided each slot it is about.
Met(seen, n) ==
  /\ seen.resolved = {s \in Slot : \E e \in RecentEvents : e > LastEvent - n /\ About(s, e)}
  /\ seen.badges = {s \in Slot : \E e \in RecentEvents : e > LastEvent - n /\ Heads(s, e)}

\* One event more, which the window may show or not.
LEMMA MeetOne ==
  ASSUME FeedTyped, NEW seen \in [resolved : SUBSET Slot, badges : SUBSET Slot], NEW n \in 1..LastEvent,
         Met(seen, n - 1)
  PROVE  LET e == LastEvent + 1 - n
             next == IF e \in RecentEvents THEN FoldReaction(seen, e) ELSE seen
         IN  next \in [resolved : SUBSET Slot, badges : SUBSET Slot] /\ Met(next, n)
<1> DEFINE e == LastEvent + 1 - n
           next == IF e \in RecentEvents THEN FoldReaction(seen, e) ELSE seen
<1>1. e \in Event /\ LastEvent \in Nat /\ n \in Nat
  BY FeedConstants DEF Event
<1>2. \A d \in RecentEvents : d \in Int /\ d \in Event
  BY FeedConstants DEF RecentEvents, FeedTyped, Event
<1>3. \A d \in RecentEvents : d > LastEvent - n <=> d = e \/ d > LastEvent - (n - 1)
  BY <1>1, <1>2
<1>4. \A d \in RecentEvents : d > LastEvent - (n - 1) => d > e
  BY <1>1, <1>2
<1>5. ~Message(e) => kindOf[e] \in [kind : {"added", "removed"}, slot : Slot]
  BY <1>1 DEF FeedTyped, EventKind, Message
<1> HIDE DEF e
<1>6. CASE e \notin RecentEvents \/ Message(e)
  <2>1. next = seen
    BY <1>6 DEF FoldReaction
  <2>2. \A s \in Slot, d \in RecentEvents : About(s, d) => d # e
    BY <1>6 DEF About
  <2>3. Met(seen, n)
    BY <1>3, <2>2 DEF Met, Heads
  <2>4. QED
    BY <2>1, <2>3 DEF e
<1>7. CASE e \in RecentEvents /\ ~Message(e)
  <2> DEFINE t == kindOf[e].slot
  <2>1. t \in Slot /\ kindOf[e].kind \in {"added", "removed"} /\ About(t, e) /\ \A s \in Slot : About(s, e) => s = t
    BY <1>5, <1>7 DEF About
  <2> HIDE DEF t
  <2>2. CASE t \in seen.resolved
    <3>1. next = seen
      BY <1>7, <2>2 DEF FoldReaction, t
    <3>2. PICK d \in RecentEvents : d > LastEvent - (n - 1) /\ About(t, d)
      BY <2>2 DEF Met
    <3>3. d > e /\ d \in Int /\ e \in Int
      BY <1>1, <1>2, <1>4, <3>2 DEF Event
    <3>4. \A s \in Slot : ~Heads(s, e)
      BY <2>1, <3>2, <3>3 DEF Heads
    <3>5. Met(seen, n)
      <4>1. seen.resolved = {s \in Slot : \E x \in RecentEvents : x > LastEvent - n /\ About(s, x)}
        BY <1>3, <2>1, <3>2 DEF Met
      <4>2. seen.badges = {s \in Slot : \E x \in RecentEvents : x > LastEvent - n /\ Heads(s, x)}
        BY <1>3, <3>4 DEF Met
      <4>3. QED
        BY <4>1, <4>2 DEF Met
    <3>6. QED
      BY <3>1, <3>5 DEF e
  <2>3. CASE t \notin seen.resolved
    <3>1. next = [resolved |-> seen.resolved \union {t},
                  badges |-> IF kindOf[e].kind = "removed" THEN seen.badges ELSE seen.badges \union {t}]
      BY <1>7, <2>3 DEF FoldReaction, t
    <3>2. /\ next.resolved = seen.resolved \union {t}
          /\ next.badges = IF kindOf[e].kind = "removed" THEN seen.badges ELSE seen.badges \union {t}
      BY <3>1
    <3>3. next \in [resolved : SUBSET Slot, badges : SUBSET Slot]
      <4>1. seen.resolved \union {t} \in SUBSET Slot /\ seen.badges \union {t} \in SUBSET Slot /\ seen.badges \in SUBSET Slot
        BY <2>1
      <4> DEFINE b == IF kindOf[e].kind = "removed" THEN seen.badges ELSE seen.badges \union {t}
      <4>2. b \in SUBSET Slot
        BY <4>1
      <4> HIDE DEF b
      <4>3. next = [resolved |-> seen.resolved \union {t}, badges |-> b]
        BY <3>1 DEF b
      <4> HIDE DEF next
      <4>4. QED
        BY <4>1, <4>2, <4>3
    <3>4. \A d \in RecentEvents : About(t, d) => d <= e
      <4> SUFFICES ASSUME NEW d \in RecentEvents, About(t, d) PROVE d <= e
        OBVIOUS
      <4>1. ~(d > LastEvent - (n - 1))
        BY <2>1, <2>3 DEF Met
      <4>2. QED
        BY <1>1, <1>2, <4>1 DEF e
    <3>5. \A s \in Slot : Heads(s, e) <=> s = t /\ kindOf[e].kind = "added"
      BY <2>1, <3>4 DEF Heads
    <3> HIDE DEF next
    <3>6. next.resolved = {s \in Slot : \E x \in RecentEvents : x > LastEvent - n /\ About(s, x)}
      BY <1>3, <1>7, <2>1, <3>2 DEF Met
    <3>7. next.badges = {s \in Slot : \E x \in RecentEvents : x > LastEvent - n /\ Heads(s, x)}
      BY <1>3, <1>7, <2>1, <3>2, <3>5 DEF Met
    <3>8. QED
      BY <3>3, <3>6, <3>7 DEF Met, next, e
  <2>4. QED
    BY <2>2, <2>3
<1>8. QED
  BY <1>6, <1>7

\* All of them: the badges are those of the slots whose newest shown event added one.
LEMMA AllMet ==
  ASSUME FeedTyped
  PROVE  Badges = {s \in Slot : \E e \in RecentEvents : Heads(s, e)}
<1> DEFINE V == [resolved : SUBSET Slot, badges : SUBSET Slot]
           none == [resolved |-> {}, badges |-> {}]
           Step(seen, n) == IF LastEvent + 1 - n \in RecentEvents THEN FoldReaction(seen, LastEvent + 1 - n) ELSE seen
           Rounds(g) == g = [n \in 0..LastEvent |-> IF n = 0 THEN none ELSE Step(g[n - 1], n)]
           met == CHOOSE g : Rounds(g)
<1>1. Badges = met[LastEvent].badges
  BY DEF Badges
<1>2. none \in V /\ LastEvent \in Nat /\ \A s \in Slot : s \in Slot
  BY FeedConstants
<1>3. \A seen \in V, n \in 1..LastEvent : Step(seen, n) \in V
  <2> SUFFICES ASSUME NEW seen \in V, NEW n \in 1..LastEvent PROVE Step(seen, n) \in V
    OBVIOUS
  <2> DEFINE e == LastEvent + 1 - n
  <2>1. e \in Event
    BY <1>2 DEF Event
  <2>2. Message(e) \/ kindOf[e].slot \in Slot
    BY <2>1 DEF FeedTyped, EventKind, Message
  <2> HIDE DEF e
  <2>3. FoldReaction(seen, e) \in V
    BY <2>2 DEF FoldReaction
  <2>4. QED
    BY <2>3 DEF e
<1> DEFINE F == [p \in V \X Nat |-> IF p[2] \in 1..LastEvent THEN Step(p[1], p[2]) ELSE p[1]]
<1>4. F \in [V \X Nat -> V] /\ \A seen \in V, n \in 1..LastEvent : F[<<seen, n>>] = Step(seen, n)
  <2> HIDE DEF V, Step
  <2>1. \A n \in 1..LastEvent : n \in Nat
    OBVIOUS
  <2>2. \A seen \in V, n \in 1..LastEvent : F[<<seen, n>>] = Step(seen, n)
    BY <2>1
  <2>3. F \in [V \X Nat -> V]
    BY <1>3
  <2>4. QED
    BY <2>2, <2>3
<1> HIDE DEF F, V, none, Step
<1>5. PICK h : Iterates(h, LastEvent, V, none, F)
  BY <1>2, <1>4, PrimitiveRecursion
<1>6. Rounds(h)
  <2>1. h \in [0..LastEvent -> V]
    BY <1>5 DEF Iterates
  <2>2. ASSUME NEW n \in 0..LastEvent PROVE h[n] = IF n = 0 THEN none ELSE Step(h[n - 1], n)
    <3>1. CASE n = 0
      BY <1>5, <3>1 DEF Iterates
    <3>2. CASE n # 0
      <4>1. n \in 1..LastEvent /\ n - 1 \in 0..LastEvent
        BY <1>2, <3>2
      <4>2. QED
        BY <1>4, <1>5, <2>1, <3>2, <4>1 DEF Iterates
    <3>3. QED
      BY <3>1, <3>2
  <2>3. QED
    BY <2>1, <2>2
<1>7. Rounds(met)
  BY <1>6, Zenon
<1> HIDE DEF met
<1>8. met[0] = none /\ \A n \in 1..LastEvent : met[n] = Step(met[n - 1], n)
  <2>1. 0 \in 0..LastEvent /\ \A n \in 1..LastEvent : n \in 0..LastEvent /\ n # 0
    BY <1>2
  <2>2. QED
    BY <1>7, <2>1
<1> DEFINE T == {n \in Nat : n <= LastEvent => met[n] \in V /\ Met(met[n], n)}
<1>9. 0 \in T
  <2>1. \A e \in RecentEvents : ~(e > LastEvent - 0)
    BY <1>2 DEF RecentEvents, FeedTyped, Event
  <2>2. Met(none, 0)
    BY <2>1 DEF Met, none
  <2>3. QED
    BY <1>2, <1>8, <2>2
<1>10. ASSUME NEW n \in Nat, n \in T PROVE n + 1 \in T
  <2> SUFFICES ASSUME n + 1 <= LastEvent PROVE met[n + 1] \in V /\ Met(met[n + 1], n + 1)
    OBVIOUS
  <2>1. met[n] \in V /\ Met(met[n], n) /\ n + 1 \in 1..LastEvent /\ (n + 1) - 1 = n
    BY <1>2, <1>10
  <2>2. met[n + 1] = Step(met[n], n + 1)
    BY <1>8, <2>1
  <2>3. Step(met[n], n + 1) \in V /\ Met(Step(met[n], n + 1), n + 1)
    BY <2>1, MeetOne DEF V, Step
  <2>4. QED
    BY <2>2, <2>3
<1> HIDE DEF T
<1>11. LastEvent \in T
  BY <1>2, <1>9, <1>10, SetInduction
<1>12. Met(met[LastEvent], LastEvent)
  BY <1>2, <1>11 DEF T
<1>13. \A e \in RecentEvents : e > LastEvent - LastEvent
  BY <1>2 DEF RecentEvents, FeedTyped, Event
<1>14. QED
  BY <1>1, <1>12, <1>13 DEF Met

\* Hence a badge tells the latest event of its slot.
LEMMA BadgesTell == FeedTyped => BadgesAreLatest
<1> SUFFICES ASSUME FeedTyped PROVE BadgesAreLatest
  OBVIOUS
<1>1. RecentEvents \subseteq held /\ \A d \in held : d \in Int
  BY FeedConstants DEF RecentEvents, FeedTyped, Event
<1>2. ASSUME NEW s \in Slot, NEW e \in RecentEvents
      PROVE  Heads(s, e) <=> e \in LatestOf(s) /\ kindOf[e].kind = "added"
  <2>1. ASSUME NEW d \in held, About(s, d), \A x \in RecentEvents : About(s, x) => x <= e PROVE d <= e
    <3>1. CASE d > e
      BY <1>1, <2>1, <3>1, WindowIsNewest
    <3>2. QED
      BY <1>1, <3>1
  <2>2. QED
    BY <1>1, <2>1 DEF Heads, LatestOf, About
<1>3. \A s \in Slot : LatestOf(s) \subseteq held
  BY DEF LatestOf
<1>4. QED
  BY <1>2, <1>3, AllMet DEF BadgesAreLatest

\* A reaction is shown exactly when the latest event of its slot is in the window and added it, and an
\* attachment becomes available only with its own bytes in the folder (FeedIsHonest), for any number of
\* events and slots, any window, any order of arrival and any replaced store.
THEOREM FeedHonest == RelayFeedSpec => FeedIsHonest
<1>1. RelayFeedInit => FeedTyped
  BY FeedConstants DEF RelayFeedInit, FeedTyped
<1>2. FeedTyped /\ [RelayFeedNext]_relayFeedVars => FeedTyped'
  BY FeedTypedStep
<1>3. FeedTyped => RelayFeedTypeOK /\ BadgesAreLatest
  BY FeedTypedCounts, BadgesTell
<1>4. FeedTyped /\ [RelayFeedNext]_relayFeedVars => [\A e \in offered' \ offered : file'[e] = "intact"]_relayFeedVars
  BY OffersWhole
<1>5. QED
  BY <1>1, <1>2, <1>3, <1>4, PTL DEF RelayFeedSpec, FeedIsHonest, OfferedIsIntact

(***************************************************************************)
(* The phone link                                                          *)
(***************************************************************************)

InHand(c) == c = current /\ linkPc \in {"request", "report"}
Queued(c) == \E i \in 1..Len(commands) : commands[i] = c

\* The worker ends, and is told to, only when the link is closed; it has none
\* to ask without a link.
WorkerStays ==
  /\ linkPc = "ended" => link \in {"none", "closed"}
  /\ Queued("stop") => LinkClosed
  /\ link = "none" => acceptedChecks = {}

\* What is listened on was not closed, and what is worked on was accepted.
LinkTyped ==
  /\ receiver \in {"available", "unavailable", "closed"}
  /\ serving \in BOOLEAN /\ storeOpen \in BOOLEAN
  /\ link \in {"none", "starting", "available", "unavailable", "closed"}
  /\ checking \in {"idle", "running", "complete", "failed"}
  /\ commands \in Seq(Check \union {"stop"})
  /\ linkPc \in {"resume", "wait", "probe", "automatic", "request", "report", "ended"}
  /\ due \subseteq {"probe", "auto"}
  /\ acceptedChecks \subseteq Check
  /\ reported \subseteq acceptedChecks
  /\ closeStep \in {"open", "link", "server", "store", "closed"}
  /\ (receiver = "available" => storeOpen /\ closeStep = "open")
Accepted == \A c \in Check : Queued(c) => c \in acceptedChecks

\* A check that was accepted is queued or in hand until its end is reported, and
\* the worker is there to report it, or else the link is closed
\* (PhoneControlCoordinator._run, _run_reconciliation).
AcceptedOnItsWay ==
  \A c \in acceptedChecks \ reported :
      LinkClosed \/ (linkPc # "ended" /\ (Queued(c) \/ InHand(c)))

LinkInv ==
  /\ LinkTyped /\ WorkerStays /\ Accepted /\ current \in acceptedChecks \union {NoCheck}
  /\ \A c \in acceptedChecks \ reported : LinkClosed \/ Queued(c) \/ InHand(c)

LEMMA QueuedAppend ==
  ASSUME commands \in Seq(Check \union {"stop"}), NEW x \in Check \union {"stop"},
         commands' = Append(commands, x)
  PROVE  /\ commands' \in Seq(Check \union {"stop"})
         /\ \A c \in Check \union {"stop"} : Queued(c)' <=> Queued(c) \/ c = x
<1>1. /\ commands' \in Seq(Check \union {"stop"}) /\ Len(commands) \in Nat /\ Len(commands') = Len(commands) + 1
      /\ \A i \in 1..(Len(commands) + 1) : commands'[i] = IF i = Len(commands) + 1 THEN x ELSE commands[i]
  OBVIOUS
<1>2. ASSUME NEW c \in Check \union {"stop"}, Queued(c) PROVE Queued(c)'
  BY <1>1, <1>2 DEF Queued
<1>3. Queued(x)'
  BY <1>1 DEF Queued
<1>4. ASSUME NEW c \in Check \union {"stop"}, Queued(c)', c # x PROVE Queued(c)
  BY <1>1, <1>4 DEF Queued
<1>5. QED
  BY <1>1, <1>2, <1>3, <1>4

LEMMA QueuedTail ==
  ASSUME commands \in Seq(Check \union {"stop"}), commands # <<>>, commands' = Tail(commands)
  PROVE  /\ commands' \in Seq(Check \union {"stop"}) /\ Head(commands) \in Check \union {"stop"}
         /\ Queued(Head(commands))
         /\ \A c \in Check \union {"stop"} : /\ (Queued(c)' => Queued(c))
                                             /\ (Queued(c) => Queued(c)' \/ c = Head(commands))
<1>1. /\ commands' \in Seq(Check \union {"stop"}) /\ Len(commands) \in Nat \ {0} /\ Len(commands') = Len(commands) - 1
      /\ Head(commands) = commands[1] /\ Head(commands) \in Check \union {"stop"}
      /\ \A i \in 1..(Len(commands) - 1) : commands'[i] = commands[i + 1]
  OBVIOUS
<1>2. Queued(Head(commands))
  BY <1>1 DEF Queued
<1>3. ASSUME NEW c \in Check \union {"stop"}, Queued(c)' PROVE Queued(c)
  BY <1>1, <1>3 DEF Queued
<1>4. ASSUME NEW c \in Check \union {"stop"}, Queued(c), c # Head(commands) PROVE Queued(c)'
  <2>1. PICK i \in 1..Len(commands) : commands[i] = c
    BY <1>4 DEF Queued
  <2>2. i # 1 /\ i - 1 \in 1..(Len(commands) - 1) /\ (i - 1) + 1 = i
    BY <1>1, <1>4, <2>1
  <2>3. QED
    BY <1>1, <2>1, <2>2 DEF Queued
<1>5. QED
  BY <1>1, <1>2, <1>3, <1>4

LEMMA LinkBegins == PhoneLinkInit => LinkInv
<1> SUFFICES ASSUME PhoneLinkInit PROVE LinkInv
  OBVIOUS
<1>1. /\ commands = <<>> /\ acceptedChecks = {} /\ reported = {} /\ current = NoCheck
      /\ closeStep = "open" /\ due = {} /\ checking = "idle"
  BY DEF PhoneLinkInit, CoordinatorStarts
<1>2. commands \in Seq(Check \union {"stop"}) /\ Len(commands) = 0
  BY <1>1
<1>3. \A c : ~Queued(c)
  BY <1>2 DEF Queued
<1>4. (link = "none" /\ linkPc = "ended") \/ (link = "starting" /\ linkPc = "resume")
  BY DEF PhoneLinkInit, PhoneControlStarts
<1>5. LinkTyped
  BY <1>1, <1>2, <1>4 DEF PhoneLinkInit, ReceiverStarts, LinkTyped
<1>6. QED
  BY <1>1, <1>3, <1>4, <1>5 DEF LinkInv, WorkerStays, Accepted

LEMMA AskKeeps == ASSUME LinkInv, NEW c \in Check, Ask(c) PROVE LinkInv'
<1>1. /\ commands' \in Seq(Check \union {"stop"})
      /\ \A d \in Check \union {"stop"} : Queued(d)' <=> Queued(d) \/ d = c
  <2>1. commands \in Seq(Check \union {"stop"}) /\ commands' = Append(commands, c)
    BY DEF LinkInv, LinkTyped, Ask
  <2>2. QED
    BY <2>1, QueuedAppend
<1>2. LinkTyped'
  BY <1>1 DEF Ask, serviceVars, workerVars, LinkInv, LinkTyped
<1>3. WorkerStays'
  BY <1>1, LinkConstants DEF Ask, workerVars, LinkInv, WorkerStays, LinkClosed, LinkConstants
<1>4. Accepted'
  BY <1>1 DEF Ask, LinkInv, Accepted
<1>5. \A d \in acceptedChecks' \ reported' : LinkClosed' \/ Queued(d)' \/ InHand(d)'
  BY <1>1 DEF Ask, workerVars, LinkInv, LinkTyped, LinkClosed, InHand
<1>6. QED
  BY <1>2, <1>3, <1>4, <1>5 DEF LinkInv, Ask, workerVars

\* The worker's steps that leave the queue and what was accepted as they are.
LEMMA WorkerGoesOn ==
  ASSUME LinkInv, UNCHANGED <<serviceVars, commands, acceptedChecks, reported, closeStep>>,
         LinkTyped', current' \in acceptedChecks \union {NoCheck},
         LinkClosed => LinkClosed', link' = "none" => link = "none", 
         linkPc' = "ended" => link' \in {"none", "closed"},
         \A c \in acceptedChecks : InHand(c) => InHand(c)'
  PROVE  LinkInv'
<1>1. \A c : Queued(c)' <=> Queued(c)
  BY DEF Queued
<1>2. WorkerStays'
  BY <1>1 DEF LinkInv, WorkerStays
<1>3. Accepted'
  BY <1>1 DEF LinkInv, Accepted
<1>4. \A c \in acceptedChecks' \ reported' : LinkClosed' \/ Queued(c)' \/ InHand(c)'
  BY <1>1 DEF LinkInv
<1>5. QED
  BY <1>2, <1>3, <1>4 DEF LinkInv

LEMMA RoundKeeps ==
  ASSUME LinkInv, Resume \/ TimedOut \/ Stopped \/ Probe \/ Automatic \/ Request
  PROVE  LinkInv'
<1>1. CASE Resume
  <2>1. AfterProbe \in {"automatic", "wait"}
    BY DEF AfterProbe
  <2>2. link' \in {link, "available", "unavailable"} /\ (LinkClosed => LinkClosed') /\ (link' = "none" => link = "none")
    BY <1>1 DEF Resume, SetLink, LinkClosed
  <2>3. LinkTyped'
    BY <1>1, <2>1, <2>2 DEF Resume, LinkInv, LinkTyped, serviceVars
  <2>4. QED
    BY <1>1, <2>1, <2>2, <2>3, WorkerGoesOn DEF Resume, InHand, LinkInv
<1>2. CASE TimedOut
  <2>1. due' \subseteq {"probe", "auto"} /\ linkPc' \in {"probe", "automatic"}
    BY <1>2 DEF TimedOut
  <2>2. LinkTyped'
    BY <1>2, <2>1 DEF TimedOut, LinkInv, LinkTyped, serviceVars
  <2>3. QED
    BY <1>2, <2>1, <2>2, WorkerGoesOn DEF TimedOut, InHand, LinkInv, LinkClosed
<1>3. CASE Stopped
  <2>1. LinkTyped'
    BY <1>3 DEF Stopped, LinkInv, LinkTyped, serviceVars
  <2>2. QED
    BY <1>3, <2>1, WorkerGoesOn DEF Stopped, InHand, LinkInv, LinkClosed
<1>4. CASE Probe
  <2>1. AfterProbe \in {"automatic", "wait"}
    BY DEF AfterProbe
  <2>2. linkPc' \in {"resume", "automatic", "wait"}
    BY <1>4, <2>1 DEF Probe
  <2>3. link' \in {link, "unavailable"} /\ (LinkClosed => LinkClosed') /\ (link' = "none" => link = "none")
    BY <1>4 DEF Probe, SetLink, LinkClosed
  <2>4. LinkTyped'
    BY <1>4, <2>2, <2>3 DEF Probe, LinkInv, LinkTyped, serviceVars
  <2>5. QED
    BY <1>4, <2>2, <2>3, <2>4, WorkerGoesOn DEF Probe, InHand, LinkInv
<1>5. CASE Automatic
  <2>1. linkPc' \in {"request", "wait"} /\ current' \in {current, NoCheck} /\ checking' \in {checking, "running"} /\ due' = {}
    BY <1>5 DEF Automatic
  <2>2. LinkTyped'
    BY <1>5, <2>1 DEF Automatic, LinkInv, LinkTyped, serviceVars
  <2>3. QED
    BY <1>5, <2>1, <2>2, WorkerGoesOn DEF Automatic, InHand, LinkInv, LinkClosed
<1>6. CASE Request
  <2>1. checking' \in {checking, "complete", "failed"}
    BY <1>6 DEF Request, SetChecking
  <2>2. LinkTyped'
    BY <1>6, <2>1 DEF Request, LinkInv, LinkTyped, serviceVars
  <2>3. QED
    BY <1>6, <2>2, WorkerGoesOn DEF Request, InHand, LinkInv, LinkClosed
<1>7. QED
  BY <1>1, <1>2, <1>3, <1>4, <1>5, <1>6

LEMMA TakeKeeps == ASSUME LinkInv, Take PROVE LinkInv'
<1> DEFINE h == Head(commands)
<1>1. /\ commands' \in Seq(Check \union {"stop"}) /\ h \in Check \union {"stop"} /\ Queued(h)
      /\ \A c \in Check \union {"stop"} : (Queued(c)' => Queued(c)) /\ (Queued(c) => Queued(c)' \/ c = h)
  <2>1. commands \in Seq(Check \union {"stop"}) /\ commands # <<>> /\ commands' = Tail(commands)
    BY DEF LinkInv, LinkTyped, Take
  <2>2. QED
    BY <2>1, QueuedTail
<1>2. IF h = "stop" THEN linkPc' = "ended" /\ current' = current ELSE linkPc' = "request" /\ current' = h
  BY DEF Take
<1> HIDE DEF h
<1>3. /\ UNCHANGED <<serviceVars, link, checking, acceptedChecks, reported, closeStep>> /\ due' = {} /\ linkPc = "wait"
  BY DEF Take
<1>4. LinkTyped'
  BY <1>1, <1>2, <1>3 DEF LinkInv, LinkTyped, serviceVars
<1>5. h = "stop" => LinkClosed
  BY <1>1 DEF LinkInv, WorkerStays
<1>6. WorkerStays'
  BY <1>1, <1>2, <1>3, <1>5 DEF LinkInv, WorkerStays, LinkClosed
<1>7. Accepted'
  BY <1>1, <1>3 DEF LinkInv, Accepted
<1>8. current' \in acceptedChecks' \union {NoCheck}
  BY <1>1, <1>2, <1>3 DEF LinkInv, Accepted
<1>9. \A c \in acceptedChecks' \ reported' : LinkClosed' \/ Queued(c)' \/ InHand(c)'
  <2> TAKE c \in acceptedChecks' \ reported'
  <2>1. c \in Check /\ (LinkClosed \/ Queued(c))
    BY <1>3 DEF LinkInv, LinkTyped, InHand
  <2>2. QED
    BY <1>1, <1>2, <1>3, <1>5, <2>1 DEF InHand, LinkClosed
<1>10. QED
  BY <1>4, <1>6, <1>7, <1>8, <1>9 DEF LinkInv

LEMMA ReportKeeps == ASSUME LinkInv, Report PROVE LinkInv'
<1>1. \A c : Queued(c)' <=> Queued(c)
  BY DEF Report, Queued
<1>2. reported' \subseteq acceptedChecks
  BY DEF Report, LinkInv, LinkTyped
<1>3. LinkTyped'
  BY <1>2 DEF Report, LinkInv, LinkTyped, serviceVars
<1>4. WorkerStays' /\ Accepted'
  BY <1>1 DEF Report, LinkInv, WorkerStays, Accepted, LinkClosed
<1>5. \A c \in acceptedChecks' \ reported' : LinkClosed' \/ Queued(c)' \/ InHand(c)'
  <2> TAKE c \in acceptedChecks' \ reported'
  <2>1. c # current
    BY LinkConstants DEF Report, LinkInv, LinkTyped, LinkConstants
  <2>2. QED
    BY <1>1, <2>1 DEF Report, LinkInv, InHand, LinkClosed
<1>6. QED
  BY <1>3, <1>4, <1>5 DEF LinkInv, Report

LEMMA ServiceKeeps ==
  ASSUME LinkInv, ServerFails \/ CloseService \/ CloseServer \/ CloseStore
  PROVE  LinkInv'
<1>1. UNCHANGED <<link, checking, commands, workerVars, acceptedChecks, reported>>
  BY DEF ServerFails, CloseService, CloseServer, CloseStore
<1>2. LinkTyped'
  <2>1. CASE ServerFails
    BY <1>1, <2>1 DEF ServerFails, workerVars, LinkInv, LinkTyped
  <2>2. CASE CloseService
    BY <1>1, <2>2 DEF CloseService, workerVars, LinkInv, LinkTyped
  <2>3. CASE CloseServer
    BY <1>1, <2>3 DEF CloseServer, workerVars, LinkInv, LinkTyped
  <2>4. CASE CloseStore
    BY <1>1, <2>4 DEF CloseStore, workerVars, LinkInv, LinkTyped
  <2>5. QED
    BY <2>1, <2>2, <2>3, <2>4
<1>3. QED
  BY <1>1, <1>2 DEF workerVars, LinkInv, WorkerStays, Accepted, Queued, InHand, LinkClosed

LEMMA CloseLinkKeeps == ASSUME LinkInv, CloseLink PROVE LinkInv'
<1>1. CASE link = "none"
  <2>1. UNCHANGED <<serviceVars, link, checking, commands, workerVars, acceptedChecks, reported>>
    BY <1>1 DEF CloseLink
  <2>2. LinkTyped'
    BY <2>1 DEF CloseLink, serviceVars, workerVars, LinkInv, LinkTyped
  <2>3. QED
    BY <2>1, <2>2 DEF workerVars, LinkInv, WorkerStays, Accepted, Queued, InHand, LinkClosed
<1>2. CASE link # "none"
  <2>1. link' = "closed" /\ commands' = Append(commands, "stop")
    BY <1>2 DEF CloseLink
  <2>2. /\ commands' \in Seq(Check \union {"stop"})
        /\ \A c \in Check \union {"stop"} : Queued(c)' <=> Queued(c) \/ c = "stop"
    <3>1. commands \in Seq(Check \union {"stop"})
      BY DEF LinkInv, LinkTyped
    <3>2. QED
      BY <2>1, <3>1, QueuedAppend
  <2>3. LinkTyped'
    BY <2>1, <2>2 DEF CloseLink, serviceVars, workerVars, LinkInv, LinkTyped
  <2>4. WorkerStays'
    BY <2>1 DEF WorkerStays, LinkClosed
  <2>5. Accepted'
    BY <2>2, LinkConstants DEF CloseLink, LinkInv, Accepted, LinkConstants
  <2>6. QED
    BY <2>1, <2>3, <2>4, <2>5 DEF CloseLink, workerVars, LinkInv, LinkClosed
<1>3. QED
  BY <1>1, <1>2

LEMMA LinkStep == LinkInv /\ [PhoneLinkNext]_phoneLinkVars => LinkInv'
<1> SUFFICES ASSUME LinkInv, [PhoneLinkNext]_phoneLinkVars PROVE LinkInv'
  OBVIOUS
<1>1. CASE \E c \in Check : Ask(c)
  BY <1>1, AskKeeps
<1>2. CASE LinkWorker
  BY <1>2, RoundKeeps, TakeKeeps, ReportKeeps DEF LinkWorker
<1>3. CASE ServerFails \/ CloseService \/ CloseServer \/ CloseStore
  BY <1>3, ServiceKeeps
<1>4. CASE CloseLink
  BY <1>4, CloseLinkKeeps
<1>5. CASE UNCHANGED phoneLinkVars
  BY <1>5 DEF phoneLinkVars, serviceVars, workerVars, LinkInv, LinkTyped, WorkerStays, Accepted, Queued, InHand, LinkClosed
<1>6. QED
  BY <1>1, <1>2, <1>3, <1>4, <1>5 DEF PhoneLinkNext

\* The phone link says it is connected only while something listens, and loses
\* no receipt check it accepted: queued, in hand or reported, with the worker
\* there, until the link is closed (phone_control.py, feature.py).
THEOREM LinkKeepsChecks == PhoneLinkSpec => [](PhoneLinkTypeOK /\ AcceptedOnItsWay)
<1>1. LinkInv => PhoneLinkTypeOK /\ AcceptedOnItsWay
  <2> SUFFICES ASSUME LinkInv PROVE PhoneLinkTypeOK /\ AcceptedOnItsWay
    OBVIOUS
  <2>1. Incoming = "connected" => Listening
    BY DEF Incoming, Listening, LinkInv, LinkTyped
  <2>2. PhoneLinkTypeOK
    BY <2>1 DEF PhoneLinkTypeOK, LinkInv, LinkTyped
  <2>3. AcceptedOnItsWay
    BY DEF AcceptedOnItsWay, LinkInv, WorkerStays, LinkClosed
  <2>4. QED
    BY <2>2, <2>3
<1>2. QED
  BY LinkBegins, LinkStep, <1>1, PTL DEF PhoneLinkSpec

===============================================================================
