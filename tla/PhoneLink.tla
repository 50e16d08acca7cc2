------------------------------ MODULE PhoneLink ------------------------------
(* The kiosk's side of the phone link: the relay service that owns receiver   *)
(* and link (feature.py) and the coordinator whose one worker resumes the     *)
(* phone, probes it, and asks it for receipt checks (phone_control.py).       *)
(* Windows, identifiers and error codes are left out; the phone either        *)
(* answers a call or does not.                                                *)
EXTENDS Naturals, Sequences, FiniteSets

CONSTANTS Check,    \* receipt checks the view may ask for, each asked at most once
          NoCheck
ASSUME LinkConstants == NoCheck \notin Check /\ "stop" \notin Check

VARIABLES receiver,   \* _service_state of RelayRuntimeService
          serving,    \* its server thread is in serve_forever
          storeOpen,  \* the receiver's store
          link,       \* _phone_state, "none" without a coordinator
          checking,   \* _reconciliation_state
          commands,   \* _commands
          linkPc,     \* where the worker is
          current,    \* the check it carries out; NoCheck for an automatic one
          due,        \* what its last wait ended for: subset of {"probe", "auto"}
          acceptedChecks, reported, \* checks answered True, and those whose callback ran
          closeStep   \* how far close of the service has come

serviceVars == <<receiver, serving, storeOpen>>
workerVars == <<linkPc, current, due>>
phoneLinkVars == <<serviceVars, link, checking, commands, workerVars, acceptedChecks, reported, closeStep>>

LinkClosed == link = "closed"

\* what the transport meets: an answer with the exact identity, status and
\* fields that were asked for, another one, or none at all
Response == {"exact", "rejected", "malformed", "unreachable"}
Acknowledged(response) == response = "exact"
Requested == {Acknowledged(response) : response \in Response}
Listening == receiver = "available" /\ storeOpen

\* the private file of the phone's address and secret, of values on both sides
\* of every limit
ControlFile ==
    [kind : {"regular", "link", "large"}, fields : {"exact", "other"}, secret : {31, 32},
     scheme : {"http", "https"}, loopback : BOOLEAN, insecureAllowed : BOOLEAN,
     probe : {14, 15, 3600, 3601}, hours : {23, 24, 336, 337}]
OriginAccepted(f) == f.scheme = "https" \/ (f.insecureAllowed /\ f.loopback)
ControlConfig(f) == OriginAccepted(f) /\ f.secret >= 32 /\ f.probe \in 15..3600 /\ f.hours \in 24..336
ControlLoads(f) == f.kind = "regular" /\ f.fields = "exact" /\ ControlConfig(f)

\* everything it opened is closed again when one step fails; a server that ends
\* before the constructor does is called available all the same
ReceiverStarts ==
    \/ receiver = "unavailable" /\ serving = FALSE /\ storeOpen = FALSE
    \/ receiver = "available" /\ serving \in BOOLEAN /\ storeOpen = TRUE

PhoneControlStarts ==
    LET started == receiver = "available" /\ \E f \in ControlFile : ControlLoads(f)
    IN  \/ link = "none" /\ linkPc = "ended"
        \/ started /\ link = "starting" /\ linkPc = "resume"
CoordinatorStarts == checking = "idle" /\ commands = <<>> /\ current = NoCheck /\ due = {}

PhoneLinkInit ==
    /\ ReceiverStarts /\ PhoneControlStarts /\ CoordinatorStarts
    /\ acceptedChecks = {} /\ reported = {} /\ closeStep = "open"

\* what the status of the service makes of it all
Incoming ==
    IF closeStep # "open" THEN "closed"
    ELSE IF receiver # "available" THEN "unavailable"
    ELSE IF link = "available" THEN "connected"
    ELSE IF link # "none" THEN "waiting" ELSE "ready"

-----------------------------------------------------------------------------
(* The view asks for a check *)

\* _queue_reconciliation: the state is set under the lock, the command put after it
Ask(c) ==
    /\ closeStep = "open" /\ c \notin acceptedChecks
    /\ link = "available" /\ checking # "running"
    /\ checking' = "running"
    /\ commands' = Append(commands, c)
    /\ acceptedChecks' = acceptedChecks \union {c}
    /\ UNCHANGED <<serviceVars, link, workerVars, reported, closeStep>>

-----------------------------------------------------------------------------
(* The worker *)

SetLink(s) == link' = IF LinkClosed THEN link ELSE s
SetChecking(s) == checking' = IF LinkClosed THEN checking ELSE s

AfterProbe == IF "auto" \in due THEN "automatic" ELSE "wait"

\* _resume, at the start and after a probe that found the phone back
Resume ==
    /\ linkPc = "resume"
    /\ \E answered \in Requested : SetLink(IF answered THEN "available" ELSE "unavailable")
    /\ linkPc' = AfterProbe
    /\ UNCHANGED <<serviceVars, checking, commands, current, due, acceptedChecks, reported, closeStep>>

\* _run: a command is waiting
Take ==
    /\ linkPc = "wait" /\ commands # <<>>
    /\ commands' = Tail(commands)
    /\ IF Head(commands) = "stop"
       THEN linkPc' = "ended" /\ UNCHANGED current
       ELSE linkPc' = "request" /\ current' = Head(commands)
    /\ due' = {}
    /\ UNCHANGED <<serviceVars, link, checking, acceptedChecks, reported, closeStep>>

\* _run: the wait ended with queue.Empty at one of the two deadlines
TimedOut ==
    /\ linkPc = "wait" /\ commands = <<>> /\ ~LinkClosed
    /\ due' \in SUBSET {"probe", "auto"} \ {{}}
    /\ linkPc' = IF "probe" \in due' THEN "probe" ELSE "automatic"
    /\ UNCHANGED <<serviceVars, link, checking, commands, current, acceptedChecks, reported, closeStep>>

\* the loop's own test of _stop
Stopped ==
    /\ linkPc = "wait" /\ LinkClosed
    /\ linkPc' = "ended"
    /\ UNCHANGED <<serviceVars, link, checking, commands, current, due, acceptedChecks, reported, closeStep>>

\* _probe
Probe ==
    /\ linkPc = "probe"
    /\ \E answered \in Requested :
         IF answered
         THEN /\ linkPc' = IF link # "available" THEN "resume" ELSE AfterProbe
              /\ UNCHANGED link
         ELSE SetLink("unavailable") /\ linkPc' = AfterProbe
    /\ UNCHANGED <<serviceVars, checking, commands, current, due, acceptedChecks, reported, closeStep>>

\* _run_automatic_reconciliation
Automatic ==
    /\ linkPc = "automatic"
    /\ due' = {}
    /\ IF link = "available"
       THEN checking' = "running" /\ linkPc' = "request" /\ current' = NoCheck
       ELSE linkPc' = "wait" /\ UNCHANGED <<checking, current>>
    /\ UNCHANGED <<serviceVars, link, commands, acceptedChecks, reported, closeStep>>

\* _run_reconciliation: the call and what becomes of the state
Request ==
    /\ linkPc = "request"
    /\ \E answered \in Requested : SetChecking(IF answered THEN "complete" ELSE "failed")
    /\ linkPc' = "report"
    /\ UNCHANGED <<serviceVars, link, commands, current, due, acceptedChecks, reported, closeStep>>

\* its finally clause
\* slip: the callback is only run after a check that succeeded
ReportSuccess ==
    /\ linkPc = "report"
    /\ reported' = reported \union (IF checking = "complete" THEN {current} \ {NoCheck} ELSE {})
    /\ current' = NoCheck /\ linkPc' = "wait"
    /\ UNCHANGED <<serviceVars, link, checking, commands, due, acceptedChecks, closeStep>>

Report ==
    /\ linkPc = "report"
    /\ reported' = reported \union ({current} \ {NoCheck})
    /\ current' = NoCheck /\ linkPc' = "wait"
    /\ UNCHANGED <<serviceVars, link, checking, commands, due, acceptedChecks, closeStep>>

-----------------------------------------------------------------------------
(* The service *)

\* serve_forever ends with an exception
ServerFails ==
    /\ serving /\ closeStep \in {"open", "link"}
    /\ serving' = FALSE
    /\ receiver' = IF closeStep = "open" THEN "unavailable" ELSE receiver
    /\ UNCHANGED <<storeOpen, link, checking, commands, workerVars, acceptedChecks, reported, closeStep>>

CloseService ==
    /\ closeStep = "open" /\ closeStep' = "link"
    /\ receiver' = "closed"
    /\ UNCHANGED <<serving, storeOpen, link, checking, commands, workerVars, acceptedChecks, reported>>

\* close of the coordinator: it tells its worker to stop
CloseLink ==
    /\ closeStep = "link" /\ closeStep' = "server"
    /\ IF link = "none" THEN UNCHANGED <<link, commands>>
       ELSE link' = "closed" /\ commands' = Append(commands, "stop")
    /\ UNCHANGED <<serviceVars, checking, workerVars, acceptedChecks, reported>>

\* after the worker's end or five seconds: shutdown returns when serve_forever has
CloseServer ==
    /\ closeStep = "server" /\ closeStep' = "store"
    /\ serving' = FALSE
    /\ UNCHANGED <<receiver, storeOpen, link, checking, commands, workerVars, acceptedChecks, reported>>

CloseStore ==
    /\ closeStep = "store" /\ closeStep' = "closed"
    /\ storeOpen' = FALSE
    /\ UNCHANGED <<receiver, serving, link, checking, commands, workerVars, acceptedChecks, reported>>

-----------------------------------------------------------------------------
LinkWorker ==
    Resume \/ Take \/ TimedOut \/ Stopped \/ Probe \/ Automatic \/ Request \/ Report

PhoneLinkNext ==
    \/ \E c \in Check : Ask(c)
    \/ LinkWorker
    \/ ServerFails \/ CloseService \/ CloseLink \/ CloseServer \/ CloseStore

PhoneLinkSpec == PhoneLinkInit /\ [][PhoneLinkNext]_phoneLinkVars

\* a call ends by its timeout and a wait by its deadline
FairPhoneLinkSpec == PhoneLinkSpec /\ WF_phoneLinkVars(LinkWorker)

-----------------------------------------------------------------------------
(* Properties *)

\* What the state is made of.
PhoneLinkTypeOK ==
    /\ receiver \in {"available", "unavailable", "closed"}
    /\ serving \in BOOLEAN /\ storeOpen \in BOOLEAN
    /\ link \in {"none", "starting", "available", "unavailable", "closed"}
    /\ checking \in {"idle", "running", "complete", "failed"}
    /\ commands \in Seq(Check \union {"stop"})
    /\ linkPc \in {"resume", "wait", "probe", "automatic", "request", "report", "ended"}
    /\ current \in Check \union {NoCheck} /\ due \subseteq {"probe", "auto"}
    /\ reported \subseteq acceptedChecks /\ acceptedChecks \subseteq Check
    /\ closeStep \in {"open", "link", "server", "store", "closed"}
    /\ Incoming = "connected" => Listening

\* A check the coordinator accepted reports its end to the view, which shows
\* itself busy until then, or the link is closed: probes, automatic checks and
\* failed calls in between do not lose it.
AcceptedCheckReports ==
    \A c \in Check : c \in acceptedChecks ~> (c \in reported \/ LinkClosed)

\* Checks the coordinator has accepted and not carried out.
Outstanding ==
    {c \in Check : \E i \in 1..Len(commands) : commands[i] = c}
        \union (IF linkPc = "request" THEN {current} ELSE {})

\* Receipt checks are single-flight.
SingleFlight == Cardinality(Outstanding) <= 1

\* What the phone link promises its view: it answers every check it accepts.
LinkAnswers == []PhoneLinkTypeOK /\ AcceptedCheckReports
=============================================================================
