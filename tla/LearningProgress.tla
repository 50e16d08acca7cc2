--------------------------- MODULE LearningProgress ---------------------------
(***************************************************************************)
(* A learner's sessions and the private store that keeps them              *)
(* (src/bmo/features/learning/engine.py, store.py and analytics.py).       *)
(*                                                                         *)
(* The store holds three documents: learners, plans and progress (attempts *)
(* and sessions).  Each is replaced atomically, so an operation either     *)
(* changes one document or raises and changes nothing; memory and disk     *)
(* never differ.  An operation that raises leaves everything as it was and *)
(* is not a step of the model; a session that could not be saved is never  *)
(* shown.  Not every operation of the store has a button in the views.     *)
(*                                                                         *)
(* Names and times are left out: what is saved later has the later time.   *)
(* A skill is left out too: each lesson is taken to teach one of its own.  *)
(* The bound is MaxSessions.                                               *)
(***************************************************************************)
EXTENDS Naturals, SequencesExt, FiniteSetsExt, Lists

CONSTANTS
    Learner, PlanId, NoPlan,
    Repetitions,    \* how often a lesson may come in a row
    Lesson,         \* lessons are numbered; the quick start uses the first
    Outlines,       \* lesson sequences a teacher may give a plan
    Length,         \* questions in a session of a plan
    QuickLength,    \* questions in a quick start
    MaxTries,       \* tries before the answer is revealed
    HistoryLimit,   \* attempts kept
    SessionLimit,   \* sessions kept
    EvidenceLimit, MinEvidence,   \* questions mastery looks at, and needs
    MaxSessions

\* A plan has a lesson at least, and no lesson is numbered 0.
ASSUME ProgressConstants ==
    /\ NoPlan \notin Learner \cup PlanId
    /\ Lesson \subseteq Nat \ {0} /\ 1 \in Lesson
    /\ Outlines \subseteq Seq(Lesson) \ {<<>>} /\ Repetitions \subseteq Nat \ {0}
    /\ {Length, QuickLength, MaxTries, HistoryLimit, SessionLimit, MinEvidence} \subseteq Nat \ {0}
    /\ {EvidenceLimit, MaxSessions} \subseteq Nat

VARIABLES
    learners,      \* profiles.json: "none", "active" or "archived"
    plans,         \* plans.json
    attempts,      \* progress.json: graded responses, oldest first
    sessions,      \* progress.json: sessions, the one saved last at the end
    playing,       \* the session on the screen; <<>> if there is none
    started,       \* sessions ever started: their ids
    firstAnswers,  \* ghost: what each question was first answered with
    readOnly       \* the store refused a document when it was loaded

progressVars == <<learners, plans, attempts, sessions, playing, started, firstAnswers, readOnly>>
documents == <<learners, plans, attempts, sessions>>

Unknown == [owner |-> NoPlan, lessons |-> <<>>, repetitions |-> 1, enabled |-> FALSE,
            archived |-> FALSE]
Known(p) == plans[p] # Unknown

-----------------------------------------------------------------------------
(* Writing. *)

WithoutSession(s, id) == Excluding(s, {item \in ToSet(s) : item.id = id})
LastOf(s, n) == IF Len(s) <= n THEN s ELSE SubSeq(s, Len(s) - n + 1, Len(s))

\* _assert_unique_attempt_numbers and the unique ids of sessions
NumbersAreUnique(s) ==
    \A i, j \in DOMAIN s :
        <<s[i].session, s[i].question, s[i].number>> = <<s[j].session, s[j].question, s[j].number>> => i = j
SessionsAreUnique(s) ==
    /\ \A i, j \in DOMAIN s : s[i].id = s[j].id => i = j
    /\ \A i \in DOMAIN s : NumbersAreUnique(s[i].attempts)
OwnersExist(known) == \A p \in PlanId : known[p] # Unknown => learners[known[p].owner] # "none"

WriteProfiles(new) == ~readOnly /\ learners' = new /\ UNCHANGED <<plans, attempts, sessions>>
WritePlans(new) ==
    /\ ~readOnly /\ OwnersExist(new)
    /\ plans' = new /\ UNCHANGED <<learners, attempts, sessions>>

WriteProgress(newAttempts, newSessions) ==
    /\ ~readOnly
    /\ attempts' = LastOf(newAttempts, HistoryLimit) /\ NumbersAreUnique(attempts')
    /\ sessions' = LastOf(newSessions, SessionLimit) /\ SessionsAreUnique(sessions')
    /\ UNCHANGED <<learners, plans>>

\* _validate_attempt_ownership and _validate_session_ownership
IsOwned(item) ==
    /\ learners[item.learner] # "none"
    /\ item.plan # NoPlan => plans[item.plan].owner = item.learner

\* save_session
SaveSession(session) ==
    IsOwned(session) /\ WriteProgress(attempts, Append(WithoutSession(sessions, session.id), session))

\* A graded attempt and the session that holds it are committed in one document.
RecordTransition(attempt, session) ==
    /\ IsOwned(attempt) /\ IsOwned(session)
    /\ attempt.session = session.id /\ attempt.learner = session.learner /\ attempt.plan = session.plan
    /\ attempt \notin ToSet(attempts) /\ attempt \in ToSet(session.attempts)
    /\ WriteProgress(Append(attempts, attempt), Append(WithoutSession(sessions, session.id), session))

-----------------------------------------------------------------------------
(* Learners and plans, changed from the teacher's area: no session is on the screen there. *)

CreateProfile(l) == learners[l] = "none" /\ WriteProfiles([learners EXCEPT ![l] = "active"])
ArchiveProfile(l) == learners[l] # "none" /\ WriteProfiles([learners EXCEPT ![l] = "archived"])
RestoreProfile(l) == learners[l] # "none" /\ WriteProfiles([learners EXCEPT ![l] = "active"])

\* A learner with a plan, an attempt or a session cannot be deleted.
DeleteProfile(l) ==
    /\ learners[l] # "none"
    /\ \A p \in PlanId : plans[p].owner # l
    /\ \A i \in DOMAIN attempts : attempts[i].learner # l
    /\ \A i \in DOMAIN sessions : sessions[i].learner # l
    /\ WriteProfiles([learners EXCEPT ![l] = "none"])

CreatePlan(p, l) ==
    /\ ~Known(p) /\ learners[l] # "none"
    /\ \E lessons \in Outlines, repetitions \in Repetitions :
           WritePlans([plans EXCEPT ![p] = [owner |-> l, lessons |-> lessons, enabled |-> TRUE,
                                            repetitions |-> repetitions, archived |-> FALSE]])

\* An edit keeps the owner.
UpdatePlan(p) ==
    /\ Known(p)
    /\ \E lessons \in Outlines, repetitions \in Repetitions :
           WritePlans([plans EXCEPT ![p].lessons = lessons, ![p].repetitions = repetitions])

SetPlanEnabled(p) == Known(p) /\ WritePlans([plans EXCEPT ![p].enabled = ~@])

DuplicatePlan(p, copy) ==
    /\ Known(p) /\ ~Known(copy)
    /\ WritePlans([plans EXCEPT ![copy] = [plans[p] EXCEPT !.archived = FALSE]])

ArchivePlan(p) == Known(p) /\ WritePlans([plans EXCEPT ![p].archived = TRUE, ![p].enabled = FALSE])
RestorePlan(p) == Known(p) /\ WritePlans([plans EXCEPT ![p].archived = FALSE])

DeletePlan(p) ==
    /\ Known(p)
    /\ \A i \in DOMAIN attempts : attempts[i].plan # p
    /\ \A i \in DOMAIN sessions : sessions[i].plan # p
    /\ WritePlans([plans EXCEPT ![p] = Unknown])

DiscardSession(id) ==
    /\ \E i \in DOMAIN sessions : sessions[i].id = id
    /\ WriteProgress(attempts, WithoutSession(sessions, id))

\* A reset names a learner, and may name one of its plans and one lesson.  Dropping a lesson also
\* drops the sessions that ask it: resuming one would bring the progress back.
ResetProgress(l, plan, lesson) ==
    LET Mine(item) == item.learner = l /\ (plan = NoPlan \/ item.plan = plan)
        Dropped(a) == Mine(a) /\ lesson \in {0, a.lesson}
        Asks(s) == Mine(s) /\ (lesson = 0 \/ \E q \in DOMAIN s.questions : s.questions[q] = lesson)
    IN  /\ learners[l] # "none"
        /\ plan # NoPlan => plans[plan].owner = l
        /\ WriteProgress(Excluding(attempts, {a \in ToSet(attempts) : Dropped(a)}),
                         Excluding(sessions, {s \in ToSet(sessions) : Asks(s)}))

Administer ==
    /\ playing = <<>>
    /\ \/ \E l \in Learner : \/ CreateProfile(l) \/ ArchiveProfile(l) \/ RestoreProfile(l)
                             \/ DeleteProfile(l)
                             \/ \E plan \in PlanId \cup {NoPlan}, lesson \in {0} \cup Lesson :
                                    ResetProgress(l, plan, lesson)
       \/ \E p \in PlanId : \/ UpdatePlan(p) \/ SetPlanEnabled(p) \/ ArchivePlan(p)
                            \/ RestorePlan(p) \/ DeletePlan(p)
                            \/ \E l \in Learner : CreatePlan(p, l)
                            \/ \E copy \in PlanId : DuplicatePlan(p, copy)
       \/ \E id \in 1..started : DiscardSession(id)
    /\ UNCHANGED <<playing, started, firstAnswers, readOnly>>

-----------------------------------------------------------------------------
(* A session. *)

\* Each lesson of the plan comes "repetitions" times in a row, and the whole list again and again.
Scheduled(lessons, repetitions, count) ==
    [k \in 1..count |->
        lessons[(((k - 1) % (Len(lessons) * repetitions)) \div repetitions) + 1]]

\* A child picks an enabled plan, or the quick start.
StartSession(l, p) ==
    /\ playing = <<>> /\ started < MaxSessions
    /\ learners[l] = "active"
    /\ p # NoPlan => plans[p].owner = l /\ plans[p].enabled /\ ~plans[p].archived
    /\ LET session == [id |-> started + 1, learner |-> l, plan |-> p,
                       questions |-> IF p = NoPlan THEN Scheduled(<<1>>, 1, QuickLength)
                                     ELSE Scheduled(plans[p].lessons, plans[p].repetitions, Length),
                       index |-> 0, current |-> 0, attempts |-> <<>>]
       IN  /\ SaveSession(session)
           /\ playing' = session
    /\ started' = started + 1
    /\ UNCHANGED <<firstAnswers, readOnly>>

SessionComplete(session) == session.index >= Len(session.questions)

\* One graded response: try again, or on to the next question.  The attempt and the moved session
\* are saved together, or the child stays where it was.
Submit(correct) ==
    /\ playing # <<>> /\ ~SessionComplete(playing)
    /\ LET number == playing.current + 1
           again == ~correct /\ number < MaxTries
           attempt == [session |-> playing.id, learner |-> playing.learner, plan |-> playing.plan,
                       question |-> playing.index + 1, number |-> number, correct |-> correct,
                       lesson |-> playing.questions[playing.index + 1]]
           moved == [playing EXCEPT !.attempts = Append(@, attempt),
                                    !.current = IF again THEN number ELSE 0,
                                    !.index = IF again THEN @ ELSE @ + 1]
       IN  /\ RecordTransition(attempt, moved)
           /\ playing' = moved
           /\ firstAnswers' = IF number > 1 THEN firstAnswers
                              ELSE firstAnswers \cup {<<playing.id, attempt.question, correct>>}
    /\ UNCHANGED <<started, readOnly>>

LeaveSession ==
    /\ playing # <<>>
    /\ playing' = <<>>
    /\ UNCHANGED <<documents, started, firstAnswers, readOnly>>

\* resumable_session: the unfinished session of a learner that was saved last goes on where it was
\* left; a plan and one of its lessons may be named.
ResumeSession(l, plan, lesson) ==
    LET unfinished == {i \in DOMAIN sessions :
                          /\ sessions[i].learner = l /\ (plan = NoPlan \/ sessions[i].plan = plan)
                          /\ ~SessionComplete(sessions[i])
                          /\ lesson = 0 \/ lesson \in ToSet(sessions[i].questions)}
    IN  /\ playing = <<>> /\ unfinished # {} /\ ~readOnly
        /\ playing' = sessions[Max(unfinished)]
        /\ UNCHANGED <<documents, started, firstAnswers, readOnly>>

\* What load() asks of the three documents, beyond the shape of each record.
Loads ==
    /\ OwnersExist(plans)
    /\ \A item \in ToSet(attempts) \cup ToSet(sessions) :
           learners[item.learner] # "none" /\ (item.plan # NoPlan => Known(item.plan))
    /\ NumbersAreUnique(attempts) /\ SessionsAreUnique(sessions)
    /\ \A s \in ToSet(sessions) : \A a \in ToSet(s.attempts) :
           a.session = s.id /\ a.learner = s.learner /\ a.plan = s.plan

\* The kiosk may stop at any moment; the next start refuses documents that do not fit together.
Restart ==
    /\ readOnly' = ~Loads
    /\ playing' = <<>>
    /\ UNCHANGED <<documents, started, firstAnswers>>

ProgressInit ==
    /\ learners = [l \in Learner |-> "none"] /\ plans = [p \in PlanId |-> Unknown]
    /\ attempts = <<>> /\ sessions = <<>> /\ playing = <<>>
    /\ started = 0 /\ firstAnswers = {} /\ readOnly = FALSE

ProgressNext ==
    \/ Administer
    \/ \E l \in Learner, p \in PlanId \cup {NoPlan} :
           StartSession(l, p) \/ \E lesson \in {0} \cup Lesson : ResumeSession(l, p, lesson)
    \/ \E correct \in BOOLEAN : Submit(correct)
    \/ LeaveSession \/ Restart

ProgressSpec == ProgressInit /\ [][ProgressNext]_progressVars

-----------------------------------------------------------------------------
(* Reports. *)

\* The attempts at one question stand together; the questions follow their last attempts.
QuestionEvidence(relevant) ==
    LET Same(a, b) == a.session = b.session /\ a.question = b.question
        ends == Excluding([i \in DOMAIN relevant |-> i],
                          {i \in DOMAIN relevant :
                               \E j \in DOMAIN relevant : j > i /\ Same(relevant[j], relevant[i])})
    IN  [k \in DOMAIN ends |->
            Excluding(relevant, {a \in ToSet(relevant) : ~Same(a, relevant[ends[k]])})]

\* A question whose first attempt left the history is not one answered at the first try.
\* slip: the first answer still known is taken for the first
FirstKnown(group) == group[1].correct
FirstTry(group) == group[1].correct /\ group[1].number = 1
Eventual(group) == \E k \in DOMAIN group : group[k].correct
FirstRight(groups) == Cardinality({k \in DOMAIN groups : FirstTry(groups[k])})
EventuallyRight(groups) == Cardinality({k \in DOMAIN groups : Eventual(groups[k])})

\* Four in five answered in the end, and three in five at the first try.
SummarizeMastery(relevant) ==
    LET groups == LastOf(QuestionEvidence(relevant), EvidenceLimit)
    IN  IF groups = <<>> THEN "not started"
        ELSE IF Len(groups) < MinEvidence THEN "in progress"
        ELSE IF EventuallyRight(groups) * 5 >= Len(groups) * 4 /\ FirstRight(groups) * 5 >= Len(groups) * 3
             THEN "mastered" ELSE "needs practice"

OfLesson(relevant, lesson) == Excluding(relevant, {a \in ToSet(relevant) : a.lesson # lesson})

\* A plan's report also counts what its learner did outside any plan.
PlanAttempts(p) ==
    Excluding(attempts, {a \in ToSet(attempts) : \/ a.learner # plans[p].owner \/ a.plan \notin {p, NoPlan}
                                                 \/ a.lesson \notin ToSet(plans[p].lessons)})

SummarizePlan(p) ==
    LET statuses == {SummarizeMastery(OfLesson(PlanAttempts(p), lesson)) :
                         lesson \in ToSet(plans[p].lessons)}
    IN  IF statuses = {"mastered"} THEN "mastered"
        ELSE IF statuses = {"not started"} THEN "not started"
        ELSE IF "needs practice" \in statuses THEN "needs practice" ELSE "in progress"

\* A learner's report counts its questions whatever plan they were asked for; the trend is that
\* of the last five, and the lessons mastered in each plan make its completion.
ProfileStats(l) ==
    LET mine == Excluding(attempts, {a \in ToSet(attempts) : a.learner # l})
        groups == QuestionEvidence(mine)
    IN  [attempts |-> Len(mine), questions |-> Len(groups), first |-> FirstRight(groups),
         eventual |-> EventuallyRight(groups), recent |-> EventuallyRight(LastOf(groups, 5)),
         skills |-> [lesson \in {a.lesson : a \in ToSet(mine)} |-> SummarizeMastery(OfLesson(mine, lesson))],
         completed |-> [p \in {q \in PlanId : plans[q].owner = l} |->
                           {lesson \in ToSet(plans[p].lessons) :
                                SummarizeMastery(OfLesson(PlanAttempts(p), lesson)) = "mastered"}]]

-----------------------------------------------------------------------------
(* Properties. *)

ProgressTypeOK ==
    /\ learners \in [Learner -> {"none", "active", "archived"}]
    /\ \A p \in PlanId : plans[p].lessons \in Outlines \cup {<<>>}
    /\ Len(attempts) <= HistoryLimit /\ Len(sessions) <= SessionLimit
    /\ started \in 0..MaxSessions /\ readOnly \in BOOLEAN

\* No sequence of legal operations, deletions and resets among them, leaves documents that the
\* next start refuses: a refused document makes all learning data read-only for good.
NeverLocksItselfOut == ~readOnly

\* A kept session and the history tell one story: the attempts of the session that are still in
\* the history are the last it made, in their order, and its place follows from its attempts.
SessionFitsHistory ==
    \A s \in ToSet(sessions) :
        /\ IsSuffix(Excluding(attempts, {a \in ToSet(attempts) : a.session # s.id}), s.attempts)
        /\ s.index = Cardinality({a.question : a \in {b \in ToSet(s.attempts) :
                                                          b.correct \/ b.number = MaxTries}})
        /\ s.current = Cardinality({a \in ToSet(s.attempts) : a.question = s.index + 1})

\* However much of the history has been dropped, a question counted as right at the first try
\* was right at the first try, and a lesson counted as mastered was answered often enough.
ScoresAreEarned ==
    LET groups == QuestionEvidence(attempts)
    IN  /\ \A k \in DOMAIN groups :
               FirstTry(groups[k]) => <<groups[k][1].session, groups[k][1].question, TRUE>> \in firstAnswers
        /\ \A p \in {q \in PlanId : Known(q)}, lesson \in Lesson :
               SummarizeMastery(OfLesson(PlanAttempts(p), lesson)) = "mastered" =>
                   Cardinality({<<a.session, a.question>> :
                                    a \in {b \in ToSet(attempts) : b.lesson = lesson}}) >= MinEvidence

\* A learner's report gives no credit that was not earned, and leaves out no question that one of
\* the learner's plans reports.
ReportIsEarned ==
    \A l \in Learner :
        LET stats == ProfileStats(l)
            mine == {a \in ToSet(attempts) : a.learner = l}
            questions == {<<a.session, a.question>> : a \in mine}
        IN  /\ stats.questions = Cardinality(questions) /\ stats.recent <= stats.eventual
            /\ stats.first <= Cardinality({q \in questions : <<q[1], q[2], TRUE>> \in firstAnswers})
            /\ stats.first <= stats.eventual /\ stats.eventual <= stats.questions
            /\ \A p \in DOMAIN stats.completed :
                   /\ ToSet(PlanAttempts(p)) \subseteq mine
                   /\ \A lesson \in stats.completed[p] :
                         \E q \in questions : <<q[1], q[2], TRUE>> \in firstAnswers

\* Resetting a plan is said to remove the saved answers for it.
ResetClearsReport ==
    [][\A p \in PlanId, l \in Learner :
          ResetProgress(l, p, 0) => (SummarizePlan(p) = "not started")']_progressVars

\* What the store promises of a child's record, through resets and deletions.
RecordIsKept == ProgressTypeOK /\ NeverLocksItselfOut /\ SessionFitsHistory /\ ScoresAreEarned /\ ReportIsEarned
=============================================================================
