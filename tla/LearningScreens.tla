--------------------------- MODULE LearningScreens ---------------------------
(***************************************************************************)
(* The learning view: a child's lesson and the teacher's area behind a PIN *)
(* (src/bmo/qt/views/learning.py, with the selection of view_model.py).    *)
(* One action per button; a button is on one screen (LearningView.qml).    *)
(*                                                                         *)
(* The store is abstracted to what exists and what is archived; every      *)
(* write may fail (saved), which shows an error and leaves the screen the  *)
(* code has set by then.  Names, settings of a plan and filters of the     *)
(* lesson list are left out.  A draft and the purpose of a name are set    *)
(* anew before the code reads them again, so the model forgets them with   *)
(* the screens that read them.                                             *)
(***************************************************************************)
EXTENDS Naturals, SequencesExt, FiniteSetsExt, Lists

CONSTANTS
    Pupil, Course, Nothing,
    Subject,         \* lessons
    Prerequisites,   \* the lessons recommended before a lesson
    Option,          \* the choices of a question
    MaxQuestions     \* questions of a session

ASSUME ScreensConstants ==
    /\ IsFiniteSet(Subject) /\ Nothing \notin Pupil \cup Course
    /\ MaxQuestions \in Nat \ {0}

VARIABLES
    screen, authorized,
    digits,         \* digits of the PIN typed so far
    pupils,         \* store: "none", "active" or "archived"
    courses,        \* store: plans; "meant" is a ghost: the teacher was warned of the order
    pupil, course,  \* the learner and the plan the teacher has open
    draft,          \* the plan being edited: [editing, lessons]
    asking,         \* the confirmation: [operation, values]
    typing,         \* what the name being typed is for
    child,          \* the learner at play
    quiz,           \* its session: questions left and the kind of the current one
    selection,      \* [selected, assignments], or Nothing
    retry,          \* the feedback on the screen offers another try
    answered        \* ghost: responses saved, responses judged

teacherVars == <<digits, pupil, course, draft, asking, typing>>
store_ == <<pupils, courses>>
lessonVars == <<child, quiz, selection, retry, answered>>
screenVars == <<screen, authorized, teacherVars, store_, lessonVars>>

NoLesson == [left |-> 0, kind |-> "single"]
NoQuestion == [operation |-> "none", values |-> <<>>]
NoDraft == [editing |-> Nothing, lessons |-> <<>>]
NoSelection == [selected |-> <<>>, assignments |-> {}]
Absent == [owner |-> Nothing, archived |-> FALSE, enabled |-> FALSE, lessons |-> <<>>, meant |-> FALSE]

At(s) == screen = s
\* A teacher's button: the handler refuses it without the PIN.
TeacherAt(s) == screen = s /\ authorized /\ UNCHANGED <<authorized, digits, lessonVars>>

-----------------------------------------------------------------------------
(* The PIN. *)

OpenTeacher ==
    /\ At("profiles")
    /\ digits' = 0 /\ screen' = "teacher_pin"
    /\ UNCHANGED <<authorized, pupil, course, draft, asking, typing, store_, lessonVars>>

\* The fourth digit is checked; a wrong PIN is forgotten.
TeacherDigit(right) ==
    /\ At("teacher_pin") /\ digits < 4
    /\ IF digits < 3
       THEN digits' = digits + 1 /\ UNCHANGED <<screen, authorized>>
       ELSE /\ digits' = 0
            /\ authorized' = (authorized \/ right)
            /\ screen' = IF right THEN "teacher_home" ELSE screen
    /\ UNCHANGED <<pupil, course, draft, asking, typing, store_, lessonVars>>

ErasePin ==
    /\ At("teacher_pin")
    /\ digits' \in {0, IF digits = 0 THEN 0 ELSE digits - 1}
    /\ UNCHANGED <<screen, authorized, pupil, course, draft, asking, typing, store_, lessonVars>>

-----------------------------------------------------------------------------
(* Learners. *)

TeacherProfile(p) ==
    /\ TeacherAt("teacher_home") /\ pupils[p] # "none"
    /\ pupil' = p /\ course' = Nothing /\ screen' = "teacher_profile"
    /\ UNCHANGED <<draft, asking, typing, store_>>

PressRestoreProfile(saved) ==
    /\ TeacherAt("teacher_profile")
    /\ saved /\ pupils' = [pupils EXCEPT ![pupil] = "active"]
    /\ UNCHANGED <<screen, pupil, course, draft, asking, typing, courses>>

\* Where a confirmation was asked; BACK and a completed one return there first.
AskedOn == [archive_profile |-> "teacher_profile", reset_profile |-> "teacher_profile",
            archive_plan |-> "teacher_plan", reset_plan |-> "teacher_plan",
            add_lessons |-> "teacher_lessons", save_plan |-> "teacher_plan_edit"]

AskFirst(operation, values) ==
    /\ asking' = [operation |-> operation, values |-> values]
    /\ screen' = "teacher_confirm"

AskAboutProfile(operation) ==
    /\ TeacherAt("teacher_profile")
    /\ AskFirst(operation, <<>>)
    /\ UNCHANGED <<pupil, course, draft, typing, store_>>

AskAboutPlan(operation) ==
    /\ TeacherAt("teacher_plan")
    /\ AskFirst(operation, <<>>)
    /\ UNCHANGED <<pupil, course, draft, typing, store_>>

TeacherReport ==
    /\ TeacherAt("teacher_profile") \/ TeacherAt("teacher_plan")
    /\ screen' = "teacher_report"
    /\ UNCHANGED <<pupil, course, draft, asking, typing, store_>>

-----------------------------------------------------------------------------
(* Names. *)

TextReturn == [new_profile |-> "teacher_home", rename_profile |-> "teacher_profile",
               new_plan |-> "teacher_profile", rename_plan |-> "teacher_plan_edit"]

OpenTextEditor(purpose) ==
    /\ TeacherAt(TextReturn[purpose])
    /\ typing' = purpose
    /\ screen' = "teacher_text"
    /\ UNCHANGED <<pupil, course, draft, asking, store_>>

CancelText ==
    /\ TeacherAt("teacher_text")
    /\ typing' = "none" /\ screen' = TextReturn[typing]
    /\ UNCHANGED <<pupil, course, draft, asking, store_>>

\* A new plan of an archived learner is refused, and the name stays on the screen.
SaveText(saved) ==
    /\ TeacherAt("teacher_text")
    /\ \/ /\ typing = "new_profile" /\ saved
          /\ \E p \in {q \in Pupil : pupils[q] = "none"} :
                 pupils' = [pupils EXCEPT ![p] = "active"] /\ pupil' = p
          /\ screen' = "teacher_profile" /\ UNCHANGED draft
       \/ /\ typing = "rename_profile" /\ saved
          /\ screen' = "teacher_profile" /\ UNCHANGED <<pupils, pupil, draft>>
       \/ /\ typing = "new_plan" /\ pupils[pupil] = "active"
          /\ draft' = NoDraft
          /\ screen' = "teacher_lessons" /\ UNCHANGED <<pupils, pupil>>
       \/ /\ typing = "rename_plan"
          /\ screen' = "teacher_plan_edit" /\ UNCHANGED <<pupils, pupil, draft>>
    /\ typing' = "none"
    /\ UNCHANGED <<course, asking, courses>>

-----------------------------------------------------------------------------
(* Plans. *)

TeacherPlan(c) ==
    /\ TeacherAt("teacher_profile") /\ courses[c].owner = pupil
    /\ course' = c /\ screen' = "teacher_plan"
    /\ UNCHANGED <<pupil, draft, asking, typing, store_>>

TogglePlan(saved) ==
    /\ TeacherAt("teacher_plan") /\ ~courses[course].archived
    /\ saved /\ courses' = [courses EXCEPT ![course].enabled = ~@]
    /\ UNCHANGED <<screen, pupil, course, draft, asking, typing, pupils>>

PressRestorePlan(saved) ==
    /\ TeacherAt("teacher_plan")
    /\ saved /\ courses' = [courses EXCEPT ![course].archived = FALSE]
    /\ UNCHANGED <<screen, pupil, course, draft, asking, typing, pupils>>

PressDuplicate(saved) ==
    /\ TeacherAt("teacher_plan") /\ ~courses[course].archived
    /\ saved /\ \E c \in {d \in Course : courses[d] = Absent} :
                    courses' = [courses EXCEPT ![c] = courses[course]] /\ course' = c
    /\ UNCHANGED <<screen, pupil, draft, asking, typing, pupils>>

EditPlan ==
    /\ TeacherAt("teacher_plan") /\ ~courses[course].archived
    /\ draft' = [editing |-> course, lessons |-> courses[course].lessons]
    /\ screen' = "teacher_plan_edit"
    /\ UNCHANGED <<pupil, course, asking, typing, store_>>

\* A lesson moves one place up or down.
MovePlanLesson(i, j) ==
    /\ TeacherAt("teacher_plan_edit")
    /\ {i, j} \subseteq DOMAIN draft.lessons /\ (i = j + 1 \/ j = i + 1)
    /\ draft' = [draft EXCEPT !.lessons = [@ EXCEPT ![i] = draft.lessons[j], ![j] = draft.lessons[i]]]
    /\ UNCHANGED <<screen, pupil, course, asking, typing, store_>>

RemovePlanLesson(s) ==
    /\ TeacherAt("teacher_plan_edit") /\ s \in ToSet(draft.lessons)
    /\ draft' = [draft EXCEPT !.lessons = Excluding(@, {s})]
    /\ UNCHANGED <<screen, pupil, course, asking, typing, store_>>

ChooseLessons ==
    /\ TeacherAt("teacher_plan_edit") /\ screen' = "teacher_lessons"
    /\ UNCHANGED <<pupil, course, draft, asking, typing, store_>>

OpenLessonFilter ==
    /\ TeacherAt("teacher_lessons") /\ screen' = "teacher_lesson_filter"
    /\ UNCHANGED <<pupil, course, draft, asking, typing, store_>>

SetLessonFilter ==
    /\ TeacherAt("teacher_lesson_filter") /\ screen' = "teacher_lessons"
    /\ UNCHANGED <<pupil, course, draft, asking, typing, store_>>

\* The lessons of a list that do not follow what is recommended before them.
PrerequisiteWarnings(lessons) ==
    {i \in DOMAIN lessons :
        ~(Prerequisites[lessons[i]] \subseteq {lessons[j] : j \in 1..i - 1})}

\* Adding lessons asks first when one of the added misses its foundation.
RequestAddLessons(added) ==
    /\ TeacherAt("teacher_lessons")
    /\ LET new == Excluding(added, ToSet(draft.lessons))
           proposed == draft.lessons \o new
       IN  /\ new # <<>>
           /\ IF \E i \in PrerequisiteWarnings(proposed) : i > Len(draft.lessons)
              THEN AskFirst("add_lessons", new) /\ UNCHANGED draft
              ELSE draft' = [draft EXCEPT !.lessons = proposed] /\ UNCHANGED <<screen, asking>>
    /\ UNCHANGED <<pupil, course, typing, store_>>

ToggleLesson(s) ==
    \/ s \notin ToSet(draft.lessons) /\ RequestAddLessons(<<s>>)
    \/ /\ TeacherAt("teacher_lessons") /\ s \in ToSet(draft.lessons)
       /\ draft' = [draft EXCEPT !.lessons = Excluding(@, {s})]
       /\ UNCHANGED <<screen, pupil, course, asking, typing, store_>>

\* A draft is written over the plan it was taken from, or as a new plan.
SavePlan(meant) ==
    \E c \in IF draft.editing = Nothing THEN {d \in Course : courses[d] = Absent} ELSE {draft.editing} :
        /\ courses' = [courses EXCEPT ![c] =
               [owner |-> pupil, archived |-> FALSE, lessons |-> draft.lessons, meant |-> meant,
                enabled |-> IF draft.editing = Nothing THEN TRUE ELSE @.enabled]]
        /\ course' = c /\ draft' = NoDraft
        /\ screen' = "teacher_plan"

RequestSavePlan(saved) ==
    /\ TeacherAt("teacher_plan_edit") /\ draft.lessons # <<>>
    /\ IF PrerequisiteWarnings(draft.lessons) # {}
       THEN AskFirst("save_plan", <<>>) /\ UNCHANGED <<courses, course, draft>>
       ELSE saved /\ SavePlan(FALSE) /\ UNCHANGED asking
    /\ UNCHANGED <<pupil, typing, pupils>>

CancelPlanEdit ==
    /\ TeacherAt("teacher_plan_edit")
    /\ course' = draft.editing /\ draft' = NoDraft
    /\ screen' = IF draft.editing = Nothing THEN "teacher_profile" ELSE "teacher_plan"
    /\ UNCHANGED <<pupil, asking, typing, store_>>

-----------------------------------------------------------------------------
(* Confirmations, and the way back. *)

CancelConfirmation ==
    /\ TeacherAt("teacher_confirm")
    /\ asking' = NoQuestion
    /\ screen' = AskedOn[asking.operation]
    /\ UNCHANGED <<pupil, course, draft, typing, store_>>

\* The screen goes back first; a write that fails leaves the teacher there.
CompleteConfirmation(saved) ==
    /\ TeacherAt("teacher_confirm")
    /\ asking' = NoQuestion
    /\ \/ /\ asking.operation = "archive_profile" /\ saved
          /\ pupils' = [pupils EXCEPT ![pupil] = "archived"]
          /\ screen' = AskedOn[asking.operation] /\ UNCHANGED <<courses, course, draft>>
       \/ /\ asking.operation = "archive_plan" /\ saved
          /\ courses' = [courses EXCEPT ![course].archived = TRUE, ![course].enabled = FALSE]
          /\ screen' = AskedOn[asking.operation] /\ UNCHANGED <<pupils, course, draft>>
       \/ /\ asking.operation \in {"reset_profile", "reset_plan"}
          /\ screen' = AskedOn[asking.operation] /\ UNCHANGED <<pupils, courses, course, draft>>
       \/ /\ asking.operation = "add_lessons"
          /\ draft' = [draft EXCEPT !.lessons = @ \o asking.values]
          /\ screen' = "teacher_lessons" /\ UNCHANGED <<pupils, courses, course>>
       \/ asking.operation = "save_plan" /\ saved /\ SavePlan(TRUE) /\ UNCHANGED pupils
       \/ /\ ~saved /\ screen' = AskedOn[asking.operation]
          /\ asking.operation \in {"archive_profile", "archive_plan", "save_plan"}
          /\ UNCHANGED <<pupils, courses, course, draft>>
    /\ UNCHANGED <<pupil, typing>>

\* Leaving the teacher's area closes it.
\* slip: the teacher stays signed in
KeepsAuthorized == authorized
StaysAuthorized == authorized /\ ~At("teacher_home")

\* BACK; the confirmation, the editor and the name have their own ways out.
TeacherBack ==
    /\ screen' = CASE At("teacher_lesson_filter") -> "teacher_lessons"
                   [] At("teacher_lessons")       -> "teacher_plan_edit"
                   [] At("teacher_plan")          -> "teacher_profile"
                   [] At("teacher_report")        -> IF course = Nothing THEN "teacher_profile" ELSE "teacher_plan"
                   [] At("teacher_profile")       -> "teacher_home"
                   [] At("teacher_home")          -> "profiles"
                   [] At("teacher_pin")           -> "profiles"
                   [] OTHER                       -> screen
    /\ screen' # screen
    /\ authorized' = StaysAuthorized
    /\ digits' = IF At("teacher_pin") THEN 0 ELSE digits
    /\ course' = IF At("teacher_plan") \/ At("teacher_profile") THEN Nothing ELSE course
    /\ pupil' = IF At("teacher_profile") THEN Nothing ELSE pupil
    /\ UNCHANGED <<draft, asking, typing, store_, lessonVars>>

-----------------------------------------------------------------------------
(* The child. *)

ChildAt(s) == screen = s /\ UNCHANGED <<authorized, teacherVars, store_>>

LearningProfile(p) ==
    /\ ChildAt("profiles") /\ pupils[p] = "active"
    /\ child' = p /\ screen' = "plans"
    /\ UNCHANGED <<quiz, selection, retry, answered>>

Kinds == {"single", "multi", "ordered", "sort"}

\* A plan of the child that is on, or the quick start; the session is saved before it is shown.
StartLesson(c) ==
    /\ ChildAt("plans")
    /\ c # Nothing => courses[c].owner = child /\ courses[c].enabled /\ ~courses[c].archived
    /\ \E kind \in Kinds : quiz' = [left |-> MaxQuestions, kind |-> kind]
    /\ selection' = NoSelection /\ screen' = "lesson"
    /\ answered' = [recorded |-> 0, judged |-> 0]
    /\ UNCHANGED <<child, retry>>

SubmitReady(sel) ==
    CASE quiz.kind = "sort"    -> {a[1] : a \in sel.assignments} = Option
      [] quiz.kind = "ordered" -> Len(sel.selected) = Cardinality(Option)
      [] OTHER                   -> sel.selected # <<>>

\* Graded by the engine, saved with the moved session, and only then shown.
SubmitAnswer(saved) ==
    \/ /\ saved
       /\ answered' = [recorded |-> answered.recorded + 1, judged |-> answered.judged + 1]
       /\ retry' \in IF retry THEN {FALSE} ELSE BOOLEAN
       /\ IF retry' THEN UNCHANGED quiz
          ELSE \E kind \in Kinds : quiz' = [left |-> quiz.left - 1, kind |-> kind]
       /\ screen' = "feedback" /\ selection' = Nothing
    \/ ~saved /\ UNCHANGED <<screen, quiz, retry, answered>>

\* What a tap does to the selection (InteractionController.choose).
Toggled(option) ==
    LET picked == selection.selected
    IN  CASE quiz.kind = "single" -> [selection EXCEPT !.selected = <<option>>]
          [] quiz.kind = "multi" ->
                 [selection EXCEPT !.selected = IF Contains(picked, option) THEN Remove(picked, option)
                                                ELSE Append(picked, option)]
          [] quiz.kind = "ordered" ->
                 [selection EXCEPT !.selected =
                     IF Contains(picked, option)
                     THEN SubSeq(picked, 1, SelectInSeq(picked, LAMBDA x : x = option) - 1)
                     ELSE Append(picked, option)]
          [] OTHER ->
                 LET before == {a \in selection.assignments : a[1] = option}
                     first == before = {<<option, 1>>}
                 IN  [selection EXCEPT !.assignments =
                         (@ \ before) \cup {<<option, IF first THEN 2 ELSE 1>>}]

\* A tap on a single choice is the answer.
ChooseOption(option, saved) ==
    /\ ChildAt("lesson") /\ quiz.left > 0
    /\ IF quiz.kind = "single"
       THEN SubmitAnswer(saved) /\ (~saved => selection' = Toggled(option))
       ELSE selection' = Toggled(option) /\ UNCHANGED <<screen, quiz, retry, answered>>
    /\ UNCHANGED child

SubmitSelection(saved) ==
    /\ ChildAt("lesson") /\ quiz.kind # "single" /\ SubmitReady(selection)
    /\ SubmitAnswer(saved) /\ (~saved => UNCHANGED selection)
    /\ UNCHANGED child

ContinueLesson ==
    /\ ChildAt("feedback")
    /\ IF ~retry /\ quiz.left = 0
       THEN screen' = "complete" /\ UNCHANGED selection
       ELSE screen' = "lesson" /\ selection' = NoSelection
    /\ UNCHANGED <<child, quiz, retry, answered>>

\* The session leaves the view; it stays in the store, unfinished or not.
LeaveLesson ==
    /\ ChildAt("lesson") \/ ChildAt("complete")
    /\ quiz' = NoLesson /\ screen' = "plans" /\ retry' = FALSE
    /\ answered' = [recorded |-> 0, judged |-> 0]
    /\ UNCHANGED <<child, selection>>

LearningHome ==
    /\ At("plans")
    /\ child' = Nothing /\ quiz' = NoLesson /\ screen' = "profiles"
    /\ authorized' = FALSE /\ digits' = 0 /\ pupil' = Nothing /\ course' = Nothing
    /\ UNCHANGED <<draft, asking, typing, store_, selection, retry, answered>>

ScreensInit ==
    /\ screen = "profiles" /\ authorized = FALSE /\ digits = 0
    /\ pupils = [p \in Pupil |-> "none"] /\ courses = [c \in Course |-> Absent]
    /\ pupil = Nothing /\ course = Nothing
    /\ draft = NoDraft
    /\ asking = NoQuestion /\ typing = "none"
    /\ child = Nothing /\ quiz = NoLesson /\ selection = Nothing /\ retry = FALSE
    /\ answered = [recorded |-> 0, judged |-> 0]

ScreensNext ==
    \/ OpenTeacher \/ ErasePin \/ TeacherReport \/ CancelText \/ EditPlan \/ ChooseLessons
    \/ OpenLessonFilter \/ SetLessonFilter \/ CancelPlanEdit \/ CancelConfirmation \/ TeacherBack
    \/ RequestAddLessons(SetToSeq(Subject))
    \/ \E p \in Pupil : TeacherProfile(p) \/ LearningProfile(p)
    \/ \E c \in Course : TeacherPlan(c) \/ StartLesson(c)
    \/ \E operation \in {"archive_profile", "reset_profile"} : AskAboutProfile(operation)
    \/ \E operation \in {"archive_plan", "reset_plan"} : AskAboutPlan(operation)
    \/ \E purpose \in DOMAIN TextReturn : OpenTextEditor(purpose)
    \/ \E s \in Subject : RemovePlanLesson(s) \/ ToggleLesson(s)
    \/ \E i, j \in 1..Cardinality(Subject) : MovePlanLesson(i, j)
    \/ \E ok \in BOOLEAN :
           \/ TeacherDigit(ok) \/ PressRestoreProfile(ok) \/ SaveText(ok) \/ TogglePlan(ok)
           \/ PressRestorePlan(ok) \/ PressDuplicate(ok) \/ RequestSavePlan(ok)
           \/ CompleteConfirmation(ok) \/ SubmitSelection(ok)
           \/ \E option \in Option : ChooseOption(option, ok)
    \/ StartLesson(Nothing) \/ ContinueLesson \/ LeaveLesson \/ LearningHome

ScreensSpec == ScreensInit /\ [][ScreensNext]_screenVars

-----------------------------------------------------------------------------
(* Properties. *)

TeacherScreens == {"teacher_home", "teacher_profile", "teacher_plan", "teacher_plan_edit",
                   "teacher_lessons", "teacher_lesson_filter", "teacher_text", "teacher_confirm",
                   "teacher_report"}

ScreenNames == TeacherScreens \cup {"profiles", "teacher_pin", "plans", "lesson", "feedback", "complete"}

AreaTyped ==
    /\ screen \in ScreenNames /\ authorized \in BOOLEAN /\ digits \in 0..3
    /\ typing \in DOMAIN TextReturn \cup {"none"}
    /\ asking.operation \in DOMAIN AskedOn \cup {"none"}

RecordsTyped ==
    /\ pupils \in [Pupil -> {"none", "active", "archived"}]
    /\ courses \in [Course -> [owner : Pupil \cup {Nothing}, archived : BOOLEAN, enabled : BOOLEAN,
                               lessons : Seq(Subject), meant : BOOLEAN]]
    /\ pupil \in Pupil \cup {Nothing} /\ course \in Course \cup {Nothing}

\* A list of lessons has no lesson twice.
DraftTyped ==
    /\ draft \in [editing : Course \cup {Nothing}, lessons : Seq(Subject)]
    /\ IsInjective(draft.lessons)

LessonTyped ==
    /\ child \in Pupil \cup {Nothing} /\ retry \in BOOLEAN
    /\ quiz \in [left : 0..MaxQuestions, kind : Kinds]
    /\ answered \in [recorded : Nat, judged : Nat]

ScreensTypeOK == AreaTyped /\ RecordsTyped /\ DraftTyped /\ LessonTyped

\* The PIN is asked for whenever the teacher's area is entered: it is open exactly while one of
\* its screens is shown, whatever way a child or a teacher came there, and a screen about a
\* learner or a plan always has one.
TeacherAreaIsGated ==
    /\ authorized <=> screen \in TeacherScreens
    /\ screen = "teacher_profile" => pupil # Nothing
    /\ screen = "teacher_plan" => course # Nothing /\ courses[course].owner = pupil
    /\ screen \in {"plans", "lesson", "feedback", "complete"} => child # Nothing

\* A plan whose order skips a foundation was saved by a teacher who was warned of that order.
OrdersAreMeant ==
    \A c \in Course : PrerequisiteWarnings(courses[c].lessons) # {} => courses[c].meant

\* No feedback is shown for an answer that is not in the child's record, even when a write fails
\* in the middle of a lesson, and no finished lesson misses one.
FeedbackIsRecorded ==
    /\ answered.recorded = answered.judged
    /\ screen = "complete" => answered.recorded >= MaxQuestions

\* What the screens promise, whichever way a child or a teacher takes through them.
ScreensAreSafe == ScreensTypeOK /\ TeacherAreaIsGated /\ OrdersAreMeant /\ FeedbackIsRecorded
=============================================================================
