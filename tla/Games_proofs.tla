----------------------------- MODULE Games_proofs -----------------------------
(* The learning area, for any learners, plans, lessons and questions, the pair *)
(* game, for any number of pairs, and Twenty Questions.                        *)
(*                                                                             *)
(* LearningScreens: which screen is shown says how far the teacher or the      *)
(* child has come.  The teacher's screens are shown exactly while the PIN was  *)
(* given (Gated); a screen about a learner or a plan has one open, and the     *)
(* draft is the open plan's or a new one's (LearnerOpen, PlanOpen, DraftOpen); *)
(* what is saved and what is still to be asked make up the session             *)
(* (LessonOpen).                                                               *)
(*                                                                             *)
(* MatchingGame and MatchingTable: what is under way says what is on the       *)
(* board.  On the canvas one thing is under way at a time, as a new game       *)
(* cancels it (OneAfter); on the hosted view one timer is set at most as long  *)
(* as no game was begun in BMO's turn (OneTimer).                              *)
(*                                                                             *)
(* LearningQuestions: a question is marked by its prompt when it is put on the *)
(* screen (IsMarked), generator by generator, so the judge, which compares a   *)
(* response with the marks alone, accepts what the prompt asks for.            *)
(*                                                                             *)
(* LearningProgress: whatever is kept belongs to a learner who is there, and   *)
(* to a plan of that learner (AllOwned), so the next start reads it; the place *)
(* of a session follows from its answers (AsSubmitted), and what the history   *)
(* has of it is the end of what it has itself (Told), however much is dropped. *)
(* The evidence is one group of answers for each question asked (IsEvidence),  *)
(* so reports count questions, and not more right ones than there were.        *)
(*                                                                             *)
(* TwentyQuestions, for any catalogue and limits: one thing is waited for, or  *)
(* the model is being asked, and its answer or its silence leads on to one     *)
(* (OneAsked, MovesAre, SpentIs); one of two threads moves a game (OneActs).   *)
(* What was learnt is added to, never rewritten (LearnKeeps), and its lines,   *)
(* one for each object, are read back as they are (RowsReadBack).              *)
EXTENDS LearningScreens, LearningQuestions, LearningProgress, MatchingTable, TwentyQuestions,
        Lists_proofs, FiniteSetTheorems, FunctionTheorems, TLAPS

(***************************************************************************)
(* The screens of the learning area                                        *)
(***************************************************************************)

DraftScreens == {"teacher_plan_edit", "teacher_lessons", "teacher_lesson_filter"}
ChildScreens == {"plans", "lesson", "feedback", "complete"}

\* What a name is typed for and what is asked is known while it is on the screen.
TypingFor == screen = "teacher_text" => typing \in DOMAIN TextReturn
AskingOf == screen = "teacher_confirm" => asking.operation \in DOMAIN AskedOn
Gated == authorized <=> screen \in TeacherScreens
AreaInv == AreaTyped /\ Gated /\ TypingFor /\ AskingOf

NewLearner == screen = "teacher_text" /\ typing = "new_profile"
AskedOfPlan == screen = "teacher_confirm" /\ asking.operation \in {"archive_plan", "reset_plan"}
OnDraft ==
    \/ screen \in DraftScreens
    \/ screen = "teacher_text" /\ typing = "rename_plan"
    \/ screen = "teacher_confirm" /\ asking.operation \in {"add_lessons", "save_plan"}

\* On these screens no plan is open yet.
BeforePlans ==
    \/ screen \notin TeacherScreens \/ screen \in {"teacher_home", "teacher_profile"}
    \/ screen = "teacher_text" /\ typing # "rename_plan"
    \/ screen = "teacher_confirm" /\ asking.operation \in {"archive_profile", "reset_profile"}

\* A screen about a learner or a plan has one, and the plan is the learner's.
LearnerOpen == screen \in TeacherScreens \ {"teacher_home"} /\ ~NewLearner => pupil # Nothing
PlanOpen ==
    /\ course # Nothing => pupil # Nothing /\ courses[course].owner = pupil
    /\ screen = "teacher_plan" \/ AskedOfPlan => course # Nothing
    /\ BeforePlans => course = Nothing

\* What is edited is the open plan, or a new one while none is open.
DraftOpen == OnDraft => draft.editing = course
PlansDistinct == \A c \in Course : IsInjective(courses[c].lessons)
AddedNew ==
    screen = "teacher_confirm" /\ asking.operation = "add_lessons" =>
        /\ asking.values \in Seq(Subject) /\ IsInjective(asking.values)
        /\ ToSet(asking.values) \cap ToSet(draft.lessons) = {}
TeacherInv ==
    /\ RecordsTyped /\ DraftTyped /\ LearnerOpen /\ PlanOpen /\ DraftOpen
    /\ PlansDistinct /\ AddedNew /\ OrdersAreMeant

\* A lesson on the screen has questions left, as many as are not answered yet.
ChildOpen == screen \in ChildScreens => child # Nothing
LessonOpen ==
    /\ answered.recorded = answered.judged
    /\ screen \in {"lesson", "feedback", "complete"} => answered.recorded + quiz.left >= MaxQuestions
    /\ screen = "lesson" => quiz.left > 0
    /\ screen = "feedback" /\ retry => quiz.left > 0
    /\ screen = "complete" => quiz.left = 0
ChildInv == LessonTyped /\ ChildOpen /\ LessonOpen

ScreensInv == AreaInv /\ TeacherInv /\ ChildInv

\* Where the teacher comes back to.
LEMMA WaysBack ==
  /\ DOMAIN TextReturn = {"new_profile", "rename_profile", "new_plan", "rename_plan"}
  /\ TextReturn["new_profile"] = "teacher_home" /\ TextReturn["rename_profile"] = "teacher_profile"
  /\ TextReturn["new_plan"] = "teacher_profile" /\ TextReturn["rename_plan"] = "teacher_plan_edit"
  /\ DOMAIN AskedOn = {"archive_profile", "reset_profile", "archive_plan", "reset_plan",
                       "add_lessons", "save_plan"}
  /\ AskedOn["archive_profile"] = "teacher_profile" /\ AskedOn["reset_profile"] = "teacher_profile"
  /\ AskedOn["archive_plan"] = "teacher_plan" /\ AskedOn["reset_plan"] = "teacher_plan"
  /\ AskedOn["add_lessons"] = "teacher_lessons" /\ AskedOn["save_plan"] = "teacher_plan_edit"
  BY DEF TextReturn, AskedOn

\* The teacher's area is open exactly on its screens: the way in checks the PIN,
\* and the ways out close it.
LEMMA AreaStep == ASSUME AreaInv, [ScreensNext]_screenVars PROVE AreaInv'
<1> USE WaysBack DEF AreaInv, AreaTyped, Gated, TypingFor, AskingOf, TeacherScreens, ScreenNames
<1>1. CASE UNCHANGED screenVars
  BY <1>1 DEF screenVars, teacherVars
<1>2. CASE OpenTeacher \/ ErasePin \/ (\E ok \in BOOLEAN : TeacherDigit(ok))
  BY <1>2 DEF OpenTeacher, ErasePin, TeacherDigit, At
<1>3. CASE \/ TeacherReport \/ EditPlan \/ ChooseLessons \/ OpenLessonFilter \/ SetLessonFilter
           \/ CancelPlanEdit \/ (\E c \in Course : TeacherPlan(c)) \/ (\E p \in Pupil : TeacherProfile(p))
  BY <1>3 DEF TeacherReport, EditPlan, ChooseLessons, OpenLessonFilter, SetLessonFilter,
     CancelPlanEdit, TeacherPlan, TeacherProfile, TeacherAt
<1>4. CASE \/ \E ok \in BOOLEAN : \/ PressRestoreProfile(ok) \/ TogglePlan(ok) \/ PressRestorePlan(ok)
                                  \/ PressDuplicate(ok)
           \/ \E s \in Subject : RemovePlanLesson(s)
           \/ \E i, j \in 1..Cardinality(Subject) : MovePlanLesson(i, j)
  BY <1>4 DEF PressRestoreProfile, TogglePlan, PressRestorePlan, PressDuplicate, RemovePlanLesson,
     MovePlanLesson, TeacherAt
<1>5. CASE (\E o \in {"archive_profile", "reset_profile"} : AskAboutProfile(o))
           \/ (\E o \in {"archive_plan", "reset_plan"} : AskAboutPlan(o))
  BY <1>5 DEF AskAboutProfile, AskAboutPlan, AskFirst, TeacherAt
<1>6. CASE \E purpose \in DOMAIN TextReturn : OpenTextEditor(purpose)
  BY <1>6 DEF OpenTextEditor, TeacherAt
<1>7. CASE CancelText \/ CancelConfirmation
  BY <1>7 DEF CancelText, CancelConfirmation, TeacherAt, NoQuestion
<1>8. CASE \E ok \in BOOLEAN : SaveText(ok)
  BY <1>8 DEF SaveText, TeacherAt
<1>9. CASE RequestAddLessons(SetToSeq(Subject)) \/ (\E s \in Subject : ToggleLesson(s))
  <2>1. ASSUME NEW added, RequestAddLessons(added) PROVE AreaInv'
    <3>1. /\ screen = "teacher_lessons" /\ UNCHANGED <<authorized, digits, typing>>
          /\ \/ UNCHANGED <<screen, asking>>
             \/ \E values : AskFirst("add_lessons", values)
      BY <2>1 DEF RequestAddLessons, TeacherAt
    <3>2. CASE UNCHANGED <<screen, asking>>
      BY <3>1, <3>2
    <3>3. CASE \E values : AskFirst("add_lessons", values)
      BY <3>1, <3>3 DEF AskFirst
    <3>4. QED
      BY <3>1, <3>2, <3>3
  <2>2. ASSUME NEW s \in Subject, ToggleLesson(s) PROVE AreaInv'
    <3>1. CASE \E added : RequestAddLessons(added)
      BY <2>1, <3>1
    <3>2. CASE /\ screen' = screen /\ authorized' = authorized /\ digits' = digits
               /\ typing' = typing /\ asking' = asking
      BY <3>2
    <3>3. QED
      BY <2>2, <3>1, <3>2 DEF ToggleLesson, TeacherAt
  <2>3. QED
    BY <1>9, <2>1, <2>2
<1>10. CASE \E ok \in BOOLEAN : RequestSavePlan(ok)
  <2>1. /\ screen = "teacher_plan_edit" /\ UNCHANGED <<authorized, digits, typing>>
        /\ \/ screen' = "teacher_plan" /\ asking' = asking
           \/ AskFirst("save_plan", <<>>)
    BY <1>10 DEF RequestSavePlan, SavePlan, TeacherAt
  <2>2. CASE screen' = "teacher_plan" /\ asking' = asking
    BY <2>1, <2>2
  <2>3. CASE AskFirst("save_plan", <<>>)
    BY <2>1, <2>3 DEF AskFirst
  <2>4. QED
    BY <2>1, <2>2, <2>3
<1>11. CASE \E ok \in BOOLEAN : CompleteConfirmation(ok)
  <2>1. /\ screen = "teacher_confirm" /\ UNCHANGED <<authorized, digits, typing>> /\ asking' = NoQuestion
        /\ screen' \in {"teacher_plan", "teacher_lessons", AskedOn[asking.operation]}
    <3>1. PICK ok \in BOOLEAN : CompleteConfirmation(ok)
      BY <1>11
    <3>2. \A meant : SavePlan(meant) => screen' = "teacher_plan"
      BY DEF SavePlan
    <3>3. QED
      BY <3>1, <3>2 DEF CompleteConfirmation, TeacherAt
  <2>2. screen' \in TeacherScreens \ {"teacher_text", "teacher_confirm"}
    BY <2>1
  <2>3. asking'.operation = "none"
    BY <2>1 DEF NoQuestion
  <2>4. QED
    BY <2>1, <2>2, <2>3
<1>12. CASE TeacherBack
  <2>1. /\ typing' = typing /\ asking' = asking /\ digits' \in 0..3
        /\ authorized' = (authorized /\ screen # "teacher_home")
    BY <1>12 DEF TeacherBack, StaysAuthorized, At
  <2>2. \/ screen \in TeacherScreens \ {"teacher_home"} /\ screen' \in TeacherScreens \ {"teacher_text", "teacher_confirm"}
        \/ screen \in {"teacher_home", "teacher_pin"} /\ screen' = "profiles"
    BY <1>12 DEF TeacherBack, At
  <2>3. QED
    BY <2>1, <2>2
<1>13. CASE \/ \E p \in Pupil : LearningProfile(p)
            \/ \E c \in Course : StartLesson(c)
            \/ StartLesson(Nothing) \/ ContinueLesson \/ LeaveLesson
  <2>1. /\ screen \notin TeacherScreens /\ UNCHANGED <<authorized, teacherVars>>
        /\ screen' \in {"plans", "lesson", "feedback", "complete"}
    BY <1>13 DEF LearningProfile, StartLesson, ContinueLesson, LeaveLesson, ChildAt
  <2>2. QED
    BY <2>1 DEF teacherVars
<1>14. CASE \E ok \in BOOLEAN : \/ SubmitSelection(ok)
                                \/ \E option \in Option : ChooseOption(option, ok)
  <2>1. screen = "lesson" /\ UNCHANGED <<authorized, teacherVars>> /\ screen' \in {"lesson", "feedback"}
    BY <1>14 DEF SubmitSelection, ChooseOption, SubmitAnswer, ChildAt
  <2>2. QED
    BY <2>1 DEF teacherVars
<1>15. CASE LearningHome
  <2>1. /\ screen' = "profiles" /\ authorized' \in BOOLEAN /\ ~authorized' /\ digits' = 0
        /\ UNCHANGED <<asking, typing>>
    BY <1>15 DEF LearningHome
  <2>2. QED
    BY <2>1
<1>16. QED
  BY <1>1, <1>2, <1>3, <1>4, <1>5, <1>6, <1>7, <1>8, <1>9, <1>10, <1>11, <1>12, <1>13, <1>14,
     <1>15 DEF ScreensNext

\* The child's screens: a question more is answered and saved, or neither.
LEMMA ChildStep == ASSUME AreaInv, ChildInv, [ScreensNext]_screenVars PROVE ChildInv'
<1> DEFINE Here == ScreenNames \ {"plans", "lesson", "feedback", "complete"}
<1>a. /\ MaxQuestions \in Nat /\ MaxQuestions > 0 /\ screen \in ScreenNames
      /\ (Nothing \notin Pupil)
      /\ quiz.left \in 0..MaxQuestions /\ answered.recorded \in Nat
  BY ScreensConstants DEF AreaInv, AreaTyped, ChildInv, LessonTyped
<1>1. CASE UNCHANGED lessonVars /\ (screen' = screen \/ screen' \notin ChildScreens)
  BY <1>1 DEF lessonVars, ChildInv, LessonTyped, ChildOpen, LessonOpen, ChildScreens
<1>2. ASSUME NEW p \in Pupil, LearningProfile(p) PROVE ChildInv'
  BY <1>a, <1>2 DEF LearningProfile, ChildInv, LessonTyped, ChildOpen, LessonOpen, ChildScreens
<1>3. ASSUME NEW c, StartLesson(c) PROVE ChildInv'
  <2>1. PICK kind \in Kinds : quiz' = [left |-> MaxQuestions, kind |-> kind]
    BY <1>3 DEF StartLesson
  <2>2. /\ screen = "plans" /\ screen' = "lesson" /\ UNCHANGED <<child, retry>>
        /\ answered' = [recorded |-> 0, judged |-> 0]
    BY <1>3 DEF StartLesson, ChildAt
  <2>3. QED
    BY <1>a, <2>1, <2>2 DEF ChildInv, LessonTyped, ChildOpen, LessonOpen, ChildScreens
<1>4. ASSUME NEW saved \in BOOLEAN, SubmitAnswer(saved), screen = "lesson", child' = child
      PROVE  ChildInv'
  <2>1. CASE UNCHANGED <<screen, quiz, retry, answered>>
    BY <1>4, <2>1 DEF ChildInv, LessonTyped, ChildOpen, LessonOpen, ChildScreens
  <2>2. CASE saved
    <3>1. /\ answered' = [recorded |-> answered.recorded + 1, judged |-> answered.judged + 1]
          /\ retry' \in BOOLEAN /\ screen' = "feedback"
      BY <1>4, <2>2 DEF SubmitAnswer
    <3>2. CASE retry'
      <4>1. quiz' = quiz
        BY <1>4, <2>2, <3>2 DEF SubmitAnswer
      <4>2. QED
        BY <1>a, <1>4, <3>1, <3>2, <4>1 DEF ChildInv, LessonTyped, ChildOpen, LessonOpen, ChildScreens
    <3>3. CASE ~retry'
      <4>1. PICK kind \in Kinds : quiz' = [left |-> quiz.left - 1, kind |-> kind]
        BY <1>4, <2>2, <3>3 DEF SubmitAnswer
      <4>2. QED
        BY <1>a, <1>4, <3>1, <3>3, <4>1 DEF ChildInv, LessonTyped, ChildOpen, LessonOpen, ChildScreens
    <3>4. QED
      BY <3>2, <3>3
  <2>3. QED
    BY <1>4, <2>1, <2>2 DEF SubmitAnswer
<1>5. ASSUME NEW saved \in BOOLEAN, NEW option \in Option, ChooseOption(option, saved) PROVE ChildInv'
  <2>1. CASE SubmitAnswer(saved)
    BY <1>4, <1>5, <2>1 DEF ChooseOption, ChildAt
  <2>2. CASE UNCHANGED <<screen, quiz, retry, answered>>
    <3>1. child' = child
      BY <1>5 DEF ChooseOption
    <3>2. QED
      BY <2>2, <3>1 DEF ChildInv, LessonTyped, ChildOpen, LessonOpen, ChildScreens
  <2>3. QED
    BY <1>5, <2>1, <2>2 DEF ChooseOption
<1>6. ASSUME NEW saved \in BOOLEAN, SubmitSelection(saved) PROVE ChildInv'
  BY <1>4, <1>6 DEF SubmitSelection, ChildAt
<1>7. CASE ContinueLesson
  BY <1>a, <1>7 DEF ContinueLesson, ChildAt, ChildInv, LessonTyped, ChildOpen, LessonOpen, ChildScreens
<1>8. CASE LeaveLesson
  <2>1. /\ screen \in ChildScreens /\ child' = child /\ screen' = "plans"
        /\ retry' \in BOOLEAN /\ ~retry'
        /\ quiz' = NoLesson /\ answered' = [recorded |-> 0, judged |-> 0]
    BY <1>8 DEF LeaveLesson, ChildAt, ChildScreens
  <2>2. QED
    BY <1>a, <2>1 DEF NoLesson, Kinds, ChildInv, LessonTyped, ChildOpen, LessonOpen, ChildScreens
<1>9. CASE LearningHome
  BY <1>a, <1>9 DEF LearningHome, NoLesson, Kinds, ChildInv, LessonTyped, ChildOpen, LessonOpen,
     ChildScreens
<1>10. ASSUME UNCHANGED <<authorized, lessonVars>>, authorized PROVE ChildInv'
  <2>1. screen' \in TeacherScreens
    <3>1. AreaInv'
      BY AreaStep
    <3>2. QED
      BY <1>10, <3>1 DEF AreaInv, Gated
  <2>2. QED
    BY <1>1, <1>10, <2>1 DEF TeacherScreens, ChildScreens
<1>11. ASSUME NEW s, TeacherAt(s) PROVE ChildInv'
  BY <1>10, <1>11 DEF TeacherAt
<1>12. CASE OpenTeacher \/ ErasePin \/ (\E ok \in BOOLEAN : TeacherDigit(ok))
  <2>1. UNCHANGED lessonVars /\ screen' \in {screen, "teacher_pin", "teacher_home"}
    BY <1>12 DEF OpenTeacher, ErasePin, TeacherDigit
  <2>2. QED
    BY <1>1, <2>1 DEF ChildScreens
<1>13. CASE TeacherBack
  <2>1. UNCHANGED lessonVars /\ screen' \notin ChildScreens
    BY <1>13 DEF TeacherBack, At, ChildScreens
  <2>2. QED
    BY <1>1, <2>1
<1>14. CASE \/ \E p \in Pupil : TeacherProfile(p)
            \/ \E c \in Course : TeacherPlan(c)
            \/ \E o \in {"archive_profile", "reset_profile"} : AskAboutProfile(o)
            \/ \E o \in {"archive_plan", "reset_plan"} : AskAboutPlan(o)
            \/ \E purpose \in DOMAIN TextReturn : OpenTextEditor(purpose)
            \/ \E s \in Subject : RemovePlanLesson(s) \/ ToggleLesson(s)
            \/ \E i, j \in 1..Cardinality(Subject) : MovePlanLesson(i, j)
            \/ TeacherReport \/ CancelText \/ EditPlan \/ ChooseLessons \/ OpenLessonFilter
            \/ SetLessonFilter \/ CancelPlanEdit \/ CancelConfirmation
            \/ RequestAddLessons(SetToSeq(Subject))
  <2>1. \E s : TeacherAt(s)
    BY <1>14 DEF TeacherProfile, TeacherPlan, AskAboutProfile, AskAboutPlan, OpenTextEditor,
       RemovePlanLesson, ToggleLesson, MovePlanLesson, TeacherReport, CancelText, EditPlan,
       ChooseLessons, OpenLessonFilter, SetLessonFilter, CancelPlanEdit, CancelConfirmation,
       RequestAddLessons
  <2>2. QED
    BY <1>11, <2>1
<1>15. CASE \E ok \in BOOLEAN :
           \/ PressRestoreProfile(ok) \/ SaveText(ok) \/ TogglePlan(ok)
           \/ PressRestorePlan(ok) \/ PressDuplicate(ok) \/ RequestSavePlan(ok)
           \/ CompleteConfirmation(ok)
  <2>1. \E s : TeacherAt(s)
    BY <1>15 DEF PressRestoreProfile, SaveText, TogglePlan, PressRestorePlan, PressDuplicate,
       RequestSavePlan, CompleteConfirmation
  <2>2. QED
    BY <1>11, <2>1
<1>16. CASE UNCHANGED screenVars
  BY <1>1, <1>16 DEF screenVars
<1>17. QED
  BY <1>2, <1>3, <1>5, <1>6, <1>7, <1>8, <1>9, <1>12, <1>13, <1>14, <1>15, <1>16 DEF ScreensNext

\* The records and the fields of an absent plan.
LEMMA AbsentTyped ==
  /\ Absent \in [owner : Pupil \cup {Nothing}, archived : BOOLEAN, enabled : BOOLEAN,
                 lessons : Seq(Subject), meant : BOOLEAN]
  /\ Absent.owner = Nothing /\ Absent.lessons = <<>> /\ PrerequisiteWarnings(Absent.lessons) = {}
  /\ NoDraft \in [editing : Course \cup {Nothing}, lessons : Seq(Subject)]
  /\ NoDraft.editing = Nothing /\ NoDraft.lessons = <<>>
  /\ IsInjective(<<>>) /\ ToSet(<<>>) = {}
  BY DEF Absent, NoDraft, IsInjective, ToSet, PrerequisiteWarnings

\* The steps between screens.
LEMMA TeacherMoves ==
  ASSUME AreaInv, TeacherInv,
         \/ UNCHANGED screenVars
         \/ OpenTeacher \/ ErasePin \/ (\E ok \in BOOLEAN : TeacherDigit(ok))
         \/ (\E p \in Pupil : TeacherProfile(p)) \/ (\E c \in Course : TeacherPlan(c))
         \/ (\E o \in {"archive_profile", "reset_profile"} : AskAboutProfile(o))
         \/ (\E o \in {"archive_plan", "reset_plan"} : AskAboutPlan(o))
         \/ (\E purpose \in DOMAIN TextReturn : OpenTextEditor(purpose))
         \/ TeacherReport \/ CancelText \/ ChooseLessons \/ OpenLessonFilter \/ SetLessonFilter
         \/ CancelConfirmation \/ TeacherBack
         \/ (\E p \in Pupil : LearningProfile(p))
         \/ (\E c : StartLesson(c)) \/ ContinueLesson \/ LeaveLesson \/ LearningHome
         \/ \E ok \in BOOLEAN : SubmitSelection(ok) \/ \E option \in Option : ChooseOption(option, ok)
  PROVE  TeacherInv'
<1> DEFINE Good == /\ UNCHANGED <<store_, draft>>
                   /\ pupil' \in Pupil \cup {Nothing} /\ course' \in Course \cup {Nothing}
                   /\ LearnerOpen' /\ PlanOpen' /\ DraftOpen' /\ AddedNew'
<1> SUFFICES Good
  BY DEF TeacherInv, store_, RecordsTyped, DraftTyped, PlansDistinct, OrdersAreMeant
<1>a. /\ LearnerOpen /\ PlanOpen /\ DraftOpen /\ AddedNew
      /\ pupil \in Pupil \cup {Nothing} /\ course \in Course \cup {Nothing}
      /\ \A c \in Course : courses[c].owner \in Pupil \cup {Nothing}
      /\ Nothing \notin Pupil /\ Nothing \notin Course
      /\ typing \in DOMAIN TextReturn \cup {"none"}
      /\ asking.operation \in DOMAIN AskedOn \cup {"none"}
      /\ screen \in ScreenNames /\ TypingFor /\ AskingOf
  BY ScreensConstants DEF TeacherInv, RecordsTyped, AreaInv, AreaTyped
<1> USE WaysBack DEF store_, LearnerOpen, PlanOpen, DraftOpen, AddedNew, NewLearner, AskedOfPlan, BeforePlans, OnDraft,
        TeacherScreens, DraftScreens, TypingFor, AskingOf
<1>1. CASE UNCHANGED screenVars
  BY <1>a, <1>1 DEF screenVars, teacherVars
<1>2. CASE OpenTeacher \/ ErasePin \/ (\E ok \in BOOLEAN : TeacherDigit(ok))
  BY <1>a, <1>2 DEF OpenTeacher, ErasePin, TeacherDigit, At
<1>3. CASE \E p \in Pupil : TeacherProfile(p)
  BY <1>a, <1>3 DEF TeacherProfile, TeacherAt
<1>4. CASE \E c \in Course : TeacherPlan(c)
  BY <1>a, <1>4 DEF TeacherPlan, TeacherAt
<1>5. CASE \E o \in {"archive_profile", "reset_profile"} : AskAboutProfile(o)
  BY <1>a, <1>5 DEF AskAboutProfile, AskFirst, TeacherAt
<1>6. CASE \E o \in {"archive_plan", "reset_plan"} : AskAboutPlan(o)
  BY <1>a, <1>6 DEF AskAboutPlan, AskFirst, TeacherAt
<1>7. CASE \E purpose \in DOMAIN TextReturn : OpenTextEditor(purpose)
  BY <1>a, <1>7 DEF OpenTextEditor, TeacherAt
<1>8. CASE TeacherReport \/ ChooseLessons \/ OpenLessonFilter \/ SetLessonFilter
  BY <1>a, <1>8 DEF TeacherReport, ChooseLessons, OpenLessonFilter, SetLessonFilter, TeacherAt
<1>9. CASE CancelText
  BY <1>a, <1>9 DEF CancelText, TeacherAt
<1>10. CASE CancelConfirmation
  BY <1>a, <1>10 DEF CancelConfirmation, TeacherAt
<1>11. CASE TeacherBack
  BY <1>a, <1>11 DEF TeacherBack, At
<1>12. CASE \/ \E p \in Pupil : LearningProfile(p)
            \/ (\E c : StartLesson(c)) \/ ContinueLesson \/ LeaveLesson
            \/ \E ok \in BOOLEAN : SubmitSelection(ok) \/ \E option \in Option : ChooseOption(option, ok)
  <2>1. /\ screen \notin TeacherScreens /\ screen' \notin TeacherScreens
        /\ UNCHANGED <<teacherVars, store_>>
    <3>1. CASE \E ok \in BOOLEAN : SubmitSelection(ok) \/ \E option \in Option : ChooseOption(option, ok)
      BY <3>1 DEF SubmitSelection, ChooseOption, SubmitAnswer, ChildAt
    <3>2. QED
      BY <1>12, <3>1 DEF LearningProfile, StartLesson, ContinueLesson, LeaveLesson, ChildAt
  <2>2. QED
    BY <1>a, <2>1 DEF teacherVars
<1>13. CASE LearningHome
  BY <1>a, <1>13 DEF LearningHome
<1>14. QED
  BY <1>1, <1>2, <1>3, <1>4, <1>5, <1>6, <1>7, <1>8, <1>9, <1>10, <1>11, <1>12, <1>13

Plans == [owner : Pupil \cup {Nothing}, archived : BOOLEAN, enabled : BOOLEAN,
          lessons : Seq(Subject), meant : BOOLEAN]

\* A plan is switched on or off, archived or restored: nothing that is promised
\* of the open plan or of its lessons is touched.
LEMMA PlanSwitched ==
  ASSUME NEW c \in Course, RecordsTyped, NEW r, r \in Plans, r.owner = courses[c].owner,
         r.lessons = courses[c].lessons, r.meant = courses[c].meant,
         courses' = [courses EXCEPT ![c] = r], PlansDistinct, OrdersAreMeant,
         pupils' \in [Pupil -> {"none", "active", "archived"}], UNCHANGED <<pupil, course>>
  PROVE  /\ RecordsTyped' /\ PlansDistinct' /\ OrdersAreMeant'
         /\ \A d \in Course : courses'[d].owner = courses[d].owner
<1>1. \A d \in Course : courses'[d] = IF d = c THEN r ELSE courses[d]
  BY DEF RecordsTyped
<1>2. RecordsTyped'
  BY DEF RecordsTyped, Plans
<1>3. \A d \in Course : /\ courses'[d].owner = courses[d].owner
                        /\ courses'[d].lessons = courses[d].lessons
                        /\ courses'[d].meant = courses[d].meant
  BY <1>1
<1>4. QED
  BY <1>2, <1>3 DEF PlansDistinct, OrdersAreMeant

\* A plan is added or rewritten with lessons that are told apart and meant.
LEMMA PlanWritten ==
  ASSUME NEW c \in Course, RecordsTyped, PlansDistinct, OrdersAreMeant, NEW r, r \in Plans,
         IsInjective(r.lessons), PrerequisiteWarnings(r.lessons) # {} => r.meant,
         r.owner = pupil, courses' = [courses EXCEPT ![c] = r],
         course' = c, UNCHANGED <<pupils, pupil>>
  PROVE  /\ RecordsTyped' /\ PlansDistinct' /\ OrdersAreMeant'
         /\ courses'[course'].owner = pupil'
<1>1. \A d \in Course : courses'[d] = IF d = c THEN r ELSE courses[d]
  BY DEF RecordsTyped
<1>2. RecordsTyped'
  BY DEF RecordsTyped, Plans
<1>3. QED
  BY <1>1, <1>2 DEF PlansDistinct, OrdersAreMeant

\* A draft is saved: over the open plan, or as a new one.
LEMMA SaveKeeps ==
  ASSUME TeacherInv, NEW meant \in BOOLEAN, SavePlan(meant), pupil # Nothing, draft.editing = course,
         UNCHANGED <<pupils, pupil>>, PrerequisiteWarnings(draft.lessons) # {} => meant
  PROVE  TeacherInv'
<1>1. PICK c \in IF draft.editing = Nothing THEN {d \in Course : courses[d] = Absent} ELSE {draft.editing} :
        /\ courses' = [courses EXCEPT ![c] =
               [owner |-> pupil, archived |-> FALSE, lessons |-> draft.lessons, meant |-> meant,
                enabled |-> IF draft.editing = Nothing THEN TRUE ELSE @.enabled]]
        /\ course' = c /\ draft' = NoDraft
        /\ screen' = "teacher_plan"
  BY DEF SavePlan
<1> DEFINE r == [owner |-> pupil, archived |-> FALSE, lessons |-> draft.lessons, meant |-> meant,
                 enabled |-> IF draft.editing = Nothing THEN TRUE ELSE courses[c].enabled]
<1>2. c \in Course /\ courses[c].enabled \in BOOLEAN
  BY <1>1 DEF TeacherInv, DraftTyped, RecordsTyped
<1>3. /\ r \in Plans /\ r.lessons = draft.lessons /\ r.meant = meant /\ r.owner = pupil
      /\ courses' = [courses EXCEPT ![c] = r]
  BY <1>1, <1>2 DEF TeacherInv, DraftTyped, RecordsTyped, Plans
<1> HIDE DEF r
<1>4. /\ RecordsTyped' /\ PlansDistinct' /\ OrdersAreMeant' /\ courses'[course'].owner = pupil'
  BY <1>1, <1>2, <1>3, PlanWritten DEF TeacherInv, DraftTyped
<1>5. DraftTyped' /\ draft'.lessons = <<>>
  BY <1>1, AbsentTyped DEF DraftTyped
<1>6. course' # Nothing
  BY <1>1, <1>2, ScreensConstants
<1>7. LearnerOpen' /\ PlanOpen' /\ DraftOpen' /\ AddedNew'
  BY <1>1, <1>4, <1>6 DEF LearnerOpen, PlanOpen, DraftOpen, AddedNew, NewLearner, AskedOfPlan, BeforePlans, OnDraft,
     TeacherScreens, DraftScreens
<1>8. QED
  BY <1>4, <1>5, <1>7 DEF TeacherInv

\* The steps that write the store.
LEMMA StoreWrites ==
  ASSUME AreaInv, TeacherInv,
         \E ok \in BOOLEAN : \/ PressRestoreProfile(ok) \/ SaveText(ok) \/ TogglePlan(ok)
                             \/ PressRestorePlan(ok) \/ PressDuplicate(ok)
  PROVE  TeacherInv'
<1>a. /\ LearnerOpen /\ PlanOpen /\ DraftOpen /\ AddedNew
      /\ pupil \in Pupil \cup {Nothing} /\ course \in Course \cup {Nothing}
      /\ pupils \in [Pupil -> {"none", "active", "archived"}]
      /\ courses \in [Course -> Plans]
      /\ Nothing \notin Pupil /\ Nothing \notin Course
      /\ typing \in DOMAIN TextReturn \cup {"none"} /\ TypingFor
      /\ RecordsTyped /\ DraftTyped /\ PlansDistinct /\ OrdersAreMeant
  BY ScreensConstants DEF TeacherInv, RecordsTyped, AreaInv, AreaTyped, Plans
<1>1. ASSUME NEW ok \in BOOLEAN, PressRestoreProfile(ok) PROVE TeacherInv'
  <2>1. /\ pupils' = [pupils EXCEPT ![pupil] = "active"]
        /\ UNCHANGED <<screen, pupil, course, draft, asking, typing, courses>>
    BY <1>1 DEF PressRestoreProfile
  <2>2. pupils' \in [Pupil -> {"none", "active", "archived"}]
    BY <1>a, <2>1
  <2>3. QED
    BY <2>1, <2>2 DEF TeacherInv, RecordsTyped, DraftTyped, PlansDistinct, OrdersAreMeant, LearnerOpen,
       PlanOpen, DraftOpen, AddedNew, NewLearner, AskedOfPlan, BeforePlans, OnDraft
<1>2. ASSUME NEW ok \in BOOLEAN, SaveText(ok) PROVE TeacherInv'
  <2>1. /\ screen = "teacher_text" /\ UNCHANGED <<course, asking, courses>>
        /\ \/ /\ typing = "new_profile" /\ screen' = "teacher_profile" /\ pupil' \in Pupil
              /\ pupils' \in [Pupil -> {"none", "active", "archived"}] /\ draft' = draft
           \/ /\ typing # "new_profile" /\ UNCHANGED <<pupils, pupil>> /\ typing = "rename_profile"
              /\ screen' = "teacher_profile" /\ draft' = draft
           \/ /\ typing # "new_profile" /\ UNCHANGED <<pupils, pupil>> /\ typing = "new_plan"
              /\ screen' = "teacher_lessons" /\ draft' = NoDraft
           \/ /\ typing # "new_profile" /\ UNCHANGED <<pupils, pupil>> /\ typing = "rename_plan"
              /\ screen' = "teacher_plan_edit" /\ draft' = draft
    BY <1>a, <1>2 DEF SaveText, TeacherAt
  <2>2. RecordsTyped' /\ PlansDistinct' /\ OrdersAreMeant'
    BY <1>a, <2>1 DEF RecordsTyped, PlansDistinct, OrdersAreMeant
  <2>3. DraftTyped'
    BY <1>a, <2>1, AbsentTyped DEF DraftTyped
  <2>4. LearnerOpen' /\ PlanOpen' /\ AddedNew'
    BY <1>a, <2>1 DEF LearnerOpen, PlanOpen, AddedNew, NewLearner, AskedOfPlan, BeforePlans, TeacherScreens
  <2>5. DraftOpen'
    BY <1>a, <2>1, AbsentTyped DEF DraftOpen, OnDraft, DraftScreens, PlanOpen, BeforePlans
  <2>6. QED
    BY <2>2, <2>3, <2>4, <2>5 DEF TeacherInv
<1>3. ASSUME NEW r \in Plans, screen = "teacher_plan",
             r.owner = courses[course].owner, r.lessons = courses[course].lessons,
             r.meant = courses[course].meant, courses' = [courses EXCEPT ![course] = r],
             UNCHANGED <<screen, pupil, course, draft, asking, typing, pupils>>
      PROVE  TeacherInv'
  <2>1. course \in Course
    BY <1>a, <1>3 DEF PlanOpen
  <2>2. /\ RecordsTyped' /\ PlansDistinct' /\ OrdersAreMeant'
        /\ \A d \in Course : courses'[d].owner = courses[d].owner
    BY <1>a, <1>3, <2>1, PlanSwitched
  <2>3. QED
    BY <1>a, <1>3, <2>1, <2>2 DEF TeacherInv, DraftTyped, LearnerOpen, PlanOpen, DraftOpen, AddedNew,
       NewLearner, AskedOfPlan, BeforePlans, OnDraft
<1>4. ASSUME NEW ok \in BOOLEAN, TogglePlan(ok) PROVE TeacherInv'
  <2>1. course \in Course /\ courses[course] \in Plans /\ screen = "teacher_plan"
    BY <1>a, <1>4 DEF PlanOpen, TogglePlan, TeacherAt
  <2> DEFINE r == [courses[course] EXCEPT !.enabled = ~@]
  <2>2. /\ r \in Plans /\ r.owner = courses[course].owner /\ r.lessons = courses[course].lessons
        /\ r.meant = courses[course].meant
    BY <2>1 DEF Plans
  <2>3. /\ courses' = [courses EXCEPT ![course] = r]
        /\ UNCHANGED <<screen, pupil, course, draft, asking, typing, pupils>>
    BY <1>4 DEF TogglePlan
  <2> HIDE DEF r
  <2>4. QED
    BY <1>3, <2>1, <2>2, <2>3
<1>5. ASSUME NEW ok \in BOOLEAN, PressRestorePlan(ok) PROVE TeacherInv'
  <2>1. course \in Course /\ courses[course] \in Plans /\ screen = "teacher_plan"
    BY <1>a, <1>5 DEF PlanOpen, PressRestorePlan, TeacherAt
  <2> DEFINE r == [courses[course] EXCEPT !.archived = FALSE]
  <2>2. /\ r \in Plans /\ r.owner = courses[course].owner /\ r.lessons = courses[course].lessons
        /\ r.meant = courses[course].meant
    BY <2>1 DEF Plans
  <2>3. /\ courses' = [courses EXCEPT ![course] = r]
        /\ UNCHANGED <<screen, pupil, course, draft, asking, typing, pupils>>
    BY <1>5 DEF PressRestorePlan
  <2> HIDE DEF r
  <2>4. QED
    BY <1>3, <2>1, <2>2, <2>3
<1>6. ASSUME NEW ok \in BOOLEAN, PressDuplicate(ok) PROVE TeacherInv'
  <2>1. course \in Course /\ screen = "teacher_plan" /\ pupil # Nothing /\ courses[course].owner = pupil
    BY <1>a, <1>6 DEF PlanOpen, PressDuplicate, TeacherAt
  <2>2. PICK c \in Course : courses' = [courses EXCEPT ![c] = courses[course]] /\ course' = c
    BY <1>6 DEF PressDuplicate
  <2>3. UNCHANGED <<screen, pupil, draft, asking, typing, pupils>>
    BY <1>6 DEF PressDuplicate
  <2>4. /\ courses[course] \in Plans /\ IsInjective(courses[course].lessons)
        /\ PrerequisiteWarnings(courses[course].lessons) # {} => courses[course].meant
    BY <1>a, <2>1 DEF PlansDistinct, OrdersAreMeant
  <2>5. /\ RecordsTyped' /\ PlansDistinct' /\ OrdersAreMeant' /\ courses'[course'].owner = pupil'
    BY <1>a, <2>1, <2>2, <2>3, <2>4, PlanWritten
  <2>6. QED
    BY <1>a, <2>1, <2>2, <2>3, <2>5 DEF TeacherInv, DraftTyped, LearnerOpen, PlanOpen, DraftOpen,
       AddedNew, NewLearner, AskedOfPlan, BeforePlans, OnDraft, TeacherScreens, DraftScreens
<1>7. QED
  BY <1>1, <1>2, <1>4, <1>5, <1>6

\* The draft gets other lessons on a screen that edits it.
LEMMA DraftEdited ==
  ASSUME AreaInv, TeacherInv, NEW l \in Seq(Subject), IsInjective(l),
         draft' = [draft EXCEPT !.lessons = l],
         pupil' = pupil, course' = course, typing' = typing, store_' = store_,
         \/ screen \in DraftScreens /\ screen' = screen /\ asking' = asking
         \/ /\ screen = "teacher_confirm" /\ asking.operation = "add_lessons"
            /\ screen' = "teacher_lessons"
  PROVE  TeacherInv'
<1>1. draft'.editing = draft.editing /\ DraftTyped'
  BY DEF TeacherInv, DraftTyped
<1>2. RecordsTyped' /\ PlansDistinct' /\ OrdersAreMeant'
  BY DEF TeacherInv, store_, RecordsTyped, PlansDistinct, OrdersAreMeant
<1>3. LearnerOpen' /\ PlanOpen' /\ DraftOpen' /\ AddedNew'
  BY <1>1 DEF TeacherInv, store_, LearnerOpen, PlanOpen, DraftOpen, AddedNew, NewLearner, AskedOfPlan,
     BeforePlans, OnDraft, TeacherScreens, DraftScreens
<1>4. QED
  BY <1>1, <1>2, <1>3 DEF TeacherInv

\* A confirmation is asked for on a screen that edits the draft.
LEMMA DraftAsked ==
  ASSUME AreaInv, TeacherInv, NEW operation \in {"add_lessons", "save_plan"}, NEW values,
         operation = "add_lessons" => /\ values \in Seq(Subject) /\ IsInjective(values)
                                      /\ ToSet(values) \cap ToSet(draft.lessons) = {},
         AskFirst(operation, values), screen \in DraftScreens,
         UNCHANGED <<draft, pupil, course, typing, store_>>
  PROVE  TeacherInv'
<1>1. /\ screen' = "teacher_confirm" /\ asking'.operation = operation /\ asking'.values = values
  BY DEF AskFirst
<1>2. RecordsTyped' /\ PlansDistinct' /\ OrdersAreMeant' /\ DraftTyped'
  BY DEF TeacherInv, store_, RecordsTyped, DraftTyped, PlansDistinct, OrdersAreMeant
<1>3. LearnerOpen' /\ PlanOpen' /\ DraftOpen' /\ AddedNew'
  BY <1>1 DEF TeacherInv, store_, LearnerOpen, PlanOpen, DraftOpen, AddedNew, NewLearner, AskedOfPlan,
     BeforePlans, OnDraft, TeacherScreens, DraftScreens
<1>4. QED
  BY <1>2, <1>3 DEF TeacherInv

\* The steps on the draft.
LEMMA DraftSteps ==
  ASSUME AreaInv, TeacherInv,
         \/ \E s \in Subject : RemovePlanLesson(s) \/ ToggleLesson(s)
         \/ \E i, j \in 1..Cardinality(Subject) : MovePlanLesson(i, j)
         \/ RequestAddLessons(SetToSeq(Subject)) \/ EditPlan \/ CancelPlanEdit
         \/ \E ok \in BOOLEAN : RequestSavePlan(ok)
  PROVE  TeacherInv'
<1>a. draft.lessons \in Seq(Subject) /\ IsInjective(draft.lessons)
  BY DEF TeacherInv, DraftTyped
<1>1. ASSUME NEW s \in Subject,
             draft' = [draft EXCEPT !.lessons = Excluding(draft.lessons, {s})],
             UNCHANGED <<screen, pupil, course, asking, typing, store_>>, screen \in DraftScreens
      PROVE  TeacherInv'
  <2> DEFINE l == Excluding(draft.lessons, {s})
  <2>1. l \in Seq(Subject) /\ IsInjective(l) /\ draft' = [draft EXCEPT !.lessons = l]
    BY <1>a, <1>1, ExcludingKeeps
  <2>2. /\ pupil' = pupil /\ course' = course /\ typing' = typing /\ store_' = store_
        /\ screen' = screen /\ asking' = asking
    BY <1>1
  <2> HIDE DEF l
  <2>3. QED
    BY <1>1, <2>1, <2>2, DraftEdited
<1>2. ASSUME NEW s \in Subject, RemovePlanLesson(s) PROVE TeacherInv'
  BY <1>1, <1>2 DEF RemovePlanLesson, TeacherAt, DraftScreens
<1>3. ASSUME NEW added \in Seq(Subject), IsInjective(added), RequestAddLessons(added) PROVE TeacherInv'
  <2> DEFINE new == Excluding(added, ToSet(draft.lessons))
             proposed == draft.lessons \o new
  <2>1. /\ new \in Seq(Subject) /\ IsInjective(new) /\ ToSet(new) \cap ToSet(draft.lessons) = {}
    <3>1. /\ new \in Seq(Subject) /\ IsInjective(new)
          /\ ToSet(new) = ToSet(added) \ ToSet(draft.lessons)
      BY <1>3, ExcludingKeeps
    <3>2. QED
      BY <3>1
  <2>2. proposed \in Seq(Subject) /\ IsInjective(proposed)
    <3> HIDE DEF new
    <3>1. QED
      BY <1>a, <2>1, ConcatNew
  <2>3. /\ screen \in DraftScreens /\ UNCHANGED <<pupil, course, typing, store_>>
        /\ \/ AskFirst("add_lessons", new) /\ UNCHANGED draft
           \/ draft' = [draft EXCEPT !.lessons = proposed] /\ UNCHANGED <<screen, asking>>
    BY <1>3 DEF RequestAddLessons, TeacherAt, DraftScreens
  <2> HIDE DEF new, proposed
  <2>4. CASE AskFirst("add_lessons", new) /\ UNCHANGED draft
    BY <2>1, <2>3, <2>4, DraftAsked
  <2>5. CASE draft' = [draft EXCEPT !.lessons = proposed] /\ UNCHANGED <<screen, asking>>
    <3>1. /\ pupil' = pupil /\ course' = course /\ typing' = typing /\ store_' = store_
          /\ screen' = screen /\ asking' = asking
      BY <2>3, <2>5
    <3>2. QED
      BY <2>2, <2>3, <2>5, <3>1, DraftEdited
  <2>6. QED
    BY <2>3, <2>4, <2>5
<1>4. ASSUME NEW s \in Subject, ToggleLesson(s) PROVE TeacherInv'
  <2>1. <<s>> \in Seq(Subject) /\ IsInjective(<<s>>)
    BY DEF IsInjective
  <2>2. CASE RequestAddLessons(<<s>>)
    BY <1>3, <2>1, <2>2
  <2>3. CASE ~RequestAddLessons(<<s>>)
    BY <1>1, <1>4, <2>3 DEF ToggleLesson, TeacherAt, DraftScreens
  <2>4. QED
    BY <2>2, <2>3
<1>5. CASE RequestAddLessons(SetToSeq(Subject))
  BY <1>3, <1>5, SetAsList, ScreensConstants
<1>6. ASSUME NEW i, NEW j, MovePlanLesson(i, j) PROVE TeacherInv'
  <2> DEFINE l == [draft.lessons EXCEPT ![i] = draft.lessons[j], ![j] = draft.lessons[i]]
  <2>1. l \in Seq(Subject) /\ IsInjective(l)
    BY <1>a, <1>6, SwapKeeps DEF MovePlanLesson
  <2>2. /\ draft' = [draft EXCEPT !.lessons = l]
        /\ UNCHANGED <<screen, pupil, course, asking, typing, store_>> /\ screen \in DraftScreens
    BY <1>6 DEF MovePlanLesson, TeacherAt, DraftScreens
  <2> HIDE DEF l
  <2>3. /\ pupil' = pupil /\ course' = course /\ typing' = typing /\ store_' = store_
        /\ screen' = screen /\ asking' = asking
    BY <2>2
  <2>4. QED
    BY <2>1, <2>2, <2>3, DraftEdited
<1>7. CASE EditPlan
  <2>1. /\ screen = "teacher_plan" /\ screen' = "teacher_plan_edit"
        /\ draft' = [editing |-> course, lessons |-> courses[course].lessons]
        /\ UNCHANGED <<pupil, course, asking, typing, store_>>
    BY <1>7 DEF EditPlan, TeacherAt
  <2>2. course \in Course /\ pupil # Nothing
    BY <2>1 DEF TeacherInv, RecordsTyped, PlanOpen
  <2>3. courses[course].lessons \in Seq(Subject) /\ IsInjective(courses[course].lessons)
    BY <2>2 DEF TeacherInv, RecordsTyped, PlansDistinct
  <2>4. RecordsTyped' /\ PlansDistinct' /\ OrdersAreMeant' /\ DraftTyped' /\ draft'.editing = course
    BY <2>1, <2>2, <2>3 DEF TeacherInv, store_, RecordsTyped, DraftTyped, PlansDistinct, OrdersAreMeant
  <2>5. LearnerOpen' /\ PlanOpen' /\ DraftOpen' /\ AddedNew'
    BY <2>1, <2>2, <2>4 DEF TeacherInv, store_, LearnerOpen, PlanOpen, DraftOpen, AddedNew, NewLearner,
       AskedOfPlan, BeforePlans, OnDraft, TeacherScreens, DraftScreens
  <2>6. QED
    BY <2>4, <2>5 DEF TeacherInv
<1>8. CASE CancelPlanEdit
  <2>1. /\ screen = "teacher_plan_edit" /\ course' = draft.editing /\ draft' = NoDraft
        /\ screen' = IF draft.editing = Nothing THEN "teacher_profile" ELSE "teacher_plan"
        /\ UNCHANGED <<pupil, asking, typing, store_>>
    BY <1>8 DEF CancelPlanEdit, TeacherAt
  <2>2. course' = course /\ pupil # Nothing
    BY <2>1 DEF TeacherInv, DraftOpen, OnDraft, DraftScreens, LearnerOpen, TeacherScreens, NewLearner
  <2>3. RecordsTyped' /\ PlansDistinct' /\ OrdersAreMeant' /\ DraftTyped'
    BY <2>1, <2>2, AbsentTyped DEF TeacherInv, store_, RecordsTyped, DraftTyped, PlansDistinct, OrdersAreMeant
  <2>4. LearnerOpen' /\ PlanOpen' /\ DraftOpen' /\ AddedNew'
    BY <2>1, <2>2 DEF TeacherInv, store_, LearnerOpen, PlanOpen, DraftOpen, AddedNew, NewLearner,
       AskedOfPlan, BeforePlans, OnDraft, TeacherScreens, DraftScreens
  <2>5. QED
    BY <2>3, <2>4 DEF TeacherInv
<1>9. ASSUME NEW ok \in BOOLEAN, RequestSavePlan(ok) PROVE TeacherInv'
  <2>1. /\ screen = "teacher_plan_edit" /\ UNCHANGED <<pupil, typing, pupils>>
        /\ \/ AskFirst("save_plan", <<>>) /\ UNCHANGED <<courses, course, draft>>
           \/ SavePlan(FALSE) /\ PrerequisiteWarnings(draft.lessons) = {}
    BY <1>9 DEF RequestSavePlan, TeacherAt
  <2>2. pupil # Nothing /\ draft.editing = course
    BY <2>1 DEF TeacherInv, LearnerOpen, TeacherScreens, NewLearner, DraftOpen, OnDraft, DraftScreens
  <2>3. CASE AskFirst("save_plan", <<>>) /\ UNCHANGED <<courses, course, draft>>
    BY <2>1, <2>3, DraftAsked DEF store_, DraftScreens
  <2>4. CASE SavePlan(FALSE) /\ PrerequisiteWarnings(draft.lessons) = {}
    BY <2>1, <2>2, <2>4, SaveKeeps
  <2>5. QED
    BY <2>1, <2>3, <2>4
<1>10. QED
  BY <1>2, <1>4, <1>5, <1>6, <1>7, <1>8, <1>9

\* A confirmation is carried out.
LEMMA Confirmed ==
  ASSUME AreaInv, TeacherInv, NEW ok \in BOOLEAN, CompleteConfirmation(ok)
  PROVE  TeacherInv'
<1>a. /\ LearnerOpen /\ PlanOpen /\ DraftOpen /\ AddedNew
      /\ pupil \in Pupil \cup {Nothing} /\ course \in Course \cup {Nothing}
      /\ pupils \in [Pupil -> {"none", "active", "archived"}] /\ courses \in [Course -> Plans]
      /\ RecordsTyped /\ DraftTyped /\ PlansDistinct /\ OrdersAreMeant
      /\ screen = "teacher_confirm" /\ asking.operation \in DOMAIN AskedOn /\ asking' = NoQuestion
      /\ UNCHANGED <<pupil, typing>>
  BY DEF TeacherInv, RecordsTyped, AreaInv, AskingOf, Plans, CompleteConfirmation, TeacherAt
<1>1. ASSUME screen' = AskedOn[asking.operation], asking.operation # "add_lessons",
             UNCHANGED <<course, draft>>, RecordsTyped', PlansDistinct', OrdersAreMeant',
             \A c \in Course : courses'[c].owner = courses[c].owner
      PROVE  TeacherInv'
  BY <1>a, <1>1, WaysBack DEF TeacherInv, DraftTyped, LearnerOpen, PlanOpen, DraftOpen, AddedNew,
     NewLearner, AskedOfPlan, BeforePlans, OnDraft, TeacherScreens, DraftScreens
<1>2. CASE /\ screen' = AskedOn[asking.operation] /\ asking.operation # "add_lessons"
           /\ UNCHANGED <<pupils, courses, course, draft>>
  BY <1>a, <1>1, <1>2 DEF RecordsTyped, PlansDistinct, OrdersAreMeant
<1>3. CASE /\ asking.operation = "archive_profile" /\ pupils' = [pupils EXCEPT ![pupil] = "archived"]
           /\ screen' = AskedOn[asking.operation] /\ UNCHANGED <<courses, course, draft>>
  <2>1. pupils' \in [Pupil -> {"none", "active", "archived"}]
    BY <1>a, <1>3
  <2>2. QED
    BY <1>a, <1>1, <1>3, <2>1 DEF RecordsTyped, PlansDistinct, OrdersAreMeant
<1>4. CASE /\ asking.operation = "archive_plan"
           /\ courses' = [courses EXCEPT ![course].archived = TRUE, ![course].enabled = FALSE]
           /\ screen' = AskedOn[asking.operation] /\ UNCHANGED <<pupils, course, draft>>
  <2>1. course \in Course /\ courses[course] \in Plans
    BY <1>a, <1>4 DEF PlanOpen, AskedOfPlan
  <2> DEFINE r == [courses[course] EXCEPT !.archived = TRUE, !.enabled = FALSE]
  <2>2. /\ r \in Plans /\ r.owner = courses[course].owner /\ r.lessons = courses[course].lessons
        /\ r.meant = courses[course].meant
    BY <2>1 DEF Plans
  <2>3. courses' = [courses EXCEPT ![course] = r]
    BY <1>4
  <2> HIDE DEF r
  <2>4. /\ RecordsTyped' /\ PlansDistinct' /\ OrdersAreMeant'
        /\ \A d \in Course : courses'[d].owner = courses[d].owner
    BY <1>a, <1>4, <2>1, <2>2, <2>3, PlanSwitched
  <2>5. QED
    BY <1>1, <1>4, <2>4
<1>5. CASE /\ asking.operation = "add_lessons"
           /\ draft' = [draft EXCEPT !.lessons = @ \o asking.values]
           /\ screen' = "teacher_lessons" /\ UNCHANGED <<pupils, courses, course>>
  <2> DEFINE l == draft.lessons \o asking.values
  <2>1. l \in Seq(Subject) /\ IsInjective(l)
    BY <1>a, <1>5, ConcatNew DEF AddedNew, DraftTyped
  <2>2. draft' = [draft EXCEPT !.lessons = l]
    BY <1>5
  <2> HIDE DEF l
  <2>3. QED
    BY <1>a, <1>5, <2>1, <2>2, DraftEdited DEF store_
<1>6. CASE asking.operation = "save_plan" /\ SavePlan(TRUE) /\ UNCHANGED pupils
  <2>1. pupil # Nothing /\ draft.editing = course
    BY <1>a, <1>6 DEF LearnerOpen, TeacherScreens, NewLearner, DraftOpen, OnDraft
  <2>2. QED
    BY <1>a, <1>6, <2>1, SaveKeeps
<1>7. QED
  BY <1>a, <1>2, <1>3, <1>4, <1>5, <1>6 DEF CompleteConfirmation

\* Every step of the view keeps the invariant.
LEMMA ScreensStep == ScreensInv /\ [ScreensNext]_screenVars => ScreensInv'
<1> SUFFICES ASSUME ScreensInv, [ScreensNext]_screenVars PROVE ScreensInv'
  OBVIOUS
<1>1. AreaInv' /\ ChildInv'
  BY AreaStep, ChildStep DEF ScreensInv
<1>2. TeacherInv'
  BY TeacherMoves, StoreWrites, DraftSteps, Confirmed DEF ScreensInv, ScreensNext
<1>3. QED
  BY <1>1, <1>2 DEF ScreensInv

\* The view opens on the profiles, with nothing in the store.
LEMMA ScreensStart == ScreensInit => ScreensInv
<1> SUFFICES ASSUME ScreensInit PROVE ScreensInv
  OBVIOUS
<1>1. AreaInv
  <2>1. authorized \in BOOLEAN /\ ~authorized
    BY DEF ScreensInit
  <2>2. screen = "profiles" /\ digits = 0 /\ typing = "none" /\ asking.operation = "none"
    BY DEF ScreensInit, NoQuestion
  <2>3. QED
    BY <2>1, <2>2 DEF AreaInv, AreaTyped, Gated, TypingFor, AskingOf, TeacherScreens, ScreenNames
<1>2. ChildInv
  <2>1. /\ retry \in BOOLEAN /\ screen = "profiles" /\ child = Nothing /\ quiz = NoLesson
        /\ answered = [recorded |-> 0, judged |-> 0]
    BY DEF ScreensInit
  <2>2. QED
    BY <2>1, ScreensConstants DEF ChildInv, LessonTyped, ChildOpen, LessonOpen, ChildScreens, NoLesson,
       Kinds
<1>3. RecordsTyped /\ DraftTyped /\ PlansDistinct /\ OrdersAreMeant
  BY AbsentTyped DEF ScreensInit, RecordsTyped, DraftTyped, PlansDistinct, OrdersAreMeant
<1>4. LearnerOpen /\ PlanOpen /\ DraftOpen /\ AddedNew
  BY DEF ScreensInit, LearnerOpen, PlanOpen, DraftOpen, AddedNew, NewLearner, AskedOfPlan, BeforePlans,
     OnDraft, TeacherScreens, DraftScreens
<1>5. QED
  BY <1>1, <1>2, <1>3, <1>4 DEF ScreensInv, TeacherInv

\* What the learning area promises, whichever way a child or a teacher takes
\* through it and whatever write fails: the teacher's screens stay behind the
\* PIN and show a learner and a plan of that learner, an order that skips a
\* foundation was confirmed, and no feedback is shown for an unsaved answer.
THEOREM ScreensSafe == ScreensSpec => []ScreensAreSafe
<1>1. ScreensInv => ScreensAreSafe
  BY DEF ScreensInv, AreaInv, TeacherInv, ChildInv, ScreensAreSafe, ScreensTypeOK, TeacherAreaIsGated,
     FeedbackIsRecorded, Gated, LearnerOpen, PlanOpen, ChildOpen, LessonOpen, NewLearner,
     TeacherScreens, ChildScreens, LessonTyped
<1>2. QED
  BY <1>1, ScreensStart, ScreensStep, PTL DEF ScreensSpec

(***************************************************************************)
(* The rules of Pup Pairs                                                  *)
(***************************************************************************)

Boards == [pairs : MinPairs..MaxPairs, up : Seq(Nat), matched : SUBSET Nat, player : {"human", "bmo"},
           score : [human : Nat, bmo : Nat]]

\* A board as the rules keep it: at most two cards are up, none of them matched,
\* and the score counts the matched pairs.
BoardOK(b) ==
    /\ b \in Boards /\ b.up \in Seq(Cards(b)) /\ Len(b.up) <= 2
    /\ b.matched \subseteq Cards(b) /\ Up(b) \cap b.matched = {}
    /\ 2 * (b.score.human + b.score.bmo) = Cardinality(b.matched)

\* What a new board is.
LEMMA NewBoardOK ==
  ASSUME NEW n \in MinPairs..MaxPairs
  PROVE  /\ BoardOK(NewBoard(n)) /\ NewBoard(n).up = <<>> /\ NewBoard(n).player = "human"
         /\ ~Complete(NewBoard(n))
<1>1. /\ NewBoard(n) \in Boards /\ NewBoard(n).up = <<>> /\ NewBoard(n).matched = {}
      /\ NewBoard(n).player = "human" /\ NewBoard(n).pairs = n
      /\ NewBoard(n).score.human = 0 /\ NewBoard(n).score.bmo = 0
  BY DEF NewBoard, Boards
<1> HIDE DEF NewBoard
<1>2. Cardinality({}) = 0
  BY FS_EmptySet
<1>3. 1 \in Cards(NewBoard(n))
  BY <1>1, BoardConstants DEF Cards, BoardConstants
<1>4. <<>> \in Seq(Cards(NewBoard(n))) /\ Len(<<>>) = 0
  OBVIOUS
<1>5. BoardOK(NewBoard(n))
  BY <1>1, <1>2, <1>4 DEF BoardOK, Up
<1>6. QED
  BY <1>1, <1>3, <1>5 DEF Complete

\* Clamping gives a number of pairs that a board may have.
LEMMA ClampedPairs ==
  ASSUME NEW n \in Int PROVE ClampPairs(n) \in MinPairs..MaxPairs
  BY BoardConstants DEF ClampPairs, BoardConstants

\* Which cards are up.
LEMMA CardsUp ==
  ASSUME NEW b, BoardOK(b)
  PROVE  /\ Len(b.up) \in {0, 1, 2} /\ (b.up = <<>> <=> Len(b.up) = 0)
         /\ Len(b.up) = 0 => Up(b) = {}
         /\ Len(b.up) = 1 => b.up = <<b.up[1]>> /\ Up(b) = {b.up[1]} /\ b.up[1] \in Cards(b)
<1>1. b.up \in Seq(Cards(b)) /\ Len(b.up) \in Nat /\ Len(b.up) <= 2
  BY DEF BoardOK
<1>2. Len(b.up) \in {0, 1, 2} /\ (b.up = <<>> <=> Len(b.up) = 0)
  <2>1. Len(b.up) \in {0, 1, 2}
    <3> DEFINE n == Len(b.up)
    <3>1. n \in Nat /\ n <= 2
      BY <1>1
    <3> HIDE DEF n
    <3>2. n \in {0, 1, 2}
      BY <3>1
    <3>3. QED
      BY <3>2 DEF n
  <2>2. b.up = <<>> => Len(b.up) = 0
    OBVIOUS
  <2>3. Len(b.up) = 0 => b.up = <<>>
    BY <1>1, EmptySeq
  <2>4. QED
    BY <2>1, <2>2, <2>3
<1>3. Len(b.up) = 0 => Up(b) = {}
  BY DEF Up
<1>4. ASSUME Len(b.up) = 1 PROVE b.up = <<b.up[1]>> /\ Up(b) = {b.up[1]} /\ b.up[1] \in Cards(b)
  <2>1. b.up = <<b.up[1]>> /\ b.up[1] \in Cards(b)
    BY <1>1, <1>4
  <2>2. 1..Len(b.up) = {1}
    BY <1>4
  <2>3. Up(b) = {b.up[1]}
    BY <2>2 DEF Up
  <2>4. QED
    BY <2>1, <2>3
<1>5. QED
  BY <1>2, <1>3, <1>4

\* A card turned over is ignored, lies first, or makes the pair or a miss.
LEMMA RevealKeeps ==
  ASSUME NEW b, BoardOK(b), NEW card
  PROVE  /\ BoardOK(AfterReveal(b, card)) /\ Cards(AfterReveal(b, card)) = Cards(b)
         /\ RevealResult(b, card) \in {"ignored", "first", "match", "miss"}
         /\ AfterReveal(b, card).player = b.player
         /\ ~Turnable(b, card) => AfterReveal(b, card) = b /\ RevealResult(b, card) = "ignored"
         /\ Turnable(b, card) =>
               /\ card \in Cards(b) /\ ~Complete(b) /\ RevealResult(b, card) # "ignored"
               /\ Len(b.up) = 0 <=> RevealResult(b, card) = "first"
               /\ RevealResult(b, card) = "match" => AfterReveal(b, card).up = <<>>
               /\ Len(b.up) = 0 => AfterReveal(b, card).up = <<card>>
               /\ RevealResult(b, card) = "first" => Len(AfterReveal(b, card).up) = 1
               /\ RevealResult(b, card) = "miss" => Len(AfterReveal(b, card).up) = 2
               /\ RevealResult(b, card) # "match" =>
                     /\ AfterReveal(b, card).matched = b.matched /\ ~Complete(AfterReveal(b, card))
<1> DEFINE a == AfterReveal(b, card)
           r == RevealResult(b, card)
<1>1. r \in {"ignored", "first", "match", "miss"} /\ (~Turnable(b, card) <=> r = "ignored")
  BY DEF RevealResult
<1>2. CASE ~Turnable(b, card)
  <2>1. a = b
    BY <1>1, <1>2 DEF AfterReveal
  <2>2. QED
    BY <1>1, <1>2, <2>1
<1>3. ASSUME Turnable(b, card)
      PROVE  /\ card \in Cards(b) /\ ~Complete(b) /\ card \notin b.matched /\ card \notin Up(b)
             /\ Len(b.up) \in {0, 1} /\ (Len(b.up) = 0 <=> r = "first")
             /\ card \in Nat
  <2>1. card \in Cards(b) /\ ~Complete(b) /\ card \notin b.matched /\ card \notin Up(b) /\ Len(b.up) < 2
    BY <1>3 DEF Turnable, Available, Complete
  <2>2. Len(b.up) \in {0, 1} /\ (b.up = <<>> <=> Len(b.up) = 0)
    BY <2>1, CardsUp
  <2>3. Len(b.up) = 0 <=> r = "first"
    BY <1>3, <2>2 DEF RevealResult
  <2>4. card \in Nat
    BY <2>1 DEF Cards
  <2>5. QED
    BY <2>1, <2>2, <2>3, <2>4
<1>4. ASSUME Turnable(b, card), r = "match"
      PROVE  BoardOK(a) /\ Cards(a) = Cards(b) /\ a.player = b.player /\ a.up = <<>>
  <2> DEFINE gone == {b.up[1], card}
             s == [b.score EXCEPT ![b.player] = @ + 1]
  <2>1. a = [b EXCEPT !.up = <<>>, !.matched = @ \union gone, !.score[b.player] = @ + 1]
    BY <1>4 DEF AfterReveal
  <2>2. b.up[1] \in Cards(b) /\ b.up[1] # card /\ b.up[1] \notin b.matched /\ card \in Cards(b)
        /\ card \notin b.matched
    BY <1>3, <1>4, CardsUp DEF BoardOK
  <2>3. b \in Boards /\ b.score \in [human : Nat, bmo : Nat] /\ b.player \in {"human", "bmo"}
    BY DEF BoardOK, Boards
  <2>4. s \in [human : Nat, bmo : Nat] /\ s.human + s.bmo = b.score.human + b.score.bmo + 1
    BY <2>3
  <2>5. a.score = s /\ a.up = <<>> /\ a.matched = b.matched \union gone /\ a.pairs = b.pairs
        /\ a.player = b.player
    BY <2>1, <2>3 DEF Boards
  <2>6. gone \subseteq Cards(b) /\ gone \cap b.matched = {} /\ Cards(b) \subseteq Nat
    BY <2>2 DEF Cards
  <2>7. a \in Boards
    <3>1. /\ b.pairs \in MinPairs..MaxPairs /\ b.matched \union gone \in SUBSET Nat
          /\ <<>> \in Seq(Nat)
      BY <2>3, <2>6 DEF Boards
    <3> HIDE DEF gone
    <3>2. a = [b EXCEPT !.up = <<>>, !.matched = b.matched \union gone, !.score = s]
      BY <2>1, <2>3 DEF Boards
    <3> HIDE DEF s, a
    <3>3. QED
      BY <2>3, <2>4, <3>1, <3>2 DEF Boards
  <2>8. Cardinality(b.matched \union gone) = Cardinality(b.matched) + 2
    <3>1. IsFiniteSet(b.matched)
      <4>1. IsFiniteSet(1..(2 * b.pairs))
        BY <2>3, FS_Interval, BoardConstants DEF Boards, BoardConstants
      <4>2. QED
        BY <4>1, FS_Subset DEF BoardOK, Cards
    <3>2. /\ IsFiniteSet(b.matched \union {b.up[1]})
          /\ Cardinality(b.matched \union {b.up[1]}) = Cardinality(b.matched) + 1
      BY <2>2, <3>1, FS_AddElement
    <3>3. card \notin b.matched \union {b.up[1]}
      BY <2>2
    <3>4. Cardinality((b.matched \union {b.up[1]}) \union {card}) = Cardinality(b.matched) + 1 + 1
      BY <3>2, <3>3, FS_AddElement
    <3>5. (b.matched \union {b.up[1]}) \union {card} = b.matched \union gone
      OBVIOUS
    <3>6. Cardinality(b.matched) \in Nat
      BY <3>1, FS_CardinalityType
    <3> HIDE DEF gone
    <3>7. QED
      BY <3>4, <3>5, <3>6, SMTT(40)
  <2>9. Cards(a) = Cards(b)
    BY <2>5 DEF Cards
  <2> HIDE DEF gone, s, a
  <2>10. 2 * (a.score.human + a.score.bmo) = Cardinality(a.matched)
    <3>1. 2 * (b.score.human + b.score.bmo) = Cardinality(b.matched)
      BY DEF BoardOK
    <3>2. QED
      BY <2>3, <2>4, <2>5, <2>8, <3>1
  <2>11. Up(a) = {} /\ a.up \in Seq(Cards(a)) /\ Len(a.up) <= 2
    BY <2>5 DEF Up
  <2>12. a.matched \subseteq Cards(a)
    BY <2>5, <2>6, <2>9 DEF BoardOK
  <2>13. QED
    BY <2>5, <2>7, <2>9, <2>10, <2>11, <2>12 DEF BoardOK
<1>5. ASSUME Turnable(b, card), r # "match"
      PROVE  /\ BoardOK(a) /\ Cards(a) = Cards(b) /\ a.player = b.player
             /\ Len(a.up) = Len(b.up) + 1 /\ a.matched = b.matched
             /\ Len(b.up) = 0 => a.up = <<card>>
             /\ (r = "first" => Len(a.up) = 1) /\ (r = "miss" => Len(a.up) = 2)
  <2>1. a = [b EXCEPT !.up = Append(@, card)]
    BY <1>1, <1>5 DEF AfterReveal
  <2>2. b \in Boards /\ b.up \in Seq(Cards(b)) /\ b.up \in Seq(Nat)
    BY DEF BoardOK, Boards
  <2>3. card \in Cards(b) /\ card \in Nat /\ card \notin b.matched /\ Len(b.up) \in {0, 1}
    BY <1>3, <1>5
  <2>4. /\ a.up = Append(b.up, card) /\ a.matched = b.matched /\ a.pairs = b.pairs
        /\ a.player = b.player /\ a.score = b.score
    BY <2>1, <2>2 DEF Boards
  <2>5. a \in Boards
    <3> DEFINE u == Append(b.up, card)
    <3>1. u \in Seq(Nat)
      BY <2>2, <2>3
    <3>2. a = [b EXCEPT !.up = u]
      BY <2>1, <2>2 DEF Boards
    <3> HIDE DEF u, a
    <3>3. QED
      BY <2>2, <3>1, <3>2 DEF Boards
  <2> HIDE DEF a
  <2>6. Cards(a) = Cards(b)
    BY <2>4 DEF Cards
  <2>7. a.up \in Seq(Cards(a)) /\ Len(a.up) = Len(b.up) + 1 /\ (Len(b.up) = 0 => a.up = <<card>>)
    <3>1. Len(b.up) = 0 => b.up = <<>>
      BY <2>2, EmptySeq
    <3>2. Len(b.up) = 0 => a.up = <<card>>
      <4>1. Append(<<>>, card) = <<card>>
        OBVIOUS
      <4>2. QED
        BY <2>4, <3>1, <4>1
    <3>3. a.up \in Seq(Cards(a)) /\ Len(a.up) = Len(b.up) + 1
      BY <2>2, <2>3, <2>4, <2>6
    <3>4. QED
      BY <3>2, <3>3
  <2>8. Up(a) \cap a.matched = {}
    <3>1. \A i \in 1..Len(a.up) : a.up[i] = card \/ \E j \in 1..Len(b.up) : a.up[i] = b.up[j]
      BY <2>2, <2>4, <2>7
    <3>2. Up(b) \cap b.matched = {}
      BY DEF BoardOK
    <3>3. QED
      BY <2>3, <2>4, <3>1, <3>2 DEF Up
  <2>9. (r = "first" => Len(a.up) = 1) /\ (r = "miss" => Len(a.up) = 2) /\ Len(a.up) <= 2
    <3> DEFINE m == Len(b.up)
               k == Len(a.up)
    <3>1. m \in {0, 1} /\ (m = 0 <=> r = "first") /\ k = m + 1
      BY <1>3, <1>5, <2>7
    <3> HIDE DEF m, k, r
    <3>2. (r = "first" => k = 1) /\ (r = "miss" => k = 2) /\ k <= 2
      BY <3>1
    <3>3. QED
      BY <3>2 DEF m, k
  <2>10. QED
    BY <2>3, <2>4, <2>5, <2>6, <2>7, <2>8, <2>9 DEF BoardOK
<1> HIDE DEF a, r
<1>6. ASSUME Turnable(b, card), r # "match" PROVE ~Complete(a)
  BY <1>3, <1>5, <1>6 DEF Complete
<1>7. CASE Turnable(b, card)
  BY <1>1, <1>3, <1>4, <1>5, <1>6, <1>7 DEF a, r
<1>8. QED
  BY <1>2, <1>7

\* Two cards turn back and the other player is next; fewer stay up.
LEMMA HideKeeps ==
  ASSUME NEW b, BoardOK(b)
  PROVE  /\ BoardOK(HideUnmatched(b)) /\ Cards(HideUnmatched(b)) = Cards(b)
         /\ HideUnmatched(b).matched = b.matched
         /\ Len(b.up) # 2 => HideUnmatched(b) = b
         /\ Len(b.up) = 2 =>
               /\ HideUnmatched(b).up = <<>>
               /\ b.player = "human" => HideUnmatched(b).player = "bmo"
               /\ b.player = "bmo" => HideUnmatched(b).player = "human"
<1> DEFINE a == HideUnmatched(b)
           other == IF b.player = "human" THEN "bmo" ELSE "human"
<1>1. CASE Len(b.up) # 2
  BY <1>1 DEF HideUnmatched
<1>2. CASE Len(b.up) = 2
  <2>1. b \in Boards
    BY DEF BoardOK
  <2>2. a = [b EXCEPT !.up = <<>>, !.player = other]
    BY <1>2, <2>1 DEF HideUnmatched, Boards
  <2>3. /\ a.up = <<>> /\ a.matched = b.matched /\ a.pairs = b.pairs
        /\ a.player = other /\ a.score = b.score
    BY <2>1, <2>2 DEF Boards
  <2>4. a \in Boards
    <3>1. other \in {"human", "bmo"} /\ <<>> \in Seq(Nat)
      OBVIOUS
    <3> HIDE DEF other, a
    <3>2. QED
      BY <2>1, <2>2, <3>1 DEF Boards
  <2> HIDE DEF a
  <2>5. Cards(a) = Cards(b)
    BY <2>3 DEF Cards
  <2>6. Up(a) = {} /\ a.up \in Seq(Cards(a)) /\ Len(a.up) <= 2
    BY <2>3 DEF Up
  <2>7. BoardOK(a)
    BY <2>3, <2>4, <2>5, <2>6 DEF BoardOK
  <2>8. QED
    BY <1>2, <2>3, <2>5, <2>7, Zenon DEF a
<1>3. QED
  BY <1>1, <1>2

\* BMO chooses among the cards that are still there, and never the same twice.
LEMMA ChoicesAvailable ==
  ASSUME NEW b, NEW s, NEW first
  PROVE  FirstChoices(b, s) \subseteq Available(b) /\ SecondChoices(b, s, first) \subseteq Available(b) \ {first}
  BY DEF FirstChoices, SecondChoices, Unseen

\* What is remembered is on the board and still there.
LEMMA RememberedIsThere ==
  ASSUME NEW b, NEW s, s \subseteq Cards(b), NEW card \in Cards(b), NEW result
  PROVE  /\ Remember(b, s, card, result) \subseteq Cards(b)
         /\ s \cap b.matched = {} /\ card \notin b.matched => Remember(b, s, card, result) \cap b.matched = {}
         /\ result = "match" => Remember(b, s, card, result) \cap b.matched = {}
  BY DEF Remember

\* Only a match takes cards off the board.
LEMMA MatchedByMatch ==
  ASSUME NEW b, BoardOK(b), NEW card
  PROVE  RevealResult(b, card) # "match" => AfterReveal(b, card).matched = b.matched
  BY DEF AfterReveal, BoardOK, Boards

\* A list with one of its elements dropped.
LEMMA DropOne ==
  ASSUME NEW V, NEW l \in Seq(V), NEW i \in 1..Len(l)
  PROVE  /\ SubSeq(l, 1, i - 1) \o SubSeq(l, i + 1, Len(l)) \in Seq(V)
         /\ Len(SubSeq(l, 1, i - 1) \o SubSeq(l, i + 1, Len(l))) = Len(l) - 1
         /\ Len(l) = 1 => SubSeq(l, 1, i - 1) \o SubSeq(l, i + 1, Len(l)) = <<>>
<1> DEFINE p == SubSeq(l, 1, i - 1)
           q == SubSeq(l, i + 1, Len(l))
<1>1. Len(l) \in Nat /\ i \in 1..Len(l) /\ i - 1 \in Int /\ i + 1 \in Int
  OBVIOUS
<1>2. p \in Seq(V) /\ Len(p) = i - 1
  <2>1. \A j \in 1..(i - 1) : l[j] \in V
    BY <1>1
  <2>2. QED
    BY <1>1, <2>1, SubSeqProperties
<1>3. q \in Seq(V) /\ Len(q) = Len(l) - i
  BY <1>1, SubSeqProperties
<1> HIDE DEF p, q
<1>4. p \o q \in Seq(V) /\ Len(p \o q) = Len(p) + Len(q)
  BY <1>2, <1>3, ConcatProperties
<1>5. Len(p \o q) = Len(l) - 1
  BY <1>1, <1>2, <1>3, <1>4
<1>6. Len(l) = 1 => p \o q = <<>>
  <2>1. Len(l) = 1 => Len(p \o q) = 0
    BY <1>5
  <2>2. QED
    BY <1>4, <2>1, EmptySeq
<1>7. QED
  BY <1>4, <1>5, <1>6 DEF p, q

(***************************************************************************)
(* Pup Pairs on the hosted view                                            *)
(***************************************************************************)

Timers == [what : {"begin", "first", "second", "end"}, card : Nat]

MatchTyped ==
    /\ pup \in [active : BOOLEAN, pc : {"idle", "speaking"}, open : BOOLEAN]
    /\ BoardOK(board) /\ seen \subseteq Cards(board) /\ (~scores.crossed => seen \cap board.matched = {})
    /\ pairView \in [locked : BOOLEAN, token : Nat, face : {"human", "bmo", "speaking", "complete"}]
    /\ pending \in Seq(Timers) /\ telling \subseteq Nat
    /\ scores \in [rounds : Nat, recorded : Nat, crossed : BOOLEAN]

\* A closed view has no timers and nothing to tell.
ViewClosed ==
    /\ pup.open => pup.active /\ pup.pc = "idle"
    /\ ~pup.open => pending = <<>> /\ telling = {}
\* A round that is not over is not recorded.
Counted ==
    scores.recorded <= scores.rounds /\ (pup.open /\ ~Complete(board) => scores.recorded < scores.rounds)
Announced ==
    /\ \A token \in telling : token <= pairView.token
    /\ pairView.face = "complete" => Complete(board) /\ pairView.token \notin telling

HumansTurn == board.player = "human" /\ Len(board.up) < 2 /\ ~pairView.locked
\* What is on the board while BMO waits for a timer.
Awaiting(t) ==
    \/ t.what = "begin" /\ board.player = "human" /\ Len(board.up) = 2
    \/ t.what = "first" /\ board.player = "bmo" /\ board.up = <<>>
    \/ t.what = "second" /\ board.player = "bmo" /\ board.up = <<t.card>>
    \/ t.what = "end" /\ board.player = "bmo" /\ Len(board.up) = 2
\* While no game was begun in BMO's turn, one timer at most is set.
OneTimer ==
    pup.open /\ ~scores.crossed =>
        \/ pending = <<>> /\ (~Complete(board) => HumansTurn)
        \/ \E t \in Timers : pending = <<t>> /\ ~Complete(board) /\ pairView.locked /\ Awaiting(t)

MatchInv == MatchTyped /\ ViewClosed /\ Counted /\ Announced /\ OneTimer

(***************************************************************************)
(* Pup Pairs on the canvas                                                 *)
(***************************************************************************)

Afters == [what : {"first", "match", "miss", "second", "hide", "hidden", "turn", "win"}, card : Nat]

TableTyped ==
    /\ BoardOK(table) /\ recalled \subseteq Cards(table) /\ animating \in BOOLEAN /\ afters \in Seq(Afters)
    /\ canvas \in BOOLEAN /\ (~canvas => afters = <<>>)

\* What is on the board while the canvas waits for an animation or a delay.
Showing(a) ==
    \/ a.what = "first" /\ animating /\ Len(table.up) = 1 /\ ~Complete(table)
    \/ a.what = "match" /\ animating /\ table.up = <<>>
    \/ a.what \in {"miss", "hide"} /\ animating /\ Len(table.up) = 2 /\ ~Complete(table)
    \/ a.what = "hidden" /\ animating /\ table.up = <<>> /\ ~Complete(table)
    \/ a.what = "turn" /\ table.player = "bmo" /\ table.up = <<>> /\ ~Complete(table)
    \/ a.what = "second" /\ table.player = "bmo" /\ Len(table.up) = 1 /\ ~Complete(table)
    \/ a.what = "win" /\ Complete(table)
OneAfter ==
    canvas =>
        \/ afters = <<>> /\ (~Complete(table) => ~animating /\ table.player = "human" /\ Len(table.up) < 2)
        \/ \E a \in Afters : afters = <<a>> /\ Showing(a)

TableInv == TableTyped /\ OneAfter

\* What is due is all that is under way.
LEMMA DueAlone ==
  ASSUME TableInv, NEW i \in 1..Len(afters)
  PROVE  canvas /\ Done(i) = <<>> /\ afters[i] \in Afters /\ Showing(afters[i])
<1>1. afters \in Seq(Afters) /\ afters # <<>>
  BY DEF TableInv, TableTyped
<1>2. canvas
  BY <1>1 DEF TableInv, TableTyped
<1>3. PICK a \in Afters : afters = <<a>> /\ Showing(a)
  BY <1>1, <1>2 DEF TableInv, OneAfter
<1>4. Len(afters) = 1 /\ i = 1 /\ afters[i] = a
  BY <1>3
<1>5. Done(i) = <<>>
  BY <1>1, <1>4, DropOne DEF Done
<1>6. QED
  BY <1>2, <1>3, <1>4, <1>5

\* What is begun on an idle canvas is the one thing under way.
LEMMA AfterAlone ==
  ASSUME NEW w \in {"first", "match", "miss", "second", "hide", "hidden", "turn", "win"}, NEW c \in Nat
  PROVE  /\ Append(<<>>, After(w, c)) = <<After(w, c)>> /\ After(w, c) \in Afters /\ After(w, c).what = w
         /\ <<After(w, c)>> \in Seq(Afters)
  BY DEF After, Afters

\* A card that can be turned over shows what it has come to.
LEMMA TurnOverKeeps ==
  ASSUME TableInv, canvas, canvas' = canvas, NEW card, Turnable(table, card), TurnOver(card, <<>>)
  PROVE  TableInv'
<1> DEFINE r == RevealResult(table, card)
           b == AfterReveal(table, card)
<1>1. BoardOK(table) /\ recalled \subseteq Cards(table)
  BY DEF TableInv, TableTyped
<1>2. /\ table' = b /\ recalled' = recalled \union {card} /\ animating' = TRUE
      /\ afters' = Append(<<>>, After(r, card))
  BY DEF TurnOver
<1>3. /\ BoardOK(b) /\ Cards(b) = Cards(table) /\ card \in Cards(table)
      /\ r \in {"first", "match", "miss"}
      /\ r = "match" => b.up = <<>>
      /\ r = "first" => Len(b.up) = 1 /\ ~Complete(b)
      /\ r = "miss" => Len(b.up) = 2 /\ ~Complete(b)
  BY <1>1, RevealKeeps
<1> HIDE DEF r, b
<1>6. card \in Nat
  BY <1>3 DEF Cards
<1>7. PICK a \in Afters : afters' = <<a>> /\ a.what = r /\ afters' \in Seq(Afters)
  BY <1>2, <1>3, <1>6, AfterAlone
<1>8. TableTyped'
  BY <1>1, <1>2, <1>3, <1>7 DEF TableTyped
<1>9. Showing(a)'
  BY <1>2, <1>3, <1>7 DEF Showing
<1>10. QED
  BY <1>7, <1>8, <1>9 DEF TableInv, OneAfter

\* The canvas begins with nothing under way.
LEMMA TableBegins == TableInit => TableInv
<1> SUFFICES ASSUME TableInit PROVE TableInv
  OBVIOUS
<1>1. PICK n \in MinPairs..MaxPairs : table = NewBoard(n)
  BY DEF TableInit
<1>2. BoardOK(table) /\ Len(table.up) < 2 /\ table.player = "human"
  BY <1>1, NewBoardOK
<1>3. afters = <<>> /\ animating \in BOOLEAN /\ ~animating /\ recalled = {} /\ canvas \in BOOLEAN /\ canvas
  BY DEF TableInit
<1>4. TableTyped
  BY <1>2, <1>3 DEF TableTyped
<1>5. OneAfter
  BY <1>2, <1>3 DEF OneAfter
<1>6. QED
  BY <1>4, <1>5 DEF TableInv

\* Every step keeps one thing under way at a time.
LEMMA TableStep == TableInv /\ [TableNext]_tableVars => TableInv'
<1> SUFFICES ASSUME TableInv, [TableNext]_tableVars PROVE TableInv'
  OBVIOUS
<1>1. /\ BoardOK(table) /\ recalled \subseteq Cards(table) /\ animating \in BOOLEAN /\ afters \in Seq(Afters)
      /\ canvas \in BOOLEAN /\ (~canvas => afters = <<>>)
  BY DEF TableInv, TableTyped
<1>2. table.player \in {"human", "bmo"} /\ table.pairs \in MinPairs..MaxPairs
  BY <1>1 DEF BoardOK, Boards
<1>3. Len(table.up) \in {0, 1, 2} /\ (table.up = <<>> <=> Len(table.up) = 0)
  BY <1>1, CardsUp
<1>4. ASSUME NEW pairs \in MinPairs..MaxPairs, NewTable(pairs) PROVE TableInv'
  <2>1. /\ table' = NewBoard(pairs) /\ recalled' = {} /\ afters' = <<>> /\ canvas' \in BOOLEAN /\ canvas'
        /\ animating' \in BOOLEAN /\ ~animating'
    BY <1>1, <1>4 DEF NewTable
  <2>2. BoardOK(table') /\ Len(table'.up) < 2 /\ table'.player = "human"
    BY <2>1, NewBoardOK
  <2>3. TableTyped'
    BY <1>1, <2>1, <2>2 DEF TableTyped
  <2>4. OneAfter'
    BY <2>1, <2>2 DEF OneAfter
  <2>5. QED
    BY <2>3, <2>4 DEF TableInv
<1>5. ASSUME NEW card \in Cards(table), ChooseCard(card) PROVE TableInv'
  <2>1. canvas /\ ~animating /\ table.player = "human" /\ TurnOver(card, afters) /\ canvas' = canvas
    BY <1>5 DEF ChooseCard
  <2>2. CASE ~Turnable(table, card)
    <3>1. table' = table /\ recalled' = recalled /\ animating' = animating /\ afters' = afters
      BY <2>1, <2>2 DEF TurnOver
    <3>2. QED
      BY <2>1, <3>1 DEF TableInv, TableTyped, OneAfter, Showing
  <2>3. CASE Turnable(table, card)
    <3>1. ~Complete(table)
      BY <1>1, <2>3, RevealKeeps
    <3>2. afters = <<>>
      BY <2>1, <3>1 DEF TableInv, OneAfter, Showing, Afters
    <3>3. QED
      BY <2>1, <2>3, <3>2, TurnOverKeeps
  <2>4. QED
    BY <2>2, <2>3
<1>6. ASSUME NEW i \in 1..Len(afters),
             \/ ShowFirst(i) \/ ShowMatch(i) \/ ShowMiss(i) \/ HideMiss(i) \/ EndTableTurn(i)
             \/ BmoTakesFirst(i) \/ BmoTakesSecond(i) \/ ShowWin(i)
      PROVE  TableInv'
  <2>1. canvas /\ Done(i) = <<>> /\ afters[i] \in Afters /\ Showing(afters[i])
    BY DueAlone
  <2>2. canvas' = canvas
    BY <1>6 DEF ShowFirst, ShowMatch, ShowMiss, HideMiss, EndTableTurn, BmoTakesFirst, BmoTakesSecond, ShowWin
  <2>3. ASSUME BoardOK(table'), recalled' \subseteq Cards(table'), animating' \in BOOLEAN, afters' = <<>>,
               ~Complete(table') => ~animating' /\ table'.player = "human" /\ Len(table'.up) < 2
        PROVE  TableInv'
    BY <2>1, <2>2, <2>3 DEF TableInv, TableTyped, OneAfter
  <2>4. ASSUME BoardOK(table'), recalled' \subseteq Cards(table'), animating' \in BOOLEAN,
               NEW w \in {"first", "match", "miss", "second", "hide", "hidden", "turn", "win"},
               afters' = Append(<<>>, After(w, 0)), Showing(After(w, 0))'
        PROVE  TableInv'
    <3>1. afters' = <<After(w, 0)>> /\ After(w, 0) \in Afters /\ afters' \in Seq(Afters)
      BY <2>4, AfterAlone
    <3>2. QED
      BY <2>1, <2>2, <2>4, <3>1 DEF TableInv, TableTyped, OneAfter
  <2>5. \A w \in {"first", "match", "miss", "second", "hide", "hidden", "turn", "win"} : After(w, 0).what = w
    BY DEF After
  <2>6. CASE ShowFirst(i)
    <3>1. /\ afters[i].what = "first" /\ animating' = FALSE /\ table' = table /\ recalled' = recalled
          /\ afters' = IF table.player = "human" THEN <<>> ELSE Append(<<>>, After("second", 0))
      BY <2>1, <2>6 DEF ShowFirst, Due
    <3>2. Len(table.up) = 1 /\ ~Complete(table)
      BY <2>1, <3>1 DEF Showing
    <3>3. CASE table.player = "human"
      <4>1. Len(table.up) < 2
        BY <3>2
      <4>2. QED
        BY <1>1, <2>3, <3>1, <3>3, <4>1
    <3>4. CASE table.player = "bmo"
      <4>1. Showing(After("second", 0))'
        BY <2>5, <3>1, <3>2, <3>4 DEF Showing
      <4>2. QED
        BY <1>1, <2>4, <3>1, <3>4, <4>1
    <3>5. QED
      BY <1>2, <3>3, <3>4
  <2>7. CASE ShowMatch(i)
    <3>1. /\ afters[i].what = "match" /\ animating' = FALSE /\ table' = table
          /\ recalled' = recalled \ table.matched
          /\ afters' = IF Complete(table) THEN Append(<<>>, After("win", 0))
                       ELSE IF table.player = "bmo" THEN Append(<<>>, After("turn", 0)) ELSE <<>>
      BY <2>1, <2>7 DEF ShowMatch, Due
    <3>2. table.up = <<>> /\ recalled' \subseteq Cards(table)
      BY <1>1, <2>1, <3>1 DEF Showing
    <3>3. CASE Complete(table)
      <4>1. Showing(After("win", 0))'
        BY <2>5, <3>1, <3>3 DEF Showing
      <4>2. QED
        BY <1>1, <2>4, <3>1, <3>2, <3>3, <4>1
    <3>4. CASE ~Complete(table) /\ table.player = "bmo"
      <4>1. Showing(After("turn", 0))'
        BY <2>5, <3>1, <3>2, <3>4 DEF Showing
      <4>2. QED
        BY <1>1, <2>4, <3>1, <3>2, <3>4, <4>1
    <3>5. CASE ~Complete(table) /\ table.player = "human"
      <4>1. Len(table.up) < 2
        BY <3>2
      <4>2. QED
        BY <1>1, <2>3, <3>1, <3>2, <3>5, <4>1
    <3>6. QED
      BY <1>2, <3>3, <3>4, <3>5
  <2>8. CASE ShowMiss(i)
    <3>1. /\ afters[i].what = "miss" /\ animating' = TRUE /\ table' = table /\ recalled' = recalled
          /\ afters' = Append(<<>>, After("hide", 0))
      BY <2>1, <2>8 DEF ShowMiss, Due
    <3>2. Len(table.up) = 2 /\ ~Complete(table)
      BY <2>1, <3>1 DEF Showing
    <3>3. Showing(After("hide", 0))'
      BY <2>5, <3>1, <3>2 DEF Showing
    <3>4. QED
      BY <1>1, <2>4, <3>1, <3>3
  <2>9. CASE HideMiss(i)
    <3>1. afters[i].what = "hide" /\ table' = HideUnmatched(table) /\ recalled' = recalled
      BY <2>9 DEF HideMiss, Due
    <3>2. Len(table.up) = 2 /\ ~Complete(table) /\ animating
      BY <2>1, <3>1 DEF Showing
    <3>3. animating' = TRUE /\ afters' = Append(<<>>, After("hidden", 0))
      BY <2>1, <2>9, <3>2 DEF HideMiss
    <3>4. /\ BoardOK(table') /\ Cards(table') = Cards(table) /\ table'.up = <<>>
          /\ table'.matched = table.matched
      BY <1>1, <3>1, <3>2, HideKeeps
    <3>5. Showing(After("hidden", 0))'
      BY <2>5, <3>2, <3>3, <3>4 DEF Showing, Complete
    <3>6. QED
      BY <1>1, <2>4, <3>1, <3>3, <3>4, <3>5
  <2>10. CASE EndTableTurn(i)
    <3>1. /\ afters[i].what = "hidden" /\ animating' = FALSE /\ table' = table /\ recalled' = recalled
          /\ afters' = IF table.player = "bmo" THEN Append(<<>>, After("turn", 0)) ELSE <<>>
      BY <2>1, <2>10 DEF EndTableTurn, Due
    <3>2. table.up = <<>> /\ ~Complete(table) /\ Len(table.up) < 2
      BY <2>1, <3>1 DEF Showing
    <3>3. CASE table.player = "bmo"
      <4>1. Showing(After("turn", 0))'
        BY <2>5, <3>1, <3>2, <3>3 DEF Showing
      <4>2. QED
        BY <1>1, <2>4, <3>1, <3>3, <4>1
    <3>4. CASE table.player = "human"
      BY <1>1, <2>3, <3>1, <3>2, <3>4
    <3>5. QED
      BY <1>2, <3>3, <3>4
  <2>11. CASE BmoTakesFirst(i)
    <3>1. afters[i].what = "turn"
      BY <2>11 DEF BmoTakesFirst, Due
    <3>2. table.player = "bmo" /\ table.up = <<>> /\ ~Complete(table)
      BY <2>1, <3>1 DEF Showing
    <3>3. PICK card \in FirstChoices(table, recalled) : TurnOver(card, <<>>)
      BY <2>1, <2>11, <3>2 DEF BmoTakesFirst
    <3>4. Turnable(table, card)
      <4>1. Len(table.up) = 0 /\ Up(table) = {} /\ Len(table.up) < 2
        BY <1>1, <3>2, CardsUp
      <4>2. QED
        BY <3>3, <4>1, ChoicesAvailable DEF Turnable
    <3>5. QED
      BY <2>1, <2>2, <3>3, <3>4, TurnOverKeeps
  <2>12. CASE BmoTakesSecond(i)
    <3>1. afters[i].what = "second"
      BY <2>12 DEF BmoTakesSecond, Due
    <3>2. table.player = "bmo" /\ Len(table.up) = 1 /\ ~Complete(table)
      BY <2>1, <3>1 DEF Showing
    <3>3. PICK card \in SecondChoices(table, recalled, table.up[1]) : TurnOver(card, <<>>)
      BY <2>1, <2>12, <3>2 DEF BmoTakesSecond
    <3>4. card \in Available(table) \ {table.up[1]} /\ Up(table) = {table.up[1]}
      BY <1>1, <3>2, <3>3, ChoicesAvailable, CardsUp
    <3>5. Turnable(table, card)
      BY <3>2, <3>4 DEF Turnable
    <3>6. QED
      BY <2>1, <2>2, <3>3, <3>5, TurnOverKeeps
  <2>13. CASE ShowWin(i)
    <3>1. /\ afters[i].what = "win" /\ animating' = TRUE /\ table' = table /\ recalled' = recalled
          /\ afters' = <<>>
      BY <2>1, <2>13 DEF ShowWin, Due
    <3>2. Complete(table)
      BY <2>1, <3>1 DEF Showing
    <3>3. QED
      BY <1>1, <2>3, <3>1, <3>2
  <2>14. QED
    BY <1>6, <2>6, <2>7, <2>8, <2>9, <2>10, <2>11, <2>12, <2>13
<1>7. CASE WinnerTold
  BY <1>7 DEF WinnerTold, TableInv, TableTyped, OneAfter, Showing
<1>8. CASE CloseTable
  <2>1. table' = table /\ recalled' = recalled /\ animating' = animating /\ afters' = <<>> /\ ~canvas'
        /\ canvas' \in BOOLEAN
    BY <1>8 DEF CloseTable
  <2>2. QED
    BY <1>1, <2>1 DEF TableInv, TableTyped, OneAfter
<1>9. CASE UNCHANGED tableVars
  BY <1>9 DEF tableVars, TableInv, TableTyped, OneAfter, Showing
<1>10. QED
  BY <1>4, <1>5, <1>6, <1>7, <1>8, <1>9 DEF TableNext

\* What the invariant says of the canvas.
LEMMA TableShown == TableInv => TableTypeOK /\ TableKeepsTurns
<1> SUFFICES ASSUME TableInv PROVE TableTypeOK /\ TableKeepsTurns
  OBVIOUS
<1>1. TableTypeOK
  BY DEF TableInv, TableTyped, BoardOK, TableTypeOK
<1>2. ASSUME NEW i \in 1..Len(afters) PROVE Len(afters) = 1 /\ Showing(afters[i])
  <2>1. afters # <<>> /\ afters \in Seq(Afters) /\ canvas
    BY DEF TableInv, TableTyped
  <2>2. \E a \in Afters : afters = <<a>>
    BY <2>1 DEF TableInv, OneAfter
  <2>3. QED
    BY <2>2, DueAlone
<1>3. Len(afters) <= 1
  <2>1. afters \in Seq(Afters)
    BY DEF TableInv, TableTyped
  <2>2. Len(afters) \in Nat
    BY <2>1
  <2>3. Len(afters) # 0 => 1 \in 1..Len(afters)
    BY <2>2
  <2>4. QED
    BY <1>2, <2>2, <2>3
<1>4. canvas /\ afters = <<>> /\ ~Complete(table) =>
          ~animating /\ table.player = "human" /\ Len(table.up) < 2
  BY DEF TableInv, OneAfter
<1>5. \A i \in 1..Len(afters) : afters[i].what \in {"turn", "second"} => table.player = "bmo"
  BY <1>2 DEF Showing
<1>6. QED
  BY <1>1, <1>3, <1>4, <1>5 DEF TableKeepsTurns

\* The hosted view begins closed.
LEMMA MatchBegins == MatchInit => MatchInv
<1> SUFFICES ASSUME MatchInit PROVE MatchInv
  OBVIOUS
<1>1. PICK n \in MinPairs..MaxPairs : board = NewBoard(n)
  BY DEF MatchInit
<1>2. BoardOK(board)
  BY <1>1, NewBoardOK
<1>3. /\ pup = [active |-> FALSE, pc |-> "idle", open |-> FALSE] /\ seen = {}
      /\ pairView = [locked |-> FALSE, token |-> 0, face |-> "human"]
      /\ pending = <<>> /\ telling = {} /\ scores = [rounds |-> 0, recorded |-> 0, crossed |-> FALSE]
  BY DEF MatchInit, NewPairView
<1>4. MatchTyped
  BY <1>2, <1>3 DEF MatchTyped
<1>5. ViewClosed /\ Counted /\ Announced /\ OneTimer
  BY <1>3 DEF ViewClosed, Counted, Announced, OneTimer
<1>6. QED
  BY <1>4, <1>5 DEF MatchInv

\* The parts of the invariant that say what the state is made of.
LEMMA MatchParts ==
  ASSUME MatchInv
  PROVE  /\ pup \in [active : BOOLEAN, pc : {"idle", "speaking"}, open : BOOLEAN]
         /\ BoardOK(board) /\ seen \subseteq Cards(board) /\ (~scores.crossed => seen \cap board.matched = {})
         /\ pairView \in [locked : BOOLEAN, token : Nat, face : {"human", "bmo", "speaking", "complete"}]
         /\ pending \in Seq(Timers) /\ telling \subseteq Nat
         /\ scores \in [rounds : Nat, recorded : Nat, crossed : BOOLEAN]
         /\ board.player \in {"human", "bmo"} /\ board.pairs \in MinPairs..MaxPairs
  BY DEF MatchInv, MatchTyped, BoardOK, Boards

\* A timer is set on an open view only; unless a game was begun in BMO's turn it
\* is the only one.
LEMMA TimerAlone ==
  ASSUME MatchInv, NEW i \in 1..Len(pending)
  PROVE  /\ pup.open /\ Without(i) \in Seq(Timers) /\ pending[i] \in Timers
         /\ ~scores.crossed =>
               Without(i) = <<>> /\ ~Complete(board) /\ pairView.locked /\ Awaiting(pending[i])
<1>1. pending \in Seq(Timers) /\ pending # <<>> /\ pending[i] \in Timers
  BY DEF MatchInv, MatchTyped
<1>2. pup.open
  BY <1>1 DEF MatchInv, ViewClosed
<1>3. Without(i) \in Seq(Timers) /\ (Len(pending) = 1 => Without(i) = <<>>)
  BY <1>1, DropOne DEF Without
<1>4. ASSUME ~scores.crossed
      PROVE  Without(i) = <<>> /\ ~Complete(board) /\ pairView.locked /\ Awaiting(pending[i])
  <2>1. PICK t \in Timers : pending = <<t>> /\ ~Complete(board) /\ pairView.locked /\ Awaiting(t)
    BY <1>1, <1>2, <1>4 DEF MatchInv, OneTimer
  <2>2. Len(pending) = 1 /\ i = 1 /\ pending[i] = t
    BY <2>1
  <2>3. QED
    BY <1>3, <2>1, <2>2
<1>5. QED
  BY <1>1, <1>2, <1>3, <1>4

\* Setting a timer adds it to those that are left.
LEMMA TimerSet ==
  ASSUME NEW l \in Seq(Timers), NEW w \in {"begin", "first", "second", "end"}, NEW c \in Nat
  PROVE  Append(l, Timer(w, c)) \in Seq(Timers)
<1>1. Timer(w, c) \in Timers
  BY DEF Timer, Timers
<1>2. QED
  BY <1>1

\* The first timer is the only one.
LEMMA FirstTimer ==
  ASSUME NEW w \in {"begin", "first", "second", "end"}, NEW c \in Nat
  PROVE  \E t \in Timers : Append(<<>>, Timer(w, c)) = <<t>> /\ t.what = w /\ t.card = c
<1>1. Timer(w, c) \in Timers /\ Timer(w, c).what = w /\ Timer(w, c).card = c
  BY DEF Timer, Timers
<1>2. Append(<<>>, Timer(w, c)) = <<Timer(w, c)>>
  OBVIOUS
<1>3. QED
  BY <1>1, <1>2

\* The mode's own steps and a new game.
LEMMA ModeKeeps ==
  ASSUME MatchInv, StartPup \/ OpenBoard \/ CloseBoard \/ \E delta \in 0..2 : NewGame(delta)
  PROVE  MatchInv'
<1>1. /\ pup \in [active : BOOLEAN, pc : {"idle", "speaking"}, open : BOOLEAN]
      /\ BoardOK(board) /\ seen \subseteq Cards(board) /\ (~scores.crossed => seen \cap board.matched = {})
      /\ pairView \in [locked : BOOLEAN, token : Nat, face : {"human", "bmo", "speaking", "complete"}]
      /\ pending \in Seq(Timers) /\ telling \subseteq Nat
      /\ scores \in [rounds : Nat, recorded : Nat, crossed : BOOLEAN]
      /\ board.pairs \in MinPairs..MaxPairs
  BY MatchParts
<1>2. scores.recorded <= scores.rounds
  BY DEF MatchInv, Counted
<1>3. CASE StartPup
  <2>1. /\ ~pup.active /\ pup' = [pup EXCEPT !.active = TRUE, !.pc = "speaking"]
        /\ board' = board /\ seen' = seen /\ pairView' = pairView /\ pending' = pending
        /\ telling' = telling /\ scores' = scores
    BY <1>3 DEF StartPup
  <2>2. ~pup.open /\ pending = <<>> /\ telling = {}
    BY <2>1 DEF MatchInv, ViewClosed
  <2>3. pup' \in [active : BOOLEAN, pc : {"idle", "speaking"}, open : BOOLEAN] /\ ~pup'.open
    BY <1>1, <2>1, <2>2
  <2>4. MatchTyped'
    BY <1>1, <2>1, <2>3 DEF MatchTyped
  <2>5. ViewClosed' /\ Counted' /\ Announced' /\ OneTimer'
    BY <1>2, <2>1, <2>2, <2>3 DEF MatchInv, ViewClosed, Counted, Announced, OneTimer
  <2>6. QED
    BY <2>4, <2>5 DEF MatchInv
<1>4. CASE OpenBoard
  <2>1. pup.pc = "speaking" /\ pending' = pending /\ telling' = telling
    BY <1>4 DEF OpenBoard
  <2>2. ~pup.open /\ pending = <<>> /\ telling = {}
    BY <2>1 DEF MatchInv, ViewClosed
  <2>3. CASE pup' = [pup EXCEPT !.pc = "idle", !.active = FALSE] /\ UNCHANGED <<board, seen, pairView, scores>>
    <3>1. pup' \in [active : BOOLEAN, pc : {"idle", "speaking"}, open : BOOLEAN] /\ ~pup'.open
      BY <1>1, <2>2, <2>3
    <3>2. MatchTyped'
      BY <1>1, <2>1, <2>3, <3>1 DEF MatchTyped
    <3>3. ViewClosed' /\ Counted' /\ Announced' /\ OneTimer'
      BY <1>2, <2>1, <2>2, <2>3, <3>1 DEF MatchInv, ViewClosed, Counted, Announced, OneTimer
    <3>4. QED
      BY <3>2, <3>3 DEF MatchInv
  <2>4. CASE /\ pup.active /\ pup' = [pup EXCEPT !.pc = "idle", !.open = TRUE]
             /\ board' = NewBoard(board.pairs) /\ seen' = {} /\ pairView' = NewPairView
             /\ scores' = [scores EXCEPT !.rounds = @ + 1]
    <3>1. /\ pup' \in [active : BOOLEAN, pc : {"idle", "speaking"}, open : BOOLEAN]
          /\ pup'.open /\ pup'.active /\ pup'.pc = "idle"
      BY <1>1, <2>4
    <3>2. BoardOK(board') /\ Len(board'.up) < 2 /\ board'.player = "human" /\ ~Complete(board)'
      BY <1>1, <2>4, NewBoardOK
    <3>3. /\ pairView' \in [locked : BOOLEAN, token : Nat, face : {"human", "bmo", "speaking", "complete"}]
          /\ ~pairView'.locked /\ pairView'.face = "human"
      BY <2>4 DEF NewPairView
    <3>4. /\ scores' \in [rounds : Nat, recorded : Nat, crossed : BOOLEAN]
          /\ scores'.recorded < scores'.rounds
      BY <1>1, <1>2, <2>4
    <3>5. MatchTyped'
      BY <1>1, <2>1, <2>4, <3>1, <3>2, <3>3, <3>4 DEF MatchTyped
    <3>6. ViewClosed'
      BY <3>1 DEF ViewClosed
    <3>7. Counted'
      BY <1>1, <3>4 DEF Counted
    <3>8. Announced' /\ OneTimer'
      BY <2>1, <2>2, <3>2, <3>3 DEF Announced, OneTimer, HumansTurn
    <3>9. QED
      BY <3>5, <3>6, <3>7, <3>8 DEF MatchInv
  <2>5. QED
    BY <1>4, <2>3, <2>4 DEF OpenBoard
<1>5. CASE CloseBoard
  <2>1. /\ pup' = [pup EXCEPT !.open = FALSE, !.active = FALSE] /\ pending' = <<>> /\ telling' = {}
        /\ board' = board /\ seen' = seen /\ pairView' = pairView /\ scores' = scores
    BY <1>5 DEF CloseBoard
  <2>2. pup' \in [active : BOOLEAN, pc : {"idle", "speaking"}, open : BOOLEAN] /\ ~pup'.open
    BY <1>1, <2>1
  <2>3. MatchTyped'
    BY <1>1, <2>1, <2>2 DEF MatchTyped
  <2>4. ViewClosed' /\ Counted' /\ Announced' /\ OneTimer'
    BY <1>2, <2>1, <2>2 DEF MatchInv, ViewClosed, Counted, Announced, OneTimer
  <2>5. QED
    BY <2>3, <2>4 DEF MatchInv
<1>6. ASSUME NEW delta \in 0..2, NewGame(delta) PROVE MatchInv'
  <2>1. /\ pup.open /\ board' = NewBoard(ClampPairs((board.pairs + delta) - 1)) /\ seen' = {}
        /\ pairView' = [locked |-> FALSE, token |-> pairView.token + 1, face |-> "human"]
        /\ scores' = [scores EXCEPT !.rounds = @ + 1, !.crossed = @ \/ pending # <<>>]
        /\ pup' = pup /\ pending' = pending /\ telling' = telling
    BY <1>6 DEF NewGame
  <2>2. (board.pairs + delta) - 1 \in Int
    BY <1>1, BoardConstants DEF BoardConstants
  <2>3. BoardOK(board') /\ Len(board'.up) < 2 /\ board'.player = "human" /\ ~Complete(board)'
    BY <2>1, <2>2, ClampedPairs, NewBoardOK
  <2>4. /\ pairView' \in [locked : BOOLEAN, token : Nat, face : {"human", "bmo", "speaking", "complete"}]
        /\ ~pairView'.locked /\ pairView'.face = "human" /\ pairView'.token = pairView.token + 1
        /\ pairView.token \in Nat
    BY <1>1, <2>1
  <2>5. /\ scores' \in [rounds : Nat, recorded : Nat, crossed : BOOLEAN]
        /\ scores'.recorded < scores'.rounds /\ (~scores'.crossed => pending = <<>>)
    <3> DEFINE c == scores.crossed \/ pending # <<>>
    <3>1. c \in BOOLEAN /\ (~c => pending = <<>>)
      OBVIOUS
    <3>2. scores' = [scores EXCEPT !.rounds = @ + 1, !.crossed = c]
      BY <1>1, <2>1
    <3> HIDE DEF c
    <3>3. scores.rounds + 1 \in Nat
      BY <1>1
    <3>4. scores' \in [rounds : Nat, recorded : Nat, crossed : BOOLEAN]
      <4> DEFINE n == scores.rounds + 1
      <4>1. scores' = [scores EXCEPT !.rounds = n, !.crossed = c]
        BY <1>1, <3>2
      <4> HIDE DEF n
      <4>2. n \in Nat
        BY <3>3 DEF n
      <4>3. QED
        BY <1>1, <3>1, <4>1, <4>2
    <3>5. scores'.recorded < scores'.rounds
      BY <1>1, <1>2, <3>2
    <3>6. scores'.crossed = c
      BY <1>1, <3>2
    <3>7. QED
      BY <3>1, <3>4, <3>5, <3>6
  <2>6. MatchTyped'
    BY <1>1, <2>1, <2>3, <2>4, <2>5 DEF MatchTyped
  <2>7. ViewClosed'
    BY <2>1 DEF MatchInv, ViewClosed
  <2>8. Counted'
    BY <1>1, <2>5 DEF Counted
  <2>9. Announced'
    BY <1>1, <2>1, <2>4 DEF MatchInv, Announced
  <2>10. OneTimer'
    BY <2>1, <2>3, <2>4, <2>5 DEF OneTimer, HumansTurn
  <2>11. QED
    BY <2>6, <2>7, <2>8, <2>9, <2>10 DEF MatchInv
<1>7. QED
  BY <1>3, <1>4, <1>5, <1>6

\* A card of BMO's or of the human's turned over: what is remembered then.
LEMMA TurnRemembers ==
  ASSUME MatchInv, NEW card \in Cards(board), Turn(card), card \in Available(board)
  PROVE  /\ seen' \subseteq Cards(board)
         /\ ~scores.crossed => seen' \cap board'.matched = {}
<1>1. BoardOK(board) /\ seen \subseteq Cards(board) /\ (~scores.crossed => seen \cap board.matched = {})
  BY MatchParts
<1>2. board' = AfterReveal(board, card) /\ seen' = Remember(board', seen, card, RevealResult(board, card))
  BY DEF Turn
<1>3. Cards(board') = Cards(board)
  BY <1>1, <1>2, RevealKeeps
<1>4. seen' \subseteq Cards(board)
  BY <1>1, <1>2, <1>3, RememberedIsThere
<1>5. CASE RevealResult(board, card) = "match"
  BY <1>1, <1>2, <1>3, <1>4, <1>5, RememberedIsThere
<1>6. CASE RevealResult(board, card) # "match"
  <2>1. board'.matched = board.matched /\ card \notin board'.matched
    BY <1>1, <1>2, <1>6, MatchedByMatch DEF Available
  <2>2. QED
    BY <1>1, <1>2, <1>3, <1>4, <2>1, RememberedIsThere
<1>7. QED
  BY <1>5, <1>6

\* A card turned over on the hosted view, whoever turns it: the board, what is
\* remembered and, on a finished board, the result.
LEMMA TurnKeeps ==
  ASSUME MatchInv, pup.open, pup' = pup, NEW card \in Cards(board), ~Complete(board),
         board' = AfterReveal(board, card), seen' \subseteq Cards(board),
         ~scores.crossed => seen' \cap board'.matched = {},
         NEW locked \in BOOLEAN,
         \/ /\ Complete(board')
            /\ pairView' = [locked |-> TRUE, token |-> pairView.token + 1, face |-> "speaking"]
            /\ telling' = telling \union {pairView.token + 1}
            /\ scores' = [scores EXCEPT !.recorded = @ + 1]
         \/ /\ pairView' = [pairView EXCEPT !.locked = locked]
            /\ telling' = telling /\ scores' = scores,
         pending' \in Seq(Timers)
  PROVE  /\ MatchTyped' /\ ViewClosed' /\ Counted' /\ Announced' /\ scores'.crossed = scores.crossed
         /\ pairView'.locked = locked \/ Complete(board')
<1>1. /\ BoardOK(board) /\ seen \subseteq Cards(board)
      /\ pup \in [active : BOOLEAN, pc : {"idle", "speaking"}, open : BOOLEAN]
      /\ pairView \in [locked : BOOLEAN, token : Nat, face : {"human", "bmo", "speaking", "complete"}]
      /\ telling \subseteq Nat /\ scores \in [rounds : Nat, recorded : Nat, crossed : BOOLEAN]
  BY MatchParts
<1>2. ~scores.crossed => seen' \cap board'.matched = {}
  OBVIOUS
<1>3. BoardOK(board') /\ Cards(board') = Cards(board)
  BY <1>1, RevealKeeps
<1>4. seen' \subseteq Cards(board')
  BY <1>3
<1>5. /\ \A token \in telling : token <= pairView.token
      /\ pairView.face # "complete" /\ scores.recorded < scores.rounds
  BY DEF MatchInv, Announced, Counted
<1>6. CASE /\ Complete(board')
           /\ pairView' = [locked |-> TRUE, token |-> pairView.token + 1, face |-> "speaking"]
           /\ telling' = telling \union {pairView.token + 1}
           /\ scores' = [scores EXCEPT !.recorded = @ + 1]
  <2>1. /\ pairView' \in [locked : BOOLEAN, token : Nat, face : {"human", "bmo", "speaking", "complete"}]
        /\ pairView'.token = pairView.token + 1 /\ pairView.token \in Nat /\ pairView'.face = "speaking"
        /\ telling' \subseteq Nat
    BY <1>1, <1>6
  <2>2. /\ scores' \in [rounds : Nat, recorded : Nat, crossed : BOOLEAN]
        /\ scores'.recorded <= scores'.rounds /\ scores'.crossed = scores.crossed
    BY <1>1, <1>5, <1>6
  <2>3. MatchTyped'
    BY <1>1, <1>2, <1>3, <1>4, <2>1, <2>2 DEF MatchTyped
  <2>4. \A token \in telling' : token <= pairView'.token
    BY <1>1, <1>5, <1>6, <2>1
  <2>5. ViewClosed' /\ Counted' /\ Announced'
    BY <1>6, <2>1, <2>2, <2>4 DEF MatchInv, ViewClosed, Counted, Announced, Complete
  <2>6. QED
    BY <1>6, <2>2, <2>3, <2>5
<1>7. CASE /\ pairView' = [pairView EXCEPT !.locked = locked]
           /\ telling' = telling /\ scores' = scores
  <2>1. /\ pairView' \in [locked : BOOLEAN, token : Nat, face : {"human", "bmo", "speaking", "complete"}]
        /\ pairView'.token = pairView.token /\ pairView'.face = pairView.face /\ pairView'.locked = locked
    BY <1>1, <1>7
  <2>2. MatchTyped'
    BY <1>1, <1>2, <1>3, <1>4, <1>7, <2>1 DEF MatchTyped
  <2>3. ViewClosed' /\ Counted' /\ Announced'
    BY <1>5, <1>7, <2>1 DEF MatchInv, ViewClosed, Counted, Announced
  <2>4. QED
    BY <1>7, <2>1, <2>2, <2>3
<1>8. QED
  BY <1>6, <1>7

\* The human turns over a card.
LEMMA HumanKeeps ==
  ASSUME MatchInv, NEW card \in Cards(board), HumanReveal(card)
  PROVE  MatchInv'
<1> DEFINE result == RevealResult(board, card)
           miss == result = "miss"
<1>1. /\ pup.open /\ ~pairView.locked /\ board.player = "human" /\ Turnable(board, card) /\ Turn(card)
      /\ FinishIfComplete(board', pairView' = [pairView EXCEPT !.locked = miss])
      /\ IF miss THEN SetTimer(pending, "begin", 0) ELSE UNCHANGED pending
      /\ pup' = pup
  BY DEF HumanReveal
<1>2. BoardOK(board) /\ pending \in Seq(Timers) /\ scores.crossed \in BOOLEAN
  BY MatchParts
<1>3. board' = AfterReveal(board, card)
  BY <1>1 DEF Turn
<1>4. /\ ~Complete(board) /\ result \in {"first", "match", "miss"} /\ board'.player = board.player
      /\ BoardOK(board')
      /\ result = "match" => board'.up = <<>>
      /\ result = "first" => Len(board'.up) = 1 /\ ~Complete(board')
      /\ result = "miss" => Len(board'.up) = 2 /\ ~Complete(board')
  BY <1>1, <1>2, <1>3, RevealKeeps
<1>5. pending' \in Seq(Timers)
  BY <1>1, <1>2, TimerSet DEF SetTimer
<1> HIDE DEF result
<1>6. miss \in BOOLEAN
  OBVIOUS
<1>7. \/ /\ Complete(board')
         /\ pairView' = [locked |-> TRUE, token |-> pairView.token + 1, face |-> "speaking"]
         /\ telling' = telling \union {pairView.token + 1}
         /\ scores' = [scores EXCEPT !.recorded = @ + 1]
      \/ /\ pairView' = [pairView EXCEPT !.locked = miss]
         /\ telling' = telling /\ scores' = scores
  BY <1>1 DEF FinishIfComplete
<1> HIDE DEF miss
<1>8. /\ MatchTyped' /\ ViewClosed' /\ Counted' /\ Announced' /\ scores'.crossed = scores.crossed
      /\ pairView'.locked = miss \/ Complete(board')
  <2>1. card \in Available(board)
    BY <1>1 DEF Turnable
  <2>2. seen' \subseteq Cards(board) /\ (~scores.crossed => seen' \cap board'.matched = {})
    BY <1>1, <2>1, TurnRemembers
  <2>3. QED
    BY <1>1, <1>3, <1>4, <1>5, <1>6, <1>7, <2>2, TurnKeeps
<1>9. OneTimer'
  <2>1. SUFFICES ASSUME ~scores.crossed
                 PROVE  \/ pending' = <<>> /\ (~Complete(board') => HumansTurn')
                        \/ \E t \in Timers : pending' = <<t>> /\ ~Complete(board') /\ pairView'.locked /\ Awaiting(t)'
    BY <1>8 DEF OneTimer, Complete
  <2>2. pending = <<>>
    BY <1>1, <2>1 DEF MatchInv, OneTimer
  <2>3. CASE result = "miss"
    <3>1. pending' = Append(<<>>, Timer("begin", 0)) /\ miss
      BY <1>1, <2>2, <2>3 DEF SetTimer, miss
    <3>2. PICK t \in Timers : pending' = <<t>> /\ t.what = "begin"
      BY <3>1, FirstTimer
    <3>3. Awaiting(t)' /\ ~Complete(board') /\ pairView'.locked
      BY <1>1, <1>4, <1>8, <2>3, <3>1, <3>2 DEF Awaiting
    <3>4. QED
      BY <3>2, <3>3
  <2>4. CASE result # "miss"
    <3>1. pending' = <<>> /\ ~miss
      BY <1>1, <2>2, <2>4 DEF miss
    <3>2. Len(board'.up) < 2
      <4>1. board'.up = <<>> => Len(board'.up) < 2
        OBVIOUS
      <4>2. Len(board'.up) = 1 => Len(board'.up) < 2
        OBVIOUS
      <4>3. QED
        BY <1>4, <2>4, <4>1, <4>2
    <3>3. ~Complete(board') => HumansTurn'
      BY <1>1, <1>4, <1>8, <3>1, <3>2 DEF HumansTurn
    <3>4. QED
      BY <3>1, <3>3
  <2>5. QED
    BY <2>3, <2>4
<1>10. QED
  BY <1>8, <1>9 DEF MatchInv

\* BMO's two cards.
LEMMA BmoKeeps ==
  ASSUME MatchInv, NEW i \in 1..Len(pending), BmoFirst(i) \/ BmoSecond(i)
  PROVE  MatchInv'
<1>1. /\ pup.open /\ Without(i) \in Seq(Timers) /\ pending[i] \in Timers
      /\ ~scores.crossed => Without(i) = <<>> /\ ~Complete(board) /\ pairView.locked /\ Awaiting(pending[i])
  BY TimerAlone
<1>2. BoardOK(board) /\ scores.crossed \in BOOLEAN /\ pending[i].card \in Nat /\ pairView.locked \in BOOLEAN
      /\ Cards(board) \subseteq Nat
      /\ pairView \in [locked : BOOLEAN, token : Nat, face : {"human", "bmo", "speaking", "complete"}]
  BY <1>1, MatchParts DEF Timers, Cards
<1>3. ASSUME Complete(board), pending' = Without(i), pup' = pup, board' = board, seen' = seen,
             pairView' = pairView, telling' = telling, scores' = scores
      PROVE  MatchInv'
  <2>1. MatchTyped'
    BY <1>1, <1>3, MatchParts DEF MatchTyped
  <2>2. ViewClosed' /\ Counted' /\ Announced'
    BY <1>1, <1>3 DEF MatchInv, ViewClosed, Counted, Announced
  <2>3. OneTimer'
    BY <1>1, <1>3 DEF OneTimer
  <2>4. QED
    BY <2>1, <2>2, <2>3 DEF MatchInv
<1>4. ASSUME BmoFirst(i), ~Complete(board) PROVE MatchInv'
  <2>1. PICK card \in FirstChoices(board, seen) :
              /\ board' = AfterReveal(board, card) /\ seen' = seen \union {card}
              /\ SetTimer(Without(i), "second", card)
    BY <1>4 DEF BmoFirst
  <2>2. pending[i].what = "first" /\ pup' = pup /\ pairView' = pairView /\ telling' = telling /\ scores' = scores
    BY <1>4 DEF BmoFirst
  <2>3. card \in Available(board) /\ card \in Cards(board) /\ card \in Nat
    BY <1>2, <2>1, ChoicesAvailable DEF Available
  <2>4. pending' \in Seq(Timers)
    BY <1>1, <2>1, <2>3, TimerSet DEF SetTimer
  <2>5. pairView' = [pairView EXCEPT !.locked = pairView.locked]
    BY <1>2, <2>2
  <2>6. seen' \subseteq Cards(board) /\ (~scores.crossed => seen' \cap board'.matched = {})
    <3>1. seen \subseteq Cards(board) /\ (~scores.crossed => seen \cap board.matched = {})
      BY MatchParts
    <3>2. SUFFICES ASSUME ~scores.crossed PROVE seen' \cap board'.matched = {}
      BY <2>1, <2>3, <3>1
    <3>3. board.up = <<>>
      BY <1>1, <2>2, <3>2 DEF Awaiting
    <3>4. RevealResult(board, card) # "match"
      BY <3>3 DEF RevealResult
    <3>5. board'.matched = board.matched
      BY <1>2, <2>1, <3>4, MatchedByMatch
    <3>6. QED
      BY <2>1, <2>3, <3>1, <3>2, <3>5 DEF Available
  <2>7. MatchTyped' /\ ViewClosed' /\ Counted' /\ Announced' /\ scores'.crossed = scores.crossed
    <3> DEFINE locked == pairView.locked
    <3>1. locked \in BOOLEAN /\ pairView' = [pairView EXCEPT !.locked = locked]
      BY <1>2, <2>5
    <3> HIDE DEF locked
    <3>2. QED
      BY <1>1, <1>4, <2>1, <2>2, <2>3, <2>4, <2>6, <3>1, TurnKeeps, Zenon
  <2>8. OneTimer'
    <3>1. SUFFICES ASSUME ~scores.crossed
                   PROVE  \E t \in Timers : pending' = <<t>> /\ ~Complete(board') /\ pairView'.locked /\ Awaiting(t)'
      BY <2>7 DEF OneTimer, Complete
    <3>2. Awaiting(pending[i]) /\ Without(i) = <<>> /\ pairView.locked
      BY <1>1, <3>1
    <3>3. board.player = "bmo" /\ board.up = <<>>
      BY <2>2, <3>2 DEF Awaiting
    <3>4. Len(board.up) = 0 /\ Up(board) = {} /\ Len(board.up) < 2
      BY <1>2, <3>3, CardsUp
    <3>5. Turnable(board, card)
      BY <2>3, <3>4 DEF Turnable
    <3>6. board' = AfterReveal(board, card)
      BY <2>1
    <3>7. board'.up = <<card>> /\ board'.player = "bmo" /\ ~Complete(board')
      BY <1>2, <3>3, <3>4, <3>5, <3>6, RevealKeeps
    <3>8. PICK t \in Timers : pending' = <<t>> /\ t.what = "second" /\ t.card = card
      <4>1. pending' = Append(<<>>, Timer("second", card))
        BY <2>1, <3>2 DEF SetTimer
      <4>2. QED
        BY <2>3, <4>1, FirstTimer
    <3>9. QED
      BY <2>2, <3>2, <3>7, <3>8 DEF Awaiting
  <2>9. QED
    BY <2>7, <2>8 DEF MatchInv
<1>5. ASSUME BmoSecond(i), ~Complete(board) PROVE MatchInv'
  <2>1. PICK card \in SecondChoices(board, seen, pending[i].card) :
              /\ Turn(card) /\ FinishIfComplete(board', UNCHANGED pairView)
              /\ IF Complete(board') THEN pending' = Without(i)
                 ELSE SetTimer(Without(i), IF RevealResult(board, card) = "match" THEN "first" ELSE "end", 0)
    BY <1>5 DEF BmoSecond
  <2> DEFINE w == IF RevealResult(board, card) = "match" THEN "first" ELSE "end"
  <2>2. pending[i].what = "second" /\ pup' = pup
    BY <1>5 DEF BmoSecond
  <2>3. card \in Available(board) \ {pending[i].card} /\ card \in Cards(board)
    BY <2>1, ChoicesAvailable DEF Available
  <2>4. w \in {"first", "end"} /\ (w = "first" <=> RevealResult(board, card) = "match")
    OBVIOUS
  <2>5. IF Complete(board') THEN pending' = Without(i) ELSE pending' = Append(Without(i), Timer(w, 0))
    BY <2>1 DEF SetTimer
  <2> HIDE DEF w
  <2>6. pending' \in Seq(Timers)
    BY <1>1, <2>4, <2>5, TimerSet
  <2>7. board' = AfterReveal(board, card)
    BY <2>1 DEF Turn
  <2>8. /\ MatchTyped' /\ ViewClosed' /\ Counted' /\ Announced' /\ scores'.crossed = scores.crossed
        /\ pairView.locked => pairView'.locked \/ Complete(board')
    <3> DEFINE locked == pairView.locked
    <3>1. pairView = [pairView EXCEPT !.locked = locked] /\ locked \in BOOLEAN
      BY <1>2
    <3>2. \/ /\ Complete(board')
             /\ pairView' = [locked |-> TRUE, token |-> pairView.token + 1, face |-> "speaking"]
             /\ telling' = telling \union {pairView.token + 1}
             /\ scores' = [scores EXCEPT !.recorded = @ + 1]
          \/ /\ pairView' = [pairView EXCEPT !.locked = locked]
             /\ telling' = telling /\ scores' = scores
      BY <2>1, <3>1 DEF FinishIfComplete
    <3> HIDE DEF locked
    <3>3. /\ MatchTyped' /\ ViewClosed' /\ Counted' /\ Announced' /\ scores'.crossed = scores.crossed
          /\ pairView'.locked = locked \/ Complete(board')
      <4>1. seen' \subseteq Cards(board) /\ (~scores.crossed => seen' \cap board'.matched = {})
        BY <2>1, <2>3, TurnRemembers
      <4>2. QED
        BY <1>1, <1>5, <2>2, <2>3, <2>6, <2>7, <3>1, <3>2, <4>1, TurnKeeps
    <3>4. QED
      BY <3>3 DEF locked
  <2>9. OneTimer'
    <3>1. SUFFICES ASSUME ~scores.crossed
                   PROVE  \/ pending' = <<>> /\ (~Complete(board') => HumansTurn')
                          \/ \E t \in Timers : pending' = <<t>> /\ ~Complete(board') /\ pairView'.locked /\ Awaiting(t)'
      BY <2>8 DEF OneTimer, Complete
    <3>2. Awaiting(pending[i]) /\ Without(i) = <<>> /\ pairView.locked
      BY <1>1, <3>1
    <3>3. board.player = "bmo" /\ board.up = <<pending[i].card>>
      BY <2>2, <3>2 DEF Awaiting
    <3>4. Len(board.up) = 1 /\ board.up[1] = pending[i].card /\ Len(board.up) < 2 /\ Len(board.up) # 0
      BY <3>3
    <3>5. Up(board) = {pending[i].card}
      BY <1>2, <3>4, CardsUp
    <3>6. Turnable(board, card)
      BY <2>3, <3>4, <3>5 DEF Turnable
    <3>7. /\ RevealResult(board, card) \in {"match", "miss"} /\ board'.player = "bmo"
          /\ RevealResult(board, card) = "match" => board'.up = <<>>
          /\ RevealResult(board, card) = "miss" => Len(board'.up) = 2 /\ ~Complete(board')
      BY <1>2, <2>7, <3>3, <3>4, <3>6, RevealKeeps
    <3>8. CASE Complete(board')
      BY <2>5, <3>2, <3>8
    <3>9. CASE ~Complete(board')
      <4>1. PICK t \in Timers : pending' = <<t>> /\ t.what = w
        <5>1. pending' = Append(<<>>, Timer(w, 0))
          BY <2>5, <3>2, <3>9
        <5>2. QED
          BY <2>4, <5>1, FirstTimer
      <4>2. Awaiting(t)'
        BY <2>4, <3>7, <4>1 DEF Awaiting
      <4>3. pairView'.locked
        BY <2>8, <3>2, <3>9
      <4>4. QED
        BY <3>9, <4>1, <4>2, <4>3
    <3>10. QED
      BY <3>8, <3>9
  <2>10. QED
    BY <2>8, <2>9 DEF MatchInv
<1>6. CASE Complete(board)
  <2>1. /\ pending' = Without(i) /\ pup' = pup /\ board' = board /\ seen' = seen
        /\ pairView' = pairView /\ telling' = telling /\ scores' = scores
    BY <1>6 DEF BmoFirst, BmoSecond
  <2>2. QED
    BY <1>3, <1>6, <2>1
<1>7. QED
  BY <1>4, <1>5, <1>6

\* The turn passes to BMO, and back.
LEMMA PassKeeps ==
  ASSUME MatchInv, NEW i \in 1..Len(pending), BeginBmoTurn(i) \/ EndBmoTurn(i)
  PROVE  MatchInv'
<1>1. /\ pup.open /\ Without(i) \in Seq(Timers) /\ pending[i] \in Timers
      /\ ~scores.crossed => Without(i) = <<>> /\ ~Complete(board) /\ pairView.locked /\ Awaiting(pending[i])
  BY TimerAlone
<1>2. /\ pup \in [active : BOOLEAN, pc : {"idle", "speaking"}, open : BOOLEAN]
      /\ BoardOK(board) /\ seen \subseteq Cards(board) /\ (~scores.crossed => seen \cap board.matched = {})
      /\ pairView \in [locked : BOOLEAN, token : Nat, face : {"human", "bmo", "speaking", "complete"}]
      /\ telling \subseteq Nat /\ scores \in [rounds : Nat, recorded : Nat, crossed : BOOLEAN]
  BY MatchParts
<1>3. /\ board' = HideUnmatched(board) /\ pup' = pup /\ seen' = seen /\ telling' = telling /\ scores' = scores
      /\ pairView'.token = pairView.token /\ pairView'.face \in {"bmo", "human"}
      /\ pairView' \in [locked : BOOLEAN, token : Nat, face : {"human", "bmo", "speaking", "complete"}]
  BY <1>2 DEF BeginBmoTurn, EndBmoTurn
<1>4. BoardOK(board') /\ Cards(board') = Cards(board) /\ board'.matched = board.matched
  BY <1>2, <1>3, HideKeeps
<1>5. Complete(board') <=> Complete(board)
  BY <1>4 DEF Complete
<1>6. pending' \in Seq(Timers)
  BY <1>1, TimerSet DEF BeginBmoTurn, EndBmoTurn, SetTimer
<1>7. MatchTyped'
  BY <1>2, <1>3, <1>4, <1>5, <1>6 DEF MatchTyped, Complete
<1>8. ViewClosed'
  BY <1>1, <1>3 DEF MatchInv, ViewClosed
<1>9. Counted'
  BY <1>3, <1>5 DEF MatchInv, Counted, Complete
<1>10. Announced'
  BY <1>3 DEF MatchInv, Announced
<1>11. OneTimer'
  <2>1. SUFFICES ASSUME ~scores.crossed
                 PROVE  \/ pending' = <<>> /\ (~Complete(board') => HumansTurn')
                        \/ \E t \in Timers : pending' = <<t>> /\ ~Complete(board') /\ pairView'.locked /\ Awaiting(t)'
    BY <1>3 DEF OneTimer, Complete
  <2>2. Awaiting(pending[i]) /\ Without(i) = <<>> /\ pairView.locked /\ ~Complete(board')
    BY <1>1, <1>5, <2>1
  <2>3. CASE BeginBmoTurn(i)
    <3>1. /\ pending[i].what = "begin" /\ pairView' = [pairView EXCEPT !.face = "bmo"]
          /\ pending' = Append(<<>>, Timer("first", 0))
      BY <2>2, <2>3 DEF BeginBmoTurn, SetTimer
    <3>2. board.player = "human" /\ Len(board.up) = 2
      BY <2>2, <3>1 DEF Awaiting
    <3>3. board'.player = "bmo" /\ board'.up = <<>>
      BY <1>2, <1>3, <3>2, HideKeeps
    <3>4. PICK t \in Timers : pending' = <<t>> /\ t.what = "first"
      BY <3>1, FirstTimer
    <3>5. pairView'.locked
      BY <1>2, <2>2, <3>1
    <3>6. Awaiting(t)'
      BY <3>3, <3>4 DEF Awaiting
    <3>7. QED
      BY <2>2, <3>4, <3>5, <3>6
  <2>4. CASE EndBmoTurn(i)
    <3>1. /\ pending[i].what = "end" /\ pairView' = [pairView EXCEPT !.locked = FALSE, !.face = "human"]
          /\ pending' = <<>>
      BY <2>2, <2>4 DEF EndBmoTurn
    <3>2. board.player = "bmo" /\ Len(board.up) = 2
      BY <2>2, <3>1 DEF Awaiting
    <3>3. board'.player = "human" /\ board'.up = <<>>
      BY <1>2, <1>3, <3>2, HideKeeps
    <3>4. Len(board'.up) < 2
      BY <3>3
    <3>5. ~pairView'.locked
      BY <1>2, <3>1
    <3>6. HumansTurn'
      BY <3>3, <3>4, <3>5 DEF HumansTurn
    <3>7. QED
      BY <3>1, <3>6
  <2>5. QED
    BY <2>3, <2>4
<1>12. QED
  BY <1>7, <1>8, <1>9, <1>10, <1>11 DEF MatchInv

\* The announcement of a winner is over.
LEMMA AnnouncementKeeps ==
  ASSUME MatchInv, NEW token \in telling, FinishAnnouncement(token)
  PROVE  MatchInv'
<1>1. /\ telling' = telling \ {token} /\ pup' = pup /\ board' = board /\ seen' = seen
      /\ pending' = pending /\ scores' = scores
      /\ pairView' = IF token = pairView.token /\ Complete(board)
                     THEN [pairView EXCEPT !.face = "complete"] ELSE pairView
  BY DEF FinishAnnouncement
<1>2. pairView \in [locked : BOOLEAN, token : Nat, face : {"human", "bmo", "speaking", "complete"}]
  BY MatchParts
<1>3. /\ pairView' \in [locked : BOOLEAN, token : Nat, face : {"human", "bmo", "speaking", "complete"}]
      /\ pairView'.token = pairView.token
      /\ pairView'.face = "complete" =>
            pairView.face = "complete" \/ (token = pairView.token /\ Complete(board))
  BY <1>1, <1>2
<1>4. pairView'.locked = pairView.locked
  BY <1>1, <1>2
<1>5. MatchTyped'
  BY <1>1, <1>3, MatchParts DEF MatchTyped
<1>6. ViewClosed' /\ Counted'
  BY <1>1 DEF MatchInv, ViewClosed, Counted
<1>7. Announced'
  BY <1>1, <1>3 DEF MatchInv, Announced, Complete
<1>8. OneTimer'
  BY <1>1, <1>4 DEF MatchInv, OneTimer, HumansTurn, Awaiting
<1>9. QED
  BY <1>5, <1>6, <1>7, <1>8 DEF MatchInv

\* Every step of the hosted view keeps the invariant.
LEMMA MatchStep == MatchInv /\ [MatchNext]_matchVars => MatchInv'
<1> SUFFICES ASSUME MatchInv, [MatchNext]_matchVars PROVE MatchInv'
  OBVIOUS
<1>1. CASE UNCHANGED matchVars
  <2>1. /\ pup' = pup /\ board' = board /\ seen' = seen /\ pairView' = pairView /\ pending' = pending
        /\ telling' = telling /\ scores' = scores
    BY <1>1 DEF matchVars
  <2>2. MatchTyped' /\ ViewClosed' /\ Counted' /\ Announced' /\ OneTimer'
    BY <2>1 DEF MatchInv, MatchTyped, ViewClosed, Counted, Announced, OneTimer, HumansTurn, Awaiting
  <2>3. QED
    BY <2>2 DEF MatchInv
<1>2. CASE MatchNext
  <2>1. CASE StartPup \/ OpenBoard \/ CloseBoard \/ \E delta \in 0..2 : NewGame(delta)
    BY <2>1, ModeKeeps
  <2>2. CASE \E card \in Cards(board) : HumanReveal(card)
    BY <2>2, HumanKeeps
  <2>3. CASE \E i \in 1..Len(pending) : BeginBmoTurn(i) \/ BmoFirst(i) \/ BmoSecond(i) \/ EndBmoTurn(i)
    BY <2>3, PassKeeps, BmoKeeps
  <2>4. CASE \E token \in telling : FinishAnnouncement(token)
    BY <2>4, AnnouncementKeeps
  <2>5. QED
    BY <1>2, <2>1, <2>2, <2>3, <2>4 DEF MatchNext
<1>3. QED
  BY <1>1, <1>2

\* What the invariant says of the hosted view.
LEMMA MatchShown == MatchInv => MatchTypeOK /\ PlayableBoard /\ EndIsAnnounced
<1> SUFFICES ASSUME MatchInv PROVE MatchTypeOK /\ PlayableBoard /\ EndIsAnnounced
  OBVIOUS
<1>1. MatchTypeOK
  BY DEF MatchInv, MatchTyped, ViewClosed, Counted, Announced, BoardOK, MatchTypeOK
<1>2. EndIsAnnounced
  BY DEF MatchInv, Announced, EndIsAnnounced
<1>3. ASSUME pup.open, ~scores.crossed, ~Complete(board)
      PROVE  /\ pending = <<>> => ~pairView.locked /\ board.player = "human" /\ Len(board.up) < 2
             /\ \A i \in 1..Len(pending) : pending[i].what \in {"first", "second"} => board.player = "bmo"
  <2>1. pending = <<>> => ~pairView.locked /\ board.player = "human" /\ Len(board.up) < 2
    BY <1>3 DEF MatchInv, OneTimer, HumansTurn
  <2>2. \A i \in 1..Len(pending) : Awaiting(pending[i])
    BY <1>3, TimerAlone
  <2>3. QED
    BY <2>1, <2>2 DEF Awaiting
<1>4. QED
  BY <1>1, <1>2, <1>3 DEF PlayableBoard

\* The pair game can always be played on, for any number of pairs.
THEOREM BoardsPlayOn == MatchSpec /\ TableSpec => []BoardsArePlayable
<1>1. MatchSpec => []MatchInv
  BY MatchBegins, MatchStep, PTL DEF MatchSpec
<1>2. TableSpec => []TableInv
  BY TableBegins, TableStep, PTL DEF TableSpec
<1>3. MatchInv /\ TableInv => BoardsArePlayable
  BY MatchShown, TableShown DEF BoardsArePlayable
<1>4. QED
  BY <1>1, <1>2, <1>3, PTL

(***************************************************************************)
(* The questions of the learning area                                      *)
(***************************************************************************)

\* A choice that is right by the prompt and that the bank does not keep apart from the answer.
Wanted(q, i) == Fits(q, i) /\ ~FiledApart(q, i)

\* The marks of a question are those of the choices its prompt wants.
IsMarked(q) ==
    /\ q.kind \in {"choose", "sort", "order"} /\ q.submit \in BOOLEAN
    /\ q.kind = "order" => q.correct = [i \in 1..q.of |-> i]
    /\ q.kind = "sort" => q.submit /\ q.correct = [i \in DOMAIN q.choices |-> <<i, Heard["category"][q.choices[i]]>>]
    /\ q.kind = "choose" =>
          /\ ToSet(q.correct) = {i \in DOMAIN q.choices : Wanted(q, i)}
          /\ ~q.submit => q.correct = <<1>>

\* What was said of the last response follows from the prompt and from the tries left.
JudgedSoFar ==
    /\ verdict.correct \in BOOLEAN /\ verdict.retry \in BOOLEAN /\ verdict.reveal \in BOOLEAN
    /\ verdict.correct <=> DidAsAsked(verdict.picked)
    /\ verdict.reveal => tries = MaxAttempts
    /\ verdict.retry => tries < MaxAttempts

\* A question is marked by its prompt as long as it is on the screen.
QuestionInv ==
    /\ tries \in Nat
    /\ question = <<>> => tries = 0
    /\ question # <<>> => IsMarked(question)
    /\ tries > 0 => JudgedSoFar

\* Most prompts want the same of a choice whatever stands beside it.
AloneAsks == {"find", "read", "number", "letter", "case", "alike", "first sound", "letter sound", "after", "before",
              "gap", "add", "take", "compare", "pattern"}
Alone(ask, of, c) ==
    CASE ask \in {"find", "read", "number"} -> c = of
      [] ask = "letter"  -> c[1] = of[1]
      [] ask = "case"    -> c[2] = of
      [] ask = "alike"   -> Heard[of[1]][c] = Heard[of[1]][of[2]] /\ c \in Alike(of[1], of[2])
      [] ask = "first sound"  -> SoundOf[c] = Heard["initial"][of] /\ c = Filed["initial"][of]
      [] ask = "letter sound" -> SoundOf[c[1]] = SoundOf[of] /\ c[1] = of
      [] ask = "after"   -> c = of + 1
      [] ask = "before"  -> c + 1 = of
      [] ask = "gap"     -> c + 1 = of[1] + of[2]
      [] ask = "add"     -> c = of[1] + of[2]
      [] ask = "take"    -> c + of[2] = of[1]
      [] ask = "compare" ->
             CASE of[1] = "more"  -> c = IF of[2] > of[3] THEN "left" ELSE "right"
               [] of[1] = "fewer" -> c = IF of[2] < of[3] THEN "left" ELSE "right"
               [] OTHER           -> c = "same"
      [] ask = "pattern" -> Continues(of, c)

-----------------------------------------------------------------------------
(* The choices of a question *)

\* The right choices come first, then each wrong one once.
RightThenWrong(c, right, wrong) ==
    /\ DOMAIN c = 1..Len(c) /\ Len(right) \in Nat /\ Len(c) \in Nat /\ Len(right) <= Len(c)
    /\ \A i \in 1..Len(right) : c[i] = right[i]
    /\ \A i \in (Len(right) + 1)..Len(c) : c[i] \in wrong
    /\ \A i, j \in (Len(right) + 1)..Len(c) : c[i] = c[j] => i = j

\* A question lists its choices that way.
LEMMA ChoicesAre ==
  ASSUME NEW V, NEW right \in Seq(V), NEW wrong \in SUBSET V, IsFiniteSet(wrong)
  PROVE  RightThenWrong(right \o SetToSeq(wrong), right, wrong)
<1> DEFINE w == SetToSeq(wrong)
           c == right \o w
<1>1. w \in Seq(wrong) /\ IsInjective(w)
  BY SetAsList
<1>2. w \in Seq(V)
  BY <1>1
<1>3. /\ Len(w) \in Nat /\ DOMAIN w = 1..Len(w) /\ \A k \in 1..Len(w) : w[k] \in wrong
      /\ \A k, l \in 1..Len(w) : w[k] = w[l] => k = l
  BY <1>1, LenProperties DEF IsInjective
<1>4. Len(right) \in Nat
  BY LenProperties
<1> HIDE DEF w
<1>5. /\ c \in Seq(V) /\ Len(c) = Len(right) + Len(w)
      /\ \A i \in 1..(Len(right) + Len(w)) : c[i] = IF i <= Len(right) THEN right[i] ELSE w[i - Len(right)]
  BY <1>2, <1>3, ConcatProperties
<1>6. DOMAIN c = 1..Len(c)
  BY <1>5, LenProperties
<1> DEFINE n == Len(right)
           m == Len(w)
<1>7. n \in Nat /\ m \in Nat /\ Len(c) = n + m
  BY <1>3, <1>4, <1>5
<1>8. \A i \in 1..n : c[i] = right[i]
  BY <1>5, <1>7
<1>9. \A i \in (n + 1)..(n + m) : c[i] = w[i - n] /\ i - n \in 1..m
  BY <1>5, <1>7
<1>10. \A i \in (n + 1)..(n + m) : c[i] \in wrong
  BY <1>3, <1>9
<1>11. \A i, j \in (n + 1)..(n + m) : c[i] = c[j] => i = j
  <2> TAKE i, j \in (n + 1)..(n + m)
  <2> HAVE c[i] = c[j]
  <2>1. i - n = j - n
    BY <1>3, <1>9
  <2> HIDE DEF n
  <2>2. QED
    BY <1>7, <2>1
<1>12. QED
  BY <1>4, <1>6, <1>7, <1>8, <1>10, <1>11, SMTT(40) DEF w, RightThenWrong

\* What a choice is on its own decides for those prompts.
LEMMA FitsAlone ==
  ASSUME NEW q, q.ask \in AloneAsks, NEW i
  PROVE  Wanted(q, i) <=> Alone(q.ask, q.of, q.choices[i])
<1>1. CASE q.ask \in {"alike", "first sound", "letter sound"}
  BY <1>1 DEF Wanted, Fits, FiledApart, Alone
<1>2. CASE q.ask \notin {"alike", "first sound", "letter sound"}
  <2>1. ~FiledApart(q, i)
    BY <1>2 DEF FiledApart, AloneAsks
  <2>2. Fits(q, i) <=> Alone(q.ask, q.of, q.choices[i])
    BY <1>2 DEF Fits, Alone, AloneAsks
  <2>3. QED
    BY <2>1, <2>2 DEF Wanted
<1>3. QED
  BY <1>1, <1>2

\* A prompt with one right choice.
LEMMA OneMarked ==
  ASSUME NEW ask \in AloneAsks, NEW of, NEW right, NEW wrong, IsFiniteSet(wrong),
         One(ask, of, right, wrong), Alone(ask, of, right), \A c \in wrong : ~Alone(ask, of, c)
  PROVE  IsMarked(question')
<1> DEFINE V == {right} \cup wrong
           r == <<right>>
           c == r \o SetToSeq(wrong)
<1>1. r \in Seq(V) /\ wrong \in SUBSET V /\ Len(r) = 1 /\ r[1] = right
  OBVIOUS
<1>2. /\ DOMAIN c = 1..Len(c) /\ Len(c) \in Nat /\ 1 <= Len(c) /\ c[1] = right
      /\ \A i \in 2..Len(c) : c[i] \in wrong
  <2> HIDE DEF V, r
  <2>1. r \in Seq(V) /\ wrong \in SUBSET V /\ IsFiniteSet(wrong)
    BY <1>1
  <2>2. /\ DOMAIN c = 1..Len(c) /\ Len(c) \in Nat /\ Len(r) <= Len(c)
        /\ \A i \in 1..Len(r) : c[i] = r[i]
        /\ \A i \in (Len(r) + 1)..Len(c) : c[i] \in wrong
    BY <2>1, ChoicesAre DEF RightThenWrong
  <2> HIDE DEF c
  <2>3. QED
    BY <1>1, <2>2
<1>3. question' = [ask |-> ask, of |-> of, choices |-> c, correct |-> [i \in 1..1 |-> i],
                   kind |-> "choose", submit |-> FALSE]
  <2> DEFINE made == MakeChoices(r, SetToSeq(wrong))
  <2>1. made.choices = c /\ made.correct = [i \in 1..Len(r) |-> i]
    BY DEF MakeChoices
  <2>2. [i \in 1..Len(r) |-> i] = [i \in 1..1 |-> i] /\ Len([i \in 1..1 |-> i]) = 1
    BY <1>1
  <2>3. question' = [ask |-> ask, of |-> of, choices |-> made.choices, correct |-> made.correct,
                     kind |-> "choose", submit |-> FALSE \/ Len(made.correct) > 1]
    BY DEF One, Put
  <2> HIDE DEF made, c, r
  <2>4. (FALSE \/ Len(made.correct) > 1) = FALSE
    BY <2>1, <2>2
  <2>5. QED
    BY <2>1, <2>2, <2>3, <2>4
<1> HIDE DEF c
<1>4. /\ question'.ask = ask /\ question'.of = of /\ question'.choices = c /\ question'.correct = [i \in 1..1 |-> i]
      /\ question'.kind = "choose" /\ question'.submit = FALSE
  BY <1>3
<1>5. \A i \in DOMAIN c : Wanted(question', i) <=> Alone(ask, of, c[i])
  BY <1>4, FitsAlone
<1>6. {i \in DOMAIN c : Wanted(question', i)} = {1}
  BY <1>2, <1>5
<1>7. [i \in 1..1 |-> i] = <<1>> /\ ToSet(<<1>>) = {1}
  BY DEF ToSet
<1>8. QED
  BY <1>4, <1>6, <1>7 DEF IsMarked

\* A prompt with several.
LEMMA ManyMarked ==
  ASSUME NEW ask \in AloneAsks, NEW of, NEW V, NEW right \in Seq(V), NEW wrong \in SUBSET V, IsFiniteSet(wrong),
         Many(ask, of, right, wrong), \A i \in 1..Len(right) : Alone(ask, of, right[i]),
         \A c \in wrong : ~Alone(ask, of, c)
  PROVE  IsMarked(question')
<1> DEFINE c == right \o SetToSeq(wrong)
           n == Len(right)
<1>1. /\ DOMAIN c = 1..Len(c) /\ n \in Nat /\ Len(c) \in Nat /\ n <= Len(c)
      /\ \A i \in 1..n : c[i] = right[i]
      /\ \A i \in (n + 1)..Len(c) : c[i] \in wrong
  BY ChoicesAre DEF RightThenWrong
<1>2. question' = [ask |-> ask, of |-> of, choices |-> c, correct |-> [i \in 1..n |-> i],
                   kind |-> "choose", submit |-> TRUE]
  BY DEF Many, Put, MakeChoices
<1> HIDE DEF c
<1>3. /\ question'.ask = ask /\ question'.of = of /\ question'.choices = c /\ question'.correct = [i \in 1..n |-> i]
      /\ question'.kind = "choose" /\ question'.submit = TRUE
  BY <1>2
<1>4. \A i \in DOMAIN c : Wanted(question', i) <=> Alone(ask, of, c[i])
  BY <1>3, FitsAlone
<1>5. \A i \in 1..n : Alone(ask, of, c[i])
  BY <1>1
<1>6. \A i \in (n + 1)..Len(c) : ~Alone(ask, of, c[i])
  BY <1>1
<1>7. ToSet([i \in 1..n |-> i]) = 1..n
  BY DEF ToSet
<1> HIDE DEF n
<1>8. {i \in DOMAIN c : Wanted(question', i)} = 1..n
  BY <1>1, <1>4, <1>5, <1>6
<1>9. QED
  BY <1>3, <1>7, <1>8 DEF IsMarked

-----------------------------------------------------------------------------
(* What a generator draws from *)

\* A sample is a finite part of the pool without what is excluded.
LEMMA SampledIs ==
  ASSUME NEW pool, IsFiniteSet(pool), NEW excluded, NEW count, NEW D \in Sampled(pool, excluded, count)
  PROVE  D \subseteq pool /\ D \cap excluded = {} /\ IsFiniteSet(D)
<1>1. D \subseteq pool /\ D \cap excluded = {}
  BY DEF Sampled, kSubset
<1>2. QED
  BY <1>1, FS_Subset

\* The banks are finite.
LEMMA Banks ==
  /\ IsFiniteSet(Glyph) /\ IsFiniteSet(Consonant)
  /\ \A case : IsFiniteSet(Letter \X {case}) /\ IsFiniteSet(Consonant \X {case})
  /\ \A f \in Field : IsFiniteSet(DOMAIN Filed[f]) /\ IsFiniteSet(Range(Filed[f]))
<1>1. IsFiniteSet(Consonant)
  BY QuestionConstants, FS_Subset
<1>2. \A case : IsFiniteSet(Letter \X {case}) /\ IsFiniteSet(Consonant \X {case})
  <2> TAKE case
  <2>1. IsFiniteSet({case})
    BY FS_Singleton
  <2>2. QED
    BY <1>1, <2>1, QuestionConstants, FS_Product
<1>3. IsFiniteSet(Glyph)
  <2>1. IsFiniteSet(Letter \X {"upper"}) /\ IsFiniteSet(Letter \X {"lower"})
    BY <1>2
  <2>2. Glyph = (Letter \X {"upper"}) \cup (Letter \X {"lower"})
    BY DEF Glyph
  <2>3. QED
    BY <2>1, <2>2, FS_Union
<1>4. ASSUME NEW f \in Field PROVE IsFiniteSet(DOMAIN Filed[f]) /\ IsFiniteSet(Range(Filed[f]))
  <2> DEFINE D == DOMAIN Filed[f]
             g == [w \in D |-> Filed[f][w]]
  <2>1. IsFiniteSet(D)
    BY QuestionConstants, FS_Subset
  <2>2. g \in Surjection(D, Range(Filed[f]))
    BY DEF Surjection, Range
  <2> HIDE DEF g
  <2>3. QED
    BY <2>1, <2>2, FS_Surjection
<1>5. QED
  BY <1>1, <1>2, <1>3, <1>4

\* A word is filed and heard like itself, and like the words filed with it.
LEMMA AlikeIs ==
  ASSUME NEW f \in Field, NEW t \in DOMAIN Filed[f]
  PROVE  /\ Alike(f, t) = {w \in DOMAIN Filed[f] : Filed[f][w] = Filed[f][t]} /\ t \in Alike(f, t)
         /\ \A w \in Alike(f, t) : Heard[f][w] = Heard[f][t]
BY BanksAreTrue DEF Alike, FiledUnder

-----------------------------------------------------------------------------
(* Each generator marks the choices that fit its prompt *)

\* The prompts about letters.
LEMMA LettersMarked ==
  ASSUME LetterSingle \/ LetterMulti \/ AlphabetGrid \/ CaseMatch \/ SoundLetter
  PROVE  IsMarked(question')
<1>1. CASE LetterSingle
  <2>1. PICK t \in Glyph : \E D \in Sampled(Glyph, {t}, ChoiceCount - 1) : One("find", t, t, D)
    BY <1>1 DEF LetterSingle
  <2>2. PICK D \in Sampled(Glyph, {t}, ChoiceCount - 1) : One("find", t, t, D)
    BY <2>1
  <2>3. D \subseteq Glyph /\ t \notin D /\ IsFiniteSet(D)
    BY Banks, SampledIs
  <2>4. Alone("find", t, t) /\ \A c \in D : ~Alone("find", t, c)
    BY <2>3 DEF Alone
  <2>5. QED
    BY <2>2, <2>3, <2>4, OneMarked DEF AloneAsks
<1>2. CASE LetterMulti
  <2>1. PICK t \in Glyph, n \in 1..ChoiceCount - 1 :
            \E D \in Sampled(Glyph, {t}, ChoiceCount - n) : Many("find", t, [i \in 1..n |-> t], D)
    BY <1>2 DEF LetterMulti
  <2>2. PICK D \in Sampled(Glyph, {t}, ChoiceCount - n) : Many("find", t, [i \in 1..n |-> t], D)
    BY <2>1
  <2>3. D \in SUBSET Glyph /\ t \notin D /\ IsFiniteSet(D)
    BY Banks, SampledIs
  <2> DEFINE r == [i \in 1..n |-> t]
  <2>4. n \in Nat
    BY QuestionConstants
  <2>5. r \in Seq(Glyph) /\ Len(r) = n /\ \A i \in 1..n : r[i] = t
    BY <2>4
  <2> HIDE DEF r
  <2>6. (\A i \in 1..Len(r) : Alone("find", t, r[i])) /\ \A c \in D : ~Alone("find", t, c)
    BY <2>3, <2>5 DEF Alone
  <2>7. Many("find", t, r, D)
    BY <2>2 DEF r
  <2>8. QED
    BY <2>3, <2>5, <2>6, <2>7, ManyMarked DEF AloneAsks
<1>3. CASE AlphabetGrid
  <2>1. PICK case \in {"upper", "lower"}, t \in Letter :
            One("find", <<t, case>>, <<t, case>>, (Letter \ {t}) \X {case})
    BY <1>3 DEF AlphabetGrid
  <2> DEFINE D == (Letter \ {t}) \X {case}
             g == <<t, case>>
  <2>2. IsFiniteSet(D)
    <3>1. D \subseteq Letter \X {case}
      OBVIOUS
    <3>2. QED
      BY <3>1, Banks, FS_Subset
  <2>3. g \notin D /\ One("find", g, g, D)
    BY <2>1
  <2> HIDE DEF D, g
  <2>4. Alone("find", g, g) /\ \A c \in D : ~Alone("find", g, c)
    BY <2>3 DEF Alone
  <2>5. QED
    BY <2>2, <2>3, <2>4, OneMarked DEF AloneAsks
<1>4. CASE CaseMatch
  <2> DEFINE of(t) == <<t[1], IF t[2] = "upper" THEN "lower" ELSE "upper">>
  <2>1. PICK t \in Glyph : \E D \in Sampled(Letter \X {t[2]}, {t}, ChoiceCount - 1) : One("letter", of(t), t, D)
    BY <1>4 DEF CaseMatch
  <2>2. PICK D \in Sampled(Letter \X {t[2]}, {t}, ChoiceCount - 1) : One("letter", of(t), t, D)
    BY <2>1
  <2>3. D \subseteq Letter \X {t[2]} /\ t \notin D /\ IsFiniteSet(D)
    <3>1. IsFiniteSet(Letter \X {t[2]})
      BY Banks
    <3>2. QED
      BY <3>1, SampledIs
  <2>4. t = <<t[1], t[2]>> /\ \A c \in D : c = <<c[1], t[2]>>
    BY <2>3 DEF Glyph
  <2>5. of(t)[1] = t[1]
    OBVIOUS
  <2> HIDE DEF of
  <2>6. Alone("letter", of(t), t) /\ \A c \in D : ~Alone("letter", of(t), c)
    BY <2>3, <2>4, <2>5 DEF Alone
  <2>7. QED
    BY <2>2, <2>3, <2>6, OneMarked DEF AloneAsks
<1>5. CASE SoundLetter
  <2>1. PICK t \in Consonant, case \in {"upper", "lower"} :
            \E D \in Sampled(Consonant \X {case}, {<<t, case>>}, ChoiceCount - 1) :
                One("letter sound", t, <<t, case>>, D)
    BY <1>5 DEF SoundLetter
  <2>2. PICK D \in Sampled(Consonant \X {case}, {<<t, case>>}, ChoiceCount - 1) :
            One("letter sound", t, <<t, case>>, D)
    BY <2>1
  <2>3. D \subseteq Consonant \X {case} /\ <<t, case>> \notin D /\ IsFiniteSet(D)
    <3>1. IsFiniteSet(Consonant \X {case})
      BY Banks
    <3>2. QED
      BY <3>1, SampledIs
  <2>4. \A c \in D : c = <<c[1], case>>
    BY <2>3
  <2>5. \A c \in D : c[1] # t
    BY <2>3, <2>4
  <2>6. Alone("letter sound", t, <<t, case>>) /\ \A c \in D : ~Alone("letter sound", t, c)
    BY <2>5 DEF Alone
  <2>7. QED
    BY <2>2, <2>3, <2>6, OneMarked DEF AloneAsks
<1>6. QED
  BY <1>1, <1>2, <1>3, <1>4, <1>5

\* A prompt for a word like another one: the answer is filed with it, the others are not.
LEMMA AlikeMarked ==
  ASSUME NEW f \in Field, NEW t \in DOMAIN Filed[f], NEW a \in Alike(f, t), NEW pool, IsFiniteSet(pool),
         OneAlike(f, t, a, pool)
  PROVE  IsMarked(question')
<1> DEFINE of == <<f, t>>
<1>1. PICK D \in Sampled(pool, Alike(f, t), ChoiceCount - 1) : One("alike", of, a, D)
  BY DEF OneAlike
<1>2. D \cap Alike(f, t) = {} /\ IsFiniteSet(D)
  BY SampledIs
<1>3. of[1] = f /\ of[2] = t
  OBVIOUS
<1> HIDE DEF of
<1>4. \A c : Alone("alike", of, c) <=> Heard[f][c] = Heard[f][t] /\ c \in Alike(f, t)
  BY <1>3 DEF Alone
<1>5. Alone("alike", of, a) /\ \A c \in D : ~Alone("alike", of, c)
  BY <1>2, <1>4, AlikeIs
<1>6. QED
  BY <1>1, <1>2, <1>5, OneMarked DEF AloneAsks

\* The prompts that ask for one word, or for one sound.
LEMMA WordsMarked ==
  ASSUME \/ WordInSentence \/ PictureWord \/ HearWord \/ RhymeOne \/ InitialSound \/ VowelWord
         \/ \E f \in {"initial", "final"} : \E t \in DOMAIN Filed[f] : \E a \in Alike(f, t) : OneAlike(f, t, a, Word)
  PROVE  IsMarked(question')
<1>1. IsFiniteSet(Word) /\ Field = {"word", "group", "initial", "final", "vowel", "category"}
  BY QuestionConstants DEF Field
<1>2. CASE WordInSentence \/ PictureWord
  <2>1. PICK t \in Word : \E D \in Sampled(Word, {t}, ChoiceCount - 1) : One("read", t, t, D)
    BY <1>2 DEF WordInSentence, PictureWord
  <2>2. PICK D \in Sampled(Word, {t}, ChoiceCount - 1) : One("read", t, t, D)
    BY <2>1
  <2>3. t \notin D /\ IsFiniteSet(D)
    BY <1>1, SampledIs
  <2>4. Alone("read", t, t) /\ \A c \in D : ~Alone("read", t, c)
    BY <2>3 DEF Alone
  <2>5. QED
    BY <2>2, <2>3, <2>4, OneMarked DEF AloneAsks
<1>3. CASE \E f \in Field : \E t \in DOMAIN Filed[f] : \E a \in Alike(f, t) :
              OneAlike(f, t, a, Word) \/ OneAlike(f, t, a, DOMAIN Filed[f])
  <2>1. SUFFICES ASSUME NEW f \in Field, NEW t \in DOMAIN Filed[f], NEW a \in Alike(f, t),
                        OneAlike(f, t, a, Word) \/ OneAlike(f, t, a, DOMAIN Filed[f])
                 PROVE  IsMarked(question')
    BY <1>3
  <2>2. IsFiniteSet(DOMAIN Filed[f])
    BY Banks
  <2>3. QED
    BY <1>1, <2>1, <2>2, AlikeMarked
<1>4. CASE HearWord
  <2>1. DOMAIN Filed["word"] = Word
    BY BanksAreTrue
  <2>2. QED
    BY <1>1, <1>3, <1>4, <2>1, AlikeIs DEF HearWord
<1>5. CASE RhymeOne
  BY <1>1, <1>3, <1>5 DEF RhymeOne
<1>6. CASE VowelWord
  BY <1>1, <1>3, <1>6, AlikeIs DEF VowelWord
<1>7. CASE InitialSound
  <2>1. PICK t \in DOMAIN Filed["initial"] :
            \/ OneAlike("initial", t, t, DOMAIN Filed["initial"])
            \/ \E D \in Sampled(Consonant, {Filed["initial"][t]}, ChoiceCount - 1) :
                   One("first sound", t, Filed["initial"][t], D)
    BY <1>7 DEF InitialSound
  <2>2. CASE OneAlike("initial", t, t, DOMAIN Filed["initial"])
    BY <1>1, <1>3, <2>2, AlikeIs
  <2>3. CASE \E D \in Sampled(Consonant, {Filed["initial"][t]}, ChoiceCount - 1) :
                One("first sound", t, Filed["initial"][t], D)
    <3> DEFINE initial == Filed["initial"][t]
    <3>1. PICK D \in Sampled(Consonant, {initial}, ChoiceCount - 1) : One("first sound", t, initial, D)
      BY <2>3
    <3>2. initial \notin D /\ IsFiniteSet(D)
      BY Banks, SampledIs
    <3>3. SoundOf[initial] = Heard["initial"][t]
      BY BanksAreTrue
    <3>4. \A c : Alone("first sound", t, c) <=> SoundOf[c] = Heard["initial"][t] /\ c = initial
      BY DEF Alone
    <3> HIDE DEF initial
    <3>5. Alone("first sound", t, initial) /\ \A c \in D : ~Alone("first sound", t, c)
      BY <3>2, <3>3, <3>4
    <3>6. QED
      BY <3>1, <3>2, <3>5, OneMarked DEF AloneAsks
  <2>4. QED
    BY <2>1, <2>2, <2>3
<1>8. CASE \E f \in {"initial", "final"} : \E t \in DOMAIN Filed[f] : \E a \in Alike(f, t) : OneAlike(f, t, a, Word)
  BY <1>1, <1>3, <1>8
<1>9. QED
  BY <1>2, <1>4, <1>5, <1>6, <1>7, <1>8

\* The numbers around the right one are other numbers.
LEMMA NumbersMarked ==
  ASSUME NEW ask \in AloneAsks, NEW of, NEW answer \in Nat, OneNumber(ask, of, answer),
         \A c \in Nat : Alone(ask, of, c) <=> c = answer
  PROVE  IsMarked(question')
<1>1. PICK D \in kSubset(ChoiceCount - 1, NumberChoices(answer)) : One(ask, of, answer, D)
  BY DEF OneNumber
<1>2. NumberChoices(answer) \subseteq (0..TopNumber) \ {answer}
  BY DEF NumberChoices
<1>3. D \subseteq (0..TopNumber) \ {answer}
  BY <1>2 DEF kSubset
<1>4. IsFiniteSet(D)
  <2>1. IsFiniteSet(0..TopNumber)
    BY QuestionConstants, FS_Interval
  <2>2. QED
    BY <1>3, <2>1, FS_Subset
<1>5. Alone(ask, of, answer) /\ \A c \in D : ~Alone(ask, of, c)
  BY <1>3, QuestionConstants
<1>6. QED
  BY <1>1, <1>4, <1>5, OneMarked

\* The prompts about numbers: a quantity, a neighbour, a gap, a sum or a difference.
LEMMA SumsMarked ==
  ASSUME NumberChoice \/ Count \/ MissingNumber \/ Operation
  PROVE  IsMarked(question')
<1>1. TopNumber \in Nat /\ {"number", "after", "before", "gap", "add", "take"} \subseteq AloneAsks
  BY QuestionConstants DEF AloneAsks
<1>2. CASE \E t \in 0..TopNumber : OneNumber("number", t, t)
  <2>1. PICK t \in 0..TopNumber : OneNumber("number", t, t)
    BY <1>2
  <2>2. \A c \in Nat : Alone("number", t, c) <=> c = t
    BY DEF Alone
  <2>3. QED
    BY <1>1, <2>1, <2>2, NumbersMarked
<1>3. CASE \E t \in 1..TopNumber - 1 : OneNumber("after", t, t + 1)
  <2>1. PICK t \in 1..TopNumber - 1 : OneNumber("after", t, t + 1)
    BY <1>3
  <2>2. \A c \in Nat : Alone("after", t, c) <=> c = t + 1
    BY DEF Alone
  <2>3. t + 1 \in Nat
    BY <1>1
  <2>4. QED
    BY <1>1, <2>1, <2>2, <2>3, NumbersMarked
<1>4. CASE \E t \in 1..TopNumber - 1 : OneNumber("before", t, t - 1)
  <2>1. PICK t \in 1..TopNumber - 1 : OneNumber("before", t, t - 1)
    BY <1>4
  <2>2. t - 1 \in Nat /\ \A c \in Nat : c + 1 = t <=> c = t - 1
    BY <1>1
  <2>3. \A c \in Nat : Alone("before", t, c) <=> c = t - 1
    BY <2>2 DEF Alone
  <2>4. QED
    BY <1>1, <2>1, <2>2, <2>3, NumbersMarked
<1>5. CASE \E start \in 0..TopNumber - 3, gap \in {2, 3} : OneNumber("gap", <<start, gap>>, start + gap - 1)
  <2>1. PICK start \in 0..TopNumber - 3, gap \in {2, 3} : OneNumber("gap", <<start, gap>>, start + gap - 1)
    BY <1>5
  <2>2. start + gap - 1 \in Nat /\ \A c \in Nat : c + 1 = start + gap <=> c = start + gap - 1
    BY <1>1
  <2>3. \A c \in Nat : Alone("gap", <<start, gap>>, c) <=> c + 1 = start + gap
    BY DEF Alone
  <2>4. QED
    BY <1>1, <2>1, <2>2, <2>3, NumbersMarked
<1>6. CASE \E answer \in 1..3 : \E left \in 0..answer : OneNumber("add", <<left, answer - left>>, answer)
  <2>1. PICK answer \in 1..3 : \E left \in 0..answer : OneNumber("add", <<left, answer - left>>, answer)
    BY <1>6
  <2>2. PICK left \in 0..answer : OneNumber("add", <<left, answer - left>>, answer)
    BY <2>1
  <2>3. answer \in Nat /\ left + (answer - left) = answer
    BY <1>1
  <2>4. \A c \in Nat : Alone("add", <<left, answer - left>>, c) <=> c = left + (answer - left)
    BY DEF Alone
  <2>5. QED
    BY <1>1, <2>2, <2>3, <2>4, NumbersMarked
<1>7. CASE \E left \in 1..3 : \E right \in 0..left : OneNumber("take", <<left, right>>, left - right)
  <2>1. PICK left \in 1..3 : \E right \in 0..left : OneNumber("take", <<left, right>>, left - right)
    BY <1>7
  <2>2. PICK right \in 0..left : OneNumber("take", <<left, right>>, left - right)
    BY <2>1
  <2>3. left - right \in Nat /\ \A c \in Nat : c + right = left <=> c = left - right
    BY <1>1
  <2>4. \A c \in Nat : Alone("take", <<left, right>>, c) <=> c + right = left
    BY DEF Alone
  <2>5. QED
    BY <1>1, <2>2, <2>3, <2>4, NumbersMarked
<1>8. CASE \E t \in 0..TopNumber \div 2 : OneNumber("number", t, t)
  <2>1. PICK t \in 0..TopNumber \div 2 : OneNumber("number", t, t)
    BY <1>8
  <2>2. TopNumber \div 2 \in Nat /\ TopNumber \div 2 <= TopNumber
    BY <1>1
  <2>3. t \in 0..TopNumber
    BY <1>1, <2>2
  <2>4. QED
    BY <1>2, <2>1, <2>3
<1>9. QED
  BY <1>2, <1>3, <1>4, <1>5, <1>6, <1>7, <1>8 DEF NumberChoice, Count, MissingNumber, Operation

\* Which side holds more, or fewer, or whether both hold the same.
LEMMA ComparisonsMarked ==
  ASSUME CompareCount PROVE IsMarked(question')
<1> DEFINE Answer(comparison, left, right) ==
               IF comparison = "same" THEN "same"
               ELSE IF (comparison = "more") = (left > right) THEN "left" ELSE "right"
<1>1. PICK comparison \in {"more", "fewer", "same"}, left \in 0..3, right \in 0..3 :
          /\ IF comparison = "same" THEN left = right /\ left > 0 ELSE left # right
          /\ One("compare", <<comparison, left, right>>, Answer(comparison, left, right),
                 {"left", "right", "same", "count again"} \ {Answer(comparison, left, right)})
  BY DEF CompareCount
<1> DEFINE answer == Answer(comparison, left, right)
           of == <<comparison, left, right>>
           D == {"left", "right", "same", "count again"} \ {answer}
<1>2. \A c : Alone("compare", of, c) <=> c = answer
  <2>1. of[1] = comparison /\ of[2] = left /\ of[3] = right
    OBVIOUS
  <2> HIDE DEF of
  <2>2. \A c : Alone("compare", of, c) <=>
                   CASE comparison = "more"  -> c = IF left > right THEN "left" ELSE "right"
                     [] comparison = "fewer" -> c = IF left < right THEN "left" ELSE "right"
                     [] OTHER                -> c = "same"
    BY <2>1 DEF Alone
  <2>3. CASE comparison = "more"
    BY <2>2, <2>3
  <2>4. CASE comparison = "fewer"
    <3>1. left # right
      BY <1>1, <2>4
    <3>2. \A l, r \in 0..3 : l # r => (l < r <=> ~(l > r))
      OBVIOUS
    <3>3. left < right <=> ~(left > right)
      BY <3>1, <3>2
    <3>4. QED
      BY <2>2, <2>4, <3>3
  <2>5. CASE comparison = "same"
    BY <2>2, <2>5
  <2>6. QED
    BY <2>3, <2>4, <2>5
<1>3. IsFiniteSet(D)
  <2>1. IsFiniteSet({"left"}) /\ IsFiniteSet({"right"}) /\ IsFiniteSet({"same"}) /\ IsFiniteSet({"count again"})
    BY FS_Singleton
  <2>2. IsFiniteSet({"left"} \cup {"right"}) /\ IsFiniteSet({"same"} \cup {"count again"})
    BY <2>1, FS_Union
  <2>3. IsFiniteSet(({"left"} \cup {"right"}) \cup ({"same"} \cup {"count again"}))
    BY <2>2, FS_Union
  <2>4. D \subseteq ({"left"} \cup {"right"}) \cup ({"same"} \cup {"count again"})
    OBVIOUS
  <2>5. QED
    BY <2>3, <2>4, FS_Subset
<1>4. answer \notin D /\ One("compare", of, answer, D)
  BY <1>1
<1> HIDE DEF D, answer, of
<1>5. Alone("compare", of, answer) /\ \A c \in D : ~Alone("compare", of, c)
  BY <1>2, <1>4
<1>6. QED
  BY <1>3, <1>4, <1>5, OneMarked DEF AloneAsks

\* A question with several right choices: its choices and its marks.
LEMMA ManyAsked ==
  ASSUME NEW ask, NEW of, NEW V, NEW right \in Seq(V), NEW wrong \in SUBSET V, IsFiniteSet(wrong),
         Many(ask, of, right, wrong)
  PROVE  /\ question' = [ask |-> ask, of |-> of, choices |-> right \o SetToSeq(wrong),
                         correct |-> [i \in 1..Len(right) |-> i], kind |-> "choose", submit |-> TRUE]
         /\ RightThenWrong(right \o SetToSeq(wrong), right, wrong)
BY ChoicesAre DEF Many, Put, MakeChoices

\* The first n of such a question's choices are wanted, and no other is.
LEMMA FirstFit ==
  ASSUME NEW ask, NEW of, NEW c, NEW n \in Nat,
         question' = [ask |-> ask, of |-> of, choices |-> c, correct |-> [i \in 1..n |-> i],
                      kind |-> "choose", submit |-> TRUE],
         DOMAIN c = 1..Len(c), Len(c) \in Nat, n <= Len(c),
         \A i \in 1..n : Wanted(question', i), \A i \in (n + 1)..Len(c) : ~Wanted(question', i)
  PROVE  IsMarked(question')
<1>1. ToSet([i \in 1..n |-> i]) = 1..n
  BY DEF ToSet
<1>2. {i \in 1..Len(c) : Wanted(question', i)} = 1..n
  OBVIOUS
<1>3. QED
  BY <1>1, <1>2 DEF IsMarked

\* The letters of one case.
LEMMA CasesMarked ==
  ASSUME CaseMulti PROVE IsMarked(question')
<1> DEFINE other(case) == IF case = "upper" THEN "lower" ELSE "upper"
<1>1. PICK case \in {"upper", "lower"}, L \in kSubset(ChoiceCount, Letter) : \E R \in SUBSET L :
          Many("case", case, SetToSeq(R \X {case}), (L \ R) \X {other(case)})
  BY DEF CaseMulti
<1>2. PICK R \in SUBSET L : Many("case", case, SetToSeq(R \X {case}), (L \ R) \X {other(case)})
  BY <1>1
<1> DEFINE right == SetToSeq(R \X {case})
           wrong == (L \ R) \X {other(case)}
           V == (R \X {case}) \cup wrong
<1>3. IsFiniteSet(R \X {case}) /\ IsFiniteSet(wrong)
  <2>1. L \subseteq Letter /\ IsFiniteSet(Letter)
    BY QuestionConstants DEF kSubset
  <2>2. IsFiniteSet(R) /\ IsFiniteSet(L \ R)
    BY <2>1, FS_Subset
  <2>3. IsFiniteSet({case}) /\ IsFiniteSet({other(case)})
    BY FS_Singleton
  <2>4. QED
    BY <2>2, <2>3, FS_Product
<1>4. right \in Seq(R \X {case})
  BY <1>3, SetAsList
<1>5. \A i \in 1..Len(right) : right[i] \in R \X {case}
  <2> HIDE DEF right
  <2>1. QED
    BY <1>4, LenProperties
<1>6. (\A i \in 1..Len(right) : Alone("case", case, right[i])) /\ \A c \in wrong : ~Alone("case", case, c)
  <2>1. \A c \in R \X {case} : c[2] = case
    OBVIOUS
  <2>2. \A c \in wrong : c[2] # case
    OBVIOUS
  <2>3. \A c : Alone("case", case, c) <=> c[2] = case
    BY DEF Alone
  <2> HIDE DEF right, wrong
  <2>4. QED
    BY <1>5, <2>1, <2>2, <2>3
<1>7. right \in Seq(V) /\ wrong \in SUBSET V
  <2> HIDE DEF right, wrong
  <2>1. QED
    BY <1>4
<1> HIDE DEF right, wrong, V
<1>8. Many("case", case, right, wrong)
  BY <1>2 DEF right, wrong
<1>9. IsFiniteSet(wrong)
  BY <1>3 DEF wrong
<1>10. QED
  BY <1>6, <1>7, <1>8, <1>9, ManyMarked DEF AloneAsks

\* The same word twice among other words.
LEMMA PairsMarked ==
  ASSUME SamePair PROVE IsMarked(question')
<1>1. PICK t \in Word : \E D \in Sampled(Word, {t}, ChoiceCount - 2) : Many("same", t, <<t, t>>, D)
  BY DEF SamePair
<1>2. PICK D \in Sampled(Word, {t}, ChoiceCount - 2) : Many("same", t, <<t, t>>, D)
  BY <1>1
<1>3. D \in SUBSET Word /\ t \notin D /\ IsFiniteSet(D)
  BY QuestionConstants, SampledIs
<1> DEFINE r == <<t, t>>
           c == r \o SetToSeq(D)
<1>4. r \in Seq(Word) /\ Len(r) = 2 /\ r[1] = t /\ r[2] = t
  OBVIOUS
<1> HIDE DEF r
<1>5. Many("same", t, r, D)
  BY <1>2 DEF r
<1>6. /\ question' = [ask |-> "same", of |-> t, choices |-> c, correct |-> [i \in 1..2 |-> i],
                      kind |-> "choose", submit |-> TRUE]
      /\ RightThenWrong(c, r, D)
  BY <1>3, <1>4, <1>5, ManyAsked
<1>7. /\ DOMAIN c = 1..Len(c) /\ Len(c) \in Nat /\ 2 <= Len(c) /\ c[1] = t /\ c[2] = t
      /\ \A i \in 3..Len(c) : c[i] \in D
      /\ \A i, j \in 3..Len(c) : c[i] = c[j] => i = j
  BY <1>4, <1>6 DEF RightThenWrong
<1> HIDE DEF c
<1>8. \A i : Wanted(question', i) <=> \E j \in (1..Len(c)) \ {i} : c[j] = c[i]
  BY <1>6, <1>7 DEF Wanted, Fits, FiledApart
<1>9. \A i \in 1..2 : Wanted(question', i)
  <2>1. Wanted(question', 1)
    BY <1>7, <1>8
  <2>2. Wanted(question', 2)
    BY <1>7, <1>8
  <2>3. QED
    BY <2>1, <2>2
<1>10. \A i \in 3..Len(c) : ~Wanted(question', i)
  <2> SUFFICES ASSUME NEW i \in 3..Len(c), NEW j \in (1..Len(c)) \ {i}, c[j] = c[i] PROVE FALSE
    BY <1>8
  <2>1. c[i] \in D /\ c[j] # t
    BY <1>3, <1>7
  <2>2. j \in 3..Len(c)
    BY <1>7, <2>1
  <2>3. QED
    BY <1>7, <2>2
<1>11. 2 \in Nat /\ \A i \in (2 + 1)..Len(c) : ~Wanted(question', i)
  BY <1>10
<1>12. QED
  BY <1>6, <1>7, <1>9, <1>11, FirstFit

\* Two words filed alike among words of groups of their own.
LEMMA GroupsMarked ==
  ASSUME NEW f \in Field, PairAlike(f) PROVE IsMarked(question')
<1> DEFINE Bank == DOMAIN Filed[f]
           Tag(w) == Filed[f][w]
<1>1. PICK a \in Bank : \E b \in Alike(f, a) \ {a}, G \in Sampled(Range(Filed[f]), {Tag(a)}, ChoiceCount - 2) :
          \E pick \in [G -> Bank] :
              /\ \A g \in G : Tag(pick[g]) = g
              /\ Many("pair", f, <<a, b>>, Range(pick))
  BY DEF PairAlike
<1>2. PICK b \in Alike(f, a) \ {a}, G \in Sampled(Range(Filed[f]), {Tag(a)}, ChoiceCount - 2) :
          \E pick \in [G -> Bank] :
              /\ \A g \in G : Tag(pick[g]) = g
              /\ Many("pair", f, <<a, b>>, Range(pick))
  BY <1>1
<1>3. PICK pick \in [G -> Bank] :
              /\ \A g \in G : Tag(pick[g]) = g
              /\ Many("pair", f, <<a, b>>, Range(pick))
  BY <1>2
<1>4. IsFiniteSet(Bank) /\ IsFiniteSet(Range(Filed[f]))
  BY Banks
<1>5. Tag(a) \notin G /\ IsFiniteSet(G)
  BY <1>4, SampledIs
<1>6. b \in Bank /\ a # b /\ Tag(b) = Tag(a)
  BY <1>2, AlikeIs
<1>7. \A v, w \in Bank : (v \in Alike(f, w) <=> Tag(v) = Tag(w)) /\ (v \in Alike(f, w) => Heard[f][v] = Heard[f][w])
  BY AlikeIs
<1> DEFINE D == Range(pick)
           r == <<a, b>>
           c == r \o SetToSeq(D)
<1>8. D \in SUBSET Bank /\ IsFiniteSet(D)
  <2>1. D \subseteq Bank
    BY DEF Range
  <2>2. QED
    BY <1>4, <2>1, FS_Subset
<1>9. (\A v \in D : Tag(v) # Tag(a)) /\ \A v, w \in D : Tag(v) = Tag(w) => v = w
  <2>1. \A v \in D : \E g \in G : v = pick[g] /\ Tag(v) = g
    BY <1>3 DEF Range
  <2>2. QED
    BY <1>5, <2>1
<1> HIDE DEF Bank
<1>10. r \in Seq(Bank) /\ Len(r) = 2 /\ r[1] = a /\ r[2] = b
  BY <1>6
<1>11. Many("pair", f, r, D)
  BY <1>3
<1> HIDE DEF r, D
<1>12. /\ question' = [ask |-> "pair", of |-> f, choices |-> c, correct |-> [i \in 1..2 |-> i],
                       kind |-> "choose", submit |-> TRUE]
       /\ RightThenWrong(c, r, D)
  BY <1>8, <1>10, <1>11, ManyAsked
<1>13. /\ DOMAIN c = 1..Len(c) /\ Len(c) \in Nat /\ 2 <= Len(c) /\ c[1] = a /\ c[2] = b
       /\ \A i \in 3..Len(c) : c[i] \in D
       /\ \A i, j \in 3..Len(c) : c[i] = c[j] => i = j
  BY <1>10, <1>12 DEF RightThenWrong
<1> HIDE DEF c
<1>14. \A i : Wanted(question', i) <=>
                 /\ \E j \in (1..Len(c)) \ {i} : Heard[f][c[j]] = Heard[f][c[i]]
                 /\ \E j \in (1..Len(c)) \ {i} : c[j] \in Alike(f, c[i])
  BY <1>12, <1>13 DEF Wanted, Fits, FiledApart
<1>15. \A i \in 1..2 : Wanted(question', i)
  <2>1. a \in Alike(f, b) /\ b \in Alike(f, a) /\ Heard[f][a] = Heard[f][b]
    BY <1>1, <1>6, <1>7 DEF Bank
  <2>2. Wanted(question', 1)
    BY <1>13, <1>14, <2>1
  <2>3. Wanted(question', 2)
    BY <1>13, <1>14, <2>1
  <2>4. QED
    BY <2>2, <2>3
<1>16. \A i \in 3..Len(c) : ~Wanted(question', i)
  <2> SUFFICES ASSUME NEW i \in 3..Len(c), NEW j \in (1..Len(c)) \ {i}, c[j] \in Alike(f, c[i]) PROVE FALSE
    BY <1>14
  <2>1. c[i] \in D /\ c[i] \in Bank
    BY <1>8, <1>13
  <2>2. c[j] \in Bank
    <3>1. j \in 1..2 => c[j] \in {a, b}
      BY <1>13
    <3>2. j \notin 1..2 => c[j] \in D
      BY <1>13
    <3>3. QED
      BY <1>1, <1>6, <1>8, <3>1, <3>2 DEF Bank
  <2>3. Tag(c[j]) = Tag(c[i])
    BY <1>7, <2>1, <2>2
  <2>4. Tag(c[j]) # Tag(a)
    BY <1>9, <2>1, <2>3
  <2> HIDE DEF Tag
  <2>5. j \in 3..Len(c)
    <3>1. c[j] # a /\ c[j] # b
      BY <1>6, <2>4 DEF Tag
    <3>2. QED
      BY <1>13, <3>1
  <2>6. c[j] = c[i]
    BY <1>9, <1>13, <2>1, <2>3, <2>5 DEF Tag
  <2>7. QED
    BY <1>13, <2>5, <2>6
<1>17. 2 \in Nat /\ \A i \in (2 + 1)..Len(c) : ~Wanted(question', i)
  BY <1>16
<1>18. QED
  BY <1>12, <1>13, <1>15, <1>17, FirstFit

\* A remainder does not see a whole turn.
LEMMA RemainderTurns ==
  ASSUME NEW n \in Nat \ {0}, NEW x \in Nat
  PROVE  (x + n) % n = x % n
<1> DEFINE q == x \div n
           r == x % n
           p == (x + n) \div n
           t == (x + n) % n
<1>1. q \in Int /\ r \in 0..(n - 1) /\ x = n * q + r
  OBVIOUS
<1>2. p \in Int /\ t \in 0..(n - 1) /\ x + n = n * p + t
  OBVIOUS
<1> DEFINE d == p - (q + 1)
<1> HIDE DEF q, r, p, t
<1>3. d \in Int /\ n * d = r - t
  <2>1. n * p = n * q + n + r - t
    BY <1>1, <1>2
  <2>2. n * (p - (q + 1)) = n * p - (n * q + n)
    BY <1>1, <1>2
  <2> DEFINE np == n * p
             nq == n * q
  <2>3. np \in Int /\ nq \in Int
    BY <1>1, <1>2
  <2> HIDE DEF np, nq
  <2>4. n * d = np - (nq + n) /\ np = nq + n + r - t
    BY <2>1, <2>2 DEF np, nq
  <2>5. QED
    BY <1>1, <1>2, <2>3, <2>4
<1> HIDE DEF d
<1>4. CASE d >= 1
  <2>1. n * d >= n
    BY <1>3, <1>4
  <2>2. QED
    BY <1>1, <1>2, <1>3, <2>1
<1>5. CASE d <= -1
  <2>1. n * d <= -n
    BY <1>3, <1>5
  <2>2. QED
    BY <1>1, <1>2, <1>3, <2>1
<1>6. CASE d = 0
  <2>1. r = t
    BY <1>1, <1>2, <1>3, <1>6
  <2>2. QED
    BY <2>1 DEF r, t
<1>7. QED
  BY <1>3, <1>4, <1>5, <1>6

\* The symbols of a pattern come round, and two rounds and one more are shown.
RepeatsEvery(at, size) == \A k \in Nat : at[k + size] = at[k]
TwoRounds(at, size) == [k \in 1..2 * size + 1 |-> at[k - 1]]

\* Two rounds of a core and its first symbol go on with its second symbol, and with nothing else.
LEMMA CoreGoesOn ==
  ASSUME NEW V, NEW size \in Nat \ {0}, NEW at \in [Nat -> V], RepeatsEvery(at, size), NEW v \in V
  PROVE  Continues(TwoRounds(at, size), v) <=> v = at[2 * size + 1]
<1> DEFINE shown == TwoRounds(at, size)
           s == Append(shown, v)
           n == 2 * size + 2
<1>1. shown \in Seq(V) /\ Len(shown) = 2 * size + 1 /\ \A k \in 1..2 * size + 1 : shown[k] = at[k - 1]
  <2>1. \A k \in 1..2 * size + 1 : k - 1 \in Nat
    OBVIOUS
  <2>2. shown \in [1..2 * size + 1 -> V] /\ \A k \in 1..2 * size + 1 : shown[k] = at[k - 1]
    BY <2>1 DEF TwoRounds
  <2>3. 2 * size + 1 \in Nat
    OBVIOUS
  <2> HIDE DEF shown
  <2>4. QED
    BY <2>2, <2>3
<1> HIDE DEF shown
<1>2. Len(s) = n /\ s[n] = v /\ \A k \in 1..n - 1 : s[k] = at[k - 1]
  <2> DEFINE m == 2 * size + 1
  <2>1. Len(shown) = m /\ m \in Nat /\ n = m + 1 /\ n - 1 = m
    BY <1>1
  <2>2. \A k \in 1..m : shown[k] = at[k - 1]
    BY <1>1
  <2> HIDE DEF m, n
  <2>3. Len(s) = m + 1 /\ s[m + 1] = v /\ \A k \in 1..m : s[k] = shown[k]
    <3>1. shown \in Seq(V)
      BY <1>1
    <3>2. Len(s) = Len(shown) + 1 /\ s[Len(shown) + 1] = v /\ \A k \in 1..Len(shown) : s[k] = shown[k]
      BY <3>1, AppendProperties
    <3>3. QED
      BY <2>1, <3>2
  <2>4. QED
    BY <2>1, <2>2, <2>3
<1>3. (2 * size + 1) \div 2 = size
  OBVIOUS
<1>4. Continues(shown, v) <=> \E p \in 1..size : \A k \in 1..n - p : s[k] = s[k + p]
  BY <1>1, <1>2, <1>3 DEF Continues, s
<1>5. n \in Nat /\ n = 2 * size + 2
  OBVIOUS
<1> HIDE DEF s, n
<1>6. ASSUME v = at[2 * size + 1]
      PROVE  \E p \in 1..size : \A k \in 1..n - p : s[k] = s[k + p]
  <2>1. \A k \in 1..n : s[k] = at[k - 1]
    <3> TAKE k \in 1..n
    <3>1. CASE k = n
      <4>1. n - 1 = 2 * size + 1
        BY <1>5
      <4>2. QED
        BY <1>2, <1>6, <3>1, <4>1
    <3>2. CASE k # n
      <4>1. k \in 1..n - 1
        BY <1>5, <3>2
      <4>2. QED
        BY <1>2, <4>1
    <3>3. QED
      BY <3>1, <3>2
  <2>2. ASSUME NEW k \in 1..n - size PROVE s[k] = s[k + size]
    <3>1. k \in 1..n /\ k + size \in 1..n /\ k - 1 \in Nat /\ (k - 1) + size = (k + size) - 1
      BY <1>5
    <3>2. s[k] = at[k - 1] /\ s[k + size] = at[(k + size) - 1]
      BY <2>1, <3>1
    <3>3. at[(k - 1) + size] = at[k - 1]
      BY <3>1 DEF RepeatsEvery
    <3>4. QED
      BY <3>1, <3>2, <3>3
  <2>3. QED
    BY <2>2
<1>7. ASSUME NEW p \in 1..size, \A k \in 1..n - p : s[k] = s[k + p]
      PROVE  v = at[2 * size + 1]
  <2> DEFINE m == size + 2 - p
  <2>1. /\ m \in 2..size + 1 /\ m \in 1..n - p /\ m + p = size + 2
        /\ n - p \in 1..n - p /\ (n - p) + p = n /\ n - p \in 1..n - 1
        /\ n - p - 1 = (m - 1) + size /\ m - 1 \in Nat /\ m \in 1..n - 1 /\ size + 2 \in 1..n
    BY <1>5
  <2> HIDE DEF m
  <2>2. v = s[n - p]
    BY <1>2, <1>7, <2>1
  <2>3. s[n - p] = at[(m - 1) + size] /\ at[(m - 1) + size] = at[m - 1]
    BY <1>2, <2>1 DEF RepeatsEvery
  <2>4. s[m] = at[m - 1] /\ s[m] = s[size + 2]
    BY <1>2, <1>7, <2>1
  <2>5. CASE size + 2 \in 1..n - 1
    <3>1. s[size + 2] = at[size + 1] /\ size + 1 \in Nat /\ (size + 1) + size = 2 * size + 1
      BY <1>2, <2>5
    <3>2. at[(size + 1) + size] = at[size + 1]
      BY <3>1 DEF RepeatsEvery
    <3>3. QED
      BY <2>2, <2>3, <2>4, <3>1, <3>2
  <2>6. QED
    <3>1. size + 2 \in 1..n - 1
      BY <1>5
    <3>2. QED
      BY <2>5, <3>1
<1>8. QED
  BY <1>4, <1>6, <1>7 DEF shown

\* The next symbol of a pattern.
LEMMA PatternsMarked ==
  ASSUME PatternNext PROVE IsMarked(question')
<1> DEFINE A(core, symbols, k) == symbols[core[(k % Len(core)) + 1]]
           Shown(core, symbols) == [k \in 1..2 * Len(core) + 1 |-> A(core, symbols, k - 1)]
           Next2(core, symbols) == A(core, symbols, 2 * Len(core) + 1)
<1>1. PICK core \in Pattern : \E symbols \in [ToSet(core) -> Symbol] :
          \E D \in Sampled(Symbol, {Next2(core, symbols)}, ChoiceCount - 1) :
              One("pattern", Shown(core, symbols), Next2(core, symbols), D)
  BY DEF PatternNext
<1>2. PICK symbols \in [ToSet(core) -> Symbol], D \in SUBSET Symbol :
          /\ D \in Sampled(Symbol, {Next2(core, symbols)}, ChoiceCount - 1)
          /\ One("pattern", Shown(core, symbols), Next2(core, symbols), D)
  BY <1>1 DEF Sampled, kSubset
<1> DEFINE size == Len(core)
           at == [k \in Nat |-> A(core, symbols, k)]
           shown == Shown(core, symbols)
           right == Next2(core, symbols)
<1>3. size \in Nat \ {0} /\ DOMAIN core = 1..size
  BY QuestionConstants
<1>4. \A k \in Nat : A(core, symbols, k) \in Symbol
  <2> TAKE k \in Nat
  <2>1. k % size \in 0..size - 1
    BY <1>3
  <2> DEFINE m == k % size
  <2> HIDE DEF m, size
  <2>2. m + 1 \in DOMAIN core
    BY <1>3, <2>1 DEF m
  <2>3. core[m + 1] \in ToSet(core)
    BY <2>2 DEF ToSet
  <2>4. QED
    BY <2>3 DEF m, size
<1>5. RepeatsEvery(at, size)
  <2> SUFFICES ASSUME NEW k \in Nat PROVE at[k + size] = at[k]
    BY DEF RepeatsEvery
  <2>1. (k + size) % size = k % size /\ k + size \in Nat
    <3> HIDE DEF size, at
    <3>1. size \in Nat \ {0}
      BY <1>3
    <3>2. (k + size) % size = k % size
      BY <3>1, RemainderTurns
    <3>3. QED
      BY <3>1, <3>2
  <2>2. QED
    BY <2>1
<1>6. at \in [Nat -> Symbol]
  BY <1>4
<1>7. 2 * size + 1 \in Nat /\ \A k \in 1..2 * size + 1 : k - 1 \in Nat
  BY <1>3
<1>8. shown = TwoRounds(at, size) /\ right = at[2 * size + 1] /\ right \in Symbol
  BY <1>4, <1>7 DEF TwoRounds
<1>9. One("pattern", shown, right, D) /\ D \in Sampled(Symbol, {right}, ChoiceCount - 1)
  BY <1>2
<1> HIDE DEF A, Shown, Next2, size, at, shown, right
<1>10. \A v \in Symbol : Continues(shown, v) <=> v = right
  <2> TAKE v \in Symbol
  <2>1. Continues(shown, v) <=> v = at[2 * size + 1]
    BY <1>3, <1>5, <1>6, <1>8, CoreGoesOn
  <2>2. QED
    BY <1>8, <2>1
<1>11. D \subseteq Symbol /\ right \notin D /\ IsFiniteSet(D)
  BY <1>9, QuestionConstants, SampledIs
<1>12. Alone("pattern", shown, right) /\ \A c \in D : ~Alone("pattern", shown, c)
  BY <1>8, <1>10, <1>11 DEF Alone
<1>13. QED
  BY <1>9, <1>11, <1>12, OneMarked DEF AloneAsks

\* The answers of a scenario are spelled apart, and the first one is right.
LEMMA ScenariosMarked ==
  ASSUME ScenarioChoice PROVE IsMarked(question')
<1> DEFINE Options(s) == SubSeq(s, 1, ChoiceCount)
           C(s) == [i \in 1..ChoiceCount |-> Clean[Options(s)[i]]]
<1>1. PICK s \in Scenario :
          /\ Cardinality(ToSet(Options(s))) = ChoiceCount
          /\ Put("scene", s, [choices |-> C(s), correct |-> <<1>>], "choose", FALSE)
  BY DEF ScenarioChoice
<1> DEFINE options == Options(s)
           c == C(s)
           n == ChoiceCount
<1>2. n \in Nat \ {0} /\ s \in Seq(DOMAIN Clean) /\ n <= Len(s) /\ Len(s) \in Nat
  BY QuestionConstants
<1>3. DOMAIN options = 1..n /\ \A i \in 1..n : options[i] = s[i]
  BY <1>2
<1>4. options = [i \in 1..n |-> s[i]]
  <2>1. options = [i \in 1..n |-> options[i]]
    BY <1>2
  <2> HIDE DEF options
  <2>2. QED
    BY <1>3, <2>1
<1> HIDE DEF options
<1>5. c = [i \in 1..n |-> Clean[s[i]]]
  BY <1>3 DEF options
<1>6. \A i, j \in 1..n : s[i] = s[j] => i = j
  <2>1. options \in Surjection(1..n, ToSet(options))
    BY <1>4 DEF Surjection, ToSet
  <2>2. IsFiniteSet(1..n) /\ Cardinality(1..n) = n
    BY <1>2, FS_Interval
  <2>3. Cardinality(ToSet(options)) = n
    BY <1>1 DEF options
  <2>4. options \in Injection(1..n, ToSet(options))
    BY <2>1, <2>2, <2>3, FS_SurjSameCardinalityImpliesInj
  <2>5. QED
    BY <1>3, <2>4 DEF Injection, IsInjective
<1>7. \A i \in 1..n : s[i] = s[1] <=> i = 1
  BY <1>2, <1>6
<1>8. /\ question'.ask = "scene" /\ question'.of = s /\ question'.choices = c
      /\ question'.correct = <<1>> /\ question'.kind = "choose" /\ question'.submit = FALSE
  <2>1. question' = [ask |-> "scene", of |-> s, choices |-> c, correct |-> <<1>>,
                     kind |-> "choose", submit |-> FALSE \/ Len(<<1>>) > 1]
    BY <1>1 DEF Put
  <2>2. (FALSE \/ Len(<<1>>) > 1) = FALSE
    OBVIOUS
  <2> HIDE DEF c
  <2>3. QED
    BY <2>1, <2>2
<1>9. \A i : Wanted(question', i) <=> c[i] = Clean[s[1]] /\ s[i] = s[1]
  BY <1>8 DEF Wanted, Fits, FiledApart
<1>10. DOMAIN c = 1..n /\ \A i \in 1..n : c[i] = Clean[s[i]]
  BY <1>5
<1> HIDE DEF c, n
<1>11. {i \in 1..n : Wanted(question', i)} = {1}
  BY <1>2, <1>7, <1>9, <1>10
<1>12. ToSet(<<1>>) = {1}
  BY DEF ToSet
<1>13. QED
  BY <1>8, <1>10, <1>11, <1>12 DEF IsMarked

\* A sorting question pairs each item with its kind, an ordering one lists the steps as they are.
LEMMA TasksMarked ==
  ASSUME CategorySort \/ OrderedSequence PROVE IsMarked(question')
<1>1. CASE CategorySort
  <2> DEFINE Marks(items) == [i \in 1..Len(items) |-> <<i, Filed["category"][items[i]]>>]
             Bank == DOMAIN Filed["category"]
  <2>1. PICK G, P : P \in kSubset(4, Bank) /\
            Put("sort", G, [choices |-> SetToSeq(P), correct |-> Marks(SetToSeq(P))], "sort", TRUE)
    BY <1>1 DEF CategorySort
  <2> DEFINE items == SetToSeq(P)
             marks == Marks(items)
  <2>2. P \subseteq Bank /\ IsFiniteSet(P)
    <3>1. "category" \in Field
      BY DEF Field
    <3>2. IsFiniteSet(Bank)
      BY <3>1, Banks
    <3> HIDE DEF Bank
    <3>3. P \subseteq Bank
      BY <2>1 DEF kSubset
    <3>4. QED
      BY <3>2, <3>3, FS_Subset
  <2>3. DOMAIN items = 1..Len(items) /\ \A i \in DOMAIN items : items[i] \in Bank
    BY <2>2, SetAsList, LenProperties
  <2>4. question' = [ask |-> "sort", of |-> G, choices |-> items, correct |-> marks, kind |-> "sort", submit |-> TRUE]
    BY <2>1 DEF Put
  <2>5. marks = [i \in DOMAIN items |-> <<i, Heard["category"][items[i]]>>]
    BY <2>3, BanksAreTrue
  <2> HIDE DEF items, marks
  <2>6. QED
    BY <2>4, <2>5 DEF IsMarked
<1>2. CASE OrderedSequence
  <2> DEFINE steps == [i \in 1..ChoiceCount |-> i]
  <2>1. ChoiceCount \in Nat
    BY QuestionConstants
  <2>2. [i \in 1..Len(steps) |-> i] = steps
    BY <2>1
  <2>3. question' = [ask |-> "order", of |-> ChoiceCount, choices |-> steps \o <<>>,
                     correct |-> [i \in 1..Len(steps) |-> i], kind |-> "order", submit |-> TRUE]
    BY <1>2 DEF OrderedSequence, Put, MakeChoices
  <2> HIDE DEF steps
  <2>4. question'.kind = "order" /\ question'.submit = TRUE /\ question'.of = ChoiceCount /\ question'.correct = steps
    BY <2>2, <2>3
  <2>5. QED
    BY <2>4 DEF IsMarked, steps
<1>3. QED
  BY <1>1, <1>2

-----------------------------------------------------------------------------
(* The judge *)

\* Every generator marks the choices its prompt wants.
LEMMA AskingMarks ==
  ASSUME GenerateQuestion PROVE IsMarked(question')
<1>1. CASE Blend
  <2>1. CASE HearWord
    BY <2>1, WordsMarked
  <2>2. CASE OrderedSequence
    BY <2>2, TasksMarked
  <2>3. QED
    BY <1>1, <2>1, <2>2 DEF Blend, OrderedSequence
<1>2. CASE LetterSingle \/ LetterMulti \/ AlphabetGrid \/ CaseMatch \/ SoundLetter
  BY <1>2, LettersMarked
<1>3. CASE WordInSentence \/ PictureWord \/ SightWord \/ RhymeOne \/ InitialSound \/ VowelWord
  BY <1>3, WordsMarked DEF SightWord
<1>4. CASE RhymeTwo \/ SoundCompare
  <2>1. "group" \in Field /\ {"initial", "final"} \subseteq Field
    BY DEF Field
  <2>2. CASE RhymeTwo
    BY <2>1, <2>2, GroupsMarked DEF RhymeTwo
  <2>3. CASE SoundCompare
    <3>1. \/ \E f \in {"initial", "final"} : PairAlike(f)
          \/ \E f \in {"initial", "final"} : \E t \in DOMAIN Filed[f] : \E a \in Alike(f, t) : OneAlike(f, t, a, Word)
      BY <2>3 DEF SoundCompare
    <3>2. QED
      BY <2>1, <3>1, GroupsMarked, WordsMarked
  <2>4. QED
    BY <1>4, <2>2, <2>3
<1>5. CASE NumberChoice \/ Count \/ MissingNumber \/ Operation
  BY <1>5, SumsMarked
<1>6. CASE CaseMulti \/ SamePair \/ ScenarioChoice \/ CategorySort \/ OrderedSequence \/ CompareCount \/ PatternNext
  BY <1>6, CasesMarked, PairsMarked, ScenariosMarked, TasksMarked, ComparisonsMarked, PatternsMarked
<1>7. QED
  BY <1>1, <1>2, <1>3, <1>4, <1>5, <1>6 DEF GenerateQuestion

\* What a child hands in names each choice at most once.
LEMMA ResponsesAre ==
  ASSUME question.kind # "sort", NEW response \in Responses
  PROVE  /\ Len(response) \in Nat \ {0} /\ DOMAIN response = 1..Len(response)
         /\ IsInjective(response)
<1> DEFINE ids == DOMAIN question.choices
<1>1. CASE response \in {s \in SeqOf(ids, ChoiceCount) : s # <<>> /\ IsInjective(s)}
  <2>1. PICK m \in 0..ChoiceCount : response \in [1..m -> ids]
    BY <1>1 DEF SeqOf
  <2>2. response # <<>> /\ IsInjective(response)
    BY <1>1
  <2>3. m \in Nat
    BY <2>1, QuestionConstants
  <2>4. response \in Seq(ids) /\ Len(response) = m
    BY <2>1, <2>3
  <2>5. m # 0
    BY <2>2, <2>4, EmptySeq
  <2>6. QED
    BY <2>1, <2>2, <2>3, <2>4, <2>5
<1>2. CASE \E i \in ids : response = Normalized(question.choices[i])
  <2>1. \E x : response = <<x>>
    BY <1>2 DEF Normalized
  <2>2. PICK x : response = <<x>>
    BY <2>1
  <2>3. QED
    BY <2>2 DEF IsInjective
<1>3. QED
  BY <1>1, <1>2 DEF Responses

\* The judge accepts what the prompt asks for.
LEMMA JudgedRight ==
  ASSUME IsMarked(question), NEW response \in Responses
  PROVE  IsCorrect(response) <=> DidAsAsked(response)
<1>1. CASE question.kind = "order"
  BY <1>1 DEF IsMarked, IsCorrect, DidAsAsked
<1>2. CASE question.kind = "sort"
  <2> DEFINE ids == DOMAIN question.choices
             marks == [i \in ids |-> <<i, Heard["category"][question.choices[i]]>>]
  <2>1. PICK category \in [ids -> question.of] : response = [i \in ids |-> <<i, category[i]>>]
    BY <1>2 DEF Responses
  <2>2. question.submit /\ question.correct = marks
    BY <1>2 DEF IsMarked
  <2>3. IsCorrect(response) <=> ToSet(response) = ToSet(marks) /\ IsInjective(response)
    BY <1>2, <2>2 DEF IsCorrect
  <2>4. DidAsAsked(response) <=> \A i \in ids : category[i] = Heard["category"][question.choices[i]]
    BY <1>2, <2>1 DEF DidAsAsked
  <2>5. IsInjective(response)
    BY <2>1 DEF IsInjective
  <2>6. ToSet(response) = {<<i, category[i]>> : i \in ids}
    BY <2>1 DEF ToSet
  <2>7. ToSet(marks) = {<<i, Heard["category"][question.choices[i]]>> : i \in ids}
    BY DEF ToSet
  <2> HIDE DEF ids, marks
  <2>8. ASSUME ToSet(response) = ToSet(marks), NEW i \in ids PROVE category[i] = Heard["category"][question.choices[i]]
    <3>1. PICK j \in ids : <<i, category[i]>> = <<j, Heard["category"][question.choices[j]]>>
      BY <2>6, <2>7, <2>8
    <3>2. QED
      BY <3>1
  <2>9. (\A i \in ids : category[i] = Heard["category"][question.choices[i]]) => ToSet(response) = ToSet(marks)
    BY <2>6, <2>7
  <2>10. QED
    BY <2>3, <2>4, <2>5, <2>8, <2>9
<1>3. CASE question.kind = "choose"
  <2>1. ToSet(question.correct) = {i \in DOMAIN question.choices : Fits(question, i) /\ ~FiledApart(question, i)}
    BY <1>3 DEF IsMarked, Wanted
  <2>2. DidAsAsked(response) <=> ToSet(response) = ToSet(question.correct)
    BY <1>3, <2>1 DEF DidAsAsked
  <2>3. Len(response) \in Nat \ {0} /\ DOMAIN response = 1..Len(response) /\ IsInjective(response)
    BY <1>3, ResponsesAre
  <2>4. CASE question.submit
    BY <1>3, <2>2, <2>3, <2>4 DEF IsCorrect
  <2>5. CASE ~question.submit
    <3>1. question.correct = <<1>> /\ ToSet(<<1>>) = {1} /\ <<1>>[1] = 1
      BY <1>3, <2>5 DEF IsMarked, ToSet
    <3>2. IsCorrect(response) <=> Len(response) = 1 /\ response[1] = 1
      BY <1>3, <2>5, <3>1 DEF IsCorrect
    <3>3. ASSUME Len(response) = 1, response[1] = 1 PROVE ToSet(response) = {1}
      BY <2>3, <3>3 DEF ToSet
    <3>4. ASSUME ToSet(response) = {1} PROVE Len(response) = 1 /\ response[1] = 1
      <4>1. \A i \in 1..Len(response) : response[i] = 1
        BY <2>3, <3>4 DEF ToSet
      <4>2. \A i, j \in 1..Len(response) : i = j
        BY <2>3, <4>1 DEF IsInjective
      <4> DEFINE m == Len(response)
      <4> HIDE DEF m
      <4>3. m \in Nat \ {0} /\ \A i, j \in 1..m : i = j
        BY <2>3, <4>2 DEF m
      <4>4. m = 1
        <5>1. 1 \in 1..m /\ m \in 1..m
          BY <4>3
        <5>2. QED
          BY <4>3, <5>1
      <4>5. QED
        BY <4>1, <4>4 DEF m
    <3>5. QED
      BY <2>2, <3>1, <3>2, <3>3, <3>4
  <2>6. QED
    BY <2>4, <2>5
<1>4. QED
  BY <1>1, <1>2, <1>3 DEF IsMarked

\* Judging a response keeps the marks and the count of tries.
LEMMA EvaluateJudges ==
  ASSUME QuestionInv, Evaluate PROVE QuestionInv'
<1>1. IsMarked(question) /\ question' = question /\ question # <<>> /\ tries' = tries + 1 /\ tries \in Nat
  BY DEF QuestionInv, Evaluate
<1>2. PICK response \in Responses :
          LET correct == IsCorrect(response)
              reveal == ~correct /\ tries + 1 >= MaxAttempts
          IN  verdict' = [correct |-> correct, retry |-> ~correct /\ ~reveal, reveal |-> reveal,
                          picked |-> response]
  BY DEF Evaluate
<1> DEFINE correct == IsCorrect(response)
           last == tries + 1 >= MaxAttempts
<1>3. verdict' = [correct |-> correct, retry |-> ~correct /\ ~(~correct /\ last), reveal |-> ~correct /\ last,
                  picked |-> response]
  BY <1>2
<1>4. correct \in BOOLEAN
  BY DEF IsCorrect
<1>5. correct <=> DidAsAsked(response)
  BY <1>1, JudgedRight
<1>6. (DidAsAsked(response))' <=> DidAsAsked(response)
  BY <1>1 DEF DidAsAsked, Fits, FiledApart, Continues
<1>7. MaxAttempts \in Nat \ {0}
  BY QuestionConstants
<1>8. tries < MaxAttempts
  <2>1. CASE tries = 0
    BY <1>7, <2>1
  <2>2. CASE tries # 0
    <3>1. tries > 0 /\ verdict.retry
      BY <1>1, <2>2 DEF Evaluate
    <3>2. QED
      BY <3>1 DEF QuestionInv, JudgedSoFar
  <2>3. QED
    BY <2>1, <2>2
<1>9. (last => tries' = MaxAttempts) /\ (~last => tries' < MaxAttempts) /\ tries' \in Nat
  BY <1>1, <1>7, <1>8
<1> HIDE DEF correct, last
<1>10. /\ verdict'.correct = correct /\ verdict'.picked = response
       /\ verdict'.retry = (~correct /\ ~(~correct /\ last)) /\ verdict'.reveal = (~correct /\ last)
  BY <1>3
<1>11. JudgedSoFar'
  <2>1. verdict'.retry \in BOOLEAN /\ verdict'.reveal \in BOOLEAN
    BY <1>10
  <2>2. (verdict'.reveal => tries' = MaxAttempts) /\ (verdict'.retry => tries' < MaxAttempts)
    BY <1>9, <1>10
  <2>3. verdict'.correct <=> (DidAsAsked(verdict.picked))'
    BY <1>1, <1>5, <1>6, <1>10 DEF DidAsAsked, Fits, FiledApart, Continues
  <2>4. QED
    BY <1>4, <1>10, <2>1, <2>2, <2>3 DEF JudgedSoFar
<1>12. IsMarked(question')
  BY <1>1
<1>13. QED
  BY <1>1, <1>9, <1>11, <1>12 DEF QuestionInv

\* Whatever the banks file and however their words sound, a response the judge accepts is right by the
\* prompt on the screen, one it refuses is wrong or holds a choice that the bank files apart from the
\* answer, and the answer is revealed only after the last try (JudgedByThePrompt).
THEOREM JudgedFairly == QuestionSpec => []JudgedByThePrompt
<1>1. QuestionInit => QuestionInv
  BY DEF QuestionInit, QuestionInv
<1>2. QuestionInv /\ [QuestionNext]_questionVars => QuestionInv'
  <2> SUFFICES ASSUME QuestionInv, [QuestionNext]_questionVars PROVE QuestionInv'
    OBVIOUS
  <2>1. CASE GenerateQuestion
    <3>1. question = <<>> /\ tries' = tries
      BY <2>1 DEF GenerateQuestion
    <3>2. tries = 0
      BY <3>1 DEF QuestionInv
    <3>3. IsMarked(question')
      BY <2>1, AskingMarks
    <3>4. QED
      BY <3>1, <3>2, <3>3 DEF QuestionInv
  <2>2. CASE Evaluate
    BY <2>2, EvaluateJudges
  <2>3. CASE Advance
    BY <2>3 DEF Advance, QuestionInv
  <2>4. CASE UNCHANGED questionVars
    <3>1. question' = question /\ tries' = tries /\ verdict' = verdict
      BY <2>4 DEF questionVars
    <3>2. (DidAsAsked(verdict.picked))' <=> DidAsAsked(verdict.picked)
      BY <3>1 DEF DidAsAsked, Fits, FiledApart, Continues
    <3>3. JudgedSoFar => JudgedSoFar'
      BY <3>1, <3>2 DEF JudgedSoFar
    <3>4. QED
      BY <3>1, <3>3 DEF QuestionInv
  <2>5. QED
    BY <2>1, <2>2, <2>3, <2>4 DEF QuestionNext
<1>3. QuestionInv => JudgedByThePrompt
  BY DEF QuestionInv, JudgedSoFar, JudgedByThePrompt
<1>4. QED
  BY <1>1, <1>2, <1>3, PTL DEF QuestionSpec

(***************************************************************************)
(* The record of the learning area                                         *)
(***************************************************************************)

Attempt == [session : Nat, learner : Learner, plan : PlanId \cup {NoPlan}, question : Nat, number : Nat,
            correct : BOOLEAN, lesson : Lesson]
SessionRecord == [id : Nat, learner : Learner, plan : PlanId \cup {NoPlan}, questions : Seq(Lesson), index : Nat,
                  current : Nat, attempts : Seq(Attempt)]
PlanRecord == [owner : Learner, lessons : Outlines, repetitions : Repetitions, enabled : BOOLEAN, archived : BOOLEAN]

ProgressTyped ==
  /\ learners \in [Learner -> {"none", "active", "archived"}]
  /\ plans \in [PlanId -> PlanRecord \cup {Unknown}]
  /\ attempts \in Seq(Attempt) /\ Len(attempts) <= HistoryLimit
  /\ sessions \in Seq(SessionRecord) /\ Len(sessions) <= SessionLimit
  /\ (playing = <<>> \/ playing \in SessionRecord) /\ started \in 0..MaxSessions

\* The sessions that are saved, and the one on the screen.
Live == ToSet(sessions) \cup {s \in {playing} : playing # <<>>}

\* Whatever is kept belongs to a learner who is there, and to a plan of that learner.
AllOwned == OwnersExist(plans) /\ \A x \in ToSet(attempts) \cup Live : IsOwned(x)
KeysUnique == NumbersAreUnique(attempts) /\ SessionsAreUnique(sessions)
Begun == (\A a \in ToSet(attempts) : a.session <= started) /\ \A s \in Live : s.id <= started

\* What the answers of a session have to do with the place it is at.
FitsSession(a, s) ==
  /\ a.session = s.id /\ a.learner = s.learner /\ a.plan = s.plan
  /\ a.question \in 1..Len(s.questions) /\ a.lesson = s.questions[a.question]
  /\ a.question <= s.index + 1
  /\ a.question = s.index + 1 => ~a.correct /\ a.number \in 1..s.current
Closes(a) == a.correct \/ a.number = MaxTries
AsSubmitted(s) ==
  /\ s.current < MaxTries
  /\ \A a \in ToSet(s.attempts) : FitsSession(a, s)
  /\ \A q \in 1..s.index : \E a \in ToSet(s.attempts) : a.question = q /\ Closes(a)
  /\ \A n \in 1..s.current : \E a \in ToSet(s.attempts) : a.question = s.index + 1 /\ a.number = n

\* What the history has of a session is the end of what the session has itself.
Others(id) == {a \in Attempt : a.session # id}
Told(s, history) == \E u \in Seq(Attempt) : s.attempts = u \o Excluding(history, Others(s.id))

LiveFits == \A s \in Live : AsSubmitted(s) /\ Told(s, attempts)
FirstsKnown == \A a \in ToSet(attempts) : a.number = 1 => <<a.session, a.question, a.correct>> \in firstAnswers

ProgressInv ==
  /\ ProgressTyped /\ AllOwned /\ KeysUnique /\ Begun /\ LiveFits /\ FirstsKnown /\ readOnly = FALSE

\* The list s ends with l.
IsEnd(l, s, V) == \E u \in Seq(V) : s = u \o l

\* The last n of a list are its end.
LEMMA LastOfIs ==
  ASSUME NEW V, NEW s \in Seq(V), NEW n \in Nat
  PROVE  /\ LastOf(s, n) \in Seq(V) /\ Len(LastOf(s, n)) <= n /\ ToSet(LastOf(s, n)) \subseteq ToSet(s)
         /\ Len(s) <= n => LastOf(s, n) = s
         /\ IsEnd(LastOf(s, n), s, V)
         /\ \E m \in 0..Len(s) : /\ Len(LastOf(s, n)) = Len(s) - m
                                 /\ \A i \in 1..(Len(s) - m) : LastOf(s, n)[i] = s[i + m]
<1> DEFINE N == Len(s)
<1>0. N \in Nat /\ DOMAIN s = 1..N /\ \A i \in 1..N : s[i] \in V
  OBVIOUS
<1>1. CASE Len(s) <= n
  <2>1. LastOf(s, n) = s /\ IsEnd(s, s, V)
    <3>1. <<>> \in Seq(V) /\ s = <<>> \o s
      OBVIOUS
    <3>2. QED
      BY <1>1, <3>1 DEF LastOf, IsEnd
  <2>2. 0 \in 0..N /\ Len(s) = N - 0 /\ \A i \in 1..(N - 0) : s[i] = s[i + 0]
    BY <1>0
  <2> HIDE DEF N
  <2>3. \E m \in 0..N : /\ Len(LastOf(s, n)) = N - m
                        /\ \A i \in 1..(N - m) : LastOf(s, n)[i] = s[i + m]
    BY <2>1, <2>2
  <2>4. QED
    BY <1>1, <2>1, <2>3 DEF N
<1>2. CASE ~(Len(s) <= n)
  <2> DEFINE m == N - n
             t == LastOf(s, n)
             u == [i \in 1..m |-> s[i]]
  <2>1. m \in 1..N /\ t = SubSeq(s, m + 1, N) /\ n \in 0..N
    BY <1>0, <1>2 DEF LastOf
  <2>2. t \in Seq(V) /\ Len(t) = n /\ \A i \in 1..n : t[i] = s[i + m]
    <3>1. m + 1 \in Int /\ N \in Int /\ N - (m + 1) + 1 = n
      BY <1>0, <2>1
    <3>2. t = [i \in 1..n |-> s[i + m]]
      BY <1>0, <2>1, <3>1
    <3>3. \A i \in 1..n : i + m \in 1..N
      BY <1>0, <2>1
    <3>4. QED
      BY <1>0, <2>1, <3>2, <3>3
  <2>3. u \in Seq(V) /\ Len(u) = m
    BY <1>0, <2>1
  <2>4. s = u \o t
    <3>1. u \o t \in Seq(V) /\ Len(u \o t) = N
      <4>1. u \o t \in Seq(V) /\ Len(u \o t) = Len(u) + Len(t)
        <5>1. u \in Seq(V) /\ t \in Seq(V)
          BY <2>2, <2>3
        <5> HIDE DEF u, t, m, N
        <5>2. QED
          BY <5>1, ConcatProperties
      <4>2. m + n = N
        BY <1>0, <2>1
      <4> HIDE DEF u, t, m, N
      <4>3. QED
        BY <2>2, <2>3, <4>1, <4>2
    <3>2. ASSUME NEW i \in 1..N PROVE s[i] = (u \o t)[i]
      <4>1. CASE i <= m
        BY <1>0, <2>1, <2>2, <2>3, <4>1
      <4>2. CASE i > m
        <5>1. i - m \in 1..n /\ (i - m) + m = i
          BY <1>0, <2>1, <4>2
        <5>2. (u \o t)[i] = t[i - m]
          BY <1>0, <2>1, <2>2, <2>3, <4>2, <5>1
        <5>3. QED
          BY <2>2, <5>1, <5>2
      <4>3. QED
        BY <1>0, <2>1, <4>1, <4>2
    <3>3. QED
      BY <3>1, <3>2, SeqEqual
  <2>5. ToSet(t) \subseteq ToSet(s)
    <3>1. \A i \in 1..n : i + m \in 1..N /\ t[i] = s[i + m]
      BY <1>0, <2>1, <2>2
    <3>2. DOMAIN t = 1..n
      BY <2>2
    <3> HIDE DEF t, m
    <3>3. QED
      BY <1>0, <3>1, <3>2 DEF ToSet
  <2>6. m \in 0..N /\ Len(t) = N - m /\ \A i \in 1..(N - m) : t[i] = s[i + m]
    <3>1. N - m = n /\ m \in 0..N
      BY <1>0, <2>1
    <3> HIDE DEF m, t
    <3>2. QED
      BY <2>2, <3>1
  <2> HIDE DEF t, m, u
  <2>7. \E k \in 0..N : Len(t) = N - k /\ \A i \in 1..(N - k) : t[i] = s[i + k]
    BY <2>6
  <2>8. QED
    <3> HIDE DEF N
    <3>1. t = LastOf(s, n) /\ Len(t) <= n
      BY <2>2 DEF t
    <3>2. IsEnd(t, s, V)
      BY <2>3, <2>4 DEF IsEnd
    <3>3. QED
      BY <1>2, <2>2, <2>5, <2>7, <3>1, <3>2 DEF N
<1>3. QED
  BY <1>1, <1>2

\* A suffix, place by place.
LEMMA SuffixOf ==
  ASSUME NEW V, NEW s \in Seq(V), NEW u \in Seq(V), NEW t, t = u \o s
  PROVE  IsSuffix(s, t)
<1> DEFINE m == Len(s)
           k == Len(u)
<1>1. /\ t \in Seq(V) /\ Len(t) = k + m /\ m \in Nat /\ k \in Nat
      /\ \A i \in 1..m : t[k + i] = s[i]
  OBVIOUS
<1>2. /\ Reverse(s) = [i \in 1..m |-> s[(m - i) + 1]] /\ Reverse(t) = [i \in 1..(k + m) |-> t[((k + m) - i) + 1]]
  BY <1>1 DEF Reverse
<1>3. /\ Reverse(s) \in Seq(V) /\ Reverse(t) \in Seq(V)
      /\ Len(Reverse(s)) = m /\ Len(Reverse(t)) = k + m
  <2>1. \A i \in 1..m : s[(m - i) + 1] \in V
    BY <1>1
  <2>2. \A i \in 1..(k + m) : t[((k + m) - i) + 1] \in V
    BY <1>1
  <2> HIDE DEF m, k
  <2>3. QED
    BY <1>1, <1>2, <2>1, <2>2
<1>4. \A i \in 1..m : Reverse(s)[i] = Reverse(t)[i]
  <2> TAKE i \in 1..m
  <2>1. (m - i) + 1 \in 1..m /\ ((k + m) - i) + 1 = k + ((m - i) + 1) /\ i \in 1..(k + m)
    BY <1>1
  <2>2. t[k + ((m - i) + 1)] = s[(m - i) + 1]
    BY <1>1, <2>1
  <2> HIDE DEF m, k
  <2>3. QED
    BY <1>2, <2>1, <2>2
<1>5. SubSeq(Reverse(s), 1, m) = [i \in 1..m |-> Reverse(s)[i]] /\ SubSeq(Reverse(t), 1, m) = [i \in 1..m |-> Reverse(t)[i]]
  <2> DEFINE a == Reverse(s)
             b == Reverse(t)
  <2>1. a \in Seq(V) /\ b \in Seq(V) /\ Len(a) = m /\ Len(b) = k + m
    BY <1>3
  <2> HIDE DEF a, b, m, k
  <2>2. SubSeq(a, 1, m) = [i \in 1..m |-> a[i]] /\ SubSeq(b, 1, m) = [i \in 1..m |-> b[i]]
    BY <1>1, <2>1
  <2>3. QED
    BY <2>2 DEF a, b
<1>6. m <= k + m
  BY <1>1
<1> HIDE DEF m, k
<1>7. QED
  BY <1>3, <1>4, <1>5, <1>6 DEF IsSuffix, IsPrefix

\* The end of a session is still its end when the history loses its beginning.
LEMMA ToldSuffix ==
  ASSUME NEW s \in SessionRecord, NEW u \in Seq(Attempt), NEW k \in Seq(Attempt), Told(s, u \o k)
  PROVE  Told(s, k)
<1> DEFINE O == Others(s.id)
<1>1. PICK w \in Seq(Attempt) : s.attempts = w \o Excluding(u \o k, O)
  BY DEF Told
<1>2. Excluding(u \o k, O) = Excluding(u, O) \o Excluding(k, O)
  BY ExcludingConcat
<1>3. Excluding(u, O) \in Seq(Attempt) /\ Excluding(k, O) \in Seq(Attempt)
  BY ExcludingKeeps
<1>4. w \o Excluding(u, O) \in Seq(Attempt) /\ s.attempts = (w \o Excluding(u, O)) \o Excluding(k, O)
  <2> DEFINE a == Excluding(u, O)
             b == Excluding(k, O)
  <2>1. a \in Seq(Attempt) /\ b \in Seq(Attempt) /\ s.attempts = w \o (a \o b)
    BY <1>1, <1>2, <1>3
  <2> HIDE DEF a, b
  <2>2. w \o a \in Seq(Attempt)
    BY <2>1, ConcatProperties
  <2>3. (w \o a) \o b = w \o (a \o b)
    BY <2>1, ConcatAssociative
  <2>4. QED
    BY <2>1, <2>2, <2>3 DEF a, b
<1>5. QED
  BY <1>4 DEF Told

\* What the history has of a session the session has.
LEMMA ToldIsHeld ==
  ASSUME NEW s \in SessionRecord, NEW h \in Seq(Attempt), Told(s, h), NEW a \in ToSet(h), a.session = s.id
  PROVE  a \in ToSet(s.attempts)
<1> DEFINE O == Others(s.id)
           e == Excluding(h, O)
<1>1. PICK w \in Seq(Attempt) : s.attempts = w \o e
  BY DEF Told
<1>2. e \in Seq(Attempt) /\ ToSet(e) = ToSet(h) \ O
  BY ExcludingKeeps
<1>3. ToSet(w \o e) = ToSet(w) \cup ToSet(e)
  BY <1>2, ConcatNew
<1>4. a \notin O
  BY DEF Others
<1>5. QED
  BY <1>1, <1>2, <1>3, <1>4

\* Dropping what is not of the session changes nothing for it.
LEMMA ToldWithout ==
  ASSUME NEW s \in SessionRecord, NEW h \in Seq(Attempt), Told(s, h), NEW D,
         \A a \in ToSet(h) : a.session = s.id => a \notin D
  PROVE  Told(s, Excluding(h, D))
<1> DEFINE O == Others(s.id)
<1>1. Excluding(Excluding(h, D), O) = Excluding(h, D \cup O)
  BY ExcludingTwice
<1>2. \A a \in ToSet(h) : a \in D \cup O <=> a \in O
  <2>1. ToSet(h) \subseteq Attempt
    BY DEF ToSet
  <2>2. QED
    BY <2>1 DEF Others
<1>3. Excluding(h, D \cup O) = Excluding(h, O)
  BY <1>2, ExcludingSame
<1>4. QED
  BY <1>1, <1>3 DEF Told

\* A new answer is the last of its session, and none of another.
LEMMA ToldAppend ==
  ASSUME NEW s \in SessionRecord, NEW h \in Seq(Attempt), Told(s, h), NEW a \in Attempt
  PROVE  /\ a.session # s.id => Told(s, Append(h, a))
         /\ \A t \in SessionRecord :
                a.session = s.id /\ t.id = s.id /\ t.attempts = Append(s.attempts, a) => Told(t, Append(h, a))
<1> DEFINE O == Others(s.id)
           e == Excluding(h, O)
<1> HIDE DEF O
<1>1. Excluding(Append(h, a), O) = IF a \in O THEN e ELSE Append(e, a)
  BY ExcludingLast
<1> USE DEF O
<1>2. a \in O <=> a.session # s.id
  BY DEF Others
<1>3. PICK w \in Seq(Attempt) : s.attempts = w \o e
  BY DEF Told
<1>4. e \in Seq(Attempt)
  BY ExcludingKeeps
<1>5. w \o Append(e, a) = Append(w \o e, a)
  BY <1>4, ConcatLast
<1>6. a.session # s.id => Told(s, Append(h, a))
  BY <1>1, <1>2, <1>3 DEF Told
<1>7. ASSUME NEW t \in SessionRecord, a.session = s.id, t.id = s.id, t.attempts = Append(s.attempts, a)
      PROVE  Told(t, Append(h, a))
  <2>1. t.attempts = w \o Excluding(Append(h, a), Others(t.id))
    BY <1>1, <1>2, <1>3, <1>5, <1>7
  <2>2. QED
    BY <2>1 DEF Told
<1>8. QED
  BY <1>6, <1>7

\* Answers and sessions in a list are answers and sessions.
LEMMA RecordsAre ==
  ASSUME ProgressTyped
  PROVE  ToSet(attempts) \subseteq Attempt /\ ToSet(sessions) \subseteq SessionRecord /\ Live \subseteq SessionRecord
  BY DEF ProgressTyped, ToSet, Live

\* What is written of the record: the ends of the two lists.
LEMMA Written ==
  ASSUME NEW a \in Seq(Attempt), NEW s \in Seq(SessionRecord), WriteProgress(a, s)
  PROVE  /\ attempts' \in Seq(Attempt) /\ Len(attempts') <= HistoryLimit /\ ToSet(attempts') \subseteq ToSet(a)
         /\ sessions' \in Seq(SessionRecord) /\ Len(sessions') <= SessionLimit /\ ToSet(sessions') \subseteq ToSet(s)
         /\ (Len(a) <= HistoryLimit => attempts' = a)
         /\ \E u \in Seq(Attempt) : a = u \o attempts'
         /\ KeysUnique' /\ UNCHANGED <<learners, plans>>
<1>1. HistoryLimit \in Nat /\ SessionLimit \in Nat
  BY ProgressConstants DEF ProgressConstants
<1>2. attempts' = LastOf(a, HistoryLimit) /\ sessions' = LastOf(s, SessionLimit)
  BY DEF WriteProgress
<1>3. /\ LastOf(a, HistoryLimit) \in Seq(Attempt) /\ Len(LastOf(a, HistoryLimit)) <= HistoryLimit
      /\ ToSet(LastOf(a, HistoryLimit)) \subseteq ToSet(a) /\ (Len(a) <= HistoryLimit => LastOf(a, HistoryLimit) = a)
      /\ IsEnd(LastOf(a, HistoryLimit), a, Attempt)
  BY <1>1, LastOfIs
<1>4. /\ LastOf(s, SessionLimit) \in Seq(SessionRecord) /\ Len(LastOf(s, SessionLimit)) <= SessionLimit
      /\ ToSet(LastOf(s, SessionLimit)) \subseteq ToSet(s)
  BY <1>1, LastOfIs
<1>5. KeysUnique' /\ UNCHANGED <<learners, plans>>
  BY DEF WriteProgress, KeysUnique, NumbersAreUnique, SessionsAreUnique
<1>6. \E u \in Seq(Attempt) : a = u \o attempts'
  BY <1>2, <1>3 DEF IsEnd
<1>7. QED
  BY <1>2, <1>3, <1>4, <1>5, <1>6

\* A session is taken out by its id.
LEMMA WithoutIs ==
  ASSUME NEW s \in Seq(SessionRecord), NEW id
  PROVE  /\ WithoutSession(s, id) \in Seq(SessionRecord)
         /\ ToSet(WithoutSession(s, id)) = {x \in ToSet(s) : x.id # id}
<1>1. /\ Excluding(s, {x \in ToSet(s) : x.id = id}) \in Seq(SessionRecord)
      /\ ToSet(Excluding(s, {x \in ToSet(s) : x.id = id})) = ToSet(s) \ {x \in ToSet(s) : x.id = id}
  BY ExcludingKeeps
<1>2. QED
  BY <1>1 DEF WithoutSession

-----------------------------------------------------------------------------
(* The teacher's operations *)

\* At the start there is nothing.
LEMMA ProgressBegins == ProgressInit => ProgressInv
<1> SUFFICES ASSUME ProgressInit PROVE ProgressInv
  OBVIOUS
<1>1. attempts = <<>> /\ sessions = <<>> /\ playing = <<>> /\ started = 0 /\ readOnly = FALSE
  BY DEF ProgressInit
<1>2. /\ attempts \in Seq(Attempt) /\ Len(attempts) = 0 /\ DOMAIN attempts = {}
      /\ sessions \in Seq(SessionRecord) /\ Len(sessions) = 0 /\ DOMAIN sessions = {}
  BY <1>1
<1>3. ToSet(attempts) = {} /\ ToSet(sessions) = {} /\ Live = {}
  BY <1>1, <1>2 DEF ToSet, Live
<1>4. 0 <= HistoryLimit /\ 0 <= SessionLimit /\ started \in 0..MaxSessions
  BY <1>1, ProgressConstants DEF ProgressConstants
<1>5. learners \in [Learner -> {"none", "active", "archived"}] /\ plans \in [PlanId -> PlanRecord \cup {Unknown}]
  BY DEF ProgressInit
<1>6. ProgressTyped
  BY <1>1, <1>2, <1>4, <1>5 DEF ProgressTyped
<1>7. AllOwned
  BY <1>3 DEF AllOwned, OwnersExist, ProgressInit
<1>8. KeysUnique
  BY <1>2 DEF KeysUnique, NumbersAreUnique, SessionsAreUnique
<1>9. QED
  BY <1>1, <1>3, <1>6, <1>7, <1>8 DEF ProgressInv, Begun, LiveFits, FirstsKnown

\* A change of the learners keeps everything as long as nobody goes who has something.
LEMMA ProfilesKeep ==
  ASSUME ProgressInv, playing = <<>>, UNCHANGED <<plans, attempts, sessions, playing, started, firstAnswers, readOnly>>,
         learners' \in [Learner -> {"none", "active", "archived"}],
         \A l \in Learner : learners[l] # "none" =>
             \/ learners'[l] # "none"
             \/ /\ \A p \in PlanId : plans[p].owner # l
                /\ \A x \in ToSet(attempts) \cup ToSet(sessions) : x.learner # l
  PROVE  ProgressInv'
<1>1. ProgressTyped'
  BY DEF ProgressInv, ProgressTyped
<1>2. Live = ToSet(sessions) /\ Live' = ToSet(sessions) /\ ToSet(attempts') = ToSet(attempts)
  BY DEF Live
<1>3. AllOwned'
  <2>1. ASSUME NEW p \in PlanId, plans[p] # Unknown PROVE learners'[plans[p].owner] # "none"
    <3>1. plans[p] \in PlanRecord
      BY <2>1 DEF ProgressInv, ProgressTyped
    <3>2. plans[p].owner \in Learner
      BY <3>1 DEF PlanRecord
    <3>3. learners[plans[p].owner] # "none"
      BY <2>1 DEF ProgressInv, AllOwned, OwnersExist
    <3>4. QED
      BY <3>2, <3>3
  <2>2. ASSUME NEW x \in ToSet(attempts) \cup ToSet(sessions)
        PROVE  learners'[x.learner] # "none" /\ (x.plan # NoPlan => plans[x.plan].owner = x.learner)
    <3>1. x \in Attempt \cup SessionRecord
      BY RecordsAre DEF ProgressInv
    <3>2. x.learner \in Learner
      BY <3>1 DEF Attempt, SessionRecord
    <3>3. learners[x.learner] # "none" /\ (x.plan # NoPlan => plans[x.plan].owner = x.learner)
      BY <1>2 DEF ProgressInv, AllOwned, IsOwned
    <3>4. QED
      BY <3>2, <3>3
  <2>3. QED
    BY <1>2, <2>1, <2>2 DEF AllOwned, OwnersExist, IsOwned
<1>4. QED
  BY <1>1, <1>2, <1>3 DEF ProgressInv, KeysUnique, NumbersAreUnique, SessionsAreUnique, Begun, LiveFits, FirstsKnown

\* A change of the plans keeps everything as long as no plan in use changes hands.
LEMMA PlansKeep ==
  ASSUME ProgressInv, playing = <<>>, UNCHANGED <<learners, attempts, sessions, playing, started, firstAnswers, readOnly>>,
         plans' \in [PlanId -> PlanRecord \cup {Unknown}], OwnersExist(plans'),
         \A p \in PlanId : \/ plans'[p].owner = plans[p].owner
                           \/ \A x \in ToSet(attempts) \cup ToSet(sessions) : x.plan # p
  PROVE  ProgressInv'
<1>1. ProgressTyped'
  BY DEF ProgressInv, ProgressTyped
<1>2. Live = ToSet(sessions) /\ Live' = ToSet(sessions) /\ ToSet(attempts') = ToSet(attempts)
  BY DEF Live
<1>3. AllOwned'
  <2>1. ASSUME NEW x \in ToSet(attempts) \cup ToSet(sessions)
        PROVE  learners[x.learner] # "none" /\ (x.plan # NoPlan => plans'[x.plan].owner = x.learner)
    <3>1. x \in Attempt \cup SessionRecord
      BY RecordsAre DEF ProgressInv
    <3>2. x.plan # NoPlan => x.plan \in PlanId
      BY <3>1 DEF Attempt, SessionRecord
    <3>3. learners[x.learner] # "none" /\ (x.plan # NoPlan => plans[x.plan].owner = x.learner)
      BY <1>2 DEF ProgressInv, AllOwned, IsOwned
    <3>4. QED
      BY <3>2, <3>3
  <2>2. OwnersExist(plans)'
    BY DEF OwnersExist
  <2>3. QED
    BY <1>2, <2>1, <2>2 DEF AllOwned, IsOwned
<1>4. QED
  BY <1>1, <1>2, <1>3 DEF ProgressInv, KeysUnique, NumbersAreUnique, SessionsAreUnique, Begun, LiveFits, FirstsKnown

\* A smaller record is as good, if its sessions are still told of.
LEMMA LessKeeps ==
  ASSUME ProgressInv, playing = <<>>, UNCHANGED <<learners, plans, playing, started, firstAnswers, readOnly>>,
         attempts' \in Seq(Attempt), Len(attempts') <= HistoryLimit, ToSet(attempts') \subseteq ToSet(attempts),
         sessions' \in Seq(SessionRecord), Len(sessions') <= SessionLimit, ToSet(sessions') \subseteq ToSet(sessions),
         KeysUnique', \A s \in ToSet(sessions') : Told(s, attempts')
  PROVE  ProgressInv'
<1>1. ProgressTyped'
  BY DEF ProgressInv, ProgressTyped
<1>2. Live = ToSet(sessions) /\ Live' = ToSet(sessions')
  BY DEF Live
<1>3. AllOwned'
  <2>1. \A x \in ToSet(attempts') \cup Live' : IsOwned(x)
    BY <1>2 DEF ProgressInv, AllOwned
  <2>2. OwnersExist(plans)
    BY DEF ProgressInv, AllOwned
  <2>3. QED
    BY <2>1, <2>2 DEF AllOwned, IsOwned, OwnersExist
<1>4. Begun' /\ FirstsKnown'
  BY <1>2 DEF ProgressInv, Begun, FirstsKnown
<1>5. LiveFits'
  BY <1>2 DEF ProgressInv, LiveFits
<1>6. QED
  BY <1>1, <1>3, <1>4, <1>5 DEF ProgressInv

\* A reset drops nothing of a session it leaves.
LEMMA ResetKeeps ==
  ASSUME ProgressInv, playing = <<>>, UNCHANGED <<playing, started, firstAnswers, readOnly>>,
         NEW l, NEW plan, NEW lesson, ResetProgress(l, plan, lesson)
  PROVE  ProgressInv'
<1> DEFINE Mine(item) == item.learner = l /\ (plan = NoPlan \/ item.plan = plan)
           Dropped(a) == Mine(a) /\ lesson \in {0, a.lesson}
           Asks(s) == Mine(s) /\ (lesson = 0 \/ \E q \in DOMAIN s.questions : s.questions[q] = lesson)
           D == {a \in ToSet(attempts) : Dropped(a)}
           A == Excluding(attempts, D)
           G == {s \in ToSet(sessions) : Asks(s)}
           S == Excluding(sessions, G)
<1>1. WriteProgress(A, S)
  BY DEF ResetProgress
<1>2. attempts \in Seq(Attempt) /\ sessions \in Seq(SessionRecord)
  BY DEF ProgressInv, ProgressTyped
<1>3. A \in Seq(Attempt) /\ ToSet(A) \subseteq ToSet(attempts)
  BY <1>2, ExcludingKeeps
<1>4. S \in Seq(SessionRecord) /\ ToSet(S) = ToSet(sessions) \ G
  BY <1>2, ExcludingKeeps
<1>5. ASSUME NEW s \in ToSet(sessions), s \notin G PROVE Told(s, A)
  <2>1. s \in SessionRecord /\ Told(s, attempts) /\ AsSubmitted(s)
    BY RecordsAre DEF ProgressInv, LiveFits, Live
  <2>2. ASSUME NEW a \in ToSet(attempts), a.session = s.id PROVE a \notin D
    <3>1. a \in ToSet(s.attempts)
      BY <1>2, <2>1, <2>2, ToldIsHeld
    <3>2. FitsSession(a, s)
      BY <2>1, <3>1 DEF AsSubmitted
    <3>3. a.learner = s.learner /\ a.plan = s.plan /\ a.question \in 1..Len(s.questions)
          /\ a.lesson = s.questions[a.question]
      BY <3>2 DEF FitsSession
    <3>4. s.questions \in Seq(Lesson)
      BY <2>1 DEF SessionRecord
    <3>5. a.question \in DOMAIN s.questions
      BY <3>3, <3>4
    <3>6. Dropped(a) => Asks(s)
      BY <3>3, <3>5
    <3>7. QED
      BY <1>5, <3>6
  <2> HIDE DEF D
  <2>3. QED
    BY <1>2, <2>1, <2>2, ToldWithout
<1> HIDE DEF A, S, D, G
<1>6. PICK u \in Seq(Attempt) : A = u \o attempts'
  BY <1>1, <1>3, <1>4, Written
<1>7. /\ attempts' \in Seq(Attempt) /\ Len(attempts') <= HistoryLimit /\ ToSet(attempts') \subseteq ToSet(A)
      /\ sessions' \in Seq(SessionRecord) /\ Len(sessions') <= SessionLimit /\ ToSet(sessions') \subseteq ToSet(S)
      /\ KeysUnique' /\ UNCHANGED <<learners, plans>>
  BY <1>1, <1>3, <1>4, Written
<1>8. ASSUME NEW s \in ToSet(sessions') PROVE Told(s, attempts')
  <2>1. s \in ToSet(sessions) /\ s \notin G
    BY <1>4, <1>7
  <2>2. Told(s, u \o attempts') /\ s \in SessionRecord
    BY <1>5, <1>6, <2>1, RecordsAre DEF ProgressInv
  <2>3. QED
    BY <1>7, <2>2, ToldSuffix
<1>9. QED
  BY <1>3, <1>4, <1>7, <1>8, LessKeeps

\* Discarding a session leaves the history alone.
LEMMA DiscardKeeps ==
  ASSUME ProgressInv, playing = <<>>, UNCHANGED <<playing, started, firstAnswers, readOnly>>,
         NEW id, DiscardSession(id)
  PROVE  ProgressInv'
<1>1. attempts \in Seq(Attempt) /\ sessions \in Seq(SessionRecord) /\ Len(attempts) <= HistoryLimit
  BY DEF ProgressInv, ProgressTyped
<1>2. WithoutSession(sessions, id) \in Seq(SessionRecord) /\ ToSet(WithoutSession(sessions, id)) \subseteq ToSet(sessions)
  BY <1>1, WithoutIs
<1>3. WriteProgress(attempts, WithoutSession(sessions, id))
  BY DEF DiscardSession
<1>4. /\ attempts' = attempts /\ sessions' \in Seq(SessionRecord) /\ Len(sessions') <= SessionLimit
      /\ ToSet(sessions') \subseteq ToSet(WithoutSession(sessions, id)) /\ KeysUnique' /\ UNCHANGED <<learners, plans>>
  BY <1>1, <1>2, <1>3, Written
<1>5. \A s \in ToSet(sessions') : Told(s, attempts')
  BY <1>2, <1>4 DEF ProgressInv, LiveFits, Live
<1>6. QED
  BY <1>1, <1>2, <1>4, <1>5, LessKeeps

\* Learners come, go, are put away and brought back.
LEMMA LearnersKeep ==
  ASSUME ProgressInv, playing = <<>>, UNCHANGED <<playing, started, firstAnswers, readOnly>>, NEW l \in Learner,
         CreateProfile(l) \/ ArchiveProfile(l) \/ RestoreProfile(l) \/ DeleteProfile(l)
  PROVE  ProgressInv'
<1>0. learners \in [Learner -> {"none", "active", "archived"}]
  BY DEF ProgressInv, ProgressTyped
<1>1. UNCHANGED <<plans, attempts, sessions>>
  BY DEF CreateProfile, ArchiveProfile, RestoreProfile, DeleteProfile, WriteProfiles
<1>2. CASE CreateProfile(l) \/ ArchiveProfile(l) \/ RestoreProfile(l)
  <2>1. PICK v \in {"active", "archived"} : learners' = [learners EXCEPT ![l] = v]
    BY <1>2 DEF CreateProfile, ArchiveProfile, RestoreProfile, WriteProfiles
  <2>2. /\ learners' \in [Learner -> {"none", "active", "archived"}]
        /\ \A m \in Learner : learners[m] # "none" => learners'[m] # "none"
    BY <1>0, <2>1
  <2>3. QED
    BY <1>1, <2>2, ProfilesKeep
<1>3. CASE DeleteProfile(l)
  <2>1. learners' = [learners EXCEPT ![l] = "none"]
    BY <1>3 DEF DeleteProfile, WriteProfiles
  <2>2. learners' \in [Learner -> {"none", "active", "archived"}] /\ \A m \in Learner : m # l => learners'[m] = learners[m]
    BY <1>0, <2>1
  <2>3. \A p \in PlanId : plans[p].owner # l
    BY <1>3 DEF DeleteProfile
  <2>4. \A x \in ToSet(attempts) \cup ToSet(sessions) : x.learner # l
    BY <1>3 DEF DeleteProfile, ToSet
  <2>5. QED
    BY <1>1, <2>2, <2>3, <2>4, ProfilesKeep
<1>4. QED
  BY <1>2, <1>3

\* A plan that is known is a plan, and one in use is known.
LEMMA PlansAre ==
  ASSUME ProgressInv, NEW p \in PlanId
  PROVE  /\ plans[p] \in PlanRecord \cup {Unknown} /\ (Known(p) => plans[p] \in PlanRecord)
         /\ ~Known(p) => \A x \in ToSet(attempts) \cup ToSet(sessions) : x.plan # p
         /\ Unknown.owner = NoPlan /\ NoPlan \notin Learner /\ p # NoPlan
<1>1. plans[p] \in PlanRecord \cup {Unknown}
  BY DEF ProgressInv, ProgressTyped
<1>2. Unknown.owner = NoPlan /\ NoPlan \notin Learner /\ p # NoPlan
  BY ProgressConstants DEF Unknown, ProgressConstants
<1>3. ASSUME ~Known(p), NEW x \in ToSet(attempts) \cup ToSet(sessions) PROVE x.plan # p
  <2>1. x \in Attempt \cup SessionRecord
    BY RecordsAre DEF ProgressInv
  <2>2. x.learner \in Learner
    BY <2>1 DEF Attempt, SessionRecord
  <2>3. x.plan # NoPlan => plans[x.plan].owner = x.learner
    BY DEF ProgressInv, AllOwned, IsOwned, Live
  <2>4. plans[p] = Unknown
    BY <1>3 DEF Known
  <2>5. QED
    BY <1>2, <2>2, <2>3, <2>4
<1>4. QED
  BY <1>1, <1>2, <1>3 DEF Known

\* A change of one plan keeps everything if it keeps the owner, or nobody uses it.
LEMMA PlanKeeps ==
  ASSUME ProgressInv, playing = <<>>, UNCHANGED <<playing, started, firstAnswers, readOnly>>,
         NEW p \in PlanId, NEW v \in PlanRecord \cup {Unknown}, WritePlans([plans EXCEPT ![p] = v]),
         \/ v.owner = plans[p].owner
         \/ \A x \in ToSet(attempts) \cup ToSet(sessions) : x.plan # p
  PROVE  ProgressInv'
<1>1. plans \in [PlanId -> PlanRecord \cup {Unknown}]
  BY DEF ProgressInv, ProgressTyped
<1>2. plans' = [plans EXCEPT ![p] = v] /\ OwnersExist(plans') /\ UNCHANGED <<learners, attempts, sessions>>
  BY DEF WritePlans
<1>3. /\ plans' \in [PlanId -> PlanRecord \cup {Unknown}] /\ plans'[p] = v
      /\ \A q \in PlanId : q # p => plans'[q] = plans[q]
  BY <1>1, <1>2
<1>4. \A q \in PlanId : \/ plans'[q].owner = plans[q].owner
                        \/ \A x \in ToSet(attempts) \cup ToSet(sessions) : x.plan # q
  BY <1>3
<1>5. QED
  BY <1>2, <1>3, <1>4, PlansKeep

\* What a plan becomes is a plan, of the same owner.
LEMMA PlanFields ==
  ASSUME NEW v \in PlanRecord
  PROVE  /\ \A lessons \in Outlines, repetitions \in Repetitions :
                /\ [v EXCEPT !.lessons = lessons, !.repetitions = repetitions] \in PlanRecord
                /\ [v EXCEPT !.lessons = lessons, !.repetitions = repetitions].owner = v.owner
         /\ [v EXCEPT !.archived = TRUE, !.enabled = FALSE] \in PlanRecord
         /\ [v EXCEPT !.archived = TRUE, !.enabled = FALSE].owner = v.owner
         /\ [v EXCEPT !.archived = FALSE] \in PlanRecord /\ [v EXCEPT !.archived = FALSE].owner = v.owner
         /\ [v EXCEPT !.enabled = ~@] \in PlanRecord /\ [v EXCEPT !.enabled = ~@].owner = v.owner
  BY DEF PlanRecord

\* Plans are made, changed, copied, put away, brought back and deleted.
LEMMA PlanStepsKeep ==
  ASSUME ProgressInv, playing = <<>>, UNCHANGED <<playing, started, firstAnswers, readOnly>>, NEW p \in PlanId,
         \/ UpdatePlan(p) \/ SetPlanEnabled(p) \/ ArchivePlan(p) \/ RestorePlan(p) \/ DeletePlan(p)
         \/ \E l \in Learner : CreatePlan(p, l)
         \/ \E copy \in PlanId : DuplicatePlan(p, copy)
  PROVE  ProgressInv'
<1>0. /\ plans[p] \in PlanRecord \cup {Unknown} /\ (Known(p) => plans[p] \in PlanRecord)
      /\ ~Known(p) => \A x \in ToSet(attempts) \cup ToSet(sessions) : x.plan # p
  BY PlansAre
<1>a. plans \in [PlanId -> PlanRecord \cup {Unknown}]
  BY DEF ProgressInv, ProgressTyped
<1>1. CASE UpdatePlan(p)
  <2>1. PICK lessons \in Outlines, repetitions \in Repetitions :
            WritePlans([plans EXCEPT ![p].lessons = lessons, ![p].repetitions = repetitions])
    BY <1>1 DEF UpdatePlan
  <2> DEFINE v == [plans[p] EXCEPT !.lessons = lessons, !.repetitions = repetitions]
  <2>2. plans[p] \in PlanRecord
    BY <1>0, <1>1 DEF UpdatePlan
  <2>3. v \in PlanRecord /\ v.owner = plans[p].owner
    BY <2>2, PlanFields, ZenonT(60)
  <2>4. [plans EXCEPT ![p].lessons = lessons, ![p].repetitions = repetitions] = [plans EXCEPT ![p] = v]
    BY <1>a, <2>2
  <2> HIDE DEF v
  <2>5. QED
    BY <2>1, <2>3, <2>4, PlanKeeps
<1>2. CASE SetPlanEnabled(p)
  <2> DEFINE v == [plans[p] EXCEPT !.enabled = ~@]
  <2>1. plans[p] \in PlanRecord /\ WritePlans([plans EXCEPT ![p].enabled = ~@])
    BY <1>0, <1>2 DEF SetPlanEnabled
  <2>2. v \in PlanRecord /\ v.owner = plans[p].owner
    BY <2>1, PlanFields
  <2>3. [plans EXCEPT ![p].enabled = ~@] = [plans EXCEPT ![p] = v]
    BY <1>a, <2>1
  <2> HIDE DEF v
  <2>4. QED
    BY <2>1, <2>2, <2>3, PlanKeeps
<1>3. CASE ArchivePlan(p)
  <2> DEFINE v == [plans[p] EXCEPT !.archived = TRUE, !.enabled = FALSE]
  <2>1. plans[p] \in PlanRecord /\ WritePlans([plans EXCEPT ![p].archived = TRUE, ![p].enabled = FALSE])
    BY <1>0, <1>3 DEF ArchivePlan
  <2>2. v \in PlanRecord /\ v.owner = plans[p].owner
    BY <2>1, PlanFields
  <2>3. [plans EXCEPT ![p].archived = TRUE, ![p].enabled = FALSE] = [plans EXCEPT ![p] = v]
    BY <1>a, <2>1
  <2> HIDE DEF v
  <2>4. QED
    BY <2>1, <2>2, <2>3, PlanKeeps
<1>4. CASE RestorePlan(p)
  <2> DEFINE v == [plans[p] EXCEPT !.archived = FALSE]
  <2>1. plans[p] \in PlanRecord /\ WritePlans([plans EXCEPT ![p].archived = FALSE])
    BY <1>0, <1>4 DEF RestorePlan
  <2>2. v \in PlanRecord /\ v.owner = plans[p].owner
    BY <2>1, PlanFields
  <2>3. [plans EXCEPT ![p].archived = FALSE] = [plans EXCEPT ![p] = v]
    BY <1>a, <2>1
  <2> HIDE DEF v
  <2>4. QED
    BY <2>1, <2>2, <2>3, PlanKeeps
<1>5. CASE DeletePlan(p)
  <2>1. \A x \in ToSet(attempts) \cup ToSet(sessions) : x.plan # p
    BY <1>5 DEF DeletePlan, ToSet
  <2>2. WritePlans([plans EXCEPT ![p] = Unknown])
    BY <1>5 DEF DeletePlan
  <2>3. QED
    BY <2>1, <2>2, PlanKeeps
<1>6. CASE \E l \in Learner : CreatePlan(p, l)
  <2>1. PICK l \in Learner, lessons \in Outlines, repetitions \in Repetitions :
            /\ ~Known(p)
            /\ WritePlans([plans EXCEPT ![p] = [owner |-> l, lessons |-> lessons, enabled |-> TRUE,
                                                repetitions |-> repetitions, archived |-> FALSE]])
    BY <1>6 DEF CreatePlan
  <2> DEFINE v == [owner |-> l, lessons |-> lessons, enabled |-> TRUE, repetitions |-> repetitions, archived |-> FALSE]
  <2>2. v \in PlanRecord
    BY DEF PlanRecord
  <2>3. WritePlans([plans EXCEPT ![p] = v])
    BY <2>1
  <2> HIDE DEF v
  <2>4. QED
    BY <1>0, <2>1, <2>2, <2>3, PlanKeeps
<1>7. CASE \E copy \in PlanId : DuplicatePlan(p, copy)
  <2>1. PICK copy \in PlanId : DuplicatePlan(p, copy)
    BY <1>7
  <2> DEFINE v == [plans[p] EXCEPT !.archived = FALSE]
  <2>2. Known(p) /\ ~Known(copy) /\ WritePlans([plans EXCEPT ![copy] = v])
    BY <2>1 DEF DuplicatePlan
  <2>3. v \in PlanRecord
    BY <1>0, <2>2, PlanFields
  <2>4. \A x \in ToSet(attempts) \cup ToSet(sessions) : x.plan # copy
    BY <2>2, PlansAre
  <2> HIDE DEF v
  <2>5. QED
    BY <2>2, <2>3, <2>4, PlanKeeps
<1>8. QED
  BY <1>1, <1>2, <1>3, <1>4, <1>5, <1>6, <1>7

\* The teacher's area keeps the record.
LEMMA AdministerKeeps == ASSUME ProgressInv, Administer PROVE ProgressInv'
<1>0. playing = <<>> /\ UNCHANGED <<playing, started, firstAnswers, readOnly>>
  BY DEF Administer
<1>1. CASE \E l \in Learner : CreateProfile(l) \/ ArchiveProfile(l) \/ RestoreProfile(l) \/ DeleteProfile(l)
  BY <1>0, <1>1, LearnersKeep
<1>2. CASE \E l \in Learner, plan \in PlanId \cup {NoPlan}, lesson \in {0} \cup Lesson : ResetProgress(l, plan, lesson)
  BY <1>0, <1>2, ResetKeeps
<1>3. CASE \E p \in PlanId : \/ UpdatePlan(p) \/ SetPlanEnabled(p) \/ ArchivePlan(p) \/ RestorePlan(p) \/ DeletePlan(p)
                             \/ \E l \in Learner : CreatePlan(p, l)
                             \/ \E copy \in PlanId : DuplicatePlan(p, copy)
  BY <1>0, <1>3, PlanStepsKeep
<1>4. CASE \E id \in 1..started : DiscardSession(id)
  BY <1>0, <1>4, DiscardKeeps
<1>5. QED
  BY <1>1, <1>2, <1>3, <1>4 DEF Administer

-----------------------------------------------------------------------------
(* The child's sessions *)

\* The questions of a session are lessons.
LEMMA ScheduledIs ==
  ASSUME NEW lessons \in Seq(Lesson), lessons # <<>>, NEW r \in Nat \ {0}, NEW count \in Nat
  PROVE  Scheduled(lessons, r, count) \in Seq(Lesson) /\ Len(Scheduled(lessons, r, count)) = count
<1> DEFINE n == Len(lessons)
           m == n * r
<1>1. n \in Nat \ {0} /\ \A i \in 1..n : lessons[i] \in Lesson
  OBVIOUS
<1>2. m \in Nat /\ m > 0
  BY <1>1
<1>3. ASSUME NEW k \in 1..count PROVE (((k - 1) % m) \div r) + 1 \in 1..n
  <2> DEFINE x == (k - 1) % m
             q == x \div r
  <2>1. x \in 0..(m - 1)
    BY <1>2
  <2>2. q \in Int /\ q * r <= x /\ x < q * r + r
    BY <2>1
  <2> HIDE DEF x, q
  <2>3. x >= 0 /\ x < n * r /\ x \in Int
    BY <1>1, <2>1
  <2>4. q >= 0
    <3>1. SUFFICES ASSUME q <= -1 PROVE FALSE
      BY <2>2
    <3>2. (q + 1) * r <= 0
      BY <2>2, <3>1
    <3>3. (q + 1) * r = q * r + r
      BY <2>2
    <3>4. QED
      BY <2>2, <2>3, <3>2, <3>3
  <2>5. q < n
    <3>1. SUFFICES ASSUME q >= n PROVE FALSE
      BY <1>1, <2>2
    <3>2. q * r >= n * r
      BY <1>1, <2>2, <3>1
    <3>3. q * r \in Int /\ n * r \in Int
      BY <1>1, <2>2
    <3>4. QED
      BY <2>2, <2>3, <3>2, <3>3
  <2>6. QED
    BY <1>1, <2>2, <2>4, <2>5 DEF q, x
<1>4. Scheduled(lessons, r, count) = [k \in 1..count |-> lessons[(((k - 1) % m) \div r) + 1]]
  BY DEF Scheduled
<1> HIDE DEF n, m
<1>5. QED
  BY <1>1, <1>3, <1>4

\* A session that is saved takes the place of what was saved of it.
LEMMA SavedLast ==
  ASSUME ProgressInv, NEW s \in SessionRecord
  PROVE  /\ Append(WithoutSession(sessions, s.id), s) \in Seq(SessionRecord)
         /\ ToSet(Append(WithoutSession(sessions, s.id), s)) = {x \in ToSet(sessions) : x.id # s.id} \cup {s}
<1>1. sessions \in Seq(SessionRecord)
  BY DEF ProgressInv, ProgressTyped
<1>2. /\ WithoutSession(sessions, s.id) \in Seq(SessionRecord)
      /\ ToSet(WithoutSession(sessions, s.id)) = {x \in ToSet(sessions) : x.id # s.id}
  BY <1>1, WithoutIs
<1> DEFINE w == WithoutSession(sessions, s.id)
<1> HIDE DEF w
<1>3. w \in Seq(SessionRecord) => Append(w, s) \in Seq(SessionRecord) /\ ToSet(Append(w, s)) = ToSet(w) \cup {s}
  BY AppendNew
<1>4. QED
  BY <1>2, <1>3 DEF w

\* Nothing in the history is of a session that has not begun.
LEMMA ToldOfNone ==
  ASSUME ProgressInv, NEW s \in SessionRecord, s.id = started + 1, s.attempts = <<>>
  PROVE  Told(s, attempts)
<1> DEFINE e == Excluding(attempts, Others(s.id))
<1>1. attempts \in Seq(Attempt)
  BY DEF ProgressInv, ProgressTyped
<1>2. e \in Seq(Attempt) /\ ToSet(e) = ToSet(attempts) \ Others(s.id)
  BY <1>1, ExcludingKeeps
<1>3. ASSUME NEW a \in ToSet(attempts) PROVE a \in Others(s.id)
  <2>1. a \in Attempt /\ a.session <= started /\ started \in Nat
    BY RecordsAre DEF ProgressInv, Begun, ProgressTyped
  <2>2. a.session \in Nat
    BY <2>1 DEF Attempt
  <2>3. QED
    BY <2>1, <2>2 DEF Others
<1>4. ToSet(e) = {}
  BY <1>2, <1>3
<1> HIDE DEF e
<1>5. e = <<>>
  <2>1. Len(e) \in Nat /\ DOMAIN e = 1..Len(e) /\ DOMAIN e = {}
    BY <1>2, <1>4 DEF ToSet
  <2>2. Len(e) = 0
    BY <2>1
  <2>3. QED
    BY <1>2, <2>2
<1>6. <<>> \in Seq(Attempt) /\ s.attempts = <<>> \o e
  BY <1>5
<1>7. QED
  BY <1>6 DEF Told, e

\* A session begins at its first question, with nothing answered.
LEMMA StartKeeps ==
  ASSUME ProgressInv, NEW l \in Learner, NEW p \in PlanId \cup {NoPlan}, StartSession(l, p)
  PROVE  ProgressInv'
<1> DEFINE questions == IF p = NoPlan THEN Scheduled(<<1>>, 1, QuickLength)
                        ELSE Scheduled(plans[p].lessons, plans[p].repetitions, Length)
           s == [id |-> started + 1, learner |-> l, plan |-> p, questions |-> questions,
                 index |-> 0, current |-> 0, attempts |-> <<>>]
<1>1. /\ playing = <<>> /\ started < MaxSessions /\ SaveSession(s) /\ playing' = s
      /\ started' = started + 1 /\ UNCHANGED <<firstAnswers, readOnly>>
  BY DEF StartSession
<1>2. /\ started \in Nat /\ MaxSessions \in Nat /\ started' \in 0..MaxSessions
      /\ attempts \in Seq(Attempt) /\ Len(attempts) <= HistoryLimit
      /\ learners \in [Learner -> {"none", "active", "archived"}] /\ plans \in [PlanId -> PlanRecord \cup {Unknown}]
  BY <1>1, ProgressConstants DEF ProgressInv, ProgressTyped, ProgressConstants
<1>3. questions \in Seq(Lesson)
  <2>1. CASE p = NoPlan
    <3>1. <<1>> \in Seq(Lesson) /\ <<1>> # <<>> /\ QuickLength \in Nat /\ 1 \in Nat \ {0}
      BY ProgressConstants DEF ProgressConstants
    <3>2. QED
      BY <2>1, <3>1, ScheduledIs
  <2>2. CASE p # NoPlan
    <3>1. p \in PlanId /\ plans[p].owner = l
      BY <2>2 DEF StartSession
    <3>2. plans[p] \in PlanRecord
      BY <1>2, <3>1, PlansAre
    <3>3. plans[p].lessons \in Outlines /\ plans[p].repetitions \in Repetitions
      BY <3>2 DEF PlanRecord
    <3>4. plans[p].lessons \in Seq(Lesson) /\ plans[p].lessons # <<>> /\ plans[p].repetitions \in Nat \ {0} /\ Length \in Nat
      BY <3>3, ProgressConstants DEF ProgressConstants
    <3>5. QED
      BY <2>2, <3>4, ScheduledIs
  <2>3. QED
    BY <2>1, <2>2
<1> HIDE DEF questions
<1>4. s \in SessionRecord
  BY <1>2, <1>3 DEF SessionRecord
<1>5. /\ s.id = started + 1 /\ s.index = 0 /\ s.current = 0 /\ s.attempts = <<>>
  OBVIOUS
<1> DEFINE w == Append(WithoutSession(sessions, s.id), s)
<1>6. IsOwned(s) /\ WriteProgress(attempts, w)
  BY <1>1 DEF SaveSession
<1>7. Told(s, attempts)
  BY <1>4, <1>5, ToldOfNone
<1>8. AsSubmitted(s)
  <2>1. DOMAIN s.attempts = {} /\ 0 < MaxTries
    BY <1>5, ProgressConstants DEF ProgressConstants
  <2>2. ToSet(s.attempts) = {}
    BY <2>1 DEF ToSet
  <2>3. 1..s.index = {} /\ 1..s.current = {} /\ s.current < MaxTries
    BY <1>5, <2>1
  <2> HIDE DEF s
  <2>4. QED
    BY <2>2, <2>3 DEF AsSubmitted
<1> HIDE DEF s
<1>9. w \in Seq(SessionRecord) /\ ToSet(w) \subseteq ToSet(sessions) \cup {s}
  BY <1>4, SavedLast
<1> HIDE DEF w
<1>10. /\ attempts' = attempts /\ sessions' \in Seq(SessionRecord) /\ Len(sessions') <= SessionLimit
       /\ ToSet(sessions') \subseteq ToSet(w) /\ KeysUnique' /\ UNCHANGED <<learners, plans>>
  BY <1>2, <1>6, <1>9, Written
<1>11. Live' \subseteq Live \cup {s}
  BY <1>1, <1>9, <1>10 DEF Live
<1>12. ProgressTyped'
  BY <1>1, <1>2, <1>4, <1>10 DEF ProgressTyped
<1>13. AllOwned'
  <2>1. \A x \in ToSet(attempts) \cup Live' : IsOwned(x)
    BY <1>6, <1>11 DEF ProgressInv, AllOwned
  <2>2. QED
    BY <1>10, <2>1 DEF ProgressInv, AllOwned, IsOwned, OwnersExist
<1>14. Begun'
  <2>1. ASSUME NEW a \in ToSet(attempts) PROVE a.session <= started'
    <3>1. a \in Attempt /\ a.session <= started
      BY RecordsAre DEF ProgressInv, Begun
    <3>2. a.session \in Nat
      BY <3>1 DEF Attempt
    <3>3. QED
      BY <1>1, <1>2, <3>1, <3>2
  <2>2. ASSUME NEW x \in Live' PROVE x.id <= started'
    <3>1. CASE x = s
      BY <1>1, <1>2, <1>5, <3>1
    <3>2. CASE x # s
      <4>1. x \in SessionRecord /\ x.id <= started
        BY <1>11, <3>2, RecordsAre DEF ProgressInv, Begun
      <4>2. x.id \in Nat
        BY <4>1 DEF SessionRecord
      <4>3. QED
        BY <1>1, <1>2, <4>1, <4>2
    <3>3. QED
      BY <3>1, <3>2
  <2>3. QED
    BY <1>10, <2>1, <2>2 DEF Begun
<1>15. LiveFits'
  BY <1>7, <1>8, <1>10, <1>11 DEF ProgressInv, LiveFits
<1>16. QED
  BY <1>1, <1>10, <1>12, <1>13, <1>14, <1>15 DEF ProgressInv, FirstsKnown

\* What Submit(correct) grades and saves.
Response(correct) ==
  [session |-> playing.id, learner |-> playing.learner, plan |-> playing.plan, question |-> playing.index + 1,
   number |-> playing.current + 1, correct |-> correct, lesson |-> playing.questions[playing.index + 1]]
Again(correct) == ~correct /\ playing.current + 1 < MaxTries
MovedOn(correct) ==
  [playing EXCEPT !.attempts = Append(@, Response(correct)),
                  !.current = IF Again(correct) THEN playing.current + 1 ELSE 0,
                  !.index = IF Again(correct) THEN @ ELSE @ + 1]

\* The response and the session after it.
LEMMA MovedFields ==
  ASSUME ProgressInv, playing # <<>>, ~SessionComplete(playing), NEW correct \in BOOLEAN
  PROVE  /\ playing \in SessionRecord /\ Response(correct) \in Attempt /\ MovedOn(correct) \in SessionRecord
         /\ playing.index \in Nat /\ playing.current \in Nat /\ MaxTries \in Nat \ {0}
         /\ playing.index + 1 \in 1..Len(playing.questions) /\ playing.attempts \in Seq(Attempt)
         /\ MovedOn(correct).id = playing.id /\ MovedOn(correct).learner = playing.learner
         /\ MovedOn(correct).plan = playing.plan /\ MovedOn(correct).questions = playing.questions
         /\ MovedOn(correct).attempts = Append(playing.attempts, Response(correct))
         /\ MovedOn(correct).current = (IF Again(correct) THEN playing.current + 1 ELSE 0)
         /\ MovedOn(correct).index = (IF Again(correct) THEN playing.index ELSE playing.index + 1)
<1>1. playing \in SessionRecord /\ MaxTries \in Nat \ {0}
  BY ProgressConstants DEF ProgressInv, ProgressTyped, ProgressConstants
<1>2. /\ playing.id \in Nat /\ playing.learner \in Learner /\ playing.plan \in PlanId \cup {NoPlan}
      /\ playing.questions \in Seq(Lesson) /\ playing.index \in Nat /\ playing.current \in Nat
      /\ playing.attempts \in Seq(Attempt)
  BY <1>1 DEF SessionRecord
<1>3. playing.index + 1 \in 1..Len(playing.questions)
  <2>1. Len(playing.questions) \in Nat
    BY <1>2
  <2>2. ~(playing.index >= Len(playing.questions))
    BY DEF SessionComplete
  <2>3. QED
    BY <1>2, <2>1, <2>2
<1>4. playing.questions[playing.index + 1] \in Lesson
  BY <1>2, <1>3
<1>5. Response(correct) \in Attempt
  BY <1>2, <1>4 DEF Response, Attempt
<1> DEFINE a == Append(playing.attempts, Response(correct))
           c == IF Again(correct) THEN playing.current + 1 ELSE 0
           i == IF Again(correct) THEN playing.index ELSE playing.index + 1
<1>6. a \in Seq(Attempt) /\ c \in Nat /\ i \in Nat
  BY <1>2, <1>5
<1>7. MovedOn(correct) = [playing EXCEPT !.attempts = a, !.current = c, !.index = i]
  <2>1. MovedOn(correct) = [playing EXCEPT !.attempts = a, !.current = c,
                                           !.index = IF Again(correct) THEN @ ELSE @ + 1]
    BY <1>1 DEF MovedOn, SessionRecord
  <2> HIDE DEF a, c
  <2>2. QED
    BY <1>1, <2>1 DEF SessionRecord
<1> HIDE DEF a, c, i
<1>8. [playing EXCEPT !.attempts = a, !.current = c, !.index = i] \in SessionRecord
  BY <1>1, <1>6 DEF SessionRecord
<1>9. /\ MovedOn(correct).id = playing.id /\ MovedOn(correct).learner = playing.learner
      /\ MovedOn(correct).plan = playing.plan /\ MovedOn(correct).questions = playing.questions
      /\ MovedOn(correct).attempts = a /\ MovedOn(correct).current = c /\ MovedOn(correct).index = i
  BY <1>1, <1>7 DEF SessionRecord
<1>10. QED
  BY <1>1, <1>2, <1>3, <1>5, <1>7, <1>8, <1>9 DEF a, c, i

\* A graded response leaves the session at the place that follows from its answers.
LEMMA MovedFits ==
  ASSUME ProgressInv, playing # <<>>, ~SessionComplete(playing), NEW correct \in BOOLEAN
  PROVE  AsSubmitted(MovedOn(correct))
<1> DEFINE r == Response(correct)
           m == MovedOn(correct)
           again == Again(correct)
           s == playing
<1>1. /\ s \in SessionRecord /\ r \in Attempt /\ m \in SessionRecord
      /\ s.index \in Nat /\ s.current \in Nat /\ MaxTries \in Nat \ {0}
      /\ s.index + 1 \in 1..Len(s.questions) /\ s.attempts \in Seq(Attempt)
      /\ m.id = s.id /\ m.learner = s.learner /\ m.plan = s.plan /\ m.questions = s.questions
      /\ m.attempts = Append(s.attempts, r)
      /\ m.current = (IF again THEN s.current + 1 ELSE 0)
      /\ m.index = (IF again THEN s.index ELSE s.index + 1)
  BY MovedFields
<1>2. AsSubmitted(s)
  BY DEF ProgressInv, LiveFits, Live
<1>3. ToSet(m.attempts) = ToSet(s.attempts) \cup {r}
  BY <1>1, AppendNew
<1>4. /\ r.session = s.id /\ r.learner = s.learner /\ r.plan = s.plan /\ r.question = s.index + 1
      /\ r.number = s.current + 1 /\ r.correct = correct /\ r.lesson = s.questions[s.index + 1]
  BY DEF Response
<1>5. again <=> ~correct /\ s.current + 1 < MaxTries
  BY DEF Again
<1>6. s.current < MaxTries
  BY <1>2 DEF AsSubmitted
<1>7. ~again => Closes(r)
  <2>1. s.current + 1 <= MaxTries
    BY <1>1, <1>6
  <2>2. QED
    BY <1>1, <1>4, <1>5, <2>1 DEF Closes
<1> HIDE DEF r, m, again, s
<1>8. m.current < MaxTries
  BY <1>1, <1>5
<1>9. ASSUME NEW a \in ToSet(m.attempts) PROVE FitsSession(a, m)
  <2>1. CASE a = r
    <3>1. again => m.index = s.index /\ m.current = s.current + 1 /\ ~correct
      BY <1>1, <1>5
    <3>2. ~again => m.index = s.index + 1
      BY <1>1
    <3>3. a.question <= m.index + 1 /\ (a.question = m.index + 1 => again)
      BY <1>1, <1>4, <2>1, <3>1, <3>2
    <3>4. a.number \in 1..(s.current + 1)
      BY <1>1, <1>4, <2>1
    <3>5. QED
      BY <1>1, <1>4, <2>1, <3>1, <3>3, <3>4 DEF FitsSession
  <2>2. CASE a # r
    <3>1. a \in ToSet(s.attempts) /\ FitsSession(a, s)
      BY <1>2, <1>3, <2>2 DEF AsSubmitted
    <3>2. /\ a.session = s.id /\ a.learner = s.learner /\ a.plan = s.plan
          /\ a.question \in 1..Len(s.questions) /\ a.lesson = s.questions[a.question]
          /\ a.question <= s.index + 1
          /\ a.question = s.index + 1 => ~a.correct /\ a.number \in 1..s.current
      BY <3>1 DEF FitsSession
    <3>3. CASE again
      <4>1. m.index = s.index /\ m.current = s.current + 1
        BY <1>1, <3>3
      <4>2. a.number \in 1..s.current => a.number \in 1..m.current
        BY <1>1, <4>1
      <4>3. QED
        BY <1>1, <3>2, <4>1, <4>2 DEF FitsSession
    <3>4. CASE ~again
      <4>1. m.index = s.index + 1
        BY <1>1, <3>4
      <4>2. a.question \in Int
        BY <3>2
      <4>3. a.question <= m.index + 1 /\ a.question # m.index + 1
        BY <1>1, <3>2, <4>1, <4>2
      <4>4. QED
        BY <1>1, <3>2, <4>3 DEF FitsSession
    <3>5. QED
      BY <3>3, <3>4
  <2>3. QED
    BY <2>1, <2>2
<1>10. ASSUME NEW q \in 1..m.index PROVE \E a \in ToSet(m.attempts) : a.question = q /\ Closes(a)
  <2>1. CASE q \in 1..s.index
    BY <1>2, <1>3, <2>1 DEF AsSubmitted
  <2>2. CASE q \notin 1..s.index
    <3>1. ~again /\ q = s.index + 1
      BY <1>1, <2>2
    <3>2. QED
      BY <1>3, <1>4, <1>7, <3>1
  <2>3. QED
    BY <2>1, <2>2
<1>11. ASSUME NEW n \in 1..m.current PROVE \E a \in ToSet(m.attempts) : a.question = m.index + 1 /\ a.number = n
  <2>1. again /\ m.current = s.current + 1 /\ m.index = s.index
    BY <1>1
  <2>2. CASE n = s.current + 1
    BY <1>3, <1>4, <2>1, <2>2
  <2>3. CASE n # s.current + 1
    <3>1. n \in 1..s.current
      BY <1>1, <2>1, <2>3
    <3>2. QED
      BY <1>2, <1>3, <2>1, <3>1 DEF AsSubmitted
  <2>4. QED
    BY <2>2, <2>3
<1>12. QED
  BY <1>8, <1>9, <1>10, <1>11 DEF AsSubmitted, m

\* A graded response keeps everything.
LEMMA SubmitKeeps == ASSUME ProgressInv, NEW correct \in BOOLEAN, Submit(correct) PROVE ProgressInv'
<1> DEFINE r == Response(correct)
           m == MovedOn(correct)
           w == Append(WithoutSession(sessions, m.id), m)
           h == Append(attempts, r)
<1>0. playing # <<>> /\ ~SessionComplete(playing)
  BY DEF Submit
<1>1. /\ RecordTransition(r, m) /\ playing' = m /\ UNCHANGED <<started, readOnly>>
      /\ firstAnswers' = IF playing.current + 1 > 1 THEN firstAnswers
                         ELSE firstAnswers \cup {<<playing.id, r.question, correct>>}
  BY DEF Submit, Response, MovedOn, Again
<1>2. /\ playing \in SessionRecord /\ r \in Attempt /\ m \in SessionRecord
      /\ m.id = playing.id /\ m.attempts = Append(playing.attempts, r) /\ playing.current \in Nat
  BY <1>0, MovedFields
<1>3. r.session = playing.id /\ r.number = playing.current + 1 /\ r.correct = correct
  BY DEF Response
<1>4. AsSubmitted(m)
  BY <1>0, MovedFits
<1>5. attempts \in Seq(Attempt) /\ playing \in Live
  BY <1>0 DEF ProgressInv, ProgressTyped, Live
<1>6. IsOwned(r) /\ IsOwned(m) /\ WriteProgress(h, w)
  BY <1>1 DEF RecordTransition
<1> HIDE DEF r, m
<1>7. h \in Seq(Attempt) /\ ToSet(h) = ToSet(attempts) \cup {r}
  BY <1>2, <1>5, AppendNew
<1>8. w \in Seq(SessionRecord) /\ ToSet(w) = {x \in ToSet(sessions) : x.id # m.id} \cup {m}
  BY <1>2, SavedLast
<1>9. Told(m, h)
  BY <1>2, <1>3, <1>5, ToldAppend DEF ProgressInv, LiveFits
<1>10. ASSUME NEW x \in ToSet(sessions), x.id # m.id PROVE Told(x, h)
  <2>1. x \in SessionRecord /\ Told(x, attempts)
    BY RecordsAre DEF ProgressInv, LiveFits, Live
  <2>2. r.session # x.id
    BY <1>2, <1>3, <1>10
  <2>3. QED
    BY <1>2, <1>5, <2>1, <2>2, ToldAppend
<1> HIDE DEF h, w
<1>11. PICK u \in Seq(Attempt) : h = u \o attempts'
  BY <1>6, <1>7, <1>8, Written
<1>12. /\ attempts' \in Seq(Attempt) /\ Len(attempts') <= HistoryLimit /\ ToSet(attempts') \subseteq ToSet(h)
       /\ sessions' \in Seq(SessionRecord) /\ Len(sessions') <= SessionLimit /\ ToSet(sessions') \subseteq ToSet(w)
       /\ KeysUnique' /\ UNCHANGED <<learners, plans>>
  BY <1>6, <1>7, <1>8, Written
<1>13. Live' \subseteq {x \in ToSet(sessions) : x.id # m.id} \cup {m}
  BY <1>1, <1>8, <1>12 DEF Live
<1>14. ProgressTyped'
  BY <1>1, <1>2, <1>12 DEF ProgressInv, ProgressTyped
<1>15. AllOwned'
  <2>1. \A x \in ToSet(attempts') \cup Live' : IsOwned(x)
    BY <1>6, <1>7, <1>12, <1>13 DEF ProgressInv, AllOwned, Live
  <2>2. QED
    BY <1>12, <2>1 DEF ProgressInv, AllOwned, IsOwned, OwnersExist
<1>16. Begun'
  BY <1>1, <1>2, <1>3, <1>5, <1>7, <1>12, <1>13 DEF ProgressInv, Begun, Live
<1>17. LiveFits'
  <2>1. ASSUME NEW x \in Live' PROVE AsSubmitted(x) /\ Told(x, h) /\ x \in SessionRecord
    <3>1. CASE x = m
      BY <1>2, <1>4, <1>9, <3>1
    <3>2. CASE x # m
      BY <1>10, <1>13, <3>2, RecordsAre DEF ProgressInv, LiveFits, Live
    <3>3. QED
      BY <3>1, <3>2
  <2>2. ASSUME NEW x \in Live' PROVE Told(x, attempts')
    BY <1>11, <1>12, <2>1, ToldSuffix
  <2>3. QED
    BY <2>1, <2>2 DEF LiveFits
<1>18. FirstsKnown'
  <2>1. ASSUME NEW a \in ToSet(attempts'), a.number = 1
        PROVE  <<a.session, a.question, a.correct>> \in firstAnswers'
    <3>1. CASE a = r
      <4>1. playing.current + 1 = 1
        BY <1>3, <2>1, <3>1
      <4>2. firstAnswers' = firstAnswers \cup {<<playing.id, r.question, correct>>}
        BY <1>1, <4>1
      <4>3. QED
        BY <1>3, <3>1, <4>2
    <3>2. CASE a # r
      <4>1. <<a.session, a.question, a.correct>> \in firstAnswers
        BY <1>7, <1>12, <2>1, <3>2 DEF ProgressInv, FirstsKnown
      <4>2. firstAnswers \subseteq firstAnswers'
        BY <1>1
      <4>3. QED
        BY <4>1, <4>2
    <3>3. QED
      BY <3>1, <3>2
  <2>2. QED
    BY <2>1 DEF FirstsKnown
<1>19. QED
  BY <1>1, <1>12, <1>14, <1>15, <1>16, <1>17, <1>18 DEF ProgressInv

\* What is on the screen is one of the sessions saved, or nothing.
LEMMA ScreenKeeps ==
  ASSUME ProgressInv, UNCHANGED <<documents, started, firstAnswers>>, readOnly' = FALSE,
         playing' = <<>> \/ playing' \in ToSet(sessions)
  PROVE  ProgressInv'
<1>1. UNCHANGED <<learners, plans, attempts, sessions, started, firstAnswers>>
  BY DEF documents
<1>2. Live' \subseteq Live
  BY <1>1 DEF Live
<1>3. ProgressTyped'
  BY <1>1, RecordsAre DEF ProgressInv, ProgressTyped
<1>4. AllOwned'
  BY <1>1, <1>2 DEF ProgressInv, AllOwned, OwnersExist, IsOwned
<1>5. KeysUnique' /\ FirstsKnown'
  BY <1>1 DEF ProgressInv, KeysUnique, NumbersAreUnique, SessionsAreUnique, FirstsKnown
<1>6. Begun' /\ LiveFits'
  BY <1>1, <1>2 DEF ProgressInv, Begun, LiveFits
<1>7. QED
  BY <1>3, <1>4, <1>5, <1>6 DEF ProgressInv

\* The documents fit together, so the next start reads them.
LEMMA NextStartLoads == ASSUME ProgressInv PROVE Loads
<1>1. OwnersExist(plans) /\ NumbersAreUnique(attempts) /\ SessionsAreUnique(sessions)
  BY DEF ProgressInv, AllOwned, KeysUnique
<1>2. ASSUME NEW x \in ToSet(attempts) \cup ToSet(sessions)
      PROVE  learners[x.learner] # "none" /\ (x.plan # NoPlan => Known(x.plan))
  <2>1. x \in Attempt \cup SessionRecord
    BY RecordsAre DEF ProgressInv
  <2>2. x.plan # NoPlan => x.plan \in PlanId
    BY <2>1 DEF Attempt, SessionRecord
  <2>3. learners[x.learner] # "none"
    BY DEF ProgressInv, AllOwned, IsOwned, Live
  <2>4. QED
    BY <2>2, <2>3, PlansAre
<1>3. ASSUME NEW s \in ToSet(sessions), NEW a \in ToSet(s.attempts)
      PROVE  a.session = s.id /\ a.learner = s.learner /\ a.plan = s.plan
  BY DEF ProgressInv, LiveFits, Live, AsSubmitted, FitsSession
<1>4. QED
  BY <1>1, <1>2, <1>3 DEF Loads

\* A session that goes on is the one saved last of those asked for.
LEMMA ResumeKeeps ==
  ASSUME ProgressInv, NEW l, NEW plan, NEW lesson, ResumeSession(l, plan, lesson) PROVE ProgressInv'
<1> DEFINE unfinished == {i \in DOMAIN sessions :
                              /\ sessions[i].learner = l /\ (plan = NoPlan \/ sessions[i].plan = plan)
                              /\ ~SessionComplete(sessions[i])
                              /\ lesson = 0 \/ lesson \in ToSet(sessions[i].questions)}
<1>1. unfinished # {} /\ playing' = sessions[Max(unfinished)] /\ UNCHANGED <<documents, started, firstAnswers, readOnly>>
  BY DEF ResumeSession
<1>2. Len(sessions) \in Nat /\ DOMAIN sessions = 1..Len(sessions) /\ unfinished \subseteq 1..Len(sessions)
  BY DEF ProgressInv, ProgressTyped
<1> HIDE DEF unfinished
<1>3. Max(unfinished) \in unfinished
  <2> DEFINE T == {Len(sessions) - i : i \in unfinished}
  <2>1. T \subseteq Nat /\ T # {}
    <3>1. \A i \in unfinished : Len(sessions) - i \in Nat
      BY <1>2
    <3>2. QED
      BY <1>1, <3>1
  <2>2. PICK t \in T : \A y \in T : ~(y < t)
    BY <2>1, LeastNumber
  <2>3. PICK i \in unfinished : t = Len(sessions) - i
    BY <2>2
  <2>4. \A j \in unfinished : j <= i
    <3>1. \A j \in unfinished : ~(Len(sessions) - j < Len(sessions) - i)
      BY <2>2, <2>3
    <3>2. QED
      BY <1>2, <3>1
  <2>5. \E x \in unfinished : \A y \in unfinished : y <= x
    BY <2>4
  <2>6. QED
    BY <2>5 DEF Max
<1>4. playing' \in ToSet(sessions)
  BY <1>1, <1>2, <1>3 DEF ToSet
<1>5. QED
  BY <1>1, <1>4, ScreenKeeps DEF ProgressInv

\* Every step keeps the invariant.
LEMMA ProgressStep == ProgressInv /\ [ProgressNext]_progressVars => ProgressInv'
<1> SUFFICES ASSUME ProgressInv, [ProgressNext]_progressVars PROVE ProgressInv'
  OBVIOUS
<1>1. CASE Administer
  BY <1>1, AdministerKeeps
<1>2. CASE \E l \in Learner, p \in PlanId \cup {NoPlan} : StartSession(l, p)
  BY <1>2, StartKeeps
<1>3. CASE \E l \in Learner, p \in PlanId \cup {NoPlan}, lesson \in {0} \cup Lesson : ResumeSession(l, p, lesson)
  BY <1>3, ResumeKeeps
<1>4. CASE \E correct \in BOOLEAN : Submit(correct)
  BY <1>4, SubmitKeeps
<1>5. CASE LeaveSession
  <2>1. playing' = <<>> /\ UNCHANGED <<documents, started, firstAnswers, readOnly>>
    BY <1>5 DEF LeaveSession
  <2>2. QED
    BY <2>1, ScreenKeeps DEF ProgressInv
<1>6. CASE Restart
  <2>1. playing' = <<>> /\ UNCHANGED <<documents, started, firstAnswers>> /\ readOnly' = ~Loads
    BY <1>6 DEF Restart
  <2>2. readOnly' = FALSE
    BY <2>1, NextStartLoads
  <2>3. QED
    BY <2>1, <2>2, ScreenKeeps
<1>7. CASE UNCHANGED progressVars
  <2>1. UNCHANGED <<learners, plans, attempts, sessions, playing, started, firstAnswers, readOnly>>
    BY <1>7 DEF progressVars
  <2>2. ProgressTyped' /\ AllOwned' /\ KeysUnique' /\ Begun' /\ LiveFits' /\ FirstsKnown' /\ readOnly' = FALSE
    BY <2>1 DEF ProgressInv, ProgressTyped, AllOwned, KeysUnique, Begun, LiveFits, FirstsKnown, Live, OwnersExist,
                IsOwned, NumbersAreUnique, SessionsAreUnique
  <2>3. QED
    BY <2>2 DEF ProgressInv
<1>8. QED
  BY <1>1, <1>2, <1>3, <1>4, <1>5, <1>6, <1>7 DEF ProgressNext

-----------------------------------------------------------------------------
(* What the record tells *)

\* The types, as the runs check them.
LEMMA RecordTyped == ASSUME ProgressInv PROVE ProgressTypeOK
<1>1. ASSUME NEW p \in PlanId PROVE plans[p].lessons \in Outlines \cup {<<>>}
  <2>1. plans[p] \in PlanRecord \cup {Unknown}
    BY PlansAre
  <2>2. QED
    BY <2>1 DEF PlanRecord, Unknown
<1>2. QED
  BY <1>1 DEF ProgressInv, ProgressTyped, ProgressTypeOK

\* There are n numbers up to n.
LEMMA CountUpTo == ASSUME NEW n \in Nat PROVE IsFiniteSet(1..n) /\ Cardinality(1..n) = n
<1>1. IsFiniteSet(1..n) /\ Cardinality(1..n) = IF 1 > n THEN 0 ELSE n - 1 + 1
  BY FS_Interval
<1>2. QED
  BY <1>1

\* The place of a session is counted from its answers.
LEMMA PlaceIsCounted ==
  ASSUME NEW s \in SessionRecord, AsSubmitted(s)
  PROVE  /\ s.index = Cardinality({a.question : a \in {b \in ToSet(s.attempts) : b.correct \/ b.number = MaxTries}})
         /\ s.current = Cardinality({a \in ToSet(s.attempts) : a.question = s.index + 1})
<1> DEFINE closed == {a.question : a \in {b \in ToSet(s.attempts) : b.correct \/ b.number = MaxTries}}
           open == {a \in ToSet(s.attempts) : a.question = s.index + 1}
<1>1. /\ s.index \in Nat /\ s.current \in Nat /\ s.current < MaxTries /\ MaxTries \in Nat
      /\ s.attempts \in Seq(Attempt) /\ ToSet(s.attempts) \subseteq Attempt
  BY ProgressConstants DEF SessionRecord, AsSubmitted, ToSet, ProgressConstants
<1>2. \A a \in ToSet(s.attempts) :
          /\ a.session = s.id /\ a.learner = s.learner /\ a.plan = s.plan
          /\ a.question \in 1..Len(s.questions) /\ a.lesson = s.questions[a.question]
          /\ a.question <= s.index + 1
          /\ a.question = s.index + 1 => ~a.correct /\ a.number \in 1..s.current
  BY DEF AsSubmitted, FitsSession
<1>3. closed = 1..s.index
  <2>1. ASSUME NEW a \in ToSet(s.attempts), a.correct \/ a.number = MaxTries PROVE a.question \in 1..s.index
    <3>1. a.question # s.index + 1
      BY <1>1, <1>2, <2>1
    <3>2. a.question \in Int /\ 1 <= a.question /\ a.question <= s.index + 1
      BY <1>2
    <3>3. QED
      BY <1>1, <3>1, <3>2
  <2>2. \A q \in 1..s.index : \E a \in ToSet(s.attempts) : a.question = q /\ (a.correct \/ a.number = MaxTries)
    BY DEF AsSubmitted, Closes
  <2>3. QED
    BY <2>1, <2>2
<1>4. Cardinality(closed) = s.index
  <2>1. Cardinality(1..s.index) = s.index
    BY <1>1, CountUpTo
  <2>2. QED
    BY <1>3, <2>1
<1>5. ASSUME NEW a \in open, NEW b \in open, a.number = b.number PROVE a = b
  <2>1. a \in Attempt /\ b \in Attempt
    BY <1>1
  <2>2. /\ a.session = b.session /\ a.learner = b.learner /\ a.plan = b.plan /\ a.question = b.question
        /\ a.lesson = b.lesson /\ a.correct = FALSE /\ b.correct = FALSE
    BY <1>2, <2>1 DEF Attempt
  <2>3. QED
    BY <1>5, <2>1, <2>2 DEF Attempt
<1>6. Cardinality(open) = s.current
  <2> DEFINE f == [a \in open |-> a.number]
  <2>1. \A a \in open : a.number \in 1..s.current
    BY <1>2
  <2>2. \A n \in 1..s.current : \E a \in open : a.number = n
    BY DEF AsSubmitted
  <2> HIDE DEF open
  <2>3. f \in [open -> 1..s.current] /\ \A a, b \in open : f[a] = f[b] => a = b
    BY <1>5, <2>1
  <2>4. \A n \in 1..s.current : \E a \in open : f[a] = n
    BY <2>2
  <2> HIDE DEF f
  <2>5. f \in Bijection(open, 1..s.current)
    BY <2>3, <2>4, Fun_IsBij
  <2>6. ExistsBijection(open, 1..s.current)
    BY <2>5 DEF ExistsBijection
  <2>7. IsFiniteSet(1..s.current) /\ Cardinality(1..s.current) = s.current
    BY <1>1, CountUpTo
  <2>8. ExistsBijection(1..s.current, open)
    BY <2>6, Fun_ExistsBijSymmetric
  <2>9. QED
    BY <2>7, <2>8, FS_Bijection
<1>7. QED
  BY <1>4, <1>6

\* Sessions and history tell one story.
LEMMA HistoryFits == ASSUME ProgressInv PROVE SessionFitsHistory
<1> SUFFICES ASSUME NEW s \in ToSet(sessions)
             PROVE  /\ IsSuffix(Excluding(attempts, {a \in ToSet(attempts) : a.session # s.id}), s.attempts)
                    /\ s.index = Cardinality({a.question : a \in {b \in ToSet(s.attempts) : b.correct \/ b.number = MaxTries}})
                    /\ s.current = Cardinality({a \in ToSet(s.attempts) : a.question = s.index + 1})
  BY DEF SessionFitsHistory
<1> DEFINE D == {a \in ToSet(attempts) : a.session # s.id}
<1>1. s \in SessionRecord /\ AsSubmitted(s) /\ Told(s, attempts) /\ attempts \in Seq(Attempt)
  BY RecordsAre DEF ProgressInv, LiveFits, Live, ProgressTyped
<1>2. \A a \in ToSet(attempts) : a \in D <=> a \in Others(s.id)
  BY RecordsAre DEF ProgressInv, Others
<1> HIDE DEF D
<1>3. Excluding(attempts, D) = Excluding(attempts, Others(s.id))
  BY <1>1, <1>2, ExcludingSame
<1>4. PICK u \in Seq(Attempt) : s.attempts = u \o Excluding(attempts, D)
  BY <1>1, <1>3 DEF Told
<1>5. Excluding(attempts, D) \in Seq(Attempt)
  BY <1>1, ExcludingKeeps
<1>6. IsSuffix(Excluding(attempts, D), s.attempts)
  BY <1>4, <1>5, SuffixOf
<1>7. QED
  BY <1>1, <1>6, PlaceIsCounted DEF D

\* The question an answer is to, and all those a list of answers is to.
QuestionOf(a) == <<a.session, a.question>>
Asked(r) == {QuestionOf(a) : a \in ToSet(r)}

\* What the evidence is: a group for each question, of answers to it.
IsEvidence(g, r) ==
  /\ g \in Seq(Seq(Attempt))
  /\ \A k \in 1..Len(g) : g[k] # <<>> /\ ToSet(g[k]) \subseteq ToSet(r)
  /\ [k \in 1..Len(g) |-> QuestionOf(g[k][1])] \in Bijection(1..Len(g), Asked(r))

\* The answers after which the same question was answered again.
Followed(r) == {i \in 1..Len(r) : \E j \in 1..Len(r) : j > i /\ QuestionOf(r[j]) = QuestionOf(r[i])}

\* The others are the last to each question of a list.
LEMMA LastAnswers ==
  ASSUME NEW r \in Seq(Attempt)
  PROVE  /\ \A i, j \in 1..Len(r) \ Followed(r) : QuestionOf(r[i]) = QuestionOf(r[j]) => i = j
         /\ \A i \in 1..Len(r) : \E j \in 1..Len(r) \ Followed(r) : QuestionOf(r[j]) = QuestionOf(r[i])
<1> DEFINE N == Len(r)
           Z == Followed(r)
<1>0. N \in Nat
  OBVIOUS
<1>z. Z = {i \in 1..N : \E j \in 1..N : j > i /\ QuestionOf(r[j]) = QuestionOf(r[i])}
  BY DEF Followed
<1> HIDE DEF Z, N
<1>1. ASSUME NEW i \in 1..N \ Z, NEW j \in 1..N \ Z, QuestionOf(r[i]) = QuestionOf(r[j]) PROVE i = j
  <2>1. ~(j > i) /\ ~(i > j)
    BY <1>1, <1>z
  <2>2. QED
    BY <1>0, <2>1
<1>2. ASSUME NEW i \in 1..N PROVE \E j \in 1..N \ Z : QuestionOf(r[j]) = QuestionOf(r[i])
  <2> DEFINE same == {j \in 1..N : QuestionOf(r[j]) = QuestionOf(r[i])}
             T == {N - j : j \in same}
  <2>1. T \subseteq Nat /\ T # {}
    <3>1. \A j \in same : N - j \in Nat
      BY <1>0
    <3>2. i \in same
      OBVIOUS
    <3>3. QED
      BY <3>1, <3>2
  <2>2. PICK t \in T : \A y \in T : ~(y < t)
    BY <2>1, LeastNumber
  <2>3. PICK j \in same : t = N - j
    BY <2>2
  <2>4. \A k \in same : ~(k > j)
    <3>1. \A k \in same : ~(N - k < N - j)
      BY <2>2, <2>3
    <3>2. QED
      BY <1>0, <3>1
  <2>5. j \notin Z
    BY <1>z, <2>4
  <2>6. QED
    BY <2>3, <2>5
<1>3. QED
  BY <1>1, <1>2 DEF N, Z

\* The evidence of a list of answers is a group for each question.
LEMMA EvidenceIs == ASSUME NEW r \in Seq(Attempt) PROVE IsEvidence(QuestionEvidence(r), r)
<1> DEFINE N == Len(r)
           base == [i \in 1..N |-> i]
           Z == Followed(r)
           ends == Excluding(base, Z)
           Else(k) == {a \in ToSet(r) : ~(a.session = r[ends[k]].session /\ a.question = r[ends[k]].question)}
           g == [k \in DOMAIN ends |-> Excluding(r, Else(k))]
<1>0. N \in Nat /\ DOMAIN r = 1..N /\ (\A i \in 1..N : r[i] \in Attempt) /\ ToSet(r) = {r[i] : i \in 1..N}
  BY DEF ToSet
<1>1. QuestionEvidence(r) = g
  <2>1. Z = {i \in DOMAIN r : \E j \in DOMAIN r : j > i /\ r[j].session = r[i].session /\ r[j].question = r[i].question}
    BY <1>0 DEF QuestionOf, Followed
  <2>2. base = [i \in DOMAIN r |-> i]
    BY <1>0
  <2> HIDE DEF Z, base, N
  <2>3. QED
    BY <2>1, <2>2 DEF QuestionEvidence
<1>2. base \in Seq(1..N) /\ IsInjective(base) /\ ToSet(base) = 1..N
  BY <1>0 DEF IsInjective, ToSet
<1>3. ends \in Seq(1..N) /\ ToSet(ends) = 1..N \ Z /\ IsInjective(ends)
  <2> HIDE DEF base, Z, N
  <2>1. base \in Seq(1..N)
    BY <1>2
  <2>2. /\ Excluding(base, Z) \in Seq(1..N) /\ ToSet(Excluding(base, Z)) = ToSet(base) \ Z
        /\ IsInjective(base) => IsInjective(Excluding(base, Z))
    BY <2>1, ExcludingKeeps
  <2>3. QED
    BY <1>2, <2>2
<1>4. /\ \A i, j \in 1..N \ Z : QuestionOf(r[i]) = QuestionOf(r[j]) => i = j
      /\ \A i \in 1..N : \E j \in 1..N \ Z : QuestionOf(r[j]) = QuestionOf(r[i])
  BY LastAnswers
<1> DEFINE M == Len(ends)
<1>5. M \in Nat /\ DOMAIN ends = 1..M /\ \A k \in 1..M : ends[k] \in 1..N \ Z
  <2>1. M \in Nat /\ DOMAIN ends = 1..M
    <3> HIDE DEF ends, N, Z
    <3>1. QED
      BY <1>3
  <2> HIDE DEF ends, M, N, Z
  <2>2. QED
    BY <1>3, <2>1 DEF ToSet
<1>6. ASSUME NEW k \in 1..M
      PROVE  /\ Excluding(r, Else(k)) \in Seq(Attempt)
             /\ ToSet(Excluding(r, Else(k))) = {a \in ToSet(r) : QuestionOf(a) = QuestionOf(r[ends[k]])}
             /\ r[ends[k]] \in ToSet(Excluding(r, Else(k)))
  <2> DEFINE x == r[ends[k]]
             E == Else(k)
  <2>1. x \in ToSet(r)
    <3> HIDE DEF ends, M, N, Z
    <3>1. QED
      BY <1>0, <1>5
  <2>2. E = {a \in ToSet(r) : ~(a.session = x.session /\ a.question = x.question)}
    OBVIOUS
  <2> HIDE DEF x, E
  <2>3. Excluding(r, E) \in Seq(Attempt) /\ ToSet(Excluding(r, E)) = ToSet(r) \ E
    BY ExcludingKeeps
  <2>4. \A a \in ToSet(r) : a \notin E <=> QuestionOf(a) = QuestionOf(x)
    BY <2>2 DEF QuestionOf
  <2>5. QED
    BY <2>1, <2>3, <2>4 DEF x, E
<1> HIDE DEF base, Z, ends, N, M, Else
<1>7. DOMAIN g = 1..M /\ \A k \in 1..M : g[k] = Excluding(r, Else(k))
  BY <1>5
<1>8. g \in Seq(Seq(Attempt)) /\ Len(g) = M
  BY <1>5, <1>6
<1> HIDE DEF g
<1>9. ASSUME NEW k \in 1..M
      PROVE  g[k] # <<>> /\ ToSet(g[k]) \subseteq ToSet(r) /\ QuestionOf(g[k][1]) = QuestionOf(r[ends[k]])
  <2>1. g[k] \in Seq(Attempt) /\ r[ends[k]] \in ToSet(g[k])
        /\ ToSet(g[k]) = {a \in ToSet(r) : QuestionOf(a) = QuestionOf(r[ends[k]])}
    BY <1>6, <1>7
  <2> DEFINE b == g[k]
  <2> HIDE DEF b
  <2>2. b \in Seq(Attempt) /\ ToSet(b) # {} => b # <<>> /\ b[1] \in ToSet(b)
    <3>1. SUFFICES ASSUME b \in Seq(Attempt), ToSet(b) # {} PROVE b # <<>> /\ b[1] \in ToSet(b)
      OBVIOUS
    <3>2. DOMAIN b = 1..Len(b) /\ Len(b) \in Nat
      BY <3>1
    <3>3. DOMAIN b # {}
      BY <3>1 DEF ToSet
    <3>4. 1 \in DOMAIN b
      BY <3>2, <3>3
    <3>5. b # <<>>
      BY <3>2, <3>4
    <3>6. QED
      BY <3>4, <3>5 DEF ToSet
  <2>3. QED
    BY <2>1, <2>2 DEF b
<1>10. [k \in 1..M |-> QuestionOf(g[k][1])] \in Bijection(1..M, Asked(r))
  <2> DEFINE f == [k \in 1..M |-> QuestionOf(g[k][1])]
  <2>1. \A k \in 1..M : f[k] = QuestionOf(r[ends[k]])
    BY <1>9
  <2> HIDE DEF f
  <2>2. ASSUME NEW k \in 1..M PROVE f[k] \in Asked(r)
    <3>1. ends[k] \in 1..N
      BY <1>5
    <3>2. QED
      BY <1>0, <2>1, <3>1 DEF Asked
  <2>3. ASSUME NEW j \in 1..M, NEW k \in 1..M, f[j] = f[k] PROVE j = k
    <3>1. ends[j] = ends[k]
      BY <1>4, <1>5, <2>1, <2>3
    <3>2. QED
      BY <1>3, <1>5, <3>1 DEF IsInjective
  <2>4. ASSUME NEW q \in Asked(r) PROVE \E k \in 1..M : f[k] = q
    <3>1. PICK i \in 1..N : q = QuestionOf(r[i])
      BY <1>0 DEF Asked
    <3>2. PICK j \in 1..N \ Z : QuestionOf(r[j]) = q
      BY <1>4, <3>1
    <3>3. PICK k \in 1..M : ends[k] = j
      BY <1>3, <1>5 DEF ToSet
    <3>4. QED
      BY <2>1, <3>2, <3>3
  <2>5. f \in [1..M -> Asked(r)]
    BY <2>2 DEF f
  <2>6. f \in Bijection(1..M, Asked(r))
    BY <2>3, <2>4, <2>5, Fun_IsBij
  <2>7. QED
    BY <2>6 DEF f
<1>11. IsEvidence(g, r)
  BY <1>8, <1>9, <1>10 DEF IsEvidence
<1>12. QED
  BY <1>1, <1>11 DEF g

\* The first answer of a group is one of the list, and a question right at the
\* first try is right in the end.
LEMMA GroupsAre ==
  ASSUME NEW r \in Seq(Attempt), NEW g, IsEvidence(g, r), NEW k \in 1..Len(g)
  PROVE  /\ g[k] \in Seq(Attempt) /\ g[k][1] \in ToSet(r) /\ g[k][1] \in Attempt
         /\ FirstTry(g[k]) => Eventual(g[k]) /\ g[k][1].correct /\ g[k][1].number = 1
<1> DEFINE b == g[k]
<1>1. b \in Seq(Attempt) /\ b # <<>> /\ ToSet(b) \subseteq ToSet(r)
  BY DEF IsEvidence
<1> HIDE DEF b
<1>2. 1 \in DOMAIN b /\ b[1] \in Attempt
  BY <1>1
<1>3. b[1] \in ToSet(r)
  BY <1>1, <1>2 DEF ToSet
<1>4. FirstTry(b) => Eventual(b) /\ b[1].correct /\ b[1].number = 1
  BY <1>2 DEF FirstTry, Eventual
<1>5. QED
  BY <1>1, <1>2, <1>3, <1>4 DEF b

\* There are as many groups as questions asked.
LEMMA GroupsAreCounted ==
  ASSUME NEW r \in Seq(Attempt), NEW g, IsEvidence(g, r)
  PROVE  IsFiniteSet(Asked(r)) /\ Cardinality(Asked(r)) = Len(g) /\ Len(g) \in Nat /\ DOMAIN g = 1..Len(g)
<1>1. g \in Seq(Seq(Attempt)) /\ Bijection(1..Len(g), Asked(r)) # {}
  BY DEF IsEvidence
<1>2. Len(g) \in Nat /\ DOMAIN g = 1..Len(g)
  BY <1>1
<1>3. IsFiniteSet(1..Len(g)) /\ Cardinality(1..Len(g)) = Len(g)
  BY <1>2, CountUpTo
<1>4. ExistsBijection(1..Len(g), Asked(r))
  BY <1>1 DEF ExistsBijection
<1>5. QED
  BY <1>2, <1>3, <1>4, FS_Bijection

\* What is counted right, first or in the end.
LEMMA RightsAre ==
  ASSUME NEW r \in Seq(Attempt), NEW g, IsEvidence(g, r)
  PROVE  /\ FirstRight(g) \in Nat /\ EventuallyRight(g) \in Nat
         /\ FirstRight(g) <= EventuallyRight(g) /\ EventuallyRight(g) <= Len(g)
<1> DEFINE F == {k \in DOMAIN g : FirstTry(g[k])}
           E == {k \in DOMAIN g : Eventual(g[k])}
<1>1. DOMAIN g = 1..Len(g) /\ Len(g) \in Nat
  BY GroupsAreCounted
<1>2. IsFiniteSet(1..Len(g)) /\ Cardinality(1..Len(g)) = Len(g)
  BY <1>1, CountUpTo
<1>3. E \subseteq 1..Len(g) /\ F \subseteq E
  BY <1>1, GroupsAre
<1>4. FirstRight(g) = Cardinality(F) /\ EventuallyRight(g) = Cardinality(E)
  BY DEF FirstRight, EventuallyRight
<1> HIDE DEF E, F
<1>5. IsFiniteSet(E) /\ Cardinality(E) <= Len(g)
  BY <1>2, <1>3, FS_Subset
<1>6. IsFiniteSet(F) /\ Cardinality(F) <= Cardinality(E)
  BY <1>3, <1>5, FS_Subset
<1>7. QED
  BY <1>4, <1>5, <1>6, FS_CardinalityType

\* The last groups are groups of the list, and not more of them are right.
LEMMA LastGroupsAre ==
  ASSUME NEW r \in Seq(Attempt), NEW g, IsEvidence(g, r), NEW n \in Nat
  PROVE  /\ Len(LastOf(g, n)) \in Nat /\ Len(LastOf(g, n)) <= Len(g) /\ DOMAIN LastOf(g, n) = 1..Len(LastOf(g, n))
         /\ \A k \in 1..Len(LastOf(g, n)) : \E j \in 1..Len(g) : LastOf(g, n)[k] = g[j]
         /\ EventuallyRight(LastOf(g, n)) <= EventuallyRight(g)
<1> DEFINE l == LastOf(g, n)
<1>1. g \in Seq(Seq(Attempt)) /\ Len(g) \in Nat /\ DOMAIN g = 1..Len(g)
  BY GroupsAreCounted DEF IsEvidence
<1>2. l \in Seq(Seq(Attempt)) /\ \E m \in 0..Len(g) : Len(l) = Len(g) - m /\ \A i \in 1..(Len(g) - m) : l[i] = g[i + m]
  BY <1>1, LastOfIs, ZenonT(60)
<1>3. PICK m \in 0..Len(g) : Len(l) = Len(g) - m /\ \A i \in 1..(Len(g) - m) : l[i] = g[i + m]
  BY <1>2
<1> HIDE DEF l
<1>4. Len(l) \in Nat /\ DOMAIN l = 1..Len(l)
  BY <1>2
<1>5. Len(l) <= Len(g) /\ \A k \in 1..Len(l) : k + m \in 1..Len(g) /\ l[k] = g[k + m]
  BY <1>1, <1>3, <1>4
<1>6. EventuallyRight(l) <= EventuallyRight(g)
  <2> DEFINE S == {k \in DOMAIN l : Eventual(l[k])}
             T == {k \in DOMAIN g : Eventual(g[k])}
             f == [k \in S |-> k + m]
  <2>1. \A k \in S : k + m \in T
    BY <1>1, <1>4, <1>5
  <2>2. S \subseteq Int /\ m \in Int
    BY <1>3, <1>4
  <2>3. T \subseteq 1..Len(g)
    BY <1>1
  <2>4. EventuallyRight(l) = Cardinality(S) /\ EventuallyRight(g) = Cardinality(T)
    BY DEF EventuallyRight
  <2> HIDE DEF S, T
  <2>5. f \in [S -> T] /\ \A i, j \in S : f[i] = f[j] => i = j
    BY <2>1, <2>2
  <2> HIDE DEF f
  <2>6. f \in Injection(S, T)
    BY <2>5, Fun_IsInj
  <2>7. IsFiniteSet(1..Len(g))
    BY <1>1, CountUpTo
  <2>8. IsFiniteSet(T)
    BY <2>3, <2>7, FS_Subset
  <2>9. QED
    BY <2>4, <2>6, <2>8, FS_Injection
<1>7. QED
  BY <1>4, <1>5, <1>6 DEF l

\* What is mastered was asked often enough, and right at the first try once at least.
LEMMA MasteryIsEarned ==
  ASSUME NEW r \in Seq(Attempt), SummarizeMastery(r) = "mastered"
  PROVE  /\ IsFiniteSet(Asked(r)) /\ Cardinality(Asked(r)) >= MinEvidence
         /\ \E a \in ToSet(r) : a.correct /\ a.number = 1
<1> DEFINE g == QuestionEvidence(r)
           l == LastOf(g, EvidenceLimit)
<1>0. EvidenceLimit \in Nat /\ MinEvidence \in Nat \ {0}
  BY ProgressConstants DEF ProgressConstants
<1>1. /\ ~(Len(l) < MinEvidence) /\ FirstRight(l) * 5 >= Len(l) * 3
  BY DEF SummarizeMastery
<1>2. IsEvidence(g, r)
  BY EvidenceIs
<1> HIDE DEF g
<1>3. /\ Len(l) \in Nat /\ Len(l) <= Len(g) /\ DOMAIN l = 1..Len(l)
      /\ \A k \in 1..Len(l) : \E j \in 1..Len(g) : l[k] = g[j]
  BY <1>0, <1>2, LastGroupsAre
<1>4. IsFiniteSet(Asked(r)) /\ Cardinality(Asked(r)) = Len(g) /\ Len(g) \in Nat
  BY <1>2, GroupsAreCounted
<1> HIDE DEF l
<1>5. \E k \in 1..Len(l) : FirstTry(l[k])
  <2>1. SUFFICES ASSUME {k \in DOMAIN l : FirstTry(l[k])} = {} PROVE FALSE
    BY <1>3
  <2>2. FirstRight(l) = 0
    BY <2>1, FS_EmptySet DEF FirstRight
  <2>3. Len(l) >= 1
    BY <1>0, <1>1, <1>3
  <2>4. QED
    BY <1>1, <1>3, <2>2, <2>3
<1>6. \E a \in ToSet(r) : a.correct /\ a.number = 1
  <2>1. PICK k \in 1..Len(l), j \in 1..Len(g) : FirstTry(l[k]) /\ l[k] = g[j]
    BY <1>3, <1>5
  <2>2. g[j][1] \in ToSet(r) /\ g[j][1].correct /\ g[j][1].number = 1
    BY <1>2, <2>1, GroupsAre
  <2>3. QED
    BY <2>2
<1>7. QED
  BY <1>0, <1>1, <1>3, <1>4, <1>6

\* The answers a plan's report counts are its learner's.
LEMMA PlanAttemptsAre ==
  ASSUME ProgressInv, NEW p \in PlanId, NEW lesson
  PROVE  /\ PlanAttempts(p) \in Seq(Attempt) /\ OfLesson(PlanAttempts(p), lesson) \in Seq(Attempt)
         /\ ToSet(PlanAttempts(p)) \subseteq {a \in ToSet(attempts) : a.learner = plans[p].owner}
         /\ ToSet(OfLesson(PlanAttempts(p), lesson)) \subseteq {a \in ToSet(PlanAttempts(p)) : a.lesson = lesson}
<1> DEFINE D == {a \in ToSet(attempts) : \/ a.learner # plans[p].owner \/ a.plan \notin {p, NoPlan}
                                         \/ a.lesson \notin ToSet(plans[p].lessons)}
<1>1. attempts \in Seq(Attempt) /\ PlanAttempts(p) = Excluding(attempts, D)
  BY DEF ProgressInv, ProgressTyped, PlanAttempts
<1>2. \A a \in ToSet(attempts) \ D : a.learner = plans[p].owner
  OBVIOUS
<1> HIDE DEF D
<1>3. PlanAttempts(p) \in Seq(Attempt) /\ ToSet(PlanAttempts(p)) = ToSet(attempts) \ D
  BY <1>1, ExcludingKeeps
<1> DEFINE b == PlanAttempts(p)
           E == {a \in ToSet(b) : a.lesson # lesson}
<1>4. OfLesson(b, lesson) = Excluding(b, E) /\ \A a \in ToSet(b) \ E : a.lesson = lesson
  BY DEF OfLesson
<1> HIDE DEF b, E
<1>5. b \in Seq(Attempt) => Excluding(b, E) \in Seq(Attempt) /\ ToSet(Excluding(b, E)) = ToSet(b) \ E
  BY ExcludingKeeps
<1>6. QED
  BY <1>2, <1>3, <1>4, <1>5 DEF b

\* Scores and mastery are earned.
LEMMA ScoresEarned == ASSUME ProgressInv PROVE ScoresAreEarned
<1>1. attempts \in Seq(Attempt)
  BY DEF ProgressInv, ProgressTyped
<1>2. ASSUME NEW k \in DOMAIN QuestionEvidence(attempts), FirstTry(QuestionEvidence(attempts)[k])
      PROVE  <<QuestionEvidence(attempts)[k][1].session, QuestionEvidence(attempts)[k][1].question, TRUE>> \in firstAnswers
  <2> DEFINE g == QuestionEvidence(attempts)
             a == g[k][1]
  <2>1. IsEvidence(g, attempts)
    BY <1>1, EvidenceIs
  <2> HIDE DEF g
  <2>2. DOMAIN g = 1..Len(g)
    BY <1>1, <2>1, GroupsAreCounted
  <2>3. k \in 1..Len(g) /\ FirstTry(g[k])
    BY <1>2, <2>2 DEF g
  <2>4. a \in ToSet(attempts) /\ a \in Attempt /\ a.correct /\ a.number = 1
    BY <1>1, <2>1, <2>3, GroupsAre
  <2> HIDE DEF a
  <2>5. a.correct = TRUE
    BY <2>4 DEF Attempt
  <2>6. <<a.session, a.question, a.correct>> \in firstAnswers
    BY <2>4 DEF ProgressInv, FirstsKnown
  <2>7. <<a.session, a.question, TRUE>> \in firstAnswers
    BY <2>5, <2>6
  <2>8. QED
    BY <2>7 DEF a, g
<1>3. ASSUME NEW p \in PlanId, NEW lesson \in Lesson, SummarizeMastery(OfLesson(PlanAttempts(p), lesson)) = "mastered"
      PROVE  Cardinality({<<a.session, a.question>> : a \in {b \in ToSet(attempts) : b.lesson = lesson}}) >= MinEvidence
  <2> DEFINE r == OfLesson(PlanAttempts(p), lesson)
             S == {<<a.session, a.question>> : a \in {b \in ToSet(attempts) : b.lesson = lesson}}
  <2>1. r \in Seq(Attempt) /\ ToSet(r) \subseteq {b \in ToSet(attempts) : b.lesson = lesson}
    BY PlanAttemptsAre
  <2>2. IsFiniteSet(Asked(r)) /\ Cardinality(Asked(r)) >= MinEvidence /\ MinEvidence \in Nat
    BY <1>3, <2>1, MasteryIsEarned, ProgressConstants DEF ProgressConstants
  <2>3. Asked(r) \subseteq S /\ S \subseteq Asked(attempts)
    BY <2>1 DEF Asked, QuestionOf
  <2>4. IsFiniteSet(Asked(attempts))
    BY <1>1, EvidenceIs, GroupsAreCounted
  <2> HIDE DEF r, S
  <2>5. IsFiniteSet(S)
    BY <2>3, <2>4, FS_Subset
  <2>6. Cardinality(Asked(r)) <= Cardinality(S)
    BY <2>3, <2>5, FS_Subset
  <2>7. Cardinality(S) \in Nat /\ Cardinality(Asked(r)) \in Nat
    BY <2>2, <2>5, FS_CardinalityType
  <2>8. Cardinality(S) >= MinEvidence
    BY <2>2, <2>6, <2>7
  <2>9. QED
    BY <2>8 DEF S
<1>4. QED
  BY <1>2, <1>3 DEF ScoresAreEarned


\* A right answer at the first try, known as such: the question it is to.
LEMMA FirstTryKnown ==
  ASSUME ProgressInv, NEW a \in ToSet(attempts), a.correct, a.number = 1
  PROVE  <<QuestionOf(a)[1], QuestionOf(a)[2], TRUE>> \in firstAnswers
<1>1. a \in Attempt
  BY RecordsAre DEF ProgressInv
<1>2. a.correct = TRUE
  BY <1>1 DEF Attempt
<1>3. <<a.session, a.question, a.correct>> \in firstAnswers
  BY DEF ProgressInv, FirstsKnown
<1>4. QED
  BY <1>2, <1>3 DEF QuestionOf

\* Not more questions are counted right at the first try than were.
LEMMA FirstRightKnown ==
  ASSUME ProgressInv, NEW r \in Seq(Attempt), ToSet(r) \subseteq ToSet(attempts), NEW g, IsEvidence(g, r)
  PROVE  FirstRight(g) <= Cardinality({q \in Asked(r) : <<q[1], q[2], TRUE>> \in firstAnswers})
<1> DEFINE F == {k \in DOMAIN g : FirstTry(g[k])}
           K == {q \in Asked(r) : <<q[1], q[2], TRUE>> \in firstAnswers}
           b == [k \in 1..Len(g) |-> QuestionOf(g[k][1])]
           f == [k \in F |-> b[k]]
<1>1. IsFiniteSet(Asked(r)) /\ DOMAIN g = 1..Len(g)
  BY GroupsAreCounted
<1>2. b \in Bijection(1..Len(g), Asked(r))
  BY DEF IsEvidence
<1>3. F \subseteq 1..Len(g) /\ FirstRight(g) = Cardinality(F)
  BY <1>1 DEF FirstRight
<1>4. ASSUME NEW k \in F PROVE b[k] \in K
  <2>1. k \in 1..Len(g) /\ FirstTry(g[k])
    BY <1>1
  <2>2. g[k][1] \in ToSet(attempts) /\ g[k][1].correct /\ g[k][1].number = 1 /\ g[k][1] \in ToSet(r)
    BY <2>1, GroupsAre
  <2>3. <<QuestionOf(g[k][1])[1], QuestionOf(g[k][1])[2], TRUE>> \in firstAnswers
    BY <2>2, FirstTryKnown
  <2>4. b[k] = QuestionOf(g[k][1])
    BY <2>1
  <2>5. QED
    BY <2>2, <2>3, <2>4 DEF Asked
<1> HIDE DEF b
<1>5. \A i, j \in 1..Len(g) : b[i] = b[j] => i = j
  BY <1>2 DEF Bijection, Injection, IsInjective
<1> HIDE DEF F, K
<1>6. f \in [F -> K] /\ \A i, j \in F : f[i] = f[j] => i = j
  BY <1>3, <1>4, <1>5
<1> HIDE DEF f
<1>7. f \in Injection(F, K)
  BY <1>6, Fun_IsInj
<1>8. K \subseteq Asked(r)
  BY DEF K
<1>9. IsFiniteSet(K)
  BY <1>1, <1>8, FS_Subset
<1>10. Cardinality(F) <= Cardinality(K)
  BY <1>7, <1>9, FS_Injection
<1>11. QED
  BY <1>3, <1>10 DEF K

\* The report of a learner counts what was earned, and nothing is missing from it.
LEMMA ReportEarned == ASSUME ProgressInv PROVE ReportIsEarned
<1> SUFFICES ASSUME NEW l \in Learner
             PROVE  LET stats == ProfileStats(l)
                        mine == {a \in ToSet(attempts) : a.learner = l}
                        questions == {<<a.session, a.question>> : a \in mine}
                    IN  /\ stats.questions = Cardinality(questions) /\ stats.recent <= stats.eventual
                        /\ stats.first <= Cardinality({q \in questions : <<q[1], q[2], TRUE>> \in firstAnswers})
                        /\ stats.first <= stats.eventual /\ stats.eventual <= stats.questions
                        /\ \A p \in DOMAIN stats.completed :
                               /\ ToSet(PlanAttempts(p)) \subseteq mine
                               /\ \A lesson \in stats.completed[p] :
                                     \E q \in questions : <<q[1], q[2], TRUE>> \in firstAnswers
  BY DEF ReportIsEarned
<1> DEFINE stats == ProfileStats(l)
           mine == {a \in ToSet(attempts) : a.learner = l}
           questions == {<<a.session, a.question>> : a \in mine}
           D == {a \in ToSet(attempts) : a.learner # l}
           m == Excluding(attempts, D)
           g == QuestionEvidence(m)
           completed == [p \in {q \in PlanId : plans[q].owner = l} |->
                           {lesson \in ToSet(plans[p].lessons) :
                                SummarizeMastery(OfLesson(PlanAttempts(p), lesson)) = "mastered"}]
<1>1. /\ stats.questions = Len(g) /\ stats.first = FirstRight(g) /\ stats.eventual = EventuallyRight(g)
      /\ stats.recent = EventuallyRight(LastOf(g, 5)) /\ stats.completed = completed
  BY DEF ProfileStats
<1>2. attempts \in Seq(Attempt)
  BY DEF ProgressInv, ProgressTyped
<1>3. m \in Seq(Attempt) /\ ToSet(m) = mine
  <2>1. ToSet(attempts) \ D = mine
    OBVIOUS
  <2> HIDE DEF D, mine
  <2>2. QED
    BY <1>2, <2>1, ExcludingKeeps
<1>4. questions = Asked(m)
  BY <1>3 DEF Asked, QuestionOf
<1>5. mine \subseteq ToSet(attempts)
  OBVIOUS
<1> HIDE DEF m
<1>6. IsEvidence(g, m)
  BY <1>3, EvidenceIs
<1>7. ASSUME NEW p \in DOMAIN stats.completed
      PROVE  /\ ToSet(PlanAttempts(p)) \subseteq mine
             /\ \A lesson \in stats.completed[p] : \E q \in questions : <<q[1], q[2], TRUE>> \in firstAnswers
  <2>1. p \in PlanId /\ plans[p].owner = l
    BY <1>1, <1>7
  <2>2. ToSet(PlanAttempts(p)) \subseteq mine
    BY <2>1, PlanAttemptsAre
  <2>3. ASSUME NEW lesson \in stats.completed[p] PROVE \E q \in questions : <<q[1], q[2], TRUE>> \in firstAnswers
    <3> DEFINE r == OfLesson(PlanAttempts(p), lesson)
    <3>1. SummarizeMastery(r) = "mastered"
      BY <1>1, <2>1, <2>3
    <3>2. r \in Seq(Attempt) /\ ToSet(r) \subseteq ToSet(PlanAttempts(p))
      BY <2>1, PlanAttemptsAre
    <3> HIDE DEF r
    <3>3. PICK a \in ToSet(r) : a.correct /\ a.number = 1
      BY <3>1, <3>2, MasteryIsEarned
    <3>4. a \in mine /\ a \in ToSet(attempts)
      BY <1>5, <2>2, <3>2
    <3>5. QuestionOf(a) \in questions
      BY <3>4 DEF QuestionOf
    <3>6. <<QuestionOf(a)[1], QuestionOf(a)[2], TRUE>> \in firstAnswers
      BY <3>3, <3>4, FirstTryKnown
    <3> HIDE DEF questions
    <3>7. QED
      BY <3>5, <3>6
  <2>4. QED
    BY <2>2, <2>3
<1> HIDE DEF g
<1>8. Cardinality(Asked(m)) = Len(g)
  BY <1>3, <1>6, GroupsAreCounted
<1>9. FirstRight(g) <= EventuallyRight(g) /\ EventuallyRight(g) <= Len(g)
  BY <1>3, <1>6, RightsAre
<1>10. EventuallyRight(LastOf(g, 5)) <= EventuallyRight(g)
  BY <1>3, <1>6, LastGroupsAre
<1>11. FirstRight(g) <= Cardinality({q \in Asked(m) : <<q[1], q[2], TRUE>> \in firstAnswers})
  BY <1>3, <1>5, <1>6, FirstRightKnown
<1> HIDE DEF stats, mine, questions, completed
<1>12. /\ stats.questions = Cardinality(questions) /\ stats.recent <= stats.eventual
       /\ stats.first <= Cardinality({q \in questions : <<q[1], q[2], TRUE>> \in firstAnswers})
       /\ stats.first <= stats.eventual /\ stats.eventual <= stats.questions
  BY <1>1, <1>4, <1>8, <1>9, <1>10, <1>11
<1>13. QED
  BY <1>7, <1>12 DEF stats, mine, questions

\* What the store promises of a child's record holds for any number of learners, plans, lessons and
\* sessions, and any limits: no sequence of operations locks the store out at the next start, a kept
\* session and the history tell one story, and reports give no credit that was not earned
\* (store.py, engine.py and analytics.py).
THEOREM RecordKept == ProgressSpec => []RecordIsKept
<1>1. ProgressInit => ProgressInv
  BY ProgressBegins
<1>2. ProgressInv /\ [ProgressNext]_progressVars => ProgressInv'
  BY ProgressStep
<1>3. ProgressInv => RecordIsKept
  <2>1. SUFFICES ASSUME ProgressInv PROVE RecordIsKept
    OBVIOUS
  <2>2. NeverLocksItselfOut
    BY <2>1 DEF NeverLocksItselfOut, ProgressInv
  <2>3. QED
    BY <2>1, <2>2, RecordTyped, HistoryFits, ScoresEarned, ReportEarned DEF RecordIsKept
<1>4. QED
  BY <1>1, <1>2, <1>3, PTL DEF ProgressSpec

(***************************************************************************)
(* Twenty Questions                                                        *)
(***************************************************************************)

Exchange == [question : Question, answer : Reply, usable : BOOLEAN]
LearnedRows == [Question -> Reply]
Catalogs == UNION {[os -> Row] : os \in SUBSET Object}
Overlays == UNION {[os -> LearnedRows] : os \in SUBSET Object}
Split == (SUBSET Object) \X (SUBSET Object) \X (SUBSET Object)
GameRecord ==
    [active : BOOLEAN, reveal : BOOLEAN, question : 0..Questions, guess : Object \union {NoObject},
     catalog : Catalogs, history : Seq(Exchange), asked : SUBSET Question, partitions : SUBSET Split,
     pool : SUBSET Object, prompts : 0..TotalLimit, bonus : BOOLEAN, bonusPrompts : Nat,
     tried : SUBSET {"normal", "final", "bonus", "bonus guess"}, request : {"none", "normal", "final", "bonus"},
     attempted : SUBSET Object, mixed : BOOLEAN]

\* An answer that counted is a hard one.
HistoryOK(h) == h \in Seq(Exchange) /\ \A i \in DOMAIN h : h[i].usable => h[i].answer \in Hard
\* An overlay row of a base object says something of it.
OverlayOK(rows) == rows \in Overlays /\ \A o \in DOMAIN rows : o \in DOMAIN Base => rows[o] # Unknowns
LearnedOK(l) ==
    /\ l \in [rows : Overlays, enabled : BOOLEAN] /\ OverlayOK(l.rows) /\ (~l.enabled => l.rows = <<>>)
    /\ IsFiniteSet(DOMAIN l.rows)

\* What fits every answer given, and was not guessed, is in the pool.
Fitting(g) ==
    \A o \in DOMAIN g.catalog :
        o \in g.pool \/ o \in g.attempted
        \/ \E i \in DOMAIN g.history : /\ g.history[i].answer # "unknown"
                                       /\ g.catalog[o][g.history[i].question] \notin {g.history[i].answer} \union Wild

LEMMA TwentyNumbers ==
  /\ Questions \in Nat \ {0} /\ InformativeLimit \in Nat \ {0} /\ TotalLimit \in Nat \ {0} /\ BonusCount \in Nat \ {0}
  BY TwentyConstants DEF TwentyConstants

LEMMA BaseIs ==
  /\ DOMAIN Base \subseteq Object /\ DOMAIN Base # {} /\ NoObject \notin Object
  /\ \A o \in DOMAIN Base : Base[o] \in [Question -> Hard \union {"often"}]
  BY TwentyConstants DEF TwentyConstants

LEMMA CatalogIs ==
  ASSUME NEW c \in Catalogs PROVE DOMAIN c \subseteq Object /\ \A o \in DOMAIN c : c[o] \in Row
  BY DEF Catalogs

LEMMA OverlayIs ==
  ASSUME NEW rows \in Overlays PROVE DOMAIN rows \subseteq Object /\ \A o \in DOMAIN rows : rows[o] \in LearnedRows
  BY DEF Overlays

\* The answers of a row: the base's, the overlay's, and the two together.
LEMMA RowsAre ==
  ASSUME NEW rows \in Overlays, NEW o
  PROVE  /\ Overlay(rows, o) \in LearnedRows /\ BaseRow(o) \in Row
         /\ \A q \in Question : EffectiveAnswer(rows, o, q) \in Hard \union Wild
<1>1. Unknowns \in LearnedRows /\ Unknowns \in Row
  BY DEF Unknowns, LearnedRows, Row, Reply, Wild
<1>2. Overlay(rows, o) \in LearnedRows
  BY <1>1, OverlayIs DEF Overlay
<1>3. BaseRow(o) \in Row
  <2>1. CASE o \in DOMAIN Base
    <3>1. Base[o] \in [Question -> Hard \union {"often"}]
      BY <2>1, BaseIs
    <3>2. QED
      BY <2>1, <3>1 DEF BaseRow, Row, Wild
  <2>2. CASE o \notin DOMAIN Base
    BY <1>1, <2>2 DEF BaseRow
  <2>3. QED
    BY <2>1, <2>2
<1>4. QED
  BY <1>2, <1>3 DEF EffectiveAnswer, LearnedRows, Row, Reply

\* The catalogue of a game, for any overlay.
LEMMA CatalogTyped ==
  ASSUME NEW rows \in Overlays
  PROVE  Catalog(rows) \in Catalogs /\ DOMAIN Catalog(rows) = DOMAIN Base \union DOMAIN rows
<1> DEFINE os == DOMAIN Base \union DOMAIN rows
<1>1. os \in SUBSET Object
  BY BaseIs, OverlayIs
<1>2. \A o \in os : [q \in Question |-> EffectiveAnswer(rows, o, q)] \in Row
  BY RowsAre DEF Row
<1>3. Catalog(rows) \in [os -> Row]
  BY <1>2 DEF Catalog
<1>4. Catalog(rows) \in Catalogs
  BY <1>1, <1>3 DEF Catalogs
<1>5. QED
  BY <1>3, <1>4

\* What the history says of a question is a hard answer or nothing.
LEMMA ObservedIs ==
  ASSUME NEW h, HistoryOK(h), NEW q
  PROVE  Observed(h, q) \in Reply
<1> DEFINE told == {i \in DOMAIN h : h[i].question = q /\ h[i].usable}
<1>1. CASE told = {}
  BY <1>1 DEF Observed, Reply
<1>2. CASE told # {}
  <2>1. told \subseteq Nat /\ told \subseteq DOMAIN h
    BY DEF HistoryOK
  <2>2. PICK x \in told : \A y \in told : ~(y < x)
    BY <1>2, <2>1, LeastNumber
  <2>3. \A y \in told : x <= y
    BY <2>1, <2>2
  <2>4. (CHOOSE i \in told : \A j \in told : i <= j) \in told
    BY <2>2, <2>3
  <2>5. Observed(h, q) = h[CHOOSE i \in told : \A j \in told : i <= j].answer
    BY <1>2 DEF Observed
  <2>6. \A i \in told : h[i].answer \in Hard
    BY DEF HistoryOK
  <2>7. QED
    BY <2>4, <2>5, <2>6 DEF Reply
<1>3. QED
  BY <1>1, <1>2

\* What learning makes of a row: what it was sure of stays, and a row that is
\* empty was empty before.
LEMMA LearnedRowIs ==
  ASSUME NEW rows \in Overlays, NEW o, NEW h, HistoryOK(h)
  PROVE  /\ LearnedRow(rows, o, h) \in LearnedRows
         /\ \A q \in Question : Overlay(rows, o)[q] # "unknown" => LearnedRow(rows, o, h)[q] = Overlay(rows, o)[q]
         /\ LearnedRow(rows, o, h) = Unknowns => Overlay(rows, o) = Unknowns
<1> DEFINE old == Overlay(rows, o)
           row == LearnedRow(rows, o, h)
<1>1. old \in LearnedRows
  BY RowsAre
<1>2. \A q \in Question : Observed(h, q) \in Reply
  BY ObservedIs
<1>3. \A q \in Question : old[q] # "unknown" => old[q] \in Hard
  BY <1>1 DEF LearnedRows, Reply
<1>4. \A q \in Question : /\ row[q] = old[q] \/ (row[q] = Observed(h, q) /\ Observed(h, q) # "unknown")
                          /\ old[q] \in Hard => row[q] = old[q]
  BY DEF LearnedRow
<1>5. row \in LearnedRows
  <2>1. row = [q \in Question |-> row[q]]
    BY DEF LearnedRow
  <2>2. \A q \in Question : row[q] \in Reply
    BY <1>1, <1>2, <1>4 DEF LearnedRows
  <2> HIDE DEF row
  <2>3. QED
    BY <2>1, <2>2 DEF LearnedRows
<1>6. ASSUME row = Unknowns PROVE old = Unknowns
  <2>1. \A q \in Question : row[q] = "unknown"
    BY <1>6 DEF Unknowns
  <2>2. \A q \in Question : old[q] = "unknown"
    BY <1>4, <2>1
  <2> HIDE DEF old
  <2>3. QED
    BY <1>1, <2>2 DEF Unknowns, LearnedRows
<1>7. QED
  BY <1>3, <1>4, <1>5, <1>6

\* Whatever is learnt, the answers known before are.
Keeps(old, new) ==
    \A o \in Object, q \in Question :
        EffectiveAnswer(old, o, q) \in Hard => EffectiveAnswer(new, o, q) = EffectiveAnswer(old, o, q)

LEMMA LearnKeeps ==
  ASSUME LearnedOK(learned), NEW o \in Object, NEW h, HistoryOK(h), Learn(o, h)
  PROVE  LearnedOK(learned') /\ Keeps(learned.rows, learned'.rows)
<1> DEFINE rows == learned.rows
           row == LearnedRow(rows, o, h)
           new == [p \in DOMAIN rows \union {o} |-> IF p = o THEN row ELSE rows[p]]
           changed == row # Overlay(rows, o) \/ o \notin DOMAIN Base \union DOMAIN rows
<1>1. rows \in Overlays /\ OverlayOK(rows)
  BY DEF LearnedOK
<1>2. CASE learned' = learned
  BY <1>2 DEF Keeps
<1>3. CASE learned.enabled /\ changed /\ learned' = [learned EXCEPT !.rows = new]
  <2>1. learned'.rows = new /\ learned'.enabled = learned.enabled
    BY <1>3 DEF LearnedOK
  <2>2. /\ row \in LearnedRows
        /\ \A q \in Question : Overlay(rows, o)[q] # "unknown" => row[q] = Overlay(rows, o)[q]
        /\ row = Unknowns => Overlay(rows, o) = Unknowns
    BY <1>1, LearnedRowIs
  <2>3. DOMAIN rows \subseteq Object /\ \A p \in DOMAIN rows : rows[p] \in LearnedRows
    BY <1>1, OverlayIs
  <2> HIDE DEF row
  <2>4. new \in Overlays
    <3>1. new \in [DOMAIN rows \union {o} -> LearnedRows]
      BY <2>2, <2>3
    <3>2. DOMAIN rows \union {o} \in SUBSET Object
      BY <2>3
    <3>3. QED
      BY <3>1, <3>2 DEF Overlays
  <2>5. o \in DOMAIN Base => row # Unknowns
    <3>1. CASE o \in DOMAIN rows
      BY <1>1, <2>2, <3>1 DEF OverlayOK, Overlay
    <3>2. CASE o \notin DOMAIN rows
      BY <1>3, <2>2, <3>2 DEF Overlay
    <3>3. QED
      BY <3>1, <3>2
  <2>6. LearnedOK(learned')
    <3>1. OverlayOK(new)
      BY <1>1, <2>4, <2>5 DEF OverlayOK
    <3>4. IsFiniteSet(DOMAIN new)
      BY FS_AddElement DEF LearnedOK
    <3> HIDE DEF new, rows, changed
    <3>2. learned' \in [rows : Overlays, enabled : BOOLEAN]
      BY <1>3, <2>4 DEF LearnedOK
    <3>3. QED
      BY <1>3, <2>1, <3>1, <3>2, <3>4 DEF LearnedOK
  <2>7. \A p \in Object : Overlay(new, p) = IF p = o THEN row ELSE Overlay(rows, p)
    BY DEF Overlay
  <2>8. Keeps(rows, new)
    <3> HIDE DEF new, rows, changed
    <3>1. "unknown" \notin Hard
      BY DEF Hard
    <3>2. QED
      BY <2>2, <2>7, <3>1 DEF Keeps, EffectiveAnswer
  <2>9. QED
    BY <2>1, <2>6, <2>8
<1>4. QED
  BY <1>2, <1>3 DEF Learn

\* A line of an overlay file put to those before it, as LoadLearned does.
LineRows(rows, l) ==
    [o \in DOMAIN rows \union {l.name} |->
        IF o # l.name THEN rows[o]
        ELSE IF o \in DOMAIN rows THEN MergeRows(rows[o], l.row) ELSE l.row]
FoldBody(lines, iter) ==
    [s \in SUBSET DOMAIN lines |-> IF s = {} THEN <<>> ELSE LET x == Max(s) IN LineRows(iter[s \ {x}], lines[x])]
Folded(lines) == CHOOSE iter : iter = FoldBody(lines, iter)

LEMMA LoadedIs ==
  ASSUME NEW lines, \A i \in DOMAIN lines : lines[i].row \in Row
  PROVE  LoadLearned(lines) = [rows |-> Folded(lines)[DOMAIN lines], enabled |-> TRUE]
<1> DEFINE Line(rows, l) == [o \in DOMAIN rows \union {l.name} |->
                               IF o # l.name THEN rows[o]
                               ELSE IF o \in DOMAIN rows THEN MergeRows(rows[o], l.row) ELSE l.row]
<1>1. FoldLeft(Line, <<>>, lines) = Folded(lines)[DOMAIN lines]
  BY Zenon DEF FoldLeft, MapThenFoldSet, Folded, FoldBody, LineRows
<1>2. QED
  BY <1>1 DEF LoadLearned

\* The rows of an overlay, one line each in any order, are read back as they are.
LEMMA RowsReadBack ==
  ASSUME NEW rows \in Overlays, NEW n \in Nat, NEW lines, DOMAIN lines = 1..n,
         \A i \in 1..n : lines[i].name \in DOMAIN rows /\ lines[i].row = rows[lines[i].name],
         \A i, j \in 1..n : lines[i].name = lines[j].name => i = j
  PROVE  Folded(lines)[1..n] = [o \in {lines[i].name : i \in 1..n} |-> rows[o]]
<1> DEFINE Names(s) == {lines[i].name : i \in s}
           g == [s \in SUBSET (1..n) |-> [o \in Names(s) |-> rows[o]]]
           f == Folded(lines)
<1>1. ASSUME NEW s \in SUBSET (1..n), NEW x \in s
      PROVE  LineRows([o \in Names(s \ {x}) |-> rows[o]], lines[x]) = [o \in Names(s) |-> rows[o]]
  <2>1. Names(s) = Names(s \ {x}) \union {lines[x].name}
    <3> HIDE DEF g, f
    <3>1. s = (s \ {x}) \union {x}
      OBVIOUS
    <3>2. Names((s \ {x}) \union {x}) = Names(s \ {x}) \union Names({x})
      OBVIOUS
    <3>3. Names({x}) = {lines[x].name}
      OBVIOUS
    <3>4. QED
      BY <3>1, <3>2, <3>3
  <2>4. lines[x].name \notin Names(s \ {x})
    <3>1. \A i \in s \ {x} : i \in 1..n /\ i # x
      OBVIOUS
    <3>2. \A i \in s \ {x} : lines[i].name # lines[x].name
      BY <3>1
    <3>3. QED
      BY <3>2
  <2>2. lines[x].row = rows[lines[x].name]
    OBVIOUS
  <2> HIDE DEF Names
  <2>3. QED
    BY <2>1, <2>2, <2>4 DEF LineRows
<1>2. \A s \in SUBSET (1..n) : s # {} => Max(s) \in s
  <2> SUFFICES ASSUME NEW s \in SUBSET (1..n), s # {} PROVE \E x \in s : \A y \in s : x >= y
    BY DEF Max
  <2> DEFINE T == {n - y : y \in s}
  <2>6. \A y \in s : y \in 1..n /\ n - y \in Nat
    OBVIOUS
  <2>1. T \subseteq Nat /\ T # {}
    <3>1. T \subseteq Nat
      BY <2>6
    <3>2. PICK y \in s : TRUE
      OBVIOUS
    <3>3. n - y \in T
      OBVIOUS
    <3>4. QED
      BY <3>1, <3>3
  <2>2. PICK z \in T : \A y \in T : ~(y < z)
    BY <2>1, LeastNumber
  <2>3. PICK x \in s : z = n - x
    OBVIOUS
  <2>4. \A y \in s : ~(n - y < n - x)
    BY <2>2, <2>3
  <2>5. QED
    BY <2>6, <2>3, <2>4
<1>3. g = FoldBody(lines, g)
  <2>1. \A s \in SUBSET (1..n) : g[s] = IF s = {} THEN <<>> ELSE LineRows(g[s \ {Max(s)}], lines[Max(s)])
    <3> TAKE s \in SUBSET (1..n)
    <3>1. CASE s = {}
      BY <3>1
    <3>2. CASE s # {}
      <4>1. Max(s) \in s /\ s \ {Max(s)} \in SUBSET (1..n)
        BY <1>2, <3>2
      <4>2. g[s] = [o \in Names(s) |-> rows[o]] /\ g[s \ {Max(s)}] = [o \in Names(s \ {Max(s)}) |-> rows[o]]
        BY <4>1
      <4>3. LineRows([o \in Names(s \ {Max(s)}) |-> rows[o]], lines[Max(s)]) = [o \in Names(s) |-> rows[o]]
        BY <1>1, <4>1
      <4>4. QED
        BY <3>2, <4>2, <4>3
    <3>3. QED
      BY <3>1, <3>2
  <2> DEFINE Part(s) == IF s = {} THEN <<>> ELSE LineRows(g[s \ {Max(s)}], lines[Max(s)])
  <2>2. FoldBody(lines, g) = [s \in SUBSET (1..n) |-> Part(s)]
    BY DEF FoldBody
  <2>3. \A s \in SUBSET (1..n) : g[s] = Part(s)
    BY <2>1
  <2>4. g = [s \in SUBSET (1..n) |-> g[s]]
    OBVIOUS
  <2> HIDE DEF Part, g
  <2>5. QED
    BY <2>2, <2>3, <2>4
<1>4. f = FoldBody(lines, f)
  BY <1>3 DEF Folded
<1>5. \A s \in SUBSET (1..n) : f[s] = IF s = {} THEN <<>> ELSE LineRows(f[s \ {Max(s)}], lines[Max(s)])
  <2> HIDE DEF f
  <2> DEFINE Part(s) == IF s = {} THEN <<>> ELSE LineRows(f[s \ {Max(s)}], lines[Max(s)])
  <2>1. FoldBody(lines, f) = [s \in SUBSET (1..n) |-> Part(s)]
    BY DEF FoldBody
  <2> HIDE DEF Part
  <2>2. \A s \in SUBSET (1..n) : f[s] = Part(s)
    BY <1>4, <2>1
  <2>3. QED
    BY <2>2 DEF Part
<1> HIDE DEF f, g
<1> DEFINE Read == {k \in Nat : k <= n => f[1..k] = [o \in Names(1..k) |-> rows[o]]}
<1>6. 0 \in Read
  <2>1. 1..0 = {} /\ 1..0 \in SUBSET (1..n)
    OBVIOUS
  <2>2. f[1..0] = <<>>
    BY <1>5, <2>1
  <2>3. Names(1..0) = {}
    BY <2>1
  <2> HIDE DEF Names
  <2>4. [o \in Names(1..0) |-> rows[o]] = <<>>
    BY <2>3
  <2>5. QED
    BY <2>2, <2>4
<1>7. ASSUME NEW k \in Nat, k \in Read PROVE k + 1 \in Read
  <2> SUFFICES ASSUME k + 1 <= n PROVE f[1..(k + 1)] = [o \in Names(1..(k + 1)) |-> rows[o]]
    OBVIOUS
  <2>1. f[1..k] = [o \in Names(1..k) |-> rows[o]]
    BY <1>7
  <2> HIDE DEF Names, Read
  <2>2. 1..(k + 1) \in SUBSET (1..n) /\ k + 1 \in 1..(k + 1) /\ 1..(k + 1) # {} /\ (1..(k + 1)) \ {k + 1} = 1..k
    <3>1. \A i \in 1..(k + 1) : i \in 1..n
      OBVIOUS
    <3>2. k + 1 \in 1..(k + 1)
      OBVIOUS
    <3>3. \A i \in Int : i \in (1..(k + 1)) \ {k + 1} <=> i \in 1..k
      OBVIOUS
    <3>4. QED
      BY <3>1, <3>2, <3>3
  <2>3. Max(1..(k + 1)) = k + 1
    BY DEF Max
  <2>4. f[1..(k + 1)] = LineRows(f[1..k], lines[k + 1])
    BY <1>5, <2>2, <2>3
  <2>5. LineRows([o \in Names((1..(k + 1)) \ {k + 1}) |-> rows[o]], lines[k + 1]) = [o \in Names(1..(k + 1)) |-> rows[o]]
    BY <1>1, <2>2
  <2>6. QED
    BY <2>1, <2>2, <2>4, <2>5
<1>8. \A k \in Nat : k \in Read
  <2> HIDE DEF Read
  <2>1. QED
    BY <1>6, <1>7, SetInduction
<1>9. QED
  BY <1>8 DEF f

\* An overlay file without lines teaches nothing.
LEMMA NothingLoads == LoadLearned(<<>>) = [rows |-> <<>>, enabled |-> TRUE]
<1>1. /\ <<>> \in Overlays /\ DOMAIN <<>> = 1..0 /\ 0 \in Nat
      /\ \A i \in 1..0 : <<>>[i].name \in DOMAIN <<>> /\ <<>>[i].row = <<>>[<<>>[i].name]
      /\ \A i, j \in 1..0 : <<>>[i].name = <<>>[j].name => i = j
  <2>1. <<>> \in [{} -> LearnedRows] /\ {} \in SUBSET Object /\ 1..0 = {}
    OBVIOUS
  <2>2. QED
    BY <2>1 DEF Overlays
<1>2. Folded(<<>>)[1..0] = [o \in {<<>>[i].name : i \in 1..0} |-> <<>>[o]]
  BY <1>1, RowsReadBack
<1>3. Folded(<<>>)[1..0] = <<>>
  BY <1>2
<1>4. QED
  BY <1>1, <1>3, LoadedIs

\* What was learnt is what a restart reads.
LEMMA RestartReads ==
  ASSUME LearnedOK(learned), learned.enabled
  PROVE  LoadLearned(OverlayLines(learned.rows)) = learned
<1> DEFINE rows == learned.rows
           line(o) == [name |-> o, row |-> rows[o]]
           S == {line(o) : o \in DOMAIN rows}
           lines == OverlayLines(rows)
<1>1. rows \in Overlays /\ IsFiniteSet(DOMAIN rows) /\ \A o \in DOMAIN rows : rows[o] \in LearnedRows
  BY OverlayIs DEF LearnedOK
<1>2. IsFiniteSet(S)
  <2> DEFINE f == [o \in DOMAIN rows |-> line(o)]
  <2>1. f \in Surjection(DOMAIN rows, S)
    BY DEF Surjection
  <2> HIDE DEF f, S
  <2>2. QED
    BY <1>1, <2>1, FS_Surjection
<1>3. lines = SetToSeq(S)
  BY DEF OverlayLines
<1>4. /\ ToSet(SetToSeq(S)) = S /\ IsInjective(SetToSeq(S)) /\ SetToSeq(S) \in Seq(S)
  <2> HIDE DEF S
  <2>1. QED
    BY <1>2, SetAsList
<1> HIDE DEF lines
<1>5. PICK n \in Nat : DOMAIN lines = 1..n
  <2> HIDE DEF S
  <2>1. lines \in Seq(S)
    BY <1>3, <1>4
  <2>2. DOMAIN lines = 1..Len(lines) /\ Len(lines) \in Nat
    BY <2>1
  <2>3. QED
    BY <2>2
<1>6. /\ \A i \in 1..n : lines[i] \in S
      /\ \A l \in S : \E i \in 1..n : lines[i] = l
      /\ \A i, j \in 1..n : lines[i] = lines[j] => i = j
  BY <1>3, <1>4, <1>5 DEF ToSet, IsInjective
<1>7. /\ \A i \in 1..n : lines[i].name \in DOMAIN rows /\ lines[i].row = rows[lines[i].name]
      /\ \A i, j \in 1..n : lines[i].name = lines[j].name => i = j
      /\ {lines[i].name : i \in 1..n} = DOMAIN rows
  <2>1. ASSUME NEW i \in 1..n
        PROVE  /\ lines[i].name \in DOMAIN rows /\ lines[i].row = rows[lines[i].name]
               /\ lines[i] = [name |-> lines[i].name, row |-> rows[lines[i].name]]
    <3>1. PICK o \in DOMAIN rows : lines[i] = [name |-> o, row |-> rows[o]]
      BY <1>6
    <3>2. lines[i].name = o /\ lines[i].row = rows[o]
      BY <3>1
    <3>3. QED
      BY <3>1, <3>2
  <2>2. \A i, j \in 1..n : lines[i].name = lines[j].name => i = j
    BY <1>6, <2>1
  <2>3. ASSUME NEW o \in DOMAIN rows PROVE \E i \in 1..n : lines[i].name = o
    <3>1. [name |-> o, row |-> rows[o]] \in S
      OBVIOUS
    <3> HIDE DEF S
    <3>2. PICK i \in 1..n : lines[i] = [name |-> o, row |-> rows[o]]
      BY <1>6, <3>1
    <3>3. QED
      BY <3>2
  <2>4. {lines[i].name : i \in 1..n} = DOMAIN rows
    <3> DEFINE names == {lines[i].name : i \in 1..n}
    <3>1. \A o \in names : o \in DOMAIN rows
      BY <2>1
    <3>2. \A o \in DOMAIN rows : o \in names
      BY <2>3
    <3> HIDE DEF names, rows
    <3>3. names = DOMAIN rows
      BY <3>1, <3>2
    <3>4. QED
      BY <3>3 DEF names
  <2>5. QED
    BY <2>1, <2>2, <2>4
<1>8. Folded(lines)[1..n] = [o \in {lines[i].name : i \in 1..n} |-> rows[o]]
  BY <1>1, <1>5, <1>7, RowsReadBack
<1>9. Folded(lines)[1..n] = rows
  BY <1>1, <1>7, <1>8 DEF Overlays
<1>10. \A i \in DOMAIN lines : lines[i].row \in Row
  BY <1>1, <1>5, <1>7 DEF LearnedRows, Row, Reply, Wild
<1>11. LoadLearned(lines) = [rows |-> rows, enabled |-> TRUE]
  BY <1>5, <1>9, <1>10, LoadedIs
<1>12. QED
  BY <1>11 DEF LearnedOK, lines

\* A game is well formed: its pool is of its catalogue, the bonus questions are
\* counted when they begin, and what fits stays.
GameOK(g) ==
    /\ g \in GameRecord /\ HistoryOK(g.history) /\ g.pool \subseteq DOMAIN g.catalog
    /\ (~g.bonus => g.bonusPrompts = 0) /\ (g.active => Fitting(g))

\* One thing is waited for, or the model is asked and nothing else is.
NothingAsked(g) == g.question = 0 /\ g.guess = NoObject /\ ~g.reveal
OneOf(g) ==
    /\ g.request = "none"
    /\ \/ g.question # 0 /\ g.guess = NoObject /\ ~g.reveal
       \/ g.question = 0 /\ g.guess # NoObject /\ ~g.reveal
       \/ g.question = 0 /\ g.guess = NoObject /\ g.reveal
Consulted(g) ==
    /\ NothingAsked(g)
    /\ \/ g.request = "final" /\ ~g.bonus /\ g.prompts >= InformativeLimit
       \/ g.request = "normal" /\ ~g.bonus /\ g.prompts < InformativeLimit
       \/ g.request = "bonus" /\ g.bonus

\* The model is not asked, or not again.
ModelSilent(g) ==
    /\ ~g.bonus /\ g.prompts >= InformativeLimit => "final" \in g.tried
    /\ ~g.bonus /\ g.prompts < InformativeLimit => "normal" \in g.tried \/ g.pool # {}
    /\ g.bonus => "bonus" \in g.tried

SameGame(g, h) ==
    /\ h.active = g.active /\ h.catalog = g.catalog /\ h.history = g.history /\ h.asked = g.asked
    /\ h.pool = g.pool /\ h.attempted = g.attempted /\ h.mixed = g.mixed

LEMMA GameFields ==
  ASSUME NEW g \in GameRecord
  PROVE  /\ g.prompts \in Nat /\ g.prompts <= TotalLimit /\ g.bonusPrompts \in Nat /\ g.bonus \in BOOLEAN
         /\ g.question \in 0..Questions /\ g.active \in BOOLEAN /\ g.reveal \in BOOLEAN
         /\ g.pool \in SUBSET Object /\ g.guess \in Object \union {NoObject} /\ g.catalog \in Catalogs
  <1>1. g.prompts \in 0..TotalLimit
    BY DEF GameRecord
  <1>2. g.prompts \in Nat /\ g.prompts <= TotalLimit
    BY <1>1, TwentyNumbers
  <1>3. QED
    BY <1>2 DEF GameRecord

LEMMA PartitionIs == ASSUME NEW g, g.pool \in SUBSET Object, NEW q PROVE Partition(g, q) \in Split
  BY DEF Partition, Branch, Split

LEMMA FallbackIs == ASSUME NEW g \in GameRecord PROVE FallbackQuestion(g) \in Question
<1>1. CASE Question \subseteq g.asked
  <2>1. g.prompts \in Nat /\ Questions \in Nat \ {0}
    BY TwentyNumbers, GameFields
  <2>2. (g.prompts % Questions) + 1 \in 1..Questions
    BY <2>1
  <2>3. QED
    BY <1>1, <2>2 DEF FallbackQuestion, Question
<1>2. CASE ~(Question \subseteq g.asked)
  <2>1. Question \ g.asked \subseteq Nat /\ Question \ g.asked # {}
    BY <1>2 DEF Question
  <2>2. PICK x \in Question \ g.asked : \A y \in Question \ g.asked : ~(y < x)
    BY <2>1, LeastNumber
  <2>3. \A y \in Question \ g.asked : x <= y
    BY <2>1, <2>2
  <2>4. QED
    BY <1>2, <2>2, <2>3 DEF FallbackQuestion
<1>3. QED
  BY <1>1, <1>2

LEMMA BestAre == ASSUME NEW g PROVE BestQuestions(g) \subseteq Question
  BY DEF BestQuestions

\* The questions, guesses and requests a game moves to.
LEMMA AskIs ==
  ASSUME NEW g \in GameRecord, NEW q \in Question, g.prompts < TotalLimit
  PROVE  /\ Ask(g, q) \in GameRecord /\ SameGame(g, Ask(g, q)) /\ Ask(g, q).bonus = g.bonus
         /\ Ask(g, q).bonusPrompts = IF g.bonus THEN g.bonusPrompts + 1 ELSE g.bonusPrompts
         /\ Ask(g, q).question = q /\ Ask(g, q).guess = NoObject /\ Ask(g, q).reveal = g.reveal
         /\ Ask(g, q).request = g.request
<1>1. Partition(g, q) \in Split
  BY PartitionIs DEF GameRecord
<1>2. g.prompts + 1 \in 0..TotalLimit /\ q \in 0..Questions
  BY TwentyNumbers, GameFields DEF Question
<1> DEFINE n == g.prompts + 1
           bonusPrompts == IF g.bonus THEN g.bonusPrompts + 1 ELSE g.bonusPrompts
           partitions == g.partitions \union {Partition(g, q)}
<1>3. bonusPrompts \in Nat /\ partitions \subseteq Split
  <2>1. bonusPrompts \in Nat
    BY GameFields
  <2>2. partitions \subseteq Split
    BY <1>1 DEF GameRecord
  <2>3. QED
    BY <2>1, <2>2
<1>4. Ask(g, q) = [g EXCEPT !.question = q, !.guess = NoObject, !.prompts = n,
                            !.bonusPrompts = bonusPrompts, !.partitions = partitions]
  BY DEF Ask, GameRecord
<1>5. n \in 0..TotalLimit
  BY <1>2
<1> HIDE DEF n, bonusPrompts, partitions
<1>6. Ask(g, q) \in GameRecord
  BY <1>2, <1>3, <1>4, <1>5, ZenonT(60) DEF GameRecord
<1>7. Ask(g, q).bonusPrompts = bonusPrompts
  BY <1>4 DEF GameRecord
<1>8. /\ SameGame(g, Ask(g, q)) /\ Ask(g, q).bonus = g.bonus /\ Ask(g, q).question = q /\ Ask(g, q).guess = NoObject
      /\ Ask(g, q).reveal = g.reveal /\ Ask(g, q).request = g.request
  BY <1>4 DEF GameRecord, SameGame
<1>9. QED
  BY <1>6, <1>7, <1>8 DEF bonusPrompts

LEMMA GuessIs ==
  ASSUME NEW g \in GameRecord, NEW o \in Object
  PROVE  /\ Guess(g, o) \in GameRecord /\ SameGame(g, Guess(g, o)) /\ Guess(g, o).bonus = g.bonus
         /\ Guess(g, o).bonusPrompts = g.bonusPrompts /\ Guess(g, o).question = 0 /\ Guess(g, o).guess = o
         /\ Guess(g, o).reveal = g.reveal /\ Guess(g, o).request = g.request
<1>1. 0 \in 0..Questions
  BY TwentyNumbers
<1>2. QED
  BY <1>1 DEF Guess, GameRecord, SameGame

LEMMA RevealIs ==
  ASSUME NEW g \in GameRecord
  PROVE  /\ Reveal(g) \in GameRecord /\ SameGame(g, Reveal(g)) /\ Reveal(g).bonus = g.bonus
         /\ Reveal(g).bonusPrompts = g.bonusPrompts /\ Reveal(g).question = g.question
         /\ Reveal(g).guess = g.guess /\ Reveal(g).reveal /\ Reveal(g).request = g.request
  BY DEF Reveal, GameRecord, SameGame

LEMMA RequestIs ==
  ASSUME NEW g \in GameRecord, NEW kind \in {"normal", "final", "bonus"}
  PROVE  /\ Request(g, kind) \in GameRecord /\ SameGame(g, Request(g, kind)) /\ Request(g, kind).bonus = g.bonus
         /\ Request(g, kind).bonusPrompts = g.bonusPrompts /\ Request(g, kind).question = g.question
         /\ Request(g, kind).guess = g.guess /\ Request(g, kind).reveal = g.reveal
         /\ Request(g, kind).request = kind /\ Request(g, kind).prompts = g.prompts
  BY DEF Request, GameRecord, SameGame

\* The game as it goes on, in the bonus questions once the others are over.
Going(g) == IF ~g.bonus /\ g.prompts >= InformativeLimit THEN [g EXCEPT !.bonus = TRUE] ELSE g

LEMMA GoingIs ==
  ASSUME NEW g \in GameRecord
  PROVE  /\ Going(g) \in GameRecord /\ SameGame(g, Going(g)) /\ Going(g).bonusPrompts = g.bonusPrompts
         /\ Going(g).question = g.question /\ Going(g).guess = g.guess /\ Going(g).reveal = g.reveal
         /\ Going(g).request = g.request /\ Going(g).prompts = g.prompts /\ Going(g).tried = g.tried
         /\ (~Going(g).bonus => g.prompts < InformativeLimit /\ ~g.bonus)
         /\ (Going(g).bonus /\ ~g.bonus => g.prompts >= InformativeLimit)
<1>1. g.prompts \in Nat /\ InformativeLimit \in Nat
  BY TwentyNumbers, GameFields
<1>2. CASE ~g.bonus /\ g.prompts >= InformativeLimit
  <2>1. Going(g) = [g EXCEPT !.bonus = TRUE]
    BY <1>2 DEF Going
  <2>2. Going(g) \in GameRecord
    BY <2>1 DEF GameRecord
  <2>3. /\ SameGame(g, Going(g)) /\ Going(g).bonusPrompts = g.bonusPrompts
        /\ Going(g).question = g.question /\ Going(g).guess = g.guess /\ Going(g).reveal = g.reveal
        /\ Going(g).request = g.request /\ Going(g).prompts = g.prompts /\ Going(g).tried = g.tried
        /\ Going(g).bonus = TRUE
    BY <2>1 DEF GameRecord, SameGame
  <2>4. QED
    BY <1>2, <2>2, <2>3
<1>3. CASE ~(~g.bonus /\ g.prompts >= InformativeLimit)
  <2>1. Going(g) = g
    BY <1>3 DEF Going
  <2>2. g.bonus \/ g.prompts < InformativeLimit
    BY <1>1, <1>3
  <2>3. QED
    BY <2>1, <2>2 DEF SameGame
<1>4. QED
  BY <1>2, <1>3

LEMMA SameIsOK ==
  ASSUME NEW g, GameOK(g), NEW h \in GameRecord, SameGame(g, h), ~h.bonus => h.bonusPrompts = 0
  PROVE  GameOK(h)
  BY DEF GameOK, SameGame, Fitting

LEMMA SameTwice == ASSUME NEW g, NEW h, NEW k, SameGame(g, h), SameGame(h, k) PROVE SameGame(g, k)
  BY DEF SameGame

LEMMA EndBonusIs ==
  ASSUME NEW g, GameOK(g), g.bonus, NEW h \in EndBonus(g)
  PROVE  /\ h \in GameRecord /\ SameGame(g, h) /\ h.bonus
         /\ NothingAsked(g) /\ g.request = "none" => OneOf(h) \/ ("bonus" \notin g.tried /\ Consulted(h))
<1>1. g \in GameRecord /\ g.bonus = TRUE
  BY GameFields DEF GameOK
<1>2. CASE "bonus" \notin g.tried
  <2>1. h = Request(g, "bonus")
    BY <1>2 DEF EndBonus
  <2>2. QED
    BY <1>1, <1>2, <2>1, RequestIs DEF NothingAsked, Consulted
<1>3. CASE "bonus" \in g.tried /\ ("bonus guess" \in g.tried \/ g.pool \subseteq g.attempted)
  <2>1. h = Reveal(g)
    BY <1>3 DEF EndBonus
  <2>2. QED
    BY <1>1, <2>1, RevealIs DEF NothingAsked, OneOf
<1>4. CASE "bonus" \in g.tried /\ ~("bonus guess" \in g.tried \/ g.pool \subseteq g.attempted)
  <2> DEFINE k == [g EXCEPT !.tried = @ \union {"bonus guess"}]
  <2>1. PICK o \in g.pool \ g.attempted : h = Guess(k, o)
    BY <1>4 DEF EndBonus
  <2>2. /\ k \in GameRecord /\ SameGame(g, k) /\ k.bonus = g.bonus /\ k.question = g.question
        /\ k.guess = g.guess /\ k.reveal = g.reveal /\ k.request = g.request
    BY <1>1 DEF GameRecord, SameGame
  <2>3. o \in Object
    BY <1>1, GameFields
  <2> HIDE DEF k
  <2>4. SameGame(g, h)
    BY <2>1, <2>2, <2>3, GuessIs, SameTwice
  <2>5. o # NoObject
    BY <2>3, BaseIs
  <2>6. h \in GameRecord /\ h.bonus /\ h.question = 0 /\ h.guess = o /\ h.reveal = g.reveal /\ h.request = g.request
    BY <1>1, <2>1, <2>2, <2>3, GuessIs
  <2>7. QED
    BY <2>4, <2>5, <2>6 DEF NothingAsked, OneOf
<1>5. QED
  BY <1>2, <1>3, <1>4

\* A move asks a question, offers a guess, asks for the name or asks the model,
\* which it does not do twice of the same kind.
MoveIs(g, h) ==
    /\ h \in GameRecord /\ SameGame(g, h) /\ (~h.bonus => h.bonusPrompts = 0)
    /\ g.active /\ NothingAsked(g) /\ g.request = "none" => OneOf(h) \/ (Consulted(h) /\ ~ModelSilent(g))

LEMMA MovesAre == ASSUME NEW g, GameOK(g), NEW h \in NextMoves(g) PROVE MoveIs(g, h)
<1> DEFINE over == ~g.bonus /\ g.prompts >= InformativeLimit
           b == Going(g)
<1>1. g \in GameRecord /\ (~g.bonus => g.bonusPrompts = 0)
  BY DEF GameOK
<1>2. /\ g.prompts \in Nat /\ g.bonus \in BOOLEAN /\ g.active \in BOOLEAN
      /\ InformativeLimit \in Nat /\ TotalLimit \in Nat /\ BonusCount \in Nat \ {0}
  BY <1>1, GameFields, TwentyNumbers
<1>3. /\ b \in GameRecord /\ SameGame(g, b) /\ b.bonusPrompts = g.bonusPrompts /\ b.question = g.question
      /\ b.guess = g.guess /\ b.reveal = g.reveal /\ b.request = g.request /\ b.prompts = g.prompts
      /\ b.tried = g.tried /\ (~b.bonus => g.prompts < InformativeLimit /\ ~g.bonus)
      /\ (b.bonus /\ ~g.bonus => g.prompts >= InformativeLimit)
  BY <1>1, GoingIs
<1>4. GameOK(b)
  BY <1>1, <1>3, SameIsOK
<1>5. CASE ~g.active
  <2>1. h = g
    BY <1>5 DEF NextMoves
  <2>2. QED
    BY <1>1, <1>5, <2>1 DEF MoveIs, SameGame
<1>6. CASE g.active /\ g.prompts >= TotalLimit
  <2>1. ~(g.prompts < TotalLimit)
    BY <1>2, <1>6
  <2>2. h = Reveal(g)
    BY <1>6, <2>1 DEF NextMoves
  <2>3. QED
    BY <1>1, <2>2, RevealIs DEF MoveIs, NothingAsked, OneOf
<1>7. CASE g.active /\ g.prompts < TotalLimit /\ over /\ "final" \notin g.tried
  <2>1. ~(g.prompts >= TotalLimit)
    BY <1>2, <1>7
  <2>2. h = Request(g, "final")
    BY <1>7, <2>1 DEF NextMoves
  <2>3. ~ModelSilent(g)
    BY <1>7 DEF ModelSilent
  <2>4. QED
    BY <1>1, <1>7, <2>2, <2>3, RequestIs DEF MoveIs, NothingAsked, Consulted
<1>8. CASE g.active /\ g.prompts < TotalLimit /\ ~(over /\ "final" \notin g.tried)
  <2>1. ~(g.prompts >= TotalLimit)
    BY <1>2, <1>8
  <2>2. h \in IF b.bonus /\ b.bonusPrompts >= BonusCount THEN EndBonus(b)
              ELSE IF ~b.bonus /\ Cardinality(b.pool) = 1 /\ ~b.pool \subseteq b.attempted
                   THEN {Guess(b, o) : o \in b.pool}
              ELSE IF ~b.bonus /\ b.prompts + 1 = InformativeLimit /\ b.pool = {} /\ "normal" \notin b.tried
                   THEN {Request(b, "normal")}
              ELSE IF BestQuestions(b) # {} THEN {Ask(b, q) : q \in BestQuestions(b)}
              ELSE {Ask(b, FallbackQuestion(b))}
    BY <1>8, <2>1 DEF NextMoves, Going
  <2> HIDE DEF b
  <2>3. CASE b.bonus /\ b.bonusPrompts >= BonusCount
    <3>1. h \in EndBonus(b)
      BY <2>2, <2>3
    <3>2. /\ h \in GameRecord /\ SameGame(b, h) /\ h.bonus
          /\ NothingAsked(b) /\ b.request = "none" => OneOf(h) \/ ("bonus" \notin b.tried /\ Consulted(h))
      BY <1>4, <2>3, <3>1, EndBonusIs
    <3>3. g.bonusPrompts # 0
      BY <1>2, <1>3, <2>3
    <3>4. g.bonus
      BY <1>1, <3>3
    <3>5. SameGame(g, h)
      BY <1>3, <3>2, SameTwice
    <3>6. "bonus" \notin b.tried => ~ModelSilent(g)
      BY <1>3, <3>4 DEF ModelSilent
    <3>7. NothingAsked(g) /\ g.request = "none" => NothingAsked(b) /\ b.request = "none"
      BY <1>3 DEF NothingAsked
    <3>8. QED
      BY <3>2, <3>5, <3>6, <3>7 DEF MoveIs
  <2>4. CASE ~(b.bonus /\ b.bonusPrompts >= BonusCount) /\ ~b.bonus /\ Cardinality(b.pool) = 1 /\ ~b.pool \subseteq b.attempted
    <3>1. PICK o \in b.pool : h = Guess(b, o)
      BY <2>2, <2>4
    <3>2. o \in Object /\ o # NoObject
      BY <1>3, BaseIs, GameFields
    <3>3. /\ h \in GameRecord /\ SameGame(b, h) /\ h.bonus = b.bonus /\ h.bonusPrompts = b.bonusPrompts
          /\ h.question = 0 /\ h.guess = o /\ h.reveal = b.reveal /\ h.request = b.request
      BY <1>3, <3>1, <3>2, GuessIs
    <3>4. SameGame(g, h)
      BY <1>3, <3>3, SameTwice
    <3>5. h.bonusPrompts = 0
      BY <1>1, <1>3, <2>4, <3>3
    <3>6. QED
      BY <1>3, <3>2, <3>3, <3>4, <3>5 DEF MoveIs, NothingAsked, OneOf
  <2>5. CASE /\ ~(b.bonus /\ b.bonusPrompts >= BonusCount)
             /\ ~(~b.bonus /\ Cardinality(b.pool) = 1 /\ ~b.pool \subseteq b.attempted)
             /\ ~b.bonus /\ b.prompts + 1 = InformativeLimit /\ b.pool = {} /\ "normal" \notin b.tried
    <3>1. h = Request(b, "normal")
      BY <2>2, <2>5
    <3>2. /\ h \in GameRecord /\ SameGame(b, h) /\ h.bonus = b.bonus /\ h.bonusPrompts = b.bonusPrompts
          /\ h.question = b.question /\ h.guess = b.guess /\ h.reveal = b.reveal /\ h.request = "normal"
          /\ h.prompts = b.prompts
      BY <1>3, <3>1, RequestIs
    <3>3. SameGame(g, h)
      BY <1>3, <3>2, SameTwice
    <3>4. h.prompts < InformativeLimit /\ g.prompts < InformativeLimit
      BY <1>2, <1>3, <2>5, <3>2
    <3>5. ~ModelSilent(g)
      BY <1>3, <2>5, <3>4 DEF ModelSilent, SameGame
    <3>6. h.bonusPrompts = 0
      BY <1>1, <1>3, <2>5, <3>2
    <3>7. QED
      BY <1>3, <2>5, <3>2, <3>3, <3>4, <3>5, <3>6 DEF MoveIs, NothingAsked, Consulted
  <2>6. CASE /\ ~(b.bonus /\ b.bonusPrompts >= BonusCount)
             /\ ~(~b.bonus /\ Cardinality(b.pool) = 1 /\ ~b.pool \subseteq b.attempted)
             /\ ~(~b.bonus /\ b.prompts + 1 = InformativeLimit /\ b.pool = {} /\ "normal" \notin b.tried)
    <3>1. \E q \in Question : h = Ask(b, q)
      BY <1>3, <2>2, <2>6, BestAre, FallbackIs
    <3>2. PICK q \in Question : h = Ask(b, q)
      BY <3>1
    <3>3. b.prompts < TotalLimit
      BY <1>3, <1>8
    <3>4. /\ h \in GameRecord /\ SameGame(b, h) /\ h.bonus = b.bonus
          /\ h.bonusPrompts = IF b.bonus THEN b.bonusPrompts + 1 ELSE b.bonusPrompts
          /\ h.question = q /\ h.guess = NoObject /\ h.reveal = b.reveal /\ h.request = b.request
      BY <1>3, <3>2, <3>3, AskIs
    <3>5. SameGame(g, h)
      BY <1>3, <3>4, SameTwice
    <3>6. q # 0
      BY DEF Question
    <3>7. ~h.bonus => h.bonusPrompts = 0
      BY <1>1, <1>3, <3>4
    <3>8. QED
      BY <1>3, <3>4, <3>5, <3>6, <3>7 DEF MoveIs, NothingAsked, OneOf
  <2>7. QED
    BY <2>3, <2>4, <2>5, <2>6
<1>9. QED
  BY <1>2, <1>5, <1>6, <1>7, <1>8

\* An answer that counts takes out what does not fit it.
LEMMA AnswerIs ==
  ASSUME NEW g, GameOK(g), g.question # 0, g.guess = NoObject, ~g.reveal, NEW a \in Reply
  PROVE  LET h == AnswerQuestion(g, a)
         IN  /\ GameOK(h) /\ h.active = g.active /\ h.mixed = g.mixed /\ h.request = g.request
             /\ h.reveal => h.question = 0 /\ h.guess = NoObject
             /\ ~h.reveal => NothingAsked(h)
<1> DEFINE q == g.question
           left == IF a = "unknown" THEN g.pool ELSE Branch(g, q, a)
           conflict == left = {} /\ g.pool # {}
           t == [question |-> q, answer |-> a, usable |-> a # "unknown" /\ ~conflict]
           history == Append(g.history, t)
           asked == g.asked \union {q}
           partitions == g.partitions \union {Partition(g, q)}
           pool == IF conflict THEN g.pool ELSE left
           after == [g EXCEPT !.asked = asked, !.question = 0, !.partitions = partitions,
                                 !.history = history, !.pool = pool]
           h == AnswerQuestion(g, a)
<1>1. g \in GameRecord /\ g.pool \in SUBSET Object /\ g.history \in Seq(Exchange)
  BY GameFields DEF GameOK, HistoryOK
<1>2. q \in Question
  BY <1>1, GameFields, TwentyNumbers DEF Question
<1>3. /\ t \in Exchange /\ t.question = q /\ t.answer = a /\ (t.usable => a \in Hard)
  <2>1. (a # "unknown" /\ ~conflict) \in BOOLEAN
    OBVIOUS
  <2> HIDE DEF conflict
  <2>2. QED
    BY <1>2, <2>1 DEF Exchange, Reply
<1>4. pool \subseteq g.pool
  BY DEF Branch
<1>5. \A o \in g.pool \ pool : a # "unknown" /\ g.catalog[o][q] \notin {a} \union Wild
  BY DEF Branch
<1>6. partitions \subseteq Split /\ asked \subseteq Question
  <2>1. Partition(g, q) \in Split
    BY <1>1, PartitionIs
  <2>2. QED
    BY <1>1, <1>2, <2>1 DEF GameRecord
<1>7. /\ history \in Seq(Exchange) /\ DOMAIN history = 1..(Len(g.history) + 1)
      /\ history[Len(g.history) + 1] = t /\ \A i \in DOMAIN g.history : i \in DOMAIN history /\ history[i] = g.history[i]
      /\ \A i \in DOMAIN history : i \in DOMAIN g.history \/ i = Len(g.history) + 1
  <2> HIDE DEF t
  <2>1. DOMAIN g.history = 1..Len(g.history) /\ Len(g.history) \in Nat
    BY <1>1
  <2>2. QED
    BY <1>1, <1>3, <2>1
<1>8. h = IF g.prompts >= TotalLimit THEN Reveal(after) ELSE after
  BY DEF AnswerQuestion
<1> HIDE DEF t, history, asked, partitions, pool, left, conflict, q
<1>9. after \in GameRecord
  <2>1. 0 \in 0..Questions
    BY TwentyNumbers
  <2>2. pool \in SUBSET Object
    BY <1>1, <1>4
  <2>3. QED
    BY <1>1, <1>6, <1>7, <2>1, <2>2 DEF GameRecord
<1>10. /\ after.active = g.active /\ after.mixed = g.mixed /\ after.request = g.request
       /\ after.question = 0 /\ after.guess = NoObject /\ ~after.reveal
       /\ after.bonus = g.bonus /\ after.bonusPrompts = g.bonusPrompts /\ after.catalog = g.catalog
       /\ after.attempted = g.attempted /\ after.history = history /\ after.pool = pool
  BY <1>1 DEF GameRecord
<1> HIDE DEF after
<1>11. HistoryOK(history)
  <2>1. \A i \in DOMAIN history : history[i].usable => history[i].answer \in Hard
    BY <1>3, <1>7 DEF GameOK, HistoryOK
  <2>2. QED
    BY <1>7, <2>1 DEF HistoryOK
<1>12. g.active => Fitting(after)
  <2> SUFFICES ASSUME g.active, NEW o \in DOMAIN g.catalog, o \notin pool, o \notin g.attempted
               PROVE  \E i \in DOMAIN history : /\ history[i].answer # "unknown"
                                                /\ g.catalog[o][history[i].question] \notin {history[i].answer} \union Wild
    BY <1>10 DEF Fitting
  <2>1. CASE o \in g.pool
    <3>1. a # "unknown" /\ g.catalog[o][q] \notin {a} \union Wild
      BY <1>5, <2>1
    <3>2. Len(g.history) + 1 \in DOMAIN history
      BY <1>1, <1>7
    <3>3. QED
      BY <1>3, <1>7, <3>1, <3>2
  <2>2. CASE o \notin g.pool
    BY <1>7, <2>2 DEF GameOK, Fitting
  <2>3. QED
    BY <2>1, <2>2
<1>13. GameOK(after)
  <2>1. pool \subseteq DOMAIN g.catalog
    BY <1>4 DEF GameOK
  <2>2. ~g.bonus => g.bonusPrompts = 0
    BY DEF GameOK
  <2>3. QED
    BY <1>9, <1>10, <1>11, <1>12, <2>1, <2>2 DEF GameOK
<1>14. CASE g.prompts >= TotalLimit
  <2>1. h = Reveal(after)
    BY <1>8, <1>14
  <2>2. /\ h \in GameRecord /\ SameGame(after, h) /\ h.bonus = after.bonus /\ h.question = after.question
        /\ h.bonusPrompts = after.bonusPrompts
        /\ h.guess = after.guess /\ h.reveal /\ h.request = after.request
    BY <1>9, <2>1, RevealIs
  <2>3. GameOK(h)
    BY <1>10, <1>13, <2>2, SameIsOK DEF GameOK
  <2> HIDE DEF h
  <2>4. h.active = g.active /\ h.mixed = g.mixed
    BY <1>10, <2>2 DEF SameGame
  <2>5. QED
    BY <1>10, <2>2, <2>3, <2>4 DEF NothingAsked, h
<1>15. CASE ~(g.prompts >= TotalLimit)
  <2>1. h = after
    BY <1>8, <1>15
  <2>2. QED
    BY <1>10, <1>13, <2>1 DEF NothingAsked
<1>16. QED
  BY <1>14, <1>15

LEMMA RefuseIs ==
  ASSUME NEW g, GameOK(g), g.guess # NoObject, NEW a
  PROVE  LET h == RefuseGuess(g, a)
         IN  /\ GameOK(h) /\ h.active = g.active /\ h.mixed = g.mixed /\ h.request = g.request
             /\ h.reveal = g.reveal /\ h.question = g.question /\ h.guess = NoObject
<1> DEFINE attempted == g.attempted \union {g.guess}
           pool == IF a = "no" THEN g.pool \ {g.guess} ELSE g.pool
           h == RefuseGuess(g, a)
<1>1. g \in GameRecord /\ g.guess \in Object
  BY GameFields DEF GameOK
<1>2. /\ attempted \subseteq Object /\ pool \subseteq g.pool /\ g.attempted \subseteq attempted
      /\ \A o \in g.pool : o \in pool \/ o \in attempted
  BY <1>1 DEF GameRecord
<1>3. h = [g EXCEPT !.guess = NoObject, !.attempted = attempted, !.pool = pool]
  BY <1>1 DEF RefuseGuess, GameRecord
<1> HIDE DEF attempted, pool
<1>4. h \in GameRecord
  BY <1>1, <1>2, <1>3, ZenonT(60) DEF GameRecord
<1>5. /\ h.active = g.active /\ h.mixed = g.mixed /\ h.request = g.request /\ h.reveal = g.reveal
      /\ h.question = g.question /\ h.guess = NoObject /\ h.catalog = g.catalog /\ h.history = g.history
      /\ h.bonus = g.bonus /\ h.bonusPrompts = g.bonusPrompts /\ h.attempted = attempted /\ h.pool = pool
  BY <1>1, <1>3 DEF GameRecord
<1> HIDE DEF h
<1>6. g.active => Fitting(h)
  BY <1>2, <1>5 DEF GameOK, Fitting
<1>7. GameOK(h)
  BY <1>2, <1>4, <1>5, <1>6 DEF GameOK
<1>8. QED
  BY <1>5, <1>7 DEF h

LEMMA FailedIs ==
  ASSUME NEW g, GameOK(g)
  PROVE  LET h == GuessFailed(g)
         IN  /\ GameOK(h) /\ SameGame(g, h) /\ h.request = "none" /\ h.bonus = g.bonus /\ h.prompts = g.prompts
             /\ h.question = g.question /\ h.guess = g.guess /\ h.reveal = g.reveal
             /\ h.tried = g.tried \union {RequestKind(g)}
<1> DEFINE h == GuessFailed(g)
           tried == g.tried \union {RequestKind(g)}
<1>1. g \in GameRecord
  BY DEF GameOK
<1>2. tried \subseteq {"normal", "final", "bonus", "bonus guess"}
  BY <1>1 DEF RequestKind, GameRecord
<1>3. h = [g EXCEPT !.tried = tried, !.request = "none"]
  BY <1>1 DEF GuessFailed, GameRecord
<1> HIDE DEF tried
<1>4. h \in GameRecord
  BY <1>1, <1>2, <1>3 DEF GameRecord
<1>5. /\ SameGame(g, h) /\ h.request = "none" /\ h.bonus = g.bonus /\ h.prompts = g.prompts
      /\ h.question = g.question /\ h.guess = g.guess /\ h.reveal = g.reveal /\ h.bonusPrompts = g.bonusPrompts
      /\ h.tried = tried
  BY <1>1, <1>3 DEF GameRecord, SameGame
<1> HIDE DEF h
<1>6. GameOK(h)
  BY <1>4, <1>5, SameIsOK DEF GameOK
<1>7. QED
  BY <1>5, <1>6 DEF h, tried

\* The attempt is spent, so the next move does not ask the model again.
LEMMA SpentIs ==
  ASSUME NEW g, GameOK(g), Consulted(g), NEW f \in {GuessFailed(g), GuessFailed(GuessFailed(g))}
  PROVE  GameOK(f) /\ NothingAsked(f) /\ f.request = "none" /\ ModelSilent(f) /\ f.active = g.active /\ f.mixed = g.mixed
<1> DEFINE k == GuessFailed(g)
           l == GuessFailed(GuessFailed(g))
<1>1. /\ GameOK(k) /\ SameGame(g, k) /\ k.request = "none" /\ k.bonus = g.bonus /\ k.prompts = g.prompts
      /\ k.question = g.question /\ k.guess = g.guess /\ k.reveal = g.reveal /\ k.tried = g.tried \union {RequestKind(g)}
  BY FailedIs
<1> HIDE DEF k
<1>2. /\ GameOK(GuessFailed(k)) /\ SameGame(k, GuessFailed(k)) /\ GuessFailed(k).request = "none"
      /\ GuessFailed(k).bonus = k.bonus /\ GuessFailed(k).prompts = k.prompts
      /\ GuessFailed(k).question = k.question /\ GuessFailed(k).guess = k.guess /\ GuessFailed(k).reveal = k.reveal
      /\ k.tried \subseteq GuessFailed(k).tried
  BY <1>1, FailedIs
<1>3. g.prompts \in Nat /\ InformativeLimit \in Nat
  BY GameFields, TwentyNumbers DEF GameOK
<1>4. ModelSilent(k)
  BY <1>1, <1>3 DEF Consulted, RequestKind, ModelSilent
<1>5. ModelSilent(GuessFailed(k))
  BY <1>2, <1>4 DEF ModelSilent, SameGame
<1>6. f = k \/ f = GuessFailed(k)
  BY DEF k
<1>7. QED
  BY <1>1, <1>2, <1>4, <1>5, <1>6 DEF Consulted, NothingAsked, SameGame

LEMMA OfferIs ==
  ASSUME NEW g, GameOK(g), NEW o \in Object
  PROVE  LET h == OfferGuess(g, o)
         IN  /\ GameOK(h) /\ h.active = g.active /\ h.mixed = g.mixed /\ h.request = "none"
             /\ h.reveal = g.reveal /\ h.question = 0 /\ h.guess = o
<1> DEFINE attempted == g.attempted \union {o}
           tried == g.tried \union IF g.bonus THEN {"bonus", "bonus guess"} ELSE {RequestKind(g)}
           h == OfferGuess(g, o)
<1>1. g \in GameRecord
  BY DEF GameOK
<1>2. attempted \subseteq Object /\ g.attempted \subseteq attempted
  BY <1>1 DEF GameRecord
<1>3. tried \subseteq {"normal", "final", "bonus", "bonus guess"}
  BY <1>1 DEF RequestKind, GameRecord
<1>4. h = [g EXCEPT !.request = "none", !.attempted = attempted, !.guess = o, !.question = 0, !.tried = tried]
  BY <1>1 DEF OfferGuess, GameRecord
<1> HIDE DEF attempted, tried
<1>5. h \in GameRecord
  <2>1. 0 \in 0..Questions
    BY TwentyNumbers
  <2>2. QED
    BY <1>1, <1>2, <1>3, <1>4, <2>1, ZenonT(60) DEF GameRecord
<1>6. /\ h.active = g.active /\ h.mixed = g.mixed /\ h.request = "none" /\ h.reveal = g.reveal
      /\ h.question = 0 /\ h.guess = o /\ h.catalog = g.catalog /\ h.history = g.history
      /\ h.bonus = g.bonus /\ h.bonusPrompts = g.bonusPrompts /\ h.attempted = attempted /\ h.pool = g.pool
  BY <1>1, <1>4 DEF GameRecord
<1> HIDE DEF h
<1>7. g.active => Fitting(h)
  BY <1>2, <1>6 DEF GameOK, Fitting
<1>8. GameOK(h)
  BY <1>5, <1>6, <1>7 DEF GameOK
<1>9. QED
  BY <1>6, <1>8 DEF h

LEMMA ClosedIs == GameOK(ResetRuntime) /\ ~ResetRuntime.active
<1>1. ResetRuntime \in GameRecord
  <2>1. <<>> \in Catalogs
    <3>1. <<>> \in [{} -> Row] /\ {} \in SUBSET Object
      OBVIOUS
    <3>2. QED
      BY <3>1 DEF Catalogs
  <2>2. <<>> \in Seq(Exchange) /\ 0 \in 0..Questions /\ 0 \in 0..TotalLimit
    BY TwentyNumbers
  <2>3. QED
    BY <2>1, <2>2 DEF ResetRuntime, GameRecord
<1>2. QED
  BY <1>1 DEF ResetRuntime, GameOK, HistoryOK

\* A new game asks a question or offers a guess.
LEMMA NewGamesAre ==
  ASSUME LearnedOK(learned), NEW mixed \in BOOLEAN, NEW h \in NewGames(mixed)
  PROVE  GameOK(h) /\ h.active /\ h.mixed = mixed /\ OneOf(h)
<1> DEFINE catalog == Catalog(learned.rows)
           pool == DOMAIN catalog
           g == [ResetRuntime EXCEPT !.active = TRUE, !.catalog = catalog, !.pool = pool, !.mixed = mixed]
<1>1. catalog \in Catalogs /\ pool = DOMAIN Base \union DOMAIN learned.rows /\ pool \in SUBSET Object
  BY CatalogTyped, CatalogIs DEF LearnedOK
<1>2. pool # {}
  BY <1>1, BaseIs
<1>3. h \in NextMoves(g)
  BY DEF NewGames
<1> HIDE DEF catalog, pool
<1>4. g \in GameRecord
  BY <1>1, ClosedIs DEF GameOK, GameRecord
<1>5. /\ g.active = TRUE /\ g.catalog = catalog /\ g.pool = pool /\ g.mixed = mixed /\ g.question = 0 /\ g.guess = NoObject
      /\ ~g.reveal /\ g.request = "none" /\ ~g.bonus /\ g.prompts = 0 /\ g.bonusPrompts = 0 /\ g.history = <<>>
  BY DEF ResetRuntime
<1> HIDE DEF g
<1>6. GameOK(g)
  BY <1>4, <1>5 DEF GameOK, HistoryOK, Fitting, pool
<1>7. ModelSilent(g)
  BY <1>2, <1>5, TwentyNumbers DEF ModelSilent
<1>8. MoveIs(g, h)
  BY <1>3, <1>6, MovesAre
<1>9. OneOf(h) /\ SameGame(g, h) /\ h \in GameRecord /\ (~h.bonus => h.bonusPrompts = 0)
  BY <1>5, <1>7, <1>8 DEF MoveIs, NothingAsked
<1>10. GameOK(h)
  BY <1>6, <1>9, SameIsOK
<1>11. QED
  BY <1>5, <1>9, <1>10 DEF SameGame

-----------------------------------------------------------------------------
(* The game, the mode and the turns *)

Who == {"worker", "touch"}
Utterance == Object \union {NoObject} \union Reply \union {"unclear", "quit"}
TurnStage == {"idle", "input", "accept", "consult", "speak", "intro", "revealed"}

\* A voice game that met no turn of an earlier one is the worker's alone, a
\* touch game the taps'.
OneActs ==
    /\ player.menu => turn["worker"].pc \in {"idle", "intro"}
    /\ game.active /\ ~game.mixed /\ ~player.menu => turn["touch"].pc = "idle"

\* One thing is waited for, unless the model is being asked.
OneAsked ==
    game.active /\ ~game.mixed =>
        IF \E who \in Who : turn[who].pc = "consult" THEN Consulted(game) ELSE OneOf(game)

TwentyInv ==
    /\ LearnedOK(learned) /\ GameOK(game) /\ turn \in [Who -> [pc : TurnStage, say : Utterance]]
    /\ player \in [active : BOOLEAN, menu : BOOLEAN, ui : BOOLEAN]
    /\ (player.ui => player.menu) /\ (~player.active => ~player.ui)
    /\ OneActs /\ OneAsked

\* Whose turn goes on.
Acting(who) == (who = "worker" /\ ~player.menu) \/ (who = "touch" /\ turn["touch"].pc # "idle")

\* While one acts the other does not ask the model.
LEMMA OtherRests ==
  ASSUME TwentyInv, NEW who \in Who, Acting(who), game.active, ~game.mixed
  PROVE  \A w \in Who : w # who => turn[w].pc # "consult"
  BY DEF TwentyInv, OneActs, Acting, Who

\* A turn that goes on keeps the rest, if what it leaves is waited for once.
LEMMA TurnGoesOn ==
  ASSUME TwentyInv, NEW who \in Who, Acting(who), NEW pc \in TurnStage, NEW say \in Utterance,
         turn' = [turn EXCEPT ![who] = [pc |-> pc, say |-> say]], UNCHANGED player,
         LearnedOK(learned'), GameOK(game'), game'.active => game.active /\ game'.mixed = game.mixed,
         game'.active /\ ~game'.mixed => IF pc = "consult" THEN Consulted(game') ELSE OneOf(game')
  PROVE  TwentyInv'
<1>1. turn' \in [Who -> [pc : TurnStage, say : Utterance]] /\ turn'[who].pc = pc /\ \A w \in Who : w # who => turn'[w] = turn[w]
  BY DEF TwentyInv
<1>2. OneActs'
  BY <1>1 DEF TwentyInv, OneActs, Acting, Who
<1>3. ASSUME game'.active, ~game'.mixed
      PROVE  IF \E w \in Who : turn'[w].pc = "consult" THEN Consulted(game') ELSE OneOf(game')
  <2>1. game.active /\ ~game.mixed
    BY <1>3
  <2>2. \A w \in Who : w # who => turn'[w].pc # "consult"
    BY <1>1, <2>1, OtherRests
  <2>3. (\E w \in Who : turn'[w].pc = "consult") <=> pc = "consult"
    BY <1>1, <2>2
  <2>4. QED
    BY <1>3, <2>3
<1>4. QED
  BY <1>1, <1>2, <1>3 DEF TwentyInv, OneAsked

\* Nobody asks the model while one acts who does not.
LEMMA ActingIsAsked ==
  ASSUME TwentyInv, NEW who \in Who, Acting(who), turn[who].pc # "consult", game.active, ~game.mixed
  PROVE  OneOf(game)
  BY OtherRests DEF TwentyInv, OneAsked

Silent == learned' = learned
LEMMA SilentKeeps == ASSUME Silent PROVE Keeps(learned.rows, learned'.rows)
  BY DEF Silent, Keeps

\* A move of the game by one who acts.
LEMMA MoveKeeps ==
  ASSUME TwentyInv, NEW who \in Who, Acting(who), NEW g, GameOK(g), UNCHANGED <<player, learned>>,
         g.active = game.active, g.mixed = game.mixed, game' \in NextMoves(g),
         game.active /\ ~game.mixed => NothingAsked(g) /\ g.request = "none",
         EndTurn(who, IF game'.request = "none" THEN "speak" ELSE "consult")
  PROVE  TwentyInv'
<1> DEFINE pc == IF game'.request = "none" THEN "speak" ELSE "consult"
<1>1. MoveIs(g, game')
  BY MovesAre
<1>2. /\ game'.active = g.active /\ game'.mixed = g.mixed /\ GameOK(game')
  BY <1>1, SameIsOK DEF MoveIs, SameGame
<1>3. game'.active /\ ~game'.mixed => IF pc = "consult" THEN Consulted(game') ELSE OneOf(game')
  <2> SUFFICES ASSUME game'.active, ~game'.mixed PROVE IF pc = "consult" THEN Consulted(game') ELSE OneOf(game')
    OBVIOUS
  <2>1. OneOf(game') \/ Consulted(game')
    BY <1>1, <1>2 DEF MoveIs
  <2>2. OneOf(game') => game'.request = "none"
    BY DEF OneOf
  <2>3. Consulted(game') => game'.request # "none"
    BY DEF Consulted
  <2>4. QED
    BY <2>1, <2>2, <2>3
<1>4. pc \in TurnStage /\ "unclear" \in Utterance
  BY DEF TurnStage, Utterance
<1>5. LearnedOK(learned')
  BY DEF TwentyInv
<1>6. /\ GameOK(game') /\ (game'.active => game.active /\ game'.mixed = game.mixed) /\ UNCHANGED player
  BY <1>2
<1>7. CASE game'.request = "none"
  <2>1. turn' = [turn EXCEPT ![who] = [pc |-> "speak", say |-> "unclear"]] /\ "speak" \in TurnStage
    BY <1>7 DEF EndTurn, TurnStage
  <2>2. game'.active /\ ~game'.mixed => IF "speak" = "consult" THEN Consulted(game') ELSE OneOf(game')
    BY <1>3, <1>7
  <2>3. QED
    BY <1>4, <1>5, <1>6, <2>1, <2>2, TurnGoesOn
<1>8. CASE game'.request # "none"
  <2>1. turn' = [turn EXCEPT ![who] = [pc |-> "consult", say |-> "unclear"]] /\ "consult" \in TurnStage
    BY <1>8 DEF EndTurn, TurnStage
  <2>2. game'.active /\ ~game'.mixed => IF "consult" = "consult" THEN Consulted(game') ELSE OneOf(game')
    BY <1>3, <1>8
  <2>3. QED
    BY <1>4, <1>5, <1>6, <2>1, <2>2, TurnGoesOn
<1>9. QED
  BY <1>7, <1>8

\* An answer that could be read.
LEMMA AcceptKeeps ==
  ASSUME TwentyInv, NEW who \in Who, Acting(who), turn[who].pc # "consult", NEW say \in Utterance,
         Accept(who, say), UNCHANGED player
  PROVE  TwentyInv' /\ Keeps(learned.rows, learned'.rows)
<1> DEFINE Says == EndTurn(who, "speak")
           MoveFrom(g) == \E h \in NextMoves(g) : game' = h /\ EndTurn(who, IF h.request = "none" THEN "speak" ELSE "consult")
<1>1. game.active /\ ~game.mixed => OneOf(game)
  BY ActingIsAsked
<1>2. "speak" \in TurnStage /\ "unclear" \in Utterance
  BY DEF TurnStage, Utterance
<1>3. GameOK(game) /\ LearnedOK(learned) /\ game \in GameRecord
  BY DEF TwentyInv, GameOK
<1>4. Says => turn' = [turn EXCEPT ![who] = [pc |-> "speak", say |-> "unclear"]]
  BY DEF EndTurn
<1>5. ASSUME NEW g, GameOK(g), g.active = game.active, g.mixed = game.mixed, Silent, MoveFrom(g),
             game.active /\ ~game.mixed => NothingAsked(g) /\ g.request = "none"
      PROVE  TwentyInv' /\ Keeps(learned.rows, learned'.rows)
  <2>1. PICK h \in NextMoves(g) : game' = h /\ EndTurn(who, IF h.request = "none" THEN "speak" ELSE "consult")
    BY <1>5
  <2>2. EndTurn(who, IF game'.request = "none" THEN "speak" ELSE "consult")
    BY <2>1
  <2>3. UNCHANGED <<player, learned>> /\ game' \in NextMoves(g)
    BY <1>5, <2>1 DEF Silent
  <2>4. TwentyInv'
    BY <1>5, <2>2, <2>3, MoveKeeps
  <2>5. QED
    BY <1>5, <2>4, SilentKeeps
<1>6. ASSUME Silent, UNCHANGED game, Says
      PROVE  TwentyInv' /\ Keeps(learned.rows, learned'.rows)
  <2>1. /\ LearnedOK(learned') /\ GameOK(game') /\ (game'.active => game.active /\ game'.mixed = game.mixed)
        /\ (game'.active /\ ~game'.mixed => OneOf(game'))
    BY <1>1, <1>3, <1>6 DEF Silent
  <2>2. TwentyInv'
    BY <1>2, <1>4, <1>6, <2>1, TurnGoesOn
  <2>3. QED
    BY <1>6, <2>2, SilentKeeps
<1>7. ASSUME NEW h, GameOK(h), ~h.active, game' = h, Says, LearnedOK(learned')
      PROVE  TwentyInv'
  <2>1. /\ GameOK(game') /\ (game'.active => game.active /\ game'.mixed = game.mixed)
        /\ (game'.active /\ ~game'.mixed => OneOf(game'))
    BY <1>7
  <2>2. QED
    BY <1>2, <1>4, <1>7, <2>1, TurnGoesOn
<1> HIDE DEF Says
<1>8. CASE say = "unclear"
  <2>1. UNCHANGED game /\ Silent /\ Says
    BY <1>8 DEF Accept, Silent, Says, Reply, Hard
  <2>2. QED
    BY <1>6, <2>1
<1>9. CASE say = "quit"
  <2> DEFINE h == [game EXCEPT !.active = FALSE, !.reveal = FALSE]
  <2>1. game' = h /\ Silent /\ Says
    BY <1>9 DEF Accept, Silent, Says, Reply, Hard
  <2>2. h \in GameRecord /\ h.active = FALSE /\ h.history = game.history /\ h.pool = game.pool
        /\ h.catalog = game.catalog /\ h.bonus = game.bonus /\ h.bonusPrompts = game.bonusPrompts
    BY <1>3 DEF GameRecord
  <2> HIDE DEF h
  <2>3. GameOK(h) /\ LearnedOK(learned')
    BY <1>3, <2>1, <2>2 DEF GameOK, Silent
  <2>4. QED
    BY <1>7, <2>1, <2>2, <2>3, SilentKeeps
<1>10. CASE say \in Reply /\ ~game.active
  <2>1. MoveFrom(game) /\ Silent
    BY <1>10 DEF Accept, Silent, Reply, Hard
  <2>2. QED
    BY <1>3, <1>5, <1>10, <2>1
<1>11. CASE say \in Reply /\ game.active /\ ~game.reveal /\ game.guess # NoObject /\ say = "yes"
  <2> DEFINE attempted == game.attempted \union {game.guess}
             h == [game EXCEPT !.active = FALSE, !.guess = NoObject, !.attempted = attempted]
  <2>1. game' = h /\ Learn(game.guess, game.history) /\ Says
    BY <1>3, <1>11 DEF Accept, Says, Reply, Hard, GameRecord
  <2>2. game.guess \in Object
    BY <1>3, <1>11, GameFields
  <2>3. attempted \in SUBSET Object
    BY <1>3, <2>2 DEF GameRecord
  <2> HIDE DEF attempted
  <2>4. h \in GameRecord /\ h.active = FALSE /\ h.history = game.history /\ h.pool = game.pool
        /\ h.catalog = game.catalog /\ h.bonus = game.bonus /\ h.bonusPrompts = game.bonusPrompts
    BY <1>3, <2>3 DEF GameRecord
  <2> HIDE DEF h
  <2>5. HistoryOK(game.history)
    BY <1>3 DEF GameOK
  <2>6. LearnedOK(learned') /\ Keeps(learned.rows, learned'.rows)
    BY <1>3, <2>1, <2>2, <2>5, LearnKeeps
  <2>7. GameOK(h)
    BY <1>3, <2>4 DEF GameOK
  <2>8. QED
    BY <1>7, <2>1, <2>4, <2>6, <2>7
<1>12. CASE say \in {"no", "unknown"} /\ game.active /\ ~game.reveal /\ game.guess # NoObject
  <2> DEFINE g == RefuseGuess(game, say)
  <2>1. MoveFrom(g) /\ Silent
    BY <1>12 DEF Accept, Silent, Reply, Hard
  <2>2. /\ GameOK(g) /\ g.active = game.active /\ g.mixed = game.mixed /\ g.request = game.request
        /\ g.reveal = game.reveal /\ g.question = game.question /\ g.guess = NoObject
    BY <1>3, <1>12, RefuseIs
  <2> HIDE DEF g
  <2>3. game.active /\ ~game.mixed => NothingAsked(g) /\ g.request = "none"
    BY <1>1, <1>12, <2>2 DEF OneOf, NothingAsked
  <2>4. QED
    BY <1>5, <2>1, <2>2, <2>3
<1>13. CASE say \in Reply /\ game.active /\ ~game.reveal /\ game.guess = NoObject /\ game.question # 0
  <2> DEFINE g == AnswerQuestion(game, say)
  <2>1. Silent /\ IF g.reveal THEN game' = g /\ Says ELSE MoveFrom(g)
    BY <1>13 DEF Accept, Silent, Says, Reply, Hard
  <2>2. /\ GameOK(g) /\ g.active = game.active /\ g.mixed = game.mixed /\ g.request = game.request
        /\ g.reveal => g.question = 0 /\ g.guess = NoObject
        /\ ~g.reveal => NothingAsked(g)
    BY <1>3, <1>13, AnswerIs
  <2> HIDE DEF g
  <2>3. CASE g.reveal
    <3>1. game' = g /\ Says /\ Silent
      BY <2>1, <2>3
    <3>2. game.active /\ ~game.mixed => OneOf(g)
      BY <1>1, <2>2, <2>3 DEF OneOf
    <3>3. /\ LearnedOK(learned') /\ GameOK(game') /\ (game'.active => game.active /\ game'.mixed = game.mixed)
          /\ (game'.active /\ ~game'.mixed => OneOf(game'))
      BY <1>3, <2>2, <3>1, <3>2 DEF Silent
    <3>4. TwentyInv'
      BY <1>2, <1>4, <3>1, <3>3, TurnGoesOn
    <3>5. QED
      BY <3>1, <3>4, SilentKeeps
  <2>4. CASE ~g.reveal
    <3>1. MoveFrom(g) /\ Silent
      BY <2>1, <2>4
    <3>2. game.active /\ ~game.mixed => NothingAsked(g) /\ g.request = "none"
      BY <1>1, <2>2, <2>4 DEF OneOf
    <3>3. QED
      BY <1>5, <2>2, <3>1, <3>2
  <2>5. QED
    BY <2>3, <2>4
<1>14. CASE /\ say # "unclear" /\ say # "quit" /\ ~(say \in Reply /\ ~game.active)
            /\ ~(say \in Reply /\ game.active /\ ~game.reveal /\ game.guess # NoObject /\ say = "yes")
            /\ ~(say \in {"no", "unknown"} /\ game.active /\ ~game.reveal /\ game.guess # NoObject)
            /\ ~(say \in Reply /\ game.active /\ ~game.reveal /\ game.guess = NoObject /\ game.question # 0)
  <2>1. UNCHANGED game /\ Silent /\ Says
    BY <1>14 DEF Accept, Silent, Says
  <2>2. QED
    BY <1>6, <2>1
<1>15. QED
  BY <1>8, <1>9, <1>10, <1>11, <1>12, <1>13, <1>14

\* What is said is heard, learnt, read, or after.
LEMMA HandleKeeps ==
  ASSUME TwentyInv, NEW who \in Who, NEW say \in Utterance, HandleInput(who, say)
  PROVE  TwentyInv' /\ Keeps(learned.rows, learned'.rows)
<1>1. Acting(who) /\ turn[who].pc # "consult"
  BY DEF HandleInput, Said, Acting
<1>2. UNCHANGED player
  BY DEF HandleInput
<1>3. game.active /\ ~game.mixed => OneOf(game)
  BY <1>1, ActingIsAsked
<1>4. GameOK(game) /\ LearnedOK(learned) /\ game \in GameRecord
  BY DEF TwentyInv, GameOK
<1>5. CASE /\ game.reveal /\ EndTurn(who, "revealed")
           /\ IF say \in Object THEN Learn(say, game.history) ELSE UNCHANGED learned
           /\ game' = IF say \in Object \union {"quit"} THEN EndGame(game) ELSE game
  <2>1. turn' = [turn EXCEPT ![who] = [pc |-> "revealed", say |-> "unclear"]] /\ "revealed" \in TurnStage /\ "unclear" \in Utterance
    BY <1>5 DEF EndTurn, TurnStage, Utterance
  <2>2. HistoryOK(game.history)
    BY <1>4 DEF GameOK
  <2>3. LearnedOK(learned') /\ Keeps(learned.rows, learned'.rows)
    BY <1>4, <1>5, <2>2, LearnKeeps, SilentKeeps DEF Silent
  <2>4. EndGame(game) \in GameRecord /\ EndGame(game).active = FALSE /\ GameOK(EndGame(game))
    <3>1. 0 \in 0..Questions
      BY TwentyNumbers
    <3>2. /\ EndGame(game) \in GameRecord /\ EndGame(game).active = FALSE /\ EndGame(game).history = game.history
          /\ EndGame(game).pool = game.pool /\ EndGame(game).catalog = game.catalog
          /\ EndGame(game).bonus = game.bonus /\ EndGame(game).bonusPrompts = game.bonusPrompts
      BY <1>4, <3>1 DEF EndGame, GameRecord
    <3>3. QED
      BY <1>4, <3>2 DEF GameOK
  <2>5. /\ GameOK(game') /\ (game'.active => game.active /\ game'.mixed = game.mixed)
        /\ (game'.active /\ ~game'.mixed => OneOf(game'))
    BY <1>3, <1>4, <1>5, <2>4
  <2>6. TwentyInv'
    BY <1>1, <1>2, <2>1, <2>3, <2>5, TurnGoesOn
  <2>7. QED
    BY <2>3, <2>6
<1>6. CASE Accept(who, say)
  BY <1>1, <1>2, <1>6, AcceptKeeps
<1>7. CASE /\ UNCHANGED <<learned, game>>
           /\ \E read \in Reply \union {"unclear"} : turn' = [turn EXCEPT ![who] = [pc |-> "accept", say |-> read]]
  <2>1. PICK read \in Reply \union {"unclear"} : turn' = [turn EXCEPT ![who] = [pc |-> "accept", say |-> read]]
    BY <1>7
  <2>2. read \in Utterance /\ "accept" \in TurnStage
    BY DEF Utterance, TurnStage
  <2>3. /\ LearnedOK(learned') /\ GameOK(game') /\ (game'.active => game.active /\ game'.mixed = game.mixed)
        /\ (game'.active /\ ~game'.mixed => OneOf(game'))
    BY <1>3, <1>4, <1>7
  <2>4. TwentyInv'
    BY <1>1, <1>2, <2>1, <2>2, <2>3, TurnGoesOn
  <2>5. QED
    BY <1>7, <2>4, SilentKeeps DEF Silent
<1>8. QED
  BY <1>5, <1>6, <1>7 DEF HandleInput

LEMMA ReadKeeps ==
  ASSUME TwentyInv, NEW who \in Who, AcceptInterpreted(who)
  PROVE  TwentyInv' /\ Keeps(learned.rows, learned'.rows)
<1>1. turn[who].pc = "accept" /\ Accept(who, turn[who].say) /\ UNCHANGED player
  BY DEF AcceptInterpreted
<1>2. turn[who].say \in Utterance
  BY DEF TwentyInv
<1>3. CASE who = "worker"
  <2>1. Acting(who)
    BY <1>1, <1>3 DEF Acting, TwentyInv, OneActs
  <2>2. QED
    BY <1>1, <1>2, <2>1, AcceptKeeps
<1>4. CASE who = "touch"
  <2>1. Acting(who)
    BY <1>1, <1>4 DEF Acting
  <2>2. QED
    BY <1>1, <1>2, <2>1, AcceptKeeps
<1>5. QED
  BY <1>3, <1>4 DEF Who

\* The model's guess, or none.
LEMMA ConsultKeeps ==
  ASSUME TwentyInv, NEW who \in Who, ConsultModel(who)
  PROVE  TwentyInv' /\ Keeps(learned.rows, learned'.rows)
<1>1. /\ turn[who].pc = "consult" /\ turn' = [turn EXCEPT ![who] = [pc |-> "speak", say |-> "unclear"]]
      /\ UNCHANGED <<learned, player>>
  BY DEF ConsultModel, EndTurn
<1>2. Acting(who)
  BY <1>1 DEF Acting, TwentyInv, OneActs, Who
<1>3. "speak" \in TurnStage /\ "unclear" \in Utterance
  BY DEF TurnStage, Utterance
<1>4. GameOK(game) /\ LearnedOK(learned')
  BY <1>1 DEF TwentyInv
<1>5. game.active /\ ~game.mixed => Consulted(game)
  BY <1>1 DEF TwentyInv, OneAsked
<1>6. ASSUME NEW h, game' = h, GameOK(h), h.active = game.active, h.mixed = game.mixed,
             game.active /\ ~game.mixed => OneOf(h)
      PROVE  TwentyInv'
  <2>1. /\ GameOK(game') /\ (game'.active => game.active /\ game'.mixed = game.mixed)
        /\ (game'.active /\ ~game'.mixed => OneOf(game'))
    BY <1>6
  <2>2. QED
    BY <1>1, <1>2, <1>3, <1>4, <2>1, TurnGoesOn
<1>7. CASE \E o \in Object \ game.attempted : game' = OfferGuess(game, o)
  <2>1. PICK o \in Object \ game.attempted : game' = OfferGuess(game, o)
    BY <1>7
  <2> DEFINE h == OfferGuess(game, o)
  <2>2. /\ GameOK(h) /\ h.active = game.active /\ h.mixed = game.mixed /\ h.request = "none"
        /\ h.reveal = game.reveal /\ h.question = 0 /\ h.guess = o
    BY <1>4, OfferIs
  <2>3. o # NoObject
    BY BaseIs
  <2> HIDE DEF h
  <2>4. game.active /\ ~game.mixed => OneOf(h)
    BY <1>5, <2>2, <2>3 DEF Consulted, NothingAsked, OneOf
  <2>5. TwentyInv'
    BY <1>6, <2>1, <2>2, <2>4 DEF h
  <2>6. QED
    BY <1>1, <2>5, SilentKeeps DEF Silent
<1>8. CASE game' \in NextMoves(GuessFailed(game)) \union NextMoves(GuessFailed(GuessFailed(game)))
  <2>1. PICK f \in {GuessFailed(game), GuessFailed(GuessFailed(game))} : game' \in NextMoves(f)
    BY <1>8
  <2>2. GameOK(f) /\ f.active = game.active /\ f.mixed = game.mixed
    <3>1. GameOK(GuessFailed(game)) /\ SameGame(game, GuessFailed(game))
      BY <1>4, FailedIs
    <3>2. GameOK(GuessFailed(GuessFailed(game))) /\ SameGame(GuessFailed(game), GuessFailed(GuessFailed(game)))
      BY <3>1, FailedIs
    <3>3. QED
      BY <3>1, <3>2 DEF SameGame
  <2>3. MoveIs(f, game')
    BY <2>1, <2>2, MovesAre
  <2>4. /\ GameOK(game') /\ game'.active = game.active /\ game'.mixed = game.mixed
    BY <2>2, <2>3, SameIsOK DEF MoveIs, SameGame
  <2>5. game.active /\ ~game.mixed => OneOf(game')
    <3> SUFFICES ASSUME game.active, ~game.mixed PROVE OneOf(game')
      OBVIOUS
    <3>1. NothingAsked(f) /\ f.request = "none" /\ ModelSilent(f) /\ f.active
      BY <1>4, <1>5, SpentIs
    <3>2. QED
      BY <2>3, <3>1 DEF MoveIs
  <2>6. TwentyInv'
    BY <1>6, <2>4, <2>5
  <2>7. QED
    BY <1>1, <2>6, SilentKeeps DEF Silent
<1>9. QED
  BY <1>7, <1>8 DEF ConsultModel

\* The mode starts, ends, and is spoken to.
LEMMA StartModeKeeps ==
  ASSUME TwentyInv, NEW menu \in BOOLEAN, StartMode(menu)
  PROVE  TwentyInv' /\ Silent
<1>1. ~player.active /\ turn["worker"].pc = "idle" /\ UNCHANGED learned /\ ~player.ui
  BY DEF StartMode, TwentyInv
<1>2. turn' = [turn EXCEPT !["worker"] = [pc |-> "intro", say |-> "unclear"]]
  BY DEF StartMode, EndTurn
<1>3. /\ turn' \in [Who -> [pc : TurnStage, say : Utterance]] /\ turn'["worker"].pc = "intro" /\ turn'["touch"] = turn["touch"]
  BY <1>2 DEF TwentyInv, TurnStage, Utterance, Who
<1>4. LearnedOK(learned')
  BY <1>1 DEF TwentyInv
<1>5. CASE /\ game' \in NewGames(turn["touch"].pc # "idle")
           /\ player' = [active |-> TRUE, menu |-> menu, ui |-> menu]
  <2>1. GameOK(game') /\ game'.active /\ game'.mixed = (turn["touch"].pc # "idle") /\ OneOf(game')
    <3>1. (turn["touch"].pc # "idle") \in BOOLEAN /\ LearnedOK(learned)
      BY DEF TwentyInv
    <3>2. QED
      BY <1>5, <3>1, NewGamesAre
  <2>2. player' \in [active : BOOLEAN, menu : BOOLEAN, ui : BOOLEAN] /\ player'.active /\ (player'.ui => player'.menu)
    BY <1>5
  <2>3. OneActs'
    BY <1>3, <2>1 DEF OneActs
  <2>4. OneAsked'
    BY <1>3, <2>1 DEF OneAsked, Who
  <2>5. QED
    BY <1>1, <1>3, <1>4, <2>1, <2>2, <2>3, <2>4 DEF TwentyInv, Silent
<1>6. CASE game' = ClosedGame /\ player' = [active |-> FALSE, menu |-> menu, ui |-> player.ui]
  <2>1. GameOK(game') /\ ~game'.active
    BY <1>6, ClosedIs DEF ClosedGame
  <2>2. player' \in [active : BOOLEAN, menu : BOOLEAN, ui : BOOLEAN] /\ ~player'.ui
    BY <1>1, <1>6 DEF TwentyInv
  <2>3. OneActs' /\ OneAsked'
    BY <1>3, <2>1 DEF OneActs, OneAsked
  <2>4. QED
    BY <1>1, <1>3, <1>4, <2>1, <2>2, <2>3 DEF TwentyInv, Silent
<1>7. QED
  BY <1>5, <1>6 DEF StartMode

LEMMA AgainKeeps == ASSUME TwentyInv, TapPlayAgain PROVE TwentyInv' /\ Silent
<1>1. /\ player.active /\ player.ui /\ turn["touch"].pc = "idle" /\ UNCHANGED <<learned, player>>
      /\ game' \in NewGames(FALSE) /\ turn' = [turn EXCEPT !["touch"] = [pc |-> "intro", say |-> "unclear"]]
  BY DEF TapPlayAgain, TouchFree, EndTurn
<1>2. player.menu /\ turn["worker"].pc \in {"idle", "intro"}
  BY <1>1 DEF TwentyInv, OneActs
<1>3. /\ turn' \in [Who -> [pc : TurnStage, say : Utterance]] /\ turn'["touch"].pc = "intro" /\ turn'["worker"] = turn["worker"]
  BY <1>1 DEF TwentyInv, TurnStage, Utterance, Who
<1>4. GameOK(game') /\ game'.active /\ OneOf(game')
  <2>1. LearnedOK(learned)
    BY DEF TwentyInv
  <2>2. QED
    BY <1>1, <2>1, NewGamesAre
<1>5. OneActs' /\ OneAsked'
  BY <1>1, <1>2, <1>3, <1>4 DEF OneActs, OneAsked, Who
<1>6. QED
  BY <1>1, <1>3, <1>4, <1>5 DEF TwentyInv, Silent

LEMMA TapKeeps == ASSUME TwentyInv, NEW say, TapAnswer(say) PROVE TwentyInv' /\ Silent
<1>1. /\ player.ui /\ turn["touch"].pc = "idle" /\ UNCHANGED <<learned, game, player>>
      /\ turn' = [turn EXCEPT !["touch"] = [pc |-> "input", say |-> say]] /\ say \in Utterance
  BY DEF TapAnswer, TouchFree, Utterance
<1>2. /\ turn' \in [Who -> [pc : TurnStage, say : Utterance]] /\ turn'["touch"].pc = "input" /\ turn'["worker"] = turn["worker"]
  BY <1>1 DEF TwentyInv, TurnStage, Who
<1>3. OneActs' /\ OneAsked'
  BY <1>1, <1>2 DEF TwentyInv, OneActs, OneAsked, Who
<1>4. QED
  BY <1>1, <1>2, <1>3 DEF TwentyInv, Silent

LEMMA SpokenKeeps == ASSUME TwentyInv, NEW who \in Who, FinishSpeaking(who) PROVE TwentyInv' /\ Silent
<1>1. /\ turn[who].pc \in {"speak", "revealed", "intro"} /\ UNCHANGED <<learned, game>>
      /\ turn' = [turn EXCEPT ![who] = [pc |-> "idle", say |-> "unclear"]]
      /\ player' = player \/ (~player.menu /\ player' = [player EXCEPT !.active = FALSE])
  BY DEF FinishSpeaking, EndTurn
<1>2. /\ turn' \in [Who -> [pc : TurnStage, say : Utterance]] /\ turn'[who].pc = "idle" /\ \A w \in Who : w # who => turn'[w] = turn[w]
  BY <1>1 DEF TwentyInv, TurnStage, Utterance
<1>3. /\ player' \in [active : BOOLEAN, menu : BOOLEAN, ui : BOOLEAN] /\ player'.menu = player.menu
      /\ player'.ui = player.ui /\ (~player'.active => ~player'.ui)
  BY <1>1 DEF TwentyInv
<1>4. OneActs'
  BY <1>1, <1>2, <1>3 DEF TwentyInv, OneActs, Who
<1>5. OneAsked'
  <2>1. (\E w \in Who : turn'[w].pc = "consult") <=> (\E w \in Who : turn[w].pc = "consult")
    BY <1>1, <1>2
  <2>2. QED
    BY <1>1, <2>1 DEF TwentyInv, OneAsked
<1>6. QED
  BY <1>1, <1>2, <1>3, <1>4, <1>5 DEF TwentyInv, Silent

LEMMA CloseKeeps == ASSUME TwentyInv, CloseMode PROVE TwentyInv' /\ Silent
<1>1. /\ game' = ResetRuntime /\ player' = [player EXCEPT !.active = FALSE, !.ui = FALSE] /\ UNCHANGED <<learned, turn>>
  BY DEF CloseMode, ClosedGame
<1>2. player' \in [active : BOOLEAN, menu : BOOLEAN, ui : BOOLEAN] /\ ~player'.ui /\ player'.menu = player.menu
  BY <1>1 DEF TwentyInv
<1>3. GameOK(game') /\ ~game'.active
  BY <1>1, ClosedIs
<1>4. QED
  BY <1>1, <1>2, <1>3 DEF TwentyInv, OneActs, OneAsked, Silent

LEMMA TwentyBegins == TwentyInit => TwentyInv
<1> SUFFICES ASSUME TwentyInit PROVE TwentyInv
  OBVIOUS
<1>1. /\ learned \in {[rows |-> <<>>, enabled |-> TRUE], [rows |-> <<>>, enabled |-> FALSE]} /\ game = ResetRuntime
      /\ player = [active |-> FALSE, menu |-> FALSE, ui |-> FALSE]
      /\ turn = [who \in Who |-> [pc |-> "idle", say |-> "unclear"]]
  BY NothingLoads DEF TwentyInit, GameBegins, OverlayBroken, Who
<1>2. <<>> \in Overlays
  <2>1. <<>> \in [{} -> LearnedRows] /\ {} \in SUBSET Object
    OBVIOUS
  <2>2. QED
    BY <2>1 DEF Overlays
<1>3. LearnedOK(learned)
  <2>1. DOMAIN <<>> = {}
    OBVIOUS
  <2> DEFINE none == <<>>
  <2>2. learned \in {[rows |-> none, enabled |-> TRUE], [rows |-> none, enabled |-> FALSE]} /\ none \in Overlays
    BY <1>1, <1>2
  <2> HIDE DEF none
  <2>3. learned.rows = none /\ learned \in [rows : Overlays, enabled : BOOLEAN]
    <3>1. CASE learned = [rows |-> none, enabled |-> TRUE]
      BY <2>2, <3>1
    <3>2. CASE learned = [rows |-> none, enabled |-> FALSE]
      BY <2>2, <3>2
    <3>3. QED
      BY <2>2, <3>1, <3>2
  <2>4. learned.rows = <<>> /\ learned \in [rows : Overlays, enabled : BOOLEAN]
    BY <2>3 DEF none
  <2>5. QED
    BY <1>2, <2>1, <2>4, FS_EmptySet DEF LearnedOK, OverlayOK
<1>4. GameOK(game) /\ ~game.active
  BY <1>1, ClosedIs
<1>5. turn \in [Who -> [pc : TurnStage, say : Utterance]]
  BY <1>1 DEF TurnStage, Utterance
<1>6. QED
  BY <1>1, <1>3, <1>4, <1>5 DEF TwentyInv, OneActs, OneAsked, Who

LEMMA TwentyStep ==
  TwentyInv /\ [TwentyNext]_twentyVars => TwentyInv' /\ [Keeps(learned.rows, learned'.rows)]_twentyVars
<1> SUFFICES ASSUME TwentyInv, [TwentyNext]_twentyVars PROVE TwentyInv' /\ Keeps(learned.rows, learned'.rows)
  OBVIOUS
<1>1. CASE UNCHANGED twentyVars
  <2>1. TwentyInv' /\ Silent
    BY <1>1 DEF twentyVars, TwentyInv, OneActs, OneAsked, Silent
  <2>2. QED
    BY <2>1, SilentKeeps
<1>2. CASE \E menu \in BOOLEAN : StartMode(menu)
  BY <1>2, StartModeKeeps, SilentKeeps
<1>3. CASE TapPlayAgain \/ CloseMode
  BY <1>3, AgainKeeps, CloseKeeps, SilentKeeps
<1>4. CASE \E say \in Utterance : TapAnswer(say)
  BY <1>4, TapKeeps, SilentKeeps
<1>5. CASE \E say \in Utterance, who \in Who : HandleInput(who, say)
  BY <1>5, HandleKeeps
<1>6. CASE \E who \in Who : AcceptInterpreted(who) \/ ConsultModel(who)
  BY <1>6, ReadKeeps, ConsultKeeps
<1>7. CASE \E who \in Who : FinishSpeaking(who)
  BY <1>7, SpokenKeeps, SilentKeeps
<1>8. QED
  BY <1>1, <1>2, <1>3, <1>4, <1>5, <1>6, <1>7 DEF TwentyNext, Utterance, Who

LEMMA MergeIs == MergeKeepsAnswers
  BY DEF MergeKeepsAnswers, MergeRows, Row, Hard, Wild

LEMMA TwentySafety == TwentyInv => TwentyTypeOK /\ AsksOneThing /\ FittingStays /\ RestartKeepsLearnt
<1> SUFFICES ASSUME TwentyInv PROVE TwentyTypeOK /\ AsksOneThing /\ FittingStays /\ RestartKeepsLearnt
  OBVIOUS
<1>1. GameOK(game) /\ game \in GameRecord /\ LearnedOK(learned)
  BY DEF TwentyInv, GameOK
<1>2. TwentyTypeOK
  <2>1. \A o \in DOMAIN learned.rows :
           /\ learned.rows[o] \in [Question -> Hard \union {"unknown"}]
           /\ o \in DOMAIN Base => learned.rows[o] # Unknowns
    BY <1>1, OverlayIs DEF LearnedOK, OverlayOK, LearnedRows, Reply
  <2>2. ~learned.enabled => learned.rows = <<>>
    BY <1>1 DEF LearnedOK
  <2>3. /\ game.prompts <= TotalLimit /\ game.pool \subseteq DOMAIN game.catalog
        /\ game.question \in 0..Questions /\ game.guess \in Object \union {NoObject}
    BY <1>1, GameFields DEF GameOK
  <2>4. player.ui => player.menu
    BY DEF TwentyInv
  <2>5. QED
    BY <2>1, <2>2, <2>3, <2>4 DEF TwentyTypeOK
<1>3. AsksOneThing
  <2> DEFINE asked == {x \in {"question", "guess", "reveal"} :
                         \/ x = "question" /\ game.question # 0
                         \/ x = "guess" /\ game.guess # NoObject
                         \/ x = "reveal" /\ game.reveal}
  <2> SUFFICES ASSUME game.active, ~game.mixed, Quiet PROVE Cardinality(asked) = 1
    BY DEF AsksOneThing
  <2>1. OneOf(game)
    BY DEF TwentyInv, OneAsked, Quiet, Who
  <2>2. asked = {"question"} \/ asked = {"guess"} \/ asked = {"reveal"}
    BY <2>1 DEF OneOf
  <2> HIDE DEF asked
  <2>3. QED
    BY <2>2, FS_Singleton
<1>4. FittingStays
  <2>1. game.history \in Seq(Exchange)
    BY <1>1 DEF GameOK, HistoryOK
  <2>2. DOMAIN game.history = 1..Len(game.history)
    BY <2>1
  <2>3. game.active => Fitting(game)
    BY <1>1 DEF GameOK
  <2>4. QED
    BY <2>2, <2>3 DEF FittingStays, Fitting
<1>5. RestartKeepsLearnt
  BY <1>1, RestartReads DEF RestartKeepsLearnt
<1>6. QED
  BY <1>2, <1>3, <1>4, <1>5

\* A game waits for one thing of its player at a time, an object that fits every
\* answer stays a candidate, no answer that was known is rewritten, and a restart
\* reads what was learnt, for any catalogue, limits and numbers of games, by voice
\* or touch (TwentyQuestionsGame, TwentyQuestionsMode, TwentyQuestionsDatasetLoader).
THEOREM TwentyFair == TwentySpec => TwentyIsFair
<1>1. TwentyInv => TwentyTypeOK /\ AsksOneThing /\ FittingStays /\ RestartKeepsLearnt /\ MergeKeepsAnswers
  BY TwentySafety, MergeIs
<1>2. [Keeps(learned.rows, learned'.rows)]_twentyVars =>
        [\A o \in Object, q \in Question :
          EffectiveAnswer(learned.rows, o, q) \in Hard =>
              EffectiveAnswer(learned.rows', o, q) = EffectiveAnswer(learned.rows, o, q)]_twentyVars
  BY DEF Keeps
<1>3. QED
  BY TwentyBegins, TwentyStep, <1>1, <1>2, PTL DEF TwentySpec, KnownAnswersStay, TwentyIsFair

=============================================================================
