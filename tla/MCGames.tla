------------------------------ MODULE MCGames ------------------------------
(* The games and the learning area for TLC, side by side: one module is in  *)
(* focus in each behaviour, the others stay as they begin.  They share      *)
(* nothing but the screen, so nothing is lost by taking them one at a time. *)
EXTENDS TwentyQuestions, MatchingTable,
        LearningQuestions, LearningProgress, LearningScreens, TLC

CONSTANTS cat, dog, sun   \* what a player may think of; BMO knows the first two

MCObject == {cat, dog, sun}
MCBase == [o \in {cat, dog} |-> IF o = cat THEN <<"yes", "often">> ELSE <<"no", "sometimes">>]

\* words of the bundled banks: "rabbit" ends like "sit", "kit" begins like "cat", "to" and "two" are
\* one sound, and each bank files them apart; so does a scenario whose texts differ by white space
MCWord == {"sit", "kit", "cat", "cap", "rabbit", "to", "two"}
MCFiled == [
    word |-> [w \in MCWord |-> w],
    group |-> [sit |-> "it", kit |-> "it", cat |-> "at", cap |-> "ap", rabbit |-> "rabbit"],
    initial |-> [sit |-> "s", kit |-> "k", cat |-> "c", cap |-> "c", rabbit |-> "r"],
    final |-> [sit |-> "t", kit |-> "t", cat |-> "t", cap |-> "p", rabbit |-> "t"],
    vowel |-> [sit |-> "i", kit |-> "i", cat |-> "a", cap |-> "a"],
    category |-> [cat |-> "animal", rabbit |-> "animal", cap |-> "clothing", kit |-> "clothing"]]
MCSoundOf == [c |-> "k", k |-> "k", r |-> "r", s |-> "s"]
MCHeard ==
    LET ear == [
            word |-> [two |-> "to"],
            group |-> [rabbit |-> "it", to |-> "oo", two |-> "oo"],
            initial |-> [cat |-> "k", cap |-> "k", to |-> "t", two |-> "t"],
            final |-> [to |-> "oo", two |-> "oo"],
            vowel |-> [rabbit |-> "a", to |-> "oo", two |-> "oo"],
            category |-> [sit |-> "action", to |-> "sign", two |-> "number"]]
    IN  [f \in Field |-> ear[f] @@ MCFiled[f]]
MCScenario == {<<"t1", "t2", "t3">>, <<"t1", "t2", "t4">>}
MCClean == [t1 |-> "t1", t2 |-> "t2", t3 |-> "t3", t4 |-> "t1"]
MCPattern == {<<1, 2>>, <<1, 1, 2>>, <<1, 2, 2>>, <<1, 2, 3>>}

MCOutlines == {<<1, 2>>}
MCPrerequisites == [a |-> {}, b |-> {"a"}]
MCSubject == DOMAIN MCPrerequisites

VARIABLE focus

Init ==
    /\ focus \in {"twenty", "pairs", "table", "questions", "progress", "screens"}
    /\ TwentyInit /\ (focus # "twenty" => ~learned.enabled)
    /\ MatchInit /\ (focus # "pairs" => board = NewBoard(MinPairs))
    /\ TableInit /\ (focus # "table" => table = NewBoard(MinPairs))
    /\ QuestionInit /\ ProgressInit /\ ScreensInit

Twenty == focus = "twenty" /\ TwentyNext
          /\ UNCHANGED <<focus, matchVars, tableVars, questionVars, progressVars, screenVars>>
Pairs == focus = "pairs" /\ MatchNext
         /\ UNCHANGED <<focus, twentyVars, tableVars, questionVars, progressVars, screenVars>>
Table == focus = "table" /\ TableNext
         /\ UNCHANGED <<focus, twentyVars, matchVars, questionVars, progressVars, screenVars>>
Questioning == focus = "questions" /\ QuestionNext
               /\ UNCHANGED <<focus, twentyVars, matchVars, tableVars, progressVars, screenVars>>
Progress == focus = "progress" /\ ProgressNext
            /\ UNCHANGED <<focus, twentyVars, matchVars, tableVars, questionVars, screenVars>>
Screens == focus = "screens" /\ ScreensNext
           /\ UNCHANGED <<focus, twentyVars, matchVars, tableVars, questionVars, progressVars>>

Next == Twenty \/ Pairs \/ Table \/ Questioning \/ Progress \/ Screens

Spec == Init /\ [][Next]_<<focus, twentyVars, matchVars, tableVars, questionVars, progressVars, screenVars>>

\* Plans and learners are told apart by what is done with them only.
GamesSymmetry == Permutations(PlanId) \cup Permutations(Learner)
=============================================================================
