-------------------------- MODULE LearningQuestions --------------------------
(***************************************************************************)
(* The learning engine's question generators and its judge                 *)
(* (src/bmo/features/learning/engine.py).  A generator draws a target and  *)
(* distractors from a bank of content and marks the right choices; the     *)
(* judge compares the child's response with those marks, never with the    *)
(* prompt.  A question here keeps its prompt ("ask", "of"), so that a      *)
(* property can read the prompt the way a child does.                      *)
(*                                                                         *)
(* The banks are abstracted to a few words.  A bank files its words by     *)
(* ending, by letters and by kind, and the generators read those tags; a   *)
(* child hears how a word sounds.  Both are parameters, since two words    *)
(* filed apart may be heard alike.  The random shuffle of the choices is   *)
(* left out: a choice is its position, and nothing reads the order of the  *)
(* positions.                                                              *)
(***************************************************************************)
EXTENDS Naturals, SequencesExt, FiniteSetsExt

CONSTANTS
    Letter,        \* letters; each has an upper-case and a lower-case glyph
    SoundOf,        \* the consonants, and the sound each stands for
    Word,          \* the content items of the banks
    Filed,         \* for each field of an item: the words that have it, and the tag of each
    Heard,         \* for each field: what a word is to a child, by ear or by its meaning
    Scenario,      \* pictured situations: the texts of their answers, right one first
    Clean,         \* what Choice does to a text: runs of white space become one blank
    Pattern,       \* pattern cores, as sequences of letters
    Symbol,        \* the shapes patterns are drawn with
    TopNumber,     \* the largest number a choice may show (20 in the code)
    ChoiceCount,       \* choices of an ordinary question
    MaxAttempts    \* tries before the answer is revealed

Consonant == DOMAIN SoundOf
\* item.group twice: the ending in the bank of words, the kind in the bank of objects
Field == {"word", "group", "initial", "final", "vowel", "category"}

\* a scenario has enough answers, and a pattern a core
ASSUME QuestionConstants ==
    /\ IsFiniteSet(Letter) /\ IsFiniteSet(Word) /\ IsFiniteSet(Symbol) /\ Consonant \subseteq Letter
    /\ \A f \in Field : DOMAIN Filed[f] \subseteq Word
    /\ {ChoiceCount, MaxAttempts} \subseteq Nat \ {0} /\ TopNumber \in Nat
    /\ \A s \in Scenario : s \in Seq(DOMAIN Clean) /\ Len(s) >= ChoiceCount
    /\ \A core \in Pattern : core \in Seq(Nat) /\ core # <<>>

\* What the banks say of a word is true: words filed alike are heard alike, a word begins with the
\* sound of its initial letter, an object is of its kind.  The converse is not assumed.
ASSUME BanksAreTrue ==
    /\ Filed["word"] = [w \in Word |-> w]
    /\ \A f \in Field : \A v, w \in DOMAIN Filed[f] : Filed[f][v] = Filed[f][w] => Heard[f][v] = Heard[f][w]
    /\ \A w \in DOMAIN Filed["initial"] :
           Filed["initial"][w] \in Consonant /\ SoundOf[Filed["initial"][w]] = Heard["initial"][w]
    /\ \A w \in DOMAIN Filed["category"] : Heard["category"][w] = Filed["category"][w]

VARIABLES
    question,  \* the question on the screen
    tries,     \* responses given to it
    verdict    \* what the judge said of the last one

questionVars == <<question, tries, verdict>>

Glyph == Letter \X {"upper", "lower"}

NoVerdict == [correct |-> FALSE, retry |-> FALSE, reveal |-> FALSE, picked |-> <<>>]

-----------------------------------------------------------------------------
(* Asking. *)

\* Distractors: "count" distinct values of the pool, none of them excluded.
Sampled(pool, excluded, count) == kSubset(count, pool \ excluded)

\* The right choices, then the wrong ones; a right choice is known by its place.
MakeChoices(right, wrong) == [choices |-> right \o wrong, correct |-> [i \in 1..Len(right) |-> i]]

Put(ask, of, made, kind, submit) ==
    question' = [ask |-> ask, of |-> of, choices |-> made.choices, correct |-> made.correct,
                 kind |-> kind, submit |-> submit \/ Len(made.correct) > 1]

One(ask, of, right, wrong) == Put(ask, of, MakeChoices(<<right>>, SetToSeq(wrong)), "choose", FALSE)
Many(ask, of, right, wrong) == Put(ask, of, MakeChoices(right, SetToSeq(wrong)), "choose", TRUE)

LetterSingle ==
    \E t \in Glyph : \E D \in Sampled(Glyph, {t}, ChoiceCount - 1) : One("find", t, t, D)

LetterMulti ==
    \E t \in Glyph, n \in 1..ChoiceCount - 1 : \E D \in Sampled(Glyph, {t}, ChoiceCount - n) :
        Many("find", t, [i \in 1..n |-> t], D)

AlphabetGrid ==
    \E case \in {"upper", "lower"}, t \in Letter :
        One("find", <<t, case>>, <<t, case>>, (Letter \ {t}) \X {case})

\* The example is the other case of the target.
CaseMatch ==
    \E t \in Glyph : \E D \in Sampled(Letter \X {t[2]}, {t}, ChoiceCount - 1) :
        One("letter", <<t[1], IF t[2] = "upper" THEN "lower" ELSE "upper">>, t, D)

CaseMulti ==
    \E case \in {"upper", "lower"}, L \in kSubset(ChoiceCount, Letter) : \E R \in SUBSET L :
        LET other == IF case = "upper" THEN "lower" ELSE "upper"
        IN  /\ Cardinality(R) \in 1..ChoiceCount - 1
            /\ Many("case", case, SetToSeq(R \X {case}), (L \ R) \X {other})

SamePair ==
    \E t \in Word : \E D \in Sampled(Word, {t}, ChoiceCount - 2) : Many("same", t, <<t, t>>, D)

\* The texts are compared as the bank spells them, and shown as Choice cleans them.
ScenarioChoice ==
    \E s \in Scenario :
        LET options == SubSeq(s, 1, ChoiceCount)
        IN  /\ Cardinality(ToSet(options)) = ChoiceCount
            /\ Put("scene", s,
                   [choices |-> [i \in 1..ChoiceCount |-> Clean[options[i]]], correct |-> <<1>>],
                   "choose", FALSE)

WordInSentence ==
    \E t \in Word : \E D \in Sampled(Word, {t}, ChoiceCount - 1) : One("read", t, t, D)

\* The words a field files under a tag, and under the tag of a word.
FiledUnder(f, tag) == {w \in DOMAIN Filed[f] : Filed[f][w] = tag}
Alike(f, t) == FiledUnder(f, Filed[f][t])

\* Which word is like t?  The answer is filed with t, the distractors are not.
OneAlike(f, t, answer, pool) ==
    \E D \in Sampled(pool, Alike(f, t), ChoiceCount - 1) : One("alike", <<f, t>>, answer, D)

\* slip: only the answer is kept out of the distractors, not its group
RhymeAnyOther ==
    \E t \in DOMAIN Filed["group"] : \E a \in Alike("group", t) \ {t} :
        \E D \in Sampled(Word, {a}, ChoiceCount - 1) : One("alike", <<"group", t>>, a, D)

RhymeOne ==
    \E t \in DOMAIN Filed["group"] : \E a \in Alike("group", t) \ {t} : OneAlike("group", t, a, Word)

\* Which two words are alike?  Each distractor comes from a group of its own.
PairAlike(f) ==
    \E a \in DOMAIN Filed[f] : \E b \in Alike(f, a) \ {a},
        G \in Sampled(Range(Filed[f]), {Filed[f][a]}, ChoiceCount - 2) :
        \E pick \in [G -> DOMAIN Filed[f]] :
            /\ \A g \in G : Filed[f][pick[g]] = g
            /\ Many("pair", f, <<a, b>>, Range(pick))

RhymeTwo == PairAlike("group")

\* A word is asked for by saying it, or its parts.
HearWord == \E t \in Word : OneAlike("word", t, t, Word)

\* The parts of a word blended into the word, or (the order lessons) put in order.
Blend ==
    \/ HearWord
    \/ Put("order", ChoiceCount, MakeChoices([i \in 1..ChoiceCount |-> i], <<>>), "order", TRUE)

\* Choose the word for a sound, or the letter for the first sound of a word.
InitialSound ==
    \E t \in DOMAIN Filed["initial"] :
        \/ OneAlike("initial", t, t, DOMAIN Filed["initial"])
        \/ LET initial == Filed["initial"][t] IN
           \E D \in Sampled(Consonant, {initial}, ChoiceCount - 1) : One("first sound", t, initial, D)

\* Two answers among distractors of groups of their own, or one answer to a target.
SoundCompare ==
    \E f \in {"initial", "final"} :
        \/ PairAlike(f)
        \/ \E t \in DOMAIN Filed[f] : \E a \in Alike(f, t) \ {t} : OneAlike(f, t, a, Word)

\* The prompt says the sound of a letter and a word it begins.
SoundLetter ==
    \E t \in Consonant, case \in {"upper", "lower"} :
        \E D \in Sampled(Consonant \X {case}, {<<t, case>>}, ChoiceCount - 1) :
            One("letter sound", t, <<t, case>>, D)

\* The prompt names the vowel of the answer.
VowelWord == \E t \in DOMAIN Filed["vowel"] : OneAlike("vowel", t, t, DOMAIN Filed["vowel"])

PictureWord ==
    \E t \in Word : \E D \in Sampled(Word, {t}, ChoiceCount - 1) : One("read", t, t, D)

SightWord == HearWord

\* A right token pairs a choice with its category.
CategorySort ==
    LET Of(g) == FiledUnder("category", g) IN
    \E G \in kSubset(2, {g \in Range(Filed["category"]) : Cardinality(Of(g)) >= 2}) :
        \E P \in {S \in kSubset(4, DOMAIN Filed["category"]) : \A g \in G : Cardinality(S \cap Of(g)) = 2} :
            LET items == SetToSeq(P)
            IN  Put("sort", G, [choices |-> items,
                                correct |-> [i \in 1..Len(items) |-> <<i, Filed["category"][items[i]]>>]],
                    "sort", TRUE)

OrderedSequence == Put("order", ChoiceCount, MakeChoices([i \in 1..ChoiceCount |-> i], <<>>), "order", TRUE)

\* The wrong numbers are drawn from the six nearest to the right one.
NumberChoices(t) ==
    LET Distance(n) == IF n > t THEN n - t ELSE t - n
        Nearer(m, n) == Distance(m) < Distance(n) \/ (Distance(m) = Distance(n) /\ m < n)
        others == (0..TopNumber) \ {t}
    IN  {n \in others : Cardinality({m \in others : Nearer(m, n)}) < 6}

OneNumber(ask, of, answer) ==
    \E D \in kSubset(ChoiceCount - 1, NumberChoices(answer)) : One(ask, of, answer, D)

NumberChoice == \E t \in 0..TopNumber : OneNumber("number", t, t)
Count == \E t \in 0..TopNumber \div 2 : OneNumber("number", t, t)

CompareCount ==
    \E comparison \in {"more", "fewer", "same"}, left, right \in 0..3 :
        LET answer == IF comparison = "same" THEN "same"
                      ELSE IF (comparison = "more") = (left > right) THEN "left" ELSE "right"
        IN  /\ IF comparison = "same" THEN left = right /\ left > 0 ELSE left # right
            /\ One("compare", <<comparison, left, right>>, answer,
                   {"left", "right", "same", "count again"} \ {answer})

\* The number before or after another one, or the gap in four consecutive ones.
MissingNumber ==
    \/ \E t \in 1..TopNumber - 1 : OneNumber("after", t, t + 1) \/ OneNumber("before", t, t - 1)
    \/ \E start \in 0..TopNumber - 3, gap \in {2, 3} :
           OneNumber("gap", <<start, gap>>, start + gap - 1)

Operation ==
    \/ \E answer \in 1..3 : \E left \in 0..answer :
           OneNumber("add", <<left, answer - left>>, answer)
    \/ \E left \in 1..3 : \E right \in 0..left :
           OneNumber("take", <<left, right>>, left - right)

\* Two rounds of the core and its first symbol are shown; the next one is asked for.
PatternNext ==
    \E core \in Pattern : \E symbols \in [ToSet(core) -> Symbol] :
        LET size == Len(core)
            At(k) == symbols[core[(k % size) + 1]]
            shown == [k \in 1..2 * size + 1 |-> At(k - 1)]
        IN  /\ IsInjective(symbols)
            /\ \E D \in Sampled(Symbol, {At(2 * size + 1)}, ChoiceCount - 1) :
                   One("pattern", shown, At(2 * size + 1), D)

GenerateQuestion ==
    /\ question = <<>>
    /\ \/ LetterSingle \/ LetterMulti \/ AlphabetGrid \/ CaseMatch \/ CaseMulti \/ SamePair
       \/ ScenarioChoice \/ WordInSentence \/ RhymeOne \/ RhymeTwo \/ Blend \/ InitialSound
       \/ SoundCompare \/ SoundLetter \/ VowelWord \/ PictureWord \/ SightWord \/ CategorySort
       \/ OrderedSequence \/ NumberChoice \/ Count \/ CompareCount \/ MissingNumber
       \/ Operation \/ PatternNext
    /\ UNCHANGED <<tries, verdict>>

-----------------------------------------------------------------------------
(* Judging. *)

\* A spoken label stands for the one choice that shows it, if there is one.
Normalized(label) ==
    LET named == {i \in DOMAIN question.choices : question.choices[i] = label}
    IN  IF Cardinality(named) = 1 THEN <<CHOOSE i \in named : TRUE>> ELSE <<0>>

\* What a child can hand in: a category for each choice, choices in some order, or a label.
Responses ==
    LET ids == DOMAIN question.choices
    IN  IF question.kind = "sort"
        THEN {[i \in ids |-> <<i, category[i]>>] : category \in [ids -> question.of]}
        ELSE {s \in SeqOf(ids, ChoiceCount) : s # <<>> /\ IsInjective(s)}
                \cup {Normalized(question.choices[i]) : i \in ids}

IsCorrect(response) ==
    IF question.kind = "order" THEN response = question.correct
    ELSE IF question.submit
         THEN ToSet(response) = ToSet(question.correct) /\ IsInjective(response)
         ELSE Len(response) = 1 /\ response[1] = question.correct[1]

Evaluate ==
    /\ question # <<>> /\ (tries = 0 \/ verdict.retry)
    /\ \E response \in Responses :
           LET correct == IsCorrect(response)
               reveal == ~correct /\ tries + 1 >= MaxAttempts
           IN  verdict' = [correct |-> correct, retry |-> ~correct /\ ~reveal, reveal |-> reveal,
                           picked |-> response]
    /\ tries' = tries + 1
    /\ UNCHANGED question

\* A right answer, or the last wrong one, ends the question.
Advance ==
    /\ tries > 0 /\ ~verdict.retry
    /\ question' = <<>> /\ tries' = 0 /\ verdict' = NoVerdict

QuestionInit == question = <<>> /\ tries = 0 /\ verdict = NoVerdict
QuestionNext == GenerateQuestion \/ Evaluate \/ Advance
QuestionSpec == QuestionInit /\ [][QuestionNext]_questionVars

-----------------------------------------------------------------------------
(* The prompt as a child reads it. *)

\* Whether adding v to what is shown goes on with some core seen twice.
Continues(shown, v) ==
    LET s == Append(shown, v)
    IN  \E p \in 1..Len(shown) \div 2 : \A k \in 1..Len(s) - p : s[k] = s[k + p]

\* Whether a choice is right by the prompt: to the eye, to the ear or by its meaning.
Fits(q, i) ==
    LET v == q.choices[i]
        of == q.of
        others == DOMAIN q.choices \ {i}
    IN  CASE q.ask \in {"find", "read", "number"} -> v = of
          [] q.ask = "scene"   -> v = Clean[of[1]]
          [] q.ask = "letter"  -> v[1] = of[1]
          [] q.ask = "case"    -> v[2] = of
          [] q.ask = "same"    -> \E j \in others : q.choices[j] = v
          [] q.ask = "alike"   -> Heard[of[1]][v] = Heard[of[1]][of[2]]
          [] q.ask = "pair"    -> \E j \in others : Heard[of][q.choices[j]] = Heard[of][v]
          [] q.ask = "first sound"  -> SoundOf[v] = Heard["initial"][of]
          [] q.ask = "letter sound" -> SoundOf[v[1]] = SoundOf[of]
          [] q.ask = "after"   -> v = of + 1
          [] q.ask = "before"  -> v + 1 = of
          [] q.ask = "gap"     -> v + 1 = of[1] + of[2]
          [] q.ask = "add"     -> v = of[1] + of[2]
          [] q.ask = "take"    -> v + of[2] = of[1]
          [] q.ask = "compare" ->
                 CASE of[1] = "more"  -> v = IF of[2] > of[3] THEN "left" ELSE "right"
                   [] of[1] = "fewer" -> v = IF of[2] < of[3] THEN "left" ELSE "right"
                   [] OTHER           -> v = "same"
          [] q.ask = "pattern" -> Continues(of, v)

\* Whether the bank keeps a choice apart from the answer, by its tag, its letter or its spelling:
\* a generator takes such a choice for a distractor, whatever a child hears or sees.
FiledApart(q, i) ==
    LET v == q.choices[i]
        of == q.of
    IN  CASE q.ask = "scene" -> of[i] # of[1]
          [] q.ask = "alike" -> v \notin Alike(of[1], of[2])
          [] q.ask = "pair"  -> \A j \in DOMAIN q.choices \ {i} : q.choices[j] \notin Alike(of, v)
          [] q.ask = "first sound"  -> v # Filed["initial"][of]
          [] q.ask = "letter sound" -> v[1] # of
          [] OTHER -> FALSE

\* Whether the child did what the prompt asks for, with the choices the bank keeps apart left out.
DidAsAsked(picked) ==
    CASE question.kind = "sort"  -> \A i \in DOMAIN picked : picked[i][2] = Heard["category"][question.choices[i]]
      [] question.kind = "order" -> picked = [i \in 1..question.of |-> i]
      [] OTHER -> ToSet(picked) = {i \in DOMAIN question.choices : Fits(question, i) /\ ~FiledApart(question, i)}

\* The judge knows only the marks the generator left, yet a response it accepts is right by the
\* prompt, whatever sounds or reads alike, and one it refuses is wrong, unless it holds a choice that
\* sounds or reads right and that the bank files apart; no child is shown the answer before the last
\* try.
JudgedByThePrompt ==
    tries > 0 =>
        /\ verdict.correct <=> DidAsAsked(verdict.picked)
        /\ verdict.reveal => tries = MaxAttempts

\* Every choice that is right by the prompt is marked: what a word heard like the answer and filed
\* apart breaks, as do letters that stand for one sound and texts that differ by white space.
NoWrongAnswerFits ==
    question # <<>> /\ question.kind = "choose" =>
        \A i \in DOMAIN question.choices : Fits(question, i) => i \in ToSet(question.correct)
=============================================================================
