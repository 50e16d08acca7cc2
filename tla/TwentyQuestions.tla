---------------------------- MODULE TwentyQuestions ----------------------------
(* Twenty Questions: the game that narrows a catalogue by its answers, the    *)
(* overlay of answers it learns, and the mode that serves it by voice on the  *)
(* worker and by touch on a thread per tap.  A turn waits for the model and   *)
(* for speech, so a view closed meanwhile, or a game begun meanwhile, is met  *)
(* by a turn of the one before.                                               *)
EXTENDS Naturals, Sequences, SequencesExt, FiniteSets

CONSTANTS Object,           \* what the player may think of
          NoObject,
          Questions,        \* how many questions a row answers
          Base,             \* the base catalogue: object -> question -> answer
          InformativeLimit, TotalLimit, BonusCount,
          MaxGames          \* games begun: a bound on the model

Question == 1..Questions
Hard == {"yes", "no", "sometimes"}
Wild == {"often", "unknown"}
Reply == Hard \union {"unknown"}

ASSUME TwentyConstants ==
    /\ NoObject \notin Object /\ DOMAIN Base \subseteq Object /\ DOMAIN Base # {}
    /\ \A o \in DOMAIN Base : Base[o] \in [Question -> Hard \union {"often"}]
    /\ {Questions, InformativeLimit, TotalLimit, BonusCount} \subseteq Nat \ {0}

VARIABLES learned,  \* the loader: overlay rows, and whether it may learn
          game, player, \* the game; who plays: mode and view
          turn,     \* the worker's turn and the touch thread's
          begun

twentyVars == <<learned, game, player, turn, begun>>

-----------------------------------------------------------------------------
(* The catalogue *)

Unknowns == [q \in Question |-> "unknown"]
Overlay(rows, o) == IF o \in DOMAIN rows THEN rows[o] ELSE Unknowns
BaseRow(o) == IF o \in DOMAIN Base THEN Base[o] ELSE Unknowns

\* a hard base answer wins, then a hard learned one
EffectiveAnswer(rows, o, q) ==
    IF BaseRow(o)[q] \in Hard THEN BaseRow(o)[q]
    ELSE IF Overlay(rows, o)[q] \in Hard THEN Overlay(rows, o)[q]
    ELSE BaseRow(o)[q]

Catalog(rows) == [o \in DOMAIN Base \union DOMAIN rows |-> [q \in Question |-> EffectiveAnswer(rows, o, q)]]

\* a line of either file: an object, or no name at all, and its answers
Row == [Question -> Hard \union Wild]
Lines == [name : Object \union {NoObject}, complete : BOOLEAN, answers : BOOLEAN]

\* one wrong line, or no line, and there is no base catalogue
BaseLoads(lines) ==
    /\ lines # <<>> /\ \A i \in DOMAIN lines : lines[i].name # NoObject /\ lines[i].complete /\ lines[i].answers
    /\ \A i, j \in DOMAIN lines : lines[i].name = lines[j].name => i = j
Loadable == {BaseLoads(lines) : lines \in {<<>>} \union {<<l>> : l \in Lines} \union {<<l, l>> : l \in Lines}}

\* the first hard answer to a question stays; a soft one only fills a gap
MergeRows(first, second) ==
    [q \in Question |->
        IF first[q] \in Hard THEN first[q]
        ELSE IF second[q] \in Hard \/ (first[q] = "unknown" /\ second[q] = "often") THEN second[q] ELSE first[q]]

\* the overlay file: its lines are put together by name, or all are ignored
OverlayBroken == [rows |-> <<>>, enabled |-> FALSE]
LoadLearned(lines) ==
    IF \E i \in DOMAIN lines : lines[i].row \notin Row THEN OverlayBroken
    ELSE [rows |-> FoldLeft(LAMBDA rows, l :
                       [o \in DOMAIN rows \union {l.name} |->
                           IF o # l.name THEN rows[o]
                           ELSE IF o \in DOMAIN rows THEN MergeRows(rows[o], l.row) ELSE l.row], <<>>, lines),
          enabled |-> TRUE]
OverlayLines(rows) == SetToSeq({[name |-> o, row |-> rows[o]] : o \in DOMAIN rows})

\* only the first usable answer to a question can still change a cell
Observed(history, q) ==
    LET told == {i \in DOMAIN history : history[i].question = q /\ history[i].usable}
    IN IF told = {} THEN "unknown" ELSE history[CHOOSE i \in told : \A j \in told : i <= j].answer

LearnedRow(rows, o, history) ==
    [q \in Question |->
        LET old == Overlay(rows, o)[q]
            settled == \/ old \in Hard
                       \/ BaseRow(o)[q] \in Hard /\ (o \notin DOMAIN rows \/ old # "unknown")
        IN IF settled \/ Observed(history, q) = "unknown" THEN old ELSE Observed(history, q)]

\* a row that says nothing new is not written, and a failed write learns nothing
Learn(o, history) ==
    LET row == LearnedRow(learned.rows, o, history)
        new == [p \in DOMAIN learned.rows \union {o} |-> IF p = o THEN row ELSE learned.rows[p]]
        changed == row # Overlay(learned.rows, o) \/ o \notin DOMAIN Base \union DOMAIN learned.rows
    IN IF ~learned.enabled \/ ~changed THEN UNCHANGED learned
       ELSE learned' \in {learned, [learned EXCEPT !.rows = new]}

-----------------------------------------------------------------------------
(* The game *)

ResetRuntime ==
    [active |-> FALSE, reveal |-> FALSE, question |-> 0, guess |-> NoObject, catalog |-> <<>>,
     history |-> <<>>, asked |-> {}, partitions |-> {}, pool |-> {}, prompts |-> 0,
     bonus |-> FALSE, bonusPrompts |-> 0, tried |-> {}, request |-> "none", attempted |-> {}, mixed |-> FALSE]

ClosedGame == ResetRuntime

\* slip: an object whose answer is not known is dropped
ExactBranch(g, q, a) == {o \in g.pool : g.catalog[o][q] = a}
Branch(g, q, a) == {o \in g.pool : g.catalog[o][q] \in {a} \union Wild}
Partition(g, q) == <<Branch(g, q, "yes"), Branch(g, q, "no"), Branch(g, q, "sometimes")>>
BranchSizes(g, q) == [i \in 1..3 |-> Cardinality(Partition(g, q)[i])]
Largest(g, q) == CHOOSE n \in 0..Cardinality(g.pool) :
    /\ \E i \in 1..3 : BranchSizes(g, q)[i] = n
    /\ \A i \in 1..3 : BranchSizes(g, q)[i] <= n

\* worst branch first, then wildcards, then the balance of yes and no
Score(g, q) ==
    LET size == Cardinality(Object) + 1
        wild == Cardinality({o \in g.pool : g.catalog[o][q] \in Wild})
        yes == BranchSizes(g, q)[1]
        no == BranchSizes(g, q)[2]
    IN (Largest(g, q) * size + wild) * size + IF yes > no THEN yes - no ELSE no - yes

BestQuestions(g) ==
    LET splits == {q \in Question \ g.asked : Partition(g, q) \notin g.partitions
                                              /\ Largest(g, q) < Cardinality(g.pool)}
    IN IF Cardinality(g.pool) < 2 THEN {} ELSE {q \in splits : \A r \in splits : Score(g, q) <= Score(g, r)}

\* the first question not asked yet, or one of the asked in their order
FallbackQuestion(g) ==
    IF Question \subseteq g.asked THEN (g.prompts % Questions) + 1
    ELSE CHOOSE q \in Question \ g.asked : \A r \in Question \ g.asked : q <= r

Ask(g, q) ==
    [g EXCEPT !.question = q, !.guess = NoObject, !.prompts = @ + 1,
              !.bonusPrompts = IF g.bonus THEN @ + 1 ELSE @, !.partitions = @ \union {Partition(g, q)}]
Guess(g, o) == [g EXCEPT !.guess = o, !.question = 0]
Reveal(g) == [g EXCEPT !.reveal = TRUE]
Request(g, kind) == [g EXCEPT !.request = kind]

\* after the bonus questions: the model's guess, one of the catalogue's, or defeat
EndBonus(g) ==
    IF "bonus" \notin g.tried THEN {Request(g, "bonus")}
    ELSE IF "bonus guess" \in g.tried \/ g.pool \subseteq g.attempted THEN {Reveal(g)}
    ELSE {Guess([g EXCEPT !.tried = @ \union {"bonus guess"}], o) : o \in g.pool \ g.attempted}

NextMoves(g) ==
    LET over == ~g.bonus /\ g.prompts >= InformativeLimit
        b == IF over THEN [g EXCEPT !.bonus = TRUE] ELSE g
    IN CASE ~g.active -> {g}
         [] g.active /\ g.prompts >= TotalLimit -> {Reveal(g)}
         [] g.active /\ g.prompts < TotalLimit /\ over /\ "final" \notin g.tried -> {Request(g, "final")}
         [] OTHER ->
              IF b.bonus /\ b.bonusPrompts >= BonusCount THEN EndBonus(b)
              ELSE IF ~b.bonus /\ Cardinality(b.pool) = 1 /\ ~b.pool \subseteq b.attempted
                   THEN {Guess(b, o) : o \in b.pool}
              ELSE IF ~b.bonus /\ b.prompts + 1 = InformativeLimit /\ b.pool = {} /\ "normal" \notin b.tried
                   THEN {Request(b, "normal")}
              ELSE IF BestQuestions(b) # {} THEN {Ask(b, q) : q \in BestQuestions(b)}
              ELSE {Ask(b, FallbackQuestion(b))}

RequestKind(g) == IF g.request = "final" THEN "final" ELSE IF g.bonus \/ g.request = "bonus" THEN "bonus" ELSE "normal"
GuessFailed(g) == [g EXCEPT !.tried = @ \union {RequestKind(g)}, !.request = "none"]
OfferGuess(g, o) ==
    [g EXCEPT !.request = "none", !.attempted = @ \union {o}, !.guess = o, !.question = 0,
              !.tried = @ \union IF g.bonus THEN {"bonus", "bonus guess"} ELSE {RequestKind(g)}]

\* an answer nobody left fits is put aside with its question
AnswerQuestion(g, a) ==
    LET q == g.question
        left == IF a = "unknown" THEN g.pool ELSE Branch(g, q, a)
        conflict == left = {} /\ g.pool # {}
        answered == [g EXCEPT !.asked = @ \union {q}, !.question = 0,
                              !.partitions = @ \union {Partition(g, q)},
                              !.history = Append(@, [question |-> q, answer |-> a,
                                                     usable |-> a # "unknown" /\ ~conflict]),
                              !.pool = IF conflict THEN @ ELSE left]
    IN IF g.prompts >= TotalLimit THEN Reveal(answered) ELSE answered

RefuseGuess(g, a) ==
    [g EXCEPT !.guess = NoObject, !.attempted = @ \union {g.guess},
              !.pool = IF a = "no" THEN @ \ {g.guess} ELSE @]
EndGame(g) == [g EXCEPT !.active = FALSE, !.reveal = FALSE, !.question = 0, !.guess = NoObject]

-----------------------------------------------------------------------------
(* The mode *)

\* there is no overlay yet, or one that cannot be used
GameBegins == game = ResetRuntime /\ begun = 0

TwentyInit ==
    /\ learned \in {LoadLearned(<<>>), OverlayBroken} /\ GameBegins
    /\ player = [active |-> FALSE, menu |-> FALSE, ui |-> FALSE]
    /\ turn = [who \in {"worker", "touch"} |-> [pc |-> "idle", say |-> "unclear"]]

NewGames(mixed) ==
    LET opened == [ResetRuntime EXCEPT !.active = TRUE, !.catalog = Catalog(learned.rows),
                                     !.pool = DOMAIN Catalog(learned.rows), !.mixed = mixed]
    IN NextMoves(opened)

EndTurn(who, pc) == turn' = [turn EXCEPT ![who] = [pc |-> pc, say |-> "unclear"]]

\* a view is made on Qt's thread while the worker waits; it may not come
UiOpened(menu) == IF menu THEN BOOLEAN ELSE {TRUE}

\* the worker starts the mode; without its data or its view there is no game
StartMode(menu) ==
    /\ ~player.active /\ turn["worker"].pc = "idle" /\ begun < MaxGames /\ begun' = begun + 1
    /\ \E loaded \in Loadable, opened \in UiOpened(menu) :
       \/ /\ loaded /\ opened /\ game' \in NewGames(turn["touch"].pc # "idle") /\ EndTurn("worker", "intro")
          /\ player' = [active |-> TRUE, menu |-> menu, ui |-> menu]
       \/ /\ ~(loaded /\ opened) /\ game' = ClosedGame /\ EndTurn("worker", "intro")
          /\ player' = [active |-> FALSE, menu |-> menu, ui |-> player.ui]
    /\ UNCHANGED learned

\* a tap begins a thread, unless one is at work; play again is a tap too
TouchFree == player.active /\ player.ui /\ turn["touch"].pc = "idle"

TapAnswer(say) ==
    /\ TouchFree /\ game.active
    /\ say \in IF game.reveal THEN Object \union {NoObject} ELSE Reply
    /\ turn' = [turn EXCEPT !["touch"] = [pc |-> "input", say |-> say]]
    /\ UNCHANGED <<learned, game, player, begun>>
TapPlayAgain ==
    /\ TouchFree /\ ~game.active /\ begun < MaxGames
    /\ begun' = begun + 1 /\ game' \in NewGames(FALSE) /\ EndTurn("touch", "intro")
    /\ UNCHANGED <<learned, player>>

\* accept_answer, and the next move unless it has an answer of its own
Accept(who, say) ==
    LET Says == EndTurn(who, "speak")
        MoveFrom(g) == \E h \in NextMoves(g) : game' = h /\ EndTurn(who, IF h.request = "none" THEN "speak" ELSE "consult")
    IN CASE say = "unclear" -> UNCHANGED <<learned, game>> /\ Says
         [] say = "quit" -> game' = [game EXCEPT !.active = FALSE, !.reveal = FALSE] /\ UNCHANGED learned /\ Says
         [] say \in Reply /\ ~game.active -> UNCHANGED learned /\ MoveFrom(game)
         [] say \in Reply /\ game.active /\ ~game.reveal /\ game.guess # NoObject /\ say = "yes" ->
              /\ Learn(game.guess, game.history) /\ Says
              /\ game' = [game EXCEPT !.active = FALSE, !.guess = NoObject, !.attempted = @ \union {game.guess}]
         [] say \in {"no", "unknown"} /\ game.active /\ ~game.reveal /\ game.guess # NoObject ->
              /\ UNCHANGED learned
              /\ MoveFrom(RefuseGuess(game, say))
         [] say \in Reply /\ game.active /\ ~game.reveal /\ game.guess = NoObject /\ game.question # 0 ->
              /\ UNCHANGED learned
              /\ LET g == AnswerQuestion(game, say) IN IF g.reveal THEN game' = g /\ Says ELSE MoveFrom(g)
         [] OTHER -> UNCHANGED <<learned, game>> /\ Says

\* what the worker hears when it may listen, or what the touch thread was given
Said(who, say) ==
    \/ /\ who = "worker" /\ turn[who].pc = "idle" /\ player.active /\ ~player.menu
       /\ say \in (IF game.reveal THEN Object \union {NoObject} ELSE Reply \union {"unclear"}) \union {"quit"}
    \/ who = "touch" /\ turn[who].pc = "input" /\ say = turn[who].say

\* a reveal is learnt; anything else is an answer, which the model may have to read
HandleInput(who, say) ==
    /\ Said(who, say)
    /\ \/ /\ game.reveal /\ EndTurn(who, "revealed")
          /\ IF say \in Object THEN Learn(say, game.history) ELSE UNCHANGED learned
          /\ game' = IF say \in Object \union {"quit"} THEN EndGame(game) ELSE game
       \/ ~game.reveal /\ say \in Reply \union {"quit"} /\ Accept(who, say)
       \/ /\ ~game.reveal /\ say \notin Reply \union {"quit"} /\ UNCHANGED <<learned, game>>
          /\ \E read \in Reply \union {"unclear"} : turn' = [turn EXCEPT ![who] = [pc |-> "accept", say |-> read]]
    /\ UNCHANGED <<player, begun>>

AcceptInterpreted(who) ==
    turn[who].pc = "accept" /\ Accept(who, turn[who].say) /\ UNCHANGED <<player, begun>>

\* the model's guess, or none: then the attempt is spent and the game moves on
ConsultModel(who) ==
    /\ turn[who].pc = "consult" /\ EndTurn(who, "speak")
    /\ \/ \E o \in Object \ game.attempted : game' = OfferGuess(game, o)
       \/ game' \in NextMoves(GuessFailed(game)) \union NextMoves(GuessFailed(GuessFailed(game)))
    /\ UNCHANGED <<learned, player, begun>>

\* when it has been said; a voice game that is over gives the microphone back
FinishSpeaking(who) ==
    /\ turn[who].pc \in {"speak", "revealed", "intro"} /\ EndTurn(who, "idle")
    /\ player' = IF ~player.menu /\ (turn[who].pc = "revealed" \/ (turn[who].pc = "speak" /\ ~game.active))
                 THEN [player EXCEPT !.active = FALSE] ELSE player
    /\ UNCHANGED <<learned, game, begun>>

\* EXIT GAME on the interface's thread, or the registry closing the mode
CloseMode ==
    /\ player.active /\ game' = ClosedGame /\ player' = [player EXCEPT !.active = FALSE, !.ui = FALSE]
    /\ UNCHANGED <<learned, turn, begun>>

TwentyNext ==
    \/ \E menu \in BOOLEAN : StartMode(menu)
    \/ TapPlayAgain \/ CloseMode
    \/ \E say \in Object \union {NoObject} \union Reply \union {"unclear", "quit"} :
          TapAnswer(say) \/ \E who \in {"worker", "touch"} : HandleInput(who, say)
    \/ \E who \in {"worker", "touch"} : AcceptInterpreted(who) \/ ConsultModel(who) \/ FinishSpeaking(who)

TwentySpec == TwentyInit /\ [][TwentyNext]_twentyVars

-----------------------------------------------------------------------------
(* Properties *)

Quiet == \A who \in {"worker", "touch"} : turn[who].pc \in {"idle", "speak", "intro", "revealed"}

\* What the state is made of; the overlay holds no row that says nothing of a
\* base object, and prompts are counted within their limits.
TwentyTypeOK ==
    /\ learned.rows = <<>> \/ \A o \in DOMAIN learned.rows :
          /\ learned.rows[o] \in [Question -> Hard \union {"unknown"}]
          /\ o \in DOMAIN Base => learned.rows[o] # Unknowns
    /\ ~learned.enabled => learned.rows = <<>>
    /\ game.prompts <= TotalLimit /\ game.pool \subseteq DOMAIN game.catalog
    /\ game.question \in 0..Questions /\ game.guess \in Object \union {NoObject}
    /\ player.ui => player.menu

\* A game in progress always waits for exactly one thing of its player, an
\* answer, a verdict on a guess or the object's name, whatever the model did
\* with its turns; a turn of an earlier game would break it.
AsksOneThing ==
    game.active /\ ~game.mixed /\ Quiet =>
        Cardinality({x \in {"question", "guess", "reveal"} :
            \/ x = "question" /\ game.question # 0
            \/ x = "guess" /\ game.guess # NoObject
            \/ x = "reveal" /\ game.reveal}) = 1

\* An object of the catalogue that fits every answer given stays a candidate
\* until a guess of it is refused, through wildcards, repeated questions and
\* answers that contradict each other.
FittingStays ==
    game.active => \A o \in DOMAIN game.catalog :
        o \in game.pool \/ o \in game.attempted
        \/ \E i \in 1..Len(game.history) :
              LET t == game.history[i]
              IN t.answer # "unknown" /\ game.catalog[o][t.question] \notin {t.answer} \union Wild

\* An answer known for an object, from the base or learnt, is never rewritten by
\* a later game, however it was played.
KnownAnswersStay ==
    [][\A o \in Object, q \in Question :
          EffectiveAnswer(learned.rows, o, q) \in Hard =>
              EffectiveAnswer(learned.rows', o, q) = EffectiveAnswer(learned.rows, o, q)]_twentyVars

\* A name that was asked for is waited for: what a reveal with nothing but
\* punctuation in it breaks, since a voice game ends after any reveal.
RevealIsHeard == game.reveal /\ Quiet /\ turn["worker"].pc = "idle" => player.active

\* What was learnt is what a restart reads back, and lines of one object in any
\* number lose no answer that one of them is sure of.
RestartKeepsLearnt ==
    learned.enabled => LoadLearned(OverlayLines(learned.rows)) = learned
MergeKeepsAnswers ==
    \A first, second \in Row : \A q \in Question :
        LET merged == MergeRows(first, second)[q]
        IN  /\ first[q] \in Hard => merged = first[q]
            /\ {first[q], second[q]} \intersect Hard # {} => merged \in Hard
            /\ {first[q], second[q]} # {"unknown"} => merged # "unknown"

\* What the game promises its player, and what it keeps of what it was taught.
TwentyIsFair ==
    /\ [](TwentyTypeOK /\ AsksOneThing /\ FittingStays /\ RestartKeepsLearnt /\ MergeKeepsAnswers)
    /\ KnownAnswersStay
=============================================================================
