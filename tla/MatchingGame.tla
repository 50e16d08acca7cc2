----------------------------- MODULE MatchingGame -----------------------------
(* Pup Pairs on the hosted view: the mode that opens it, the board, and the   *)
(* timers by which BMO takes its turn.  A timer once set is never cancelled,  *)
(* and a new game may be begun at any time.                                   *)
EXTENDS MatchingBoard

CONSTANT MaxRounds  \* rounds begun: a bound on the model

VARIABLES pup,      \* the mode: active, its worker's pc, the view open
          board, seen,  \* the model and BMO's memory
          pairView, \* locked, the announcement's token, what the face shows
          pending,  \* the single-shot timers set
          telling,  \* tokens of winners being announced
          scores    \* rounds begun and recorded, and whether one was begun mid-turn

matchVars == <<pup, board, seen, pairView, pending, telling, scores>>

NewPairView == [locked |-> FALSE, token |-> 0, face |-> "human"]

MatchInit ==
    /\ pup = [active |-> FALSE, pc |-> "idle", open |-> FALSE]
    /\ board \in {NewBoard(n) : n \in MinPairs..MaxPairs} /\ seen = {} /\ pairView = NewPairView
    /\ pending = <<>> /\ telling = {} /\ scores = [rounds |-> 0, recorded |-> 0, crossed |-> FALSE]

Timer(what, card) == [what |-> what, card |-> card]
SetTimer(rest, what, card) == pending' = Append(rest, Timer(what, card))
Without(i) == SubSeq(pending, 1, i - 1) \o SubSeq(pending, i + 1, Len(pending))

-----------------------------------------------------------------------------
(* The mode *)

\* active before it speaks; the board is opened on the interface's thread
StartPup ==
    /\ ~pup.active /\ pup.pc = "idle" /\ scores.rounds < MaxRounds
    /\ pup' = [pup EXCEPT !.active = TRUE, !.pc = "speaking"]
    /\ UNCHANGED <<board, seen, pairView, pending, telling, scores>>

OpenBoard ==
    /\ pup.pc = "speaking"
    /\ \/ /\ pup.active /\ pup' = [pup EXCEPT !.pc = "idle", !.open = TRUE]
          /\ board' = NewBoard(board.pairs) /\ seen' = {} /\ pairView' = NewPairView
          /\ scores' = [scores EXCEPT !.rounds = @ + 1]
       \/ pup' = [pup EXCEPT !.pc = "idle", !.active = FALSE] /\ UNCHANGED <<board, seen, pairView, scores>>
    /\ UNCHANGED <<pending, telling>>

\* the timers of a closed view find it closed
CloseBoard ==
    /\ pup.open /\ pup' = [pup EXCEPT !.open = FALSE, !.active = FALSE]
    /\ pending' = <<>> /\ telling' = {} /\ UNCHANGED <<board, seen, pairView, scores>>

-----------------------------------------------------------------------------
(* The board *)

\* restart, or another number of pairs
NewGame(delta) ==
    /\ pup.open /\ scores.rounds < MaxRounds
    /\ board' = NewBoard(ClampPairs((board.pairs + delta) - 1)) /\ seen' = {}
    /\ pairView' = [locked |-> FALSE, token |-> pairView.token + 1, face |-> "human"]
    /\ scores' = [scores EXCEPT !.rounds = @ + 1, !.crossed = @ \/ pending # <<>>]
    /\ UNCHANGED <<pup, pending, telling>>

\* the last pair: record the result, announce the winner
FinishIfComplete(b, otherwise) ==
    IF Complete(b)
    THEN /\ pairView' = [locked |-> TRUE, token |-> pairView.token + 1, face |-> "speaking"]
         /\ telling' = telling \union {pairView.token + 1}
         /\ scores' = [scores EXCEPT !.recorded = @ + 1]
    ELSE otherwise /\ UNCHANGED <<telling, scores>>

Turn(card) ==
    board' = AfterReveal(board, card) /\ seen' = Remember(board', seen, card, RevealResult(board, card))

HumanReveal(card) ==
    LET result == RevealResult(board, card) IN
    /\ pup.open /\ ~pairView.locked /\ board.player = "human" /\ Turnable(board, card) /\ Turn(card)
    /\ FinishIfComplete(board', pairView' = [pairView EXCEPT !.locked = result = "miss"])
    /\ IF result = "miss" THEN SetTimer(pending, "begin", 0) ELSE UNCHANGED pending
    /\ UNCHANGED pup

BeginBmoTurn(i) ==
    /\ pending[i].what = "begin" /\ board' = HideUnmatched(board)
    /\ pairView' = [pairView EXCEPT !.face = "bmo"] /\ SetTimer(Without(i), "first", 0)
    /\ UNCHANGED <<pup, seen, telling, scores>>

\* the first card is remembered and nothing forgotten, whatever turning it gave
BmoFirst(i) ==
    /\ pending[i].what = "first" /\ UNCHANGED <<pup, pairView, telling, scores>>
    /\ IF Complete(board) THEN pending' = Without(i) /\ UNCHANGED <<board, seen>>
       ELSE \E card \in FirstChoices(board, seen) :
              /\ board' = AfterReveal(board, card) /\ seen' = seen \union {card}
              /\ SetTimer(Without(i), "second", card)

\* a card that is no match, or that could not be turned, ends BMO's turn
BmoSecond(i) ==
    /\ pending[i].what = "second" /\ UNCHANGED pup
    /\ IF Complete(board) THEN pending' = Without(i) /\ UNCHANGED <<board, seen, pairView, telling, scores>>
       ELSE \E card \in SecondChoices(board, seen, pending[i].card) :
              /\ Turn(card) /\ FinishIfComplete(board', UNCHANGED pairView)
              /\ IF Complete(board') THEN pending' = Without(i)
                 ELSE SetTimer(Without(i), IF RevealResult(board, card) = "match" THEN "first" ELSE "end", 0)

EndBmoTurn(i) ==
    /\ pending[i].what = "end" /\ pending' = Without(i) /\ board' = HideUnmatched(board)
    /\ pairView' = [pairView EXCEPT !.locked = FALSE, !.face = "human"]
    /\ UNCHANGED <<pup, seen, telling, scores>>

\* speech is over: only the latest announcement of a finished board counts
\* slip: the announcement of an earlier round ends this one
FinishAnyAnnouncement(token) ==
    /\ token \in telling /\ telling' = telling \ {token}
    /\ pairView' = IF Complete(board) THEN [pairView EXCEPT !.face = "complete"] ELSE pairView
    /\ UNCHANGED <<pup, board, seen, pending, scores>>

FinishAnnouncement(token) ==
    /\ token \in telling /\ telling' = telling \ {token}
    /\ pairView' = IF token = pairView.token /\ Complete(board) THEN [pairView EXCEPT !.face = "complete"] ELSE pairView
    /\ UNCHANGED <<pup, board, seen, pending, scores>>

MatchNext ==
    \/ StartPup \/ OpenBoard \/ CloseBoard
    \/ \E delta \in 0..2 : NewGame(delta)
    \/ \E card \in Cards(board) : HumanReveal(card)
    \/ \E i \in 1..Len(pending) : BeginBmoTurn(i) \/ BmoFirst(i) \/ BmoSecond(i) \/ EndBmoTurn(i)
    \/ \E token \in telling : FinishAnnouncement(token)

MatchSpec == MatchInit /\ [][MatchNext]_matchVars

-----------------------------------------------------------------------------
(* Properties *)

\* What the state is made of; unless a game was begun in the middle of BMO's
\* turn, BMO remembers only cards that are still there.
MatchTypeOK ==
    /\ pup.open => pup.active /\ pup.pc = "idle"
    /\ board.up \in Seq(Cards(board)) /\ Len(board.up) <= 2 /\ Up(board) \intersect board.matched = {}
    /\ seen \subseteq Cards(board) /\ (~scores.crossed => seen \intersect board.matched = {})
    /\ scores.recorded <= scores.rounds /\ 2 * (board.score.human + board.score.bmo) = Cardinality(board.matched)
    /\ \A token \in telling : token <= pairView.token

\* Unless a game was begun in the middle of BMO's turn, the board can always be
\* played on: somebody's turn is under way or it is the human's and the cards
\* answer, and BMO never turns a card in the human's turn.
PlayableBoard ==
    pup.open /\ ~scores.crossed /\ ~Complete(board) =>
        /\ pending = <<>> => ~pairView.locked /\ board.player = "human" /\ Len(board.up) < 2
        /\ \A i \in 1..Len(pending) : pending[i].what \in {"first", "second"} => board.player = "bmo"

\* The face shows the end of a game only when the board is finished and the
\* winner of this very round has been announced, whatever announcement of an
\* earlier round ends late.
EndIsAnnounced ==
    pairView.face = "complete" => Complete(board) /\ pairView.token \notin telling

\* BMO turns cards in its own turn only: what a timer of the round before breaks.
BmoKeepsItsTurn ==
    [][(\E i \in 1..Len(pending) : BmoFirst(i) \/ BmoSecond(i)) => board' = board \/ board.player = "bmo"]_matchVars

\* A board without a timer waits for the human: what the timers left over from
\* the round before break.
BoardIsNeverStuck ==
    pup.open /\ ~Complete(board) /\ pending = <<>> => ~pairView.locked /\ board.player = "human" /\ Len(board.up) < 2
=============================================================================
