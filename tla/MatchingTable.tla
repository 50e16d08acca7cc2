----------------------------- MODULE MatchingTable -----------------------------
(* Pup Pairs on the Tk canvas: the same rules, with every step of a turn an   *)
(* animation or a delay that a new game cancels.  The frames of a flip are    *)
(* one step, and so are the two cards that turn back.  The hosted view's      *)
(* module is extended for what the two promise together.                      *)
EXTENDS MatchingGame

CONSTANT MaxTables              \* games begun on the canvas: a bound on the model

VARIABLES table, recalled,      \* the model and BMO's memory
          animating,
          afters,               \* pending_after_ids: what each will do
          tableFace, tellers,   \* the face, and winners being announced
          tables, canvas        \* games begun; the canvas is there

tableVars == <<table, recalled, animating, afters, tableFace, tellers, tables, canvas>>

TableInit ==
    /\ table \in {NewBoard(n) : n \in MinPairs..MaxPairs} /\ recalled = {} /\ animating = FALSE
    /\ afters = <<>> /\ tableFace = "human" /\ tellers = 0 /\ tables = 1 /\ canvas = TRUE

After(what, card) == [what |-> what, card |-> card]
Due(i, what) == afters[i].what = what
Done(i) == SubSeq(afters, 1, i - 1) \o SubSeq(afters, i + 1, Len(afters))

\* the button, another number of pairs, or PLAY AGAIN
NewTable(pairs) ==
    /\ canvas /\ tables < MaxTables /\ tables' = tables + 1
    /\ pairs \in {ClampPairs(table.pairs + 1), ClampPairs(table.pairs - 1), table.pairs}
    /\ table' = NewBoard(pairs) /\ recalled' = {} /\ animating' = FALSE /\ afters' = <<>>
    /\ tableFace' = "human" /\ UNCHANGED <<tellers, canvas>>

\* reveal, remember, flip; a card that cannot be turned is ignored
TurnOver(card, rest) ==
    IF ~Turnable(table, card) THEN afters' = rest /\ UNCHANGED <<table, recalled, animating>>
    ELSE /\ table' = AfterReveal(table, card) /\ recalled' = recalled \union {card}
         /\ animating' = TRUE /\ afters' = Append(rest, After(RevealResult(table, card), card))

ChooseCard(card) ==
    /\ canvas /\ ~animating /\ table.player = "human" /\ TurnOver(card, afters)
    /\ UNCHANGED <<tableFace, tellers, tables, canvas>>

\* the flip is over: _after_reveal
ShowFirst(i) ==
    /\ Due(i, "first") /\ animating' = FALSE
    /\ afters' = IF table.player = "human" THEN Done(i) ELSE Append(Done(i), After("second", 0))
    /\ UNCHANGED <<table, recalled, tableFace, tellers, tables, canvas>>
ShowMatch(i) ==
    /\ Due(i, "match") /\ animating' = FALSE /\ recalled' = recalled \ table.matched
    /\ afters' = IF Complete(table) THEN Append(Done(i), After("win", 0))
                 ELSE IF table.player = "bmo" THEN Append(Done(i), After("turn", 0)) ELSE Done(i)
    /\ UNCHANGED <<table, tableFace, tellers, tables, canvas>>
ShowMiss(i) ==
    /\ Due(i, "miss") /\ animating' = TRUE /\ afters' = Append(Done(i), After("hide", 0))
    /\ UNCHANGED <<table, recalled, tableFace, tellers, tables, canvas>>

HideMiss(i) ==
    /\ Due(i, "hide") /\ table' = HideUnmatched(table)
    /\ animating' = (animating /\ Len(table.up) = 2)
    /\ afters' = IF Len(table.up) = 2 THEN Append(Done(i), After("hidden", 0)) ELSE Done(i)
    /\ UNCHANGED <<recalled, tableFace, tellers, tables, canvas>>
EndTableTurn(i) ==
    /\ Due(i, "hidden") /\ animating' = FALSE /\ tableFace' = table.player
    /\ afters' = IF table.player = "bmo" THEN Append(Done(i), After("turn", 0)) ELSE Done(i)
    /\ UNCHANGED <<table, recalled, tellers, tables, canvas>>

BmoTakesFirst(i) ==
    /\ Due(i, "turn") /\ UNCHANGED <<tableFace, tellers, tables, canvas>>
    /\ IF Complete(table) \/ table.player # "bmo" THEN afters' = Done(i) /\ UNCHANGED <<table, recalled, animating>>
       ELSE \E card \in FirstChoices(table, recalled) : TurnOver(card, Done(i))
BmoTakesSecond(i) ==
    /\ Due(i, "second") /\ UNCHANGED <<tableFace, tellers, tables, canvas>>
    /\ IF Len(table.up) # 1 THEN afters' = Done(i) /\ UNCHANGED <<table, recalled, animating>>
       ELSE \E card \in SecondChoices(table, recalled, table.up[1]) : TurnOver(card, Done(i))

ShowWin(i) ==
    /\ Due(i, "win") /\ afters' = Done(i) /\ animating' = TRUE /\ tableFace' = "speaking" /\ tellers' = tellers + 1
    /\ UNCHANGED <<table, recalled, tables, canvas>>
WinnerTold ==
    /\ tellers > 0 /\ tellers' = tellers - 1 /\ tableFace' = "complete"
    /\ UNCHANGED <<table, recalled, animating, afters, tables, canvas>>

CloseTable ==
    /\ canvas /\ canvas' = FALSE /\ afters' = <<>>
    /\ UNCHANGED <<table, recalled, animating, tableFace, tellers, tables>>

TableNext ==
    \/ \E pairs \in MinPairs..MaxPairs : NewTable(pairs)
    \/ \E card \in Cards(table) : ChooseCard(card)
    \/ \E i \in 1..Len(afters) :
          \/ ShowFirst(i) \/ ShowMatch(i) \/ ShowMiss(i) \/ HideMiss(i) \/ EndTableTurn(i)
          \/ BmoTakesFirst(i) \/ BmoTakesSecond(i) \/ ShowWin(i)
    \/ WinnerTold \/ CloseTable

TableSpec == TableInit /\ [][TableNext]_tableVars

-----------------------------------------------------------------------------
(* Properties *)

\* What the state is made of.
TableTypeOK ==
    /\ Len(table.up) <= 2 /\ Up(table) \intersect table.matched = {} /\ recalled \subseteq Cards(table)
    /\ ~canvas => afters = <<>>
    /\ 2 * (table.score.human + table.score.bmo) = Cardinality(table.matched)

\* Whatever is pressed when, one thing at a time is under way on the canvas; with
\* nothing under way the board waits for the human, and what BMO is about to turn
\* over it turns over in its own turn.
TableKeepsTurns ==
    /\ Len(afters) <= 1
    /\ canvas /\ afters = <<>> /\ ~Complete(table) =>
          ~animating /\ table.player = "human" /\ Len(table.up) < 2
    /\ \A i \in 1..Len(afters) : afters[i].what \in {"turn", "second"} => table.player = "bmo"

\* The pair game can always be played on, in the hosted view and on the canvas.
BoardsArePlayable ==
    /\ MatchTypeOK /\ PlayableBoard /\ EndIsAnnounced
    /\ TableTypeOK /\ TableKeepsTurns

\* The end of a game is shown over a finished board only: what an announcement
\* that ends after a new game has begun breaks.
TableEndIsFinished == tableFace = "complete" => Complete(table)
=============================================================================
