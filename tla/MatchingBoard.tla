----------------------------- MODULE MatchingBoard -----------------------------
(* The rules of Pup Pairs: a board of pairs, two players who turn over two    *)
(* cards each, and BMO's choice among what it has seen and what it has not.   *)
(* The board is shuffled; as every choice below is among all cards, a fixed   *)
(* lay-out stands for each of them.                                           *)
EXTENDS Naturals, Sequences, FiniteSets

CONSTANTS MinPairs, MaxPairs
ASSUME BoardConstants == MinPairs \in Nat \ {0, 1} /\ MaxPairs \in Nat /\ MinPairs <= MaxPairs

ClampPairs(n) == IF n < MinPairs THEN MinPairs ELSE IF n > MaxPairs THEN MaxPairs ELSE n
Character(card) == (card + 1) \div 2

NewBoard(pairs) ==
    [pairs |-> pairs, up |-> <<>>, matched |-> {}, player |-> "human", score |-> [human |-> 0, bmo |-> 0]]

Cards(b) == 1..(2 * b.pairs)
Available(b) == Cards(b) \ b.matched
Complete(b) == b.matched = Cards(b)
Up(b) == {b.up[i] : i \in 1..Len(b.up)}

Turnable(b, card) == card \in Available(b) \ Up(b) /\ Len(b.up) < 2
RevealResult(b, card) ==
    IF ~Turnable(b, card) THEN "ignored"
    ELSE IF b.up = <<>> THEN "first"
    ELSE IF Character(b.up[1]) = Character(card) THEN "match" ELSE "miss"
AfterReveal(b, card) ==
    CASE RevealResult(b, card) = "ignored" -> b
      [] RevealResult(b, card) = "match" ->
            [b EXCEPT !.up = <<>>, !.matched = @ \union {b.up[1], card}, !.score[b.player] = @ + 1]
      [] OTHER -> [b EXCEPT !.up = Append(@, card)]

\* two cards that do not match end the turn
HideUnmatched(b) ==
    IF Len(b.up) # 2 THEN b ELSE [b EXCEPT !.up = <<>>, !.player = IF @ = "human" THEN "bmo" ELSE "human"]

\* BMO recalls, or lapses and takes a card it has not seen
Unseen(b, seen, but) ==
    LET left == Available(b) \ but IN IF left \subseteq seen THEN left ELSE left \ seen
FirstChoices(b, seen) ==
    LET known == Available(b) \intersect seen
    IN {c \in known : \E d \in known \ {c} : Character(c) = Character(d)} \union Unseen(b, seen, {})
\* of a first card it does not remember, any card it has not seen is the match
SecondChoices(b, seen, first) ==
    LET left == Available(b) \ {first}
        match == IF first \in seen THEN {c \in left \intersect seen : Character(c) = Character(first)} ELSE left \ seen
    IN match \union Unseen(b, seen, {first})

\* a card turned is remembered; the player who makes a match has all pairs found so far forgotten
Remember(b, seen, card, result) == IF result = "match" THEN (seen \union {card}) \ b.matched ELSE seen \union {card}
=============================================================================
