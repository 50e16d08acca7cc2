------------------------------ MODULE MusicPlayer ------------------------------
(* Playing music: the session that the touch view drives and polls, and the   *)
(* one child process that makes the sound, which the session starts, stops    *)
(* and suspends but which ends when it likes.  Every song lasts Duration.     *)
EXTENDS Naturals, Sequences

CONSTANTS LastSong, Duration
ASSUME MusicConstants == LastSong \in Nat \ {0} /\ Duration \in Nat \ {0}

VARIABLES music,  \* MusicSession
          sound   \* FFplayBackend._process while it runs

musicVars == <<music, sound>>

Song == 1..LastSong
Silence == [song |-> 0, pos |-> 0, suspended |-> FALSE]
Smaller(a, b) == IF a <= b THEN a ELSE b

\* elapsed: the time since _position_started_at
NewSession ==
    [selected |-> 1, playing |-> 0, state |-> "stopped", repeat |-> FALSE,
     counted |-> 1, base |-> 0, elapsed |-> 0, queue |-> <<>>, cursor |-> 0]

MusicInit == music = NewSession /\ sound = Silence

Running == sound # Silence
Active == music.state \in {"playing", "paused"}
DisplayIndex == IF Active THEN music.playing ELSE music.selected
Position == IF music.counted = DisplayIndex THEN Smaller(music.base + music.elapsed, Duration) ELSE 0

-----------------------------------------------------------------------------
(* FFplayBackend *)

\* play: a missing file is found before the old process is stopped, a missing
\* player after; and the song that sounds is not started again from its start
PlayOutcomes(song, start) ==
    {[ok |-> FALSE, sound |-> sound]} \union
    IF Running /\ sound.song = song /\ start = 0
    THEN {[ok |-> TRUE, sound |-> [sound EXCEPT !.suspended = FALSE]]}
    ELSE {[ok |-> FALSE, sound |-> Silence],
          [ok |-> TRUE, sound |-> [song |-> song, pos |-> start, suspended |-> FALSE]]}

-----------------------------------------------------------------------------
(* MusicSession *)

\* _play_selected, from the session p as its caller left it
PlaySelected(p, start) ==
    \E r \in PlayOutcomes(p.selected, start) :
        /\ sound' = r.sound
        /\ music' = IF r.ok THEN [p EXCEPT !.playing = p.selected, !.counted = p.selected, !.base = start,
                                           !.elapsed = 0, !.state = "playing"]
                    ELSE [p EXCEPT !.state = "stopped", !.elapsed = 0]

SelectSong(s) ==
    /\ music' = [music EXCEPT !.selected = s,
                              !.counted = IF Active THEN @ ELSE s, !.base = IF Active THEN @ ELSE 0]
    /\ UNCHANGED sound

Pause ==
    /\ music.state = "playing" /\ Running /\ ~sound.suspended
    /\ music' = [music EXCEPT !.state = "paused", !.base = Position, !.elapsed = 0]
    /\ sound' = [sound EXCEPT !.suspended = TRUE]

Resume ==
    /\ music.state = "paused" /\ Running /\ sound.suspended
    /\ music' = [music EXCEPT !.state = "playing"]
    /\ sound' = [sound EXCEPT !.suspended = FALSE]

\* play_selected: of the song that plays nothing, of the paused one Resume
PlayPressed ==
    /\ ~(Active /\ music.selected = music.playing)
    /\ PlaySelected([music EXCEPT !.queue = <<>>, !.cursor = 0],
                    IF music.counted = music.selected THEN music.base ELSE 0)

SeekSong(target) ==
    \/ /\ Active
       /\ \E r \in PlayOutcomes(music.playing, target) :
             /\ sound' = [r.sound EXCEPT !.suspended = IF r.ok THEN music.state = "paused" ELSE @]
             /\ music' = IF r.ok THEN [music EXCEPT !.counted = music.playing, !.base = target, !.elapsed = 0]
                         ELSE music
    \/ ~Active /\ music' = [music EXCEPT !.counted = DisplayIndex, !.base = target] /\ UNCHANGED sound

StopMusic ==
    /\ music' = [music EXCEPT !.state = "stopped", !.counted = music.selected, !.base = 0, !.elapsed = 0,
                              !.queue = <<>>, !.cursor = 0]
    /\ sound' = Silence

ToggleRepeat == music' = [music EXCEPT !.repeat = ~@] /\ UNCHANGED sound

\* a fresh order, which does not open with the song just heard
Orders == {q \in [Song -> Song] : \A s \in Song : \E i \in Song : q[i] = s}
\* slip: the next order may begin with the song just heard
AnyOrder(heard) == Orders

FreshOrders(heard) ==
    {IF LastSong > 1 /\ q[1] = heard THEN [q EXCEPT ![1] = q[2], ![2] = q[1]] ELSE q : q \in Orders}

\* the song at a place of a shuffle order, from its start
PlayAt(order, cursor) ==
    PlaySelected([music EXCEPT !.queue = order, !.cursor = cursor, !.selected = order[cursor],
                               !.counted = order[cursor], !.base = 0, !.elapsed = 0], 0)

ShuffleAll == \E q \in FreshOrders(music.playing) : PlayAt(q, 1)

\* poll, every quarter second: what follows a song whose process has ended
Finished == Active /\ ~Running
RepeatSong ==
    Finished /\ music.repeat /\ PlaySelected([music EXCEPT !.selected = music.playing, !.base = 0, !.elapsed = 0], 0)
NextShuffled ==
    /\ Finished /\ ~music.repeat /\ music.queue # <<>>
    /\ IF music.cursor < Len(music.queue) THEN PlayAt(music.queue, music.cursor + 1)
       ELSE \E q \in FreshOrders(music.playing) : PlayAt(q, 1)
NextInOrder ==
    /\ Finished /\ ~music.repeat /\ music.queue = <<>>
    /\ LET next == (music.playing % LastSong) + 1 IN
       PlaySelected([music EXCEPT !.selected = next, !.counted = next, !.base = 0, !.elapsed = 0], 0)

\* the view closes and opens again: the session is closed and a new one made
ReopenMusic == music' = NewSession /\ sound' = Silence

-----------------------------------------------------------------------------
(* Time and the process *)

SongTick ==
    /\ (music.state = "playing" /\ music.elapsed < Duration) \/ (Running /\ ~sound.suspended /\ sound.pos < Duration)
    /\ music' = [music EXCEPT !.elapsed = IF music.state = "playing" /\ @ < Duration THEN @ + 1 ELSE @]
    /\ sound' = [sound EXCEPT !.pos = IF Running /\ ~sound.suspended /\ @ < Duration THEN @ + 1 ELSE @]

\* at the end of the song, or before it when the player fails
SoundEnds == Running /\ ~sound.suspended /\ sound' = Silence /\ UNCHANGED music

MusicNext ==
    \/ \E s \in Song : SelectSong(s)
    \/ Pause \/ Resume \/ PlayPressed \/ StopMusic \/ ToggleRepeat \/ ShuffleAll
    \/ \E t \in 0..Duration : SeekSong(t)
    \/ RepeatSong \/ NextShuffled \/ NextInOrder \/ ReopenMusic
    \/ SongTick \/ SoundEnds

MusicSpec == MusicInit /\ [][MusicNext]_musicVars

-----------------------------------------------------------------------------
(* Properties *)

\* What the state is made of; a shuffle order holds every song once.
MusicTypeOK ==
    /\ music.selected \in Song /\ music.playing \in 0..LastSong /\ music.counted \in Song
    /\ music.state \in {"stopped", "playing", "paused"} /\ music.base \in 0..Duration /\ music.elapsed \in 0..Duration
    /\ music.queue = <<>> \/ (music.queue \in Orders /\ music.cursor \in Song)
    /\ sound = Silence \/ (sound.song \in Song /\ sound.pos \in 0..Duration)

\* What the view shows as playing or paused is the song the process has, and
\* the process is suspended exactly when the view says paused: through seeks,
\* failed seeks, shuffles and songs that end by themselves.
SoundMatchesView ==
    Active /\ Running => sound.song = music.playing /\ (sound.suspended <=> music.state = "paused")

\* Shuffle never plays the same song twice in a row, from one order into the
\* next one included.
ShuffleMovesOn ==
    [][music'.queue # <<>> /\ LastSong > 1 /\ music'.state = "playing"
          /\ <<music'.queue, music'.cursor>> # <<music.queue, music.cursor>> =>
          music'.playing # music.playing]_musicVars

\* A stopped session makes no sound: what the documentation says of Stop and of
\* a closed view, and what a song whose file is gone breaks.
StoppedIsSilent == music.state = "stopped" => ~Running

\* The position shown is the position heard: what a seek to the start breaks.
PositionIsHeard == Active /\ Running => Position = sound.pos
=============================================================================
