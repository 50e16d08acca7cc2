# A verification of BMO

BMO is a voice assistant on a kiosk: a Python program with a Qt presentation,
an assistant worker thread, a speech thread, pluggable features and interaction
modes, and a relay that carries messages from a phone to the kiosk over a local
network. This directory holds TLA+ models of it, the TLC configurations that
check them on small instances, and theorems about them proved with TLAPS for
every value of the constants.

`PROJECT.json` lists, for every definition, the source lines it translates, for
every property a plausible bug that breaks it, and every hazard of the code at
the line where it bites, with the properties that watch it. Paths below are
relative to `src/bmo/` unless they start with `src/`.

## 1. The system

### The message relay (`features/imessage_relay/`)

| component | state it keeps | operations | correct when |
| --- | --- | --- | --- |
| source reader (`relay/reader.py`, `live_source.py`) | none; reads Messages' SQLite database | live page after a cursor, page of a lookback window | a page is one read transaction, ordered, and says of each row whether it could be read |
| delivery queue (`relay/state.py`) | cursor, parse issues, events with status, retry cycle, lease, attempt history | `commit_scan`, `commit_reconciliation_batch`, `claim_next`, `record_failure`, `acknowledge`, two requeues | nothing is skipped, attempts and status agree, the retry budget is kept, every event settles |
| sender (`relay/sender.py`) | the attempt in its hands | `deliver_once`, `run_forever`, the attachment flow | only a durable receipt is acknowledged |
| reconciler (`relay/reconciliation.py`) | a window of source time, a page of entries, the receipts that answered it | re-scan, compare receipts, requeue or confirm | it repairs lost acknowledgements and lost receipts and spoils nothing |
| kiosk event store (`receiver/store.py`) | pending and received events, upload rows and files, nonces | `ingest`, `begin_attachment_upload`, `append_attachment_chunk`, `reserve_nonce`, receipts | an acknowledged event is there, whole |
| receiver (`receiver/server.py`, `auth.py`) | server threads | verify, reserve, dispatch | no request is processed twice |
| outbound (`outbound/`) | one confirmation with an expiry, one durable row per command | prepare, confirm, cancel, submit, status | a confirmed command is submitted once; an uncertain one is asked about and not tried again |
| phone control (`phone_control.py`, `feature.py`) | a worker thread with a queue, resume and probe schedule | open, request, probe, close | every accepted check reports its end |
| message feed (`feature.py`, `notifications.py`, `media_library.py`) | last event seen, published files | recent events, reactions, publishing | what is shown is current and whole |

The relay runs on one machine, the kiosk on another. The observer, the sender
and the reconciler share the relay's SQLite store; each public method of it is
one `BEGIN IMMEDIATE` transaction. Sender and reconciler talk HTTP to the
kiosk, whose store is one process-wide lock around SQLite and private files.

### The assistant runtime

| component | state it keeps | operations | correct when |
| --- | --- | --- | --- |
| worker (`runtime.py`, `runtime_loop.py`, `runtime_voice.py`) | one daemon thread in a loop; events `wake`, `interrupted`, `ptt`, `exit` | take typed, vision or mode work, wait for a trigger, capture, answer, recover | no work is forgotten, no failure ends the worker, closing does |
| extensions coordinator (`runtime_extensions.py`) | the vision and mode queues, both under one lock | queue, take, clear the wake event if idle, close | the wake event is set while work waits |
| speech queue (`runtime.py`) | a list of utterances, the active one, per-item cancelled flags | enqueue, replace a view's speech, cancel, clear, speak, wait | one live utterance per view; each is completed or cancelled |
| attentions (`runtime.py`, `features/contracts.py`) | the list of what features want acknowledged | raise, dismiss, acknowledge | the badge counts them |
| mode registry (`modes/registry.py`) | registered, active, quarantined, closed modes | register, route, launch, quarantine, close | one mode runs; each is closed once |
| extension loading (`extensions.py`, `features/registry.py`, `menu_loader.py`) | tools by name and alias, a stack of transactions | load, register, roll back, dispatch, close | a failed module leaves nothing behind; a name means one tool |
| Quiet Hours (`kiosk_access.py`) | the unlocked period | is_locked, unlock | the cover is up exactly when nobody unlocked this period |
| audio, wake word, transcription (`audio.py`, `speech.py`) | subprocesses | record, wait for trigger, play | every wait ends at the exit flag |

Three threads meet here: the worker, the speech thread and the Qt thread, whose
callbacks queue work, press push-to-talk, interrupt, apply Quiet Hours on a one
second timer and close. They share lists under locks and four
`threading.Event`s that are set, tested and cleared without one. Features add
threads of their own, which reach the face through the runtime's callbacks.

### The presentation, the features and the games

| component | threads and state | correct when |
| --- | --- | --- |
| shell (`qt/controller.py`, `qt/view_host.py`, `menu_model.py`, `gestures.py`) | Qt thread; screen, menu page, one hosted view; callbacks posted from other threads | no view is lost or closed twice; a view leads back to its page |
| timer (`features/set_timer.py`) | one thread on a condition, a priority queue | it rings on time, once, and never after it was cancelled |
| alarm clock (`features/alarm_clock.py`, `alarm_store.py`) | a minute worker, touch and voice; one JSON file | an occurrence rings at most once, over restarts as well |
| calendar (`features/calendar.py`, `calendar_store.py`) | a midnight worker and the Qt thread; one JSON file | changing a date leaves the others; today's events are on the face; recurrences are right |
| music (`features/music.py`, `music_store.py`) | Qt thread and one child process; one JSON file | the view shows what is heard, and only what is saved |
| rover (`features/galaxy_rvr.py`) | a control worker, a photo thread, the Qt thread | it stops when nobody steers; the strip has the chosen colour |
| weather (`qt/views/weather.py`, `features/get_weather.py`, `weather_view.py`) | a thread per fetch | a page that loads has a fetch; a warning is heard; the picture fits the weather |
| twenty questions (`twenty_questions.py`, `modes/twenty_questions.py`) | the worker by voice, a thread per tap; an overlay file | what fits stays in the game; what is known is not unlearnt |
| matching game (`matching_game_core.py`, `matching_game.py`, `modes/matching_game.py`, `qt/views/`) | Qt timers that are not cancelled, Tk timers that are | the board can always be played on; an end is a real end |
| learning (`features/learning/`, `qt/views/learning.py`) | Qt thread; three JSON documents | the judge accepts what the prompt asks for; the record survives; the teacher's area stays behind its PIN |

### What is hard here

- the gap between two commits of different machines: a request processed after
  its sender gave up, an answer lost after the commit, a lease expired under a
  slow sender, a store replaced under a relay that believes it delivered;
- the gap between a file and a database row of the same machine, and between
  the change in memory and the write of the file that keeps it;
- state listed before a network call and acted upon after it (reconciliation,
  weather pages, turns that wait for a language model);
- flags tested and cleared outside the lock of what they stand for: the wake
  event, the interrupt event, push-to-talk, the two reads of `wait_for_tts`;
- callbacks of modes and acknowledgements made outside the lock while the
  registry closes or the list of attentions changes;
- timers and workers that outlive the round or the view they were begun for;
- waits that must end: by a timeout, by an interrupt, by the exit flag.

## 2. The modules

| module | models | its state in the code |
| --- | --- | --- |
| `RelayQueue` | the queue and the scan that feeds it; one action per store transaction | `source_cursors`, `parse_issues`, `relay_events`, `delivery_attempts` |
| `RetryPolicy` | `RetryPolicy.delay_after_attempt`, the backoff with its cap | a function of the attempt number |
| `ReliableDelivery` | the abstract promise: received, confirmed, settled | what the whole relay is for |
| `RelayDelivery` | EXTENDS `RelayQueue` with senders, a network, the kiosk and the reconciler; implements `ReliableDelivery` | the locals of `deliver_once` and `reconcile`, requests and answers in flight, `received_events` |
| `AttachmentTransfer` | the completion-aware delivery of one event with its blobs | `attachment_uploads`, the upload files, the sender's open file |
| `ReceiverAuth` | replay protection with wall clock, stalls and threads | `authentication_nonces`, each handler between its two clock reads |
| `OutboundCommands` | composing, confirming, submitting and asking about a message of the kiosk | the confirmation, the submission thread, `outbound_commands`, staged media; the phone |
| `PhoneLink` | the relay service and the coordinator's worker | phone and reconciliation state, the command queue, probes |
| `RelayFeed` | what the view shows of received events | reactions, published files, counts |
| `TurnLoop` | the worker against every Qt callback | program counter of the worker, the three queues, the events, Quiet Hours, close |
| `SpeechQueue` | every writer of the list, the speech thread, `wait_for_tts` | `tts_queue`, `active_tts_item`, `tts_active`, the items' flags |
| `ModeRegistry` | routing, starting, quarantining and closing modes | `_modes`, `_active_mode`, `_quarantined_modes`, `_closed_modes`, `_closed` |
| `ExtensionLoading` | registration by modules, with nested transactions | tools, names, `_transactions`, menu items |
| `KioskPresentation` | attentions and Quiet Hours as the face shows them | the attentions, the unlocked period, posted signals, badge, cover, passcode |
| `KioskShell` | the screens and the host of one view | current view, menu page, the screen, gestures |
| `CountdownTimers` | the scheduler, its thread, the tool and the touch view | the heap, the condition, `_expired`, the attentions |
| `AlarmClock` | alarms and their worker | the JSON state, `_fired_occurrences`, `_ringing` |
| `Calendar`, `CalendarAttentions`, `CalendarRules` | the editor and its file; today's attentions; recurrences, holidays, pages, the days a question asks about, the editor read back | events with exclusions; `_published_ids` of each publication; a question and its answer |
| `MusicPlayer`, `MusicShelf` | the session with its process; the lists with their file | `_process`, position, order; recent, favourites, playlists, revision |
| `RoverRemote` | the control worker, the colours, the photo thread | link, pad, pending colour, `taking_photo` |
| `WeatherPage` | the carousel, its fetches and warnings, the picture it chooses | tokens, cache, errors, in flight, `speaking_key`; the view state of a reading |
| `TwentyQuestions` | game, catalogue, overlay and mode | candidates, history, the guess, turns by voice and touch |
| `MatchingBoard` | the rules of the pair game and BMO's memory | no state: operators on a board |
| `MatchingGame`, `MatchingTable` | the hosted view; the Tk canvas beside it, with `BoardsArePlayable` of both | board, timers that are set, announcement token; `after` callbacks |
| `LearningQuestions` | every generator of questions, over words as they are filed and as they are heard, and the judge | a question, the answers picked, the verdict |
| `LearningProgress` | sessions, attempts and the store | plans, attempts, sessions, the session in memory |
| `LearningScreens` | the child's lesson and the teacher's area | the screen, the selection, the PIN, unsaved plans |
| `Lists` | the list comprehension that drops elements, as a recursive function | no state |
| `Relay_proofs`, `Messages_proofs`, `TurnLoop_proofs`, `Services_proofs`, `Features_proofs`, `Games_proofs`, `Lists_proofs` | the theorems of section 6 | |
| `MC*` | instances for TLC: definitions a `.cfg` cannot write, and compositions | |

How they fit together: `RelayDelivery` composes the queue with its users. In
`RelayQueue` alone any attempt may be failed and any event acknowledged at any
time, so its safety holds whatever the callers do; in `RelayDelivery` these
actions happen only where the sender and the reconciler make the call.
`AttachmentTransfer` opens up the one step `Ingest` of `RelayDelivery` for an
event with attachments. `ReceiverAuth` shows what both take for granted: no
request is processed twice. `TurnLoop` leaves a turn's speech to `SpeechQueue`,
the lifecycle of a mode to `ModeRegistry` and the arithmetic of Quiet Hours to
`KioskPresentation`; it only takes from them that a turn ends, that a mode is
active or not and that the lock may change. `Calendar` answers by day what
`CalendarRules` computes by date, and hands what is due today to
`CalendarAttentions`. Both pair games share `MatchingBoard`,
and `MusicShelf` EXTENDS `MusicPlayer` so that `MusicIsAsShown` can speak of both.

Four instances put modules side by side: `MCMessages`, `MCServices`, `MCKiosk`
and `MCGames`. The modules in one of them share no variable and call each other
only through what each takes as a choice of its environment. A product of
independent state spaces says nothing more than its factors, so a variable
`focus` chooses in the initial state the module whose steps are taken, while
the others stay as they begin. Fairness is restated for the steps of a module
inside its own behaviours. A property of such a run is the conjunction of the
named parts of a module: its types and what it promises.

Abstractions worth knowing:

- A message and the event normalized from it are named by their ROWID; a
  payload is the version of the row it was read from. A parse issue is counted
  up to `MaxIssues`.
- A timestamp column is the time left until it is due. `Tick` counts all of
  them down together, so "expired" and "eligible" are comparisons with zero.
- A file's content is a sequence of the source versions its bytes were read
  at; the digest of a file of one version is that version. An edit that changes
  the size is a failed attempt and is left out; one that keeps it is the hard
  case.
- A critical section is one step, a read outside a lock is a step of its own.
  What a turn says, how long it takes and which words were recognised are
  choices of how it ends.
- The write of a JSON file is one step that succeeds or fails; the change in
  memory that precedes it is in the step as the code orders it.
- A signal posted to the Qt thread is an element of a queue, and the step that
  shows it a step of its own.
- A random choice (a distractor, a shuffle, BMO's lapse of memory, a question)
  is a choice among all the code could draw.
- The language model may answer anything, and the services, the phone, the
  rover and the child process may answer, fail, or vanish at any moment.
- A request that is late is still processed once: a second processing of the
  same bytes is what `ReceiverAuth` excludes.
- `RelayDelivery` starts where discovery has finished: every row is stored and
  queued, which `RelayQueue` reaches by inserts, one scan and one commit.
- Quiet Hours are in `TurnLoop` a flag the clock moves (`ClockMoves`); from
  `CloseBegin` on the period no longer matters.

## 3. The runs

Each passing run explores its whole state space; every action of every
specification takes place in one of them.

| run | configuration | shows |
| --- | --- | --- |
| `queue_discovery` | `MCRelayQueue_discovery.cfg` | the cursor never passes a row that is neither stored, nor a visible issue, nor deleted; neither cursor nor payload goes back, though two observers commit stale pages |
| `queue_delivery` | `MCRelayQueue_delivery.cfg` | status, attempts, leases and retry budget agree through expiries, late failures, late acknowledgements and requeues; every event settles |
| `relay_promise` | `MCRelayDelivery_safety.cfg` | senders, network, kiosk and reconciler together implement `ReliableDelivery` |
| `relay_repair` | `MCRelayDelivery_repair.cfg` | whatever the kiosk holds is acknowledged in the end, if no acknowledgement ever arrives |
| `messages` | `MCMessages.cfg` | attachments arrive whole or are stuck by an edit; no nonce is accepted twice; no unresolved command is tried again; an accepted receipt check reports; the feed shows what is current and whole |
| `attachment_reset` | `MCMessages_reset.cfg` | finding 1 |
| `turns` | `MCTurnLoop.cfg` | menu work always wakes the worker, failures never end it, vision requests are answered, close ends every wait |
| `quiet_hours_voice` | `MCTurnLoop_quiet.cfg` | finding 2 |
| `services` | `MCServices.cfg` | one live utterance per view, a turn outlasts its speech, every utterance settles; one mode runs, each is closed once and all are closed, a failed mode stays out |
| `modes_close` | `MCServices_close.cfg` | finding 3 |
| `kiosk` | `MCKiosk.cfg` | the face, the shell, loading, timers, alarms, the calendar with its arithmetic, music, rover and weather |
| `games` | `MCGames.cfg` | twenty questions, both pair games, the questions, the record and the screens of the learning area |

### Bounds, and why they are enough

- **Discovery:** two rows, pages of one row (`Limit = 1`), two observers, one
  edit, one deletion. Two observers holding different pages of the same source
  is what every conflict of `commit_scan` needs; a page of one row makes the
  cursor move between any two rows. Observers are symmetric.
- **Delivery:** two rows, two attempts a cycle (so a first failure waits and a
  second is final), four attempts in all (so a whole second cycle follows a dead
  letter), leases of one tick and delays of one and two. One row runs ahead of
  the other, which is what starvation needs.
- **`relay_promise`:** one row, two senders, three cycles of one attempt, three
  requests in flight, a kiosk that is lost twice and may hold another content of
  the event at first: a second sender claims while the first one's request is
  still on its way, and a late request of a first cycle arrives in a third one,
  after two operator retries or two requeues. The event ages at any time, and a
  pass over its month may find it. What waits between two attempts of one cycle
  is left to `queue_delivery`, and every number of attempts to the theorem. Rows
  share nothing but the claim order, which `queue_delivery` covers.
- **`relay_repair`:** two rows on two pages of the reconciler, one attempt a
  cycle, one lost kiosk whose events are then missing and sent again. Later
  pages of a pass are what a single row would hide, and the first row may age,
  so that a pass goes on over a page with nothing to ask. Operator retries and
  passes over a month are in `relay_promise`.
- **Attachments:** a blob of three bytes in chunks of two (a full and a short
  chunk) and an empty one; two edits and three faults of any kind, enough for
  an edit between two attempts and one within each, and for a late chunk, a
  crash and a lost answer in one behaviour.
- **Auth:** a window of one second, stalls and clock steps of the two seconds
  the assumption allows, seven seconds (longer than a nonce is kept), two
  requests and two threads.
- **Outbound:** two commands, one of them with media, two attempts each: one
  command can be pending while the other is asked about, and an attempt follows
  one that was lost. **Link:** three checks, so that one runs, one waits and one
  is refused. **Feed:** three events in a window of two and two reaction slots:
  a message, its reaction and its removal, in every order.
- **Turns:** two vision requests, one typed request, one waiting mode launch,
  one continuous and one suspended mode: two vision requests are what it takes
  to clear the wake event with one still waiting.
- **Speech:** three utterances and one view: one spoken, one queued, one that
  replaces them, with and without a scope. **Modes:** three: one that runs, one
  that is launched, one that fails.
- **Face:** two attentions, two days of three minutes with a period over
  midnight, and a passcode of two digits. **Shell:** sixteen menu items, which
  make two pages, the second one not full, and three
  views, so that a view is replaced while another is being closed.
  **Loading:** three tools (one whose alias is another's action, one for the
  menu with an action already taken) in two modules nested two deep.
- **Timers:** two timers of at most two ticks over three ticks: the second may
  be due before, with or after the first. **Alarms:** one alarm over two days
  of two minutes, with a worker as late as it likes, a snooze, a draft in the
  editor and a restart in between.
- **Calendar:** two events on three dates with four edits (a series with and
  without an end, begun on either of two days, and a single day), which gives
  exclusions at both ends of a series. **Notices:** two entries, two days, two
  threads. **Rules:** starts at ends of months, in leap years and in a century
  without one, every frequency with and without weekdays, ends and exclusions,
  windows across those dates, on each day of which every period and weekday is
  asked for and on each date of which the editor is opened; every holiday of
  three centuries and every month page of nine years.
- **Music:** three songs of two seconds (a seek has a beginning, a middle and an
  end); a library of two songs with lists of one, so that each limit is met.
  **Rover:** two colours; sticks and servo steps at their ends, their middle and
  in between; every seven bytes of telemetry. **Weather:** two places, three
  fetches, two hours; the picture for every reading at six times of day.
- **Twenty questions:** two games in a row, a catalogue of two objects with a
  third to learn, two questions and one bonus question. **Pair games:** boards
  of two and three pairs and up to two rounds, with any number of timers pending.
- **Learning:** every kind of question over banks in which a distractor can be
  right by sound, by group or by pattern: words of the bundled banks of which
  some are heard alike and filed apart ("rabbit" and "sit", "kit" and "cat", "to"
  and "two"), the letters c and k, and two scenarios, one of which (the bundled
  `spacing-1`) shows two answers that read alike;
  two learners, two plans over the same two lessons, of which the second builds
  on the first, planned sessions of two questions, quick ones of one, a history
  of two. Plans and learners are symmetric: what they are named is never
  compared.

`CHECK_DEADLOCK FALSE` is set everywhere because each model stops: the bounds
run out, an event is acknowledged, or the program has closed.

### Fairness, and what in the code justifies it

- `RelayQueue!FairSpec`: `RelaySender.run_forever` claims again whatever the
  last attempt came to, and time passes. Nothing is assumed of the attempts: a
  crashed sender leaves its lease to expire.
- `RelayDelivery!FairRelaySpec`: time passes, each sender takes its next step,
  every pass goes on or ends (its requests have a timeout), and the kiosk's
  phone control starts recent reconciliations for ever (weekly, or at the
  user's request), passes over a month notwithstanding. Strong fairness on a
  page's request and on the application of a receipt, in a pass that covers the
  recent window, says that no page of these fails on every pass; passes may
  fail arbitrarily often before one of them succeeds. There is none on
  `Ingest`: that a request arrives is assumed nowhere. Nor is it assumed that an
  event stays recent: `HeldIsAcknowledged` excuses one that has aged, since a
  pass asks about no event outside its window (`reconciliation.py:216-218`). An
  event that is dead at the relay and held by the kiosk when it leaves the
  window stays so until somebody reconciles its month. The backlog is already
  stored and its source rows do not change: an edited row would make the
  re-scan of its window fail (`state.py:276`) and with it every pass over it.
- `MCMessages!MessagesSpec`: for attachments the sender goes on (its queue
  retries, and an operator after a dead letter) and the kiosk processes the
  request that is being waited for, faults being finitely many by their bound;
  the link's worker goes on, since each of its calls has an HTTP timeout.
- `TurnLoop!FairTurnSpec`: the worker is not starved and each turn ends; the
  second statement of a Qt handler runs; `close()` completes; whoever holds
  push-to-talk lets go. `Capture` is strongly fair because taps are debounced
  by half a second while the recorder polls every 50 ms, so it sees a release
  before the next press. No trigger is fair: nobody need speak.
- `MCServices!FairSpec`: the speech thread runs and each utterance ends; neither
  the worker nor the Qt thread is starved in a call of the registry, and each
  callback of a mode returns.
- `kiosk` and `games` check safety only and assume none: whether a user presses
  a button or a service answers is not the program's to promise.

## 4. The properties in words

- `CursorNeverAhead`, `DiscoveryIsMonotone`: a message is never skipped in
  silence and never replaced after it was queued.
- `OpenAttemptIsCurrent`, `HistoryExplainsStatus`, `RetryBudget`,
  `HistoryIsKept`: the four ways a lease protocol with late answers usually
  goes wrong. They are also why the store's own integrity errors never fire.
- `KeepsPromise` (refinement): an event is settled as delivered only if the
  kiosk has held it, and as dead only by giving up on a pending one.
- `HeldIsAcknowledged`, `EventuallySettled`: no event is stuck.
- `BlobsAreKept`: nothing torn or mixed of two versions is acknowledged
  (`ReceivedIsIntact`), complete blobs are final, and an offset beyond its file
  is one of an interrupted reset. `TransferEnds` names the exception: a blob
  whose source was edited after part of it became durable is refused for ever
  (`Stuck`), and its event is retried until it is dead.
- `AuthIsSafe`: a request is accepted at most once; the reason is part of it:
  a nonce the store has forgotten is one no clock reading will verify.
- `CommandsAreSafe`: between two attempts of a command the phone has said where
  it stands (`ResolvedBeforeRetry`). `LinkAnswers`: an accepted check reports.
  The answers of the phone, its control file and the order in which receiver,
  link and worker start are part of it.
  `FeedIsHonest`: a badge is the latest event of its slot, an offered file is
  intact.
- `MenuWorkWakes`, `EndsOnlyOnClose`, `VisionAnswered`, `CloseEndsWorker`.
- `SpeechIsSafe`: one utterance of a view is live. `SpeechSettles`: each is
  completed or cancelled, and a turn outlasts its speech with one exception: an
  utterance taken from the list but not yet marked active escapes the two
  unlocked reads of `wait_for_tts`.
- `ModesAreSafe`: one mode runs and each is closed at most once. `ModesRetire`:
  a failed one stays out, and `close()` reaches all.
- `FaceIsTrue`: an unlock is for one period, over midnight too; the cover
  follows the lock; the badge counts the attentions unless two threads counted
  at once. `ShellKeepsViews`: every view opened is the one shown or closed, and
  leaving one leads back to its page; every item of the menu is on one page.
  `LoadingIsClean`: a name means one tool, a rollback closes what it removes and
  nothing else.
- `TimersKeepTime`: the thread never sleeps past a deadline, a cancelled timer
  stays silent, nothing is left on the face after closing. `AlarmsFireOnce`: an
  occurrence rings once, through edits, late checks and restarts;
  and a time or repetition BMO says is one it understands as the same.
- `CalendarIsKept`: changing one date takes that date and no other; today's
  attentions are right unless two publications overlapped; the arithmetic of
  recurrences, holidays, pages and periods equals a count day by day. A series
  opened at one of its dates and saved as it was shown keeps its dates from that
  one on; the two exceptions, a counted series and a day the month does not
  have, are conditions of `EditorKeepsSeries`.
- `MusicIsAsShown`: view, session and process agree; what is shown is what the
  file holds, unless an error is shown; shuffle never repeats a song.
  `RoverIsSafe`: it stands still without a gamepad, and the strip has the colour
  chosen last; its commands fit the frame, whatever sticks and settings say, and
  telemetry is believed only as a whole frame. `WeatherIsHonest`: a page that
  loads has a fetch that counts, a warning is not missed, and no picture plays
  down a reading.
- `BoardsArePlayable`: a board is never locked with nothing pending and no end
  is shown that is not there, unless a game was begun in BMO's turn.
  `TwentyIsFair`: a game waits for one thing, what fits stays a candidate, and
  what is known is not overwritten; a start keeps what was learnt, and merging
  it into the catalogue keeps the catalogue's answers.
- `JudgedByThePrompt`: the judge, which knows only the generator's marks,
  accepts a response only when it is right by the prompt as a child hears and
  reads it, and refuses one only when it is wrong, or holds a choice that sounds
  or reads right and that the bank files apart from the answer (`FiledApart`).
  The exception is real: `NoWrongAnswerFits`, which has no exception, is broken
  by the bundled banks (§5). `RecordIsKept`: no sequence of legal
  operations leaves documents the next start refuses; sessions and history
  agree, mastery is earned, and so is a learner's report. `ScreensAreSafe`: the
  PIN guards every screen of the teacher's area, and no feedback is given for an
  answer not recorded.

A condition such as "unless two threads counted at once" marks a disagreement
of the code with what it promises: the same property without the condition is
in the module, and in the list that follows.

## 5. Findings

Three have a run of their own:

1. **Interrupted reset of an upload** (`receiver/store.py:547`,
   `attachment_reset`). After a digest mismatch the file is emptied, then the
   row's offset is committed as zero. Stopped in between, the durable offset is
   ahead of the file, contrary to
   `src/agent_docs/plugins/imessage_relay/components/attachment_transfer.md:54`;
   every later session and chunk of the blob is refused.
2. **Quiet Hours and a voice turn** (`runtime_voice.py:193`,
   `quiet_hours_voice`). The interrupt that Quiet Hours raise during a capture
   is cleared by the executor just before the turn is answered. The README says
   the cover blocks voice turns. The speech of the turn is dropped; its tools,
   text and memory are not.
3. **A mode started after the registry closed** (`modes/registry.py:174`,
   `modes_close`). `start()` checks under the lock and calls `mode.start()`
   after it; a whole `close()` fits in between.

The others are stated as properties beside those that hold. Put alone under
`INVARIANTS` (or `PROPERTIES`, for one of the form `[][...]_v`) of the
configuration named first, each is violated:

| configuration | property | what the code does |
| --- | --- | --- |
| `MCMessages.cfg` | `FailedMeansNotSent` | reports a command whose answer was lost as failed, though the phone may have sent it (`outbound/coordinator.py:145`) |
| | `SingleFlight` | accepts a second receipt check beside one that waits, after an automatic one (`phone_control.py:494`) |
| `MCKiosk.cfg` | `BadgeIsAlwaysCurrent` | posts counts after the lock, in either order (`runtime.py:886`) |
| | `AttentionIsRinging` | raises an alarm's attention after it was dismissed (`features/alarm_clock.py:604`) |
| | `SeriesKeepsItsDates` | fills the editor of a series with the occurrence's date, and so moves its start (`qt/views/calendar.py:320`) |
| | `TodayIsAlwaysNoticed` | lets two publications of today's events overlap (`features/calendar.py:367`) |
| | `StoppedIsSilent` | leaves the previous song playing when the next one's file is gone (`features/music.py:417`) |
| | `PositionIsHeard` | ignores a seek to the start of the song that plays (`features/music.py:419`) |
| | `OpenPlaylistExists` | keeps a playlist open that is gone from memory when its deletion could not be written (`features/music_store.py:202`) |
| | `ClosedRemoteIsStill` | commands the rover after its view closed (`features/galaxy_rvr.py:861`) |
| | `PhotoHasThread` | refuses photos for good after an unexpected failure (`features/galaxy_rvr.py:847`) |
| | `LateWorkersAreHarmless` | announces after a swipe or a close (`qt/views/weather.py:211`) |
| | `PassedHoursAreDropped` | sets the clock of an old forecast back when a refetch fails (`qt/views/weather.py:202`) |
| `MCGames.cfg` | `RevealIsHeard` | ends a voice game that has just asked for a name again (`modes/twenty_questions.py:158`) |
| | `BmoKeepsItsTurn`, `BoardIsNeverStuck` | lets timers of one round act in the next (`qt/views/matching_game.py:123`, `:94`) |
| | `TableEndIsFinished` | shows the end of the former round over a new game (`matching_game.py:936`) |
| | `NoWrongAnswerFits` | offers a wrong answer that is right by ear, as a word's tag is all it compares (`features/learning/engine.py:502`: "rabbit" against "sit"), or that is shown the same as the right one (`features/learning/curriculum.py:285`) |
| | `ResetClearsReport` | counts answers without a plan in the report of a plan that was reset (`features/learning/analytics.py:125`) |

Met while modelling, and not a property: a typed request put after the worker
found the typed queue empty loses its wake-up (`runtime.py:323`), because
`clear_wake_if_idle` looks at the two menu queues only; it waits for the next
trigger.

## 6. What is proved

All theorems are of the form `Spec => []Inv`, `Spec => [][A]_vars` or a
refinement, for every value of the constants that satisfies the named
assumptions. Each has an inductive invariant, one lemma per action or group of
actions, and a last temporal step.

### `Relay_proofs`

- **The queue**, from `ConstantsAssumption`. `DeliveryInv` is the type
  of the delivery variables with `RowInv(r)` for every row: the conjunction of
  `OpenAttemptIsCurrent`, `HistoryExplainsStatus`, `RetryBudget` and the last
  conjunct of `TypeOK`, which says of each status what lease and delay it
  leaves. None of
  them is inductive alone: that an expired lease can close its attempt needs
  that the current attempt is the last one, and the budget needs that a leased
  event has begun a cycle. `DiscoveryInv` adds `BatchInv` to
  `CursorNeverAhead`: a scanned batch covers all rows between its ends, which
  is what the commit of a page relies on long after its scan; proving that of
  `Page` takes cardinalities of finite sets. Theorems: `TypeCorrect`,
  `AttemptsAreCurrent`, `StatusIsExplained`, `BudgetIsKept`,
  `NothingIsSkipped`, and the action properties `DiscoveryMonotone` and
  `HistoryKept`.
- **The refinement**, from the same and `DeliveryConstantsAssumption`.
  `RelayInv` joins `DeliveryInv` to `RelayTypeOK`, whose last conjuncts say
  that answers and receipts in flight speak of events the kiosk has held, and a
  pass of events in its window. Under
  it each action maps to a step of `ReliableDelivery` or a stutter; the sweep
  in `claim_next` maps to giving up on a set of events. Theorems:
  `RelayTypeCorrect`, `PromiseKept`. The specification proved starts with all
  rows stored (see section 2).

### `Messages_proofs`

- **Authentication**, from `TimingAssumption`: a handler stalls, and the
  clock is stepped back, by at most the window and a second. `AuthInv` says
  that a thread verified its request recently (`Recent`), so that its nonce is
  too young to be dropped (`Remembered`), and that the sum of the clock and of
  what it was stepped back has passed the window of every dropped nonce
  (`Outdated`). Theorems: `AcceptedAtMostOnce`, `AuthTypeCorrect`, `AuthSafe`.
- **Outbound commands**, from `OutboundConstants`. Besides the types of
  the store, the gate and the submission, `OutboundInv` has two facts: a row
  that may be submitted has no attempt left unresolved (`Settled`), and until
  its attempt is recorded the row of the command in hand is still queued
  (`Claimed`), because nothing but the submission writes it.
  `ResolvedBeforeRetry` is an action property that follows from both. Theorem:
  `CommandsSafe`.
- **Attachments**, from `TransferConstantsAssumption`, for any number and sizes
  of blobs and any chunk size. That complete blobs are whole is not inductive:
  a late chunk may meet a row begun anew. `TransferInv` adds that the sender
  waits for one answer at a time (`OneIsAsked`), that what it hears is about
  the blob it sends, which has a session (`SenderKnows`), and that each chunk
  still on its way is of a blob with a session and begins inside it
  (`RequestsFit`); then a row that reaches its size holds every byte of one
  version (`CompleteIsWhole`). Theorem: `TransfersKeepBlobs`.
- **The feed**, from `FeedConstants`, for any window. The badges are computed by
  a loop over the window, newest first, so the argument is an induction over
  its rounds: after each, the newest event met so far has decided every slot it
  is about (`Met`), and no event outside the window is newer than one inside
  (`WindowIsNewest`). Theorem: `FeedHonest`.
- **The phone link**, from `LinkConstants`. A receipt check the coordinator
  accepted is queued, in the worker's hand or reported, and the worker is told
  to stop only by a link that is closed (`WorkerStays`); the link says it is
  connected only while something listens. Theorem: `LinkKeepsChecks`.

### `TurnLoop_proofs`

From `TurnConstants`. `MenuWorkWakes` and `EndsOnlyOnClose` are inductive as
they stand: the lock makes the queues and the event change together, and the
worker reads the exit flag in the step that ends it. The types need one fact
more, that a mode is started only from a request for one (`LaunchesAMode`).
A vision request is never dropped: what is taken from the queue is the turn in
progress, and its end, failed or not, posts the answer. Theorems:
`WorkAlwaysWakes`, `OnlyCloseEndsWorker`, `TurnTypeCorrect`, `VisionKept`.

### `Services_proofs`

- **Modes**, from `ModeConstants`: `ClaimsOK` (whoever is about
  to close a mode has the claim for itself) gives `EachClosedAtMostOnce`;
  `RunsOK` (a running mode is the one in the worker's hands, or else the active
  one) gives `OnlyOneRuns`; the types alone are inductive, `ModesTyped`;
  `ModesSafe` joins the three. The mode that owns input is a registered one
  (`OwnerOK`), so one that failed is neither asked nor started again:
  `QuarantineKept`.
- **Speech**, from `SpeechConstants`. An utterance is in one place at a time:
  offered, in the list, taken by the thread, or ended (`OnePlace`), and no two of
  a view can still be heard (`OneHeard`); both rest on what filtering the list
  leaves of it. What a turn waits for was put on the list before the turn began
  to wait and never comes back (`AwaitedLeave`). Theorems: `SpeechSafe`,
  `TurnsOutlastSpeech`.
- **The face**, from `KioskConstants`. The count is either with the one thread
  that speaks or in the newest signal posted (`BadgeFollows`), and so is the lock
  since the time was checked (`CoverFollows`); a passcode was entered only in a
  period that has begun (`PeriodOK`). That the next period is not the same one
  is arithmetic of days and minutes, over midnight too. Theorem: `FaceTrue`.
- **The shell**, from `ShellConstants`, for a catalog of any length: a call names a view that was made,
  and closing it is nothing or takes the view shown off the screen
  (`ClosingAView`); a view that goes leads back to its page (`OverItsPage`). The
  pages share out the items by division. Theorem: `ShellKeepsItsViews`.
- **Loading**, from `LoadingConstants`, for scopes nested to any depth. What is
  registered is what was there when a scope began and what it was offered
  (`ScopesNest`), and a tool that two scopes were offered was there when the
  inner one began (`OfferedTwice`), so a rollback closes nothing another scope
  still answers for. Theorem: `LoadingLeavesNothing`.

### `Features_proofs`

- **Timers**, from `TimerConstants`. `NeverOversleeps` compares
  the wake-up with the earliest active timer, whichever that is by now; the
  invariant says that it is no later than any active deadline (`AwakeInTime`),
  which an added, cancelled or rung timer keeps for reasons of its own. A timer
  is active, taken and rung one after the other (`OneAfterTheOther`); what shows
  on the face waits to be acknowledged (`Shown`). Theorem: `TimersOnTime`.
- **Alarms**, from `AlarmConstants`: what was fired in this run is remembered
  until it is too old to be due (`FiredKept`), and what was saved as spent is
  not due again unless it is set to a later time (`SpentStays`). Theorem:
  `AlarmClockCorrect`, which includes that every time and repetition BMO says is
  understood as the same.
- **Weather**, from `WeatherConstants`. A place under way has a
  fetch of the current token (`UnderWay`), which has nothing to tell yet
  (`NothingYet`), and the page shown is under way as long as it has neither a
  forecast nor an error (`Awaited`); from these `LoadingHasFetch`. That the
  picture is honest is proved of `weather_view_state` for every reading and any
  hours of sunrise and sunset. Theorem: `WeatherHonest`.
- **Rover**, from `RoverConstants`. A colour that waits is the one chosen last,
  and one taken off to be sent is on its way to the strip (`ColorOnItsWay`);
  without a gamepad nothing is driven, from the reading to the command
  (`Undriven`). `EveryCommandFits` is the arithmetic of sticks, steps and limits
  for any settings file, stick and angle. The loop that takes a telemetry frame
  apart is a recursive function. Theorems: `RoverSafe`, `EveryCommandFits`.
- **Music**, from `MusicConstants` and `MusicShelfConstants`. `PlayerInv` adds to
  `SoundMatchesView` that the order of a shuffle says which song plays
  (`OrderIsPlayed`): with an order a permutation, a shuffle then cannot repeat a
  song. `ShelfInv` says that the file holds a library the store could have made.
  Theorem: `MusicShown`.
- **Calendar**, from `CalendarConstants` and `CalendarAttentionsConstants`. What
  is chosen occurs on the day shown, and a question is about something chosen
  (`ChosenOccurs`, `Questioned`); so a change of one date takes out a date of
  its series and no other, for any rule, count and earlier exclusions. Without
  an overlap one thread at most publishes, and what it has in hand is due by
  now (`Alone`). Theorems: `CalendarTyped`, `DatesChangeOneByOne`, `TodayShown`.

### `Games_proofs`

- **The learning screens**, from `ScreensConstants`. `AreaInv` is stated for each
  screen: the teacher's are up exactly while the PIN was given (`Gated`); a
  screen about a learner or a plan has one open (`LearnerOpen`, `PlanOpen`), the
  draft is the open plan's or a new one's (`DraftOpen`), and what is saved and
  what is still to be asked make up the session (`LessonOpen`). Theorem:
  `ScreensSafe`.
- **The pair game**, from `BoardConstants`, for any number of pairs. On the canvas one thing is under
  way at a time, since a new game cancels it (`OneAfter`); on the hosted view one
  timer is set at most as long as no game was begun in BMO's turn (`OneTimer`).
  What is under way says what is on the board. Theorem: `BoardsPlayOn`.
- **The judge**, from `QuestionConstants` and `BanksAreTrue` (words filed alike
  are heard alike, a word begins with the sound of its initial letter, an object
  is of its kind; the converse is not assumed): a question is marked by its
  prompt when it is put on the screen (`IsMarked`), one lemma for each generator.
  The theorem has no hypothesis of its own, and so covers the bundled banks with
  their words that are heard alike and filed apart. Theorem: `JudgedFairly`.
- **The record**, from `ProgressConstants`, for any limits. The next start
  reads the documents because whatever is kept, or on the screen, belongs to a
  learner who is there and to a plan of that learner (`AllOwned`). That history
  and sessions agree is not inductive: a session left and resumed goes on where
  it was, so `AsSubmitted` says of every session, the one on the screen too, that
  its answers put it where it is, and `Told` that what the history has of it is
  the end of what it has itself, which a limit, a reset and a new answer keep for
  reasons of their own. Reports are lemmas about `QuestionEvidence`: it has one
  group of answers for each question asked (`EvidenceIs`), so what is counted
  right at the first try can be mapped one to one to questions that were. Theorem:
  `RecordKept`.
- **Twenty Questions**, from `TwentyConstants`, for any catalogue and limits.
  While nobody asks the model one thing is waited for (`OneAsked`); one thread
  at a time moves the game (`OneActs`), and each way on, the model's answer, its
  silence or the limit that forbids asking it, leads to one thing again
  (`MovesAre`, `SpentIs`). An object leaves the candidates with the answer that
  refused it in the history, or as a guess (`Fitting`). Learning fills in what was
  unknown and nothing else (`LearnKeeps`). Reading an overlay file is a fold over
  its lines; what it makes of one line for each object, in any order, is given
  outright and shown to be the overlay itself (`RowsReadBack`). Theorem:
  `TwentyFair`, all parts of `TwentyIsFair`.

### `Lists_proofs`

Lemmas the others share: what filtering a list leaves of it, of an end of it and
of two lists joined, injective sequences, and the two principles that make recursive functions usable here. The
library's induction theorems take an operator as a parameter, which the provers
cannot instantiate; `SetInduction` states the principle with a set, and
`PrimitiveRecursion` that a function defined by recursion on a number exists and
satisfies its equation.

### Only model-checked

- All liveness: `EventuallySettled`, `HeldIsAcknowledged`, `TransferEnds`,
  `LinkAnswers`, `VisionAnswered`, `CloseEndsWorker`, `SpeechSettles`,
  `ModesRetire`. Fairness and `ENABLED` are out of the prover's reach. What is
  safety in them is proved where it says something by itself: nothing that is
  waited for is lost (`LinkKeepsChecks` for `LinkAnswers`, `VisionKept` for
  `VisionAnswered`, `TurnsOutlastSpeech` for `SpeechSettles`, `QuarantineKept`
  for `ModesRetire`).
- `AnswersAreExact` of `CalendarIsKept`: which of a series' dates is found is
  what `CalendarRules` counts by recursion over days, weeks and months. Its
  other parts are proved.
- `RetryPolicy` is a recursive operator, so the proofs about the queue take
  `RetryDelay` as any function with values above zero.

## 7. What is not modelled, and why

- Wire formats, HTTP limits, signatures, TLS, schema checks: they accept or
  refuse, and the models include both. The decoding of a message row is
  abstracted to whether it succeeds.
- Operator tools of the relay, and the command line entry points: they print, or
  drive passes the models contain.
- Audio, wake-word model, speech synthesis: subprocesses; the models keep how
  long a caller waits for them and which events end the wait.
- Drawing: QML, and the Tk application but for the pair game's canvas, whose
  delays differ from those of the hosted view.
- Dialogue, intent, search, location, time, camera: the content of a turn, and
  single requests without a state of their own. The album lists files.
- Memory and archives, and the temporary file and rename of `jsonio.py`: one
  write each, taken as one step by the stores that use it.
- Wording, labels, names, colours and units, the banks of words and pictures.
- Liveness of the features: nothing there waits for another thread but what
  the safety properties already speak of (a page that loads has a fetch, a
  thread wakes by the earliest deadline).
- Installation, assets, configuration files.

## 8. Plan

Done: the relay with its abstract specification, attachments, authentication,
outbound, link and feed; turns, speech, modes, loading; the face and the shell;
the features; the games and the learning area; the proofs of section 6.

Next, by the weight of what can go wrong:

1. Proofs: what can be said of `AnswersAreExact` without recursion.
2. Atomic files (`jsonio.py`): a replacement of a file against a crash, as the
   abstract specification the stores refine.
3. Turns with speech and modes in one state space, in place of the choices
   `TurnLoop` makes for them.
4. The legacy Tk views, as far as their timers differ from the hosted ones.
