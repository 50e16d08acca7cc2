----------------------------- MODULE WeatherPage -----------------------------
(***************************************************************************)
(* The weather carousel: one page per configured place, a background fetch *)
(* for each page, spoken tiles and official warnings                       *)
(* (src/bmo/qt/views/weather.py, with get_weather.py, weather.py and       *)
(* weather_view.py), and, at the end, the picture a page shows.            *)
(*                                                                         *)
(* Buttons and the timer run on the Qt thread, a fetch on a thread of its  *)
(* own.  A worker is split where it hands over to the view's refresh, and  *)
(* between the tests of a warning and the speech they lead to.  Time is    *)
(* counted in hours of the forecast; debug previews are left out.          *)
(***************************************************************************)
EXTENDS Integers, FiniteSets

CONSTANTS
    PlaceCount,     \* configured places; the page shown is one of them
    RefreshAfter,   \* hours after which the page shown is fetched again
    HourLimit,      \* hours on a page
    LastHour, MaxFetches

CONSTANTS
    Sunrise, Sunset,   \* quarters of an hour after midnight; None if the service leaves them out
    None,
    Quarters           \* times of day a page is looked at

ASSUME WeatherConstants == PlaceCount \in Nat \ {0}

VARIABLES
    spot,           \* the place whose page is shown
    forecasts,      \* per place: the page in the cache, or Missing
    failures,       \* places whose last fetch failed
    inflight, tokens, loadedAt,   \* per place, as in the view
    warned,         \* places whose warning was announced
    speaking,       \* the highlighted tile, or Silent
    subtitle,       \* the place whose words the page shows, 0 for none
    voice,          \* the speech under way in the view's scope
    fetches,        \* workers
    hourNow, weatherClosed, fetched,
    sky             \* one look at a page: what was measured and what is shown

weatherVars == <<spot, forecasts, failures, inflight, tokens, loadedAt, warned, speaking,
                 subtitle, voice, fetches, hourNow, weatherClosed, fetched>>

Place == 1..PlaceCount
Missing == [observed |-> -1, alert |-> "none"]
Silent == "silent"
NoVoice == [tile |-> Silent, about |-> 0]
Tiles == {"condition"}   \* the tiles but the alert: what they say is not told apart
pageVars == <<forecasts, failures, loadedAt>>
speechVars == <<warned, speaking, subtitle, voice>>

-----------------------------------------------------------------------------
(* Fetching. *)

\* A place already being fetched is not fetched twice; a cached page needs "force".
\* slip: a place that was ever asked for counts as under way
EverAsked(p) == tokens[p] > 0
Busy(p) == p \in inflight

LoadCurrent(p, force) ==
    IF (forecasts[p] # Missing /\ ~force) \/ Busy(p)
    THEN UNCHANGED <<inflight, tokens, fetches, fetched>>
    ELSE /\ inflight' = inflight \cup {p}
         /\ tokens' = [tokens EXCEPT ![p] = @ + 1]
         /\ fetches' = fetches \cup {[place |-> p, token |-> tokens[p] + 1, stage |-> "fetching", about |-> 0]}
         /\ fetched' = fetched + 1

\* A cached page goes without its error; a page that is fetched anew loses it too.
Forgiven(p, force) ==
    failures' = IF (forecasts[p] # Missing /\ ~force) \/ p \in inflight THEN failures ELSE failures \ {p}

\* The place, its forecast and, if the service answers, its alerts.  Only the first alert counts.
\* A forecast is that of the hour it was asked in, and old alerts are not kept.
Pages == {[observed |-> hourNow, alert |-> a] : a \in {"none", "advisory", "warning"}}

Become(f, g) == fetches' = (fetches \ {f}) \cup (IF g.stage = "done" THEN {} ELSE {g})

\* The worker's answer; one for a closed view is dropped.
FetchAnswers(f) ==
    /\ f.stage = "fetching"
    /\ IF weatherClosed \/ tokens[f.place] # f.token
       THEN Become(f, [f EXCEPT !.stage = "done"]) /\ UNCHANGED <<pageVars, inflight, subtitle>>
       ELSE /\ inflight' = inflight \ {f.place}
            /\ loadedAt' = [loadedAt EXCEPT ![f.place] = hourNow]
            /\ \/ \E page \in Pages :
                     /\ forecasts' = [forecasts EXCEPT ![f.place] = page]
                     /\ failures' = failures \ {f.place}
                     /\ subtitle' = IF speaking = Silent THEN 0 ELSE subtitle
                     /\ Become(f, [f EXCEPT !.stage = "stored"])
               \/ /\ failures' = failures \cup {f.place}
                  /\ Become(f, [f EXCEPT !.stage = "done"]) /\ UNCHANGED <<forecasts, subtitle>>
    /\ UNCHANGED <<spot, tokens, warned, speaking, voice, hourNow, weatherClosed, fetched>>

-----------------------------------------------------------------------------
(* Speaking. *)

Warns(p) == forecasts[p].alert = "warning" /\ p \notin warned

\* New speech replaces what the scope was saying; the speaker may refuse (Quiet Hours).
Announce(tile, about) ==
    \/ speaking' = tile /\ subtitle' = about /\ voice' = [tile |-> tile, about |-> about]
    \/ speaking' = Silent /\ subtitle' = about /\ UNCHANGED voice

\* The worker: is its place still shown, and has its page an unannounced warning ...
WorkerWarns(f) ==
    /\ f.stage = "stored"
    /\ IF f.place = spot /\ Warns(spot)
       THEN warned' = warned \cup {spot} /\ Become(f, [f EXCEPT !.stage = "speaking"])
       ELSE Become(f, [f EXCEPT !.stage = "done"]) /\ UNCHANGED warned
    /\ UNCHANGED <<spot, pageVars, inflight, tokens, speaking, subtitle, voice, hourNow,
                   weatherClosed, fetched>>

\* ... then the page is read again for its words ...
WorkerReads(f) ==
    /\ f.stage = "speaking"
    /\ IF forecasts[spot] # Missing /\ forecasts[spot].alert # "none"
       THEN Become(f, [f EXCEPT !.stage = "telling", !.about = spot])
       ELSE Become(f, [f EXCEPT !.stage = "done"])
    /\ UNCHANGED <<spot, pageVars, inflight, tokens, speechVars, hourNow, weatherClosed, fetched>>

\* ... and they are spoken.
WorkerTells(f) ==
    /\ f.stage = "telling"
    /\ Announce("alert", f.about) /\ Become(f, [f EXCEPT !.stage = "done"])
    /\ UNCHANGED <<spot, pageVars, inflight, tokens, warned, hourNow, weatherClosed, fetched>>

\* A tile is tapped.
Speak(tile) ==
    /\ ~weatherClosed /\ forecasts[spot] # Missing
    /\ Announce(tile, spot)
    /\ UNCHANGED <<spot, pageVars, inflight, tokens, warned, fetches, hourNow, weatherClosed, fetched>>

SpeechEnds ==
    /\ voice # NoVoice
    /\ voice' = NoVoice
    /\ speaking' = IF ~weatherClosed /\ speaking = voice.tile THEN Silent ELSE speaking
    /\ UNCHANGED <<spot, pageVars, inflight, tokens, warned, subtitle, fetches, hourNow,
                   weatherClosed, fetched>>

-----------------------------------------------------------------------------
(* The view. *)

\* A swipe silences the old page, loads the new one and announces its warning.
LocationChanged(step) ==
    LET p == ((spot - 1 + step) % PlaceCount) + 1
    IN  /\ ~weatherClosed /\ fetched < MaxFetches
        /\ spot' = p
        /\ LoadCurrent(p, FALSE) /\ Forgiven(p, FALSE)
        /\ IF Warns(p)
           THEN /\ warned' = warned \cup {p}
                /\ \/ speaking' = "alert" /\ subtitle' = p /\ voice' = [tile |-> "alert", about |-> p]
                   \/ speaking' = Silent /\ subtitle' = p /\ voice' = NoVoice
           ELSE speaking' = Silent /\ subtitle' = 0 /\ voice' = NoVoice /\ UNCHANGED warned
        /\ UNCHANGED <<forecasts, loadedAt, hourNow, weatherClosed>>

\* The retry button forgets the error even when a fetch is already under way.
Retry ==
    /\ ~weatherClosed /\ fetched < MaxFetches
    /\ LoadCurrent(spot, TRUE) /\ failures' = failures \ {spot}
    /\ UNCHANGED <<spot, forecasts, loadedAt, speechVars, hourNow, weatherClosed>>

\* The timer, once the page shown is old.
Tick ==
    /\ ~weatherClosed /\ fetched < MaxFetches
    /\ loadedAt[spot] >= 0 /\ hourNow - loadedAt[spot] >= RefreshAfter
    /\ LoadCurrent(spot, TRUE) /\ Forgiven(spot, TRUE)
    /\ UNCHANGED <<spot, forecasts, loadedAt, speechVars, hourNow, weatherClosed>>

HourPasses ==
    /\ hourNow < LastHour /\ hourNow' = hourNow + 1
    /\ UNCHANGED <<spot, pageVars, inflight, tokens, speechVars, fetches, weatherClosed, fetched>>

CloseWeather ==
    /\ ~weatherClosed
    /\ weatherClosed' = TRUE
    /\ tokens' = [p \in Place |-> IF tokens[p] > 0 THEN tokens[p] + 1 ELSE 0]
    /\ voice' = NoVoice
    /\ UNCHANGED <<spot, pageVars, inflight, warned, speaking, subtitle, fetches, hourNow, fetched>>

WeatherInit ==
    /\ spot \in Place
    /\ forecasts = [p \in Place |-> Missing] /\ failures = {}
    /\ inflight = {spot} /\ tokens = [p \in Place |-> IF p = spot THEN 1 ELSE 0]
    /\ fetches = {[place |-> spot, token |-> 1, stage |-> "fetching", about |-> 0]}
    /\ loadedAt = [p \in Place |-> -1]
    /\ warned = {} /\ speaking = Silent /\ subtitle = 0 /\ voice = NoVoice
    /\ hourNow = 0 /\ weatherClosed = FALSE /\ fetched = 1

WeatherNext ==
    \/ \E f \in fetches : FetchAnswers(f) \/ WorkerWarns(f) \/ WorkerReads(f) \/ WorkerTells(f)
    \/ \E tile \in Tiles : Speak(tile)
    \/ \E step \in {-1, 1} : LocationChanged(step)
    \/ Retry \/ Tick \/ HourPasses \/ SpeechEnds \/ CloseWeather

-----------------------------------------------------------------------------
(* What a page shows. *)

\* The forecast's clock goes on from the last fetch, whether that brought a page or not.
LocalNow(p) == forecasts[p].observed + (hourNow - loadedAt[p])

\* A page keeps the hours of the service from its own on, eight of them; those already past are
\* not shown.
ForecastHours(p) == forecasts[p].observed..(forecasts[p].observed + 7)

UpcomingHours(p) ==
    LET kept == {h \in ForecastHours(p) : h >= LocalNow(p)}
    IN  {h \in kept : Cardinality({k \in kept : k < h}) < HourLimit}

Status(p) ==
    IF forecasts[p] # Missing THEN "ready" ELSE IF p \in failures THEN "error" ELSE "loading"

-----------------------------------------------------------------------------
(* The picture and the words for what was measured: a pure part, looked at one page at a time. *)

Calm == {"sunny", "mostly-clear", "partly", "overcast", "mixed"}   \* may be layered over
Unsafe == {"fog", "drizzle", "rain", "heavy-rain", "freezing-rain", "sleet", "snow", "heavy-snow",
           "storm", "hail"}

\* Readings in Fahrenheit and miles per hour; isDay as the service says it.
Readings ==
    [condition : Calm \cup Unsafe, alert : {"none", "advisory", "warning"}, gusts : {None, 34, 35},
     warmest : {70, 99, 100}, coldest : {25, 26}, humid : BOOLEAN, isDay : {"day", "night", None},
     quarter : Quarters, rain : {10, 90}]

DayPeriod(r) ==
    IF Sunrise # None /\ r.quarter < Sunrise THEN "night"
    ELSE IF Sunset # None /\ 15 * r.quarter >= 15 * Sunset + 35 THEN "night"
    ELSE IF Sunset # None /\ 15 * r.quarter >= 15 * Sunset - 75 THEN "sunset"
    ELSE IF r.isDay = "night" THEN "night"
    ELSE IF r.quarter < 40 THEN "morning" ELSE IF r.quarter < 56 THEN "midday" ELSE "afternoon"

\* An official warning first, then weather that needs care, then wind, heat and cold.
VisualCondition(r) ==
    IF r.alert = "warning" THEN "severe"
    ELSE IF r.condition \in Unsafe THEN r.condition
    ELSE IF r.gusts # None /\ r.gusts >= 35 THEN "wind"
    ELSE IF r.warmest >= 100 THEN "hot"
    ELSE IF r.coldest <= 25 THEN "cold" ELSE r.condition

ConditionTitle(period, visual) ==
    IF period = "night" /\ visual \in {"sunny", "mostly-clear"} THEN "clear night" ELSE visual

ConditionModifier(r, period, visual) ==
    IF visual = "severe" THEN "official warning"
    ELSE IF period = "night" /\ visual \in {"sunny", "mostly-clear", "partly", "hot"} THEN "moon"
    ELSE IF r.humid /\ visual \in Calm THEN "sticky" ELSE visual

ConditionFlavor(period, visual) ==
    IF period = "night" /\ visual \in {"sunny", "mostly-clear"} THEN "moon"
    ELSE IF period = "night" /\ visual = "partly" THEN "moon and clouds"
    ELSE IF period = "night" /\ visual = "hot" THEN "warm night" ELSE visual

\* The spoken rain chance: weather that needs care replaces the playful advice.
NarrateRain(r) ==
    IF r.condition \in {"storm", "hail"} THEN "ask a grown-up"
    ELSE IF r.condition \in {"freezing-rain", "sleet"} THEN "slippery"
    ELSE IF r.condition \in {"snow", "heavy-snow"} THEN "snow gear"
    ELSE IF r.rain < 20 THEN "dry" ELSE "boots"

NarrateCondition(r) ==
    IF r.isDay = "night" /\ r.condition = "sunny" THEN "moon"
    ELSE IF r.isDay = "night" /\ r.condition \in {"mostly-clear", "partly"} THEN "moon and clouds"
    ELSE r.condition

WeatherViewState(r) ==
    LET period == DayPeriod(r)
        visual == VisualCondition(r)
    IN  [reading |-> r, period |-> period, visual |-> visual, title |-> ConditionTitle(period, visual),
         modifier |-> ConditionModifier(r, period, visual), flavor |-> ConditionFlavor(period, visual),
         rain |-> NarrateRain(r), spoken |-> NarrateCondition(r)]

SkyInit == sky \in {WeatherViewState(r) : r \in Readings}

WeatherSpec == WeatherInit /\ SkyInit /\ [][WeatherNext /\ UNCHANGED sky]_<<weatherVars, sky>>

-----------------------------------------------------------------------------
(* Properties. *)

WeatherTypeOK ==
    /\ spot \in Place /\ failures \subseteq Place /\ warned \subseteq Place
    /\ speaking \in Tiles \cup {"alert", Silent} /\ subtitle \in 0..PlaceCount
    /\ \A f \in fetches : f.stage \in {"fetching", "stored", "speaking", "telling"}

\* "BMO is checking the sky" is never a dead end: while the page shown has nothing else to say, a
\* fetch is under way whose answer the view will accept, through swipes, retries and failures; and
\* a place never has two, whose answers could come in the wrong order.
LoadingHasFetch ==
    LET Alive(p) == {f \in fetches : f.place = p /\ f.stage = "fetching" /\ f.token = tokens[p]}
    IN  ~weatherClosed =>
            /\ Status(spot) = "loading" => Alive(spot) # {}
            /\ \A p \in Place : Cardinality(Alive(p)) <= 1

\* A warning does not wait for a tap: the page shown has announced it, or its worker is about to,
\* whichever of the swipe and the answer came first.
WarningIsNotMissed ==
    ~weatherClosed /\ Warns(spot) => \E f \in fetches : f.place = spot /\ f.stage = "stored"

\* Late workers cannot update a newer view or a closed one: the words on a page are about the
\* place it shows, and a closed view says nothing.
LateWorkersAreHarmless ==
    /\ ~weatherClosed => subtitle \in {0, spot}
    /\ weatherClosed => voice = NoVoice

\* The hours of a page are still to come.
PassedHoursAreDropped ==
    forecasts[spot] # Missing => \A h \in UpcomingHours(spot) : h >= hourNow

\* A picture never plays down what was measured: a warning is all a page shows of the sky, weather
\* that needs care is not painted over by wind or heat, nor is its rain chance spoken of playfully,
\* and no night is given the sun, whatever the hour and the readings.
SkyIsHonest ==
    LET r == sky.reading
    IN  /\ r.alert = "warning" => sky.visual = "severe" /\ sky.modifier = "official warning"
        /\ r.alert # "warning" /\ r.condition \in Unsafe => sky.visual = r.condition
        /\ sky.visual \in {"storm", "hail", "freezing-rain", "sleet", "snow", "heavy-snow"} =>
               sky.rain \notin {"dry", "boots"}
        /\ sky.period = "night" =>
               {sky.title, sky.flavor, sky.modifier} \cap {"sunny", "mostly-clear"} = {}
               /\ {sky.flavor, sky.modifier} \cap {"partly", "hot"} = {}
        /\ sky.period = "night" /\ r.isDay = "night" => sky.spoken \notin {"sunny", "mostly-clear"}

\* What a weather page promises: it gets its answer, warns, and shows what was measured.
WeatherIsHonest == WeatherTypeOK /\ LoadingHasFetch /\ WarningIsNotMissed /\ SkyIsHonest
=============================================================================
