------------------------------ MODULE RoverRemote ------------------------------
(* The remote of the rover: one worker that finds the rover and the gamepad,  *)
(* reads the one and commands the other twenty times a second, the Qt thread  *)
(* that picks a colour, takes a photo or closes the view, and the thread that *)
(* saves a photo.  What is followed is what was sent over the present link:   *)
(* the last motor command and the last colour.                                *)
EXTENDS Integers, Sequences

CONSTANTS Color, NoColor
ASSUME RoverConstants == NoColor \notin Color

VARIABLES driver,   \* the worker: pc and the pushed stick it has read
          link,     \* transport and what was sent over it
          gamepad,  \* joystick, and whether the device is there and pushed
          lights,   \* _pending_rgb and the status's selected colour
          photo,    \* status.taking_photo and the photo thread
          remote    \* the hosted view, and _stop

roverVars == <<driver, link, gamepad, lights, photo, remote>>

NoLink == [up |-> FALSE, motors |-> "none", strip |-> NoColor]
NewDriver == [pc |-> "idle", drive |-> FALSE, color |-> NoColor]
NoLights == [pending |-> NoColor, selected |-> NoColor]
NoPhoto == [taking |-> FALSE, saving |-> FALSE]

RoverInit ==
    /\ driver = NewDriver /\ link = NoLink
    /\ gamepad = [open |-> FALSE, there |-> FALSE, pushed |-> FALSE]
    /\ lights = NoLights /\ photo = NoPhoto /\ remote = [view |-> "closed", stop |-> FALSE]

Goto(pc) == driver' = [driver EXCEPT !.pc = pc]

-----------------------------------------------------------------------------
(* The socket and the device *)

\* a handshake that is accepted leaves an open socket over which nothing was sent
Connected == [NoLink EXCEPT !.up = TRUE]

\* a frame is written whole, or the socket is closed beneath its owner
Written(l, command) == {[l EXCEPT !.motors = command], [l EXCEPT !.motors = "none"]}

\* reading the telemetry, the session may turn out to have ended
Polled(l) == {l, NoLink}

Opened(pad) == [pad EXCEPT !.open = pad.there]
Released(pad) == [pad EXCEPT !.open = FALSE]

-----------------------------------------------------------------------------
(* The worker *)

\* the top of the loop; the rover is looked for when its retry is due
CheckStop ==
    /\ driver.pc = "loop"
    /\ \/ remote.stop /\ Goto("finish")
       \/ ~remote.stop /\ ~link.up /\ Goto("connect")
       \/ ~remote.stop /\ Goto("controller")
    /\ UNCHANGED <<link, gamepad, lights, photo, remote>>

\* connect blocks on the network; the selected colour is sent again
\* slip: a new link is not given the colour chosen before
ConnectPlain ==
    /\ driver.pc = "connect" /\ Goto("controller")
    /\ link' \in {Connected, link}
    /\ UNCHANGED <<lights, gamepad, photo, remote>>

ConnectRover ==
    /\ driver.pc = "connect" /\ Goto("controller")
    /\ \/ link' = Connected /\ lights' = [lights EXCEPT !.pending = lights.selected]
       \/ UNCHANGED <<link, lights>>
    /\ UNCHANGED <<gamepad, photo, remote>>

OpenController ==
    /\ driver.pc = "controller" /\ Goto("read")
    /\ gamepad' \in {gamepad, Opened(gamepad)}
    /\ UNCHANGED <<link, lights, photo, remote>>

\* a frame that cannot be sent closes the socket; _safe_stop keeps the
\* transport all the same, and the next frame finds it closed
SafeStop == link' \in Written(link, "stop")

ReadController ==
    /\ driver.pc = "read"
    /\ \/ /\ gamepad.open /\ gamepad.there
          /\ driver' = [driver EXCEPT !.pc = "send", !.drive = gamepad.pushed, !.color = lights.pending]
          /\ UNCHANGED <<gamepad, link>>
       \/ /\ gamepad.open /\ ~gamepad.there /\ gamepad' = Released(gamepad)
          /\ driver' = [driver EXCEPT !.pc = "send", !.drive = FALSE, !.color = lights.pending]
          /\ IF link.up THEN SafeStop ELSE UNCHANGED link
       \/ /\ ~gamepad.open
          /\ driver' = [driver EXCEPT !.pc = "send", !.drive = FALSE, !.color = lights.pending]
          /\ UNCHANGED <<gamepad, link>>
    /\ UNCHANGED <<lights, photo, remote>>

\* the colour that was pending, the motors, and the telemetry that came back;
\* any of them may find the connection lost
SendFrames ==
    /\ driver.pc = "send"
    /\ \/ ~link.up /\ Goto("wait") /\ UNCHANGED link
       \/ /\ link.up
          /\ link' \in Polled([link EXCEPT !.motors = IF driver.drive THEN "drive" ELSE "stop",
                                         !.strip = IF driver.color = NoColor THEN @ ELSE driver.color])
          /\ Goto(IF link'.up THEN "sent" ELSE "wait")
    /\ UNCHANGED <<gamepad, lights, photo, remote>>

\* the colour is done with unless another was chosen meanwhile
ClearColor ==
    /\ driver.pc = "sent" /\ Goto("wait")
    /\ lights' = [lights EXCEPT !.pending = IF @ = driver.color THEN NoColor ELSE @]
    /\ UNCHANGED <<link, gamepad, photo, remote>>

WaitTick == driver.pc = "wait" /\ Goto("loop") /\ UNCHANGED <<link, gamepad, lights, photo, remote>>

FinishWorker ==
    /\ driver.pc = "finish" /\ Goto("ended")
    /\ IF link.up THEN link' \in Written(NoLink, "stop") ELSE UNCHANGED link
    /\ gamepad' = Released(gamepad)
    /\ UNCHANGED <<lights, photo, remote>>

-----------------------------------------------------------------------------
(* The Qt thread *)

NewRemote == [view |-> "open", stop |-> FALSE]

OpenRemote ==
    /\ remote.view = "closed" /\ driver.pc \in {"idle", "ended"}
    /\ remote' = NewRemote /\ driver' = [NewDriver EXCEPT !.pc = "loop"]
    /\ link' = NoLink /\ lights' = NoLights /\ photo' = NoPhoto /\ UNCHANGED gamepad

\* request_rgb
ChooseColor(c) ==
    /\ remote.view = "open" /\ ~remote.stop
    /\ lights' = [pending |-> c, selected |-> c] /\ UNCHANGED <<driver, link, gamepad, photo, remote>>

\* request_snapshot, from the view or from the gamepad's button
TakePhoto ==
    /\ remote.view = "open" /\ ~remote.stop /\ ~photo.taking
    /\ photo' = [taking |-> TRUE, saving |-> TRUE] /\ UNCHANGED <<driver, link, gamepad, lights, remote>>

\* what is pressed on the page
RemoteAction == TakePhoto \/ \E c \in Color : ChooseColor(c)

\* close sets the flag, then waits for the worker, but not for ever
AskToStop ==
    /\ remote.view = "open" /\ remote' = [view |-> "joining", stop |-> TRUE]
    /\ UNCHANGED <<driver, link, gamepad, lights, photo>>
CloseRemote ==
    /\ remote.view = "joining" /\ driver.pc \in {"ended", "connect"}
    /\ remote' = [remote EXCEPT !.view = "closed"]
    /\ UNCHANGED <<driver, link, gamepad, lights, photo>>

-----------------------------------------------------------------------------
(* The photo thread and the world *)

\* the picture is kept whole or not at all; it may be no picture or too large
Snapshots == {"kept", "refused", "unexpected"}

\* a failure the code does not name, like a malformed reply, ends the thread only
SavePhoto ==
    /\ photo.saving
    /\ \E outcome \in Snapshots : photo' = [taking |-> outcome = "unexpected", saving |-> FALSE]
    /\ UNCHANGED <<driver, link, gamepad, lights, remote>>

GamepadChanges ==
    /\ gamepad' \in {[gamepad EXCEPT !.there = ~@, !.pushed = FALSE],
                     [gamepad EXCEPT !.pushed = gamepad.there /\ ~gamepad.pushed]}
    /\ UNCHANGED <<driver, link, lights, photo, remote>>

RoverNext ==
    \/ CheckStop \/ ConnectRover \/ OpenController \/ ReadController \/ SendFrames \/ ClearColor
    \/ WaitTick \/ FinishWorker
    \/ OpenRemote \/ RemoteAction \/ AskToStop \/ CloseRemote \/ SavePhoto \/ GamepadChanges

RoverSpec == RoverInit /\ [][RoverNext]_roverVars

-----------------------------------------------------------------------------
(* The settings and the frames, with numbers between 0 and 1 in hundredths *)

RoverDefaults ==
    [deadzone |-> 12, power |-> 75, steering |-> 75, threshold |-> 20,
     low |-> 0, high |-> 140, start |-> 90, speed |-> 55, upIncreases |-> FALSE]

\* each number within its limits, and the servo's own limits in their order
ValidSettings(s) ==
    /\ s.deadzone \in 0..50 /\ s.power \in 1..100 /\ s.steering \in 0..100 /\ s.threshold \in -90..90
    /\ {s.low, s.high} \subseteq 0..140 /\ s.low < s.high /\ s.start \in s.low..s.high /\ s.speed \in 1..180

\* one wrong value and the whole file is set aside
LoadedSettings(s) == IF ValidSettings(s) THEN s ELSE RoverDefaults

Within(n, low, high) == IF n < low THEN low ELSE IF n > high THEN high ELSE n
Nearest(n, d) ==
    LET q == n \div d twice == 2 * (n % d)
    IN  IF twice < d \/ (twice = d /\ q % 2 = 0) THEN q ELSE q + 1

\* what is left of a stick's way beyond the deadzone, in 1 / (100 - deadzone)
BeyondDeadzone(v, s) ==
    IF v > s.deadzone THEN v - s.deadzone ELSE IF -v > s.deadzone THEN v + s.deadzone ELSE 0

MixDrive(leftY, rightX, s) ==
    LET full == 100 * (100 - s.deadzone)
        throttle == -100 * BeyondDeadzone(leftY, s)
        steering == s.steering * BeyondDeadzone(rightX, s)
        power(side) == Nearest(Within(side, -full, full) * s.power, full)
    IN  <<power(throttle + steering), power(throttle - steering)>>

\* the worker knows where both triggers rest
NextServoAngle(angle, lt, rt, rest, elapsed, s) ==
    LET pressed(v, at) == IF v - at > s.threshold \/ at - v > s.threshold THEN 1 ELSE 0
        way == (pressed(lt, rest) - pressed(rt, rest)) * (IF s.upIncreases THEN 1 ELSE -1)
    IN  Within(Nearest(100 * angle + way * s.speed * elapsed, 100), s.low, s.high)

\* what motor_servo_frame does not raise on; the worker would end with a ValueError
FrameTakes(powers, angle) == \A side \in 1..2 : powers[side] \in -100..100 /\ angle \in 0..140

\* the bytes an entity of the telemetry has after its own number
SensorBytes == {129, 130, 131}
EntitySize == [id \in SensorBytes |-> IF id = 129 THEN 2 ELSE 1]

\* one round of the loop over the entities: an unknown number, or one whose
\* bytes are cut short, is gone no further than
Unread == [index |-> 0, values |-> {}]
NextEntity(bytes, reading) ==
    LET start == reading.index + 1
        end == start + EntitySize[bytes[start]]
    IN  IF reading.index < Len(bytes) /\ bytes[start] \in SensorBytes /\ end <= Len(bytes)
        THEN [index |-> end, values |-> reading.values \union {bytes[start]}]
        ELSE reading

\* the loop has fewer rounds than there are bytes
Reading(bytes) ==
    LET after[round \in 0..Len(bytes)] ==
            IF round = 0 THEN Unread ELSE NextEntity(bytes, after[round - 1])
    IN  after[Len(bytes)]

SensorFrameTaken(bytes) == Reading(bytes) = [index |-> Len(bytes), values |-> SensorBytes]

-----------------------------------------------------------------------------
(* Properties *)

\* What the state is made of; only an open view's worker asks for photos.
RoverTypeOK ==
    /\ driver.pc \in {"idle", "loop", "connect", "controller", "read", "send", "sent", "wait", "finish", "ended"}
    /\ driver.color \in Color \union {NoColor}
    /\ link.motors \in {"none", "stop", "drive"} /\ ~link.up => link.motors # "drive"
    /\ lights.pending \in {NoColor, lights.selected} /\ gamepad.pushed => gamepad.there
    /\ remote.view \in {"closed", "open", "joining"} /\ photo.saving => photo.taking

\* Nobody drives a rover without a gamepad, nor after the worker has ended: the
\* last command sent over the link is then a stop.
NobodyDrives ==
    /\ driver.pc = "wait" /\ link.up /\ ~gamepad.open => link.motors = "stop"
    /\ driver.pc = "ended" => link.motors # "drive"

\* When no colour is waiting to be sent, the strip has the one chosen last,
\* however often the link was lost and whatever was chosen while one was sent.
StripHasChoice == link.up /\ lights.pending = NoColor => link.strip = lights.selected

\* The closed view drives nothing any more: what a worker that was connecting
\* when the wait for it ran out breaks.
ClosedRemoteIsStill ==
    [][link'.motors = "drive" /\ link.motors # "drive" => remote.view # "closed"]_roverVars

\* A photo that is being taken has a thread that takes it: what a failure the
\* thread does not expect breaks, and with it every photo until the view closes.
PhotoHasThread == photo.taking => photo.saving

\* Whatever the settings' file holds and wherever sticks and triggers are, the
\* worker never builds a command its own frame refuses: that would end it.
Sticks == {-100, -99, -51, -50, -13, -12, 0, 1, 12, 50, 99, 100}
DriveSettings ==
    {[RoverDefaults EXCEPT !.deadzone = d, !.power = p, !.steering = g] :
        d \in {-1, 0, 12, 50, 51}, p \in {0, 1, 75, 100, 101}, g \in {-1, 0, 75, 100, 101}}
ServoSettings ==
    {[RoverDefaults EXCEPT !.low = l, !.high = h, !.start = a, !.speed = v, !.upIncreases = u] :
        l \in {-1, 0, 90}, h \in {0, 90, 140, 141}, a \in {0, 90, 140}, v \in {0, 1, 180, 181}, u \in BOOLEAN}
CommandsFitFrame ==
    /\ \A file \in DriveSettings, y \in Sticks, x \in Sticks :
          FrameTakes(MixDrive(y, x, LoadedSettings(file)), 0)
    /\ \A file \in ServoSettings, lt \in {0, 100}, rt \in {0, 100} :
          LET s == LoadedSettings(file)
          IN  \A angle \in {s.low, s.start, s.high} :
                 FrameTakes(<<0, 0>>, NextServoAngle(angle, lt, rt, 0, 25, s))

\* Sticks that rest do not move the rover, and of seven bytes of telemetry the
\* worker believes exactly those that are one of each entity, in any order: each
\* entity begins where the one before ends, and the last ends with the frame.
WholeFrame(bytes) ==
    \E second, third \in 2..7 :
        /\ second = 2 + EntitySize[bytes[1]]
        /\ third = second + 1 + EntitySize[bytes[second]]
        /\ third + EntitySize[bytes[third]] = 7
        /\ {bytes[1], bytes[second], bytes[third]} = SensorBytes
ReadingsAreTrue ==
    /\ \A file \in DriveSettings :
          LET s == LoadedSettings(file)
          IN  \A y, x \in -s.deadzone..s.deadzone : MixDrive(y, x, s) = <<0, 0>>
    /\ \A bytes \in [1..7 -> SensorBytes] : SensorFrameTaken(bytes) <=> WholeFrame(bytes)

\* What the rover's remote promises: it stops, it shows the colour chosen, and
\* what it sends and believes is well formed.
RoverIsSafe == RoverTypeOK /\ NobodyDrives /\ StripHasChoice /\ CommandsFitFrame /\ ReadingsAreTrue
=============================================================================
