--------------------------- MODULE VoiceRecorder ---------------------------
(***************************************************************************)
(* The hold-to-record button of the chat input and the voice messages it   *)
(* sends.                                                                  *)
(*                                                                         *)
(* The button's handlers await the recorder plugin, which serves its calls *)
(* one at a time in the order they were made; meanwhile the finger goes on *)
(* moving and timers fire.  A call and the rest of the handler after it    *)
(* are one step: nothing looks at the recorder in between.                 *)
(***************************************************************************)
EXTENDS MediaSending, Integers, SequencesExt

CONSTANTS MaxRecordings,  \* bound: times the button is held down
          MaxCalls        \* bound: calls waiting for the recorder when it is tapped

ASSUME VoiceConstants == /\ MaxRecordings \in Nat /\ MaxCalls \in Nat
                         /\ IsFiniteSet(Media)
                         /\ Cardinality(Media \ Photos) >= MaxRecordings

VARIABLES held,       \* the finger is on the button
          holds,      \* times it was held down so far
          recording,  \* _recording
          uploading,  \* _uploading
          mounted,    \* the button is on the screen
          calls,      \* calls the recorder has not served yet, in order
          mic,        \* the recording the recorder is making, 0 if none
          made,       \* recordings started so far
          timer,      \* _autoStopTimer: the recording it was set for, 0 if null
          loose,      \* timers still running that _autoStopTimer lost sight of
          voice,      \* the recording each voice message was made from, 0 if none
          discarded   \* recordings whose file was deleted unsent

button == <<held, holds, recording, uploading, mounted>>
recorder == <<calls, mic, made, timer, loose, discarded>>
vars == <<mediaVars, button, recorder, voice>>

Recordings == 1..MaxRecordings
Call == [op : {"ask", "start", "dispose"}] \cup [op : {"stop"}, cancelled : BOOLEAN]

TypeOK == /\ MediaTypeOK
          /\ held \in BOOLEAN /\ recording \in BOOLEAN
          /\ uploading \in BOOLEAN /\ mounted \in BOOLEAN
          /\ calls \in Seq(Call)
          /\ {holds, made, mic, timer} \subseteq 0..MaxRecordings
          /\ loose \subseteq Recordings /\ discarded \subseteq Recordings
          /\ voice \in [Media -> 0..MaxRecordings]

Init == /\ MediaInit
        /\ held = FALSE /\ holds = 0 /\ recording = FALSE /\ uploading = FALSE
        /\ mounted = TRUE
        /\ calls = <<>> /\ mic = 0 /\ made = 0 /\ timer = 0 /\ loose = {}
        /\ discarded = {}
        /\ voice = [m \in Media |-> 0]

-----------------------------------------------------------------------------
(* The finger.                                                             *)

\* onLongPressStart: _start up to its first await.
Press == /\ mounted /\ ~held /\ holds < MaxRecordings
         /\ held' = TRUE /\ holds' = holds + 1
         /\ calls' = IF recording \/ uploading THEN calls
                     ELSE Append(calls, [op |-> "ask"])
         /\ UNCHANGED <<mediaVars, recording, uploading, mounted, mic, made, timer, loose,
                        voice, discarded>>

\* _stopAndSend up to its await.
StopAndSend(cancelled) ==
    IF recording THEN /\ calls' = Append(calls, [op |-> "stop", cancelled |-> cancelled])
                      /\ timer' = 0
    ELSE UNCHANGED <<calls, timer>>

\* onLongPressEnd, or onLongPressCancel when the gesture is taken away.
Release == /\ mounted /\ held
           /\ held' = FALSE
           /\ \E cancelled \in BOOLEAN : StopAndSend(cancelled)
           /\ UNCHANGED <<mediaVars, holds, recording, uploading, mounted, mic, made,
                          loose, voice, discarded>>

\* A tap too short for a long press: onLongPressCancel alone.
Tap == /\ mounted /\ ~held /\ recording /\ Len(calls) < MaxCalls
       /\ StopAndSend(TRUE)
       /\ UNCHANGED <<mediaVars, button, mic, made, loose, voice, discarded>>

-----------------------------------------------------------------------------
(* The recorder.                                                           *)

Serves(op) == calls # <<>> /\ Head(calls).op = op

\* hasPermission() answered; _start goes on to start().  When it is refused or
\* the plugin throws, _start ends.
Asked == /\ Serves("ask")
         /\ \/ calls' = Append(Tail(calls), [op |-> "start"])
            \/ calls' = Tail(calls)
         /\ UNCHANGED <<mediaVars, button, mic, made, timer, loose, voice, discarded>>

\* start() answered, given whether _start goes on after it, the timer it sets and
\* the timers lost sight of.
Started(goesOn, set, lost) ==
    /\ Serves("start")
    /\ calls' = Tail(calls)
    /\ made' = made + 1 /\ mic' = made + 1
    /\ IF goesOn THEN recording' = TRUE /\ timer' = set /\ loose' = loose \cup lost
       ELSE UNCHANGED <<recording, timer, loose>>
    /\ UNCHANGED <<mediaVars, held, holds, uploading, mounted, voice, discarded>>

\* Wrong starts: without the timer; with a new timer only if none was set (??=);
\* giving up when the button was released meanwhile; with a timer that was never
\* set among those lost sight of.
StartUntimed  == Started(mounted, timer, {timer} \ {0})
StartOldTimer == Started(mounted, IF timer = 0 THEN made + 1 ELSE timer, {})
StartIfHeld   == Started(mounted /\ held, made + 1, {timer} \ {0})
StartNoTimer  == Started(mounted, made + 1, {timer})

\* start() answered; a recording already running is given up.  The new timer
\* replaces the reference to an old one, which keeps running.
Start == Started(mounted, made + 1, {timer} \ {0})

StartFails == /\ Serves("start")
              /\ calls' = Tail(calls)
              /\ UNCHANGED <<mediaVars, button, mic, made, timer, loose, voice, discarded>>

\* The rest of _stopAndSend, given the recording whose file the recorder returned.
StoppedWith(n) ==
    LET keeps == mounted /\ ~Head(calls).cancelled /\ n # 0
    IN  /\ Serves("stop")
        /\ calls' = Tail(calls)
        /\ mic' = 0
        /\ recording' = FALSE
        /\ uploading' = (uploading \/ keeps)
        /\ IF keeps THEN \E m \in Media \ Photos : /\ Advance(m, "unused", "uploading")
                                                   /\ voice' = [voice EXCEPT ![m] = n]
           ELSE UNCHANGED <<send, voice>>
        /\ discarded' = IF Head(calls).cancelled /\ mounted THEN discarded \cup ({n} \ {0})
                        ELSE discarded
        /\ UNCHANGED <<objects, rows, stray, removals, held, holds, mounted, made, timer,
                       loose>>

\* A wrong stop: the path chosen at the start is trusted.
StoppedWithOwnPath == StoppedWith(made)

\* stop() answered; only the call that really stopped a recording gets a file.
\* Off the screen, setState throws: nothing is sent, and the file stays.
Stopped == StoppedWith(mic)

\* stop() throws after the recorder let go of the microphone.
StopFails == /\ Serves("stop")
             /\ calls' = Tail(calls)
             /\ mic' = 0
             /\ UNCHANGED <<mediaVars, button, made, timer, loose, voice, discarded>>

\* An autostop timer fires, whether or not it is the one the button knows of.
Fire(n) == /\ n = timer \/ n \in loose
           /\ loose' = loose \ {n}
           /\ IF recording THEN StopAndSend(FALSE)
              ELSE timer' = (IF n = timer THEN 0 ELSE timer) /\ UNCHANGED calls
           /\ UNCHANGED <<mediaVars, button, mic, made, voice, discarded>>

\* The button leaves the screen (the room is left, or text is typed): dispose()
\* cancels the known timer and disposes of the recorder.
Leave == /\ mounted
         /\ mounted' = FALSE /\ held' = FALSE
         /\ timer' = 0
         /\ calls' = Append(calls, [op |-> "dispose"])
         /\ UNCHANGED <<mediaVars, holds, recording, uploading, mic, made, loose, voice,
                        discarded>>

Disposed == /\ Serves("dispose")
            /\ calls' = Tail(calls)
            /\ mic' = 0
            /\ UNCHANGED <<mediaVars, button, made, timer, loose, voice, discarded>>

-----------------------------------------------------------------------------
(* Sending, as in MediaSending; the end of it also frees the button.       *)

SendProceeds(m) == Proceed(m) /\ UNCHANGED <<button, recorder, voice>>

SendSettles(m) == /\ Settle(m)
                  /\ uploading' = (uploading /\ (voice[m] = 0 \/ ~mounted))
                  /\ UNCHANGED <<held, holds, recording, mounted, recorder, voice>>

Serve == Asked \/ Start \/ StartFails \/ Stopped \/ StopFails \/ Disposed

Timers == \E n \in Recordings : Fire(n)

Next == \/ Press \/ Release \/ Tap \/ Leave
        \/ Serve
        \/ Timers
        \/ \E m \in Media : SendProceeds(m) \/ SendSettles(m)

Spec == Init /\ [][Next]_vars

\* The recorder answers and timers fire.  Nothing is assumed of the finger, nor
\* of the network.
FairSpec == Spec /\ WF_vars(Serve) /\ WF_vars(Timers)

-----------------------------------------------------------------------------
(* Properties                                                              *)

\* A running recorder is never hidden: when its calls are served and the button
\* is on the screen, the button shows the recording, so that the user can end it.
RecordingIsShown == mounted /\ calls = <<>> /\ mic # 0 => recording

\* What RecorderStops rests on: a running recorder of a button on the screen has
\* its own autostop timer, or a stop is on its way, whichever start replaced the
\* timer of another and whichever timer fired.  A timer left over does not count.
StopIsDue ==
    mounted /\ mic # 0 => timer = mic \/ \E i \in DOMAIN calls : calls[i].op = "stop"

\* A recording is posted at most once and never after it was thrown away,
\* however releases, cancels, taps and timers overtake the recorder.
VoiceIsSentOnce ==
    \A m \in Media : voice[m] # 0 =>
        /\ voice[m] \notin discarded
        /\ \A n \in Media \ {m} : voice[n] # voice[m]

\* The header: "a recording of more than 60 seconds stops by itself".  A button on
\* the screen does not leave the microphone open for ever, even when nobody
\* holds it.
RecorderStops == mic # 0 ~> mic = 0 \/ ~mounted

\* The header: "records while it is held, uploads when released".
RecordsWhileHeld == mic # 0 /\ mounted => held \/ \E i \in DOMAIN calls : calls[i].op = "stop"
=============================================================================
