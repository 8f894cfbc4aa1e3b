------------------------ MODULE VoiceRecorderProofs ------------------------
(***************************************************************************)
(* Proofs that a message reported as sent is complete, that no recording   *)
(* is posted twice or after it was thrown away, and that a running         *)
(* recorder is shown and has its stop or its timer.                        *)
(***************************************************************************)
EXTENDS VoiceRecorder, FiniteSetTheorems, TLAPS

\* From the upload on, the object of a message exists and nobody removes it,
\* unless the sending failed.
Kept == \A m \in Media :
            /\ send[m] \in {"inserting", "stored", "sent"} => m \in objects /\ m \notin removals
            /\ send[m] \in {"stored", "sent"} => m \in rows
            /\ m \in removals => send[m] = "failed"

MediaTypes == send \in [Media -> Phases]

MediaInv == MediaTypes /\ Kept

\* The recorder numbers its recordings; the one it is making is the last, and has
\* not been used for anything.
Numbered ==
    /\ made \in Nat /\ mic \in {0, made}
    /\ voice \in [Media -> Nat]
    /\ \A n \in discarded : n \in 1..made
    /\ \A m \in Media : voice[m] <= made
    /\ mic # 0 => mic \notin discarded /\ \A m \in Media : voice[m] # mic

RecorderInv == Numbered /\ VoiceIsSentOnce

-----------------------------------------------------------------------------
(* The sending of a message.                                               *)

LEMMA ProceedKeeps ==
  ASSUME NEW m \in Media, MediaInv, Proceed(m) \/ Settle(m)
  PROVE  MediaInv'
<1> USE DEF MediaInv, MediaTypes, Kept, Advance, Phases
<1>1. CASE Pick(m) \/ PickNothing(m) \/ Compress(m)
  BY <1>1 DEF Pick, PickNothing, Compress
<1>2. CASE Upload(m) \/ UploadFails(m)
  BY <1>2 DEF Upload, UploadFails
<1>3. CASE Insert(m) \/ InsertRefused(m) \/ InsertDelayed(m)
  BY <1>3 DEF Insert, InsertRefused, InsertDelayed
<1>4. CASE StrayArrives(m) \/ AnswerLost(m)
  BY <1>4 DEF StrayArrives, AnswerLost
<1>5. CASE RemoveObject(m)
  BY <1>5 DEF RemoveObject
<1>6. CASE Sent(m) \/ Failed(m)
  BY <1>6 DEF Sent, Failed
<1>7. QED
  BY <1>1, <1>2, <1>3, <1>4, <1>5, <1>6 DEF Proceed, Settle

\* The recorder touches the sending of a message only to begin one.
LEMMA RecorderKeepsMedia ==
  ASSUME MediaInv, Press \/ Release \/ Tap \/ Leave \/ Serve \/ Timers
  PROVE  MediaInv'
<1>1. CASE Stopped
  <2>1. UNCHANGED <<objects, rows, removals>>
    BY <1>1 DEF Stopped, StoppedWith
  <2>2. CASE UNCHANGED send
    BY <2>1, <2>2 DEF MediaInv, MediaTypes, Kept
  <2>3. CASE \E m \in Media \ Photos : Advance(m, "unused", "uploading")
    BY <2>1, <2>3 DEF MediaInv, MediaTypes, Kept, Advance, Phases
  <2>4. QED
    BY <1>1, <2>2, <2>3 DEF Stopped, StoppedWith
<1>2. CASE UNCHANGED mediaVars
  BY <1>2 DEF mediaVars, MediaInv, MediaTypes, Kept
<1>3. QED
  BY <1>1, <1>2 DEF Press, Release, Tap, Leave, Serve, Timers, Asked, Start, Started,
     StartFails, StopFails, Disposed, Fire

\* A message reported as sent is complete, for any number of messages, however
\* their uploads, inserts and removals interleave (pickAndSendPhoto,
\* sendVoiceMessage).
THEOREM SentMessagesAreComplete == Spec => []SentIsComplete
<1>1. Init => MediaInv
  BY DEF Init, MediaInit, MediaInv, MediaTypes, Kept, Phases
<1>2. MediaInv /\ [Next]_vars => MediaInv'
  <2> SUFFICES ASSUME MediaInv, [Next]_vars PROVE MediaInv'
    OBVIOUS
  <2>1. CASE Press \/ Release \/ Tap \/ Leave \/ Serve \/ Timers
    BY <2>1, RecorderKeepsMedia
  <2>2. ASSUME NEW m \in Media, SendProceeds(m) \/ SendSettles(m) PROVE MediaInv'
    BY <2>2, ProceedKeeps DEF SendProceeds, SendSettles
  <2>3. CASE UNCHANGED vars
    BY <2>3 DEF vars, mediaVars, MediaInv, MediaTypes, Kept
  <2>4. QED
    BY <2>1, <2>2, <2>3 DEF Next
<1>3. MediaInv => SentIsComplete
  BY DEF MediaInv, Kept, SentIsComplete
<1>4. QED
  BY <1>1, <1>2, <1>3, PTL DEF Spec

-----------------------------------------------------------------------------
(* The recordings.                                                         *)

LEMMA StartNumbers ==
  ASSUME RecorderInv, Start
  PROVE  RecorderInv'
<1>1. /\ made' = made + 1 /\ mic' = made + 1
      /\ UNCHANGED <<voice, discarded>>
  BY DEF Start, Started
<1>2. QED
  BY <1>1 DEF RecorderInv, Numbered, VoiceIsSentOnce

LEMMA StopUsesOnce ==
  ASSUME RecorderInv, Stopped
  PROVE  RecorderInv'
<1> DEFINE keeps == mounted /\ ~Head(calls).cancelled /\ mic # 0
<1>1. made' = made /\ mic' = 0
  BY DEF Stopped, StoppedWith
<1>2. CASE keeps
  <2>1. PICK m \in Media \ Photos : voice' = [voice EXCEPT ![m] = mic]
    BY <1>2 DEF Stopped, StoppedWith
  <2>2. discarded' = discarded
    BY <1>2 DEF Stopped, StoppedWith
  <2>3. mic = made /\ mic \in Nat
    BY <1>2 DEF RecorderInv, Numbered
  <2>4. Numbered'
    BY <1>1, <2>1, <2>2, <2>3 DEF RecorderInv, Numbered
  <2>5. VoiceIsSentOnce'
    BY <1>2, <2>1, <2>2, <2>3 DEF RecorderInv, Numbered, VoiceIsSentOnce
  <2>6. QED
    BY <2>4, <2>5 DEF RecorderInv
<1>3. CASE ~keeps
  <2>1. voice' = voice
    BY <1>3 DEF Stopped, StoppedWith
  <2>2. discarded' \in {discarded, discarded \cup ({mic} \ {0})}
    BY DEF Stopped, StoppedWith
  <2>3. Numbered'
    BY <1>1, <2>1, <2>2 DEF RecorderInv, Numbered
  <2>4. VoiceIsSentOnce'
    BY <2>1, <2>2 DEF RecorderInv, Numbered, VoiceIsSentOnce
  <2>5. QED
    BY <2>3, <2>4 DEF RecorderInv
<1>4. QED
  BY <1>2, <1>3

\* The other steps leave the recordings alone, or end one without a file.
LEMMA OthersKeepRecordings ==
  ASSUME RecorderInv, UNCHANGED <<made, voice, discarded>>, mic' \in {0, mic}
  PROVE  RecorderInv'
BY DEF RecorderInv, Numbered, VoiceIsSentOnce

\* A recording is posted at most once and never after it was thrown away, for any
\* number of holds, taps and timers (_stopAndSend).
THEOREM RecordingsArePostedOnce == Spec => []VoiceIsSentOnce
<1>1. Init => RecorderInv
  BY DEF Init, RecorderInv, Numbered, VoiceIsSentOnce
<1>2. RecorderInv /\ [Next]_vars => RecorderInv'
  <2> SUFFICES ASSUME RecorderInv, [Next]_vars PROVE RecorderInv'
    OBVIOUS
  <2> USE OthersKeepRecordings
  <2>1. CASE Press \/ Release \/ Tap \/ Leave
    BY <2>1 DEF Press, Release, Tap, Leave
  <2>2. CASE Asked \/ StartFails \/ StopFails \/ Disposed
    BY <2>2 DEF Asked, StartFails, StopFails, Disposed
  <2>3. CASE Start
    BY <2>3, StartNumbers
  <2>4. CASE Stopped
    BY <2>4, StopUsesOnce
  <2>5. CASE Timers
    BY <2>5 DEF Timers, Fire
  <2>6. ASSUME NEW m \in Media, SendProceeds(m) \/ SendSettles(m) PROVE RecorderInv'
    BY <2>6 DEF SendProceeds, SendSettles, recorder
  <2>7. CASE UNCHANGED vars
    BY <2>7 DEF vars, recorder
  <2>8. QED
    BY <2>1, <2>2, <2>3, <2>4, <2>5, <2>6, <2>7 DEF Next, Serve
<1>3. RecorderInv => VoiceIsSentOnce
  BY DEF RecorderInv
<1>4. QED
  BY <1>1, <1>2, <1>3, PTL DEF Spec
-----------------------------------------------------------------------------
(* Types.  A recording begins with a hold, so that the bound on the holds  *)
(* bounds the recordings: those made, and those a call still asks for.     *)

Starts(s) == {i \in DOMAIN s : s[i].op \in {"ask", "start"}}

HoldsCounted == made + Cardinality(Starts(calls)) <= holds

TypeInv == TypeOK /\ HoldsCounted

LEMMA CallOps ==
    /\ [op |-> "ask"] \in Call /\ [op |-> "start"] \in Call /\ [op |-> "dispose"] \in Call
    /\ \A b \in BOOLEAN : [op |-> "stop", cancelled |-> b] \in Call
BY DEF Call

LEMMA StartsFinite ==
    ASSUME NEW s \in Seq(Call)
    PROVE  IsFiniteSet(Starts(s)) /\ Cardinality(Starts(s)) \in Nat
<1>1. DOMAIN s = 1..Len(s) /\ Len(s) \in Nat
  OBVIOUS
<1>2. IsFiniteSet(1..Len(s))
  BY <1>1, FS_Interval
<1>3. Starts(s) \subseteq 1..Len(s)
  BY <1>1 DEF Starts
<1> QED
  BY <1>2, <1>3, FS_Subset, FS_CardinalityType

\* A call is made.
LEMMA StartsOfAppend ==
    ASSUME NEW s \in Seq(Call), NEW c \in Call
    PROVE  /\ Append(s, c) \in Seq(Call)
           /\ Cardinality(Starts(Append(s, c)))
                = Cardinality(Starts(s)) + (IF c.op \in {"ask", "start"} THEN 1 ELSE 0)
<1> DEFINE t == Append(s, c)
           n == Len(s) + 1
<1>1. /\ t \in Seq(Call) /\ Len(s) \in Nat /\ DOMAIN s = 1..Len(s) /\ DOMAIN t = 1..n
      /\ t[n] = c /\ \A i \in 1..Len(s) : t[i] = s[i]
  OBVIOUS
<1>2. n \notin Starts(s) /\ 1..n = 1..Len(s) \cup {n}
  BY <1>1 DEF Starts
<1> HIDE DEF t, n
<1>3. CASE c.op \in {"ask", "start"}
  <2>1. Starts(t) = Starts(s) \cup {n}
    BY <1>1, <1>2, <1>3 DEF Starts
  <2>2. Cardinality(Starts(s) \cup {n}) = Cardinality(Starts(s)) + 1
    BY <1>2, StartsFinite, FS_AddElement
  <2> QED
    BY <1>1, <1>3, <2>1, <2>2 DEF t
<1>4. CASE c.op \notin {"ask", "start"}
  <2>1. Starts(t) = Starts(s)
    BY <1>1, <1>2, <1>4 DEF Starts, n
  <2>2. Cardinality(Starts(s)) + 0 = Cardinality(Starts(s))
    BY StartsFinite
  <2> QED
    BY <1>1, <1>4, <2>1, <2>2 DEF t
<1> QED
  BY <1>3, <1>4

\* A call is served.
LEMMA StartsOfTail ==
    ASSUME NEW s \in Seq(Call), s # <<>>
    PROVE  /\ Tail(s) \in Seq(Call)
           /\ Cardinality(Starts(Tail(s)))
                = Cardinality(Starts(s)) - (IF Head(s).op \in {"ask", "start"} THEN 1 ELSE 0)
<1> DEFINE t == Tail(s)
           R == Starts(s) \ {1}
           f == [i \in R |-> i - 1]
<1>1. /\ t \in Seq(Call) /\ Len(s) \in Nat \ {0} /\ DOMAIN s = 1..Len(s)
      /\ DOMAIN t = 1..Len(s) - 1 /\ Head(s) = s[1]
      /\ \A i \in 1..Len(s) - 1 : t[i] = s[i + 1]
  OBVIOUS
<1> HIDE DEF t
<1>2. \A i \in R : i \in 2..Len(s) /\ s[i].op \in {"ask", "start"}
  BY <1>1 DEF Starts
<1>3. f \in [R -> Starts(t)]
  <2> SUFFICES ASSUME NEW i \in R PROVE i - 1 \in Starts(t)
    OBVIOUS
  <2>1. i - 1 \in 1..Len(s) - 1 /\ (i - 1) + 1 = i
    BY <1>1, <1>2
  <2>2. t[i - 1] = s[i]
    BY <1>1, <2>1
  <2> QED
    BY <1>1, <1>2, <2>1, <2>2 DEF Starts
<1>4. \A i, j \in R : f[i] = f[j] => i = j
  BY <1>2
<1>5. \A j \in Starts(t) : \E i \in R : f[i] = j
  <2> SUFFICES ASSUME NEW j \in Starts(t) PROVE \E i \in R : f[i] = j
    OBVIOUS
  <2>1. j \in 1..Len(s) - 1 /\ t[j].op \in {"ask", "start"} /\ t[j] = s[j + 1]
    BY <1>1 DEF Starts
  <2>2. j + 1 \in 1..Len(s) /\ j + 1 # 1 /\ (j + 1) - 1 = j
    BY <1>1, <2>1
  <2>3. j + 1 \in R
    BY <1>1, <2>1, <2>2 DEF Starts
  <2> QED
    BY <2>2, <2>3
<1>6. ExistsBijection(R, Starts(t))
  <2> HIDE DEF f
  <2>1. f \in Bijection(R, Starts(t))
    BY <1>3, <1>4, <1>5 DEF Bijection, Injection, Surjection, IsInjective
  <2> QED
    BY <2>1 DEF ExistsBijection
<1>7. /\ IsFiniteSet(R)
      /\ Cardinality(R) = IF 1 \in Starts(s) THEN Cardinality(Starts(s)) - 1
                          ELSE Cardinality(Starts(s))
  BY StartsFinite, FS_RemoveElement
<1>8. Cardinality(Starts(t)) = Cardinality(R)
  BY <1>6, <1>7, FS_Bijection
<1>9. 1 \in Starts(s) <=> Head(s).op \in {"ask", "start"}
  BY <1>1 DEF Starts
<1>10. Cardinality(Starts(s)) \in Nat
  BY StartsFinite
<1> HIDE DEF R
<1>11. Cardinality(Starts(t))
         = Cardinality(Starts(s)) - (IF Head(s).op \in {"ask", "start"} THEN 1 ELSE 0)
  BY <1>7, <1>8, <1>9, <1>10
<1> QED
  BY <1>1, <1>11 DEF t
\* What TypeInv says of the calls and the numbers.
LEMMA TypeFacts ==
    ASSUME TypeInv
    PROVE  /\ calls \in Seq(Call) /\ MaxRecordings \in Nat
           /\ Cardinality(Starts(calls)) \in Nat
           /\ holds \in Nat /\ made \in Nat /\ holds <= MaxRecordings /\ made <= holds
           /\ made + Cardinality(Starts(calls)) <= holds
<1>1. calls \in Seq(Call) /\ holds \in 0..MaxRecordings /\ made \in 0..MaxRecordings
      /\ MaxRecordings \in Nat
  BY VoiceConstants DEF TypeInv, TypeOK
<1>2. Cardinality(Starts(calls)) \in Nat
  BY <1>1, StartsFinite
<1>3. made + Cardinality(Starts(calls)) <= holds
  BY DEF TypeInv, HoldsCounted
<1> QED
  BY <1>1, <1>2, <1>3

LEMMA SendingIsTyped ==
    ASSUME NEW m \in Media, MediaTypeOK, Proceed(m) \/ Settle(m)
    PROVE  MediaTypeOK'
<1> USE DEF MediaTypeOK, Advance, Phases
<1>1. CASE Pick(m) \/ PickNothing(m) \/ Compress(m)
  BY <1>1 DEF Pick, PickNothing, Compress
<1>2. CASE Upload(m) \/ UploadFails(m)
  BY <1>2 DEF Upload, UploadFails
<1>3. CASE Insert(m) \/ InsertRefused(m) \/ InsertDelayed(m)
  BY <1>3 DEF Insert, InsertRefused, InsertDelayed
<1>4. CASE StrayArrives(m) \/ AnswerLost(m)
  BY <1>4 DEF StrayArrives, AnswerLost
<1>5. CASE RemoveObject(m)
  BY <1>5 DEF RemoveObject
<1>6. CASE Sent(m) \/ Failed(m)
  BY <1>6 DEF Sent, Failed
<1> QED
  BY <1>1, <1>2, <1>3, <1>4, <1>5, <1>6 DEF Proceed, Settle

\* The calls after _stopAndSend up to its await.
LEMMA StopAndSendIsTyped ==
    ASSUME TypeInv, NEW b \in BOOLEAN, StopAndSend(b)
    PROVE  /\ calls' \in Seq(Call) /\ timer' \in 0..MaxRecordings
           /\ Cardinality(Starts(calls')) = Cardinality(Starts(calls))
<1> DEFINE c == [op |-> "stop", cancelled |-> b]
<1>1. c \in Call /\ c.op \notin {"ask", "start"}
  BY CallOps
<1>2. timer \in 0..MaxRecordings /\ 0 \in 0..MaxRecordings
  BY VoiceConstants DEF TypeInv, TypeOK
<1>3. \/ calls' = calls /\ timer' = timer
      \/ calls' = Append(calls, c) /\ timer' = 0
  BY DEF StopAndSend
<1> HIDE DEF c
<1>4. Cardinality(Starts(calls)) + 0 = Cardinality(Starts(calls))
  BY TypeFacts
<1> QED
  BY <1>1, <1>2, <1>3, <1>4, TypeFacts, StartsOfAppend

\* A step of the button or the timers: what it must show for TypeInv.
LEMMA ButtonStep ==
    ASSUME TypeInv, UNCHANGED <<mediaVars, recording, uploading, mic, made, voice, discarded>>,
           held' \in BOOLEAN, mounted' \in BOOLEAN, holds' \in 0..MaxRecordings,
           calls' \in Seq(Call), timer' \in 0..MaxRecordings, loose' \subseteq loose,
           made + Cardinality(Starts(calls')) <= holds'
    PROVE  TypeInv'
<1>1. MediaTypeOK'
  BY DEF mediaVars, TypeInv, TypeOK, MediaTypeOK
<1>2. TypeOK'
  BY <1>1 DEF TypeInv, TypeOK
<1> QED
  BY <1>2 DEF TypeInv, HoldsCounted, Starts

LEMMA ButtonIsTyped ==
    ASSUME TypeInv, Press \/ Release \/ Tap \/ Leave
    PROVE  TypeInv'
<1>1. CASE Press
  <2> DEFINE c == [op |-> "ask"]
             k == Cardinality(Starts(calls))
  <2>1. /\ UNCHANGED <<mediaVars, recording, uploading, mounted, mic, made, timer, loose,
                       voice, discarded>>
        /\ held' = TRUE /\ holds' = holds + 1 /\ holds < MaxRecordings
        /\ calls' = calls \/ calls' = Append(calls, c)
    BY <1>1 DEF Press
  <2>2. c \in Call /\ c.op \in {"ask", "start"}
    BY CallOps
  <2>3. calls' \in Seq(Call) /\ Cardinality(Starts(calls')) \in {k, k + 1}
    BY <2>1, <2>2, TypeFacts, StartsOfAppend
  <2>4. holds' \in 0..MaxRecordings /\ made + Cardinality(Starts(calls')) <= holds'
    <3>1. k \in Nat
      BY TypeFacts
    <3> HIDE DEF k
    <3>2. made + k <= holds
      BY TypeFacts DEF k
    <3> QED
      BY <2>1, <2>3, <3>1, <3>2, TypeFacts
  <2>5. timer' \in 0..MaxRecordings /\ mounted' \in BOOLEAN
    BY <2>1 DEF TypeInv, TypeOK
  <2> HIDE DEF c, k
  <2> QED
    BY <2>1, <2>3, <2>4, <2>5, ButtonStep
<1>2. CASE Release
  <2>1. /\ UNCHANGED <<mediaVars, holds, recording, uploading, mounted, mic, made, loose, voice,
                       discarded>>
        /\ held' = FALSE /\ \E b \in BOOLEAN : StopAndSend(b)
    BY <1>2 DEF Release
  <2>2. holds' \in 0..MaxRecordings /\ mounted' \in BOOLEAN
    BY <2>1 DEF TypeInv, TypeOK
  <2> QED
    BY <2>1, <2>2, StopAndSendIsTyped, TypeFacts, ButtonStep
<1>3. CASE Tap
  <2>1. UNCHANGED <<mediaVars, button, mic, made, loose, voice, discarded>> /\ StopAndSend(TRUE)
    BY <1>3 DEF Tap
  <2>2. holds' \in 0..MaxRecordings /\ mounted' \in BOOLEAN /\ held' \in BOOLEAN
    BY <2>1 DEF TypeInv, TypeOK, button
  <2>3. UNCHANGED <<recording, uploading, holds>>
    BY <2>1 DEF button
  <2> QED
    BY <2>1, <2>2, <2>3, StopAndSendIsTyped, TypeFacts, ButtonStep
<1>4. CASE Leave
  <2> DEFINE c == [op |-> "dispose"]
  <2>1. /\ UNCHANGED <<mediaVars, holds, recording, uploading, mic, made, loose, voice, discarded>>
        /\ held' = FALSE /\ mounted' = FALSE /\ timer' = 0 /\ calls' = Append(calls, c)
    BY <1>4 DEF Leave
  <2>2. c \in Call /\ c.op \notin {"ask", "start"}
    BY CallOps
  <2>3. calls' \in Seq(Call) /\ Cardinality(Starts(calls')) = Cardinality(Starts(calls)) + 0
    BY <2>1, <2>2, TypeFacts, StartsOfAppend
  <2>4. holds' \in 0..MaxRecordings /\ 0 \in 0..MaxRecordings
    BY <2>1, VoiceConstants DEF TypeInv, TypeOK
  <2> HIDE DEF c
  <2>5. made + Cardinality(Starts(calls')) <= holds'
    <3>1. Cardinality(Starts(calls')) = Cardinality(Starts(calls)) /\ holds' = holds
      BY <2>1, <2>3, TypeFacts
    <3> QED
      BY <3>1, TypeFacts
  <2> QED
    BY <2>1, <2>3, <2>4, <2>5, ButtonStep
<1> QED
  BY <1>1, <1>2, <1>3, <1>4

LEMMA TimersAreTyped ==
    ASSUME TypeInv, Timers
    PROVE  TypeInv'
<1>1. PICK n \in Recordings : Fire(n)
  BY DEF Timers
<1>2. UNCHANGED <<mediaVars, button, mic, made, voice, discarded>> /\ loose' \subseteq loose
  BY <1>1 DEF Fire
<1>3. /\ calls' \in Seq(Call) /\ timer' \in 0..MaxRecordings
      /\ Cardinality(Starts(calls')) = Cardinality(Starts(calls))
  <2>1. CASE recording
    BY <1>1, <2>1, StopAndSendIsTyped DEF Fire
  <2>2. CASE ~recording
    <3>1. calls' = calls /\ timer' \in {0, timer}
      BY <1>1, <2>2 DEF Fire
    <3>2. timer \in 0..MaxRecordings /\ 0 \in 0..MaxRecordings
      BY VoiceConstants DEF TypeInv, TypeOK
    <3> QED
      BY <3>1, <3>2, TypeFacts
  <2> QED
    BY <2>1, <2>2
<1>4. /\ holds' \in 0..MaxRecordings /\ mounted' \in BOOLEAN /\ held' \in BOOLEAN
      /\ UNCHANGED <<recording, uploading, holds>>
  BY <1>2 DEF TypeInv, TypeOK, button
<1> QED
  BY <1>2, <1>3, <1>4, TypeFacts, ButtonStep

\* A call is served: the recorder's steps take the first call off the queue.
LEMMA ServedIsTyped ==
    ASSUME TypeInv, calls # <<>>, calls' = Tail(calls)
    PROVE  /\ calls' \in Seq(Call)
           /\ Cardinality(Starts(calls')) <= Cardinality(Starts(calls))
           /\ Head(calls).op \in {"ask", "start"} =>
                 Cardinality(Starts(calls')) = Cardinality(Starts(calls)) - 1
BY TypeFacts, StartsOfTail

LEMMA StartIsTyped == TypeInv /\ Start => TypeInv'
<1> SUFFICES ASSUME TypeInv, Start PROVE TypeInv'
  OBVIOUS
<1> DEFINE k == Cardinality(Starts(calls))
<1>1. /\ calls # <<>> /\ Head(calls).op = "start" /\ calls' = Tail(calls)
      /\ made' = made + 1 /\ mic' = made + 1
      /\ UNCHANGED <<mediaVars, held, holds, uploading, mounted, voice, discarded>>
  BY DEF Start, Started, Serves
<1>2. calls' \in Seq(Call) /\ Cardinality(Starts(calls')) = k - 1
  BY <1>1, ServedIsTyped
<1>3. k \in Nat /\ Cardinality(Starts(calls')) \in Nat
  BY <1>2, TypeFacts, StartsFinite
<1> HIDE DEF k
<1>4. made' \in 0..MaxRecordings /\ made + 1 \in Recordings /\ made + 1 \in 0..MaxRecordings
  BY <1>1, <1>2, <1>3, TypeFacts DEF Recordings, k
<1>5. recording' \in BOOLEAN /\ timer' \in 0..MaxRecordings /\ loose' \subseteq Recordings
  <2>1. \/ UNCHANGED <<recording, timer, loose>>
        \/ recording' = TRUE /\ timer' = made + 1 /\ loose' = loose \cup ({timer} \ {0})
    BY DEF Start, Started
  <2>2. timer \in 0..MaxRecordings /\ recording \in BOOLEAN /\ loose \subseteq Recordings
    BY DEF TypeInv, TypeOK
  <2>3. {timer} \ {0} \subseteq Recordings
    BY <2>2, TypeFacts DEF Recordings
  <2> QED
    BY <1>4, <2>1, <2>2, <2>3
<1>6. MediaTypeOK'
  BY <1>1 DEF mediaVars, TypeInv, TypeOK, MediaTypeOK
<1>7. TypeOK'
  BY <1>1, <1>2, <1>4, <1>5, <1>6 DEF TypeInv, TypeOK
<1>8. HoldsCounted'
  <2>1. made' + Cardinality(Starts(calls')) <= holds'
    BY <1>1, <1>2, <1>3, TypeFacts DEF k
  <2> QED
    BY <2>1 DEF HoldsCounted, Starts
<1> QED
  BY <1>7, <1>8 DEF TypeInv

LEMMA StoppedIsTyped == TypeInv /\ Stopped => TypeInv'
<1> SUFFICES ASSUME TypeInv, Stopped PROVE TypeInv'
  OBVIOUS
<1>1. /\ calls # <<>> /\ calls' = Tail(calls) /\ mic' = 0 /\ recording' = FALSE
      /\ UNCHANGED <<objects, rows, stray, removals, held, holds, mounted, made, timer, loose>>
  BY DEF Stopped, StoppedWith, Serves
<1>2. calls' \in Seq(Call) /\ Cardinality(Starts(calls')) <= Cardinality(Starts(calls))
  BY <1>1, ServedIsTyped
<1>3. Cardinality(Starts(calls')) \in Nat
  BY <1>2, StartsFinite
<1>4. /\ mic \in 0..MaxRecordings /\ 0 \in 0..MaxRecordings /\ discarded \subseteq Recordings
      /\ {mic} \ {0} \subseteq Recordings
  <2>1. mic \in 0..MaxRecordings /\ 0 \in 0..MaxRecordings /\ discarded \subseteq Recordings
    BY VoiceConstants DEF TypeInv, TypeOK
  <2> QED
    BY <2>1, TypeFacts DEF Recordings
<1>5. send' \in [Media -> Phases] /\ voice' \in [Media -> 0..MaxRecordings]
  <2>1. send \in [Media -> Phases] /\ voice \in [Media -> 0..MaxRecordings]
    BY DEF TypeInv, TypeOK, MediaTypeOK
  <2>2. CASE UNCHANGED <<send, voice>>
    BY <2>1, <2>2
  <2>3. CASE \E m \in Media \ Photos : /\ Advance(m, "unused", "uploading")
                                       /\ voice' = [voice EXCEPT ![m] = mic]
    BY <1>4, <2>1, <2>3 DEF Advance, Phases
  <2> QED
    BY <2>2, <2>3 DEF Stopped, StoppedWith
<1>6. MediaTypeOK'
  BY <1>1, <1>5 DEF TypeInv, TypeOK, MediaTypeOK
<1>7. uploading' \in BOOLEAN
  <2>1. PICK keeps \in BOOLEAN : uploading' = (uploading \/ keeps)
    BY DEF Stopped, StoppedWith
  <2> QED
    BY <2>1
<1>8. discarded' \subseteq Recordings
  BY <1>4 DEF Stopped, StoppedWith
<1>9. TypeOK'
  BY <1>1, <1>2, <1>4, <1>5, <1>6, <1>7, <1>8 DEF TypeInv, TypeOK
<1>10. HoldsCounted'
  <2>1. made' + Cardinality(Starts(calls')) <= holds'
    BY <1>1, <1>2, <1>3, TypeFacts
  <2> QED
    BY <2>1 DEF HoldsCounted, Starts
<1> QED
  BY <1>9, <1>10 DEF TypeInv

\* The other answers of the recorder: at most a call for the permission turns into one
\* for a start.
LEMMA RecorderAnswersAreTyped ==
    ASSUME TypeInv, Asked \/ StartFails \/ StopFails \/ Disposed
    PROVE  TypeInv'
<1> DEFINE k == Cardinality(Starts(calls))
           c == [op |-> "start"]
<1>1. /\ UNCHANGED <<mediaVars, button, made, timer, loose, voice, discarded>>
      /\ calls # <<>> /\ mic' \in {0, mic}
  BY DEF Asked, StartFails, StopFails, Disposed, Serves
<1>2. calls' \in Seq(Call) /\ Cardinality(Starts(calls')) <= k
  <2>1. CASE calls' = Tail(calls)
    BY <1>1, <2>1, ServedIsTyped
  <2>2. CASE Asked /\ calls' = Append(Tail(calls), c)
    <3>1. Head(calls).op = "ask"
      BY <2>2 DEF Asked, Serves
    <3>2. Tail(calls) \in Seq(Call) /\ Cardinality(Starts(Tail(calls))) = k - 1 /\ k \in Nat
      BY <1>1, <3>1, TypeFacts, StartsOfTail
    <3>3. c \in Call /\ c.op \in {"ask", "start"}
      BY CallOps
    <3> HIDE DEF k, c
    <3>4. /\ Append(Tail(calls), c) \in Seq(Call)
          /\ Cardinality(Starts(Append(Tail(calls), c))) = k - 1 + 1
      BY <3>2, <3>3, StartsOfAppend
    <3> QED
      BY <2>2, <3>2, <3>4
  <2> QED
    BY <2>1, <2>2 DEF Asked, StartFails, StopFails, Disposed
<1>3. Cardinality(Starts(calls')) \in Nat
  BY <1>2, StartsFinite
<1>4. MediaTypeOK'
  BY <1>1 DEF mediaVars, TypeInv, TypeOK, MediaTypeOK
<1>5. TypeOK'
  <2>1. 0 \in 0..MaxRecordings
    BY TypeFacts
  <2> QED
    BY <1>1, <1>2, <1>4, <2>1 DEF TypeInv, TypeOK, button
<1>6. HoldsCounted'
  <2>1. made' = made /\ holds' = holds
    BY <1>1 DEF button
  <2>2. made' + Cardinality(Starts(calls')) <= holds'
    BY <1>2, <1>3, <2>1, TypeFacts
  <2> QED
    BY <2>2 DEF HoldsCounted, Starts
<1> QED
  BY <1>5, <1>6 DEF TypeInv
LEMMA InitIsTyped == Init => TypeInv
<1> SUFFICES ASSUME Init PROVE TypeInv
  OBVIOUS
<1>1. calls \in Seq(Call) /\ DOMAIN calls = {}
  BY DEF Init
<1>2. MediaTypeOK
  BY DEF Init, MediaInit, MediaTypeOK, Phases
<1>3. TypeOK
  <2>1. {holds, made, mic, timer} \subseteq 0..MaxRecordings /\ 0 \in 0..MaxRecordings
    BY VoiceConstants DEF Init
  <2>2. voice \in [Media -> 0..MaxRecordings]
    BY <2>1 DEF Init
  <2>3. /\ held \in BOOLEAN /\ recording \in BOOLEAN /\ uploading \in BOOLEAN
        /\ mounted \in BOOLEAN /\ loose \subseteq Recordings /\ discarded \subseteq Recordings
    BY DEF Init
  <2> QED
    BY <1>1, <1>2, <2>1, <2>2, <2>3 DEF TypeOK
<1>4. Cardinality(Starts(calls)) = 0
  BY <1>1, FS_EmptySet DEF Starts
<1> QED
  BY <1>3, <1>4 DEF TypeInv, HoldsCounted, Init

LEMMA MessagesAreTyped ==
    ASSUME TypeInv, NEW m \in Media, SendProceeds(m) \/ SendSettles(m)
    PROVE  TypeInv'
<1>1. /\ UNCHANGED <<held, holds, recording, mounted, recorder, voice>>
      /\ Proceed(m) \/ Settle(m)
  BY DEF SendProceeds, SendSettles, button
<1>2. uploading' \in BOOLEAN
  <2>1. uploading \in BOOLEAN
    BY DEF TypeInv, TypeOK
  <2>2. CASE SendProceeds(m)
    BY <2>1, <2>2 DEF SendProceeds, button
  <2>3. CASE SendSettles(m)
    BY <2>1, <2>3 DEF SendSettles
  <2> QED
    BY <2>2, <2>3
<1>3. MediaTypeOK'
  BY <1>1, SendingIsTyped DEF TypeInv, TypeOK
<1>4. TypeOK'
  BY <1>1, <1>2, <1>3 DEF TypeInv, TypeOK, recorder
<1> QED
  BY <1>1, <1>4 DEF TypeInv, HoldsCounted, Starts, recorder

\* Every state of the button and its recorder is typed: in particular no more recordings
\* are made than the button was held, although a start overlaps with later holds.
THEOREM TypeCorrectness == Spec => []TypeOK
<1>1. TypeInv /\ [Next]_vars => TypeInv'
  <2> SUFFICES ASSUME TypeInv, [Next]_vars PROVE TypeInv'
    OBVIOUS
  <2>1. CASE Press \/ Release \/ Tap \/ Leave
    BY <2>1, ButtonIsTyped
  <2>2. CASE Serve
    BY <2>2, StartIsTyped, StoppedIsTyped, RecorderAnswersAreTyped DEF Serve
  <2>3. CASE Timers
    BY <2>3, TimersAreTyped
  <2>4. ASSUME NEW m \in Media, SendProceeds(m) \/ SendSettles(m) PROVE TypeInv'
    BY <2>4, MessagesAreTyped
  <2>5. CASE UNCHANGED vars
    <3>1. MediaTypeOK'
      BY <2>5 DEF vars, mediaVars, TypeInv, TypeOK, MediaTypeOK
    <3>2. TypeOK'
      BY <2>5, <3>1 DEF vars, button, recorder, TypeInv, TypeOK
    <3> QED
      BY <2>5, <3>2 DEF vars, button, recorder, TypeInv, HoldsCounted, Starts
  <2> QED
    BY <2>1, <2>2, <2>3, <2>4, <2>5 DEF Next
<1>2. TypeInv => TypeOK
  BY DEF TypeInv
<1> QED
  BY <1>1, <1>2, InitIsTyped, PTL DEF Spec

-----------------------------------------------------------------------------
(* The button and the microphone.                                          *)

\* What holds between two calls as well: as long as the button is on the screen it shows
\* the recording, because only the answer that stops the recorder hides it.
Shown == mounted /\ mic # 0 => recording

\* A running recorder is shown by the button, so that the user can end it: whatever was
\* released, tapped or timed out while a start was under way (_start, _stopAndSend).
THEOREM RunningRecorderIsShown == Spec => []RecordingIsShown
<1>1. Init => Shown
  BY DEF Init, Shown
<1>2. Shown /\ [Next]_vars => Shown'
  <2> SUFFICES ASSUME Shown, [Next]_vars PROVE Shown'
    OBVIOUS
  <2>1. CASE Press \/ Release \/ Tap \/ Leave
    BY <2>1 DEF Press, Release, Tap, Leave, button, Shown
  <2>2. CASE Start
    BY <2>2 DEF Start, Started, Shown
  <2>3. CASE Stopped
    BY <2>3 DEF Stopped, StoppedWith, Shown
  <2>4. CASE Asked \/ StartFails \/ StopFails \/ Disposed
    BY <2>4 DEF Asked, StartFails, StopFails, Disposed, button, Shown
  <2>5. CASE Timers
    BY <2>5 DEF Timers, Fire, button, Shown
  <2>6. ASSUME NEW m \in Media, SendProceeds(m) \/ SendSettles(m) PROVE Shown'
    BY <2>6 DEF SendProceeds, SendSettles, button, recorder, Shown
  <2>7. CASE UNCHANGED vars
    BY <2>7 DEF vars, button, recorder, Shown
  <2> QED
    BY <2>1, <2>2, <2>3, <2>4, <2>5, <2>6, <2>7 DEF Next, Serve
<1>3. Shown => RecordingIsShown
  BY DEF Shown, RecordingIsShown
<1> QED
  BY <1>1, <1>2, <1>3, PTL DEF Spec

\* A stop is among the calls.
StopUnderWay == \E i \in DOMAIN calls : calls[i].op = "stop"

\* The timer that is set is that of the newest recording, and a recording under way is
\* the newest one.
DueInv == /\ calls \in Seq(Call) /\ timer \in {0, made} /\ mic \in {0, made}
          /\ ~mounted => timer = 0
          /\ Shown /\ StopIsDue

\* _stopAndSend takes the timer away only with a stop in its place.
LEMMA StopAndSendIsDue ==
    ASSUME DueInv, NEW b \in BOOLEAN, StopAndSend(b), UNCHANGED <<made, mic, mounted, recording>>
    PROVE  DueInv'
<1> DEFINE c == [op |-> "stop", cancelled |-> b]
<1>1. CASE UNCHANGED <<calls, timer>>
  BY <1>1 DEF DueInv, Shown, StopIsDue
<1>2. CASE calls' = Append(calls, c) /\ timer' = 0
  <2>1. c \in Call /\ c.op = "stop" /\ calls \in Seq(Call)
    BY CallOps DEF DueInv
  <2> HIDE DEF c
  <2>2. /\ calls' \in Seq(Call) /\ Len(calls) + 1 \in DOMAIN calls'
        /\ calls'[Len(calls) + 1] = c
    BY <1>2, <2>1
  <2> QED
    BY <1>2, <2>1, <2>2 DEF DueInv, Shown, StopIsDue
<1> QED
  BY <1>1, <1>2 DEF StopAndSend

\* Another call is made, or one that is not a stop is served: the stops are still there.
LEMMA StopsStay ==
    ASSUME calls \in Seq(Call), StopUnderWay,
           \/ \E c \in Call : calls' = Append(calls, c)
           \/ calls # <<>> /\ Head(calls).op # "stop" /\ calls' = Tail(calls)
           \/ calls # <<>> /\ Head(calls).op # "stop" /\
                 \E c \in Call : calls' = Append(Tail(calls), c)
    PROVE  \E i \in DOMAIN calls' : calls'[i].op = "stop"
<1>1. PICK i \in 1..Len(calls) : calls[i].op = "stop"
  BY DEF StopUnderWay
<1>2. CASE \E c \in Call : calls' = Append(calls, c)
  <2>1. PICK c \in Call : calls' = Append(calls, c)
    BY <1>2
  <2>2. i \in DOMAIN calls' /\ calls'[i] = calls[i]
    BY <1>1, <2>1
  <2> QED
    BY <1>1, <2>2
<1>3. CASE calls # <<>> /\ Head(calls).op # "stop"
  <2> DEFINE t == Tail(calls)
  <2>1. t \in Seq(Call) /\ Len(t) = Len(calls) - 1 /\ Len(calls) \in Nat /\ Head(calls) = calls[1]
        /\ \A j \in 1..Len(calls) - 1 : t[j] = calls[j + 1]
    BY <1>3
  <2>2. i # 1
    BY <1>1, <1>3, <2>1
  <2>3. i - 1 \in 1..Len(calls) - 1 /\ (i - 1) + 1 = i
    BY <1>1, <2>1, <2>2
  <2> HIDE DEF t
  <2>4. i - 1 \in 1..Len(t) /\ t[i - 1].op = "stop"
    BY <1>1, <2>1, <2>3
  <2>5. CASE calls' = t
    BY <2>1, <2>4, <2>5
  <2>6. CASE \E c \in Call : calls' = Append(t, c)
    <3>1. PICK c \in Call : calls' = Append(t, c)
      BY <2>6
    <3>2. i - 1 \in DOMAIN calls' /\ calls'[i - 1] = t[i - 1]
      BY <2>1, <2>4, <3>1
    <3> QED
      BY <2>4, <3>2
  <2> QED
    BY <1>2, <2>5, <2>6 DEF t
<1> QED
  BY <1>2, <1>3

LEMMA CallsStayTyped ==
    ASSUME calls \in Seq(Call), NEW c \in Call
    PROVE  /\ Append(calls, c) \in Seq(Call)
           /\ calls # <<>> => Tail(calls) \in Seq(Call) /\ Append(Tail(calls), c) \in Seq(Call)
OBVIOUS

\* The steps that leave recorder, timer and button as they are and keep the stops.
LEMMA CallsMoveOn ==
    ASSUME DueInv, UNCHANGED <<made, mic, timer, recording, mounted>>,
           calls' \in Seq(Call), StopUnderWay => \E i \in DOMAIN calls' : calls'[i].op = "stop"
    PROVE  DueInv'
BY DEF DueInv, Shown, StopIsDue, StopUnderWay

\* The recorder is off after these.
LEMMA NothingIsDue ==
    ASSUME DueInv, mic' = 0, UNCHANGED <<made, mounted, timer>>, calls' \in Seq(Call)
    PROVE  DueInv'
BY DEF DueInv, Shown, StopIsDue

LEMMA ButtonIsDue ==
    ASSUME DueInv, Press \/ Release \/ Tap \/ Leave
    PROVE  DueInv'
<1>1. CASE Press
  <2>1. /\ UNCHANGED <<made, mic, timer, recording, mounted>>
        /\ calls' = calls \/ calls' = Append(calls, [op |-> "ask"])
    BY <1>1 DEF Press
  <2>2. calls \in Seq(Call) /\ [op |-> "ask"] \in Call
    BY CallOps DEF DueInv
  <2>3. CASE calls' = calls
    BY <2>1, <2>3 DEF DueInv, Shown, StopIsDue
  <2>4. CASE calls' = Append(calls, [op |-> "ask"])
    BY <2>1, <2>2, <2>4, CallsStayTyped, StopsStay, CallsMoveOn
  <2> QED
    BY <2>1, <2>3, <2>4
<1>2. CASE Release \/ Tap
  BY <1>2, StopAndSendIsDue DEF Release, Tap, button
<1>3. CASE Leave
  <2>1. /\ UNCHANGED <<made, mic>> /\ timer' = 0 /\ mounted' = FALSE
        /\ calls' = Append(calls, [op |-> "dispose"])
    BY <1>3 DEF Leave
  <2>2. calls' \in Seq(Call)
    BY <2>1, CallOps, CallsStayTyped DEF DueInv
  <2> QED
    BY <2>1, <2>2 DEF DueInv, Shown, StopIsDue
<1> QED
  BY <1>1, <1>2, <1>3

LEMMA RecorderIsDue ==
    ASSUME DueInv, Serve
    PROVE  DueInv'
<1>1. calls \in Seq(Call) /\ calls # <<>> /\ [op |-> "start"] \in Call
  BY CallOps DEF DueInv, Serve, Asked, Start, Started, StartFails, Stopped, StoppedWith, StopFails,
     Disposed, Serves
<1>2. CASE Asked
  <2>1. /\ UNCHANGED <<made, mic, timer, recording, mounted>> /\ Head(calls).op # "stop"
        /\ calls' = Tail(calls) \/ calls' = Append(Tail(calls), [op |-> "start"])
    BY <1>2 DEF Asked, Serves, button
  <2>2. calls' \in Seq(Call)
    BY <1>1, <2>1, CallsStayTyped
  <2>3. StopUnderWay => \E i \in DOMAIN calls' : calls'[i].op = "stop"
    BY <1>1, <2>1, StopsStay
  <2> QED
    BY <2>1, <2>2, <2>3, CallsMoveOn
<1>3. CASE Start
  <2>1. /\ calls' = Tail(calls) /\ Head(calls).op # "stop" /\ mounted' = mounted
        /\ made' = made + 1 /\ mic' = made + 1
    BY <1>3 DEF Start, Started, Serves
  <2>2. calls' \in Seq(Call)
    BY <1>1, <2>1, CallsStayTyped
  <2>3. CASE mounted
    <3>1. recording' = TRUE /\ timer' = made + 1
      BY <1>3, <2>3 DEF Start, Started
    <3>2. mounted'
      BY <2>1, <2>3
    <3> QED
      BY <2>1, <2>2, <3>1, <3>2 DEF DueInv, Shown, StopIsDue
  <2>4. CASE ~mounted
    <3>1. timer' = timer
      BY <1>3, <2>4 DEF Start, Started
    <3>2. timer = 0
      BY <2>4 DEF DueInv
    <3> QED
      BY <2>1, <2>2, <2>4, <3>1, <3>2 DEF DueInv, Shown, StopIsDue
  <2> QED
    BY <2>3, <2>4
<1>4. CASE StartFails
  <2>1. /\ UNCHANGED <<made, mic, timer, recording, mounted>> /\ Head(calls).op # "stop"
        /\ calls' = Tail(calls)
    BY <1>4 DEF StartFails, Serves, button
  <2>2. StopUnderWay => \E i \in DOMAIN calls' : calls'[i].op = "stop"
    BY <1>1, <2>1, StopsStay
  <2> QED
    BY <1>1, <2>1, <2>2, CallsStayTyped, CallsMoveOn
<1>5. CASE Stopped \/ StopFails \/ Disposed
  <2>1. mic' = 0 /\ UNCHANGED <<made, mounted, timer>> /\ calls' = Tail(calls)
    BY <1>5 DEF Stopped, StoppedWith, StopFails, Disposed, button
  <2> QED
    BY <1>1, <2>1, CallsStayTyped, NothingIsDue
<1> QED
  BY <1>2, <1>3, <1>4, <1>5 DEF Serve

\* As long as the button is on the screen a running recorder has its own autostop timer,
\* or a stop is on its way to it, for any number of holds, overlapping starts and timers
\* left over (_start, _stopAndSend).  It is the safety half of RecorderStops.
THEOREM StopsAreDue == Spec => []StopIsDue
<1>1. Init => DueInv
  <2>1. Init => calls \in Seq(Call)
    BY DEF Init
  <2> QED
    BY <2>1 DEF Init, DueInv, Shown, StopIsDue
<1>2. DueInv /\ [Next]_vars => DueInv'
  <2> SUFFICES ASSUME DueInv, [Next]_vars PROVE DueInv'
    OBVIOUS
  <2>1. CASE Press \/ Release \/ Tap \/ Leave
    BY <2>1, ButtonIsDue
  <2>2. CASE Serve
    BY <2>2, RecorderIsDue
  <2>3. CASE Timers
    <3>1. PICK n \in Recordings : Fire(n)
      BY <2>3 DEF Timers
    <3>2. UNCHANGED <<made, mic, mounted, recording>>
      BY <3>1 DEF Fire, button
    <3>3. CASE recording
      BY <3>1, <3>2, <3>3, StopAndSendIsDue DEF Fire
    <3>4. CASE ~recording
      <4>1. calls' = calls /\ timer' \in {0, timer}
        BY <3>1, <3>4 DEF Fire
      <4>2. ~mounted \/ mic = 0
        BY <3>4 DEF DueInv, Shown
      <4> QED
        BY <3>2, <4>1, <4>2 DEF DueInv, Shown, StopIsDue
    <3> QED
      BY <3>3, <3>4
  <2>4. CASE \/ \E m \in Media : SendProceeds(m) \/ SendSettles(m)
             \/ UNCHANGED vars
    <3>1. UNCHANGED <<calls, made, mic, timer, recording, mounted>>
      BY <2>4 DEF SendProceeds, SendSettles, vars, button, recorder
    <3> QED
      BY <3>1 DEF DueInv, Shown, StopIsDue
  <2> QED
    BY <2>1, <2>2, <2>3, <2>4 DEF Next
<1>3. DueInv => StopIsDue
  BY DEF DueInv
<1> QED
  BY <1>1, <1>2, <1>3, PTL DEF Spec
=============================================================================
