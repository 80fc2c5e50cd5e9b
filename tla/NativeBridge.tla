----------------------------- MODULE NativeBridge -----------------------------
(***************************************************************************)
(* callbacks.c: moonlight-common-c calls back into Java through JNI.  The  *)
(* set-up and the end of a connection run on a Java thread, frames, audio  *)
(* and control messages on threads of the library, which are attached to   *)
(* the JVM at their first call and detached when they end.                 *)
(*                                                                         *)
(* The library itself is external: it starts the renderers one after the   *)
(* other, undoes what it did when one fails, and joins the threads of a    *)
(* renderer between its stop() and its cleanup().                          *)
(***************************************************************************)
EXTENDS Naturals, Sequences

CONSTANTS
    Units,           \* the decode units: sequences of buffers
    FullLength(_),   \* the field fullLength of a unit, which the library sets
    InitialLength,   \* of the frame buffer: 32768 in the code
    None,            \* no unit, no buffer
    MaxSessions,     \* bound on the connections
    MaxUnits         \* bound on the units of a connection

\* A buffer that LENTRY describes: a parameter set or a piece of the picture.
Buffers == [param : BOOLEAN, bytes : Seq(Nat)]

\* The parameter sets of a unit precede its picture.
ASSUME UnitsAssumption ==
    /\ Units \subseteq Seq(Buffers) /\ None \notin Units
    /\ \A u \in Units : \A i, j \in 1 .. Len(u) : i < j /\ u[j].param => u[i].param

\* Where each of the buffers begins when they lie one behind the other and take up
\* n bytes in all: the one such function, or none when they do not take up n.
Offsets(buffers, n) ==
    {c \in [1 .. Len(buffers) + 1 -> 0 .. n] :
        /\ c[1] = 0 /\ c[Len(buffers) + 1] = n
        /\ \A i \in 1 .. Len(buffers) : c[i + 1] = c[i] + Len(buffers[i].bytes)}

\* fullLength is the sum of the lengths of the buffers.
ASSUME FullLengthAssumption ==
    \A u \in Units : FullLength(u) \in Nat /\ Offsets(u, FullLength(u)) # {}
ASSUME NoneAssumption == None \notin Seq(Nat)
ASSUME BoundsAssumption ==
    InitialLength \in Nat \ {0} /\ MaxSessions \in Nat /\ MaxUnits \in Nat

Native == {"control", "video", "audio"}

VARIABLES
    java,       \* where the Java thread is in the library
    pending,    \* is an exception pending on it: it was thrown and not cleared
    crashed,    \* did the process die of an exception or of a misused call
    running,    \* which threads of the library run
    attached,   \* which of them the JVM knows
    tls,        \* which of them have an environment in JniEnvKey
    video,      \* the phase of the Java video renderer
    audio,      \* and of the audio renderer
    frame,      \* DecodedFrameBuffer: the bytes, None without a global reference
    sound,      \* has DecodedAudioBuffer a global reference
    decoder,    \* is Decoder an Opus decoder
    playing,    \* is the audio thread about to call bridgeArPlaySample()
    unit,       \* the unit that BridgeDrSubmitDecodeUnit() works on,
    entry,      \* the number of the buffer it has come to,
    offset,     \* its offset,
    sent,       \* and what it called Java with
    sessions, units

envVars   == <<running, attached, tls>>
audioVars == <<audio, sound, decoder>>
unitVars  == <<playing, unit, entry, offset, sent>>
vars == <<java, pending, crashed, envVars, video, audioVars, frame, unitVars,
          sessions, units>>

Phases == {"down", "up", "started", "stopped"}

TypeOK ==
    /\ java \in {"idle", "videoSetup", "videoStart", "audioInit", "createDecoder",
                 "audioStart", "started", "videoFailed", "audioFailed", "connected",
                 "audioStop", "audioCleanup", "videoStop", "videoCleanup", "return"}
    /\ pending \in BOOLEAN /\ crashed \in BOOLEAN
    /\ running \subseteq Native /\ attached \subseteq Native /\ tls \subseteq Native
    /\ video \in Phases /\ audio \in Phases
    /\ frame = None \/ frame \in Seq(Nat)
    /\ sound \in BOOLEAN /\ decoder \in BOOLEAN
    /\ playing \in BOOLEAN
    /\ unit \in Units \cup {None} /\ entry \in Nat /\ offset \in Nat
    /\ unit # None => entry \in 1 .. Len(unit) + 1
    /\ sent \in Seq(Buffers)
    /\ sessions \in 0 .. MaxSessions /\ units \in 0 .. MaxUnits

Init ==
    /\ java = "idle" /\ pending = FALSE /\ crashed = FALSE
    /\ running = {} /\ attached = {} /\ tls = {}
    /\ video = "down" /\ audio = "down"
    /\ frame = None /\ sound = FALSE /\ decoder = FALSE
    /\ playing = FALSE
    /\ unit = None /\ entry = 0 /\ offset = 0 /\ sent = <<>>
    /\ sessions = 0 /\ units = 0

-----------------------------------------------------------------------------
(***************************************************************************)
(* The environment of a thread.                                            *)
(***************************************************************************)

\* The same as it would be if the environment was not kept in JniEnvKey.
AttachOnly(t) ==
    /\ attached' = attached \cup {t}
    /\ UNCHANGED <<running, tls>>

\* GetThreadEnv() of a library thread.  The Java thread is known to the JVM, so
\* that GetEnv() succeeds and JniEnvKey, whose destructor detaches, is not set.
GetThreadEnv(t) ==
    /\ UNCHANGED running
    /\ IF t \in attached \cup tls THEN UNCHANGED <<attached, tls>>
       ELSE attached' = attached \cup {t} /\ tls' = tls \cup {t}

\* The thread ends, and DetachThread() runs if it has a value under the key.
DetachThread(t) ==
    /\ running' = running \ {t}
    /\ attached' = IF t \in tls THEN attached \ {t} ELSE attached
    /\ tls' = tls \ {t}

\* "We will crash here": a library thread that is detached with an exception
\* pending hands it to the handler of uncaught exceptions, which ends the process.
CrashHere == crashed' = TRUE

-----------------------------------------------------------------------------
(***************************************************************************)
(* The Java thread.                                                        *)
(***************************************************************************)

\* Unchanged by what the Java thread calls.
OthersSame == UNCHANGED <<crashed, attached, tls, unitVars, sessions>>

\* What Java does may throw, and an exception stays pending: only setup() and
\* init() look for one, and nothing clears it.
MayThrow == pending' \in BOOLEAN /\ (pending => pending')

\* The phase after a method of a renderer was called.  What a call does while an
\* exception is pending is not defined: the method may be run, or not.
Called(phase, after) == IF pending THEN {phase, after} ELSE {after}

StartConnection ==
    /\ java = "idle" /\ sessions < MaxSessions
    /\ java' = "videoSetup"
    /\ running' = {"control"}
    /\ sessions' = sessions + 1
    /\ units' = 0
    /\ UNCHANGED <<pending, crashed, attached, tls, video, audioVars, frame, unitVars>>

\* setup() succeeds, returns an error or throws; the exception stays pending:
\* "This is called on a Java thread, so it's safe to return".  Without memory for
\* the buffer there is no reference and an OutOfMemoryError is pending, but the
\* set-up succeeds.
BridgeDrSetup ==
    /\ java = "videoSetup"
    /\ \/ /\ java' = "videoStart"
          /\ video' = "up"
          /\ \/ frame' = [i \in 1 .. InitialLength |-> 0] /\ UNCHANGED pending
             \/ frame' = None /\ pending' = TRUE
       \/ /\ java' = "videoFailed"
          /\ MayThrow
          /\ UNCHANGED <<video, frame>>
    /\ UNCHANGED <<running, audioVars, units>> /\ OthersSame

\* The library starts its decode thread after start().
BridgeDrStart ==
    /\ java = "videoStart"
    /\ java' = "audioInit"
    /\ video' \in Called(video, "started") /\ MayThrow
    /\ running' = running \cup {"video"}
    /\ UNCHANGED <<audioVars, frame, units>> /\ OthersSame

\* bridgeArInit().  An exception that was pending before fails it as well,
\* whatever the renderer did.
BridgeArInit ==
    /\ java = "audioInit"
    /\ \/ ~pending /\ java' = "createDecoder" /\ audio' = "up" /\ UNCHANGED pending
       \/ /\ java' = "audioFailed"
          /\ audio' \in IF pending THEN {audio, "up"} ELSE {audio}
          /\ MayThrow
    /\ UNCHANGED <<running, video, sound, decoder, frame, units>> /\ OthersSame

\* The rest of it: without an Opus decoder the renderer that was just set up is
\* cleaned up again; without memory for the samples there is an exception.
CreateDecoder ==
    /\ java = "createDecoder"
    /\ java' = "audioStart" /\ decoder' = TRUE
    /\ \/ sound' = TRUE /\ UNCHANGED pending
       \/ sound' = FALSE /\ pending' = TRUE
    /\ UNCHANGED <<running, video, audio, frame, units>> /\ OthersSame

\* The same as it would be without the call of bridgeArCleanup().
LeaveSetUp ==
    /\ java = "createDecoder" /\ java' = "audioFailed"
    /\ UNCHANGED <<pending, running, video, audioVars, frame, units>> /\ OthersSame

NoDecoder ==
    /\ java = "createDecoder"
    /\ java' = "audioFailed"
    /\ audio' = "down" /\ MayThrow
    /\ UNCHANGED <<running, video, sound, decoder, frame, units>> /\ OthersSame

BridgeArStart ==
    /\ java = "audioStart"
    /\ java' = "started"
    /\ audio' \in Called(audio, "started") /\ MayThrow
    /\ running' = running \cup {"audio"}
    /\ UNCHANGED <<video, sound, decoder, frame, units>> /\ OthersSame

\* LiStartConnection() returns.  startConnection() lets a pending exception go on
\* in Java, where the start thread has no handler for it.
BridgeClConnectionStarted ==
    /\ java = "started"
    /\ java' = "connected"
    /\ MayThrow /\ crashed' = pending'
    /\ UNCHANGED <<envVars, video, audioVars, frame, unitVars, sessions, units>>

\* The library reports the failure, and undoes what it did.
BridgeClStageFailed ==
    /\ \/ java = "videoFailed" /\ java' = "return"
       \/ java = "audioFailed" /\ java' = "videoStop"
    /\ MayThrow
    /\ UNCHANGED <<running, video, audioVars, frame, units>> /\ OthersSame

StopConnection ==
    /\ java = "connected"
    /\ java' = "audioStop"
    /\ UNCHANGED <<pending, running, video, audioVars, frame, units>> /\ OthersSame

BridgeArStop ==
    /\ java = "audioStop"
    /\ java' = "audioCleanup"
    /\ audio' \in Called(audio, "stopped") /\ MayThrow
    /\ UNCHANGED <<running, video, sound, decoder, frame, units>> /\ OthersSame

BridgeArCleanup ==
    /\ java = "audioCleanup" /\ "audio" \notin running
    /\ java' = "videoStop"
    /\ decoder' = FALSE /\ sound' = FALSE
    /\ audio' \in Called(audio, "down") /\ MayThrow
    /\ UNCHANGED <<running, video, frame, units>> /\ OthersSame

BridgeDrStop ==
    /\ java = "videoStop"
    /\ java' = "videoCleanup"
    /\ video' \in Called(video, "stopped") /\ MayThrow
    /\ UNCHANGED <<running, audioVars, frame, units>> /\ OthersSame

\* The cleanup as it would be without DeleteGlobalRef().
KeepFrameBuffer ==
    /\ java = "videoCleanup" /\ "video" \notin running
    /\ java' = "return"
    /\ video' = "down"
    /\ UNCHANGED <<pending, running, audioVars, frame, units>> /\ OthersSame

BridgeDrCleanup ==
    /\ java = "videoCleanup" /\ "video" \notin running
    /\ java' = "return"
    /\ frame' = None
    /\ video' \in Called(video, "down") /\ MayThrow
    /\ UNCHANGED <<running, audioVars, units>> /\ OthersSame

\* LiStartConnection() returns an error, or LiStopConnection() returns: a pending
\* exception goes on in the start or stop thread, which has no handler for it.
Return ==
    /\ java = "return" /\ running = {}
    /\ java' = "idle"
    /\ crashed' = pending
    /\ UNCHANGED <<pending, envVars, video, audioVars, frame, unitVars,
                   sessions, units>>

\* A call into Java with an exception pending: CheckJNI ends the process, other
\* builds go on, and nobody knows how (Called).
JavaCallIsNext == java \notin {"idle", "connected", "return"}

CheckJniAborts ==
    /\ pending /\ JavaCallIsNext
    /\ CrashHere
    /\ UNCHANGED <<java, pending, envVars, video, audioVars, frame, unitVars,
                   sessions, units>>

-----------------------------------------------------------------------------
(***************************************************************************)
(* The threads of the library.                                             *)
(***************************************************************************)

\* BridgeClRumble() and the other messages, of which an exception is checked.
BridgeCl ==
    /\ "control" \in running
    /\ GetThreadEnv("control")
    /\ crashed' \in BOOLEAN
    /\ UNCHANGED <<java, pending, video, audioVars, frame, unitVars, sessions, units>>

\* BridgeArDecodeAndPlaySample(): what cannot be decoded is not played.
DecodeSample ==
    /\ "audio" \in running /\ ~playing /\ sound
    /\ GetThreadEnv("audio")
    /\ playing' \in BOOLEAN
    /\ UNCHANGED <<java, pending, crashed, video, audioVars, frame, unit, entry,
                   offset, sent, sessions, units>>

PlaySample ==
    /\ playing
    /\ playing' = FALSE
    /\ crashed' \in BOOLEAN
    /\ UNCHANGED <<java, pending, envVars, video, audioVars, frame, unit, entry,
                   offset, sent, sessions, units>>

\* "Increase the size of our frame data buffer if our frame won't fit".
Grown(u) ==
    IF Len(frame) < FullLength(u) THEN [i \in 1 .. FullLength(u) |-> 0] ELSE frame

BeginUnit ==
    /\ "video" \in running /\ unit = None /\ units < MaxUnits /\ frame # None
    /\ GetThreadEnv("video")
    /\ \E u \in Units :
          /\ unit' = u
          /\ frame' = Grown(u)
    /\ entry' = 1 /\ offset' = 0 /\ sent' = <<>>
    /\ units' = units + 1
    /\ UNCHANGED <<java, pending, crashed, video, audioVars, playing, sessions>>

\* There is no array, because there was no memory for it at the set-up or there is
\* none for a longer one: the next JNI call with it ends the process.
NoArray ==
    /\ \/ /\ "video" \in running /\ unit = None /\ units < MaxUnits
          /\ ~\A u \in Units : frame # None /\ FullLength(u) <= Len(frame)
       \/ "audio" \in running /\ ~playing /\ ~sound
    /\ CrashHere
    /\ UNCHANGED <<java, pending, envVars, video, audioVars, frame, unitVars,
                   sessions, units>>

\* SetByteArrayRegion(), which throws if the region is not in the array.
Overwritten(start, bytes) ==
    [i \in DOMAIN frame |->
        IF i \in start + 1 .. start + Len(bytes) THEN bytes[i - start] ELSE frame[i]]

\* The first n bytes of a buffer, as far as there are so many.
First(buffer, n) == IF n <= Len(buffer) THEN SubSeq(buffer, 1, n) ELSE buffer

\* The call of bridgeDrSubmitDecodeUnit() with the first n bytes of the buffer.
\* It returns DR_OK, or anything else, which ends the unit, or throws.
Submit(param, buffer, n) ==
    sent' = Append(sent, [param |-> param, bytes |-> First(buffer, n)])

EndUnit == unit' = None /\ entry' = 0 /\ offset' = 0

SubmitParameterSet ==
    /\ unit # None /\ entry <= Len(unit) /\ unit[entry].param
    /\ LET bytes == unit[entry].bytes IN
          /\ frame' = Overwritten(0, bytes)
          /\ Submit(TRUE, frame', Len(bytes))
    /\ \/ entry' = entry + 1 /\ UNCHANGED <<crashed, unit, offset>>
       \/ EndUnit /\ crashed' \in BOOLEAN
    /\ UNCHANGED <<java, pending, envVars, video, audioVars, playing, sessions, units>>

\* The copy as it would be if each piece was put at the start.
CopyToStart ==
    /\ unit # None /\ entry <= Len(unit) /\ ~unit[entry].param
    /\ frame' = Overwritten(0, unit[entry].bytes)
    /\ offset' = offset + Len(unit[entry].bytes)
    /\ entry' = entry + 1
    /\ UNCHANGED <<java, pending, crashed, envVars, video, audioVars, playing, unit,
                   sent, sessions, units>>

CopyPicture ==
    /\ unit # None /\ entry <= Len(unit) /\ ~unit[entry].param
    /\ frame' = Overwritten(offset, unit[entry].bytes)
    /\ offset' = offset + Len(unit[entry].bytes)
    /\ entry' = entry + 1
    /\ UNCHANGED <<java, pending, crashed, envVars, video, audioVars, playing, unit,
                   sent, sessions, units>>

SubmitPicture ==
    /\ unit # None /\ entry > Len(unit)
    /\ Submit(FALSE, frame, offset)
    /\ EndUnit
    /\ crashed' \in BOOLEAN
    /\ UNCHANGED <<java, pending, envVars, video, audioVars, playing, frame, sessions,
                   units>>

\* A library thread ends when the library told it to.
ThreadEnds(t) ==
    /\ t \in running
    /\ CASE t = "video" -> java = "videoCleanup" /\ unit = None
         [] t = "audio" -> java = "audioCleanup" /\ ~playing
         [] t = "control" -> java = "return"
    /\ DetachThread(t)
    /\ UNCHANGED <<java, pending, crashed, video, audioVars, frame, unitVars,
                   sessions, units>>

-----------------------------------------------------------------------------
JavaStep ==
    \/ StartConnection \/ BridgeDrSetup \/ BridgeDrStart \/ BridgeArInit
    \/ CreateDecoder \/ NoDecoder
    \/ BridgeArStart \/ BridgeClConnectionStarted \/ BridgeClStageFailed \/ StopConnection \/ BridgeArStop
    \/ BridgeArCleanup \/ BridgeDrStop \/ BridgeDrCleanup \/ Return \/ CheckJniAborts

NativeStep ==
    \/ BridgeCl \/ DecodeSample \/ PlaySample \/ NoArray
    \/ BeginUnit \/ SubmitParameterSet \/ CopyPicture \/ SubmitPicture
    \/ \E t \in Native : ThreadEnds(t)

Next == ~crashed /\ (JavaStep \/ NativeStep)

Spec == Init /\ [][Next]_vars

-----------------------------------------------------------------------------
(***************************************************************************)
(* Correctness.                                                            *)
(***************************************************************************)

\* Over all the ways a connection fails or ends, the native resources are there
\* exactly while the Java renderer they belong to is: nothing leaks into the
\* next connection, nothing is deleted that a call may still use.  With an exception
\* pending the connection ends with the process, and until then at least no call is
\* in what is deleted.
ResourcesFollowRenderers ==
    /\ TypeOK
    /\ ~pending => /\ frame # None <=> video # "down"
                   /\ decoder = (audio # "down" /\ java # "createDecoder")
                   /\ sound = decoder
    /\ (unit # None => frame # None) /\ (playing => sound /\ decoder)

\* An environment under JniEnvKey is one of a thread that runs and that the JVM
\* knows, and no thread that ended is still known to it.
EnvironmentsAreLive == ~crashed => tls = attached /\ attached \subseteq running

\* The bytes of the pieces, one piece behind the other.
AreJoined(bytes, pieces) ==
    \E c \in Offsets(pieces, Len(bytes)) :
        \A i \in 1 .. Len(pieces) : \A j \in 1 .. Len(pieces[i].bytes) :
            bytes[c[i] + j] = pieces[i].bytes[j]

\* What Java may have been called with for a unit: its parameter sets in their
\* order, each by itself, and then all of its picture in one piece.
AreCallsFor(u, calls) == \A i \in 1 .. Len(calls) :
    IF calls[i].param THEN i <= Len(u) /\ calls[i] = u[i]
    ELSE /\ i = Len(calls)
         /\ \A j \in i .. Len(u) : ~u[j].param
         /\ AreJoined(calls[i].bytes, SubSeq(u, i, Len(u)))

\* Whatever was in the buffer, a unit fits into it, and Java gets the buffers of
\* the unit unchanged and in order, and the picture after them.
UnitArrives ==
    /\ [](unit # None => offset <= Len(frame))
    /\ [][ unit # None /\ sent' # sent => AreCallsFor(unit, sent') ]_vars

\* Each renderer is called as it may expect, whatever returns an error, whether
\* there is an Opus decoder and however the connection ends, until an exception is
\* left pending on the Java thread: then no more is promised to it.
Promised(phase) == IF pending THEN "void" ELSE phase
VideoContract == INSTANCE RendererContract WITH UndoneAtOnce <- FALSE,
    connection <- java # "idle", phase <- Promised(video), handed <- unit # None /\ ~pending
AudioContract == INSTANCE RendererContract WITH UndoneAtOnce <- TRUE,
    connection <- java # "idle", phase <- Promised(audio), handed <- playing /\ ~pending
RenderersAreCalledInOrder == VideoContract!Spec /\ AudioContract!Spec

\* "This is called on a Java thread, so it's safe to return" (callbacks.c:103 and
\* :199): no call into Java is made while an exception is pending.  The code does
\* not keep this: what the library undoes is called with it.
SafeToReturn == pending => ~JavaCallIsNext
=============================================================================
