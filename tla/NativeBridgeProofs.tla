-------------------------- MODULE NativeBridgeProofs --------------------------
(***************************************************************************)
(* NativeBridge for any units and any number of connections: the native    *)
(* resources and thread attachments follow what they serve, and both       *)
(* renderers see the calls of RendererContract.                            *)
(***************************************************************************)
EXTENDS NativeBridge, TLAPS

\* Where the Java thread may be while there is a frame buffer, while the library's
\* threads may run, and while there is a decoder.
WithVideo == {"audioInit", "createDecoder", "audioStart", "started", "audioFailed", "connected",
              "audioStop", "audioCleanup", "videoStop", "videoCleanup"}
WithAudio == {"started", "connected", "audioStop", "audioCleanup"}
WithFrame == WithVideo \cup {"videoStart"}
WithDecoder == WithAudio \cup {"audioStart"}

\* Which phase each renderer is in, by where the Java thread is.
PhaseInv == ~pending =>
    /\ java \in {"idle", "videoSetup", "videoFailed", "return"} => video = "down"
    /\ java = "videoStart" => video = "up"
    /\ java \in WithVideo \ {"videoCleanup"} => video = "started"
    /\ java = "videoCleanup" => video = "stopped"
    /\ java \notin WithDecoder \cup {"createDecoder"} => audio = "down"
    /\ java \in {"createDecoder", "audioStart"} => audio = "up"
    /\ java \in {"started", "connected", "audioStop"} => audio = "started"
    /\ java = "audioCleanup" => audio = "stopped"

\* A library thread runs only between the start and the clean-up of its renderer,
\* and only a running one is inside a call; an exception is only pending on a Java
\* thread that is in the library.
RunningInv ==
    /\ java = "idle" => running = {} /\ (pending => crashed)
    /\ "video" \in running => java \in WithVideo
    /\ "audio" \in running => java \in WithAudio
    /\ java = "createDecoder" => ~pending
    /\ unit # None => "video" \in running /\ frame # None
    /\ playing => "audio" \in running /\ sound

\* The native resources follow the Java thread, and only an exception tells that
\* there was no memory for one of them.
ResourceInv ==
    /\ frame # None => java \in WithFrame
    /\ java \in WithFrame /\ frame = None => pending
    /\ decoder <=> java \in WithDecoder
    /\ sound => decoder
    /\ decoder /\ ~sound => pending

\* Those that have a value under the key are those the JVM knows.
AttachInv == tls = attached /\ attached \subseteq running

IInv == TypeOK /\ PhaseInv /\ RunningInv /\ ResourceInv /\ AttachInv

\* The unit that is under way, wherever its buffers lie: the first n were parameter
\* sets and Java has them; those from n + 1 on that were copied are pieces of the
\* picture and lie at the start of the frame buffer, one behind the other.
UnitInv == unit # None => \A c \in Offsets(unit, FullLength(unit)) :
    LET n == Len(sent) IN
    /\ n < entry
    /\ \A i \in 1 .. n : sent[i] = unit[i] /\ unit[i].param
    /\ \A i \in n + 1 .. entry - 1 : ~unit[i].param
    /\ c[n + 1] + offset = c[entry]
    /\ FullLength(unit) <= Len(frame)
    /\ \A i \in n + 1 .. entry - 1 : c[n + 1] <= c[i] /\ c[i + 1] <= c[entry]
    /\ \A i \in n + 1 .. entry - 1 : \A j \in 1 .. Len(unit[i].bytes) :
          frame[(c[i] - c[n + 1]) + j] = unit[i].bytes[j]

USE DEF Native, Phases, envVars, audioVars, unitVars, OthersSame, MayThrow, Called,
        WithVideo, WithAudio, WithFrame, WithDecoder

-----------------------------------------------------------------------------
(***************************************************************************)
(* The bytes.                                                              *)
(***************************************************************************)

\* A buffer of zeros is a buffer.
LEMMA ZerosType ==
    ASSUME NEW n \in Nat
    PROVE  [i \in 1 .. n |-> 0] \in Seq(Nat) /\ [i \in 1 .. n |-> 0] # None
<1>1. [i \in 1 .. n |-> 0] \in Seq(Nat)
  OBVIOUS
<1> QED
  BY <1>1, NoneAssumption

\* Bytes that are written over a buffer leave a buffer, of the same length.
LEMMA OverwrittenType ==
    ASSUME frame \in Seq(Nat), NEW start \in Nat, NEW bytes \in Seq(Nat)
    PROVE  Overwritten(start, bytes) \in Seq(Nat) /\ Overwritten(start, bytes) # None
<1>1. \A i \in DOMAIN frame : i \in start + 1 .. start + Len(bytes) => bytes[i - start] \in Nat
  OBVIOUS
<1>2. Overwritten(start, bytes) \in [1 .. Len(frame) -> Nat]
  BY <1>1 DEF Overwritten
<1>3. [1 .. Len(frame) -> Nat] \subseteq Seq(Nat)
  OBVIOUS
<1> QED
  BY <1>2, <1>3, NoneAssumption

\* So is the part of a buffer that Java is called with.
LEMMA FirstType ==
    ASSUME NEW buffer \in Seq(Nat), NEW n \in Nat
    PROVE  First(buffer, n) \in Seq(Nat)
BY DEF First

\* The entry that SubmitParameterSet or CopyPicture works on is one of the unit.
LEMMA EntryType ==
    ASSUME TypeOK, unit # None, entry <= Len(unit)
    PROVE  unit \in Units /\ unit \in Seq(Buffers) /\ entry \in 1 .. Len(unit)
           /\ unit[entry].param \in BOOLEAN /\ unit[entry].bytes \in Seq(Nat)
<1>1. unit \in Units /\ unit \in Seq(Buffers) /\ entry \in 1 .. Len(unit)
  BY UnitsAssumption DEF TypeOK
<1>2. unit[entry] \in Buffers
  BY <1>1
<1> QED
  BY <1>1, <1>2 DEF Buffers

-----------------------------------------------------------------------------
\* Before the first connection nothing runs and nothing is allocated.
LEMMA InitIInv == Init => IInv
<1> SUFFICES ASSUME Init PROVE IInv
  OBVIOUS
<1>1. TypeOK
  <2>1. sessions \in 0 .. MaxSessions /\ units \in 0 .. MaxUnits
    BY BoundsAssumption DEF Init
  <2>2. sent \in Seq(Buffers)
    <3>1. \A S : <<>> \in Seq(S)
      OBVIOUS
    <3> QED
      BY <3>1 DEF Init
  <2> QED
    BY <2>1, <2>2 DEF Init, TypeOK
<1>2. PhaseInv /\ RunningInv /\ ResourceInv /\ AttachInv
  BY DEF Init, PhaseInv, RunningInv, ResourceInv, AttachInv
<1> QED
  BY <1>1, <1>2 DEF IInv

\* The Java thread keeps the types.
LEMMA JavaTypeOK == ASSUME IInv, JavaStep PROVE TypeOK'
<1> USE DEF IInv, TypeOK
<1>1. CASE StartConnection
  BY <1>1, BoundsAssumption DEF StartConnection
<1>2. CASE BridgeDrSetup
  BY <1>2, ZerosType, BoundsAssumption DEF BridgeDrSetup
<1>3. CASE BridgeDrStart
  BY <1>3 DEF BridgeDrStart
<1>4. CASE BridgeArInit
  BY <1>4 DEF BridgeArInit
<1>5. CASE BridgeArStart
  BY <1>5 DEF BridgeArStart
<1>6. CASE BridgeClStageFailed
  BY <1>6 DEF BridgeClStageFailed
<1>7. CASE StopConnection
  BY <1>7 DEF StopConnection
<1>8. CASE BridgeArStop
  BY <1>8 DEF BridgeArStop
<1>9. CASE BridgeArCleanup
  BY <1>9 DEF BridgeArCleanup
<1>10. CASE BridgeDrStop
  BY <1>10 DEF BridgeDrStop
<1>11. CASE BridgeDrCleanup
  BY <1>11 DEF BridgeDrCleanup
<1>12. CASE Return
  BY <1>12 DEF Return
<1>13. CASE CheckJniAborts
  BY <1>13 DEF CheckJniAborts, CrashHere
<1>14. CASE CreateDecoder
  BY <1>14 DEF CreateDecoder
<1>15. CASE NoDecoder
  BY <1>15 DEF NoDecoder
<1>16. CASE BridgeClConnectionStarted
  BY <1>16 DEF BridgeClConnectionStarted
<1> QED
  BY <1>1, <1>2, <1>3, <1>4, <1>5, <1>6, <1>7, <1>8, <1>9, <1>10, <1>11, <1>12, <1>13,
     <1>14, <1>15, <1>16
     DEF JavaStep

\* And its phases, the threads it waits for, the resources and attachments.
LEMMA JavaInv == ASSUME IInv, JavaStep PROVE PhaseInv' /\ RunningInv' /\ ResourceInv' /\ AttachInv'
<1> USE NoneAssumption DEF IInv, TypeOK, PhaseInv, RunningInv, ResourceInv, AttachInv
<1>1. CASE StartConnection
  BY <1>1 DEF StartConnection
<1>2. CASE BridgeDrSetup
  BY <1>2, ZerosType, BoundsAssumption DEF BridgeDrSetup
<1>3. CASE BridgeDrStart
  BY <1>3 DEF BridgeDrStart
<1>4. CASE BridgeArInit
  BY <1>4 DEF BridgeArInit
<1>5. CASE BridgeArStart
  BY <1>5 DEF BridgeArStart
<1>6. CASE BridgeClStageFailed
  BY <1>6 DEF BridgeClStageFailed
<1>7. CASE StopConnection
  BY <1>7 DEF StopConnection
<1>8. CASE BridgeArStop
  BY <1>8 DEF BridgeArStop
<1>9. CASE BridgeArCleanup
  BY <1>9 DEF BridgeArCleanup
<1>10. CASE BridgeDrStop
  BY <1>10 DEF BridgeDrStop
<1>11. CASE BridgeDrCleanup
  BY <1>11 DEF BridgeDrCleanup
<1>12. CASE Return
  BY <1>12 DEF Return
<1>13. CASE CheckJniAborts
  BY <1>13 DEF CheckJniAborts, CrashHere
<1>14. CASE CreateDecoder
  BY <1>14 DEF CreateDecoder
<1>15. CASE NoDecoder
  BY <1>15 DEF NoDecoder
<1>16. CASE BridgeClConnectionStarted
  BY <1>16 DEF BridgeClConnectionStarted
<1> QED
  BY <1>1, <1>2, <1>3, <1>4, <1>5, <1>6, <1>7, <1>8, <1>9, <1>10, <1>11, <1>12, <1>13,
     <1>14, <1>15, <1>16
     DEF JavaStep

\* The attachment of a thread that runs.
LEMMA EnvType ==
    ASSUME IInv, NEW t \in running, GetThreadEnv(t)
    PROVE  AttachInv' /\ running' = running /\ attached' \subseteq Native /\ tls' \subseteq Native
BY DEF IInv, TypeOK, AttachInv, GetThreadEnv

\* The threads of the library keep all of it.
LEMMA NativeInv == ASSUME IInv, NativeStep PROVE IInv'
<1> USE NoneAssumption DEF IInv, TypeOK, PhaseInv, RunningInv, ResourceInv
<1>1. CASE BridgeCl
  <2>1. AttachInv' /\ running' = running /\ attached' \subseteq Native /\ tls' \subseteq Native
    BY <1>1, EnvType DEF BridgeCl
  <2>2. TypeOK'
    BY <1>1, <2>1 DEF BridgeCl
  <2>3. PhaseInv' /\ ResourceInv' /\ RunningInv'
    BY <1>1, <2>1 DEF BridgeCl
  <2> QED
    BY <2>1, <2>2, <2>3
<1>2. CASE DecodeSample
  BY <1>2, EnvType DEF DecodeSample
<1>3. CASE PlaySample
  BY <1>3 DEF PlaySample, AttachInv
<1>4. CASE BeginUnit
  <2>1. PICK u \in Units : unit' = u /\ frame' = Grown(u)
    BY <1>4 DEF BeginUnit
  <2>2. u \in Seq(Buffers) /\ u # None
    BY UnitsAssumption
  <2>3. frame \in Seq(Nat) /\ frame # None
    BY <1>4 DEF BeginUnit
  <2>4. frame' \in Seq(Nat) /\ frame' # None
    BY <2>1, <2>3, ZerosType, FullLengthAssumption DEF Grown
  <2>5. units' \in 0 .. MaxUnits
    BY <1>4, BoundsAssumption DEF BeginUnit
  <2>6. entry' \in 1 .. Len(unit') + 1 /\ offset' \in Nat /\ entry' \in Nat /\ sent' \in Seq(Buffers)
    BY <1>4, <2>1, <2>2 DEF BeginUnit
  <2>7. AttachInv' /\ running' = running /\ attached' \subseteq Native /\ tls' \subseteq Native
    BY <1>4, EnvType DEF BeginUnit
  <2>8. TypeOK'
    BY <1>4, <2>1, <2>4, <2>5, <2>6, <2>7 DEF BeginUnit
  <2>9. PhaseInv' /\ RunningInv' /\ ResourceInv'
    BY <1>4, <2>1, <2>2, <2>3, <2>4, <2>7 DEF BeginUnit
  <2> QED
    BY <2>7, <2>8, <2>9
<1>5. CASE SubmitParameterSet
  <2>1. unit[entry].bytes \in Seq(Nat) /\ unit \in Seq(Buffers) /\ entry \in 1 .. Len(unit)
    BY <1>5, EntryType DEF SubmitParameterSet
  <2>2. frame \in Seq(Nat)
    BY <1>5 DEF SubmitParameterSet
  <2>3. frame' \in Seq(Nat) /\ frame' # None
    BY <1>5, <2>1, <2>2, OverwrittenType DEF SubmitParameterSet
  <2>4. sent' \in Seq(Buffers)
    <3>1. Len(unit[entry].bytes) \in Nat
      BY <2>1
    <3>2. First(frame', Len(unit[entry].bytes)) \in Seq(Nat)
      BY <2>3, <3>1, FirstType
    <3> QED
      BY <1>5, <3>2 DEF SubmitParameterSet, Submit, Buffers
  <2>5. CASE EndUnit
    BY <1>5, <2>3, <2>4, <2>5 DEF SubmitParameterSet, EndUnit, AttachInv
  <2>6. CASE entry' = entry + 1 /\ UNCHANGED <<crashed, unit, offset>>
    BY <1>5, <2>1, <2>3, <2>4, <2>6 DEF SubmitParameterSet, AttachInv
  <2> QED
    BY <1>5, <2>5, <2>6 DEF SubmitParameterSet
<1>6. CASE CopyPicture
  <2>1. unit[entry].bytes \in Seq(Nat) /\ unit \in Seq(Buffers) /\ entry \in 1 .. Len(unit)
    BY <1>6, EntryType DEF CopyPicture
  <2>2. frame \in Seq(Nat)
    BY <1>6 DEF CopyPicture
  <2>3. frame' \in Seq(Nat) /\ frame' # None
    BY <1>6, <2>1, <2>2, OverwrittenType DEF CopyPicture
  <2> QED
    BY <1>6, <2>1, <2>3 DEF CopyPicture, AttachInv
<1>7. CASE SubmitPicture
  <2>1. First(frame, offset) \in Seq(Nat)
    BY <1>7, FirstType DEF SubmitPicture
  <2>2. sent' \in Seq(Buffers)
    BY <1>7, <2>1 DEF SubmitPicture, Submit, Buffers
  <2> QED
    BY <1>7, <2>2 DEF SubmitPicture, EndUnit, AttachInv
<1>8. ASSUME NEW t \in Native, ThreadEnds(t) PROVE IInv'
  <2>1. TypeOK' /\ AttachInv'
    BY <1>8 DEF ThreadEnds, DetachThread, AttachInv
  <2>2. PhaseInv' /\ ResourceInv'
    BY <1>8 DEF ThreadEnds
  <2>3. RunningInv'
    <3>1. running' = running \ {t} /\ UNCHANGED <<java, pending, crashed, unit, frame, playing, sound>>
      BY <1>8 DEF ThreadEnds, DetachThread
    <3>2. t = "video" => unit = None
      BY <1>8 DEF ThreadEnds
    <3>3. t = "audio" => ~playing
      BY <1>8 DEF ThreadEnds
    <3> QED
      BY <3>1, <3>2, <3>3
  <2> QED
    BY <2>1, <2>2, <2>3
<1>9. CASE NoArray
  BY <1>9 DEF NoArray, CrashHere, AttachInv
<1> QED
  BY <1>1, <1>2, <1>3, <1>4, <1>5, <1>6, <1>7, <1>8, <1>9 DEF NativeStep

\* Every step of the Java thread and of the library's keeps the invariant.
LEMMA NextIInv == IInv /\ [Next]_vars => IInv'
<1> SUFFICES ASSUME IInv, [Next]_vars PROVE IInv'
  OBVIOUS
<1>1. CASE JavaStep
  BY <1>1, JavaTypeOK, JavaInv DEF IInv
<1>2. CASE NativeStep
  BY <1>2, NativeInv
<1>3. CASE UNCHANGED vars
  BY <1>3 DEF vars, IInv, TypeOK, PhaseInv, RunningInv, ResourceInv, AttachInv
<1> QED
  BY <1>1, <1>2, <1>3 DEF Next

-----------------------------------------------------------------------------
(***************************************************************************)
(* The refinement of RendererContract.                                     *)
(***************************************************************************)

\* What a renderer sees of the steps of the Java thread.
LEMMA JavaContract ==
    ASSUME IInv, ~crashed, JavaStep
    PROVE  /\ VideoContract!Next \/ UNCHANGED VideoContract!vars
           /\ AudioContract!Next \/ UNCHANGED AudioContract!vars
<1> USE NoneAssumption DEF IInv, TypeOK, PhaseInv, RunningInv,
        Promised, VideoContract!vars, AudioContract!vars, VideoContract!Void, AudioContract!Void,
        VideoContract!Next, VideoContract!Begin, VideoContract!End, VideoContract!SetUp,
        VideoContract!Start, VideoContract!Stop, VideoContract!CleanUp, VideoContract!Call,
        AudioContract!Next, AudioContract!Begin, AudioContract!End, AudioContract!SetUp,
        AudioContract!Start, AudioContract!Stop, AudioContract!CleanUp, AudioContract!Call
<1>1. CASE StartConnection
  BY <1>1 DEF StartConnection
<1>2. CASE BridgeDrSetup
  BY <1>2 DEF BridgeDrSetup
<1>3. CASE BridgeDrStart
  BY <1>3 DEF BridgeDrStart
<1>4. CASE BridgeArInit
  BY <1>4 DEF BridgeArInit
<1>5. CASE BridgeArStart
  BY <1>5 DEF BridgeArStart
<1>6. CASE BridgeClStageFailed
  BY <1>6 DEF BridgeClStageFailed
<1>7. CASE StopConnection
  BY <1>7 DEF StopConnection
<1>8. CASE BridgeArStop
  BY <1>8 DEF BridgeArStop
<1>9. CASE BridgeArCleanup
  BY <1>9 DEF BridgeArCleanup
<1>10. CASE BridgeDrStop
  BY <1>10 DEF BridgeDrStop
<1>11. CASE BridgeDrCleanup
  BY <1>11 DEF BridgeDrCleanup
<1>12. CASE Return
  BY <1>12 DEF Return
<1>13. CASE CheckJniAborts
  BY <1>13 DEF CheckJniAborts
<1>14. CASE CreateDecoder
  BY <1>14 DEF CreateDecoder
<1>15. CASE NoDecoder
  BY <1>15 DEF NoDecoder
<1>16. CASE BridgeClConnectionStarted
  BY <1>16 DEF BridgeClConnectionStarted
<1> QED
  BY <1>1, <1>2, <1>3, <1>4, <1>5, <1>6, <1>7, <1>8, <1>9, <1>10, <1>11, <1>12, <1>13,
     <1>14, <1>15, <1>16
     DEF JavaStep

\* And of the steps of the library's threads: data that is handed over.
LEMMA NativeContract ==
    ASSUME IInv, NativeStep
    PROVE  /\ VideoContract!Next \/ UNCHANGED VideoContract!vars
           /\ AudioContract!Next \/ UNCHANGED AudioContract!vars
<1> USE NoneAssumption, UnitsAssumption DEF IInv, TypeOK, RunningInv,
        PhaseInv, Promised, VideoContract!vars, AudioContract!vars,
        VideoContract!Next, VideoContract!HandOver, AudioContract!Next, AudioContract!HandOver
<1>1. CASE BridgeCl
  BY <1>1 DEF BridgeCl
<1>2. CASE DecodeSample
  BY <1>2 DEF DecodeSample
<1>3. CASE PlaySample
  BY <1>3 DEF PlaySample
<1>4. CASE BeginUnit
  BY <1>4 DEF BeginUnit
<1>5. CASE SubmitParameterSet
  BY <1>5 DEF SubmitParameterSet, EndUnit
<1>6. CASE CopyPicture
  BY <1>6 DEF CopyPicture
<1>7. CASE SubmitPicture
  BY <1>7 DEF SubmitPicture, EndUnit
<1>8. ASSUME NEW t \in Native, ThreadEnds(t)
      PROVE  UNCHANGED <<java, pending, video, unit, audio, playing>>
  BY <1>8 DEF ThreadEnds
<1>9. CASE NoArray
  BY <1>9 DEF NoArray
<1> QED
  BY <1>1, <1>2, <1>3, <1>4, <1>5, <1>6, <1>7, <1>8, <1>9 DEF NativeStep

\* A renderer sees each step as one of its contract, or not at all.
LEMMA NextContract ==
    ASSUME IInv, [Next]_vars
    PROVE  /\ [VideoContract!Next]_(VideoContract!vars)
           /\ [AudioContract!Next]_(AudioContract!vars)
<1>1. CASE ~crashed /\ (JavaStep \/ NativeStep)
  BY <1>1, JavaContract, NativeContract
<1>2. CASE UNCHANGED vars
  BY <1>2 DEF vars, VideoContract!vars, AudioContract!vars, Promised
<1> QED
  BY <1>1, <1>2 DEF Next

-----------------------------------------------------------------------------
(***************************************************************************)
(* A unit on its way to Java.                                              *)
(***************************************************************************)

\* The offsets are bytes of the frame, and one buffer begins where the last ends.
LEMMA OffsetsType ==
    ASSUME NEW u \in Seq(Buffers), NEW n \in Nat, NEW c \in Offsets(u, n)
    PROVE  /\ c[1] = 0 /\ c[Len(u) + 1] = n
           /\ \A i \in 1 .. Len(u) + 1 : c[i] \in Nat /\ c[i] <= n
           /\ \A i \in 1 .. Len(u) : /\ u[i].param \in BOOLEAN /\ u[i].bytes \in Seq(Nat)
                                     /\ Len(u[i].bytes) \in Nat
                                     /\ c[i + 1] = c[i] + Len(u[i].bytes)
<1>1. /\ c \in [1 .. Len(u) + 1 -> 0 .. n] /\ c[1] = 0 /\ c[Len(u) + 1] = n
      /\ \A i \in 1 .. Len(u) : c[i + 1] = c[i] + Len(u[i].bytes)
  BY DEF Offsets
<1>2. \A i \in 1 .. Len(u) + 1 : c[i] \in Nat /\ c[i] <= n
  BY <1>1
<1>3. \A i \in 1 .. Len(u) : u[i] \in Buffers
  OBVIOUS
<1>4. \A i \in 1 .. Len(u) : u[i].param \in BOOLEAN /\ u[i].bytes \in Seq(Nat)
  BY <1>3 DEF Buffers
<1>5. \A i \in 1 .. Len(u) : Len(u[i].bytes) \in Nat
  BY <1>4
<1> QED
  BY <1>1, <1>2, <1>4, <1>5

\* Bytes that fit are found where they were written, and those before them stay.
LEMMA OverwrittenBytes ==
    ASSUME frame \in Seq(Nat), NEW start \in Nat, NEW bytes \in Seq(Nat),
           start + Len(bytes) <= Len(frame)
    PROVE  /\ Len(Overwritten(start, bytes)) = Len(frame)
           /\ \A j \in 1 .. Len(bytes) : Overwritten(start, bytes)[start + j] = bytes[j]
           /\ \A i \in 1 .. start : Overwritten(start, bytes)[i] = frame[i]
<1> DEFINE o == Overwritten(start, bytes)
<1>1. o = [i \in 1 .. Len(frame) |->
              IF i \in start + 1 .. start + Len(bytes) THEN bytes[i - start] ELSE frame[i]]
  BY DEF Overwritten
<1>2. o \in Seq(Nat) /\ Len(o) = Len(frame)
  <2>1. o \in Seq(Nat)
    BY OverwrittenType
  <2>2. DOMAIN o = 1 .. Len(frame)
    BY <1>1
  <2> HIDE DEF o
  <2> QED
    BY <2>1, <2>2
<1>3. \A j \in 1 .. Len(bytes) : o[start + j] = bytes[j]
  <2> SUFFICES ASSUME NEW j \in 1 .. Len(bytes) PROVE o[start + j] = bytes[j]
    OBVIOUS
  <2>1. start + j \in 1 .. Len(frame) /\ start + j \in start + 1 .. start + Len(bytes)
        /\ (start + j) - start = j
    OBVIOUS
  <2> HIDE DEF o
  <2> QED
    BY <1>1, <2>1
<1>4. \A i \in 1 .. start : o[i] = frame[i]
  <2> SUFFICES ASSUME NEW i \in 1 .. start PROVE o[i] = frame[i]
    OBVIOUS
  <2>1. i \in 1 .. Len(frame) /\ i \notin start + 1 .. start + Len(bytes)
    OBVIOUS
  <2> HIDE DEF o
  <2> QED
    BY <1>1, <2>1
<1> QED
  BY <1>2, <1>3, <1>4

\* Bytes that agree in their number and one by one are the same.
LEMMA SameBytes ==
    ASSUME NEW s \in Seq(Nat), NEW t \in Seq(Nat), Len(s) = Len(t),
           \A j \in 1 .. Len(t) : s[j] = t[j]
    PROVE  s = t
<1>1. s = [j \in 1 .. Len(s) |-> s[j]] /\ t = [j \in 1 .. Len(t) |-> t[j]]
  OBVIOUS
<1>2. [j \in 1 .. Len(s) |-> s[j]] = [j \in 1 .. Len(t) |-> t[j]]
  OBVIOUS
<1> QED
  BY <1>1, <1>2

\* The first bytes of a buffer that has so many.
LEMMA FirstBytes ==
    ASSUME NEW buffer \in Seq(Nat), NEW n \in Nat, n <= Len(buffer)
    PROVE  /\ First(buffer, n) \in Seq(Nat) /\ Len(First(buffer, n)) = n
           /\ \A j \in 1 .. n : First(buffer, n)[j] = buffer[j]
BY DEF First

\* A step that leaves the unit and its bytes alone.
LEMMA UnitQuiet ==
    ASSUME UnitInv, UNCHANGED <<unit, entry, offset, sent>>, frame' = frame \/ unit = None
    PROVE  UnitInv'
BY DEF UnitInv

\* The facts on a unit that is under way, and its next buffer.
LEMMA UnitFacts ==
    ASSUME IInv, UnitInv, unit # None, NEW c \in Offsets(unit, FullLength(unit))
    PROVE  /\ unit \in Seq(Buffers) /\ FullLength(unit) \in Nat /\ frame \in Seq(Nat)
           /\ entry \in 1 .. Len(unit) + 1 /\ offset \in Nat /\ sent \in Seq(Buffers)
           /\ Len(sent) \in Nat /\ Len(sent) < entry
           /\ c[Len(sent) + 1] + offset = c[entry]
           /\ c[Len(sent) + 1] \in Nat /\ c[entry] \in Nat
           /\ FullLength(unit) <= Len(frame) /\ c[entry] <= FullLength(unit)
<1>1. /\ unit \in Seq(Buffers) /\ FullLength(unit) \in Nat /\ unit \in Units
  BY UnitsAssumption, FullLengthAssumption DEF IInv, TypeOK
<1>2. frame \in Seq(Nat)
  BY NoneAssumption DEF IInv, TypeOK, RunningInv, ResourceInv
<1>3. entry \in 1 .. Len(unit) + 1 /\ offset \in Nat /\ sent \in Seq(Buffers)
  BY DEF IInv, TypeOK
<1>4. Len(sent) \in Nat
  BY <1>3
<1>5. /\ Len(sent) < entry /\ c[Len(sent) + 1] + offset = c[entry]
      /\ FullLength(unit) <= Len(frame)
  BY DEF UnitInv
<1>6. \A i \in 1 .. Len(unit) + 1 : c[i] \in Nat /\ c[i] <= FullLength(unit)
  BY <1>1, OffsetsType
<1>7. Len(sent) + 1 \in 1 .. Len(unit) + 1
  BY <1>1, <1>3, <1>4, <1>5
<1> QED
  BY <1>1, <1>2, <1>3, <1>4, <1>5, <1>6, <1>7

\* A unit fits into the buffer.
LEMMA UnitFits == IInv /\ UnitInv => (unit # None => offset <= Len(frame))
<1> SUFFICES ASSUME IInv, UnitInv, unit # None PROVE offset <= Len(frame)
  OBVIOUS
<1>1. PICK c : c \in Offsets(unit, FullLength(unit))
  BY FullLengthAssumption DEF IInv, TypeOK
<1> QED
  <2>1. /\ Len(sent) \in Nat /\ offset \in Nat /\ FullLength(unit) \in Nat /\ Len(frame) \in Nat
        /\ c[Len(sent) + 1] + offset = c[entry]
        /\ c[Len(sent) + 1] \in Nat /\ c[entry] \in Nat
        /\ FullLength(unit) <= Len(frame) /\ c[entry] <= FullLength(unit)
    BY <1>1, UnitFacts
  <2> QED
    BY <2>1

\* A new unit has no calls and no bytes yet, and fits.
LEMMA BeginUnitInv ==
    ASSUME IInv, BeginUnit
    PROVE  UnitInv'
<1>1. PICK u \in Units : unit' = u /\ frame' = Grown(u)
  BY DEF BeginUnit
<1>2. u \in Seq(Buffers) /\ FullLength(u) \in Nat
  BY UnitsAssumption, FullLengthAssumption
<1>3. frame \in Seq(Nat)
  BY NoneAssumption DEF BeginUnit, IInv, TypeOK, RunningInv, ResourceInv
<1>4. FullLength(u) <= Len(frame')
  BY <1>1, <1>2, <1>3 DEF Grown
<1>5. entry' = 1 /\ offset' = 0 /\ sent' = <<>>
  BY DEF BeginUnit
<1> SUFFICES ASSUME NEW c \in Offsets(u, FullLength(u))
             PROVE  /\ Len(sent') < entry'
                    /\ \A i \in 1 .. Len(sent') : sent'[i] = unit'[i] /\ unit'[i].param
                    /\ \A i \in Len(sent') + 1 .. entry' - 1 : ~unit'[i].param
                    /\ c[Len(sent') + 1] + offset' = c[entry']
                    /\ FullLength(unit') <= Len(frame')
                    /\ \A i \in Len(sent') + 1 .. entry' - 1 :
                          /\ c[Len(sent') + 1] <= c[i] /\ c[i + 1] <= c[entry']
                          /\ \A j \in 1 .. Len(unit'[i].bytes) :
                                frame'[(c[i] - c[Len(sent') + 1]) + j] = unit'[i].bytes[j]
  BY <1>1 DEF UnitInv
<1>6. c[1] = 0
  BY <1>2, OffsetsType
<1>7. Len(sent') = 0
  BY <1>5
<1>8. 1 .. Len(sent') = {} /\ Len(sent') + 1 .. entry' - 1 = {}
  BY <1>5, <1>7
<1> QED
  BY <1>1, <1>4, <1>5, <1>6, <1>7, <1>8

\* Nothing of the picture was copied when a parameter set comes.
LEMMA ParameterSetsFirst ==
    ASSUME IInv, UnitInv, unit # None, entry <= Len(unit), unit[entry].param,
           NEW c \in Offsets(unit, FullLength(unit))
    PROVE  Len(sent) = entry - 1 /\ offset = 0
<1>1. /\ unit \in Seq(Buffers) /\ entry \in 1 .. Len(unit) + 1 /\ offset \in Nat
      /\ Len(sent) \in Nat /\ Len(sent) < entry
      /\ c[Len(sent) + 1] + offset = c[entry] /\ c[entry] \in Nat
  BY UnitFacts
<1>2. unit \in Units
  BY DEF IInv, TypeOK
<1>3. ASSUME Len(sent) # entry - 1 PROVE FALSE
  <2>1. entry - 1 \in Len(sent) + 1 .. entry - 1 /\ entry - 1 \in 1 .. Len(unit)
        /\ entry \in 1 .. Len(unit) /\ entry - 1 < entry
    BY <1>1, <1>3
  <2>2. ~unit[entry - 1].param
    BY <2>1 DEF UnitInv
  <2>3. unit[entry - 1].param
    BY <1>2, <2>1, UnitsAssumption
  <2> QED
    BY <2>2, <2>3
<1> QED
  BY <1>1, <1>3

\* The call with a parameter set has its bytes.
LEMMA SubmitParameterSetCall ==
    ASSUME IInv, UnitInv, SubmitParameterSet
    PROVE  /\ sent' = Append(sent, unit[entry])
           /\ entry \in 1 .. Len(unit) /\ Len(sent) = entry - 1 /\ offset = 0
           /\ frame' \in Seq(Nat) /\ Len(frame') = Len(frame)
<1> DEFINE bytes == unit[entry].bytes
<1>1. /\ unit # None /\ entry <= Len(unit) /\ unit[entry].param
      /\ frame' = Overwritten(0, bytes)
      /\ sent' = Append(sent, [param |-> TRUE, bytes |-> First(frame', Len(bytes))])
  BY DEF SubmitParameterSet, Submit
<1>2. unit \in Units /\ unit \in Seq(Buffers) /\ entry \in 1 .. Len(unit) /\ bytes \in Seq(Nat)
  <2>1. TypeOK /\ unit # None /\ entry <= Len(unit)
    BY <1>1 DEF IInv
  <2> QED
    BY <2>1, EntryType
<1>3. PICK c : c \in Offsets(unit, FullLength(unit))
  BY <1>2, FullLengthAssumption
<1>4. Len(sent) = entry - 1 /\ offset = 0
  BY <1>1, <1>3, ParameterSetsFirst
<1>5. /\ frame \in Seq(Nat) /\ FullLength(unit) \in Nat /\ FullLength(unit) <= Len(frame)
  BY <1>1, <1>3, UnitFacts
<1>6. Len(bytes) \in Nat /\ Len(bytes) <= Len(frame)
  <2>1. /\ \A i \in 1 .. Len(unit) + 1 : c[i] \in Nat /\ c[i] <= FullLength(unit)
        /\ \A i \in 1 .. Len(unit) : c[i + 1] = c[i] + Len(unit[i].bytes)
    BY <1>2, <1>3, <1>5, OffsetsType
  <2>2. /\ c[entry] \in Nat /\ c[entry + 1] \in Nat /\ c[entry + 1] <= FullLength(unit)
        /\ c[entry + 1] = c[entry] + Len(bytes)
    BY <1>2, <2>1
  <2>3. Len(bytes) \in Nat /\ Len(frame) \in Nat
    BY <1>2, <1>5
  <2> HIDE DEF bytes
  <2> QED
    BY <1>5, <2>2, <2>3
<1> HIDE DEF bytes
<1>7. /\ frame' \in Seq(Nat) /\ Len(frame') = Len(frame)
      /\ \A j \in 1 .. Len(bytes) : frame'[0 + j] = bytes[j]
  BY <1>1, <1>2, <1>5, <1>6, OverwrittenBytes, OverwrittenType
<1>8. First(frame', Len(bytes)) = bytes
  <2>1. /\ First(frame', Len(bytes)) \in Seq(Nat) /\ Len(First(frame', Len(bytes))) = Len(bytes)
        /\ \A j \in 1 .. Len(bytes) : First(frame', Len(bytes))[j] = frame'[j]
    BY <1>6, <1>7, FirstBytes
  <2>2. \A j \in 1 .. Len(bytes) : First(frame', Len(bytes))[j] = bytes[j]
    BY <1>6, <1>7, <2>1
  <2> QED
    BY <1>2, <2>1, <2>2, SameBytes
<1>9. [param |-> TRUE, bytes |-> bytes] = unit[entry]
  <2>1. unit[entry] \in Buffers
    BY <1>2
  <2> QED
    BY <1>1, <2>1 DEF Buffers, bytes
<1> QED
  BY <1>1, <1>2, <1>4, <1>7, <1>8, <1>9

\* After a parameter set Java has one buffer of the unit more.
LEMMA SubmitParameterSetInv ==
    ASSUME IInv, UnitInv, SubmitParameterSet
    PROVE  UnitInv'
<1>1. /\ sent' = Append(sent, unit[entry]) /\ unit # None /\ unit[entry].param
      /\ entry \in 1 .. Len(unit) /\ Len(sent) = entry - 1 /\ offset = 0
      /\ Len(frame') = Len(frame)
  BY SubmitParameterSetCall DEF SubmitParameterSet
<1>2. CASE unit' = None
  BY <1>2 DEF UnitInv
<1>3. CASE entry' = entry + 1 /\ UNCHANGED <<unit, offset>>
  <2> SUFFICES ASSUME NEW c \in Offsets(unit, FullLength(unit))
               PROVE  /\ Len(sent') < entry'
                      /\ \A i \in 1 .. Len(sent') : sent'[i] = unit[i] /\ unit[i].param
                      /\ \A i \in Len(sent') + 1 .. entry' - 1 : ~unit[i].param
                      /\ c[Len(sent') + 1] + offset' = c[entry']
                      /\ FullLength(unit) <= Len(frame')
                      /\ \A i \in Len(sent') + 1 .. entry' - 1 :
                            /\ c[Len(sent') + 1] <= c[i] /\ c[i + 1] <= c[entry']
                            /\ \A j \in 1 .. Len(unit[i].bytes) :
                                  frame'[(c[i] - c[Len(sent') + 1]) + j] = unit[i].bytes[j]
    BY <1>3 DEF UnitInv
  <2>1. /\ unit \in Seq(Buffers) /\ FullLength(unit) \in Nat
        /\ sent \in Seq(Buffers) /\ FullLength(unit) <= Len(frame)
    BY <1>1, UnitFacts
  <2>2. /\ \A i \in 1 .. Len(unit) + 1 : c[i] \in Nat
        /\ entry + 1 \in 1 .. Len(unit) + 1
    BY <1>1, <2>1, OffsetsType
  <2>3. unit[entry] \in Buffers
    BY <1>1, <2>1
  <2>4. /\ Len(sent') = entry /\ entry' = Len(sent') + 1
        /\ \A i \in 1 .. Len(sent') : IF i = entry THEN sent'[i] = unit[entry]
                                      ELSE i \in 1 .. Len(sent) /\ sent'[i] = sent[i]
    BY <1>1, <1>3, <2>1, <2>3
  <2>5. \A i \in 1 .. Len(sent) : sent[i] = unit[i] /\ unit[i].param
    BY <1>1 DEF UnitInv
  <2>6. \A i \in 1 .. Len(sent') : sent'[i] = unit[i] /\ unit[i].param
    BY <1>1, <2>4, <2>5
  <2>7. Len(sent') + 1 .. entry' - 1 = {} /\ Len(sent') < entry'
    BY <1>1, <2>4
  <2>8. c[Len(sent') + 1] + offset' = c[entry']
    BY <1>1, <1>3, <2>2, <2>4
  <2> QED
    BY <1>1, <2>1, <2>6, <2>7, <2>8
<1> QED
  BY <1>2, <1>3 DEF SubmitParameterSet, EndUnit

\* A piece of the picture is put behind the pieces that were copied.
LEMMA CopyPictureInv ==
    ASSUME IInv, UnitInv, CopyPicture
    PROVE  UnitInv'
<1> DEFINE bytes == unit[entry].bytes
           n == Len(sent)
<1>1. /\ unit # None /\ entry <= Len(unit) /\ ~unit[entry].param
      /\ frame' = Overwritten(offset, bytes) /\ offset' = offset + Len(bytes)
      /\ entry' = entry + 1 /\ unit' = unit /\ sent' = sent
  BY DEF CopyPicture
<1>2. unit \in Units /\ unit \in Seq(Buffers) /\ entry \in 1 .. Len(unit) /\ bytes \in Seq(Nat)
  <2>1. TypeOK /\ unit # None /\ entry <= Len(unit)
    BY <1>1 DEF IInv
  <2> QED
    BY <2>1, EntryType
<1> SUFFICES ASSUME NEW c \in Offsets(unit, FullLength(unit))
             PROVE  /\ n < entry + 1
                    /\ \A i \in 1 .. n : sent[i] = unit[i] /\ unit[i].param
                    /\ \A i \in n + 1 .. (entry + 1) - 1 : ~unit[i].param
                    /\ c[n + 1] + offset' = c[entry + 1]
                    /\ FullLength(unit) <= Len(frame')
                    /\ \A i \in n + 1 .. (entry + 1) - 1 :
                          c[n + 1] <= c[i] /\ c[i + 1] <= c[entry + 1]
                    /\ \A i \in n + 1 .. (entry + 1) - 1 : \A j \in 1 .. Len(unit[i].bytes) :
                          frame'[(c[i] - c[n + 1]) + j] = unit[i].bytes[j]
  BY <1>1 DEF UnitInv
<1>3. /\ FullLength(unit) \in Nat /\ frame \in Seq(Nat) /\ offset \in Nat
      /\ n \in Nat /\ n < entry /\ c[n + 1] + offset = c[entry]
      /\ FullLength(unit) <= Len(frame)
  BY <1>1, UnitFacts
<1>4. /\ \A i \in 1 .. Len(unit) + 1 : c[i] \in Nat /\ c[i] <= FullLength(unit)
      /\ \A i \in 1 .. Len(unit) : /\ c[i + 1] = c[i] + Len(unit[i].bytes)
                                    /\ Len(unit[i].bytes) \in Nat
  BY <1>2, <1>3, OffsetsType
<1>5. /\ \A i \in 1 .. n : sent[i] = unit[i] /\ unit[i].param
      /\ \A i \in n + 1 .. entry - 1 : ~unit[i].param
      /\ \A i \in n + 1 .. entry - 1 : c[n + 1] <= c[i] /\ c[i + 1] <= c[entry]
      /\ \A i \in n + 1 .. entry - 1 : \A j \in 1 .. Len(unit[i].bytes) :
            frame[(c[i] - c[n + 1]) + j] = unit[i].bytes[j]
  BY <1>1 DEF UnitInv
<1>6. /\ c[entry] \in Nat /\ c[entry + 1] = c[entry] + Len(bytes) /\ Len(bytes) \in Nat
      /\ c[n + 1] \in Nat /\ c[entry + 1] <= FullLength(unit)
  <2>1. entry + 1 \in 1 .. Len(unit) + 1 /\ n + 1 \in 1 .. Len(unit) + 1
        /\ entry \in 1 .. Len(unit) + 1
    BY <1>2, <1>3
  <2> QED
    BY <1>2, <1>4, <2>1
<1> HIDE DEF bytes, n
<1>7. offset + Len(bytes) <= Len(frame)
  <2>1. Len(frame) \in Nat
    BY <1>3
  <2> QED
    BY <1>3, <1>6, <2>1
<1>8. /\ Len(frame') = Len(frame)
      /\ \A j \in 1 .. Len(bytes) : frame'[offset + j] = bytes[j]
      /\ \A i \in 1 .. offset : frame'[i] = frame[i]
  BY <1>1, <1>2, <1>3, <1>7, OverwrittenBytes
<1>9. \A i \in n + 1 .. (entry + 1) - 1 : i = entry \/ i \in n + 1 .. entry - 1
  BY <1>2, <1>3
<1>10. \A i \in n + 1 .. (entry + 1) - 1 : ~unit[i].param
  BY <1>1, <1>5, <1>9
<1>11. c[n + 1] + offset' = c[entry + 1]
  BY <1>1, <1>3, <1>6
<1>12. \A i \in n + 1 .. (entry + 1) - 1 : c[n + 1] <= c[i] /\ c[i + 1] <= c[entry + 1]
  <2> SUFFICES ASSUME NEW i \in n + 1 .. (entry + 1) - 1
               PROVE  c[n + 1] <= c[i] /\ c[i + 1] <= c[entry + 1]
    OBVIOUS
  <2>1. CASE i = entry
    BY <2>1, <1>3, <1>6
  <2>2. CASE i \in n + 1 .. entry - 1
    <3>1. c[n + 1] <= c[i] /\ c[i + 1] <= c[entry]
      BY <1>5, <2>2
    <3>2. i + 1 \in 1 .. Len(unit) + 1
      BY <1>2, <1>3, <2>2
    <3>3. c[i + 1] \in Nat
      BY <1>4, <3>2
    <3> QED
      BY <1>6, <3>1, <3>3
  <2> QED
    BY <1>9, <2>1, <2>2
<1>13. \A i \in n + 1 .. (entry + 1) - 1 : \A j \in 1 .. Len(unit[i].bytes) :
          frame'[(c[i] - c[n + 1]) + j] = unit[i].bytes[j]
  <2> SUFFICES ASSUME NEW i \in n + 1 .. (entry + 1) - 1, NEW j \in 1 .. Len(unit[i].bytes)
               PROVE  frame'[(c[i] - c[n + 1]) + j] = unit[i].bytes[j]
    OBVIOUS
  <2>1. CASE i = entry
    <3>1. (c[i] - c[n + 1]) + j = offset + j
      BY <1>3, <1>6, <2>1
    <3>2. j \in 1 .. Len(bytes) /\ bytes = unit[i].bytes
      BY <2>1 DEF bytes
    <3> QED
      BY <1>8, <3>1, <3>2
  <2>2. CASE i \in n + 1 .. entry - 1
    <3>1. c[n + 1] <= c[i] /\ c[i + 1] <= c[entry] /\ i \in 1 .. Len(unit)
          /\ i \in 1 .. Len(unit) + 1
      BY <1>2, <1>3, <1>5, <2>2
    <3>2. /\ c[i] \in Nat /\ c[i + 1] = c[i] + Len(unit[i].bytes)
          /\ Len(unit[i].bytes) \in Nat
      BY <1>4, <3>1
    <3>3. (c[i] - c[n + 1]) + j \in 1 .. offset
      <4>1. j \in Nat /\ 1 <= j /\ j <= Len(unit[i].bytes)
        BY <3>2
      <4>2. c[i] + j <= c[entry]
        BY <1>6, <3>1, <3>2, <4>1
      <4>3. /\ c[i] \in Nat /\ c[n + 1] \in Nat /\ c[entry] \in Nat /\ offset \in Nat
            /\ c[n + 1] + offset = c[entry] /\ c[n + 1] <= c[i]
        BY <1>3, <1>6, <3>1, <3>2
      <4> QED
        BY <4>1, <4>2, <4>3
    <3>4. frame[(c[i] - c[n + 1]) + j] = unit[i].bytes[j]
      BY <1>5, <2>2
    <3> QED
      BY <1>8, <3>3, <3>4
  <2> QED
    BY <1>9, <2>1, <2>2
<1>14. n < entry + 1
  BY <1>2, <1>3
<1> QED
  BY <1>3, <1>5, <1>8, <1>10, <1>11, <1>12, <1>13, <1>14

\* The offsets of the pieces of a picture, from the first of them.
LEMMA PictureOffsets ==
    ASSUME IInv, UnitInv, unit # None, entry = Len(unit) + 1,
           NEW c \in Offsets(unit, FullLength(unit))
    PROVE  [k \in 1 .. Len(SubSeq(unit, Len(sent) + 1, Len(unit))) + 1 |->
               c[Len(sent) + k] - c[Len(sent) + 1]]
           \in Offsets(SubSeq(unit, Len(sent) + 1, Len(unit)), offset)
<1> DEFINE n == Len(sent)
           pieces == SubSeq(unit, n + 1, Len(unit))
           d == [k \in 1 .. Len(pieces) + 1 |-> c[n + k] - c[n + 1]]
<1>1. /\ unit \in Seq(Buffers) /\ FullLength(unit) \in Nat /\ offset \in Nat /\ n \in Nat
      /\ n < entry /\ c[n + 1] + offset = c[entry] /\ c[n + 1] \in Nat /\ c[entry] \in Nat
  BY UnitFacts
<1>2. /\ \A i \in 1 .. Len(unit) + 1 : c[i] \in Nat
      /\ \A i \in 1 .. Len(unit) : c[i + 1] = c[i] + Len(unit[i].bytes)
  BY <1>1, OffsetsType
<1>3. \A i \in n + 1 .. entry - 1 : c[n + 1] <= c[i] /\ c[i + 1] <= c[entry]
  BY DEF UnitInv
<1>4. /\ Len(unit) \in Nat /\ Len(pieces) = Len(unit) - n
      /\ \A k \in 1 .. Len(pieces) : n + k \in 1 .. Len(unit) /\ pieces[k] = unit[n + k]
  BY <1>1
<1> HIDE DEF n, pieces
<1>5. d \in [1 .. Len(pieces) + 1 -> 0 .. offset]
  <2> SUFFICES ASSUME NEW k \in 1 .. Len(pieces) + 1
               PROVE  c[n + k] - c[n + 1] \in 0 .. offset
    OBVIOUS
  <2>1. n + k \in n + 1 .. entry /\ n + k \in 1 .. Len(unit) + 1
    BY <1>1, <1>4
  <2>2. c[n + k] \in Nat
    BY <1>2, <2>1
  <2>3. CASE n + k = entry
    BY <1>1, <2>3
  <2>4. CASE n + k # entry
    <3>1. n + k \in n + 1 .. entry - 1 /\ n + k \in 1 .. Len(unit)
      BY <1>1, <2>1, <2>4
    <3>2. c[n + 1] <= c[n + k] /\ c[(n + k) + 1] <= c[entry]
      BY <1>3, <3>1
    <3>3. c[(n + k) + 1] = c[n + k] + Len(unit[n + k].bytes) /\ Len(unit[n + k].bytes) \in Nat
      BY <1>1, <1>2, <3>1, OffsetsType
    <3>4. c[n + k] <= c[entry]
      <4>1. c[n + k] + Len(unit[n + k].bytes) <= c[entry]
        BY <3>2, <3>3
      <4>2. c[entry] \in Nat /\ Len(unit[n + k].bytes) \in Nat
        BY <1>1, <3>3
      <4> QED
        BY <2>2, <4>1, <4>2
    <3>5. /\ c[n + k] \in Nat /\ c[n + 1] \in Nat /\ offset \in Nat
          /\ c[n + 1] <= c[n + k] /\ c[n + k] <= c[n + 1] + offset
      BY <1>1, <2>2, <3>2, <3>4
    <3> QED
      BY <3>5
  <2> QED
    BY <2>3, <2>4
<1>6. d[1] = 0 /\ d[Len(pieces) + 1] = offset
  BY <1>1, <1>4
<1>7. \A k \in 1 .. Len(pieces) : d[k + 1] = d[k] + Len(pieces[k].bytes)
  <2> SUFFICES ASSUME NEW k \in 1 .. Len(pieces)
               PROVE  d[k + 1] = d[k] + Len(pieces[k].bytes)
    OBVIOUS
  <2>1. /\ n + k \in 1 .. Len(unit) /\ n + k \in 1 .. Len(unit) + 1
        /\ k \in 1 .. Len(pieces) + 1 /\ k + 1 \in 1 .. Len(pieces) + 1
        /\ n + (k + 1) = (n + k) + 1
    BY <1>1, <1>4
  <2>2. /\ c[(n + k) + 1] = c[n + k] + Len(unit[n + k].bytes) /\ c[n + k] \in Nat
        /\ Len(unit[n + k].bytes) \in Nat
    BY <1>1, <1>2, <2>1, OffsetsType
  <2>3. d[k] = c[n + k] - c[n + 1] /\ d[k + 1] = c[(n + k) + 1] - c[n + 1]
    BY <2>1
  <2> HIDE DEF d
  <2> QED
    BY <1>1, <1>4, <2>2, <2>3
<1> HIDE DEF d
<1>8. d \in Offsets(pieces, offset)
  BY <1>5, <1>6, <1>7 DEF Offsets
<1> QED
  BY <1>8 DEF d, pieces, n

\* The pieces in the frame are the picture of the unit.
LEMMA PictureIsJoined ==
    ASSUME IInv, UnitInv, unit # None, entry = Len(unit) + 1
    PROVE  /\ First(frame, offset) \in Seq(Nat)
           /\ AreJoined(First(frame, offset), SubSeq(unit, Len(sent) + 1, Len(unit)))
<1> DEFINE n == Len(sent)
           pieces == SubSeq(unit, n + 1, Len(unit))
           joined == First(frame, offset)
<1>1. PICK c : c \in Offsets(unit, FullLength(unit))
  BY FullLengthAssumption DEF IInv, TypeOK
<1> DEFINE d == [k \in 1 .. Len(pieces) + 1 |-> c[n + k] - c[n + 1]]
<1>2. d \in Offsets(pieces, offset)
  BY <1>1, PictureOffsets
<1>3. /\ unit \in Seq(Buffers) /\ FullLength(unit) \in Nat /\ frame \in Seq(Nat)
      /\ offset \in Nat /\ n \in Nat /\ n < entry /\ c[n + 1] + offset = c[entry]
      /\ c[n + 1] \in Nat /\ c[entry] \in Nat
  BY <1>1, UnitFacts
<1>4. offset <= Len(frame)
  BY UnitFits
<1>5. /\ joined \in Seq(Nat) /\ Len(joined) = offset
      /\ \A j \in 1 .. offset : joined[j] = frame[j]
  BY <1>3, <1>4, FirstBytes
<1>6. /\ Len(unit) \in Nat /\ Len(pieces) = Len(unit) - n
      /\ \A k \in 1 .. Len(pieces) : n + k \in n + 1 .. entry - 1 /\ n + k \in 1 .. Len(unit)
                                    /\ pieces[k] = unit[n + k]
  BY <1>3
<1>7. \A k \in 1 .. Len(pieces) : d[k] = c[n + k] - c[n + 1]
  BY <1>6
<1>8. \A k \in 1 .. Len(pieces) : /\ c[n + 1] <= c[n + k] /\ c[(n + k) + 1] <= c[entry]
                                  /\ \A j \in 1 .. Len(unit[n + k].bytes) :
                                        frame[(c[n + k] - c[n + 1]) + j] = unit[n + k].bytes[j]
  BY <1>1, <1>6 DEF UnitInv
<1> HIDE DEF n, pieces, joined, d
<1>9. ASSUME NEW k \in 1 .. Len(pieces), NEW j \in 1 .. Len(pieces[k].bytes)
      PROVE  joined[d[k] + j] = pieces[k].bytes[j]
  <2>1. /\ pieces[k] = unit[n + k] /\ n + k \in 1 .. Len(unit) /\ n + k \in 1 .. Len(unit) + 1
        /\ d[k] = c[n + k] - c[n + 1]
        /\ c[n + 1] <= c[n + k] /\ c[(n + k) + 1] <= c[entry]
    BY <1>6, <1>7, <1>8
  <2>2. /\ c[n + k] \in Nat /\ c[(n + k) + 1] = c[n + k] + Len(unit[n + k].bytes)
        /\ Len(unit[n + k].bytes) \in Nat
    BY <1>1, <1>3, <2>1, OffsetsType
  <2>3. j \in Nat /\ 1 <= j /\ j <= Len(unit[n + k].bytes)
    BY <2>1, <2>2
  <2>4. c[n + k] + j <= c[n + 1] + offset
    <3>1. c[n + k] + Len(unit[n + k].bytes) <= c[n + 1] + offset
      BY <1>3, <2>1, <2>2
    <3>2. c[n + 1] \in Nat /\ offset \in Nat
      BY <1>3
    <3> QED
      BY <2>2, <2>3, <3>1, <3>2
  <2>5. d[k] + j \in 1 .. offset
    <3>1. /\ c[n + k] \in Nat /\ c[n + 1] \in Nat /\ offset \in Nat
          /\ c[n + 1] <= c[n + k] /\ d[k] = c[n + k] - c[n + 1]
      BY <1>3, <2>1, <2>2
    <3> QED
      BY <2>3, <2>4, <3>1
  <2>6. joined[d[k] + j] = frame[d[k] + j]
    BY <1>5, <2>5
  <2>7. frame[(c[n + k] - c[n + 1]) + j] = unit[n + k].bytes[j]
    BY <1>8, <2>1
  <2> QED
    BY <2>1, <2>6, <2>7
<1>10. AreJoined(joined, pieces)
  BY <1>2, <1>5, <1>9 DEF AreJoined
<1> QED
  BY <1>5, <1>10 DEF joined, pieces, n

\* A call into Java is with the next parameter set, or with the picture.
LEMMA CallsAreOfUnit ==
    ASSUME IInv, UnitInv, unit # None, SubmitParameterSet \/ SubmitPicture
    PROVE  AreCallsFor(unit, sent')
<1>1. PICK c : c \in Offsets(unit, FullLength(unit))
  BY FullLengthAssumption DEF IInv, TypeOK
<1>2. /\ unit \in Seq(Buffers) /\ sent \in Seq(Buffers) /\ Len(sent) \in Nat
      /\ Len(sent) < entry /\ entry \in 1 .. Len(unit) + 1 /\ Len(unit) \in Nat
  BY <1>1, UnitFacts
<1>3. \A i \in 1 .. Len(sent) : sent[i] = unit[i] /\ unit[i].param
  BY <1>1 DEF UnitInv
<1>4. CASE SubmitParameterSet
  <2>1. /\ sent' = Append(sent, unit[entry]) /\ entry \in 1 .. Len(unit)
        /\ Len(sent) = entry - 1 /\ unit[entry].param
    BY <1>4, SubmitParameterSetCall DEF SubmitParameterSet
  <2>2. unit[entry] \in Buffers
    BY <1>2, <2>1
  <2>3. /\ Len(sent') = entry
        /\ \A i \in 1 .. Len(sent') : IF i = entry THEN sent'[i] = unit[entry]
                                      ELSE i \in 1 .. Len(sent) /\ sent'[i] = sent[i]
    BY <1>2, <2>1, <2>2
  <2>4. \A i \in 1 .. Len(sent') : sent'[i] = unit[i] /\ unit[i].param /\ i <= Len(unit)
    <3> SUFFICES ASSUME NEW i \in 1 .. Len(sent')
                 PROVE  sent'[i] = unit[i] /\ unit[i].param /\ i <= Len(unit)
      OBVIOUS
    <3>1. i <= Len(unit)
      BY <1>2, <2>1, <2>3
    <3>2. CASE i = entry
      BY <2>1, <2>3, <3>1, <3>2
    <3>3. CASE i # entry
      BY <1>3, <2>3, <3>1, <3>3
    <3> QED
      BY <3>2, <3>3
  <2> QED
    BY <2>4 DEF AreCallsFor
<1>5. CASE SubmitPicture
  <2> DEFINE picture == [param |-> FALSE, bytes |-> First(frame, offset)]
  <2>1. sent' = Append(sent, picture) /\ entry > Len(unit)
    BY <1>5 DEF SubmitPicture, Submit
  <2>2. entry = Len(unit) + 1
    BY <1>2, <2>1
  <2>3. /\ First(frame, offset) \in Seq(Nat)
        /\ AreJoined(First(frame, offset), SubSeq(unit, Len(sent) + 1, Len(unit)))
    BY <2>2, PictureIsJoined
  <2>4. picture \in Buffers /\ ~picture.param /\ picture.bytes = First(frame, offset)
    BY <2>3 DEF Buffers
  <2> HIDE DEF picture
  <2>5. /\ Len(sent') = Len(sent) + 1
        /\ \A i \in 1 .. Len(sent') : IF i = Len(sent') THEN sent'[i] = picture
                                      ELSE i \in 1 .. Len(sent) /\ sent'[i] = sent[i]
    BY <1>2, <2>1, <2>4
  <2>6. \A j \in Len(sent) + 1 .. entry - 1 : ~unit[j].param
    BY <1>1 DEF UnitInv
  <2>7. \A j \in Len(sent') .. Len(unit) : ~unit[j].param
    BY <1>2, <2>2, <2>5, <2>6
  <2> SUFFICES ASSUME NEW i \in 1 .. Len(sent')
               PROVE  IF sent'[i].param THEN i <= Len(unit) /\ sent'[i] = unit[i]
                      ELSE /\ i = Len(sent')
                           /\ \A j \in i .. Len(unit) : ~unit[j].param
                           /\ AreJoined(sent'[i].bytes, SubSeq(unit, i, Len(unit)))
    BY DEF AreCallsFor
  <2>8. CASE i = Len(sent')
    BY <2>3, <2>4, <2>5, <2>7, <2>8
  <2>9. CASE i # Len(sent')
    <3>1. i \in 1 .. Len(sent) /\ sent'[i] = sent[i]
      BY <2>5, <2>9
    <3>2. sent'[i] = unit[i] /\ unit[i].param
      BY <1>3, <3>1
    <3>3. i <= Len(unit)
      BY <1>2, <3>1
    <3> QED
      BY <3>2, <3>3
  <2> QED
    BY <2>8, <2>9
<1> QED
  BY <1>4, <1>5

\* Every step keeps the facts on the unit that is under way.
LEMMA NextUnitInv == IInv /\ UnitInv /\ [Next]_vars => UnitInv'
<1> SUFFICES ASSUME IInv, UnitInv, [Next]_vars PROVE UnitInv'
  OBVIOUS
<1>1. CASE JavaStep
  <2>1. UNCHANGED <<unit, entry, offset, sent>>
    BY <1>1 DEF JavaStep, StartConnection, BridgeDrSetup, BridgeDrStart, BridgeArInit,
       CreateDecoder, NoDecoder, BridgeClConnectionStarted,
       BridgeArStart, BridgeClStageFailed, StopConnection, BridgeArStop, BridgeArCleanup,
       BridgeDrStop, BridgeDrCleanup, Return, CheckJniAborts
  <2>2. frame' = frame \/ java = "videoSetup" \/ "video" \notin running
    BY <1>1 DEF JavaStep, StartConnection, BridgeDrSetup, BridgeDrStart, BridgeArInit,
       CreateDecoder, NoDecoder, BridgeClConnectionStarted,
       BridgeArStart, BridgeClStageFailed, StopConnection, BridgeArStop, BridgeArCleanup,
       BridgeDrStop, BridgeDrCleanup, Return, CheckJniAborts
  <2>3. java = "videoSetup" \/ "video" \notin running => unit = None
    BY DEF IInv, PhaseInv, RunningInv
  <2> QED
    BY <2>1, <2>2, <2>3, UnitQuiet
<1>2. CASE NativeStep
  <2>1. CASE BridgeCl \/ DecodeSample \/ PlaySample \/ NoArray \/ \E t \in Native : ThreadEnds(t)
    BY <2>1, UnitQuiet DEF BridgeCl, DecodeSample, PlaySample, NoArray, ThreadEnds
  <2>2. CASE BeginUnit
    BY <2>2, BeginUnitInv
  <2>3. CASE SubmitParameterSet
    BY <2>3, SubmitParameterSetInv
  <2>4. CASE CopyPicture
    BY <2>4, CopyPictureInv
  <2>5. CASE SubmitPicture
    BY <2>5 DEF SubmitPicture, EndUnit, UnitInv
  <2> QED
    BY <1>2, <2>1, <2>2, <2>3, <2>4, <2>5 DEF NativeStep
<1>3. CASE UNCHANGED vars
  BY <1>3, UnitQuiet DEF vars
<1> QED
  BY <1>1, <1>2, <1>3 DEF Next

\* A step that calls Java for a unit calls it with what belongs to the unit.
LEMMA NextCalls ==
    IInv /\ UnitInv /\ [Next]_vars => (unit # None /\ sent' # sent => AreCallsFor(unit, sent'))
<1> SUFFICES ASSUME IInv, UnitInv, Next, unit # None, sent' # sent
             PROVE  AreCallsFor(unit, sent')
  BY DEF vars
<1>1. ~JavaStep
  BY DEF JavaStep, StartConnection, BridgeDrSetup, BridgeDrStart, BridgeArInit,
     CreateDecoder, NoDecoder, BridgeClConnectionStarted,
     BridgeArStart, BridgeClStageFailed, StopConnection, BridgeArStop, BridgeArCleanup,
     BridgeDrStop, BridgeDrCleanup, Return, CheckJniAborts
<1>2. SubmitParameterSet \/ SubmitPicture
  BY <1>1 DEF Next, NativeStep, BridgeCl, DecodeSample, PlaySample, NoArray, BeginUnit, CopyPicture,
     ThreadEnds
<1> QED
  BY <1>2, CallsAreOfUnit

-----------------------------------------------------------------------------
\* The frame buffer, the audio buffer and the Opus decoder are there exactly while
\* the renderer they belong to is set up.
THEOREM ResourcesFollowRenderersHolds == Spec => []ResourcesFollowRenderers
<1>1. IInv => ResourcesFollowRenderers
  BY DEF IInv, ResourcesFollowRenderers, TypeOK, PhaseInv, RunningInv, ResourceInv
<1> QED
  BY InitIInv, NextIInv, <1>1, PTL DEF Spec

\* Threads of the library are attached while they run and detached when they end.
THEOREM EnvironmentsAreLiveHolds == Spec => []EnvironmentsAreLive
<1>1. IInv => EnvironmentsAreLive
  BY DEF IInv, EnvironmentsAreLive, AttachInv
<1> QED
  BY InitIInv, NextIInv, <1>1, PTL DEF Spec

\* Each Java renderer is called in the order of its contract, whatever returns an
\* error, with or without an Opus decoder, until an exception is left pending.
THEOREM ContractsImplemented == Spec => RenderersAreCalledInOrder
<1>1. Init => VideoContract!Init /\ AudioContract!Init
  BY DEF Init, Promised, VideoContract!Init, AudioContract!Init
<1> QED
  BY <1>1, InitIInv, NextIInv, NextContract, PTL
     DEF Spec, RenderersAreCalledInOrder, VideoContract!Spec, AudioContract!Spec

\* Whatever buffers a unit has, in however many pieces its picture comes and
\* however large the frame buffer was: Java gets each parameter set by itself and
\* then the whole picture, byte for byte (BridgeDrSubmitDecodeUnit()).
THEOREM UnitArrivesHolds == Spec => UnitArrives
<1>1. Init => UnitInv
  BY DEF Init, UnitInv
<1>2. Spec => [](IInv /\ UnitInv)
  BY <1>1, InitIInv, NextIInv, NextUnitInv, PTL DEF Spec
<1>3. Spec => [](unit # None => offset <= Len(frame))
  BY <1>2, UnitFits, PTL
<1>4. Spec => [][unit # None /\ sent' # sent => AreCallsFor(unit, sent')]_vars
  <2>1. IInv /\ UnitInv /\ [Next]_vars => [unit # None /\ sent' # sent => AreCallsFor(unit, sent')]_vars
    BY NextCalls
  <2> QED
    BY <1>2, <2>1, PTL DEF Spec
<1> QED
  BY <1>3, <1>4 DEF UnitArrives
=============================================================================
