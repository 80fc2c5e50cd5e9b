------------------------ MODULE DecoderRendererProofs ------------------------
(***************************************************************************)
(* DecoderRenderer for streams of any length: the codec is released only   *)
(* when no thread uses it, frames come after their own parameter sets, and *)
(* the timestamps of the units increase.                                   *)
(***************************************************************************)
EXTENDS DecoderRenderer, TLAPS

Labels == {"idle", "dequeue", "fill", "queue", "none", "loop", "output", "ended"}
          \cup Handler

\* The decode thread is in the codec's calls for a unit.
Submitting == pc["decode"] \in {"dequeue", "fill", "queue"}

\* The lifecycle: the codec follows setup() and cleanup(), and stop() goes on once
\* the renderer thread ended.
LifecycleInv ==
    /\ pc \in [Threads -> Labels]
    /\ starter = "started" <=> pc["render"] # "none"
    /\ stopper # "none" => starter = "started"
    /\ stopper \in {"stopped", "done"} => pc["render"] = "ended"
    /\ codec = "released" <=> stopper = "done"
    /\ stopper = "done" => pc["decode"] = "idle"
    /\ starter # "started" => pc["decode"] = "idle"

\* A unit that is being submitted is a codec config buffer made of the PPS and the
\* saved SPS, the replay of that SPS, or a frame.  Parameter sets go in front of a
\* frame only as they are put into the buffer.
JobInv ==
    /\ pc["decode"] = "idle" => job = "none"
    /\ Submitting => job # "none"
    /\ job \in {"csd", "replay"} => stream.next = "pps" /\ ~submitCsdNextCall
    /\ job \in {"frame", "csd and frame"} => stream.next \in {"idr", "p"}
    /\ pc["decode"] = "queue" => ~submitCsdNextCall
    /\ job = "csd and frame" => ~submitCsdNextCall

\* The parameter sets of IDR frame g.
ParametersOf(g) == [sps |-> g, pps |-> g]

\* The parameter sets of the stream's IDR frame are saved, or will be in the codec,
\* when its frame is.  Once the renderer is stopping, units are dropped, and this
\* holds only for the one being submitted.
CsdInv ==
    /\ submitCsdNextCall => submittedCsd /\ adaptivePlayback
    /\ ~stopping \/ Submitting =>
          /\ stream.next = "pps" => csd["sps"] = stream.idr
          /\ job = "replay" => config = ParametersOf(stream.idr)
          /\ stream.next \in {"idr", "p"} =>
                IF submitCsdNextCall \/ job = "csd and frame"
                THEN csd = ParametersOf(stream.idr)
                ELSE config = ParametersOf(stream.idr)

\* The codec's last buffer of a unit is older than the unit that is being submitted.
TimeInv ==
    /\ queued.unit <= lastTimestampUs
    /\ Submitting /\ job # "replay" => queued.unit < lastTimestampUs

IInv == TypeOK /\ LifecycleInv /\ JobInv /\ CsdInv /\ TimeInv

USE DEF excVars, csdVars, codecGot, threadVars, Threads, Goto

-----------------------------------------------------------------------------
(***************************************************************************)
(* The types, in parts that few steps change.                              *)
(***************************************************************************)
FlagsType ==
    /\ stopping \in BOOLEAN
    /\ waited \in BOOLEAN
    /\ submittedCsd \in BOOLEAN
    /\ submitCsdNextCall \in BOOLEAN
    /\ adaptivePlayback \in BOOLEAN
    /\ needsBaselineSpsHack \in BOOLEAN

UnitType ==
    /\ stream \in [next : {"sps", "pps", "idr", "p"}, idr : Generations]
    /\ job \in {"none", "csd", "frame", "csd and frame", "replay"}
    /\ lastTimestampUs \in 0 .. MaxTimestamp

CodecType ==
    /\ csd \in [sps : Generations, pps : Generations]
    /\ config \in [sps : Generations, pps : Generations]
    /\ queued \in [unit : 0 .. MaxTimestamp, replay : 0 .. MaxTimestamp]

ThreadsType ==
    /\ codec \in {"none", "created", "running", "released"}
    /\ starter \in {"new", "setup", "started", "failed"}
    /\ stopper \in {"none", "join", "stopped", "done"}
    /\ pc["decode"] \in {"idle", "dequeue", "fill", "queue"} \cup Handler
    /\ pc["render"] \in {"none", "loop", "output", "ended"} \cup Handler

ExceptionsType ==
    /\ initialException \in BOOLEAN
    /\ initialExceptionTimestamp \in {"zero", "recent", "old"}
    /\ reportedCrash \in BOOLEAN
    /\ crash \in {"none", "exception", "hung", "too large"}

\* The parts are the whole, before a step and after it.
LEMMA TypeParts ==
    /\ TypeOK <=> FlagsType /\ UnitType /\ CodecType /\ ThreadsType /\ ExceptionsType
    /\ TypeOK' <=> FlagsType' /\ UnitType' /\ CodecType' /\ ThreadsType' /\ ExceptionsType'
<1>1. TypeOK <=> FlagsType /\ UnitType /\ CodecType /\ ThreadsType /\ ExceptionsType
  BY ZenonT(60) DEF TypeOK, FlagsType, UnitType, CodecType, ThreadsType, ExceptionsType
<1>2. TypeOK' <=> FlagsType' /\ UnitType' /\ CodecType' /\ ThreadsType' /\ ExceptionsType'
  BY ZenonT(60) DEF TypeOK, FlagsType, UnitType, CodecType, ThreadsType, ExceptionsType
<1> QED
  BY <1>1, <1>2

-----------------------------------------------------------------------------
(***************************************************************************)
(* Operators.                                                              *)
(***************************************************************************)

\* The unit after this one is of the same IDR frame, or begins the next one.
LEMMA NextUnitType ==
    ASSUME stream \in [next : {"sps", "pps", "idr", "p"}, idr : Generations],
           NEW u \in NextUnit
    PROVE  /\ u \in [next : {"sps", "pps", "idr", "p"}, idr : Generations]
           /\ u.next = "pps" => stream.next = "sps" /\ u.idr = stream.idr
           /\ u.next = "idr" => stream.next = "pps" /\ u.idr = stream.idr
           /\ u.next = "p" => stream.next \in {"idr", "p"} /\ u.idr = stream.idr
           /\ stream.next = "sps" => u.next = "pps"
           /\ stream.next = "pps" => u.next = "idr"
BY BoundsAssumption DEF NextUnit, Generations

\* A unit is later than the one before, and within the bound.
LEMMA TimestampLater ==
    ASSUME lastTimestampUs \in 0 .. MaxTimestamp, lastTimestampUs < MaxTimestamp,
           NEW e \in Times
    PROVE  Timestamp(e) \in 0 .. MaxTimestamp /\ Timestamp(e) > lastTimestampUs
BY BoundsAssumption DEF Timestamp

\* After NEED_IDR the stream goes on with the SPS of another IDR frame.
LEMMA NeedIdrEffect ==
    ASSUME TypeOK, NeedIdr
    PROVE  /\ stream' \in [next : {"sps", "pps", "idr", "p"}, idr : Generations]
           /\ stream'.next = "sps" /\ job' = "none" /\ waited' = FALSE
<1> DEFINE g == IF stream.idr < MaxGeneration THEN stream.idr + 1 ELSE stream.idr
<1>1. g \in Generations
  <2>1. stream.idr \in 0 .. MaxGeneration /\ MaxGeneration \in Nat
    BY BoundsAssumption DEF TypeOK, Generations
  <2> QED
    BY <2>1 DEF Generations
<1>2. stream' = [next |-> "sps", idr |-> g] /\ job' = "none" /\ waited' = FALSE
  BY DEF NeedIdr
<1> QED
  BY <1>1, <1>2

\* An exception handler goes on, or returns: on the decode thread with NEED_IDR.
LEMMA HandlerEffect ==
    ASSUME IInv, NEW t \in Threads, HandleException(t)
    PROVE  /\ UNCHANGED <<stopping, threadVars, lastTimestampUs, csdVars,
                          adaptivePlayback, codecGot>>
           /\ pc[t] \in Handler /\ pc' \in [Threads -> Labels]
           /\ \A u \in Threads : u # t => pc'[u] = pc[u]
           /\ \/ pc'[t] \in Handler /\ UNCHANGED <<stream, job, waited>>
              \/ t = "render" /\ pc'[t] = "loop" /\ UNCHANGED <<stream, job, waited>>
              \/ t = "decode" /\ pc'[t] = "idle" /\ NeedIdr
           /\ initialException' \in BOOLEAN /\ reportedCrash' \in BOOLEAN
           /\ initialExceptionTimestamp' \in {"zero", "recent", "old"}
           /\ crash' \in {"none", "exception", "hung", "too large"}
<1> USE DEF IInv, TypeOK, LifecycleInv, Labels, Handler, HandlerReturns
<1>1. CASE Caught(t)
  BY <1>1 DEF Caught
<1>2. CASE Record(t)
  BY <1>2 DEF Record
<1>3. CASE Stamp(t)
  BY <1>3 DEF Stamp
<1>4. CASE Seen(t)
  BY <1>4 DEF Seen
<1>5. CASE Report(t)
  BY <1>5 DEF Report
<1>6. CASE Notify(t)
  BY <1>6 DEF Notify
<1>7. CASE Throw(t)
  BY <1>7 DEF Throw
<1> QED
  BY <1>1, <1>2, <1>3, <1>4, <1>5, <1>6, <1>7 DEF HandleException

\* So the handlers keep the invariant.
LEMMA HandlerInv ==
    ASSUME IInv, NEW t \in Threads, HandleException(t)
    PROVE  IInv'
<1>1. TypeOK /\ LifecycleInv /\ JobInv /\ CsdInv /\ TimeInv
  BY DEF IInv
<1>2. /\ UNCHANGED <<stopping, threadVars, lastTimestampUs, csdVars,
                     adaptivePlayback, codecGot>>
      /\ initialException' \in BOOLEAN /\ reportedCrash' \in BOOLEAN
      /\ initialExceptionTimestamp' \in {"zero", "recent", "old"}
      /\ crash' \in {"none", "exception", "hung", "too large"}
  BY HandlerEffect
<1>3. CASE t = "render"
  <2>1. /\ pc["render"] \in Handler /\ pc'["render"] \in Handler \cup {"loop"}
        /\ pc'["decode"] = pc["decode"] /\ pc' \in [Threads -> Labels]
        /\ UNCHANGED <<stream, job, waited>>
    BY <1>3, HandlerEffect
  <2>2. TypeOK'
    <3>1. FlagsType'
      BY <1>1, <1>2, <2>1, TypeParts DEF FlagsType
    <3>2. UnitType'
      BY <1>1, <1>2, <2>1, TypeParts DEF UnitType
    <3>3. CodecType'
      BY <1>1, <1>2, <2>1, TypeParts DEF CodecType
    <3>4. ThreadsType'
      BY <1>1, <1>2, <2>1, TypeParts DEF ThreadsType
    <3>5. ExceptionsType'
      BY <1>1, <1>2, <2>1, TypeParts DEF ExceptionsType
    <3> QED
      BY <3>1, <3>2, <3>3, <3>4, <3>5, TypeParts
  <2>3. LifecycleInv' /\ JobInv'
    BY <1>1, <1>2, <2>1 DEF LifecycleInv, JobInv, Submitting, Handler
  <2>4. CsdInv' /\ TimeInv'
    BY <1>1, <1>2, <2>1 DEF CsdInv, TimeInv, Submitting
  <2> QED
    BY <2>2, <2>3, <2>4 DEF IInv
<1>4. CASE t = "decode"
  <2>1. /\ pc["decode"] \in Handler /\ pc'["render"] = pc["render"]
        /\ pc' \in [Threads -> Labels]
        /\ \/ pc'["decode"] \in Handler /\ UNCHANGED <<stream, job, waited>>
           \/ pc'["decode"] = "idle" /\ NeedIdr
    BY <1>4, HandlerEffect
  <2>2. CASE pc'["decode"] \in Handler /\ UNCHANGED <<stream, job, waited>>
    <3>1. TypeOK'
      <4>1. FlagsType'
        BY <1>1, <1>2, <2>1, <2>2, TypeParts DEF FlagsType
      <4>2. UnitType'
        BY <1>1, <1>2, <2>1, <2>2, TypeParts DEF UnitType
      <4>3. CodecType'
        BY <1>1, <1>2, <2>1, <2>2, TypeParts DEF CodecType
      <4>4. ThreadsType'
        BY <1>1, <1>2, <2>1, <2>2, TypeParts DEF ThreadsType
      <4>5. ExceptionsType'
        BY <1>1, <1>2, <2>1, <2>2, TypeParts DEF ExceptionsType
      <4> QED
        BY <4>1, <4>2, <4>3, <4>4, <4>5, TypeParts
    <3>2. LifecycleInv' /\ JobInv'
      BY <1>1, <1>2, <2>1, <2>2 DEF LifecycleInv, JobInv, Submitting, Handler
    <3>3. CsdInv' /\ TimeInv'
      BY <1>1, <1>2, <2>1, <2>2 DEF CsdInv, TimeInv, Submitting, Handler
    <3> QED
      BY <3>1, <3>2, <3>3 DEF IInv
  <2>3. CASE pc'["decode"] = "idle" /\ NeedIdr
    <3>1. /\ stream' \in [next : {"sps", "pps", "idr", "p"}, idr : Generations]
          /\ stream'.next = "sps" /\ job' = "none" /\ waited' = FALSE
      BY <1>1, <2>3, NeedIdrEffect
    <3>2. TypeOK'
      <4>1. FlagsType'
        BY <1>1, <1>2, <2>1, <2>3, <3>1, TypeParts DEF FlagsType
      <4>2. UnitType'
        BY <1>1, <1>2, <2>1, <2>3, <3>1, TypeParts DEF UnitType
      <4>3. CodecType'
        BY <1>1, <1>2, <2>1, <2>3, <3>1, TypeParts DEF CodecType
      <4>4. ThreadsType'
        BY <1>1, <1>2, <2>1, <2>3, <3>1, TypeParts DEF ThreadsType
      <4>5. ExceptionsType'
        BY <1>1, <1>2, <2>1, <2>3, <3>1, TypeParts DEF ExceptionsType
      <4> QED
        BY <4>1, <4>2, <4>3, <4>4, <4>5, TypeParts
    <3>3. LifecycleInv'
      BY <1>1, <1>2, <2>1, <2>3 DEF LifecycleInv, Handler
    <3>4. JobInv' /\ CsdInv' /\ TimeInv'
      BY <1>1, <1>2, <2>1, <2>3, <3>1 DEF JobInv, CsdInv, TimeInv, Submitting, Handler
    <3> QED
      BY <3>2, <3>3, <3>4 DEF IInv
  <2> QED
    BY <2>1, <2>2, <2>3
<1> QED
  BY <1>3, <1>4

-----------------------------------------------------------------------------
(***************************************************************************)
(* The other steps: of the lifecycle, and of the two threads.              *)
(***************************************************************************)
LifecycleStep ==
    \/ Setup \/ Start \/ PrepareForStop \/ Stop \/ StopJoins \/ Cleanup
    \/ RenderLoop \/ RenderOutput \/ DelayPasses

\* The lifecycle's steps keep the types.
LEMMA LifecycleType ==
    ASSUME IInv, LifecycleStep
    PROVE  TypeOK' /\ pc' \in [Threads -> Labels]
<1>1. TypeOK /\ pc \in [Threads -> Labels]
  BY DEF IInv, LifecycleInv
<1> USE <1>1, TypeParts
    DEF LifecycleStep, Setup, Start, PrepareForStop, Stop, StopJoins, Cleanup,
        RenderLoop, RenderOutput, DelayPasses
<1>2. FlagsType'
  BY DEF FlagsType
<1>3. UnitType'
  BY DEF UnitType
<1>4. CodecType'
  BY DEF CodecType
<1>5. ThreadsType' /\ pc' \in [Threads -> Labels]
  BY DEF ThreadsType, Labels, Handler
<1>6. ExceptionsType'
  BY DEF ExceptionsType
<1> QED
  BY <1>2, <1>3, <1>4, <1>5, <1>6

\* They never touch a unit; and stop() waits for the renderer thread.
LEMMA LifecycleKeeps ==
    ASSUME IInv, LifecycleStep
    PROVE  IInv'
<1>1. TypeOK /\ LifecycleInv /\ JobInv /\ CsdInv /\ TimeInv
  BY DEF IInv
<1>2. TypeOK' /\ pc' \in [Threads -> Labels]
  BY LifecycleType
<1>3. /\ UNCHANGED <<stream, job, lastTimestampUs, csdVars, adaptivePlayback, codecGot>>
      /\ pc'["decode"] = pc["decode"] /\ stopping' \in {stopping, TRUE}
  BY <1>1 DEF LifecycleInv, LifecycleStep, Setup, Start, PrepareForStop, Stop, StopJoins,
              Cleanup, RenderLoop, RenderOutput, DelayPasses
<1>4. LifecycleInv'
  <2> USE <1>1, <1>2 DEF LifecycleInv, ThreadsType, Handler
  <2>1. CASE Setup
    BY <2>1, TypeParts DEF Setup
  <2>2. CASE Start
    BY <2>2, TypeParts DEF Start
  <2>3. CASE PrepareForStop
    BY <2>3, TypeParts DEF PrepareForStop
  <2>4. CASE Stop
    BY <2>4, TypeParts DEF Stop
  <2>5. CASE StopJoins
    BY <2>5, TypeParts DEF StopJoins
  <2>6. CASE Cleanup
    BY <2>6, TypeParts DEF Cleanup
  <2>7. CASE RenderLoop
    BY <2>7, TypeParts DEF RenderLoop
  <2>8. CASE RenderOutput
    BY <2>8, TypeParts DEF RenderOutput
  <2>9. CASE DelayPasses
    BY <2>9, TypeParts DEF DelayPasses
  <2> QED
    BY <2>1, <2>2, <2>3, <2>4, <2>5, <2>6, <2>7, <2>8, <2>9 DEF LifecycleStep
<1>5. JobInv' /\ CsdInv' /\ TimeInv'
  BY <1>1, <1>3 DEF JobInv, CsdInv, TimeInv, Submitting
<1> QED
  BY <1>2, <1>3, <1>4, <1>5 DEF IInv

\* What SubmitSaved and SubmitBuffer have in common.
LEMMA SubmitEffect ==
    ASSUME IInv, NEW e \in Times, SubmitSaved(e) \/ SubmitBuffer(e)
    PROVE  /\ pc["decode"] = "idle" /\ starter = "started" /\ stopper # "done" /\ ~stopping
           /\ job = "none"
           /\ lastTimestampUs' \in 0 .. MaxTimestamp /\ lastTimestampUs' > lastTimestampUs
           /\ UNCHANGED <<stopping, threadVars, excVars, waited, submittedCsd,
                          needsBaselineSpsHack, adaptivePlayback, codecGot>>
<1>1. lastTimestampUs \in 0 .. MaxTimestamp /\ lastTimestampUs < MaxTimestamp
  BY DEF IInv, TypeOK, SubmitSaved, SubmitBuffer
<1>2. lastTimestampUs' = Timestamp(e)
  BY DEF SubmitSaved, SubmitBuffer
<1>3. lastTimestampUs' \in 0 .. MaxTimestamp /\ lastTimestampUs' > lastTimestampUs
  BY <1>1, <1>2, TimestampLater
<1> QED
  BY <1>3 DEF IInv, JobInv, SubmitSaved, SubmitBuffer, CanSubmit

\* A parameter set is saved.
LEMMA SubmitSavedInv ==
    ASSUME IInv, NEW e \in Times, SubmitSaved(e)
    PROVE  IInv'
<1>1. TypeOK /\ LifecycleInv /\ JobInv /\ CsdInv /\ TimeInv
  BY DEF IInv
<1>2. /\ pc["decode"] = "idle" /\ ~stopping /\ job = "none"
      /\ lastTimestampUs' \in 0 .. MaxTimestamp /\ lastTimestampUs' > lastTimestampUs
      /\ UNCHANGED <<stopping, threadVars, excVars, waited, submittedCsd,
                     needsBaselineSpsHack, adaptivePlayback, codecGot, pc, job>>
  BY SubmitEffect DEF SubmitSaved
<1>3. /\ stream' \in [next : {"sps", "pps", "idr", "p"}, idr : Generations]
      /\ stream'.idr = stream.idr
      /\ \/ stream.next = "sps" /\ stream'.next = "pps"
         \/ /\ stream.next = "pps" /\ stream'.next = "idr"
            /\ submittedCsd /\ adaptivePlayback
      /\ csd' = [csd EXCEPT ![stream.next] = stream.idr]
      /\ submitCsdNextCall' = (submitCsdNextCall \/ stream.next = "pps")
  <2>1. stream.next \in {"sps", "pps"} /\ (stream.next = "pps" => submittedCsd /\ adaptivePlayback)
    BY <1>1, TypeParts DEF UnitType, SubmitSaved, NeedsBuffer
  <2>2. stream' \in NextUnit /\ stream \in [next : {"sps", "pps", "idr", "p"}, idr : Generations]
    BY <1>1, TypeParts DEF UnitType, SubmitSaved
  <2> QED
    BY <2>1, <2>2, NextUnitType DEF SubmitSaved
<1>4. CodecType /\ UnitType /\ stream.idr \in Generations /\ csd' \in [sps : Generations, pps : Generations]
  BY <1>1, <1>3, TypeParts DEF CodecType, UnitType
<1>5. TypeOK'
  <2>1. FlagsType' /\ UnitType' /\ CodecType'
    BY <1>1, <1>2, <1>3, <1>4, TypeParts DEF FlagsType, UnitType, CodecType
  <2>2. ThreadsType' /\ ExceptionsType'
    BY <1>1, <1>2, TypeParts DEF ThreadsType, ExceptionsType
  <2> QED
    BY <2>1, <2>2, TypeParts
<1>6. LifecycleInv' /\ JobInv' /\ TimeInv'
  BY <1>1, <1>2, <1>3, <1>4 DEF LifecycleInv, JobInv, TimeInv, Submitting, UnitType, CodecType
<1>7. CsdInv'
  <2>1. CASE stream.next = "sps"
    <3>1. csd'["sps"] = stream'.idr
      BY <1>3, <1>4, <2>1 DEF CodecType
    <3> QED
      BY <1>1, <1>2, <1>3, <2>1, <3>1 DEF CsdInv
  <2>2. CASE stream.next = "pps"
    <3>1. csd["sps"] = stream.idr
      BY <1>1, <1>2, <2>2 DEF CsdInv
    <3>2. csd' = ParametersOf(stream'.idr)
      BY <1>3, <1>4, <2>2, <3>1 DEF CodecType, ParametersOf
    <3> QED
      BY <1>1, <1>2, <1>3, <2>2, <3>2 DEF CsdInv
  <2> QED
    BY <1>3, <2>1, <2>2
<1> QED
  BY <1>1, <1>5, <1>6, <1>7 DEF IInv

\* A unit goes to a buffer of its own.
LEMMA SubmitBufferInv ==
    ASSUME IInv, NEW e \in Times, SubmitBuffer(e)
    PROVE  IInv'
<1>1. TypeOK /\ LifecycleInv /\ JobInv /\ CsdInv /\ TimeInv
  BY DEF IInv
<1>2. /\ pc["decode"] = "idle" /\ starter = "started" /\ stopper # "done"
      /\ ~stopping /\ job = "none"
      /\ lastTimestampUs' \in 0 .. MaxTimestamp /\ lastTimestampUs' > lastTimestampUs
      /\ UNCHANGED <<stopping, threadVars, excVars, waited, stream, csdVars,
                     adaptivePlayback, codecGot>>
      /\ pc' = [pc EXCEPT !["decode"] = "dequeue"]
      /\ \/ job' = "csd" /\ stream.next = "pps" /\ ~(submittedCsd /\ adaptivePlayback)
         \/ job' = "frame" /\ stream.next \in {"idr", "p"}
  BY SubmitEffect DEF SubmitBuffer, NeedsBuffer
<1>3. pc' \in [Threads -> Labels] /\ pc'["decode"] = "dequeue" /\ pc'["render"] = pc["render"]
  BY <1>1, <1>2 DEF LifecycleInv, Labels
<1>4. TypeOK'
  <2>1. FlagsType' /\ UnitType' /\ CodecType'
    BY <1>1, <1>2, TypeParts DEF FlagsType, UnitType, CodecType
  <2>2. ThreadsType' /\ ExceptionsType'
    BY <1>1, <1>2, <1>3, TypeParts DEF ThreadsType, ExceptionsType
  <2> QED
    BY <2>1, <2>2, TypeParts
<1>5. LifecycleInv' /\ JobInv'
  BY <1>1, <1>2, <1>3 DEF LifecycleInv, JobInv, CsdInv, Submitting
<1>6. TimeInv'
  <2>1. queued.unit \in 0 .. MaxTimestamp /\ lastTimestampUs \in 0 .. MaxTimestamp
    BY <1>1, TypeParts DEF UnitType, CodecType
  <2>2. queued.unit <= lastTimestampUs
    BY <1>1 DEF TimeInv
  <2> QED
    BY <1>2, <2>1, <2>2 DEF TimeInv
<1>7. CsdInv'
  BY <1>1, <1>2, <1>3 DEF CsdInv
<1> QED
  BY <1>4, <1>5, <1>6, <1>7 DEF IInv

\* While stopping a unit is dropped.
LEMMA SubmitIgnoredInv ==
    ASSUME IInv, SubmitIgnored
    PROVE  IInv'
<1>1. TypeOK /\ LifecycleInv /\ JobInv /\ CsdInv /\ TimeInv
  BY DEF IInv
<1>2. /\ pc["decode"] = "idle" /\ stopping
      /\ UNCHANGED <<stopping, threadVars, pc, excVars, waited, job,
                     lastTimestampUs, csdVars, adaptivePlayback, codecGot>>
  BY DEF SubmitIgnored, CanSubmit
<1>3. stream' \in [next : {"sps", "pps", "idr", "p"}, idr : Generations]
  BY <1>1, NextUnitType, TypeParts DEF SubmitIgnored, UnitType
<1>4. TypeOK'
  <2>1. FlagsType' /\ UnitType' /\ CodecType'
    BY <1>1, <1>2, <1>3, TypeParts DEF FlagsType, UnitType, CodecType
  <2>2. ThreadsType' /\ ExceptionsType'
    BY <1>1, <1>2, TypeParts DEF ThreadsType, ExceptionsType
  <2> QED
    BY <2>1, <2>2, TypeParts
<1>5. LifecycleInv' /\ JobInv' /\ CsdInv' /\ TimeInv'
  BY <1>1, <1>2 DEF LifecycleInv, JobInv, CsdInv, TimeInv, Submitting
<1> QED
  BY <1>4, <1>5 DEF IInv

\* Up to the call of queueInputBuffer() the unit stays the same; but the saved
\* parameter sets go in front of a frame, and an exception or the end of the wait
\* drops it.
LEMMA BufferEffect ==
    ASSUME IInv,
           DequeueWaits \/ Dequeue \/ FillThrows \/ Fill \/ FillOverflows \/ QueueThrows
    PROVE  /\ Submitting /\ pc' \in [Threads -> Labels] /\ pc'["render"] = pc["render"]
           /\ pc'["decode"] \in {"dequeue", "fill", "queue"} \cup Handler
           /\ waited' \in BOOLEAN /\ reportedCrash' \in {reportedCrash, TRUE}
           /\ crash' \in {crash, "too large"}
           /\ UNCHANGED <<stopping, threadVars, initialException, initialExceptionTimestamp,
                          stream, lastTimestampUs, csd, submittedCsd, needsBaselineSpsHack,
                          adaptivePlayback, codecGot>>
           /\ \/ /\ UNCHANGED <<job, submitCsdNextCall>>
                 /\ pc'["decode"] = "queue" => job # "frame" \/ ~submitCsdNextCall
              \/ /\ job = "frame" /\ submitCsdNextCall
                 /\ job' = "csd and frame" /\ submitCsdNextCall' = FALSE
<1> USE DEF IInv, LifecycleInv, TypeOK, Submitting, Labels, Handler
<1>1. CASE DequeueWaits
  BY <1>1 DEF DequeueWaits
<1>2. CASE Dequeue
  BY <1>2 DEF Dequeue
<1>3. CASE FillThrows
  BY <1>3 DEF FillThrows
<1>4. CASE Fill
  BY <1>4 DEF Fill
<1>5. CASE FillOverflows
  BY <1>5 DEF FillOverflows
<1>6. CASE QueueThrows
  BY <1>6 DEF QueueThrows
<1> QED
  BY <1>1, <1>2, <1>3, <1>4, <1>5, <1>6

\* The steps that get, fill and queue an input buffer keep the invariant.
LEMMA BufferInv ==
    ASSUME IInv,
           DequeueWaits \/ Dequeue \/ FillThrows \/ Fill \/ FillOverflows \/ QueueThrows
    PROVE  IInv'
<1>1. TypeOK /\ LifecycleInv /\ JobInv /\ CsdInv /\ TimeInv
  BY DEF IInv
<1>2. /\ Submitting /\ pc' \in [Threads -> Labels] /\ pc'["render"] = pc["render"]
      /\ pc'["decode"] \in {"dequeue", "fill", "queue"} \cup Handler
      /\ waited' \in BOOLEAN /\ reportedCrash' \in {reportedCrash, TRUE}
      /\ crash' \in {crash, "too large"}
      /\ UNCHANGED <<stopping, threadVars, initialException, initialExceptionTimestamp,
                     stream, lastTimestampUs, csd, submittedCsd, needsBaselineSpsHack,
                     adaptivePlayback, codecGot>>
      /\ \/ /\ UNCHANGED <<job, submitCsdNextCall>>
            /\ pc'["decode"] = "queue" => job # "frame" \/ ~submitCsdNextCall
         \/ /\ job = "frame" /\ submitCsdNextCall
            /\ job' = "csd and frame" /\ submitCsdNextCall' = FALSE
  BY BufferEffect
<1>3. TypeOK'
  <2>1. FlagsType' /\ UnitType'
    BY <1>1, <1>2, TypeParts DEF FlagsType, UnitType
  <2>2. CodecType' /\ ThreadsType'
    BY <1>1, <1>2, TypeParts DEF CodecType, ThreadsType
  <2>3. ExceptionsType'
    BY <1>1, <1>2, TypeParts DEF ExceptionsType
  <2> QED
    BY <2>1, <2>2, <2>3, TypeParts
<1>4. LifecycleInv'
  BY <1>1, <1>2 DEF LifecycleInv, Submitting
<1>5. JobInv' /\ CsdInv' /\ TimeInv'
  <2>1. job \in {"csd", "frame", "csd and frame", "replay"}
    BY <1>1, <1>2, TypeParts DEF UnitType, JobInv
  <2>2. CASE UNCHANGED <<job, submitCsdNextCall>> /\ (pc'["decode"] = "queue" => job # "frame" \/ ~submitCsdNextCall)
    <3>1. JobInv'
      BY <1>1, <1>2, <2>1, <2>2 DEF JobInv, Handler
    <3>2. CsdInv' /\ TimeInv'
      BY <1>1, <1>2, <2>2 DEF CsdInv, TimeInv, Handler
    <3> QED
      BY <3>1, <3>2
  <2>3. CASE /\ job = "frame" /\ submitCsdNextCall
             /\ job' = "csd and frame" /\ submitCsdNextCall' = FALSE
    <3>1. JobInv'
      BY <1>1, <1>2, <2>3 DEF JobInv, Handler
    <3>2. CsdInv' /\ TimeInv'
      BY <1>1, <1>2, <2>3 DEF JobInv, CsdInv, TimeInv, Handler
    <3> QED
      BY <3>1, <3>2
  <2> QED
    BY <1>2, <2>2, <2>3
<1> QED
  BY <1>3, <1>4, <1>5 DEF IInv

\* The wait for a buffer ends with stopping.
LEMMA DequeueGivesUpInv ==
    ASSUME IInv, DequeueGivesUp
    PROVE  IInv'
<1>1. TypeOK /\ LifecycleInv /\ JobInv /\ CsdInv /\ TimeInv
  BY DEF IInv
<1>2. /\ pc["decode"] = "dequeue" /\ stopping
      /\ UNCHANGED <<stopping, threadVars, initialException, initialExceptionTimestamp,
                     lastTimestampUs, csdVars, adaptivePlayback, codecGot>>
      /\ \/ /\ pc' = [pc EXCEPT !["decode"] = "crashed"] /\ UNCHANGED <<stream, job, waited>>
            /\ crash' = "hung" /\ reportedCrash' = TRUE
         \/ /\ pc' = [pc EXCEPT !["decode"] = "idle"] /\ NeedIdr
            /\ UNCHANGED <<crash, reportedCrash>>
  BY DEF DequeueGivesUp, HandlerReturns
<1>3. /\ stream' \in [next : {"sps", "pps", "idr", "p"}, idr : Generations]
      /\ UNCHANGED <<stream, job, waited>> \/ (stream'.next = "sps" /\ job' = "none" /\ waited' = FALSE)
  BY <1>1, <1>2, NeedIdrEffect, TypeParts DEF UnitType
<1>4. /\ pc' \in [Threads -> Labels] /\ pc'["render"] = pc["render"]
      /\ pc'["decode"] \in {"idle", "crashed"}
      /\ pc'["decode"] = "idle" => job' = "none"
  BY <1>1, <1>2, NeedIdrEffect DEF LifecycleInv, Labels, Handler
<1>5. TypeOK'
  <2>1. FlagsType' /\ UnitType' /\ CodecType'
    BY <1>1, <1>2, <1>3, TypeParts DEF FlagsType, UnitType, CodecType
  <2>2. ThreadsType'
    BY <1>1, <1>2, <1>4, TypeParts DEF ThreadsType, Handler
  <2>3. ExceptionsType'
    BY <1>1, <1>2, TypeParts DEF ExceptionsType
  <2> QED
    BY <2>1, <2>2, <2>3, TypeParts
<1>6. LifecycleInv'
  BY <1>1, <1>2, <1>4 DEF LifecycleInv
<1>7. JobInv' /\ CsdInv' /\ TimeInv'
  BY <1>1, <1>2, <1>3, <1>4 DEF JobInv, CsdInv, TimeInv, Submitting
<1> QED
  BY <1>5, <1>6, <1>7 DEF IInv

\* Whatever the codec gets a buffer for, it then has both parameter sets of the
\* stream's IDR frame; and the buffer is later than its last one.
LEMMA QueueEffect ==
    ASSUME IInv, NEW now \in Times, Queue(now)
    PROVE  /\ pc["decode"] = "queue" /\ ~submitCsdNextCall
           /\ config' = ParametersOf(stream.idr)
           /\ \/ job = "replay" /\ queued' = [queued EXCEPT !.replay = now]
              \/ /\ job # "replay" /\ queued.unit < lastTimestampUs
                 /\ queued' = [queued EXCEPT !.unit = lastTimestampUs]
<1>1. JobInv /\ CsdInv /\ TimeInv /\ pc["decode"] = "queue" /\ Submitting
  BY DEF IInv, Queue, Submitting
<1>2. /\ stream.next = "pps" => csd["sps"] = stream.idr
      /\ job = "replay" => config = ParametersOf(stream.idr)
      /\ stream.next \in {"idr", "p"} =>
            IF submitCsdNextCall \/ job = "csd and frame"
            THEN csd = ParametersOf(stream.idr)
            ELSE config = ParametersOf(stream.idr)
  BY <1>1 DEF CsdInv
<1>3. job \in {"csd", "frame", "csd and frame", "replay"} /\ ~submitCsdNextCall
  BY <1>1 DEF JobInv, IInv, TypeOK
<1>4. config' = ParametersOf(stream.idr)
  <2>1. CASE job = "csd"
    <3>1. csd.sps = stream.idr
      BY <1>1, <1>2, <2>1 DEF JobInv
    <3> QED
      BY <2>1, <3>1 DEF Queue, ParametersOf
  <2>2. CASE job = "csd and frame"
    BY <1>1, <1>2, <2>2 DEF Queue, JobInv
  <2>3. CASE job \in {"frame", "replay"}
    <3>1. config' = config
      BY <2>3 DEF Queue
    <3> QED
      BY <1>1, <1>2, <1>3, <2>3, <3>1 DEF JobInv
  <2> QED
    BY <1>3, <2>1, <2>2, <2>3
<1>5. CASE job = "replay"
  BY <1>1, <1>3, <1>4, <1>5 DEF Queue
<1>6. CASE job # "replay"
  <2>1. queued' = [queued EXCEPT !.unit = lastTimestampUs]
    BY <1>6 DEF Queue
  <2>2. queued.unit < lastTimestampUs
    BY <1>1, <1>6 DEF TimeInv
  <2> QED
    BY <1>1, <1>3, <1>4, <1>6, <2>1, <2>2
<1> QED
  BY <1>5, <1>6

\* What the codec gets keeps its type.
LEMMA QueuedType ==
    ASSUME NEW q \in [unit : 0 .. MaxTimestamp, replay : 0 .. MaxTimestamp],
           NEW n \in 0 .. MaxTimestamp
    PROVE  /\ [q EXCEPT !.unit = n] \in [unit : 0 .. MaxTimestamp, replay : 0 .. MaxTimestamp]
           /\ [q EXCEPT !.replay = n] \in [unit : 0 .. MaxTimestamp, replay : 0 .. MaxTimestamp]
OBVIOUS

\* The codec gets the buffer.
LEMMA QueueInv ==
    ASSUME IInv, NEW now \in Times, Queue(now)
    PROVE  IInv'
<1>1. TypeOK /\ LifecycleInv /\ JobInv /\ CsdInv /\ TimeInv
  BY DEF IInv
<1>2. /\ pc["decode"] = "queue" /\ ~submitCsdNextCall
      /\ config' = ParametersOf(stream.idr)
      /\ \/ job = "replay" /\ queued' = [queued EXCEPT !.replay = now]
         \/ /\ job # "replay" /\ queued.unit < lastTimestampUs
            /\ queued' = [queued EXCEPT !.unit = lastTimestampUs]
  BY QueueEffect
<1>3. UNCHANGED <<stopping, threadVars, excVars, waited, lastTimestampUs, csd,
                  submitCsdNextCall, adaptivePlayback>>
  BY DEF Queue
<1>4. job \in {"csd", "frame", "csd and frame", "replay"} /\ Submitting
  BY <1>1, <1>2 DEF JobInv, TypeOK, Submitting
<1>5. \/ /\ job = "csd" /\ job' = "replay" /\ pc' = [pc EXCEPT !["decode"] = "dequeue"]
         /\ UNCHANGED stream
      \/ /\ job' = "none" /\ pc' = [pc EXCEPT !["decode"] = "idle"]
         /\ stream' \in NextUnit
  BY DEF Queue
<1>6. /\ stream' \in [next : {"sps", "pps", "idr", "p"}, idr : Generations]
      /\ stream.idr \in Generations
      /\ stream'.next \in {"sps", "pps"} \/ stream'.idr = stream.idr
      /\ UNCHANGED stream \/ stream'.next # "pps"
  <2>1. stream \in [next : {"sps", "pps", "idr", "p"}, idr : Generations]
    BY <1>1, TypeParts DEF UnitType
  <2>2. CASE UNCHANGED stream
    BY <2>1, <2>2
  <2>3. CASE stream' \in NextUnit
    <3>1. /\ stream' \in [next : {"sps", "pps", "idr", "p"}, idr : Generations]
          /\ stream'.next = "pps" => stream.next = "sps"
          /\ stream'.next \in {"idr", "p"} => stream'.idr = stream.idr
      BY <2>1, <2>3, NextUnitType
    <3>2. stream.next # "sps"
      BY <1>1, <1>4 DEF JobInv
    <3> QED
      BY <2>1, <3>1, <3>2
  <2> QED
    BY <1>5, <2>2, <2>3
<1>7. /\ pc' \in [Threads -> Labels] /\ pc'["render"] = pc["render"]
      /\ (job' = "replay" /\ pc'["decode"] = "dequeue") \/ (job' = "none" /\ pc'["decode"] = "idle")
  BY <1>1, <1>5 DEF LifecycleInv, Labels
<1>8. TypeOK'
  <2>1. FlagsType'
    BY <1>1, <1>3, TypeParts DEF FlagsType, Queue
  <2>2. UnitType'
    BY <1>1, <1>3, <1>6, <1>7, TypeParts DEF UnitType
  <2>3. CodecType'
    <3>1. config' \in [sps : Generations, pps : Generations]
      BY <1>2, <1>6 DEF ParametersOf
    <3>2. queued' \in [unit : 0 .. MaxTimestamp, replay : 0 .. MaxTimestamp]
      <4>1. /\ queued \in [unit : 0 .. MaxTimestamp, replay : 0 .. MaxTimestamp]
            /\ lastTimestampUs \in 0 .. MaxTimestamp
        BY <1>1, TypeParts DEF UnitType, CodecType
      <4>2. now \in 0 .. MaxTimestamp
        BY BoundsAssumption
      <4> QED
        BY <1>2, <4>1, <4>2, QueuedType
    <3> QED
      BY <1>1, <1>3, <3>1, <3>2, TypeParts DEF CodecType
  <2>4. ThreadsType'
    BY <1>1, <1>3, <1>7, TypeParts DEF ThreadsType
  <2>5. ExceptionsType'
    BY <1>1, <1>3, TypeParts DEF ExceptionsType
  <2> QED
    BY <2>1, <2>2, <2>3, <2>4, <2>5, TypeParts
<1>9. LifecycleInv' /\ JobInv'
  BY <1>1, <1>2, <1>3, <1>4, <1>5, <1>7 DEF LifecycleInv, JobInv, Submitting
<1>10. CsdInv'
  <2>1. submitCsdNextCall' = FALSE
    BY <1>2, <1>3
  <2>2. stream'.next = "pps" => csd'["sps"] = stream'.idr
    BY <1>1, <1>3, <1>4, <1>6 DEF CsdInv
  <2>3. config' = ParametersOf(stream'.idr) \/ stream'.next = "sps"
    BY <1>2, <1>5, <1>6
  <2>4. job' = "replay" => UNCHANGED stream
    BY <1>5
  <2> QED
    BY <1>2, <1>7, <2>1, <2>2, <2>3, <2>4 DEF CsdInv
<1>11. TimeInv'
  <2>1. /\ queued \in [unit : 0 .. MaxTimestamp, replay : 0 .. MaxTimestamp]
        /\ lastTimestampUs \in 0 .. MaxTimestamp
    BY <1>1, TypeParts DEF UnitType, CodecType
  <2>2. queued'.unit \in {queued.unit, lastTimestampUs}
    BY <1>2, <2>1
  <2>3. queued'.unit <= lastTimestampUs
    BY <1>1, <2>1, <2>2 DEF TimeInv
  <2> QED
    BY <1>3, <1>7, <2>3 DEF TimeInv, Submitting
<1> QED
  BY <1>8, <1>9, <1>10, <1>11 DEF IInv

-----------------------------------------------------------------------------
(***************************************************************************)
(* The theorems.                                                           *)
(***************************************************************************)

\* Before setup() there is no codec, and nothing is saved or queued.
LEMMA InitIInv == Init => IInv
<1> SUFFICES ASSUME Init PROVE IInv
  OBVIOUS
<1>1. TypeOK
  <2>1. FlagsType /\ ExceptionsType
    BY DEF Init, FlagsType, ExceptionsType
  <2>2. UnitType /\ CodecType
    BY BoundsAssumption DEF Init, UnitType, CodecType, Generations
  <2>3. ThreadsType
    BY DEF Init, ThreadsType
  <2> QED
    BY <2>1, <2>2, <2>3, TypeParts
<1>2. LifecycleInv
  BY DEF Init, LifecycleInv, Labels
<1>3. JobInv /\ CsdInv /\ TimeInv
  BY DEF Init, JobInv, CsdInv, TimeInv, Submitting
<1> QED
  BY <1>1, <1>2, <1>3 DEF IInv

\* Every step of Next is of one of the groups above.
LEMMA NextSteps ==
    ASSUME Next
    PROVE  \/ LifecycleStep
           \/ \E e \in Times : SubmitSaved(e) \/ SubmitBuffer(e)
           \/ SubmitIgnored
           \/ DequeueWaits \/ Dequeue \/ FillThrows \/ Fill \/ FillOverflows \/ QueueThrows
           \/ DequeueGivesUp
           \/ \E now \in Times : Queue(now)
           \/ \E t \in Threads : HandleException(t)
BY DEF Next, LifecycleStep, Stopper, Renderer, DecodeStep

\* Every step keeps the invariant.
LEMMA NextIInv == IInv /\ [Next]_vars => IInv'
<1> SUFFICES ASSUME IInv, [Next]_vars PROVE IInv'
  OBVIOUS
<1>1. CASE Next
  BY <1>1, NextSteps, LifecycleKeeps, SubmitSavedInv, SubmitBufferInv, SubmitIgnoredInv,
     BufferInv, DequeueGivesUpInv, QueueInv, HandlerInv
<1>2. CASE UNCHANGED vars
  <2>1. TypeOK /\ LifecycleInv /\ JobInv /\ CsdInv /\ TimeInv
    BY DEF IInv
  <2>2. FlagsType' /\ UnitType' /\ CodecType'
    BY <1>2, <2>1, TypeParts DEF vars, FlagsType, UnitType, CodecType
  <2>3. ThreadsType'
    BY <1>2, <2>1, TypeParts DEF vars, ThreadsType
  <2>4. ExceptionsType'
    BY <1>2, <2>1, TypeParts DEF vars, ExceptionsType
  <2>5. LifecycleInv' /\ JobInv' /\ CsdInv' /\ TimeInv'
    BY <1>2, <2>1 DEF vars, LifecycleInv, JobInv, CsdInv, TimeInv, Submitting
  <2> QED
    BY <2>2, <2>3, <2>4, <2>5, TypeParts DEF IInv
<1> QED
  BY <1>1, <1>2

\* The invariant holds in every reachable state.
THEOREM Invariant == Spec => []IInv
BY InitIInv, NextIInv, PTL DEF Spec

\* The codec is released only when neither thread can still call it, although no
\* lock protects it.
THEOREM ReleaseIsSafe == Spec => []ReleasedWhenUnused
<1>1. IInv => ReleasedWhenUnused
  BY DEF IInv, LifecycleInv, ReleasedWhenUnused
<1> QED
  BY <1>1, Invariant, PTL

\* A buffer gets to the codec only by queueInputBuffer().
LEMMA OnlyQueueQueues ==
    ASSUME IInv, Next, NEW jobs, Queued(jobs)
    PROVE  \E now \in Times : Queue(now)
<1> USE DEF Queued
<1>0. pc["decode"] = "queue" /\ pc'["decode"] \in {"dequeue", "idle"}
  OBVIOUS
<1>1. ~LifecycleStep
  <2>1. LifecycleStep => pc'["decode"] = pc["decode"]
    BY DEF IInv, LifecycleInv, LifecycleStep, Setup, Start, PrepareForStop, Stop, StopJoins,
           Cleanup, RenderLoop, RenderOutput, DelayPasses
  <2> QED
    BY <1>0, <2>1
<1>2. \A e \in Times : ~(SubmitSaved(e) \/ SubmitBuffer(e))
  BY <1>0 DEF SubmitSaved, SubmitBuffer, CanSubmit
<1>3. ~SubmitIgnored /\ ~DequeueGivesUp
  BY <1>0 DEF SubmitIgnored, CanSubmit, DequeueGivesUp
<1>4. ~(DequeueWaits \/ Dequeue \/ FillThrows \/ Fill \/ FillOverflows)
  BY <1>0 DEF DequeueWaits, Dequeue, FillThrows, Fill, FillOverflows
<1>5. ~QueueThrows
  BY <1>0 DEF QueueThrows, IInv, LifecycleInv
<1>6. \A t \in Threads : ~HandleException(t)
  <2> SUFFICES ASSUME NEW t \in Threads, HandleException(t) PROVE FALSE
    OBVIOUS
  <2>1. pc[t] \in Handler /\ \A u \in Threads : u # t => pc'[u] = pc[u]
    BY HandlerEffect
  <2> QED
    BY <1>0, <2>1 DEF Handler
<1> QED
  BY <1>1, <1>2, <1>3, <1>4, <1>5, <1>6, NextSteps

\* However the codec's calls fail and the library retries, a frame reaches the codec
\* only after both parameter sets of its own IDR frame.
THEOREM ParametersComeFirst == Spec => FramesHaveParameters
<1>1. ASSUME IInv, [Next]_vars
      PROVE  [Queued({"frame", "csd and frame"}) =>
                config' = [sps |-> stream.idr, pps |-> stream.idr]]_vars
  BY <1>1, OnlyQueueQueues, QueueEffect DEF ParametersOf
<1> QED
  BY <1>1, Invariant, PTL DEF Spec, FramesHaveParameters

\* No two buffers of units have the same timestamp, nor do they go back, whatever
\* the times at which the units were enqueued and whatever SPS is replayed between.
THEOREM TimestampsGrow == Spec => TimestampsIncrease
<1>1. ASSUME IInv, [Next]_vars
      PROVE  [Queued({"csd", "frame", "csd and frame"}) => queued'.unit > queued.unit]_vars
  <2> SUFFICES ASSUME Next, Queued({"csd", "frame", "csd and frame"})
               PROVE  queued'.unit > queued.unit
    BY <1>1
  <2>1. job # "replay"
    BY DEF Queued
  <2>2. /\ queued \in [unit : 0 .. MaxTimestamp, replay : 0 .. MaxTimestamp]
        /\ lastTimestampUs \in 0 .. MaxTimestamp
    BY <1>1, TypeParts DEF IInv, UnitType, CodecType
  <2>3. queued' = [queued EXCEPT !.unit = lastTimestampUs] /\ queued.unit < lastTimestampUs
    BY <1>1, <2>1, OnlyQueueQueues, QueueEffect
  <2> QED
    BY <2>2, <2>3
<1> QED
  BY <1>1, Invariant, PTL DEF Spec, TimestampsIncrease
=============================================================================
