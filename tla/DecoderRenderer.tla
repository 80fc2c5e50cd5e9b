--------------------------- MODULE DecoderRenderer ---------------------------
(***************************************************************************)
(* MediaCodecDecoderRenderer.  Five threads call it or are its own: the    *)
(* start thread (setup, start), the decode thread of moonlight-common-c    *)
(* (submitDecodeUnit), the renderer thread, the main thread, which calls   *)
(* prepareForStop() when the surface goes, and the stop thread (stop,      *)
(* cleanup).  No lock protects the fields they share; only stopping is     *)
(* volatile.                                                               *)
(*                                                                         *)
(* A decode unit is the parameter sets of an IDR frame ("sps", which       *)
(* stands for VPS and SPS, and "pps"), the IDR frame, or a P frame.  The   *)
(* statistics, the contents of an SPS and its patches are left out.        *)
(***************************************************************************)
EXTENDS Integers

CONSTANTS
    Times,            \* what the clock shows when a unit is enqueued or an SPS is
                      \* replayed, in microseconds; a unit may be submitted later
    MaxTimestamp,     \* bound: a unit is submitted below this timestamp
    MaxGeneration     \* bound on the IDR frames of the stream

ASSUME BoundsAssumption ==
    /\ Times \subseteq 1 .. MaxTimestamp
    /\ MaxTimestamp \in Nat /\ MaxGeneration \in Nat \ {0}

Threads == {"decode", "render"}

VARIABLES
    stopping,                    \* the volatile field
    codec,                       \* the MediaCodec
    starter,                     \* the start thread: setup(), start()
    stopper,                     \* the stop thread: stop(), cleanup()
    pc,                          \* program counters of the two Threads
    initialException,            \* is the field set
    initialExceptionTimestamp,   \* the field against the clock
    reportedCrash,               \* the field
    crash,                       \* what was thrown that ends the process
    waited,                      \* dequeueInputBuffer() waited 5 s or longer
    stream,                      \* the unit to submit next, and its IDR frame
    job,                         \* what the decode thread fills a buffer with
    lastTimestampUs,
    csd,                         \* the saved parameter sets, by IDR frame
    submittedCsd,
    submitCsdNextCall,
    adaptivePlayback,            \* chosen by setup()
    needsBaselineSpsHack,
    config,                      \* the parameter sets the codec got last
    queued                       \* the timestamps it got last: of a unit, and of an
                                 \* SPS that was replayed

excVars    == <<initialException, initialExceptionTimestamp, reportedCrash, crash>>
csdVars    == <<csd, submittedCsd, submitCsdNextCall, needsBaselineSpsHack>>
codecGot   == <<config, queued>>
threadVars == <<codec, starter, stopper>>
vars == <<stopping, threadVars, pc, excVars, waited, stream, job,
          lastTimestampUs, csdVars, adaptivePlayback, codecGot>>

\* In an exception handler: about to read stopping, to set initialException, to
\* set its timestamp, to read the timestamp, to read reportedCrash, to set it, to
\* throw.  A thread that crashed stays so until the process is killed.
Handler == {"caught", "record", "stamp", "seen", "report", "notify", "throw",
            "crashed"}

Generations == 0 .. MaxGeneration

TypeOK ==
    /\ stopping \in BOOLEAN
    /\ codec \in {"none", "created", "running", "released"}
    /\ starter \in {"new", "setup", "started", "failed"}
    /\ stopper \in {"none", "join", "stopped", "done"}
    /\ pc["decode"] \in {"idle", "dequeue", "fill", "queue"} \cup Handler
    /\ pc["render"] \in {"none", "loop", "output", "ended"} \cup Handler
    /\ initialException \in BOOLEAN
    /\ initialExceptionTimestamp \in {"zero", "recent", "old"}
    /\ reportedCrash \in BOOLEAN
    /\ crash \in {"none", "exception", "hung", "too large"}
    /\ waited \in BOOLEAN
    /\ stream \in [next : {"sps", "pps", "idr", "p"}, idr : Generations]
    /\ job \in {"none", "csd", "frame", "csd and frame", "replay"}
    /\ lastTimestampUs \in 0 .. MaxTimestamp
    /\ csd \in [sps : Generations, pps : Generations]
    /\ submittedCsd \in BOOLEAN
    /\ submitCsdNextCall \in BOOLEAN
    /\ adaptivePlayback \in BOOLEAN
    /\ needsBaselineSpsHack \in BOOLEAN
    /\ config \in [sps : Generations, pps : Generations]
    /\ queued \in [unit : 0 .. MaxTimestamp, replay : 0 .. MaxTimestamp]

Init ==
    /\ stopping = FALSE
    /\ codec = "none"
    /\ starter = "new"
    /\ stopper = "none"
    /\ pc = [decode |-> "idle", render |-> "none"]
    /\ initialException = FALSE
    /\ initialExceptionTimestamp = "zero"
    /\ reportedCrash = FALSE
    /\ crash = "none"
    /\ waited = FALSE
    /\ stream = [next |-> "sps", idr |-> 1]
    /\ job = "none"
    /\ lastTimestampUs = 0
    /\ csd = [sps |-> 0, pps |-> 0]
    /\ submittedCsd = FALSE
    /\ submitCsdNextCall = FALSE
    /\ adaptivePlayback \in BOOLEAN
    /\ needsBaselineSpsHack \in BOOLEAN
    /\ config = [sps |-> 0, pps |-> 0]
    /\ queued = [unit |-> 0, replay |-> 0]

Goto(t, label) == pc' = [pc EXCEPT ![t] = label]

-----------------------------------------------------------------------------
(***************************************************************************)
(* setup(), start(), prepareForStop(), stop() and cleanup().               *)
(***************************************************************************)

\* setup() fails before the codec is created, or after (the surface is gone), or
\* succeeds.  The library does not call cleanup() after a failed setup().
Setup ==
    /\ starter = "new"
    /\ \/ starter' = "failed" /\ codec' \in {"none", "created"}
       \/ starter' = "setup" /\ codec' = "running"
    /\ UNCHANGED <<stopping, stopper, pc, excVars, waited, stream, job,
                   lastTimestampUs, csdVars, adaptivePlayback, codecGot>>

Start ==
    /\ starter = "setup"
    /\ starter' = "started"
    /\ Goto("render", "loop")
    /\ UNCHANGED <<stopping, codec, stopper, excVars, waited, stream, job,
                   lastTimestampUs, csdVars, adaptivePlayback, codecGot>>

\* surfaceDestroyed().  The interrupt has no effect on a codec call.
PrepareForStop ==
    /\ stopping' = TRUE
    /\ UNCHANGED <<threadVars, pc, excVars, waited, stream, job,
                   lastTimestampUs, csdVars, adaptivePlayback, codecGot>>

\* stop(): prepareForStop() and join the renderer thread,
Stop ==
    /\ starter = "started" /\ stopper = "none"
    /\ stopper' = "join"
    /\ stopping' = TRUE
    /\ UNCHANGED <<codec, starter, pc, excVars, waited, stream, job,
                   lastTimestampUs, csdVars, adaptivePlayback, codecGot>>

\* or not join it,
StopWithoutJoin ==
    /\ stopper = "join"
    /\ stopper' = "stopped"
    /\ UNCHANGED <<stopping, codec, starter, pc, excVars, waited, stream, job,
                   lastTimestampUs, csdVars, adaptivePlayback, codecGot>>

StopJoins ==
    /\ stopper = "join"
    /\ pc["render"] = "ended"
    /\ stopper' = "stopped"
    /\ UNCHANGED <<stopping, codec, starter, pc, excVars, waited, stream, job,
                   lastTimestampUs, csdVars, adaptivePlayback, codecGot>>

\* cleanup(), once the library joined the decode thread.
Cleanup ==
    /\ stopper = "stopped"
    /\ pc["decode"] = "idle"
    /\ stopper' = "done"
    /\ codec' = "released"
    /\ UNCHANGED <<stopping, starter, pc, excVars, waited, stream, job,
                   lastTimestampUs, csdVars, adaptivePlayback, codecGot>>

-----------------------------------------------------------------------------
(***************************************************************************)
(* handleDecoderException(), on either thread.  The decode thread returns  *)
(* from it with DR_NEED_IDR: the library drops frames until the next IDR.  *)
(***************************************************************************)
NeedIdr ==
    /\ stream' = [next |-> "sps",
                  idr |-> IF stream.idr < MaxGeneration THEN stream.idr + 1 ELSE stream.idr]
    /\ job' = "none"
    /\ waited' = FALSE

HandlerReturns(t) ==
    IF t = "render"
    THEN Goto(t, "loop") /\ UNCHANGED <<stream, job, waited>>
    ELSE Goto(t, "idle") /\ NeedIdr

\* A transient exception of the renderer thread is let go; none is thrown while
\* stopping; otherwise initialException is read.
Caught(t) ==
    /\ pc[t] = "caught"
    /\ \/ (t = "render" \/ stopping) /\ HandlerReturns(t)
       \/ /\ ~stopping
          /\ Goto(t, IF initialException THEN "seen" ELSE "record")
          /\ UNCHANGED <<stream, job, waited>>
    /\ UNCHANGED <<stopping, threadVars, excVars, lastTimestampUs, csdVars,
                   adaptivePlayback, codecGot>>

\* The first exception is recorded,
Record(t) ==
    /\ pc[t] = "record"
    /\ initialException' = TRUE
    /\ Goto(t, "stamp")
    /\ UNCHANGED <<stopping, threadVars, initialExceptionTimestamp, reportedCrash,
                   crash, waited, stream, job, lastTimestampUs, csdVars,
                   adaptivePlayback, codecGot>>

\* and then the time of it.
Stamp(t) ==
    /\ pc[t] = "stamp"
    /\ initialExceptionTimestamp' = "recent"
    /\ HandlerReturns(t)
    /\ UNCHANGED <<stopping, threadVars, initialException, reportedCrash, crash,
                   lastTimestampUs, csdVars, adaptivePlayback, codecGot>>

\* A later one is thrown if EXCEPTION_REPORT_DELAY_MS have passed: always, when
\* the timestamp is still zero.
Seen(t) ==
    /\ pc[t] = "seen"
    /\ IF initialExceptionTimestamp = "recent"
       THEN HandlerReturns(t)
       ELSE Goto(t, "report") /\ UNCHANGED <<stream, job, waited>>
    /\ UNCHANGED <<stopping, threadVars, excVars, lastTimestampUs, csdVars,
                   adaptivePlayback, codecGot>>

\* The test of reportedCrash,
Report(t) ==
    /\ pc[t] = "report"
    /\ Goto(t, IF reportedCrash THEN "throw" ELSE "notify")
    /\ UNCHANGED <<stopping, threadVars, excVars, waited, stream, job,
                   lastTimestampUs, csdVars, adaptivePlayback, codecGot>>

\* setting it, and notifyCrash().
Notify(t) ==
    /\ pc[t] = "notify"
    /\ reportedCrash' = TRUE
    /\ Goto(t, "throw")
    /\ UNCHANGED <<stopping, threadVars, initialException, crash,
                   initialExceptionTimestamp, waited, stream, job,
                   lastTimestampUs, csdVars, adaptivePlayback, codecGot>>

Throw(t) ==
    /\ pc[t] = "throw"
    /\ Goto(t, "crashed")
    /\ crash' = "exception"
    /\ UNCHANGED <<stopping, threadVars, initialException,
                   initialExceptionTimestamp, reportedCrash, waited, stream, job,
                   lastTimestampUs, csdVars, adaptivePlayback, codecGot>>

\* EXCEPTION_REPORT_DELAY_MS pass.
DelayPasses ==
    /\ initialExceptionTimestamp = "recent"
    /\ initialExceptionTimestamp' = "old"
    /\ UNCHANGED <<stopping, threadVars, pc, initialException, reportedCrash, crash,
                   waited, stream, job, lastTimestampUs, csdVars,
                   adaptivePlayback, codecGot>>

-----------------------------------------------------------------------------
(***************************************************************************)
(* The renderer thread.                                                    *)
(***************************************************************************)

\* Its loop as it would be if it relied on the interrupt.
RenderLoopForever ==
    /\ pc["render"] = "loop"
    /\ Goto("render", "output")
    /\ UNCHANGED <<stopping, threadVars, excVars, waited, stream, job,
                   lastTimestampUs, csdVars, adaptivePlayback, codecGot>>

RenderLoop ==
    /\ pc["render"] = "loop"
    /\ Goto("render", IF stopping THEN "ended" ELSE "output")
    /\ UNCHANGED <<stopping, threadVars, excVars, waited, stream, job,
                   lastTimestampUs, csdVars, adaptivePlayback, codecGot>>

\* Output buffers are dequeued and released, within 50 ms; or a call throws.
RenderOutput ==
    /\ pc["render"] = "output"
    /\ pc' \in {[pc EXCEPT !["render"] = label] : label \in {"loop", "caught"}}
    /\ UNCHANGED <<stopping, threadVars, excVars, waited, stream, job,
                   lastTimestampUs, csdVars, adaptivePlayback, codecGot>>

-----------------------------------------------------------------------------
(***************************************************************************)
(* submitDecodeUnit(), on the decode thread.                               *)
(***************************************************************************)

\* The unit after this one: the library goes on with the parts of an IDR frame,
\* then with P frames until the host sends another IDR frame.
NextUnit ==
    CASE stream.next = "sps" -> {[stream EXCEPT !.next = "pps"]}
      [] stream.next = "pps" -> {[stream EXCEPT !.next = "idr"]}
      [] OTHER -> {[stream EXCEPT !.next = "p"]} \cup
                  {[next |-> "sps", idr |-> g] : g \in {stream.idr + 1} \cap Generations}

\* The timestamp as it would be without the bump.
TimestampUnchanged(enqueueTime) == enqueueTime

\* The timestamp of a unit: its time, or one more than the last timestamp.
Timestamp(enqueueTime) ==
    IF enqueueTime <= lastTimestampUs THEN lastTimestampUs + 1 ELSE enqueueTime

NeedsBuffer ==
    \/ stream.next = "pps" /\ ~(submittedCsd /\ adaptivePlayback)
    \/ stream.next \in {"idr", "p"}

\* The library calls submitDecodeUnit() between start() and cleanup().
CanSubmit == starter = "started" /\ stopper # "done" /\ pc["decode"] = "idle"

\* While stopping every unit is answered with DR_OK.
SubmitIgnored ==
    /\ CanSubmit /\ stopping
    /\ stream' \in NextUnit
    /\ UNCHANGED <<stopping, threadVars, pc, excVars, waited, job,
                   lastTimestampUs, csdVars, adaptivePlayback, codecGot>>

\* SubmitSaved as it would be if the next call were not told about the PPS.
SubmitSavedForgetsFlag(enqueueTime) ==
    /\ CanSubmit /\ ~stopping /\ ~NeedsBuffer
    /\ lastTimestampUs < MaxTimestamp
    /\ lastTimestampUs' = Timestamp(enqueueTime)
    /\ csd' = [csd EXCEPT ![stream.next] = stream.idr]
    /\ stream' \in NextUnit
    /\ UNCHANGED <<stopping, threadVars, pc, excVars, waited, job, submittedCsd,
                   submitCsdNextCall, needsBaselineSpsHack, adaptivePlayback, codecGot>>

\* An SPS is saved.  So is a PPS, to be submitted with the frame of the next
\* call, once the codec had one and if it supports adaptive playback.
SubmitSaved(enqueueTime) ==
    /\ CanSubmit /\ ~stopping /\ ~NeedsBuffer
    /\ lastTimestampUs < MaxTimestamp
    /\ lastTimestampUs' = Timestamp(enqueueTime)
    /\ csd' = [csd EXCEPT ![stream.next] = stream.idr]
    /\ submitCsdNextCall' = (submitCsdNextCall \/ stream.next = "pps")
    /\ stream' \in NextUnit
    /\ UNCHANGED <<stopping, threadVars, pc, excVars, waited, job, submittedCsd,
                   needsBaselineSpsHack, adaptivePlayback, codecGot>>

\* Any other PPS is submitted with the SPS in a buffer of its own; a frame too.
SubmitBuffer(enqueueTime) ==
    /\ CanSubmit /\ ~stopping /\ NeedsBuffer
    /\ lastTimestampUs < MaxTimestamp
    /\ lastTimestampUs' = Timestamp(enqueueTime)
    /\ job' = IF stream.next = "pps" THEN "csd" ELSE "frame"
    /\ Goto("decode", "dequeue")
    /\ UNCHANGED <<stopping, threadVars, excVars, waited, stream, csdVars,
                   adaptivePlayback, codecGot>>

\* dequeueInputBuffer(): the codec has no free buffer for 5 s.
DequeueWaits ==
    /\ pc["decode"] = "dequeue"
    /\ ~stopping /\ ~waited
    /\ waited' = TRUE
    /\ UNCHANGED <<stopping, threadVars, pc, excVars, stream, job,
                   lastTimestampUs, csdVars, adaptivePlayback, codecGot>>

\* It has one, or throws.
Dequeue ==
    /\ pc["decode"] = "dequeue"
    /\ pc' \in {[pc EXCEPT !["decode"] = label] : label \in {"fill", "caught"}}
    /\ waited' = FALSE
    /\ UNCHANGED <<stopping, threadVars, excVars, stream, job, lastTimestampUs,
                   csdVars, adaptivePlayback, codecGot>>

\* The loop ends without a buffer only because stopping is set.
DequeueGivesUp ==
    /\ pc["decode"] = "dequeue"
    /\ stopping
    /\ IF waited /\ ~initialException
       THEN /\ crash' = "hung"
            /\ reportedCrash' = TRUE
            /\ Goto("decode", "crashed")
            /\ UNCHANGED <<stream, job, waited>>
       ELSE /\ HandlerReturns("decode")
            /\ UNCHANGED <<crash, reportedCrash>>
    /\ UNCHANGED <<stopping, threadVars, initialException, initialExceptionTimestamp,
                   lastTimestampUs, csdVars, adaptivePlayback, codecGot>>

\* getEmptyInputBuffer() throws, and the buffer stays dequeued;
FillThrows ==
    /\ pc["decode"] = "fill"
    /\ Goto("decode", "caught")
    /\ UNCHANGED <<stopping, threadVars, excVars, waited, stream, job,
                   lastTimestampUs, csdVars, adaptivePlayback, codecGot>>

\* or the unit is put into the buffer, a frame after the saved parameter sets if
\* the last call asked for that;
Fill ==
    /\ pc["decode"] = "fill"
    /\ Goto("decode", "queue")
    /\ IF job = "frame" /\ submitCsdNextCall
       THEN job' = "csd and frame" /\ submitCsdNextCall' = FALSE
       ELSE UNCHANGED <<job, submitCsdNextCall>>
    /\ UNCHANGED <<stopping, threadVars, excVars, waited, stream, lastTimestampUs,
                   csd, submittedCsd, needsBaselineSpsHack, adaptivePlayback, codecGot>>

\* or it is too large for the buffer.
FillOverflows ==
    /\ pc["decode"] = "fill" /\ job # "replay"
    /\ crash' = "too large"
    /\ reportedCrash' = TRUE
    /\ Goto("decode", "crashed")
    /\ UNCHANGED <<stopping, threadVars, initialException,
                   initialExceptionTimestamp, waited, stream, job, lastTimestampUs,
                   csdVars, adaptivePlayback, codecGot>>

\* queueInputBuffer() throws,
QueueThrows ==
    /\ pc["decode"] = "queue"
    /\ Goto("decode", "caught")
    /\ UNCHANGED <<stopping, threadVars, excVars, waited, stream, job,
                   lastTimestampUs, csdVars, adaptivePlayback, codecGot>>

\* or the codec has the buffer.  A frame is finished, and so is the replayed
\* SPS.  After a codec config buffer a decoder that was told a baseline profile
\* is given the SPS once more, with the true one, and with the time of the clock,
\* of which lastTimestampUs knows nothing.
Queue(now) ==
    /\ pc["decode"] = "queue"
    /\ submittedCsd' = (submittedCsd \/ job = "csd")
    /\ needsBaselineSpsHack' = (needsBaselineSpsHack /\ job # "csd")
    /\ IF job = "csd" /\ needsBaselineSpsHack
       THEN job' = "replay" /\ Goto("decode", "dequeue") /\ UNCHANGED stream
       ELSE job' = "none" /\ Goto("decode", "idle") /\ stream' \in NextUnit
    /\ config' = CASE job = "csd" -> [sps |-> csd.sps, pps |-> stream.idr]
                   [] job = "csd and frame" -> csd
                   [] OTHER -> config
    /\ queued' = IF job = "replay" THEN [queued EXCEPT !.replay = now]
                 ELSE [queued EXCEPT !.unit = lastTimestampUs]
    /\ UNCHANGED <<stopping, threadVars, excVars, waited, lastTimestampUs, csd,
                   submitCsdNextCall, adaptivePlayback>>

-----------------------------------------------------------------------------
HandleException(t) ==
    Caught(t) \/ Record(t) \/ Stamp(t) \/ Seen(t) \/ Report(t) \/ Notify(t) \/ Throw(t)

Renderer == RenderLoop \/ RenderOutput \/ HandleException("render")

DecodeStep ==
    \/ Dequeue \/ DequeueGivesUp \/ FillThrows \/ Fill \/ FillOverflows
    \/ QueueThrows \/ (\E now \in Times : Queue(now)) \/ HandleException("decode")

Stopper == StopJoins \/ Cleanup

Next ==
    \/ Setup \/ Start \/ PrepareForStop \/ Stop \/ Stopper
    \/ Renderer \/ DecodeStep \/ DequeueWaits \/ SubmitIgnored
    \/ \E e \in Times : SubmitSaved(e) \/ SubmitBuffer(e)
    \/ DelayPasses

Spec == Init /\ [][Next]_vars

\* The threads run, and the codec's calls return.  That the codec ever has a
\* free buffer is not assumed: only once stopping is set must the wait end.
Fairness ==
    /\ WF_vars(Renderer)
    /\ WF_vars(stopping /\ DecodeStep)
    /\ WF_vars(Stopper)

FairSpec == Spec /\ Fairness

-----------------------------------------------------------------------------
(***************************************************************************)
(* Correctness.                                                            *)
(***************************************************************************)

\* The codec is released only when neither thread can still call it, although
\* nothing but stopping tells them.
ReleasedWhenUnused ==
    /\ TypeOK
    /\ codec = "released" => pc["render"] = "ended" /\ pc["decode"] = "idle"

\* queueInputBuffer() has returned, and the codec has a buffer for one of these jobs.
Queued(jobs) == /\ pc["decode"] = "queue" /\ job \in jobs
                /\ pc'["decode"] \in {"dequeue", "idle"}

\* A frame reaches the codec only after the parameter sets of its own IDR frame,
\* both of them, whichever codec call failed before and however the library
\* retried: never with parameter sets that were saved for another frame, or
\* half of them.
FramesHaveParameters ==
    [][ Queued({"frame", "csd and frame"}) =>
          config' = [sps |-> stream.idr, pps |-> stream.idr] ]_vars

\* "We can't submit multiple buffers with the same timestamp"
\* (MediaCodecDecoderRenderer.java:714), nor go back, whatever the units' times: of
\* the buffers of the units, each is later than the one before.
TimestampsIncrease ==
    [][ Queued({"csd", "frame", "csd and frame"}) => queued'.unit > queued.unit ]_vars

\* The same of a unit after a replayed SPS.  The code does not keep this: the SPS is
\* queued with the time of the clock (:996), the frame with the time at which the
\* library enqueued it, which is the time of its parameter sets.
LaterThanReplay ==
    [][ Queued({"csd", "frame", "csd and frame"}) => queued'.unit > queued.replay ]_vars

\* stop() returns and the codec is released, unless the process crashed.
StopCompletes == stopper = "join" ~> (codec = "released" \/ crash # "none")

\* "Let the decoding code know to ignore codec exceptions now" (:557): once
\* stopping is set, a decoder that hung is not reported any more.  The code does
\* not keep this: the loop before the test for a hang ends only with stopping.
HungIsIgnoredWhenStopping ==
    [][ crash' = "hung" /\ crash = "none" => ~stopping ]_vars
=============================================================================
