----------------------------- MODULE EvdevReader -----------------------------
(***************************************************************************)
(* evdev_reader.c, the program that the rooted build runs in a root shell: *)
(* its main thread looks for input devices and carries out the client's    *)
(* requests, one more thread polls each device.  Reading an event and      *)
(* sending it is left out, as are the devices that other programs grab.    *)
(***************************************************************************)
EXTENDS Naturals, Sequences, FiniteSets

CONSTANTS
    Devices,       \* the names in /dev/input that hold "event"
    Suitable,      \* those that precheckDeviceForPolling() accepts
    Entries,       \* the DeviceEntry that can be allocated, each with its thread
    None,          \* no entry
    MaxRequests,   \* bound on what the client sends
    MaxPlugs       \* bound on how often a device is plugged in or out

ASSUME DevicesAssumption == Suitable \subseteq Devices /\ None \notin Entries \cup Devices
ASSUME BoundsAssumption == MaxRequests \in Nat /\ MaxPlugs \in Nat

Requests == {"ungrab", "regrab", "unknown"}

VARIABLES
    main,       \* what the main thread does
    todo,       \* the devices or entries that its loop has not come to
    grabbing,   \* the static variable, written under the lock and read without
    listed,     \* the entries in the device list
    name,       \* devName of each entry, None of one that is not allocated
    thread,     \* how far the thread of an entry is
    live,       \* is the device of an entry's fd still there
    grabber,    \* in the kernel: the entry whose fd has grabbed the device
    plugged,    \* the devices that are there
    socket,     \* what the client sent and the main thread did not receive
    requests, plugs

deviceVars == <<name, live, plugged>>
boundVars  == <<requests, plugs>>
vars == <<main, todo, grabbing, listed, name, thread, live, grabber, plugged,
          socket, requests, plugs>>

ThreadStates == {"none", "start", "grab", "poll", "cleanup", "unlinked"}

TypeOK ==
    /\ main \in {"enumerate", "wait", "request", "exited"}
    /\ todo \subseteq (IF main = "request" THEN Entries ELSE Devices)
    /\ grabbing \in BOOLEAN
    /\ listed \subseteq Entries
    /\ name \in [Entries -> Devices \cup {None}]
    /\ thread \in [Entries -> ThreadStates]
    /\ live \in [Entries -> BOOLEAN]
    /\ grabber \in [Devices -> Entries \cup {None}]
    /\ plugged \subseteq Devices
    /\ socket \in Seq(Requests \cup {"error", "end"})
    /\ requests \in 0 .. MaxRequests
    /\ plugs \in 0 .. MaxPlugs

\* The socket is connected, and main() begins its first enumeration.
Init ==
    /\ main = "enumerate"
    /\ plugged \in SUBSET Devices
    /\ todo = plugged
    /\ grabbing = TRUE
    /\ listed = {}
    /\ name = [e \in Entries |-> None]
    /\ thread = [e \in Entries |-> "none"]
    /\ live = [e \in Entries |-> FALSE]
    /\ grabber = [d \in Devices |-> None]
    /\ socket = <<>>
    /\ requests = 0
    /\ plugs = 0

\* ioctl(fd, EVIOCGRAB, on) on the fd of e: a device that is grabbed, be it by
\* the same fd, is not grabbed again, and only its grabber lets go of it.
GrabSucceeds(e) == live[e] /\ grabber[name[e]] = None

Ioctl(e, on) ==
    grabber' = IF on /\ GrabSucceeds(e) THEN [grabber EXCEPT ![name[e]] = e]
               ELSE IF ~on /\ grabber[name[e]] = e THEN [grabber EXCEPT ![name[e]] = None]
               ELSE grabber

-----------------------------------------------------------------------------
(***************************************************************************)
(* The devices and the client.                                             *)
(***************************************************************************)

Plug(d) ==
    /\ d \notin plugged /\ plugs < MaxPlugs
    /\ plugged' = plugged \cup {d}
    /\ plugs' = plugs + 1
    /\ UNCHANGED <<main, todo, grabbing, listed, name, thread, live, grabber, socket, requests>>

\* What was opened under this name is dead, even if the name comes back.
Unplug(d) ==
    /\ d \in plugged /\ plugs < MaxPlugs
    /\ plugged' = plugged \ {d}
    /\ live' = [e \in Entries |-> live[e] /\ name[e] # d]
    /\ grabber' = [grabber EXCEPT ![d] = None]
    /\ plugs' = plugs + 1
    /\ UNCHANGED <<main, todo, grabbing, listed, name, thread, socket, requests>>

SocketEnds == \E i \in DOMAIN socket : socket[i] = "end"

\* A request, the end of the stream, or a reset: an error and then the end.
ClientSends ==
    /\ requests < MaxRequests /\ ~SocketEnds
    /\ \E s \in {<<r>> : r \in Requests} \cup {<<"end">>, <<"error", "end">>} :
          socket' = socket \o s
    /\ requests' = requests + 1
    /\ UNCHANGED <<main, todo, grabbing, listed, deviceVars, thread, grabber, plugs>>

-----------------------------------------------------------------------------
(***************************************************************************)
(* The main thread.                                                        *)
(***************************************************************************)

\* The search as it would be if it stopped at the head of the list.
PolledByHead(d) == \E e \in listed : name[e] = d /\ listed = {e}

AlreadyPolled(d) == \E e \in listed : name[e] = d

\* malloc(): which of the entries that are free does not matter.
Free == {e \in Entries : thread[e] = "none"}

\* The entry that startPollForDevice(d) queues, if it gets so far.
CanPoll(d) ==
    IF AlreadyPolled(d) \/ d \notin plugged \cap Suitable \/ Free = {} THEN {}
    ELSE {CHOOSE e \in Free : TRUE}

\* startPollForDevice(), which holds the lock until the entry is queued.
StartPollForDevice(d) ==
    /\ main = "enumerate" /\ d \in todo
    /\ \E e \in CanPoll(d) :
          /\ listed' = listed \cup {e}
          /\ name' = [name EXCEPT ![e] = d]
          /\ live' = [live EXCEPT ![e] = TRUE]
          /\ thread' = [thread EXCEPT ![e] = "start"]
    /\ todo' = todo \ {d}
    /\ UNCHANGED <<main, grabbing, grabber, plugged, socket, boundVars>>

\* The same without an entry: the device is polled already, cannot be opened or
\* is not suitable, or malloc() or pthread_create() failed.
SkipDevice(d) ==
    /\ main = "enumerate" /\ d \in todo
    /\ todo' = todo \ {d}
    /\ UNCHANGED <<main, grabbing, listed, deviceVars, thread, grabber, socket, boundVars>>

\* closedir(), and the main thread waits in poll().
EnumerationEnds ==
    /\ main = "enumerate" /\ todo = {}
    /\ main' = "wait"
    /\ UNCHANGED <<todo, grabbing, listed, deviceVars, thread, grabber, socket, boundVars>>

\* "Timeout, re-enumerate devices".
PollTimesOut ==
    /\ main = "wait" /\ socket = <<>>
    /\ main' = "enumerate"
    /\ todo' = plugged
    /\ UNCHANGED <<grabbing, listed, deviceVars, thread, grabber, socket, boundVars>>

\* The process is gone, with its threads and its files.
Exit ==
    /\ main' = "exited"
    /\ todo' = {}
    /\ listed' = {}
    /\ thread' = [e \in Entries |-> "none"]
    /\ live' = [e \in Entries |-> FALSE]
    /\ grabber' = [d \in Devices |-> None]
    /\ name' = [e \in Entries |-> None]
    /\ UNCHANGED <<grabbing, plugged, boundVars>>

\* "Update state for future devices", under the lock until RequestDone.
SetGrabbing(r) ==
    /\ main' = "request"
    /\ todo' = listed
    /\ grabbing' = (r = "regrab")
    /\ UNCHANGED <<listed, deviceVars, thread, grabber, boundVars>>

HandleRequest(r) ==
    IF r \in {"ungrab", "regrab"} THEN SetGrabbing(r) ELSE Exit

\* recv(): its -1 is compared as an unsigned number and passes for a full read,
\* so that requestId is whatever the stack holds.
ReceiveRequest ==
    /\ main = "wait" /\ socket # <<>>
    /\ socket' = Tail(socket)
    /\ CASE Head(socket) = "end" -> Exit
         [] Head(socket) = "error" -> \E r \in Requests : HandleRequest(r)
         [] OTHER -> HandleRequest(Head(socket))

\* "Carry out the requested action on each device".
CarryOut(e) ==
    /\ main = "request" /\ e \in todo
    /\ Ioctl(e, grabbing)
    /\ todo' = todo \ {e}
    /\ UNCHANGED <<main, grabbing, listed, deviceVars, thread, socket, boundVars>>

RequestDone ==
    /\ main = "request" /\ todo = {}
    /\ main' = "wait"
    /\ UNCHANGED <<todo, grabbing, listed, deviceVars, thread, grabber, socket, boundVars>>

-----------------------------------------------------------------------------
(***************************************************************************)
(* The thread of an entry: pollThreadFunc().                               *)
(***************************************************************************)

\* It reads grabbing without the lock.
ThreadStarts(e) ==
    /\ thread[e] = "start"
    /\ thread' = [thread EXCEPT ![e] = IF grabbing THEN "grab" ELSE "poll"]
    /\ UNCHANGED <<main, todo, grabbing, listed, deviceVars, grabber, socket, boundVars>>

\* The grab as it would be if the thread tried until it has the device.
GrabUntilSuccess(e) ==
    /\ thread[e] = "grab"
    /\ Ioctl(e, TRUE)
    /\ thread' = [thread EXCEPT ![e] = IF GrabSucceeds(e) THEN "poll" ELSE "grab"]
    /\ UNCHANGED <<main, todo, grabbing, listed, deviceVars, socket, boundVars>>

\* EVIOCGRAB fails with EBUSY, also when the main thread grabbed with this fd.
Grab(e) ==
    /\ thread[e] = "grab"
    /\ Ioctl(e, TRUE)
    /\ thread' = [thread EXCEPT ![e] = IF GrabSucceeds(e) THEN "poll" ELSE "cleanup"]
    /\ UNCHANGED <<main, todo, grabbing, listed, deviceVars, socket, boundVars>>

\* poll() or read() report that the device is gone.
DeviceGone(e) ==
    /\ thread[e] = "poll" /\ ~live[e]
    /\ thread' = [thread EXCEPT ![e] = "cleanup"]
    /\ UNCHANGED <<main, todo, grabbing, listed, deviceVars, grabber, socket, boundVars>>

\* The cleanup as it would be if it did not take the lock.
UnlinkWithoutLock(e) ==
    /\ thread[e] = "cleanup"
    /\ listed' = listed \ {e}
    /\ thread' = [thread EXCEPT ![e] = "unlinked"]
    /\ UNCHANGED <<main, todo, grabbing, deviceVars, grabber, socket, boundVars>>

\* "Remove the context from the linked list", under the lock.
Unlink(e) ==
    /\ thread[e] = "cleanup" /\ main # "request"
    /\ listed' = listed \ {e}
    /\ thread' = [thread EXCEPT ![e] = "unlinked"]
    /\ UNCHANGED <<main, todo, grabbing, deviceVars, grabber, socket, boundVars>>

\* The device is let go, the file closed and the entry freed.
FreeEntry(e) ==
    /\ thread[e] = "unlinked"
    /\ Ioctl(e, FALSE)
    /\ live' = [live EXCEPT ![e] = FALSE]
    /\ name' = [name EXCEPT ![e] = None]
    /\ thread' = [thread EXCEPT ![e] = "none"]
    /\ UNCHANGED <<main, todo, grabbing, listed, plugged, socket, boundVars>>

-----------------------------------------------------------------------------
MainStep ==
    \/ \E d \in Devices : SkipDevice(d)
    \/ EnumerationEnds \/ PollTimesOut \/ ReceiveRequest \/ RequestDone
    \/ \E e \in Entries : CarryOut(e)

ThreadStep(e) ==
    ThreadStarts(e) \/ Grab(e) \/ DeviceGone(e) \/ Unlink(e) \/ FreeEntry(e)

Next ==
    \/ MainStep
    \/ ClientSends
    \/ \E d \in Devices : Plug(d) \/ Unplug(d) \/ StartPollForDevice(d)
    \/ \E e \in Entries : ThreadStep(e)

\* Threads are scheduled; memory and threads to create are not refused for ever.
Fairness ==
    /\ WF_vars(MainStep)
    /\ \A d \in Devices : SF_vars(StartPollForDevice(d))
    /\ \A e \in Entries : WF_vars(ThreadStep(e))

Spec == Init /\ [][Next]_vars /\ Fairness

-----------------------------------------------------------------------------
(***************************************************************************)
(* Correctness.                                                            *)
(***************************************************************************)

\* Whoever walks the list finds entries that are allocated and open: an entry is
\* freed by its own thread, while the main thread may hold it in its loop.  And
\* the walk of the thread, which tests lastEntry->next only, finds its entry.
ListIsAllocated ==
    /\ TypeOK
    /\ \A e \in Entries : e \in listed <=> thread[e] \notin {"none", "unlinked"}
    /\ main = "request" => todo \subseteq listed

\* One thread at most polls a device, and only while there is none does a new
\* one get the device's name.
OnePollerPerDevice ==
    \A e, f \in listed : name[e] = name[f] => e = f

\* A device that stays is polled in the end, also when a thread of it gave up
\* because the main thread, or a thread that was about to end, had grabbed it.
Polled(d) == \E e \in listed : thread[e] = "poll" /\ live[e] /\ name[e] = d
PluggedIsPolled == \A d \in Suitable :
    d \in plugged ~> (Polled(d) \/ d \notin plugged \/ main = "exited")

\* "Carry out the requested action on each device" (:385): when an ungrab request
\* has been carried out, no device that is polled is kept from Android.  The code
\* does not keep this: a thread that read grabbing before grabs after the loop.
UngrabReachesAll ==
    main = "wait" /\ ~grabbing =>
        \A e \in listed : thread[e] = "poll" => grabber[name[e]] # e
=============================================================================
