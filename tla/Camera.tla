-------------------------------- MODULE Camera --------------------------------
(***************************************************************************)
(* The camera behind the scanning screens.  Each mount of CameraViewport,  *)
(* and each change of its callbacks, runs its effect anew; a run that was  *)
(* disposed of may still be loading the scanner, asking for permission or  *)
(* shutting down when the next one starts, and all of them share the one   *)
(* Quagga of the document.                                                 *)
(***************************************************************************)
EXTENDS Naturals

CONSTANTS
    None,
    Codes,      \* EAN-13 numbers with a valid check digit
    MaxRuns     \* bound on the runs of the effect

VARIABLES
    runs,
    current,    \* the run of the component on the screen
    live,       \* the runs whose stream has the camera switched on
    active,     \* CameraAccess: the stream that Quagga opened last
    told        \* what the screen was told in this showing

vars == <<runs, current, live, active, told>>

Runs == 1 .. MaxRuns

Failures == {"denied", "unavailable"}

\* "failed": init was refused, the scanner is being released.
\* "unloaded": over before there was a scanner.
Phases == {"new", "importing", "asking", "granted", "watching", "failed", "over", "unloaded"}

Run == [phase: Phases, disposed: BOOLEAN, previousCode: Codes \cup {None},
        stopping: BOOLEAN]

Fresh == [phase |-> "new", disposed |-> FALSE, previousCode |-> None, stopping |-> FALSE]

Opening(v) == runs[v].phase \in {"asking", "granted"}

-----------------------------------------------------------------------------
(* Quagga and releaseScanner.                                              *)

\* The tracks of the stream that is active now, whoever opened it.
StopActive == live' = live \ {active}

\* Mutant: the tracks are left to Quagga, which stops them later.
ReleaseLater(v) == UNCHANGED <<live, active>>

\* Before the first await: the active tracks, and those of the own video.
Release(v) == live' = live \ {active, v} /\ UNCHANGED active

\* After it: Quagga.stop and CameraAccess.release, on what is active by then.
Stopped == live' = live \ {active} /\ active' = None

-----------------------------------------------------------------------------
(* The component.                                                          *)

Started(rs) ==
    /\ current < MaxRuns
    /\ \E v \in Runs :
         /\ rs[v].phase = "new" /\ \A w \in 1 .. v - 1 : rs[w].phase # "new"
         /\ runs' = [rs EXCEPT ![v].phase = "importing"]
         /\ current' = v
    /\ told' = None

Mount == current = 0 /\ Started(runs) /\ UNCHANGED <<live, active>>

\* The cleanup; until the import there is nothing to release.
Disposed(v) ==
    IF runs[v].phase \in {"importing", "unloaded"}
    THEN [runs EXCEPT ![v].disposed = TRUE]
    ELSE [runs EXCEPT ![v].disposed = TRUE, ![v].stopping = TRUE]

Released(v) ==
    IF runs[v].phase \in {"importing", "unloaded"} THEN UNCHANGED <<live, active>>
    ELSE Release(v)

Unmount ==
    /\ current # 0
    /\ runs' = Disposed(current) /\ Released(current)
    /\ current' = 0
    /\ UNCHANGED told

\* onUnreadable is a new function each time the screen is drawn.
Redraw ==
    /\ current # 0
    /\ Started(Disposed(current)) /\ Released(current)

\* Mutant: nobody asks whether the component is still there.
TellAnyway(v, report) == told' = report

\* An error that is caught, or a reading, of a run that was disposed of is
\* not reported.
Tell(v, report) == told' = IF runs[v].disposed THEN told ELSE report

Imported(v) ==
    /\ runs[v].phase = "importing"
    /\ runs' = [runs EXCEPT ![v].phase =
                  IF runs[v].disposed THEN "unloaded" ELSE "asking"]
    /\ UNCHANGED <<current, live, active, told>>

\* No secure context, no media devices, or a chunk that does not load.
ImportFails(v) ==
    /\ runs[v].phase = "importing"
    /\ runs' = [runs EXCEPT ![v].phase = "unloaded"]
    /\ Tell(v, "unavailable")
    /\ UNCHANGED <<current, live, active>>

\* getUserMedia, inside Quagga.init.
Granted(v) ==
    /\ runs[v].phase = "asking"
    /\ runs' = [runs EXCEPT ![v].phase = "granted"]
    /\ live' = live \cup {v} /\ active' = v
    /\ UNCHANGED <<current, told>>

InitFails(v) ==
    /\ Opening(v)
    /\ runs' = [runs EXCEPT ![v].phase = "failed"]
    /\ Release(v)
    /\ UNCHANGED <<current, told>>

FailureTold(v) ==
    /\ runs[v].phase = "failed"
    /\ runs' = [runs EXCEPT ![v].phase = "over"]
    /\ Stopped
    /\ \E failure \in Failures : Tell(v, failure)
    /\ UNCHANGED current

\* Mutant: a run that was disposed of goes on to watch.
InitDoneAnyway(v) ==
    /\ runs[v].phase = "granted"
    /\ runs' = [runs EXCEPT ![v].phase = "watching"]
    /\ UNCHANGED <<current, live, active, told>>

InitDone(v) ==
    /\ runs[v].phase = "granted"
    /\ IF runs[v].disposed
       THEN /\ runs' = [runs EXCEPT ![v].phase = "over", ![v].stopping = TRUE]
            /\ Release(v)
       ELSE /\ runs' = [runs EXCEPT ![v].phase = "watching"]
            /\ UNCHANGED <<live, active>>
    /\ UNCHANGED <<current, told>>

\* offDetected and clearTimeout: a run that was disposed of watches no more.
Watching(v) == runs[v].phase = "watching" /\ ~runs[v].disposed

\* Two readings of one code, whatever was misread between them.
Read(v, code) ==
    /\ Watching(v)
    /\ IF runs[v].previousCode = code
       THEN /\ runs' = [runs EXCEPT ![v].phase = "over"]
            /\ StopActive /\ Tell(v, code)
       ELSE /\ runs' = [runs EXCEPT ![v].previousCode = code]
            /\ UNCHANGED <<live, told>>
    /\ UNCHANGED <<current, active>>

\* Mutant: the clock is only set for a scanner that has not read anything.
TimeoutUnread(v) ==
    /\ Watching(v) /\ runs[v].previousCode = None
    /\ runs' = [runs EXCEPT ![v].phase = "over"]
    /\ StopActive /\ Tell(v, "unreadable")
    /\ UNCHANGED <<current, active>>

\* cameraRecognitionTimeoutMs without a second reading.
Timeout(v) ==
    /\ Watching(v)
    /\ runs' = [runs EXCEPT ![v].phase = "over"]
    /\ StopActive /\ Tell(v, "unreadable")
    /\ UNCHANGED <<current, active>>

Stop(v) ==
    /\ runs[v].stopping
    /\ runs' = [runs EXCEPT ![v].stopping = FALSE]
    /\ Stopped
    /\ UNCHANGED <<current, told>>

-----------------------------------------------------------------------------
Init ==
    /\ runs = [v \in Runs |-> Fresh]
    /\ current = 0
    /\ live = {} /\ active = None
    /\ told = None

\* A permission that is neither given nor refused is waited for for ever.
Scanner(v) == Imported(v) \/ ImportFails(v) \/ InitDone(v) \/ FailureTold(v)
              \/ Timeout(v) \/ Stop(v)

Next ==
    \/ Mount \/ Unmount \/ Redraw
    \/ \E v \in Runs : \/ Scanner(v) \/ Granted(v) \/ InitFails(v)
                       \/ \E code \in Codes : Read(v, code)

\* The browser runs its timers and settles what it has begun.
Fairness == \A v \in Runs : WF_vars(Scanner(v))

Spec == Init /\ [][Next]_vars /\ Fairness

-----------------------------------------------------------------------------
(* Properties.                                                             *)

\* Runs, streams and reports are of their types.
TypeOK ==
    /\ runs \in [Runs -> Run] /\ current \in Runs \cup {0}
    /\ live \subseteq Runs /\ active \in Runs \cup {None}
    /\ told \in Codes \cup Failures \cup {"unreadable", None}

\* The camera goes out with the screen, without waiting for Quagga; only a
\* permission asked for before may switch it on once more, until init returns.
CameraOff == current = 0 /\ (\A v \in Runs : ~Opening(v)) => live = {}

\* What the screen is promised, however its runs overlap.
Promise == INSTANCE Viewport WITH
    Reports <- Codes \cup Failures \cup {"unreadable"}, mounted <- current # 0

KeepsPromise == Promise!Spec

\* A scanner that watches ends with a report or with the screen, even if a run
\* before it has stopped its stream.
WatchingEnds == (\E v \in Runs : Watching(v)) ~> (\A v \in Runs : ~Watching(v))
=============================================================================
