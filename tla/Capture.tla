------------------------------ MODULE Capture ------------------------------
(* The capture of debug logs: StartCapture raises the log level for a       *)
(* while, a timer lowers it again, and a new start takes over from the old. *)
EXTENDS Naturals, FiniteSets

CONSTANT MaxStarts   \* bound on the calls of StartCapture

ASSUME CaptureAssumption == MaxStarts \in Nat

VARIABLES
    capturingDebug,   \* InMemoryLogCollector.capturing
    level,            \* of the logger: "info" | "debug"
    starts,           \* calls so far: a timer bears the number of its call
    stopTimer,        \* the collector's timer, 0 before the first
    armed,            \* timers that will fire
    fired,            \* timers that have, whose StopCapture waits for the lock
    buffer            \* the debug lines kept: "empty" | "some"

captureVars == <<capturingDebug, level, starts, stopTimer, armed, fired, buffer>>

CaptureInit ==
    /\ capturingDebug = FALSE /\ level = "info"
    /\ starts = 0 /\ stopTimer = 0
    /\ armed = {} /\ fired = {}
    /\ buffer = "empty"

(* Timer.Stop keeps a timer that has not fired from firing. *)
Rearmed_ThenStopped(new) == armed \ {new}
Rearmed(new) == (IF capturingDebug THEN armed \ {stopTimer} ELSE armed) \cup {new}

StartCapture ==
    /\ starts < MaxStarts
    /\ starts' = starts + 1 /\ stopTimer' = starts + 1
    /\ armed' = Rearmed(starts + 1)
    /\ capturingDebug' = TRUE /\ level' = "debug" /\ buffer' = "empty"
    /\ UNCHANGED fired

TimerFires(t) ==
    /\ t \in armed
    /\ armed' = armed \ {t} /\ fired' = fired \cup {t}
    /\ UNCHANGED <<capturingDebug, level, starts, stopTimer, buffer>>

StopCapture(t) ==
    /\ t \in fired
    /\ fired' = fired \ {t}
    /\ IF capturingDebug
       THEN level' = "info" /\ capturingDebug' = FALSE /\ armed' = armed \ {stopTimer}
       ELSE UNCHANGED <<level, capturingDebug, armed>>
    /\ UNCHANGED <<starts, stopTimer, buffer>>

(* A debug line is written, and kept while capturing. *)
AddLog ==
    /\ level = "debug"
    /\ buffer' = IF capturingDebug THEN "some" ELSE buffer
    /\ UNCHANGED <<capturingDebug, level, starts, stopTimer, armed, fired>>

GetCaptured ==
    /\ buffer' = "empty"
    /\ UNCHANGED <<capturingDebug, level, starts, stopTimer, armed, fired>>

CaptureNext ==
    \/ StartCapture \/ AddLog \/ GetCaptured
    \/ \E t \in 1 .. MaxStarts : TimerFires(t) \/ StopCapture(t)

(* Timers fire and their functions run. *)
CaptureFairness ==
    \A t \in 1 .. MaxStarts : WF_captureVars(TimerFires(t) \/ StopCapture(t))

CaptureSpec == CaptureInit /\ [][CaptureNext]_captureVars /\ CaptureFairness
-----------------------------------------------------------------------------
CaptureTypeOK ==
    /\ level \in {"info", "debug"}
    /\ (armed \cup fired) \subseteq 1 .. starts /\ stopTimer \in 0 .. starts

(* The program does not stay at the debug level: whatever starts, stops and *)
(* timers that fired too late to be stopped do to each other, some timer is *)
(* left that lowers the level.                                              *)
DebugEnds == level = "debug" ~> level = "info"
=============================================================================
