------------------------------ MODULE WatchPvc ------------------------------
(***************************************************************************)
(* WaitUntilPvcIsBound (handler/datafoundry.go) on top of doWatch          *)
(* (handler/openshift.go): PvcVolumeJob takes a wait for its outcomes,     *)
(* here are the three goroutines and the channels behind them.             *)
(*                                                                         *)
(* The watcher reads lines from the connection and sends them on statuses, *)
(* a channel of Capacity slots; the probe asks for the claim once, three   *)
(* seconds later, and sends what it was told on a channel of AnswerSlots;  *)
(* the waiter takes what comes first, and tells the watcher to stop by     *)
(* closing canceled when it leaves.  The watcher looks at canceled only    *)
(* between two lines.                                                      *)
(***************************************************************************)
EXTENDS Naturals, Sequences

CONSTANTS
  Capacity,     \* of statuses: 5 in the code
  AnswerSlots,  \* of the probe's channel: 1 in the code
  MaxEvents     \* how many events the cluster sends

ASSUME WatchAssumption ==
  /\ Capacity \in Nat \ {0}
  /\ AnswerSlots \in Nat
  /\ MaxEvents \in Nat

VARIABLES
  phase,        \* of the claim, or what it was when it was deleted
  there,        \* whether the claim exists
  events,       \* how many events the cluster has sent
  wire,         \* lines on the connection
  watcher,      \* the goroutine of doWatch
  line,         \* what the watcher has read
  statuses,     \* the channel to the waiter
  closed,       \* whether statuses is closed
  canceled,     \* whether canceled is closed
  stopped,      \* whether stopWatching is closed
  probe,        \* the goroutine that asks for the claim, or what it was told
  answer,       \* the channel of the probe
  waiter,       \* WaitUntilPvcIsBound
  left          \* how many statuses were unread when it left

claimVars == <<phase, there, events>>
watchVars == <<wire, watcher, line, statuses, closed>>
probeVars == <<probe, answer>>
waiterVars == <<waiter, canceled, left>>
vars == <<claimVars, watchVars, probeVars, waiterVars, stopped>>

Phases == {"Pending", "Bound", "Lost"}
Statuses == Phases \cup {"error"}

Init ==
  /\ phase \in {"Pending", "Bound"}
  /\ there \in BOOLEAN
  /\ events = 0
  /\ wire = <<>>
  /\ watcher = "none"
  /\ line = "none"
  /\ statuses = <<>>
  /\ closed = FALSE
  /\ canceled = FALSE
  /\ stopped = FALSE
  /\ probe = "none"
  /\ answer = <<>>
  /\ waiter = "called"
  /\ left = 0

-----------------------------------------------------------------------------
(* The claim changes its phase, is written to without changing it, or is   *)
(* deleted; a watch that is open gets an event, with the claim as it was   *)
(* last.  A volume that was bound can only be lost.                        *)
Event(p) ==
  /\ there /\ events < MaxEvents
  /\ events' = events + 1
  /\ phase' = p
  /\ wire' = IF watcher \in {"look", "read", "send"} THEN Append(wire, p) ELSE wire
  /\ UNCHANGED <<watcher, line, statuses, closed, probeVars, waiterVars, stopped>>

Written == Event(phase) /\ UNCHANGED there
Deleted == Event(phase) /\ there' = FALSE
Binds == phase = "Pending" /\ Event("Bound") /\ UNCHANGED there
Loses == phase = "Bound" /\ Event("Lost") /\ UNCHANGED there

(* The caller closes stopWatching.                                         *)
Stop ==
  /\ ~stopped
  /\ stopped' = TRUE
  /\ UNCHANGED <<claimVars, watchVars, probeVars, waiterVars>>

-----------------------------------------------------------------------------
(* A first look at stopWatching, and the request for the watch.            *)
Enter ==
  /\ waiter = "called"
  /\ waiter' = IF stopped THEN "error" ELSE "opening"
  /\ UNCHANGED <<claimVars, watchVars, probeVars, canceled, left, stopped>>

(* The request is answered: the watcher and the probe start.               *)
(* Mistake: the probe is not started.                                      *)
OpenWithoutProbe ==
  /\ waiter = "opening"
  /\ waiter' = "waiting"
  /\ watcher' = "look"
  /\ UNCHANGED <<claimVars, wire, line, statuses, closed, probeVars, canceled, left, stopped>>

Open ==
  /\ waiter = "opening"
  /\ waiter' = "waiting"
  /\ watcher' = "look"
  /\ probe' = "asleep"
  /\ UNCHANGED <<claimVars, wire, line, statuses, closed, answer, canceled, left, stopped>>

NotOpened ==
  /\ waiter = "opening"
  /\ waiter' = "error"
  /\ UNCHANGED <<claimVars, watchVars, probeVars, canceled, left, stopped>>

(* Return, with defer close(cancel).                                       *)
(* Mistake: the deferred call is missing.                                  *)
LeaveOpen(r, unread) == waiter' = r /\ left' = Len(unread) /\ UNCHANGED canceled

Leave(r, unread) == waiter' = r /\ left' = Len(unread) /\ canceled' = TRUE

(* Mistake: a claim that is still pending is good enough.                  *)
JudgeAny(p, unread) ==
  IF p \in {"Pending", "Bound"} THEN Leave("nil", unread) ELSE Leave("error", unread)

(* What the waiter makes of a claim it is told of.                         *)
Judge(p, unread) ==
  CASE p = "Pending" -> UNCHANGED waiterVars
    [] p = "Bound" -> Leave("nil", unread)
    [] OTHER -> Leave("error", unread)

Expired ==
  /\ waiter = "waiting"
  /\ Leave("error", statuses)
  /\ UNCHANGED <<claimVars, watchVars, probeVars, stopped>>

SeesStop ==
  /\ waiter = "waiting" /\ stopped
  /\ Leave("error", statuses)
  /\ UNCHANGED <<claimVars, watchVars, probeVars, stopped>>

TakeAnswer ==
  /\ waiter = "waiting" /\ answer # <<>>
  /\ Judge(Head(answer), statuses)
  /\ answer' = Tail(answer)
  /\ UNCHANGED <<claimVars, watchVars, probe, stopped>>

(* A closed channel gives a status without a line, which cannot be decoded. *)
TakeStatus ==
  /\ waiter = "waiting"
  /\ \/ /\ statuses # <<>>
        /\ Judge(Head(statuses), Tail(statuses))
        /\ statuses' = Tail(statuses)
     \/ /\ statuses = <<>> /\ closed
        /\ Leave("error", statuses)
        /\ UNCHANGED statuses
  /\ UNCHANGED <<claimVars, wire, watcher, line, closed, probeVars, stopped>>

WaiterStep == Enter \/ TakeAnswer \/ TakeStatus \/ SeesStop

-----------------------------------------------------------------------------
(* The watcher: a look at canceled, a line, a send.                        *)
Look ==
  /\ watcher = "look"
  /\ IF canceled THEN watcher' = "gone" /\ closed' = TRUE
                 ELSE watcher' = "read" /\ UNCHANGED closed
  /\ UNCHANGED <<claimVars, wire, line, statuses, probeVars, waiterVars, stopped>>

ReadLine ==
  /\ watcher = "read" /\ wire # <<>>
  /\ line' = Head(wire)
  /\ wire' = Tail(wire)
  /\ watcher' = "send"
  /\ UNCHANGED <<claimVars, statuses, closed, probeVars, waiterVars, stopped>>

(* The server ends the watch, or the connection breaks.                    *)
ReadError ==
  /\ watcher = "read"
  /\ line' = "error"
  /\ watcher' = "send"
  /\ UNCHANGED <<claimVars, wire, statuses, closed, probeVars, waiterVars, stopped>>

(* Mistake: the send does not block.                                       *)
SendAtOnce ==
  /\ watcher = "send"
  /\ statuses' = Append(statuses, line)
  /\ IF line = "error" THEN watcher' = "gone" /\ closed' = TRUE
                       ELSE watcher' = "look" /\ UNCHANGED closed
  /\ line' = "none"
  /\ UNCHANGED <<claimVars, wire, probeVars, waiterVars, stopped>>

(* Mistake: a line that does not fit is dropped.                           *)
SendOrDrop ==
  /\ watcher = "send"
  /\ statuses' = IF Len(statuses) < Capacity THEN Append(statuses, line) ELSE statuses
  /\ IF line = "error" THEN watcher' = "gone" /\ closed' = TRUE
                       ELSE watcher' = "look" /\ UNCHANGED closed
  /\ line' = "none"
  /\ UNCHANGED <<claimVars, wire, probeVars, waiterVars, stopped>>

Send ==
  /\ watcher = "send" /\ Len(statuses) < Capacity
  /\ statuses' = Append(statuses, line)
  /\ IF line = "error" THEN watcher' = "gone" /\ closed' = TRUE
                       ELSE watcher' = "look" /\ UNCHANGED closed
  /\ line' = "none"
  /\ UNCHANGED <<claimVars, wire, probeVars, waiterVars, stopped>>

WatcherStep == Look \/ ReadLine \/ Send

(* The probe: it is told of the stop, or asks; nil is sent for an error,   *)
(* whether or not the waiter is still there to take it.                    *)
ProbeStops ==
  /\ probe = "asleep" /\ stopped
  /\ probe' = "gone"
  /\ UNCHANGED <<claimVars, watchVars, answer, waiterVars, stopped>>

Ask ==
  /\ probe = "asleep"
  /\ \/ there /\ probe' = phase
     \/ probe' = "error"
  /\ UNCHANGED <<claimVars, watchVars, answer, waiterVars, stopped>>

(* Mistake: the channel has no slot, and the waiter has to be there.       *)
SendAnswerUnbuffered ==
  /\ probe \in Statuses /\ waiter = "waiting"
  /\ answer' = Append(answer, probe)
  /\ probe' = "gone"
  /\ UNCHANGED <<claimVars, watchVars, waiterVars, stopped>>

SendAnswer ==
  /\ probe \in Statuses /\ Len(answer) < AnswerSlots
  /\ answer' = Append(answer, probe)
  /\ probe' = "gone"
  /\ UNCHANGED <<claimVars, watchVars, waiterVars, stopped>>

ProbeStep == ProbeStops \/ Ask \/ SendAnswer

Next ==
  \/ Written \/ Deleted \/ Binds \/ Loses \/ Stop
  \/ WaiterStep \/ Open \/ NotOpened \/ Expired
  \/ WatcherStep \/ ReadError \/ ProbeStep

(* Goroutines that can go on do, and the probe's request is answered or    *)
(* given up.  Neither the timer nor an end of the watch has to come to     *)
(* anybody's help, and the request for the watch, which has no timeout     *)
(* (openshift.go:149-150), need not return.                                *)
Spec == Init /\ [][Next]_vars
FairSpec == Spec /\ WF_vars(WaiterStep) /\ WF_vars(WatcherStep) /\ WF_vars(ProbeStep)

-----------------------------------------------------------------------------
TypeOK ==
  /\ phase \in Phases /\ there \in BOOLEAN /\ events \in 0..MaxEvents
  /\ wire \in Seq(Phases)
  /\ watcher \in {"none", "look", "read", "send", "gone"}
  /\ line \in Statuses \cup {"none"}
  /\ watcher = "send" => line \in Statuses
  /\ statuses \in Seq(Statuses) /\ Len(statuses) <= Capacity
  /\ closed \in BOOLEAN /\ canceled \in BOOLEAN /\ stopped \in BOOLEAN
  /\ probe \in {"none", "asleep", "gone"} \cup Statuses
  /\ answer \in Seq(Statuses) /\ Len(answer) <= AnswerSlots
  /\ waiter \in {"called", "opening", "waiting", "nil", "error"}
  /\ left \in 0..Capacity

(* The wait ends well only if the claim has been bound, although it hears  *)
(* of it late and from two sides, and a deletion looks like any event      *)
(* (datafoundry.go:486-521).                                               *)
Over == waiter \in {"nil", "error"}
NilMeansBound == waiter = "nil" => phase \in {"Bound", "Lost"}

(* The waiter is told in order: what it has still to hear ends with the    *)
(* claim as it is, or with the end of the watch.                           *)
Told == statuses \o (IF watcher = "send" THEN <<line>> ELSE <<>>) \o wire
EndsWithNow ==
  watcher # "gone" /\ Told # <<>> => Told[Len(Told)] \in {phase, "error"}

(* A waiter that leaves a free slot in statuses leaves no watcher behind   *)
(* that sends to nobody for ever: at most one more line is read before     *)
(* canceled is seen.  With all slots taken it does (openshift.go:177).     *)
(* A watcher that reads from a silent connection is not spoken of here: it *)
(* looks at canceled after the next line.                                  *)
Stuck == watcher = "send" /\ Len(statuses) = Capacity
LeftWithRoom == Over /\ left < Capacity => ~Stuck

(* The probe's goroutine always ends.  The waiter may have left, by the    *)
(* watch, the timer or the stop, before the probe has its answer, and then *)
(* nobody receives any more: the slot of getPvcChan has to take the answer *)
(* (datafoundry.go:461, 473-477).                                          *)
ProbeEnds == probe # "none" ~> probe = "gone"

(* A claim that is bound while the watch is open is noticed, whenever it   *)
(* was bound: before the watch was open it is found by the probe, after    *)
(* that there is an event ("the pvc may be already bound initially",       *)
(* datafoundry.go:463).  The wait may be over by an error; and the watch   *)
(* may never be open, the request for it having no timeout.                *)
BoundIsNoticed ==
  there /\ phase = "Bound" /\ waiter = "waiting" ~> Over \/ ~there
=============================================================================
