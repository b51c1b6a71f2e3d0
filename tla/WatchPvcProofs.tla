--------------------------- MODULE WatchPvcProofs ---------------------------
(***************************************************************************)
(* The safety properties of WatchPvc, for every size of its channels and   *)
(* any number of events.  The inductive invariant has four parts, each     *)
(* proved from the types and the parts before it.                          *)
(***************************************************************************)
EXTENDS WatchPvc, TLAPS

(* Who has been started, and who has been told to stop.                    *)
Shape ==
  /\ waiter \in {"called", "opening"} => watcher = "none" /\ probe = "none" /\ answer = <<>>
  /\ watcher = "none" => waiter \in {"called", "opening", "error"} /\ statuses = <<>> /\ wire = <<>>
  /\ Over /\ watcher # "none" => canceled
  /\ probe # "gone" => answer = <<>>

(* Nobody has heard of a bound claim that never was one.                   *)
Heard ==
  phase = "Pending" =>
    /\ \A i \in 1..Len(wire) : wire[i] # "Bound"
    /\ \A i \in 1..Len(statuses) : statuses[i] # "Bound"
    /\ \A i \in 1..Len(answer) : answer[i] # "Bound"
    /\ line # "Bound" /\ probe # "Bound"
    /\ waiter # "nil"

(* The last of what the waiter is told, where it is.                       *)
LastTold ==
  watcher # "gone" =>
    /\ wire # <<>> => wire[Len(wire)] = phase
    /\ wire = <<>> /\ watcher = "send" => line \in {phase, "error"}
    /\ wire = <<>> /\ watcher # "send" /\ statuses # <<>> => statuses[Len(statuses)] = phase

(* A watcher left behind adds one status at most, and then looks.          *)
Room == Over => Len(statuses) <= left \/ watcher \in {"look", "gone"}

IInv == TypeOK /\ Shape /\ Heard /\ LastTold /\ Room

-----------------------------------------------------------------------------
(* A queue after an Append, and after its head has been taken.             *)
LEMMA Appends ==
  ASSUME NEW S, NEW s \in Seq(S), NEW e \in S
  PROVE  /\ Append(s, e) \in Seq(S)
         /\ Append(s, e) # <<>>
         /\ Len(Append(s, e)) = Len(s) + 1
         /\ Append(s, e)[Len(Append(s, e))] = e
OBVIOUS

LEMMA Tails ==
  ASSUME NEW S, NEW s \in Seq(S), s # <<>>
  PROVE  /\ Head(s) = s[1] /\ Head(s) \in S
         /\ Len(s) \in Nat \ {0}
         /\ Tail(s) \in Seq(S)
         /\ Len(Tail(s)) = Len(s) - 1
         /\ \A i \in 1..Len(Tail(s)) : Tail(s)[i] = s[i + 1]
         /\ Tail(s) = <<>> => Head(s) = s[Len(s)]
         /\ Tail(s) # <<>> => Tail(s)[Len(Tail(s))] = s[Len(s)]
<1>1. Len(s) \in Nat \ {0} /\ Head(s) = s[1] /\ Head(s) \in S
  OBVIOUS
<1>2. /\ Tail(s) \in Seq(S) /\ Len(Tail(s)) = Len(s) - 1
      /\ \A i \in 1..Len(Tail(s)) : Tail(s)[i] = s[i + 1]
  OBVIOUS
<1>3. ASSUME Tail(s) = <<>> PROVE Head(s) = s[Len(s)]
  <2>1. Len(Tail(s)) = Len(<<>>) /\ Len(<<>>) = 0
    BY <1>3
  <2>2. Len(s) - 1 = 0
    BY <1>2, <2>1
  <2>3. Len(s) = 1
    BY <1>1, <2>2
  <2>4. QED
    BY <1>1, <2>3
<1>4. ASSUME Tail(s) # <<>> PROVE Tail(s)[Len(Tail(s))] = s[Len(s)]
  <2>1. Len(Tail(s)) \in 1..Len(Tail(s)) /\ Len(Tail(s)) + 1 = Len(s)
    BY <1>1, <1>2, <1>4
  <2>2. QED
    BY <1>2, <2>1
<1>5. QED
  BY <1>1, <1>2, <1>3, <1>4

LEMMA Starts == Init => IInv
<1> SUFFICES ASSUME Init PROVE IInv
  OBVIOUS
<1>1. TypeOK
  <2>1. <<>> \in Seq(Phases) /\ <<>> \in Seq(Statuses) /\ Len(<<>>) = 0
    OBVIOUS
  <2>2. 0 \in 0..MaxEvents /\ 0 \in 0..Capacity /\ 0 <= Capacity /\ 0 <= AnswerSlots
    BY WatchAssumption
  <2>3. there \in BOOLEAN /\ closed \in BOOLEAN /\ canceled \in BOOLEAN /\ stopped \in BOOLEAN
    BY DEF Init
  <2>4. QED
    BY <2>1, <2>2, <2>3 DEF Init, TypeOK, Phases, Statuses
<1>2. Shape
  BY DEF Init, Shape, Over
<1>3. Heard /\ LastTold
  BY DEF Init, Heard, LastTold
<1>4. Room
  BY DEF Init, Room, Over
<1>5. QED
  BY <1>1, <1>2, <1>3, <1>4 DEF IInv

(* Every action keeps the types. *)
LEMMA TypeStep ==
  ASSUME TypeOK, [Next]_vars
  PROVE  TypeOK'
<1>1. CASE Written
  BY <1>1, WatchAssumption DEF TypeOK, Phases, Statuses, Written, Event, claimVars, watchVars, probeVars, waiterVars, vars
<1>2. CASE Deleted
  <2>1. there' \in BOOLEAN
    BY <1>2 DEF Deleted
  <2>2. events' \in 0..MaxEvents /\ phase' \in Phases
    BY <1>2, WatchAssumption DEF Deleted, Event, TypeOK
  <2>3. wire' \in Seq(Phases)
    BY <1>2, Appends DEF Deleted, Event, TypeOK
  <2>4. QED
    BY <1>2, <2>1, <2>2, <2>3 DEF TypeOK, Phases, Statuses, Deleted, Event, probeVars, waiterVars
<1>3. CASE Binds
  BY <1>3, WatchAssumption DEF TypeOK, Phases, Statuses, Binds, Event, claimVars, watchVars, probeVars, waiterVars, vars
<1>4. CASE Loses
  BY <1>4, WatchAssumption DEF TypeOK, Phases, Statuses, Loses, Event, claimVars, watchVars, probeVars, waiterVars, vars
<1>5. CASE Stop
  BY <1>5, WatchAssumption DEF TypeOK, Phases, Statuses, Stop, claimVars, watchVars, probeVars, waiterVars, vars
<1>6. CASE Open
  BY <1>6, WatchAssumption DEF TypeOK, Phases, Statuses, Open, claimVars, watchVars, probeVars, waiterVars, vars
<1>7. CASE NotOpened
  BY <1>7, WatchAssumption DEF TypeOK, Phases, Statuses, NotOpened, claimVars, watchVars, probeVars, waiterVars, vars
<1>8. CASE TakeAnswer
  <2>1. answer \in Seq(Statuses) /\ answer # <<>>
    BY <1>8 DEF TakeAnswer, TypeOK
  <2>2. /\ answer' \in Seq(Statuses) /\ Len(answer') <= AnswerSlots
        /\ Len(statuses) \in 0..Capacity
    BY <1>8, <2>1, Tails, WatchAssumption DEF TakeAnswer, TypeOK
  <2>3. waiter' \in {"called", "opening", "waiting", "nil", "error"}
        /\ canceled' \in BOOLEAN /\ left' \in 0..Capacity
    <3>1. CASE Head(answer) = "Pending"
      BY <1>8, <3>1 DEF TypeOK, TakeAnswer, Judge, waiterVars
    <3>2. CASE Head(answer) = "Bound"
      BY <1>8, <2>2, <3>2 DEF TypeOK, TakeAnswer, Judge, Leave
    <3>3. CASE Head(answer) \notin {"Pending", "Bound"}
      BY <1>8, <2>2, <3>3 DEF TypeOK, TakeAnswer, Judge, Leave
    <3>4. QED
      BY <3>1, <3>2, <3>3
  <2>4. QED
    BY <1>8, <2>2, <2>3 DEF TypeOK, Phases, Statuses, TakeAnswer, claimVars, watchVars
<1>9. CASE TakeStatus
  <2>1. statuses' \in Seq(Statuses) /\ Len(statuses') \in 0..Capacity
    <3>1. CASE statuses # <<>>
      <4>1. statuses' = Tail(statuses)
        BY <1>9, <3>1 DEF TakeStatus
      <4>2. QED
        BY <3>1, <4>1, Tails, WatchAssumption DEF TypeOK
    <3>2. CASE statuses = <<>>
      BY <1>9, <3>2, WatchAssumption DEF TakeStatus, TypeOK
    <3>3. QED
      BY <3>1, <3>2
  <2>2. waiter' \in {"called", "opening", "waiting", "nil", "error"}
        /\ canceled' \in BOOLEAN /\ left' \in 0..Capacity
    <3>1. CASE statuses # <<>> /\ Head(statuses) = "Pending"
      BY <1>9, <3>1 DEF TypeOK, TakeStatus, Judge, waiterVars
    <3>2. CASE statuses # <<>> /\ Head(statuses) = "Bound"
      BY <1>9, <2>1, <3>2 DEF TypeOK, TakeStatus, Judge, Leave
    <3>3. CASE statuses # <<>> /\ Head(statuses) \notin {"Pending", "Bound"}
      BY <1>9, <2>1, <3>3 DEF TypeOK, TakeStatus, Judge, Leave
    <3>4. CASE statuses = <<>>
      BY <1>9, <2>1, <3>4 DEF TypeOK, TakeStatus, Leave
    <3>5. QED
      BY <3>1, <3>2, <3>3, <3>4
  <2>3. QED
    BY <1>9, <2>1, <2>2 DEF TypeOK, Phases, Statuses, TakeStatus, claimVars, probeVars
<1>10. CASE SeesStop
  BY <1>10, WatchAssumption DEF TypeOK, Phases, Statuses, SeesStop, Leave, claimVars, watchVars, probeVars, waiterVars, vars
<1>11. CASE Expired
  BY <1>11, WatchAssumption DEF TypeOK, Phases, Statuses, Expired, Leave, claimVars, watchVars, probeVars, waiterVars, vars
<1>12. CASE Look
  <2>1. watcher' \in {"read", "gone"} /\ closed' \in BOOLEAN
    BY <1>12 DEF TypeOK, Look
  <2>2. QED
    BY <1>12, <2>1 DEF TypeOK, Look, claimVars, probeVars, waiterVars
<1>13. CASE ReadLine
  BY <1>13, WatchAssumption DEF TypeOK, Phases, Statuses, ReadLine, claimVars, watchVars, probeVars, waiterVars, vars
<1>14. CASE ReadError
  BY <1>14, WatchAssumption DEF TypeOK, Phases, Statuses, ReadError, claimVars, watchVars, probeVars, waiterVars, vars
<1>15. CASE Send
  <2>1. statuses' \in Seq(Statuses) /\ Len(statuses') <= Capacity
    BY <1>15, Appends, WatchAssumption DEF Send, TypeOK
  <2>2. watcher' \in {"look", "gone"} /\ closed' \in BOOLEAN /\ line' = "none"
    BY <1>15 DEF TypeOK, Send
  <2>3. QED
    BY <1>15, <2>1, <2>2 DEF TypeOK, Send, claimVars, probeVars, waiterVars
<1>16. CASE ProbeStops
  BY <1>16, WatchAssumption DEF TypeOK, Phases, Statuses, ProbeStops, claimVars, watchVars, probeVars, waiterVars, vars
<1>17. CASE Ask
  BY <1>17 DEF TypeOK, Phases, Statuses, Ask, claimVars, watchVars, waiterVars
<1>18. CASE SendAnswer
  <2>1. answer' \in Seq(Statuses) /\ Len(answer') <= AnswerSlots
    BY <1>18, Appends, WatchAssumption DEF SendAnswer, TypeOK
  <2>2. QED
    BY <1>18, <2>1 DEF TypeOK, Phases, Statuses, SendAnswer, claimVars, watchVars, waiterVars
<1>19. CASE Enter
  BY <1>19 DEF TypeOK, Phases, Statuses, Enter, claimVars, watchVars, probeVars, waiterVars, vars
<1>20. CASE UNCHANGED vars
  BY <1>20 DEF TypeOK, Phases, Statuses, claimVars, watchVars, probeVars, waiterVars, vars
<1>21. QED
  BY <1>1, <1>2, <1>3, <1>4, <1>5, <1>6, <1>7, <1>8, <1>9, <1>10, <1>11, <1>12, <1>13, <1>14, <1>15, <1>16, <1>17, <1>18, <1>19, <1>20 DEF Next, WaiterStep, WatcherStep, ProbeStep

(* Every action keeps the shape. *)
LEMMA ShapeStep ==
  ASSUME TypeOK, Shape, [Next]_vars
  PROVE  Shape'
<1>1. CASE Written
  BY <1>1 DEF TypeOK, Shape, Over, Written, Event, claimVars, watchVars, probeVars, waiterVars, vars
<1>2. CASE Deleted
  BY <1>2 DEF TypeOK, Shape, Over, Deleted, Event, claimVars, watchVars, probeVars, waiterVars, vars
<1>3. CASE Binds
  BY <1>3 DEF TypeOK, Shape, Over, Binds, Event, claimVars, watchVars, probeVars, waiterVars, vars
<1>4. CASE Loses
  BY <1>4 DEF TypeOK, Shape, Over, Loses, Event, claimVars, watchVars, probeVars, waiterVars, vars
<1>5. CASE Stop
  BY <1>5 DEF TypeOK, Shape, Over, Stop, claimVars, watchVars, probeVars, waiterVars, vars
<1>6. CASE Open
  BY <1>6 DEF TypeOK, Shape, Over, Open, claimVars, watchVars, probeVars, waiterVars, vars
<1>7. CASE NotOpened
  BY <1>7 DEF TypeOK, Shape, Over, NotOpened, claimVars, watchVars, probeVars, waiterVars, vars
<1>8. CASE TakeAnswer
  BY <1>8 DEF TypeOK, Shape, Over, TakeAnswer, Judge, Leave, claimVars, watchVars, probeVars, waiterVars, vars
<1>9. CASE TakeStatus
  BY <1>9 DEF TypeOK, Shape, Over, TakeStatus, Judge, Leave, claimVars, watchVars, probeVars, waiterVars, vars
<1>10. CASE SeesStop
  BY <1>10 DEF TypeOK, Shape, Over, SeesStop, Leave, claimVars, watchVars, probeVars, waiterVars, vars
<1>11. CASE Expired
  BY <1>11 DEF TypeOK, Shape, Over, Expired, Leave, claimVars, watchVars, probeVars, waiterVars, vars
<1>12. CASE Look
  BY <1>12 DEF TypeOK, Shape, Over, Look, claimVars, watchVars, probeVars, waiterVars, vars
<1>13. CASE ReadLine
  BY <1>13 DEF TypeOK, Shape, Over, ReadLine, claimVars, watchVars, probeVars, waiterVars, vars
<1>14. CASE ReadError
  BY <1>14 DEF TypeOK, Shape, Over, ReadError, claimVars, watchVars, probeVars, waiterVars, vars
<1>15. CASE Send
  BY <1>15 DEF TypeOK, Shape, Over, Send, claimVars, watchVars, probeVars, waiterVars, vars
<1>16. CASE ProbeStops
  BY <1>16 DEF TypeOK, Shape, Over, ProbeStops, claimVars, watchVars, probeVars, waiterVars, vars
<1>17. CASE Ask
  BY <1>17 DEF TypeOK, Shape, Over, Ask, claimVars, watchVars, probeVars, waiterVars, vars
<1>18. CASE SendAnswer
  BY <1>18 DEF TypeOK, Shape, Over, Phases, Statuses, SendAnswer, claimVars, watchVars, probeVars, waiterVars, vars
<1>19. CASE Enter
  BY <1>19 DEF TypeOK, Shape, Over, Enter, claimVars, watchVars, probeVars, waiterVars, vars
<1>20. CASE UNCHANGED vars
  BY <1>20 DEF TypeOK, Shape, Over, claimVars, watchVars, probeVars, waiterVars, vars
<1>21. QED
  BY <1>1, <1>2, <1>3, <1>4, <1>5, <1>6, <1>7, <1>8, <1>9, <1>10, <1>11, <1>12, <1>13, <1>14, <1>15, <1>16, <1>17, <1>18, <1>19, <1>20 DEF Next, WaiterStep, WatcherStep, ProbeStep

(* Nothing but Binds makes a claim bound, and it is not pending then. *)
LEMMA HeardStep ==
  ASSUME TypeOK, Shape, Heard, [Next]_vars
  PROVE  Heard'
<1>1. CASE Written
  BY <1>1 DEF TypeOK, Shape, Heard, Phases, Statuses, Written, Event, claimVars, watchVars, probeVars, waiterVars, vars
<1>2. CASE Deleted
  BY <1>2 DEF TypeOK, Shape, Heard, Phases, Statuses, Deleted, Event, claimVars, watchVars, probeVars, waiterVars, vars
<1>3. CASE Binds
  BY <1>3 DEF TypeOK, Shape, Heard, Phases, Statuses, Binds, Event, claimVars, watchVars, probeVars, waiterVars, vars
<1>4. CASE Loses
  BY <1>4 DEF TypeOK, Shape, Heard, Phases, Statuses, Loses, Event, claimVars, watchVars, probeVars, waiterVars, vars
<1>5. CASE Stop
  BY <1>5 DEF TypeOK, Shape, Heard, Phases, Statuses, Stop, claimVars, watchVars, probeVars, waiterVars, vars
<1>6. CASE Open
  BY <1>6 DEF TypeOK, Shape, Heard, Phases, Statuses, Open, claimVars, watchVars, probeVars, waiterVars, vars
<1>7. CASE NotOpened
  BY <1>7 DEF TypeOK, Shape, Heard, Phases, Statuses, NotOpened, claimVars, watchVars, probeVars, waiterVars, vars
<1>8. CASE TakeAnswer
  <2> SUFFICES ASSUME phase = "Pending" PROVE Heard'
    BY <1>8 DEF Heard, TakeAnswer, claimVars
  <2>1. \A i \in 1..Len(answer') : answer'[i] # "Bound"
    BY <1>8, Tails DEF TakeAnswer, TypeOK, Heard
  <2>2. Head(answer) # "Bound"
    BY <1>8, Tails DEF TakeAnswer, TypeOK, Heard
  <2>3. waiter' # "nil"
    BY <1>8, <2>2 DEF TakeAnswer, Judge, Leave, waiterVars
  <2>4. QED
    BY <1>8, <2>1, <2>3 DEF Heard, TakeAnswer, claimVars, watchVars
<1>9. CASE TakeStatus
  <2> SUFFICES ASSUME phase = "Pending" PROVE Heard'
    BY <1>9 DEF Heard, TakeStatus, claimVars
  <2>1. \A i \in 1..Len(statuses') : statuses'[i] # "Bound"
    <3>1. CASE statuses # <<>>
      <4>1. statuses' = Tail(statuses)
        BY <1>9, <3>1 DEF TakeStatus
      <4>2. \A i \in 1..Len(statuses') : i + 1 \in 1..Len(statuses) /\ statuses'[i] = statuses[i + 1]
        BY <3>1, <4>1, Tails DEF TypeOK
      <4>3. QED
        BY <4>2 DEF Heard
    <3>2. CASE statuses = <<>>
      BY <1>9, <3>2 DEF TakeStatus, Heard
    <3>3. QED
      BY <3>1, <3>2
  <2>2. waiter' # "nil"
    <3>1. CASE statuses # <<>>
      <4>1. Head(statuses) # "Bound"
        BY <3>1, Tails DEF TypeOK, Heard
      <4>2. QED
        BY <1>9, <3>1, <4>1 DEF TakeStatus, Judge, Leave, waiterVars
    <3>2. CASE statuses = <<>>
      BY <1>9, <3>2 DEF TakeStatus, Leave
    <3>3. QED
      BY <3>1, <3>2
  <2>3. QED
    BY <1>9, <2>1, <2>2 DEF Heard, TakeStatus, claimVars, probeVars
<1>10. CASE SeesStop
  BY <1>10 DEF TypeOK, Shape, Heard, Phases, Statuses, SeesStop, Leave, claimVars, watchVars, probeVars, waiterVars, vars
<1>11. CASE Expired
  BY <1>11 DEF TypeOK, Shape, Heard, Phases, Statuses, Expired, Leave, claimVars, watchVars, probeVars, waiterVars, vars
<1>12. CASE Look
  BY <1>12 DEF TypeOK, Shape, Heard, Phases, Statuses, Look, claimVars, watchVars, probeVars, waiterVars, vars
<1>13. CASE ReadLine
  BY <1>13 DEF TypeOK, Shape, Heard, Phases, Statuses, ReadLine, claimVars, watchVars, probeVars, waiterVars, vars
<1>14. CASE ReadError
  BY <1>14 DEF TypeOK, Shape, Heard, Phases, Statuses, ReadError, claimVars, watchVars, probeVars, waiterVars, vars
<1>15. CASE Send
  BY <1>15 DEF TypeOK, Shape, Heard, Phases, Statuses, Send, claimVars, watchVars, probeVars, waiterVars, vars
<1>16. CASE ProbeStops
  BY <1>16 DEF TypeOK, Shape, Heard, Phases, Statuses, ProbeStops, claimVars, watchVars, probeVars, waiterVars, vars
<1>17. CASE Ask
  BY <1>17 DEF TypeOK, Shape, Heard, Phases, Statuses, Ask, claimVars, watchVars, probeVars, waiterVars, vars
<1>18. CASE SendAnswer
  BY <1>18 DEF TypeOK, Shape, Heard, Phases, Statuses, SendAnswer, claimVars, watchVars, probeVars, waiterVars, vars
<1>19. CASE Enter
  BY <1>19 DEF TypeOK, Shape, Heard, Phases, Statuses, Enter, claimVars, watchVars, probeVars, waiterVars, vars
<1>20. CASE UNCHANGED vars
  BY <1>20 DEF TypeOK, Shape, Heard, Phases, Statuses, claimVars, watchVars, probeVars, waiterVars, vars
<1>21. QED
  BY <1>1, <1>2, <1>3, <1>4, <1>5, <1>6, <1>7, <1>8, <1>9, <1>10, <1>11, <1>12, <1>13, <1>14, <1>15, <1>16, <1>17, <1>18, <1>19, <1>20 DEF Next, WaiterStep, WatcherStep, ProbeStep

(* An event is put behind what is on the wire, or nobody is watching.      *)
LEMMA EventLast ==
  ASSUME TypeOK, Shape, LastTold, NEW p \in Phases, Event(p)
  PROVE  LastTold'
<1>1. CASE watcher \in {"look", "read", "send"}
  <2>1. wire' # <<>> /\ wire'[Len(wire')] = phase'
    BY <1>1, Appends DEF TypeOK, Event
  <2>2. QED
    BY <2>1 DEF LastTold
<1>2. CASE watcher = "none"
  BY <1>2 DEF Shape, Event, LastTold
<1>3. CASE watcher = "gone"
  BY <1>3 DEF Event, LastTold
<1>4. QED
  BY <1>1, <1>2, <1>3 DEF TypeOK

(* Events are appended, lines and statuses are taken from the front. *)
LEMMA LastStep ==
  ASSUME TypeOK, Shape, LastTold, [Next]_vars
  PROVE  LastTold'
<1>1. CASE Written
  BY <1>1, EventLast DEF Written, TypeOK, Phases
<1>2. CASE Deleted
  BY <1>2, EventLast DEF Deleted, TypeOK, Phases
<1>3. CASE Binds
  BY <1>3, EventLast DEF Binds, TypeOK, Phases
<1>4. CASE Loses
  BY <1>4, EventLast DEF Loses, TypeOK, Phases
<1>5. CASE Stop
  BY <1>5 DEF TypeOK, Shape, LastTold, Phases, Statuses, Stop, claimVars, watchVars, probeVars, waiterVars, vars
<1>6. CASE Open
  BY <1>6 DEF TypeOK, Shape, LastTold, Phases, Statuses, Open, claimVars, watchVars, probeVars, waiterVars, vars
<1>7. CASE NotOpened
  BY <1>7 DEF TypeOK, Shape, LastTold, Phases, Statuses, NotOpened, claimVars, watchVars, probeVars, waiterVars, vars
<1>8. CASE TakeAnswer
  BY <1>8 DEF TypeOK, Shape, LastTold, Phases, Statuses, TakeAnswer, Judge, Leave, claimVars, watchVars, probeVars, waiterVars, vars
<1>9. CASE TakeStatus
  <2>1. statuses' # <<>> => statuses # <<>> /\ statuses'[Len(statuses')] = statuses[Len(statuses)]
    BY <1>9, Tails DEF TakeStatus, TypeOK
  <2>2. QED
    BY <1>9, <2>1 DEF LastTold, TakeStatus, claimVars
<1>10. CASE SeesStop
  BY <1>10 DEF TypeOK, Shape, LastTold, Phases, Statuses, SeesStop, Leave, claimVars, watchVars, probeVars, waiterVars, vars
<1>11. CASE Expired
  BY <1>11 DEF TypeOK, Shape, LastTold, Phases, Statuses, Expired, Leave, claimVars, watchVars, probeVars, waiterVars, vars
<1>12. CASE Look
  BY <1>12 DEF TypeOK, Shape, LastTold, Phases, Statuses, Look, claimVars, watchVars, probeVars, waiterVars, vars
<1>13. CASE ReadLine
  <2>1. wire' # <<>> => wire'[Len(wire')] = wire[Len(wire)]
    BY <1>13, Tails DEF ReadLine, TypeOK
  <2>2. wire' = <<>> => line' = wire[Len(wire)]
    BY <1>13, Tails DEF ReadLine, TypeOK
  <2>3. QED
    BY <1>13, <2>1, <2>2 DEF LastTold, ReadLine, claimVars
<1>14. CASE ReadError
  BY <1>14 DEF TypeOK, Shape, LastTold, Phases, Statuses, ReadError, claimVars, watchVars, probeVars, waiterVars, vars
<1>15. CASE Send
  BY <1>15 DEF TypeOK, Shape, LastTold, Phases, Statuses, Send, claimVars, watchVars, probeVars, waiterVars, vars
<1>16. CASE ProbeStops
  BY <1>16 DEF TypeOK, Shape, LastTold, Phases, Statuses, ProbeStops, claimVars, watchVars, probeVars, waiterVars, vars
<1>17. CASE Ask
  BY <1>17 DEF TypeOK, Shape, LastTold, Phases, Statuses, Ask, claimVars, watchVars, probeVars, waiterVars, vars
<1>18. CASE SendAnswer
  BY <1>18 DEF TypeOK, Shape, LastTold, Phases, Statuses, SendAnswer, claimVars, watchVars, probeVars, waiterVars, vars
<1>19. CASE Enter
  BY <1>19 DEF TypeOK, Shape, LastTold, Phases, Statuses, Enter, claimVars, watchVars, probeVars, waiterVars, vars
<1>20. CASE UNCHANGED vars
  BY <1>20 DEF TypeOK, Shape, LastTold, Phases, Statuses, claimVars, watchVars, probeVars, waiterVars, vars
<1>21. QED
  BY <1>1, <1>2, <1>3, <1>4, <1>5, <1>6, <1>7, <1>8, <1>9, <1>10, <1>11, <1>12, <1>13, <1>14, <1>15, <1>16, <1>17, <1>18, <1>19, <1>20 DEF Next, WaiterStep, WatcherStep, ProbeStep

(* Leaving notes what is unread; a watcher told to stop reads no more. *)
LEMMA RoomStep ==
  ASSUME TypeOK, Shape, Room, [Next]_vars
  PROVE  Room'
<1>1. CASE Written
  BY <1>1 DEF TypeOK, Shape, Room, Over, Written, Event, claimVars, watchVars, probeVars, waiterVars, vars
<1>2. CASE Deleted
  BY <1>2 DEF TypeOK, Shape, Room, Over, Deleted, Event, claimVars, watchVars, probeVars, waiterVars, vars
<1>3. CASE Binds
  BY <1>3 DEF TypeOK, Shape, Room, Over, Binds, Event, claimVars, watchVars, probeVars, waiterVars, vars
<1>4. CASE Loses
  BY <1>4 DEF TypeOK, Shape, Room, Over, Loses, Event, claimVars, watchVars, probeVars, waiterVars, vars
<1>5. CASE Stop
  BY <1>5 DEF TypeOK, Shape, Room, Over, Stop, claimVars, watchVars, probeVars, waiterVars, vars
<1>6. CASE Open
  BY <1>6 DEF TypeOK, Shape, Room, Over, Open, claimVars, watchVars, probeVars, waiterVars, vars
<1>7. CASE NotOpened
  BY <1>7 DEF TypeOK, Shape, Room, Over, NotOpened, claimVars, watchVars, probeVars, waiterVars, vars
<1>8. CASE TakeAnswer
  BY <1>8 DEF TypeOK, Shape, Room, Over, TakeAnswer, Judge, Leave, claimVars, watchVars, probeVars, waiterVars, vars
<1>9. CASE TakeStatus
  BY <1>9 DEF TypeOK, Shape, Room, Over, TakeStatus, Judge, Leave, claimVars, watchVars, probeVars, waiterVars, vars
<1>10. CASE SeesStop
  BY <1>10 DEF TypeOK, Shape, Room, Over, SeesStop, Leave, claimVars, watchVars, probeVars, waiterVars, vars
<1>11. CASE Expired
  BY <1>11 DEF TypeOK, Shape, Room, Over, Expired, Leave, claimVars, watchVars, probeVars, waiterVars, vars
<1>12. CASE Look
  BY <1>12 DEF TypeOK, Shape, Room, Over, Look, claimVars, watchVars, probeVars, waiterVars, vars
<1>13. CASE ReadLine
  BY <1>13 DEF TypeOK, Shape, Room, Over, ReadLine, claimVars, watchVars, probeVars, waiterVars, vars
<1>14. CASE ReadError
  BY <1>14 DEF TypeOK, Shape, Room, Over, ReadError, claimVars, watchVars, probeVars, waiterVars, vars
<1>15. CASE Send
  BY <1>15 DEF TypeOK, Shape, Room, Over, Send, claimVars, watchVars, probeVars, waiterVars, vars
<1>16. CASE ProbeStops
  BY <1>16 DEF TypeOK, Shape, Room, Over, ProbeStops, claimVars, watchVars, probeVars, waiterVars, vars
<1>17. CASE Ask
  BY <1>17 DEF TypeOK, Shape, Room, Over, Ask, claimVars, watchVars, probeVars, waiterVars, vars
<1>18. CASE SendAnswer
  BY <1>18 DEF TypeOK, Shape, Room, Over, SendAnswer, claimVars, watchVars, probeVars, waiterVars, vars
<1>19. CASE Enter
  BY <1>19 DEF TypeOK, Shape, Room, Over, Enter, claimVars, watchVars, probeVars, waiterVars, vars
<1>20. CASE UNCHANGED vars
  BY <1>20 DEF TypeOK, Shape, Room, Over, claimVars, watchVars, probeVars, waiterVars, vars
<1>21. QED
  BY <1>1, <1>2, <1>3, <1>4, <1>5, <1>6, <1>7, <1>8, <1>9, <1>10, <1>11, <1>12, <1>13, <1>14, <1>15, <1>16, <1>17, <1>18, <1>19, <1>20 DEF Next, WaiterStep, WatcherStep, ProbeStep

-----------------------------------------------------------------------------
THEOREM WatchInvariance == Spec => []IInv
<1>1. IInv /\ [Next]_vars => IInv'
  BY TypeStep, ShapeStep, HeardStep, LastStep, RoomStep DEF IInv
<1>2. QED
  BY Starts, <1>1, PTL DEF Spec

(* Type correctness: statuses never holds more than its slots.             *)
THEOREM WatchTypes == Spec => []TypeOK
<1>1. IInv => TypeOK
  BY DEF IInv
<1>2. QED
  BY WatchInvariance, <1>1, PTL

(* WaitUntilPvcIsBound returns nil only if the claim has been bound.       *)
THEOREM NilIsTrue == Spec => []NilMeansBound
<1>1. IInv => NilMeansBound
  BY DEF IInv, TypeOK, Heard, NilMeansBound, Phases
<1>2. QED
  BY WatchInvariance, <1>1, PTL

(* The waiter is told in order, and the last it is told is what is.        *)
THEOREM ToldInOrder == Spec => []EndsWithNow
<1>1. IInv => EndsWithNow
  <2> SUFFICES ASSUME IInv, watcher # "gone", Told # <<>>
               PROVE  Told[Len(Told)] \in {phase, "error"}
    BY DEF EndsWithNow
  <2>1. CASE wire # <<>>
    BY <2>1 DEF IInv, TypeOK, LastTold, Told, Phases, Statuses
  <2>2. CASE wire = <<>> /\ watcher = "send"
    BY <2>2 DEF IInv, TypeOK, LastTold, Told, Phases, Statuses
  <2>3. CASE wire = <<>> /\ watcher # "send"
    BY <2>3 DEF IInv, TypeOK, LastTold, Told, Phases, Statuses
  <2>4. QED
    BY <2>1, <2>2, <2>3
<1>2. QED
  BY WatchInvariance, <1>1, PTL

(* Only a channel that was full when the waiter left keeps a watcher.      *)
THEOREM RoomFreesWatcher == Spec => []LeftWithRoom
<1>1. IInv => LeftWithRoom
  BY WatchAssumption DEF IInv, TypeOK, Room, LeftWithRoom, Stuck, Over
<1>2. QED
  BY WatchInvariance, <1>1, PTL
=============================================================================
