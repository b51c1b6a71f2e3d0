------------------------- MODULE PvcVolumeJobProofs -------------------------
(***************************************************************************)
(* Proofs about PvcVolumeJob, for every set of volumes, starters and       *)
(* cancellers.  The inductive invariant IInv is proved part by part, each  *)
(* part from the ones before it; the properties follow from it.            *)
(***************************************************************************)
EXTENDS PvcVolumeJob, TLAPS

(* Every step keeps the types. *)
LEMMA TypeStep ==
  ASSUME TypeOK, Found, [Next]_vars
  PROVE  TypeOK'
<1> USE StartersAssumption DEF TypeOK, Found, Starters, Phases, Running, Settled, RequestErrors
<1>1. ASSUME NEW j \in Starters, Start(j) PROVE TypeOK'
  <2>1. /\ spc' = [spc EXCEPT ![j] = "reading"]
        /\ UNCHANGED <<cancelled, errChan, got, cancellerVars, cluster>>
    BY <1>1 DEF Start
  <2>2. CASE jobs = NoJob
    <3>1. /\ jobs' = j
          /\ rpc' = [rpc EXCEPT ![j] = "wait"]
          /\ gpc' = [gpc EXCEPT ![j] = [v \in Volumes |-> "request"]]
          /\ UNCHANGED c
      BY <1>1, <2>2 DEF Start
    <3>2. gpc' \in [Starters -> [Volumes ->
                {"none", "request", "enter", "open", "watch", "report"} \cup Settled]]
      BY <3>1
    <3>3. QED
      BY <2>1, <3>1, <3>2 DEF cancellerVars, cluster
  <2>3. CASE jobs # NoJob
    BY <1>1, <2>1, <2>3
    DEF Start, Send, vars, jobVars, starterVars, cancellerVars, cluster
  <2>4. QED
    BY <2>2, <2>3
<1>2. ASSUME NEW j \in Starters, Read(j) PROVE TypeOK'
  BY <1>2 DEF Read, vars, jobVars, starterVars, cancellerVars, cluster
<1>3. ASSUME NEW j \in Starters, AllDone(j) PROVE TypeOK'
  BY <1>3 DEF AllDone, vars, jobVars, starterVars, cancellerVars, cluster
<1>4. ASSUME NEW j \in Starters, SendNil(j) PROVE TypeOK'
  BY <1>4 DEF SendNil, Send, vars, jobVars, starterVars, cancellerVars, cluster
<1>5. ASSUME NEW j \in Starters, SendJoined(j) PROVE TypeOK'
  BY <1>5 DEF SendJoined, Send, vars, jobVars, starterVars, cancellerVars, cluster
<1>6. ASSUME NEW j \in Starters, SendTrailingNil(j) PROVE TypeOK'
  BY <1>6 DEF SendTrailingNil, Send, vars, jobVars, starterVars, cancellerVars, cluster
<1>7. ASSUME NEW j \in Starters, Unregister(j) PROVE TypeOK'
  BY <1>7 DEF Unregister, vars, jobVars, starterVars, cancellerVars, cluster
<1>8. ASSUME NEW j \in Starters, NEW v \in Volumes, CreateVolumn(j, v) PROVE TypeOK'
  BY <1>8 DEF CreateVolumn, Goto, vars, jobVars, starterVars, cancellerVars, cluster
<1>9. ASSUME NEW j \in Starters, NEW v \in Volumes, ExpandVolumn(j, v) PROVE TypeOK'
  BY <1>9 DEF ExpandVolumn, Goto, vars, jobVars, starterVars, cancellerVars, cluster
<1>10. ASSUME NEW j \in Starters, NEW v \in Volumes, RequestError(j, v) PROVE TypeOK'
  BY <1>10 DEF RequestError, Goto, vars, jobVars, starterVars, cancellerVars, cluster
<1>11. ASSUME NEW j \in Starters, NEW v \in Volumes, EnterWait(j, v) PROVE TypeOK'
  <2>1. /\ gpc[j][v] = "enter"
        /\ UNCHANGED <<jobs, cancelled, rpc, errChan, starterVars, c,
                       cancellerVars, cluster>>
        /\ Goto(j, v, "open") \/ Goto(j, v, "report")
    BY <1>11 DEF EnterWait
  <2>2. CASE Goto(j, v, "open")
    BY <2>1, <2>2 DEF Goto, vars, jobVars, starterVars, cancellerVars, cluster
  <2>3. CASE Goto(j, v, "report")
    BY <2>1, <2>3 DEF Goto, vars, jobVars, starterVars, cancellerVars, cluster
  <2>4. QED
    BY <2>1, <2>2, <2>3
<1>12. ASSUME NEW j \in Starters, NEW v \in Volumes, WaitBound(j, v) PROVE TypeOK'
  BY <1>12 DEF WaitBound, Goto, vars, jobVars, starterVars, cancellerVars, cluster
<1>13. ASSUME NEW j \in Starters, NEW v \in Volumes, WaitError(j, v) PROVE TypeOK'
  BY <1>13 DEF WaitError, Goto, vars, jobVars, starterVars, cancellerVars, cluster
<1>14. ASSUME NEW j \in Starters, NEW v \in Volumes, ReportWaitError(j, v) PROVE TypeOK'
  BY <1>14 DEF ReportWaitError, Goto, Send, vars, jobVars, starterVars, cancellerVars, cluster
<1>15. ASSUME NEW k \in Cancellers, Look(k) PROVE TypeOK'
  BY <1>15 DEF Look, vars, jobVars, starterVars, cancellerVars, cluster
<1>16. ASSUME NEW k \in Cancellers, Cancel(k) PROVE TypeOK'
  BY <1>16 DEF Cancel, vars, jobVars, starterVars, cancellerVars, cluster
<1>17. ASSUME NEW k \in Cancellers, PollExit(k) PROVE TypeOK'
  BY <1>17 DEF PollExit, vars, jobVars, starterVars, cancellerVars, cluster
<1>18. ASSUME NEW k \in Cancellers, DeleteVolumns(k) PROVE TypeOK'
  BY <1>18 DEF DeleteVolumns, vars, jobVars, starterVars, cancellerVars, cluster
<1>19. ASSUME NEW k \in Cancellers, NEW v \in Volumes, DeleteVolumn(k, v) PROVE TypeOK'
  BY <1>19 DEF DeleteVolumn, vars, jobVars, starterVars, cancellerVars, cluster
<1>20. ASSUME NEW v \in Volumes, ClusterBind(v) PROVE TypeOK'
  BY <1>20 DEF ClusterBind, vars, jobVars, starterVars, cancellerVars, cluster
<1>21. ASSUME NEW j \in Starters, NEW v \in Volumes, KWatch(j, v) PROVE TypeOK'
  BY <1>21 DEF KWatch, Goto, vars, jobVars, starterVars, cancellerVars, cluster
<1>22. ASSUME NEW j \in Starters, NEW v \in Volumes, LateRequest(j, v) PROVE TypeOK'
  BY <1>22 DEF LateRequest, Goto, vars, jobVars, starterVars, cancellerVars, cluster
<1>23. CASE UNCHANGED vars
  BY <1>23 DEF vars, jobVars, starterVars, cancellerVars, cluster
<1>24. QED
  BY <1>1, <1>2, <1>3, <1>4, <1>5, <1>6, <1>7, <1>8, <1>9, <1>10, <1>11, <1>12, <1>13, <1>14, <1>15, <1>16, <1>17, <1>18, <1>19, <1>20, <1>21, <1>22, <1>23 DEF Next, VolumeStep, RemoteStep, RunStep, CancellerStep

(* Every step keeps starters, jobs and goroutines in step. *)
LEMMA ShapeStep ==
  ASSUME TypeOK, Shape, [Next]_vars
  PROVE  Shape'
<1> USE StartersAssumption DEF TypeOK, Shape, Starters, Running, Settled, RequestErrors
<1>1. ASSUME NEW j \in Starters, Start(j) PROVE Shape'
  BY <1>1 DEF Start, Send, vars, jobVars, starterVars, cancellerVars, cluster
<1>2. ASSUME NEW j \in Starters, Read(j) PROVE Shape'
  BY <1>2 DEF Read, vars, jobVars, starterVars, cancellerVars, cluster
<1>3. ASSUME NEW j \in Starters, AllDone(j) PROVE Shape'
  BY <1>3 DEF AllDone, vars, jobVars, starterVars, cancellerVars, cluster
<1>4. ASSUME NEW j \in Starters, SendNil(j) PROVE Shape'
  BY <1>4 DEF SendNil, Send, vars, jobVars, starterVars, cancellerVars, cluster
<1>5. ASSUME NEW j \in Starters, SendJoined(j) PROVE Shape'
  BY <1>5 DEF SendJoined, Send, vars, jobVars, starterVars, cancellerVars, cluster
<1>6. ASSUME NEW j \in Starters, SendTrailingNil(j) PROVE Shape'
  BY <1>6 DEF SendTrailingNil, Send, vars, jobVars, starterVars, cancellerVars, cluster
<1>7. ASSUME NEW j \in Starters, Unregister(j) PROVE Shape'
  BY <1>7 DEF Unregister, vars, jobVars, starterVars, cancellerVars, cluster
<1>8. ASSUME NEW j \in Starters, NEW v \in Volumes, CreateVolumn(j, v) PROVE Shape'
  BY <1>8 DEF CreateVolumn, Goto, vars, jobVars, starterVars, cancellerVars, cluster
<1>9. ASSUME NEW j \in Starters, NEW v \in Volumes, ExpandVolumn(j, v) PROVE Shape'
  BY <1>9 DEF ExpandVolumn, Goto, vars, jobVars, starterVars, cancellerVars, cluster
<1>10. ASSUME NEW j \in Starters, NEW v \in Volumes, RequestError(j, v) PROVE Shape'
  BY <1>10 DEF RequestError, Goto, vars, jobVars, starterVars, cancellerVars, cluster
<1>11. ASSUME NEW j \in Starters, NEW v \in Volumes, EnterWait(j, v) PROVE Shape'
  <2>1. /\ gpc[j][v] = "enter"
        /\ UNCHANGED <<jobs, cancelled, rpc, errChan, starterVars, c,
                       cancellerVars, cluster>>
        /\ Goto(j, v, "open") \/ Goto(j, v, "report")
    BY <1>11 DEF EnterWait
  <2>2. CASE Goto(j, v, "open")
    BY <2>1, <2>2 DEF Goto, vars, jobVars, starterVars, cancellerVars, cluster
  <2>3. CASE Goto(j, v, "report")
    BY <2>1, <2>3 DEF Goto, vars, jobVars, starterVars, cancellerVars, cluster
  <2>4. QED
    BY <2>1, <2>2, <2>3
<1>12. ASSUME NEW j \in Starters, NEW v \in Volumes, WaitBound(j, v) PROVE Shape'
  BY <1>12 DEF WaitBound, Goto, vars, jobVars, starterVars, cancellerVars, cluster
<1>13. ASSUME NEW j \in Starters, NEW v \in Volumes, WaitError(j, v) PROVE Shape'
  BY <1>13 DEF WaitError, Goto, vars, jobVars, starterVars, cancellerVars, cluster
<1>14. ASSUME NEW j \in Starters, NEW v \in Volumes, ReportWaitError(j, v) PROVE Shape'
  BY <1>14 DEF ReportWaitError, Goto, Send, vars, jobVars, starterVars, cancellerVars, cluster
<1>15. ASSUME NEW k \in Cancellers, Look(k) PROVE Shape'
  BY <1>15 DEF Look, vars, jobVars, starterVars, cancellerVars, cluster
<1>16. ASSUME NEW k \in Cancellers, Cancel(k) PROVE Shape'
  BY <1>16 DEF Cancel, vars, jobVars, starterVars, cancellerVars, cluster
<1>17. ASSUME NEW k \in Cancellers, PollExit(k) PROVE Shape'
  BY <1>17 DEF PollExit, vars, jobVars, starterVars, cancellerVars, cluster
<1>18. ASSUME NEW k \in Cancellers, DeleteVolumns(k) PROVE Shape'
  BY <1>18 DEF DeleteVolumns, vars, jobVars, starterVars, cancellerVars, cluster
<1>19. ASSUME NEW k \in Cancellers, NEW v \in Volumes, DeleteVolumn(k, v) PROVE Shape'
  BY <1>19 DEF DeleteVolumn, vars, jobVars, starterVars, cancellerVars, cluster
<1>20. ASSUME NEW v \in Volumes, ClusterBind(v) PROVE Shape'
  BY <1>20 DEF ClusterBind, vars, jobVars, starterVars, cancellerVars, cluster
<1>21. ASSUME NEW j \in Starters, NEW v \in Volumes, KWatch(j, v) PROVE Shape'
  BY <1>21 DEF KWatch, Goto, vars, jobVars, starterVars, cancellerVars, cluster
<1>22. ASSUME NEW j \in Starters, NEW v \in Volumes, LateRequest(j, v) PROVE Shape'
  BY <1>22 DEF LateRequest, Goto, vars, jobVars, starterVars, cancellerVars, cluster
<1>23. CASE UNCHANGED vars
  BY <1>23 DEF vars, jobVars, starterVars, cancellerVars, cluster
<1>24. QED
  BY <1>1, <1>2, <1>3, <1>4, <1>5, <1>6, <1>7, <1>8, <1>9, <1>10, <1>11, <1>12, <1>13, <1>14, <1>15, <1>16, <1>17, <1>18, <1>19, <1>20, <1>21, <1>22, <1>23 DEF Next, VolumeStep, RemoteStep, RunStep, CancellerStep

(* Every step keeps the first message true. *)
LEMMA ToldStep ==
  ASSUME TypeOK, Shape, Told, [Next]_vars
  PROVE  Told'
<1> USE StartersAssumption DEF TypeOK, Shape, Told, Starters, Running, Settled, RequestErrors, Failed
<1>1. ASSUME NEW j \in Starters, Start(j) PROVE Told'
  BY <1>1 DEF Start, Send, vars, jobVars, starterVars, cancellerVars, cluster
<1>2. ASSUME NEW j \in Starters, Read(j) PROVE Told'
  BY <1>2 DEF Read, vars, jobVars, starterVars, cancellerVars, cluster
<1>3. ASSUME NEW j \in Starters, AllDone(j) PROVE Told'
  BY <1>3 DEF AllDone, vars, jobVars, starterVars, cancellerVars, cluster
<1>4. ASSUME NEW j \in Starters, SendNil(j) PROVE Told'
  BY <1>4 DEF SendNil, Send, vars, jobVars, starterVars, cancellerVars, cluster
<1>5. ASSUME NEW j \in Starters, SendJoined(j) PROVE Told'
  BY <1>5 DEF SendJoined, Send, vars, jobVars, starterVars, cancellerVars, cluster
<1>6. ASSUME NEW j \in Starters, SendTrailingNil(j) PROVE Told'
  BY <1>6 DEF SendTrailingNil, Send, vars, jobVars, starterVars, cancellerVars, cluster
<1>7. ASSUME NEW j \in Starters, Unregister(j) PROVE Told'
  BY <1>7 DEF Unregister, vars, jobVars, starterVars, cancellerVars, cluster
<1>8. ASSUME NEW j \in Starters, NEW v \in Volumes, CreateVolumn(j, v) PROVE Told'
  BY <1>8 DEF CreateVolumn, Goto, vars, jobVars, starterVars, cancellerVars, cluster
<1>9. ASSUME NEW j \in Starters, NEW v \in Volumes, ExpandVolumn(j, v) PROVE Told'
  BY <1>9 DEF ExpandVolumn, Goto, vars, jobVars, starterVars, cancellerVars, cluster
<1>10. ASSUME NEW j \in Starters, NEW v \in Volumes, RequestError(j, v) PROVE Told'
  BY <1>10 DEF RequestError, Goto, vars, jobVars, starterVars, cancellerVars, cluster
<1>11. ASSUME NEW j \in Starters, NEW v \in Volumes, EnterWait(j, v) PROVE Told'
  BY <1>11 DEF EnterWait, Goto, vars, jobVars, starterVars, cancellerVars, cluster
<1>12. ASSUME NEW j \in Starters, NEW v \in Volumes, WaitBound(j, v) PROVE Told'
  BY <1>12 DEF WaitBound, Goto, vars, jobVars, starterVars, cancellerVars, cluster
<1>13. ASSUME NEW j \in Starters, NEW v \in Volumes, WaitError(j, v) PROVE Told'
  BY <1>13 DEF WaitError, Goto, vars, jobVars, starterVars, cancellerVars, cluster
<1>14. ASSUME NEW j \in Starters, NEW v \in Volumes, ReportWaitError(j, v) PROVE Told'
  BY <1>14 DEF ReportWaitError, Goto, Send, vars, jobVars, starterVars, cancellerVars, cluster
<1>15. ASSUME NEW k \in Cancellers, Look(k) PROVE Told'
  BY <1>15 DEF Look, vars, jobVars, starterVars, cancellerVars, cluster
<1>16. ASSUME NEW k \in Cancellers, Cancel(k) PROVE Told'
  BY <1>16 DEF Cancel, vars, jobVars, starterVars, cancellerVars, cluster
<1>17. ASSUME NEW k \in Cancellers, PollExit(k) PROVE Told'
  BY <1>17 DEF PollExit, vars, jobVars, starterVars, cancellerVars, cluster
<1>18. ASSUME NEW k \in Cancellers, DeleteVolumns(k) PROVE Told'
  BY <1>18 DEF DeleteVolumns, vars, jobVars, starterVars, cancellerVars, cluster
<1>19. ASSUME NEW k \in Cancellers, NEW v \in Volumes, DeleteVolumn(k, v) PROVE Told'
  BY <1>19 DEF DeleteVolumn, vars, jobVars, starterVars, cancellerVars, cluster
<1>20. ASSUME NEW v \in Volumes, ClusterBind(v) PROVE Told'
  BY <1>20 DEF ClusterBind, vars, jobVars, starterVars, cancellerVars, cluster
<1>21. ASSUME NEW j \in Starters, NEW v \in Volumes, KWatch(j, v) PROVE Told'
  BY <1>21 DEF KWatch, Goto, vars, jobVars, starterVars, cancellerVars, cluster
<1>22. ASSUME NEW j \in Starters, NEW v \in Volumes, LateRequest(j, v) PROVE Told'
  BY <1>22 DEF LateRequest, Goto, vars, jobVars, starterVars, cancellerVars, cluster
<1>23. CASE UNCHANGED vars
  BY <1>23 DEF vars, jobVars, starterVars, cancellerVars, cluster
<1> HIDE DEF TypeOK, Shape, Told, Starters, Running, Settled, RequestErrors, Failed
<1>24. QED
  BY <1>1, <1>2, <1>3, <1>4, <1>5, <1>6, <1>7, <1>8, <1>9, <1>10, <1>11, <1>12, <1>13, <1>14, <1>15, <1>16, <1>17, <1>18, <1>19, <1>20, <1>21, <1>22, <1>23 DEF Next, VolumeStep, RemoteStep, RunStep, CancellerStep

(* Every step keeps count of the messages sent. *)
LEMMA SlotStep ==
  ASSUME TypeOK, Shape, Slot, [Next]_vars
  PROVE  Slot'
<1> USE StartersAssumption DEF TypeOK, Shape, Slot, Starters, Running, Settled, RequestErrors
<1>0. ASSUME UNCHANGED <<rpc, got, c>>,
             \A i \in Starters, w \in Volumes :
               /\ gpc'[i][w] = "waitError" <=> gpc[i][w] = "waitError"
               /\ gpc'[i][w] \in RequestErrors <=> gpc[i][w] \in RequestErrors
      PROVE  Slot'
  BY <1>0
<1>1. ASSUME NEW j \in Starters, Start(j) PROVE Slot'
  BY <1>1 DEF Start, Send, vars, jobVars, starterVars, cancellerVars, cluster
<1>2. ASSUME NEW j \in Starters, Read(j) PROVE Slot'
  BY <1>2 DEF Read, vars, jobVars, starterVars, cancellerVars, cluster
<1>3. ASSUME NEW j \in Starters, AllDone(j) PROVE Slot'
  BY <1>3 DEF AllDone, vars, jobVars, starterVars, cancellerVars, cluster
<1>4. ASSUME NEW j \in Starters, SendNil(j) PROVE Slot'
  BY <1>4 DEF SendNil, Send, vars, jobVars, starterVars, cancellerVars, cluster
<1>5. ASSUME NEW j \in Starters, SendJoined(j) PROVE Slot'
  BY <1>5 DEF SendJoined, Send, vars, jobVars, starterVars, cancellerVars, cluster
<1>6. ASSUME NEW j \in Starters, SendTrailingNil(j) PROVE Slot'
  BY <1>6 DEF SendTrailingNil, Send, vars, jobVars, starterVars, cancellerVars, cluster
<1>7. ASSUME NEW j \in Starters, Unregister(j) PROVE Slot'
  BY <1>7 DEF Unregister, vars, jobVars, starterVars, cancellerVars, cluster
<1>8. ASSUME NEW j \in Starters, NEW v \in Volumes, CreateVolumn(j, v) PROVE Slot'
  <2>1. UNCHANGED <<rpc, got, c>>
    BY <1>8 DEF CreateVolumn, starterVars
  <2>2. \A i \in Starters, w \in Volumes :
          /\ gpc'[i][w] = "waitError" <=> gpc[i][w] = "waitError"
          /\ gpc'[i][w] \in RequestErrors <=> gpc[i][w] \in RequestErrors
    BY <1>8 DEF CreateVolumn, Goto
  <2>3. QED
    BY <1>0, <2>1, <2>2
<1>9. ASSUME NEW j \in Starters, NEW v \in Volumes, ExpandVolumn(j, v) PROVE Slot'
  <2>1. UNCHANGED <<rpc, got, c>>
    BY <1>9 DEF ExpandVolumn, starterVars
  <2>2. \A i \in Starters, w \in Volumes :
          /\ gpc'[i][w] = "waitError" <=> gpc[i][w] = "waitError"
          /\ gpc'[i][w] \in RequestErrors <=> gpc[i][w] \in RequestErrors
    BY <1>9 DEF ExpandVolumn, Goto
  <2>3. QED
    BY <1>0, <2>1, <2>2
<1>10. ASSUME NEW j \in Starters, NEW v \in Volumes, RequestError(j, v) PROVE Slot'
  BY <1>10 DEF RequestError, Goto, vars, jobVars, starterVars, cancellerVars, cluster
<1>11. ASSUME NEW j \in Starters, NEW v \in Volumes, EnterWait(j, v) PROVE Slot'
  <2>1. UNCHANGED <<rpc, got, c>>
    BY <1>11 DEF EnterWait, starterVars
  <2>2. \A i \in Starters, w \in Volumes :
          /\ gpc'[i][w] = "waitError" <=> gpc[i][w] = "waitError"
          /\ gpc'[i][w] \in RequestErrors <=> gpc[i][w] \in RequestErrors
    BY <1>11 DEF EnterWait, Goto
  <2>3. QED
    BY <1>0, <2>1, <2>2
<1>12. ASSUME NEW j \in Starters, NEW v \in Volumes, WaitBound(j, v) PROVE Slot'
  <2>1. UNCHANGED <<rpc, got, c>>
    BY <1>12 DEF WaitBound, starterVars
  <2>2. \A i \in Starters, w \in Volumes :
          /\ gpc'[i][w] = "waitError" <=> gpc[i][w] = "waitError"
          /\ gpc'[i][w] \in RequestErrors <=> gpc[i][w] \in RequestErrors
    BY <1>12 DEF WaitBound, Goto
  <2>3. QED
    BY <1>0, <2>1, <2>2
<1>13. ASSUME NEW j \in Starters, NEW v \in Volumes, WaitError(j, v) PROVE Slot'
  <2>1. UNCHANGED <<rpc, got, c>>
    BY <1>13 DEF WaitError, starterVars
  <2>2. \A i \in Starters, w \in Volumes :
          /\ gpc'[i][w] = "waitError" <=> gpc[i][w] = "waitError"
          /\ gpc'[i][w] \in RequestErrors <=> gpc[i][w] \in RequestErrors
    BY <1>13 DEF WaitError, Goto
  <2>3. QED
    BY <1>0, <2>1, <2>2
<1>14. ASSUME NEW j \in Starters, NEW v \in Volumes, ReportWaitError(j, v) PROVE Slot'
  <2>1. /\ gpc[j][v] = "report" /\ rpc[j] = "wait" /\ c[j] = "empty"
        /\ UNCHANGED <<rpc, got>>
    <3>1. gpc[j][v] = "report" /\ c[j] = "empty" /\ UNCHANGED <<rpc, got>>
      BY <1>14 DEF ReportWaitError, Send, starterVars
    <3>2. rpc[j] \notin {"none", "first", "second", "delete", "gone"}
      BY <3>1
    <3>3. QED
      BY <3>1, <3>2
  <2>2. /\ gpc'[j][v] = "waitError"
        /\ \A i \in Starters, w \in Volumes : <<i, w>> # <<j, v>> => gpc'[i][w] = gpc[i][w]
        /\ \A i \in Starters : i # j => c'[i] = c[i]
    BY <1>14 DEF ReportWaitError, Goto, Send
  <2>3. ASSUME got[j] # "none" PROVE \E w \in Volumes : w # v /\ gpc'[j][w] = "waitError"
    <3>1. PICK w \in Volumes : gpc[j][w] = "waitError"
      BY <2>1, <2>3
    <3>2. QED
      BY <2>1, <2>2, <3>1
  <2>4. QED
    BY <2>1, <2>2, <2>3
<1>15. ASSUME NEW k \in Cancellers, Look(k) PROVE Slot'
  BY <1>15 DEF Look, vars, jobVars, starterVars, cancellerVars, cluster
<1>16. ASSUME NEW k \in Cancellers, Cancel(k) PROVE Slot'
  BY <1>16 DEF Cancel, vars, jobVars, starterVars, cancellerVars, cluster
<1>17. ASSUME NEW k \in Cancellers, PollExit(k) PROVE Slot'
  BY <1>17 DEF PollExit, vars, jobVars, starterVars, cancellerVars, cluster
<1>18. ASSUME NEW k \in Cancellers, DeleteVolumns(k) PROVE Slot'
  BY <1>18 DEF DeleteVolumns, vars, jobVars, starterVars, cancellerVars, cluster
<1>19. ASSUME NEW k \in Cancellers, NEW v \in Volumes, DeleteVolumn(k, v) PROVE Slot'
  BY <1>19 DEF DeleteVolumn, vars, jobVars, starterVars, cancellerVars, cluster
<1>20. ASSUME NEW v \in Volumes, ClusterBind(v) PROVE Slot'
  BY <1>20 DEF ClusterBind, vars, jobVars, starterVars, cancellerVars, cluster
<1>21. ASSUME NEW j \in Starters, NEW v \in Volumes, KWatch(j, v) PROVE Slot'
  <2>1. UNCHANGED <<rpc, got, c>>
    BY <1>21 DEF KWatch, starterVars
  <2>2. \A i \in Starters, w \in Volumes :
          /\ gpc'[i][w] = "waitError" <=> gpc[i][w] = "waitError"
          /\ gpc'[i][w] \in RequestErrors <=> gpc[i][w] \in RequestErrors
    BY <1>21 DEF KWatch, Goto
  <2>3. QED
    BY <1>0, <2>1, <2>2
<1>22. ASSUME NEW j \in Starters, NEW v \in Volumes, LateRequest(j, v) PROVE Slot'
  BY <1>22 DEF LateRequest, Goto, vars, jobVars, starterVars, cancellerVars, cluster
<1>23. CASE UNCHANGED vars
  BY <1>23 DEF vars, jobVars, starterVars, cancellerVars, cluster
<1>24. QED
  BY <1>1, <1>2, <1>3, <1>4, <1>5, <1>6, <1>7, <1>8, <1>9, <1>10, <1>11, <1>12, <1>13, <1>14, <1>15, <1>16, <1>17, <1>18, <1>19, <1>20, <1>21, <1>22, <1>23 DEF Next, VolumeStep, RemoteStep, RunStep, CancellerStep

(* Every step keeps bound claims bound until a deletion. *)
LEMMA ClaimsStep ==
  ASSUME TypeOK, Shape, Claims, [Next]_vars
  PROVE  Claims'
<1> USE StartersAssumption DEF TypeOK, Shape, Claims, Starters, Running, Settled, RequestErrors, Phases
<1>1. ASSUME NEW j \in Starters, Start(j) PROVE Claims'
  <2>1. UNCHANGED <<kpc, dels, pvc>>
    BY <1>1 DEF Start, cancellerVars, cluster
  <2>2. \A i \in Starters, v \in Volumes : gpc'[i][v] = "ok" => gpc[i][v] = "ok"
    <3>1. CASE UNCHANGED gpc
      BY <3>1
    <3>2. CASE gpc' = [gpc EXCEPT ![j] = [v \in Volumes |-> "request"]]
      <4>1. ASSUME NEW i \in Starters, NEW v \in Volumes PROVE gpc'[i][v] \in {"request", gpc[i][v]}
        BY <3>2
      <4>2. QED
        BY <4>1
    <3>3. QED
      BY <1>1, <3>1, <3>2 DEF Start
  <2>3. QED
    BY <2>1, <2>2
<1>2. ASSUME NEW j \in Starters, Read(j) PROVE Claims'
  BY <1>2 DEF Read, vars, jobVars, starterVars, cancellerVars, cluster
<1>3. ASSUME NEW j \in Starters, AllDone(j) PROVE Claims'
  BY <1>3 DEF AllDone, vars, jobVars, starterVars, cancellerVars, cluster
<1>4. ASSUME NEW j \in Starters, SendNil(j) PROVE Claims'
  BY <1>4 DEF SendNil, Send, vars, jobVars, starterVars, cancellerVars, cluster
<1>5. ASSUME NEW j \in Starters, SendJoined(j) PROVE Claims'
  BY <1>5 DEF SendJoined, Send, vars, jobVars, starterVars, cancellerVars, cluster
<1>6. ASSUME NEW j \in Starters, SendTrailingNil(j) PROVE Claims'
  BY <1>6 DEF SendTrailingNil, Send, vars, jobVars, starterVars, cancellerVars, cluster
<1>7. ASSUME NEW j \in Starters, Unregister(j) PROVE Claims'
  BY <1>7 DEF Unregister, vars, jobVars, starterVars, cancellerVars, cluster
<1>8. ASSUME NEW j \in Starters, NEW v \in Volumes, CreateVolumn(j, v) PROVE Claims'
  BY <1>8 DEF CreateVolumn, Goto, vars, jobVars, starterVars, cancellerVars, cluster
<1>9. ASSUME NEW j \in Starters, NEW v \in Volumes, ExpandVolumn(j, v) PROVE Claims'
  BY <1>9 DEF ExpandVolumn, Goto, vars, jobVars, starterVars, cancellerVars, cluster
<1>10. ASSUME NEW j \in Starters, NEW v \in Volumes, RequestError(j, v) PROVE Claims'
  BY <1>10 DEF RequestError, Goto, vars, jobVars, starterVars, cancellerVars, cluster
<1>11. ASSUME NEW j \in Starters, NEW v \in Volumes, EnterWait(j, v) PROVE Claims'
  BY <1>11 DEF EnterWait, Goto, vars, jobVars, starterVars, cancellerVars, cluster
<1>12. ASSUME NEW j \in Starters, NEW v \in Volumes, WaitBound(j, v) PROVE Claims'
  BY <1>12 DEF WaitBound, Goto, vars, jobVars, starterVars, cancellerVars, cluster
<1>13. ASSUME NEW j \in Starters, NEW v \in Volumes, WaitError(j, v) PROVE Claims'
  BY <1>13 DEF WaitError, Goto, vars, jobVars, starterVars, cancellerVars, cluster
<1>14. ASSUME NEW j \in Starters, NEW v \in Volumes, ReportWaitError(j, v) PROVE Claims'
  BY <1>14 DEF ReportWaitError, Goto, Send, vars, jobVars, starterVars, cancellerVars, cluster
<1>15. ASSUME NEW k \in Cancellers, Look(k) PROVE Claims'
  BY <1>15 DEF Look, vars, jobVars, starterVars, cancellerVars, cluster
<1>16. ASSUME NEW k \in Cancellers, Cancel(k) PROVE Claims'
  BY <1>16 DEF Cancel, vars, jobVars, starterVars, cancellerVars, cluster
<1>17. ASSUME NEW k \in Cancellers, PollExit(k) PROVE Claims'
  BY <1>17 DEF PollExit, vars, jobVars, starterVars, cancellerVars, cluster
<1>18. ASSUME NEW k \in Cancellers, DeleteVolumns(k) PROVE Claims'
  BY <1>18 DEF DeleteVolumns, vars, jobVars, starterVars, cancellerVars, cluster
<1>19. ASSUME NEW k \in Cancellers, NEW v \in Volumes, DeleteVolumn(k, v) PROVE Claims'
  BY <1>19 DEF DeleteVolumn, vars, jobVars, starterVars, cancellerVars, cluster
<1>20. ASSUME NEW v \in Volumes, ClusterBind(v) PROVE Claims'
  BY <1>20 DEF ClusterBind, vars, jobVars, starterVars, cancellerVars, cluster
<1>21. ASSUME NEW j \in Starters, NEW v \in Volumes, KWatch(j, v) PROVE Claims'
  BY <1>21 DEF KWatch, Goto, vars, jobVars, starterVars, cancellerVars, cluster
<1>22. ASSUME NEW j \in Starters, NEW v \in Volumes, LateRequest(j, v) PROVE Claims'
  BY <1>22 DEF LateRequest, Goto, vars, jobVars, starterVars, cancellerVars, cluster
<1>23. CASE UNCHANGED vars
  BY <1>23 DEF vars, jobVars, starterVars, cancellerVars, cluster
<1>24. QED
  BY <1>1, <1>2, <1>3, <1>4, <1>5, <1>6, <1>7, <1>8, <1>9, <1>10, <1>11, <1>12, <1>13, <1>14, <1>15, <1>16, <1>17, <1>18, <1>19, <1>20, <1>21, <1>22, <1>23 DEF Next, VolumeStep, RemoteStep, RunStep, CancellerStep

(* Every step keeps what a canceller knows of the job it found. *)
LEMMA FoundStep ==
  ASSUME TypeOK, Shape, Found, [Next]_vars
  PROVE  Found'
<1> USE StartersAssumption DEF TypeOK, Shape, Found, Starters, Running, Settled, RequestErrors
<1>1. ASSUME NEW j \in Starters, Start(j) PROVE Found'
  BY <1>1 DEF Start, Send, vars, jobVars, starterVars, cancellerVars, cluster
<1>2. ASSUME NEW j \in Starters, Read(j) PROVE Found'
  BY <1>2 DEF Read, vars, jobVars, starterVars, cancellerVars, cluster
<1>3. ASSUME NEW j \in Starters, AllDone(j) PROVE Found'
  BY <1>3 DEF AllDone, vars, jobVars, starterVars, cancellerVars, cluster
<1>4. ASSUME NEW j \in Starters, SendNil(j) PROVE Found'
  BY <1>4 DEF SendNil, Send, vars, jobVars, starterVars, cancellerVars, cluster
<1>5. ASSUME NEW j \in Starters, SendJoined(j) PROVE Found'
  BY <1>5 DEF SendJoined, Send, vars, jobVars, starterVars, cancellerVars, cluster
<1>6. ASSUME NEW j \in Starters, SendTrailingNil(j) PROVE Found'
  BY <1>6 DEF SendTrailingNil, Send, vars, jobVars, starterVars, cancellerVars, cluster
<1>7. ASSUME NEW j \in Starters, Unregister(j) PROVE Found'
  BY <1>7 DEF Unregister, vars, jobVars, starterVars, cancellerVars, cluster
<1>8. ASSUME NEW j \in Starters, NEW v \in Volumes, CreateVolumn(j, v) PROVE Found'
  BY <1>8 DEF CreateVolumn, Goto, vars, jobVars, starterVars, cancellerVars, cluster
<1>9. ASSUME NEW j \in Starters, NEW v \in Volumes, ExpandVolumn(j, v) PROVE Found'
  BY <1>9 DEF ExpandVolumn, Goto, vars, jobVars, starterVars, cancellerVars, cluster
<1>10. ASSUME NEW j \in Starters, NEW v \in Volumes, RequestError(j, v) PROVE Found'
  BY <1>10 DEF RequestError, Goto, vars, jobVars, starterVars, cancellerVars, cluster
<1>11. ASSUME NEW j \in Starters, NEW v \in Volumes, EnterWait(j, v) PROVE Found'
  BY <1>11 DEF EnterWait, Goto, vars, jobVars, starterVars, cancellerVars, cluster
<1>12. ASSUME NEW j \in Starters, NEW v \in Volumes, WaitBound(j, v) PROVE Found'
  BY <1>12 DEF WaitBound, Goto, vars, jobVars, starterVars, cancellerVars, cluster
<1>13. ASSUME NEW j \in Starters, NEW v \in Volumes, WaitError(j, v) PROVE Found'
  BY <1>13 DEF WaitError, Goto, vars, jobVars, starterVars, cancellerVars, cluster
<1>14. ASSUME NEW j \in Starters, NEW v \in Volumes, ReportWaitError(j, v) PROVE Found'
  BY <1>14 DEF ReportWaitError, Goto, Send, vars, jobVars, starterVars, cancellerVars, cluster
<1>15. ASSUME NEW k \in Cancellers, Look(k) PROVE Found'
  BY <1>15 DEF Look, vars, jobVars, starterVars, cancellerVars, cluster
<1>16. ASSUME NEW k \in Cancellers, Cancel(k) PROVE Found'
  BY <1>16 DEF Cancel, vars, jobVars, starterVars, cancellerVars, cluster
<1>17. ASSUME NEW k \in Cancellers, PollExit(k) PROVE Found'
  BY <1>17 DEF PollExit, vars, jobVars, starterVars, cancellerVars, cluster
<1>18. ASSUME NEW k \in Cancellers, DeleteVolumns(k) PROVE Found'
  BY <1>18 DEF DeleteVolumns, vars, jobVars, starterVars, cancellerVars, cluster
<1>19. ASSUME NEW k \in Cancellers, NEW v \in Volumes, DeleteVolumn(k, v) PROVE Found'
  BY <1>19 DEF DeleteVolumn, vars, jobVars, starterVars, cancellerVars, cluster
<1>20. ASSUME NEW v \in Volumes, ClusterBind(v) PROVE Found'
  BY <1>20 DEF ClusterBind, vars, jobVars, starterVars, cancellerVars, cluster
<1>21. ASSUME NEW j \in Starters, NEW v \in Volumes, KWatch(j, v) PROVE Found'
  BY <1>21 DEF KWatch, Goto, vars, jobVars, starterVars, cancellerVars, cluster
<1>22. ASSUME NEW j \in Starters, NEW v \in Volumes, LateRequest(j, v) PROVE Found'
  BY <1>22 DEF LateRequest, Goto, vars, jobVars, starterVars, cancellerVars, cluster
<1>23. CASE UNCHANGED vars
  BY <1>23 DEF vars, jobVars, starterVars, cancellerVars, cluster
<1>24. QED
  BY <1>1, <1>2, <1>3, <1>4, <1>5, <1>6, <1>7, <1>8, <1>9, <1>10, <1>11, <1>12, <1>13, <1>14, <1>15, <1>16, <1>17, <1>18, <1>19, <1>20, <1>21, <1>22, <1>23 DEF Next, VolumeStep, RemoteStep, RunStep, CancellerStep

-----------------------------------------------------------------------------
(* The initial state satisfies the inductive invariant.                    *)
LEMMA InitIInv == Init => IInv
<1> SUFFICES ASSUME Init PROVE IInv
  OBVIOUS
<1> USE StartersAssumption DEF Init, Starters
<1>1. TypeOK
  BY DEF TypeOK, Phases, Running, Settled, RequestErrors
<1>2. Shape
  BY DEF Shape, Running, Settled, RequestErrors
<1>3. Told /\ Slot
  BY DEF Told, Slot, Failed, RequestErrors
<1>4. Claims /\ Found
  BY DEF Claims, Found
<1>5. QED
  BY <1>1, <1>2, <1>3, <1>4 DEF IInv

(* IInv is an invariant of every instance.                                 *)
THEOREM Invariance == Spec => []IInv
<1>1. IInv /\ [Next]_vars => IInv'
  BY TypeStep, ShapeStep, ToldStep, SlotStep, ClaimsStep, FoundStep DEF IInv
<1>2. QED
  BY InitIInv, <1>1, PTL DEF Spec

(* The state is always of its type.                                        *)
THEOREM TypeCorrect == Spec => []TypeOK
<1>1. IInv => TypeOK
  BY DEF IInv
<1>2. QED
  BY Invariance, <1>1, PTL

(* There is never more than one running job of a name, and the table's     *)
(* entry is that job's.                                                    *)
THEOREM JobsExclude == Spec => []OneJobAtATime
<1>1. IInv => OneJobAtATime
  BY DEF IInv, Shape, OneJobAtATime
<1>2. QED
  BY Invariance, <1>1, PTL

(* The message a starter reads is nil only if every volume went well, and  *)
(* an error only if its job was refused or a volume failed.                *)
THEOREM AnswersAreTrue == Spec => []AnswerIsTrue
<1>1. IInv => AnswerIsTrue
  BY DEF IInv, Told, AnswerIsTrue
<1>2. QED
  BY Invariance, <1>1, PTL

(* A creator that was told nil finds every claim bound until somebody      *)
(* deletes.                                                                *)
THEOREM ToldMeansBound == Spec => []ClaimsBoundWhenTold
<1>1. IInv => ClaimsBoundWhenTold
  BY DEF IInv, Told, Claims, ClaimsBoundWhenTold, Starters
<1>2. QED
  BY Invariance, <1>1, PTL

(* A canceller's deletions never overlap the job it waited for.            *)
THEOREM DeletionsAreLast == Spec => []DeletionsFollowTheJob
<1>1. ASSUME IInv, NEW k \in Cancellers,
             kpc[k] \in {"clear", "deleting"}, ktgt[k] # NoJob
      PROVE  rpc[ktgt[k]] = "gone" /\ Active(ktgt[k]) = {}
  <2>1. ktgt[k] \in Starters /\ rpc[ktgt[k]] = "gone"
    BY <1>1 DEF IInv, TypeOK, Found
  <2>2. \A v \in Volumes : gpc[ktgt[k]][v] \in Settled
    BY <1>1, <2>1 DEF IInv, Shape
  <2>3. QED
    BY <2>1, <2>2 DEF Active, Settled, RequestErrors
<1>2. IInv => DeletionsFollowTheJob
  BY <1>1 DEF DeletionsFollowTheJob
<1>3. QED
  BY Invariance, <1>2, PTL

(* A goroutine is stuck on the result channel only after two volumes have  *)
(* failed, one of them while it waited to be bound.                        *)
THEOREM BlockingNeedsTwoFailures == Spec => []BlockedByTwoFailures
<1>1. IInv => BlockedByTwoFailures
  <2> SUFFICES ASSUME IInv, NEW j \in Starters, Blocked(j)
               PROVE  /\ j \in Creators
                      /\ \E v, w \in Failed(j) :
                           v # w /\ gpc[j][v] \notin RequestErrors
    BY DEF BlockedByTwoFailures
  <2>1. PICK v \in Volumes, w \in Volumes :
          /\ v # w
          /\ gpc[j][v] = "waitError"
          /\ gpc[j][w] \in RequestErrors \cup {"waitError", "report"}
    <3>1. CASE rpc[j] = "first"
      BY <3>1 DEF IInv, Shape, Slot, Blocked
    <3>2. CASE rpc[j] = "second"
      BY <3>2 DEF IInv, Shape, Slot, Blocked, RequestErrors
    <3>3. CASE \E w \in Volumes : gpc[j][w] = "report"
      <4>1. PICK w \in Volumes : gpc[j][w] = "report"
        BY <3>3
      <4>2. rpc[j] = "wait"
        BY <4>1 DEF IInv, TypeOK, Shape, Settled, RequestErrors, Running
      <4>3. \E v \in Volumes : gpc[j][v] = "waitError"
        BY <4>2 DEF IInv, Slot, Blocked
      <4>4. QED
        BY <4>1, <4>3
    <3>4. QED
      BY <3>1, <3>2, <3>3 DEF Blocked
  <2>2. j \in Creators
    BY <2>1 DEF IInv, Shape, Starters, RequestErrors
  <2>3. QED
    BY <2>1, <2>2 DEF Failed, RequestErrors
<1>2. QED
  BY Invariance, <1>1, PTL

(* With one volume no goroutine of a job is ever stuck.                    *)
COROLLARY OneVolumeNeverBlocks ==
  ASSUME NEW u, Volumes = {u}
  PROVE  Spec => [](\A j \in Starters : ~Blocked(j))
<1>1. BlockedByTwoFailures => \A j \in Starters : ~Blocked(j)
  BY DEF BlockedByTwoFailures, Failed, RequestErrors
<1>2. QED
  BY BlockingNeedsTwoFailures, <1>1, PTL

(* A claim comes into being under a registered creating job that asks for  *)
(* it, or by a request that was given up and whose starter is told so.     *)
THEOREM ClaimsAccountedFor == Spec => ClaimsAreAccountedFor
<1> DEFINE A == \A v \in Volumes :
                  pvc[v] = "absent" /\ pvc'[v] # "absent" =>
                    \/ jobs \in Creators /\ jobs' = jobs /\ gpc[jobs][v] = "request"
                    \/ \E j \in Creators : gpc[j][v] = "timedOut" /\ got[j] # "nil"
<1>1. IInv /\ [Next]_vars => [A]_vars
  <2> SUFFICES ASSUME IInv, Next, NEW u \in Volumes,
                      pvc[u] = "absent", pvc'[u] # "absent"
               PROVE  \/ jobs \in Creators /\ jobs' = jobs /\ gpc[jobs][u] = "request"
                      \/ \E j \in Creators : gpc[j][u] = "timedOut" /\ got[j] # "nil"
    OBVIOUS
  <2>1. \/ \E j \in Creators : CreateVolumn(j, u)
        \/ \E j \in Creators : LateRequest(j, u)
    <3>1. \A v \in Volumes \ {u} : \A p : pvc' # [pvc EXCEPT ![v] = p]
      BY DEF IInv, TypeOK
    <3>2. pvc' # pvc
      OBVIOUS
    <3>3. \A p \in {"bound", "absent"} :
            pvc' = [pvc EXCEPT ![u] = p] => p = "bound"
      BY DEF IInv, TypeOK
    <3>4. QED
      BY <3>1, <3>2, <3>3
      DEF Next, VolumeStep, RemoteStep, RunStep, CancellerStep, Start, Read,
          AllDone, SendNil, SendJoined, SendTrailingNil, Unregister,
          CreateVolumn, ExpandVolumn, RequestError, LateRequest, EnterWait,
          KWatch, WaitBound, WaitError, ReportWaitError, Look, Cancel, PollExit,
          DeleteVolumns, DeleteVolumn, ClusterBind, cluster
  <2>2. CASE \E j \in Creators : CreateVolumn(j, u)
    <3>1. \A j \in Starters : gpc[j][u] = "request" => jobs = j
      <4>1. ASSUME NEW j \in Starters, gpc[j][u] = "request" PROVE jobs = j
        <5>1. rpc[j] = "wait"
          BY <4>1 DEF IInv, TypeOK, Shape, Running, Settled, RequestErrors
        <5>2. QED
          BY <5>1 DEF IInv, Shape, Running
      <4>2. QED
        BY <4>1
    <3>2. QED
      BY <2>2, <3>1 DEF CreateVolumn, Starters
  <2>3. CASE \E j \in Creators : LateRequest(j, u)
    BY <2>3 DEF LateRequest, IInv, Told, Starters
  <2>4. QED
    BY <2>1, <2>2, <2>3
<1>2. QED
  BY Invariance, <1>1, PTL DEF Spec, ClaimsAreAccountedFor

-----------------------------------------------------------------------------
(* Refinement.  A step that changes no volume's outcome, no answer and not *)
(* the table is a stutter of the contract; the others are steps of it.     *)

StutterVars == <<jobs, got, spc, rpc, gpc>>

(* A step that leaves the starters and jobs alone stutters in the contract. *)
LEMMA Stutters == UNCHANGED StutterVars => UNCHANGED Contract!vars
BY DEF StutterVars, Contract!vars, Failed, RequestErrors, Starters

(* Goroutines that move without an outcome leave the contract alone.       *)
LEMMA MovesStutter ==
  ASSUME TypeOK, NEW j \in Starters, NEW v \in Volumes, NEW l,
         Goto(j, v, l), UNCHANGED <<jobs, got, spc, rpc>>,
         gpc[j][v] = "ok" <=> l = "ok",
         gpc[j][v] \in RequestErrors \cup {"waitError", "report"} <=>
           l \in RequestErrors \cup {"waitError", "report"}
  PROVE  UNCHANGED Contract!vars
<1>1. \A i \in Starters, w \in Volumes :
        /\ gpc'[i][w] = "ok" <=> gpc[i][w] = "ok"
        /\ gpc'[i][w] \in RequestErrors \cup {"waitError", "report"} <=>
             gpc[i][w] \in RequestErrors \cup {"waitError", "report"}
  BY DEF TypeOK, Goto
<1>2. /\ [i \in Starters |-> {w \in Volumes : gpc'[i][w] = "ok"}]
           = [i \in Starters |-> {w \in Volumes : gpc[i][w] = "ok"}]
      /\ [i \in Starters |-> Failed(i)'] = [i \in Starters |-> Failed(i)]
  BY <1>1 DEF Failed, RequestErrors
<1>3. QED
  BY <1>2 DEF Contract!vars

(* A goroutine that ends well settles its volume as done.                  *)
LEMMA GoodEndSettles ==
  ASSUME IInv, NEW j \in Starters, NEW v \in Volumes,
         gpc[j][v] \in {"request", "watch"}, Goto(j, v, "ok"),
         UNCHANGED <<jobs, got, spc, rpc>>
  PROVE  Contract!Settle(j, v)
<1>1. \A i \in Starters, w \in Volumes :
        i # j \/ w # v => gpc'[i][w] = gpc[i][w]
  BY DEF IInv, TypeOK, Goto
<1>2. gpc'[j][v] = "ok"
  BY DEF IInv, TypeOK, Goto
<1>3. jobs = j
  <2>1. rpc[j] \in {"none", "gone"} \cup Running /\ gpc[j][v] \notin Settled \cup {"none"}
    BY DEF IInv, TypeOK, Settled, RequestErrors
  <2>2. rpc[j] = "wait"
    BY <2>1 DEF IInv, Shape, Running
  <2>3. QED
    BY <2>2 DEF IInv, Shape, Running
<1>4. \A i \in Starters : Failed(i)' = Failed(i)
  BY <1>1, <1>2 DEF Failed, RequestErrors
<1>5. \A i \in Starters :
        {w \in Volumes : gpc'[i][w] = "ok"} =
          IF i = j THEN {w \in Volumes : gpc[j][w] = "ok"} \cup {v}
                   ELSE {w \in Volumes : gpc[i][w] = "ok"}
  BY <1>1, <1>2
<1>6. v \notin {w \in Volumes : gpc[j][w] = "ok"} \cup Failed(j)
  BY DEF Failed, RequestErrors
<1>7. QED
  BY <1>3, <1>4, <1>5, <1>6 DEF Contract!Settle

(* A goroutine that fails settles its volume as failed.                    *)
LEMMA BadEndSettles ==
  ASSUME IInv, NEW j \in Starters, NEW v \in Volumes,
         NEW l \in RequestErrors \cup {"report"},
         gpc[j][v] \in {"request", "enter", "open", "watch"}, Goto(j, v, l),
         UNCHANGED <<jobs, got, spc, rpc>>
  PROVE  Contract!Settle(j, v)
<1>1. \A i \in Starters, w \in Volumes :
        i # j \/ w # v => gpc'[i][w] = gpc[i][w]
  BY DEF IInv, TypeOK, Goto
<1>2. gpc'[j][v] = l
  BY DEF IInv, TypeOK, Goto
<1>3. jobs = j
  <2>1. rpc[j] \in {"none", "gone"} \cup Running /\ gpc[j][v] \notin Settled \cup {"none"}
    BY DEF IInv, TypeOK, Settled, RequestErrors
  <2>2. rpc[j] = "wait"
    BY <2>1 DEF IInv, Shape, Running
  <2>3. QED
    BY <2>2 DEF IInv, Shape, Running
<1>4. \A i \in Starters :
        {w \in Volumes : gpc'[i][w] = "ok"} = {w \in Volumes : gpc[i][w] = "ok"}
  BY <1>1, <1>2 DEF RequestErrors
<1>5. \A i \in Starters :
        Failed(i)' = IF i = j THEN Failed(j) \cup {v} ELSE Failed(i)
  BY <1>1, <1>2 DEF Failed, RequestErrors
<1>6. v \notin {w \in Volumes : gpc[j][w] = "ok"} \cup Failed(j)
  BY DEF Failed, RequestErrors
<1>7. QED
  BY <1>3, <1>4, <1>5, <1>6 DEF Contract!Settle

(* The job implements its contract, whatever the sets of volumes, starters *)
(* and cancellers.                                                         *)
THEOREM Refinement == Spec => KeepsContract
<1>1. Init => Contract!Init
  BY DEF Init, Contract!Init, Failed, RequestErrors, Starters
<1>2. IInv /\ [Next]_vars => [Contract!Next]_(Contract!vars)
  <2> SUFFICES ASSUME IInv, [Next]_vars
               PROVE  Contract!Next \/ UNCHANGED Contract!vars
    OBVIOUS
  <2> USE StartersAssumption
  <2>1. ASSUME NEW j \in Starters, Start(j) PROVE Contract!Next
    <3>1. spc[j] = "ready" /\ rpc[j] = "none"
      BY <2>1 DEF Start, IInv, Shape
    <3>2. /\ {i \in Starters : spc'[i] # "ready"}
               = {i \in Starters : spc[i] # "ready"} \cup {j}
          /\ got' = got
      BY <2>1 DEF Start, IInv, TypeOK
    <3>3. CASE jobs = NoJob
      <4>1. /\ jobs' = j
            /\ rpc' = [rpc EXCEPT ![j] = "wait"]
            /\ gpc' = [gpc EXCEPT ![j] = [v \in Volumes |-> "request"]]
            /\ spc' = [spc EXCEPT ![j] = "reading"]
        BY <2>1, <3>3 DEF Start
      <4>2. {i \in Starters : spc'[i] # "ready" /\ rpc'[i] = "none"}
              = {i \in Starters : spc[i] # "ready" /\ rpc[i] = "none"}
        BY <3>1, <4>1 DEF IInv, TypeOK
      <4>3. \A v \in Volumes : gpc[j][v] = "none"
        BY <3>1 DEF IInv, Shape
      <4>4. \A i \in Starters :
              /\ {v \in Volumes : gpc'[i][v] = "ok"} = {v \in Volumes : gpc[i][v] = "ok"}
              /\ Failed(i)' = Failed(i)
        BY <4>1, <4>3 DEF IInv, TypeOK, Failed, RequestErrors
      <4>5. Contract!Grant(j)
        BY <3>1, <3>2, <3>3, <4>1, <4>2, <4>4 DEF Contract!Grant
      <4>6. QED
        BY <4>5 DEF Contract!Next
    <3>4. CASE jobs # NoJob
      <4>1. /\ UNCHANGED <<jobs, rpc, gpc>>
            /\ spc' = [spc EXCEPT ![j] = "reading"]
        BY <2>1, <3>4 DEF Start
      <4>2. {i \in Starters : spc'[i] # "ready" /\ rpc'[i] = "none"}
              = {i \in Starters : spc[i] # "ready" /\ rpc[i] = "none"} \cup {j}
        BY <3>1, <4>1 DEF IInv, TypeOK
      <4>3. Contract!Refuse(j)
        BY <3>1, <3>2, <3>4, <4>1, <4>2 DEF Contract!Refuse, Failed, RequestErrors
      <4>4. QED
        BY <4>3 DEF Contract!Next
    <3>5. QED
      BY <3>3, <3>4
  <2>2. ASSUME NEW j \in Starters, Read(j) PROVE Contract!Next
    <3>1. /\ UNCHANGED <<jobs, rpc, gpc>>
          /\ spc[j] = "reading" /\ spc' = [spc EXCEPT ![j] = "answered"]
          /\ c[j] \in {"nil", "err"} /\ got' = [got EXCEPT ![j] = c[j]]
          /\ got[j] = "none"
      BY <2>2 DEF Read, jobVars, IInv, TypeOK, Shape
    <3>2. /\ c[j] = "nil" => {v \in Volumes : gpc[j][v] = "ok"} = Volumes
          /\ c[j] = "err" => rpc[j] = "none" \/ Failed(j) # {}
      BY <3>1 DEF IInv, Told
    <3>3. /\ {i \in Starters : spc'[i] # "ready"} = {i \in Starters : spc[i] # "ready"}
          /\ {i \in Starters : spc'[i] # "ready" /\ rpc'[i] = "none"}
               = {i \in Starters : spc[i] # "ready" /\ rpc[i] = "none"}
      BY <3>1 DEF IInv, TypeOK
    <3>4. Contract!Answer(j)
      BY <3>1, <3>2, <3>3 DEF Contract!Answer, Failed, RequestErrors
    <3>5. QED
      BY <3>4 DEF Contract!Next
  <2>3. ASSUME NEW j \in Starters, RunStep(j)
        PROVE  Contract!Next \/ UNCHANGED Contract!vars
    <3>1. UNCHANGED <<spc, got, gpc>> /\ rpc[j] # "none"
      BY <2>3 DEF RunStep, AllDone, SendNil, SendJoined, SendTrailingNil,
                  Unregister, starterVars
    <3>2. {i \in Starters : spc'[i] # "ready" /\ rpc'[i] = "none"}
            = {i \in Starters : spc[i] # "ready" /\ rpc[i] = "none"}
      BY <2>3, <3>1 DEF RunStep, AllDone, SendNil, SendJoined, SendTrailingNil,
                  Unregister, IInv, TypeOK
    <3>3. CASE Unregister(j)
      <4>1. jobs = j /\ \A v \in Volumes : gpc[j][v] \in Settled
        BY <3>3 DEF Unregister, IInv, Shape, Running
      <4>2. {v \in Volumes : gpc[j][v] = "ok"} \cup Failed(j) = Volumes
        BY <4>1 DEF Failed, Settled, RequestErrors
      <4>3. Contract!Release(j)
        BY <3>1, <3>2, <3>3, <4>1, <4>2 DEF Contract!Release, Unregister, Failed, RequestErrors
      <4>4. QED
        BY <4>3 DEF Contract!Next
    <3>4. CASE UNCHANGED jobs
      BY <3>1, <3>2, <3>4 DEF Contract!vars, Failed, RequestErrors
    <3>5. QED
      BY <2>3, <3>3, <3>4 DEF RunStep, AllDone, SendNil, SendJoined, SendTrailingNil
  <2>4. ASSUME NEW j \in Starters, NEW v \in Volumes,
               VolumeStep(j, v) \/ RemoteStep(j, v)
        PROVE  Contract!Next \/ UNCHANGED Contract!vars
    <3>1. UNCHANGED <<jobs, got, spc, rpc>>
      BY <2>4 DEF VolumeStep, RemoteStep, CreateVolumn, ExpandVolumn, RequestError,
                  LateRequest, EnterWait, KWatch, WaitBound, WaitError,
                  ReportWaitError, starterVars
    <3>2. CASE CreateVolumn(j, v)
      BY <3>1, <3>2, MovesStutter DEF CreateVolumn, IInv, RequestErrors
    <3>3. CASE ExpandVolumn(j, v) \/ WaitBound(j, v)
      BY <3>1, <3>3, GoodEndSettles DEF ExpandVolumn, WaitBound, Contract!Next
    <3>4. CASE RequestError(j, v) \/ WaitError(j, v)
      BY <3>1, <3>4, BadEndSettles DEF RequestError, WaitError, Contract!Next, RequestErrors
    <3>5. CASE EnterWait(j, v) \/ KWatch(j, v)
      <4>1. /\ gpc[j][v] \in {"enter", "open"}
            /\ \E l \in {"open", "watch", "report"} : Goto(j, v, l)
        BY <3>5 DEF EnterWait, KWatch
      <4>2. CASE Goto(j, v, "open")
        BY <3>1, <4>1, <4>2, MovesStutter DEF IInv, RequestErrors
      <4>3. CASE Goto(j, v, "watch")
        BY <3>1, <4>1, <4>3, MovesStutter DEF IInv, RequestErrors
      <4>4. CASE Goto(j, v, "report")
        BY <3>1, <4>1, <4>4, BadEndSettles DEF Contract!Next
      <4>5. QED
        BY <4>1, <4>2, <4>3, <4>4
    <3>6. CASE ReportWaitError(j, v) \/ LateRequest(j, v)
      BY <3>1, <3>6, MovesStutter DEF ReportWaitError, LateRequest, IInv, RequestErrors
    <3>7. QED
      BY <2>4, <3>2, <3>3, <3>4, <3>5, <3>6 DEF VolumeStep, RemoteStep
  <2>5. ASSUME NEW k \in Cancellers, CancellerStep(k)
        PROVE  UNCHANGED Contract!vars
    <3>1. UNCHANGED StutterVars
      BY <2>5 DEF CancellerStep, Look, Cancel, PollExit, DeleteVolumns,
                  StutterVars, jobVars, starterVars
    <3>2. QED
      BY <3>1, Stutters
  <2>6. ASSUME NEW k \in Cancellers, NEW v \in Volumes, DeleteVolumn(k, v)
        PROVE  UNCHANGED Contract!vars
    BY <2>6, Stutters DEF DeleteVolumn, StutterVars, jobVars, starterVars
  <2>7. ASSUME NEW v \in Volumes, ClusterBind(v)
        PROVE  UNCHANGED Contract!vars
    BY <2>7, Stutters DEF ClusterBind, StutterVars, jobVars, starterVars
  <2>8. CASE UNCHANGED vars
    BY <2>8, Stutters DEF vars, StutterVars, jobVars, starterVars
  <2>9. QED
    BY <2>1, <2>2, <2>3, <2>4, <2>5, <2>6, <2>7, <2>8 DEF Next
<1>3. QED
  BY <1>1, <1>2, Invariance, PTL DEF Spec, KeepsContract, Contract!Spec
=============================================================================
