------------------------ MODULE DepositPickupWatcher ------------------------
(***************************************************************************)
(* What the watcher decides and what the handlers free, for any constants:  *)
(* a deposit is settled on the newest reading of its box, and without a     *)
(* fault no box stays occupied for nobody.  Both need invariants beyond     *)
(* IInv: WatcherInv says what each job knows, LeakInv whom a box points to. *)
(***************************************************************************)
EXTENDS DepositPickupProofs

----------------------------------------------------------------------------
(* The watcher's decisions                                                  *)
(*                                                                          *)
(* The jobs of a box run one at a time and only they write its snapshot, so *)
(* what a job has decided on is still the newest reading when it writes.    *)

DueAt(p) == pkg[p].unlockedAt + TTL

(* Waiting readings are in the order of their instants, none of them older  *)
(* than the snapshot or newer than now.                                     *)
ReadingsInOrder ==
    \A b \in Boxes :
      /\ box[b].sensor.at <= now
      /\ \A i \in DOMAIN queue[b] : queue[b][i].kind = "reading" =>
           /\ queue[b][i].reading \in Snapshot
           /\ box[b].sensor.at <= queue[b][i].reading.at
           /\ queue[b][i].reading.at <= now
           /\ \A j \in DOMAIN queue[b] : i <= j /\ queue[b][j].kind = "reading"
                => queue[b][i].reading.at <= queue[b][j].reading.at

(* An expiry waits only for a deposit past its deadline.                    *)
ExpiriesDue ==
    \A b \in Boxes : \A i \in DOMAIN queue[b] :
      queue[b][i].kind = "expiry" => now > DueAt(queue[b][i].pkg)

(* What the running job knows is still so.                                  *)
TaskInformed(b) ==
    /\ task[b].pc \in {"link", "decide"} =>
         task[b].reading \in Snapshot /\ box[b].sensor = task[b].reading
    /\ task[b].pc = "confirm" => box[b].sensor.door = "CLOSED" /\ box[b].sensor.item
    /\ task[b].pc \in {"expiry", "cancel"} => now > DueAt(task[b].pkg)
    /\ task[b].pc = "cancel" =>
         \/ box[b].sensor = NoSnapshot
         \/ box[b].sensor.at < pkg[task[b].pkg].unlockedAt
         \/ box[b].sensor.door = "CLOSED" /\ ~box[b].sensor.item

WatcherInv == ReadingsInOrder /\ ExpiriesDue /\ \A b \in Boxes : TaskInformed(b)

(* The step leaves snapshots and deadlines alone, and time does not go back. *)
SameEvidence ==
    /\ now' \in Nat /\ now <= now'
    /\ \A c \in Boxes : box'[c].sensor = box[c].sensor
    /\ \A q \in Packages : pkg[q].status # "NONE" => pkg'[q].unlockedAt = pkg[q].unlockedAt

(* A job that goes on as it was, or has nothing left to decide.             *)
StillInformed(c) ==
    task'[c] = task[c] \/ task'[c].pc \in {"idle", "mark", "confirmBox", "cancelBox"}

(* With the same evidence a job stays informed.                             *)
LEMMA InformedStays ==
  ASSUME IInv, SameEvidence, NEW c \in Boxes, TaskInformed(c), StillInformed(c)
  PROVE  TaskInformed(c)'
<1>1. CASE task'[c].pc \in {"idle", "mark", "confirmBox", "cancelBox"}
  BY <1>1 DEF TaskInformed
<1>2. CASE task'[c] = task[c]
  <2>1. task[c].pc \in {"expiry", "cancel"} =>
          /\ pkg'[task[c].pkg].unlockedAt = pkg[task[c].pkg].unlockedAt
          /\ pkg[task[c].pkg].unlockedAt \in Nat
    BY DEF SameEvidence, IInv, TypeOK, Package, DocumentsAgree, TasksAgree, BelongsTo
  <2>2. now \in Nat /\ TTL \in Nat
    BY ClockAssumption DEF IInv, TypeOK
  <2>3. task[c].pc \in {"expiry", "cancel"} =>
          (now > DueAt(task[c].pkg) => (now > DueAt(task[c].pkg))')
    BY <1>2, <2>1, <2>2 DEF SameEvidence, DueAt
  <2> QED
    BY <1>2, <2>1, <2>3 DEF TaskInformed, SameEvidence
<1> QED
  BY <1>1, <1>2 DEF StillInformed

(* With the same evidence the waiting jobs stay as they should be.          *)
LEMMA QueueStays ==
  ASSUME IInv, WatcherInv, SameEvidence, queue' = queue
  PROVE  ReadingsInOrder' /\ ExpiriesDue'
<1>0. /\ now \in Nat /\ TTL \in Nat
      /\ \A c \in Boxes : box[c].sensor.at \in Nat
  BY ClockAssumption DEF IInv, TypeOK, Box, Snapshot, NoSnapshot
<1>1. ReadingsInOrder'
  <2>1. \A c \in Boxes : box'[c].sensor.at <= now'
    BY <1>0 DEF WatcherInv, ReadingsInOrder, SameEvidence
  <2>2. ASSUME NEW c \in Boxes, NEW i \in DOMAIN queue[c], queue[c][i].kind = "reading"
        PROVE  queue[c][i].reading.at <= now'
    <3>1. queue[c][i].reading.at \in Nat /\ queue[c][i].reading.at <= now
      BY <2>2 DEF WatcherInv, ReadingsInOrder, Snapshot
    <3> QED
      BY <1>0, <3>1 DEF SameEvidence
  <2> QED
    BY <2>1, <2>2 DEF WatcherInv, ReadingsInOrder, SameEvidence
<1>2. ExpiriesDue'
  <2>1. ASSUME NEW c \in Boxes, NEW i \in DOMAIN queue[c], queue[c][i].kind = "expiry"
        PROVE  now' > pkg'[queue[c][i].pkg].unlockedAt + TTL
    <3> PICK q \in Packages : q = queue[c][i].pkg
      BY <2>1 DEF IInv, DocumentsAgree, QueuesAgree, BelongsTo
    <3>1. pkg[q].status # "NONE" /\ pkg[q].unlockedAt \in Nat
      BY <2>1 DEF IInv, TypeOK, Package, DocumentsAgree, QueuesAgree, BelongsTo
    <3>2. now > pkg[q].unlockedAt + TTL
      BY <2>1 DEF WatcherInv, ExpiriesDue, DueAt
    <3> QED
      BY <1>0, <3>1, <3>2 DEF SameEvidence
  <2> QED
    BY <2>1 DEF ExpiriesDue, DueAt
<1> QED
  BY <1>1, <1>2

(* With the same evidence and queues, and jobs that stay informed.          *)
LEMMA WatcherStays ==
  ASSUME IInv, WatcherInv, SameEvidence, queue' = queue,
         \A c \in Boxes : StillInformed(c)
  PROVE  WatcherInv'
<1>1. \A c \in Boxes : TaskInformed(c)'
  BY InformedStays DEF WatcherInv
<1> QED
  BY <1>1, QueueStays DEF WatcherInv

(* Freeing a box leaves its snapshot.                                       *)
LEMMA FreeKeepsSnapshot ==
  ASSUME TypeOK, NEW b, NEW p, FreeIfLinked(b, p)
  PROVE  \A c \in Boxes : box'[c].sensor = box[c].sensor
<1>1. box \in [Boxes -> Box]
  BY DEF TypeOK
<1>2. ASSUME NEW c \in Boxes PROVE box'[c].sensor = box[c].sensor
  <2>1. CASE c # b
    BY <1>1, <2>1 DEF FreeIfLinked
  <2>2. CASE c = b
    BY <1>1, <2>2 DEF FreeIfLinked, Box
  <2> QED
    BY <2>1, <2>2
<1> QED
  BY <1>2

(* The steps of drop-off, pickup, return, admin and time concern no job.    *)
LEMMA RequestsKeepWatcher ==
  ASSUME IInv, WatcherInv,
         \/ \E p \in Packages :
              \/ \E b \in Boxes : DropOffCheck(p, b)
              \/ DropOffStep(p) \/ DropOffThrows(p)
              \/ PickupClaim(p) \/ ReturnClaim(p) \/ ReleaseStep(p) \/ ReleaseThrows(p)
              \/ MarkOverdue(p)
         \/ \E b \in Boxes : UpdateBoxStatus(b)
         \/ Tick
         \/ UNCHANGED vars
  PROVE  WatcherInv'
<1>0. /\ TypeOK /\ now \in Nat /\ box \in [Boxes -> Box] /\ pkg \in [Packages -> Package]
  BY DEF IInv, TypeOK
<1>1. task' = task /\ queue' = queue /\ (now' = now \/ now' = now + 1)
  <2>1. ASSUME NEW p \in Packages, NEW b \in Boxes, DropOffCheck(p, b)
        PROVE  task' = task /\ queue' = queue /\ now' = now
    BY <2>1 DEF DropOffCheck
  <2>2. ASSUME NEW p \in Packages, DropOffThrows(p) \/ ReleaseThrows(p)
        PROVE  task' = task /\ queue' = queue /\ now' = now
    BY <2>2 DEF DropOffThrows, ReleaseThrows
  <2>3. ASSUME NEW p \in Packages, PickupClaim(p) \/ ReturnClaim(p) \/ MarkOverdue(p)
        PROVE  task' = task /\ queue' = queue /\ now' = now
    BY <2>3 DEF PickupClaim, ReturnClaim, MarkOverdue
  <2>4. ASSUME NEW b \in Boxes, UpdateBoxStatus(b)
        PROVE  task' = task /\ queue' = queue /\ now' = now
    BY <2>4 DEF UpdateBoxStatus
  <2>5. CASE Tick \/ UNCHANGED vars
    BY <2>5 DEF Tick, vars
  <2> QED
    BY <2>1, <2>2, <2>3, <2>4, <2>5, DropOffFrame, ReleaseFrame
<1>2. \A c \in Boxes : box'[c].sensor = box[c].sensor
  <2>1. ASSUME NEW p \in Packages, DropOffStep(p)
        PROVE  \A c \in Boxes : box'[c].sensor = box[c].sensor
    <3> PICK d : d = drop[p].box
      OBVIOUS
    <3>1. CASE box' = [box EXCEPT ![d].status = "OCCUPIED", ![d].item = FALSE]
      BY <1>0, <3>1 DEF Box
    <3>2. CASE box' = [box EXCEPT ![d].status = "AVAILABLE", ![d].item = FALSE]
      BY <1>0, <3>2 DEF Box
    <3>3. CASE box' = [box EXCEPT ![d].link = p]
      BY <1>0, <3>3 DEF Box
    <3> QED
      BY <2>1, <3>1, <3>2, <3>3, DropOffBox
  <2>2. ASSUME NEW p \in Packages, ReleaseStep(p)
        PROVE  \A c \in Boxes : box'[c].sensor = box[c].sensor
    <3>1. CASE PickupFindBox(p)
      BY <3>1 DEF PickupFindBox
    <3>2. CASE PickupSaveBox(p)
      BY <1>0, <3>2 DEF PickupSaveBox, Box
    <3>3. CASE ReturnBox(p)
      BY <1>0, <3>3, FreeKeepsSnapshot DEF ReturnBox
    <3> QED
      BY <2>2, <3>1, <3>2, <3>3 DEF ReleaseStep
  <2>3. ASSUME NEW b \in Boxes, UpdateBoxStatus(b)
        PROVE  \A c \in Boxes : box'[c].sensor = box[c].sensor
    BY SMTT(30), <1>0, <2>3 DEF UpdateBoxStatus, Box
  <2> QED
    BY SMTT(30), <2>1, <2>2, <2>3 DEF DropOffCheck, DropOffThrows, PickupClaim, ReturnClaim,
       ReleaseThrows, MarkOverdue, Tick, vars
<1>3. \A q \in Packages : pkg[q].status # "NONE" => pkg'[q].unlockedAt = pkg[q].unlockedAt
  <2>1. ASSUME NEW p \in Packages, DropOffCreate(p)
        PROVE  \A q \in Packages : pkg[q].status # "NONE" => pkg'[q] = pkg[q]
    BY <1>0, <2>1 DEF DropOffCreate, IInv, DocumentsAgree, DropsAgree
  <2>2. ASSUME NEW p \in Packages, PickupClaim(p) \/ ReturnClaim(p) \/ MarkOverdue(p)
        PROVE  \A q \in Packages : pkg'[q].unlockedAt = pkg[q].unlockedAt
    BY <1>0, <2>2 DEF PickupClaim, ReturnClaim, MarkOverdue, Package
  <2> QED
    BY ZenonT(60), <2>1, <2>2 DEF DropOffCheck, DropOffStep, DropOffClaim, DropOffCreateFails,
       DropOffGiveBack, DropOffLink, DropOffThrows, ReleaseStep, PickupFindBox,
       PickupSaveBox, ReturnBox, ReleaseThrows, UpdateBoxStatus, Tick, vars
<1>4. SameEvidence /\ \A c \in Boxes : StillInformed(c)
  BY <1>0, <1>1, <1>2, <1>3 DEF SameEvidence, StillInformed
<1> QED
  BY <1>1, <1>4, WatcherStays

(* The writes of a job that has decided, and a job that throws.             *)
LEMMA WritesKeepWatcher ==
  ASSUME IInv, WatcherInv, NEW b \in Boxes,
         \/ MarkDoorOpened(b) \/ ConfirmDeposit(b) \/ ConfirmBox(b)
         \/ CancelDeposit(b) \/ CancelBox(b) \/ TaskThrows(b)
  PROVE  WatcherInv'
<1>0. /\ now \in Nat /\ box \in [Boxes -> Box] /\ pkg \in [Packages -> Package]
      /\ task \in [Boxes -> Task]
  BY DEF IInv, TypeOK
<1>1. queue' = queue /\ now' = now
  BY DEF MarkDoorOpened, ConfirmDeposit, ConfirmBox, CancelDeposit, CancelBox, TaskThrows
<1>2. \A c \in Boxes : StillInformed(c)
  <2>1. CASE task' = [task EXCEPT ![b] = Idle]
    BY <1>0, <2>1 DEF StillInformed, Idle
  <2>2. CASE task' = [task EXCEPT ![b].pc = "confirmBox"]
    BY <1>0, <2>2 DEF StillInformed, Task
  <2>3. CASE task' = [task EXCEPT ![b].pc = "cancelBox"]
    BY <1>0, <2>3 DEF StillInformed, Task
  <2>4. MarkDoorOpened(b) \/ ConfirmBox(b) \/ CancelBox(b) \/ TaskThrows(b)
          => task' = [task EXCEPT ![b] = Idle]
    BY Zenon DEF MarkDoorOpened, ConfirmBox, CancelBox, TaskThrows
  <2>5. ConfirmDeposit(b) => \/ task' = [task EXCEPT ![b] = Idle]
                             \/ task' = [task EXCEPT ![b].pc = "confirmBox"]
    BY DEF ConfirmDeposit
  <2>6. CancelDeposit(b) => \/ task' = [task EXCEPT ![b] = Idle]
                            \/ task' = [task EXCEPT ![b].pc = "cancelBox"]
    BY DEF CancelDeposit
  <2> QED
    BY <2>1, <2>2, <2>3, <2>4, <2>5, <2>6
<1>3. \A c \in Boxes : box'[c].sensor = box[c].sensor
  <2>1. CASE ConfirmBox(b)
    <3>1. PICK v : box' = [box EXCEPT ![pkg[task[b].pkg].box].item = v]
      BY Zenon, <2>1 DEF ConfirmBox
    <3> QED
      BY <1>0, <3>1 DEF Box
  <2>2. CASE CancelBox(b)
    BY <2>2, FreeKeepsSnapshot DEF CancelBox, IInv
  <2>3. MarkDoorOpened(b) \/ ConfirmDeposit(b) \/ CancelDeposit(b) \/ TaskThrows(b) => box' = box
    BY Zenon DEF MarkDoorOpened, ConfirmDeposit, CancelDeposit, TaskThrows
  <2> QED
    BY <2>1, <2>2, <2>3
<1>4. \A q \in Packages : pkg'[q].unlockedAt = pkg[q].unlockedAt
  <2>1. CASE MarkDoorOpened(b)
    <3>1. PICK v : pkg' = [pkg EXCEPT ![task[b].pkg].openedAt = v]
      BY Zenon, <2>1 DEF MarkDoorOpened
    <3> QED
      BY <1>0, <3>1 DEF Package
  <2>2. CASE ConfirmDeposit(b)
    BY <1>0, <2>2 DEF ConfirmDeposit, Package
  <2>3. CASE CancelDeposit(b)
    BY <1>0, <2>3 DEF CancelDeposit, Package
  <2>4. ConfirmBox(b) \/ CancelBox(b) \/ TaskThrows(b) => pkg' = pkg
    BY Zenon DEF ConfirmBox, CancelBox, TaskThrows
  <2> QED
    BY <2>1, <2>2, <2>3, <2>4
<1> QED
  BY <1>0, <1>1, <1>2, <1>3, <1>4, WatcherStays DEF SameEvidence

(* A decision is made on what the job knows.                                *)
LEMMA DecisionsKeepWatcher ==
  ASSUME IInv, WatcherInv, NEW b \in Boxes, ReadLink(b) \/ Decide(b) \/ JudgeExpiry(b)
  PROVE  WatcherInv'
<1>0. /\ TypeOK /\ now \in Nat /\ task \in [Boxes -> Task] /\ box \in [Boxes -> Box]
  BY DEF IInv, TypeOK
<1>1. /\ pkg' = pkg /\ box' = box /\ queue' = queue /\ now' = now
      /\ \A c \in Boxes : c # b => task'[c] = task[c]
  BY <1>0 DEF ReadLink, Decide, JudgeExpiry
<1>2. SameEvidence
  BY <1>0, <1>1 DEF SameEvidence
<1>3. ASSUME NEW c \in Boxes, c # b PROVE TaskInformed(c)'
  BY <1>1, <1>2, <1>3, InformedStays DEF WatcherInv, StillInformed
<1>4. TaskInformed(b)'
  <2>1. CASE ReadLink(b)
    BY <1>0, <1>1, <2>1 DEF ReadLink, Idle, Task, WatcherInv, TaskInformed
  <2>2. CASE Decide(b)
    <3> DEFINE p == pkg[task[b].pkg]
               next == IF p.status = "PENDING_DEPOSIT"
                       THEN DecideOnSensor(p, task[b].reading) ELSE "idle"
    <3>1. /\ task[b].pc = "decide"
          /\ task'[b] = IF next = "idle" THEN Idle ELSE [task[b] EXCEPT !.pc = next]
      BY <1>0, <2>2 DEF Decide
    <3>2. next = "confirm" => task[b].reading.door # "OPEN" /\ task[b].reading.item
      BY DEF DecideOnSensor
    <3>3. next \in {"mark", "idle", "confirm"}
      BY DEF DecideOnSensor
    <3>4. task[b].reading \in Snapshot /\ box[b].sensor = task[b].reading
      BY <3>1 DEF WatcherInv, TaskInformed
    <3> HIDE DEF next
    <3> QED
      BY <1>0, <1>1, <3>1, <3>2, <3>3, <3>4 DEF Idle, Task, TaskInformed, Snapshot
  <2>3. CASE JudgeExpiry(b)
    <3> DEFINE p == pkg[task[b].pkg]
               next == DecideOnExpiry(p, box[p.box].sensor)
    <3>1. /\ task[b].pc = "expiry"
          /\ task'[b] = IF next = "idle" THEN Idle ELSE [task[b] EXCEPT !.pc = next]
      BY <1>0, <2>3 DEF JudgeExpiry
    <3>2. p.box = b
      BY <3>1 DEF IInv, DocumentsAgree, TasksAgree, BelongsTo
    <3>3. box[b].sensor \in Snapshot \cup {NoSnapshot}
      BY <1>0 DEF Box
    <3>4. /\ next \in {"cancel", "idle", "confirm"}
          /\ next = "confirm" => box[b].sensor.door = "CLOSED" /\ box[b].sensor.item
          /\ next = "cancel" => \/ box[b].sensor = NoSnapshot
                                \/ box[b].sensor.at < p.unlockedAt
                                \/ box[b].sensor.door = "CLOSED" /\ ~box[b].sensor.item
      BY <3>2, <3>3 DEF DecideOnExpiry, Snapshot
    <3>5. now > DueAt(task[b].pkg)
      BY <3>1 DEF WatcherInv, TaskInformed
    <3> HIDE DEF next
    <3> QED
      BY <1>0, <1>1, <3>1, <3>4, <3>5 DEF Idle, Task, TaskInformed, DueAt
  <2> QED
    BY <2>1, <2>2, <2>3
<1> QED
  BY <1>1, <1>2, <1>3, <1>4, QueueStays DEF WatcherInv

(* A job that is queued comes last.                                         *)
LEMMA Enqueued ==
  ASSUME IInv, NEW b \in Boxes, NEW j \in Job, Enqueue(b, j)
  PROVE  /\ \A c \in Boxes : c # b => queue'[c] = queue[c]
         /\ \A i \in DOMAIN queue'[b] :
              \/ i \in DOMAIN queue[b] /\ queue'[b][i] = queue[b][i]
              \/ queue'[b][i] = j /\ \A k \in DOMAIN queue[b] : k < i
<1>1. queue \in [Boxes -> Seq(Job)]
  BY DEF IInv, TypeOK
<1>2. queue[b] \in Seq(Job) /\ queue'[b] = Append(queue[b], j)
  BY <1>1 DEF Enqueue
<1> QED
  BY <1>1, <1>2 DEF Enqueue

(* A new reading is stamped now: no waiting one is newer.                   *)
LEMMA SensorEventKeepsWatcher ==
  ASSUME IInv, WatcherInv, NEW b \in Boxes, SensorEvent(b)
  PROVE  WatcherInv'
<1>0. now \in Nat /\ box' = box /\ pkg' = pkg /\ task' = task /\ now' = now
  BY DEF IInv, TypeOK, SensorEvent
<1> PICK r \in Snapshot : /\ r.at = now
                          /\ Enqueue(b, [kind |-> "reading", pkg |-> NoPkg, reading |-> r])
  BY <1>0 DEF SensorEvent, Snapshot
<1> PICK j \in Job : Enqueue(b, j) /\ j.kind = "reading" /\ j.reading = r
  BY DEF Job
<1>1. /\ \A c \in Boxes : c # b => queue'[c] = queue[c]
      /\ \A i \in DOMAIN queue'[b] :
           \/ i \in DOMAIN queue[b] /\ queue'[b][i] = queue[b][i]
           \/ queue'[b][i] = j /\ \A k \in DOMAIN queue[b] : k < i
  BY Enqueued
<1>2. ReadingsInOrder'
  <2>1. ASSUME NEW i \in DOMAIN queue'[b], queue'[b][i].kind = "reading"
        PROVE  /\ queue'[b][i].reading \in Snapshot
               /\ box[b].sensor.at <= queue'[b][i].reading.at
               /\ queue'[b][i].reading.at <= now
    BY <1>0, <1>1, <2>1 DEF WatcherInv, ReadingsInOrder
  <2>2. ASSUME NEW i \in DOMAIN queue'[b], queue'[b][i].kind = "reading",
               NEW k \in DOMAIN queue'[b], i <= k, queue'[b][k].kind = "reading"
        PROVE  queue'[b][i].reading.at <= queue'[b][k].reading.at
    <3>1. CASE queue'[b][k] = j
      BY <2>1, <2>2, <3>1
    <3>2. CASE k \in DOMAIN queue[b] /\ queue'[b][k] = queue[b][k]
      <4>1. i \in DOMAIN queue[b] /\ queue'[b][i] = queue[b][i]
        <5>1. i \in Int /\ k \in Int
          BY DEF IInv, TypeOK, SensorEvent, Enqueue
        <5> QED
          BY <1>1, <2>2, <3>2, <5>1
      <4> QED
        BY <2>2, <3>2, <4>1 DEF WatcherInv, ReadingsInOrder
    <3> QED
      BY <1>1, <3>1, <3>2
  <2> QED
    BY <1>0, <1>1, <2>1, <2>2 DEF WatcherInv, ReadingsInOrder
<1>3. ExpiriesDue'
  BY <1>0, <1>1 DEF WatcherInv, ExpiriesDue, DueAt
<1>4. \A c \in Boxes : TaskInformed(c)'
  BY <1>0 DEF WatcherInv, TaskInformed, DueAt
<1> QED
  BY <1>2, <1>3, <1>4 DEF WatcherInv

(* The cron queues a deposit that is past its deadline.                     *)
LEMMA HandleExpiredDepositsKeepsWatcher ==
  ASSUME IInv, WatcherInv, NEW p \in Packages, HandleExpiredDeposits(p)
  PROVE  WatcherInv'
<1>0. /\ pkg[p].box \in Boxes /\ now > DueAt(p)
      /\ box' = box /\ pkg' = pkg /\ task' = task /\ now' = now
  <2>1. now \in Nat /\ TTL \in Nat /\ pkg[p].unlockedAt \in Nat
    BY ClockAssumption DEF IInv, TypeOK, Package
  <2>2. pkg[p].unlockedAt + TTL < now
    BY DEF HandleExpiredDeposits
  <2> QED
    BY <2>1, <2>2 DEF IInv, DocumentsAgree, DropsAgree, HandleExpiredDeposits, DueAt
<1> PICK b \in Boxes : b = pkg[p].box
  BY <1>0
<1> PICK j \in Job : Enqueue(b, j) /\ j.kind = "expiry" /\ j.pkg = p
  BY DEF HandleExpiredDeposits, Job
<1>1. /\ \A c \in Boxes : c # b => queue'[c] = queue[c]
      /\ \A i \in DOMAIN queue'[b] :
           \/ i \in DOMAIN queue[b] /\ queue'[b][i] = queue[b][i]
           \/ queue'[b][i] = j /\ \A k \in DOMAIN queue[b] : k < i
  BY Enqueued
<1>2. ReadingsInOrder'
  <2>1. \A i \in DOMAIN queue'[b] : queue'[b][i].kind = "reading"
          => i \in DOMAIN queue[b] /\ queue'[b][i] = queue[b][i]
    BY <1>1
  <2> QED
    BY <1>0, <1>1, <2>1 DEF WatcherInv, ReadingsInOrder
<1>3. ExpiriesDue'
  BY <1>0, <1>1 DEF WatcherInv, ExpiriesDue, DueAt
<1>4. \A c \in Boxes : TaskInformed(c)'
  BY <1>0 DEF WatcherInv, TaskInformed, DueAt
<1> QED
  BY <1>2, <1>3, <1>4 DEF WatcherInv

(* What is left of a queue was in it, one place further.                    *)
LEMMA Dequeued ==
  ASSUME IInv, NEW b \in Boxes, NEW kind, Dequeue(b, kind)
  PROVE  /\ 1 \in DOMAIN queue[b] /\ Head(queue[b]) = queue[b][1]
         /\ queue[b][1].kind = kind /\ task[b].pc = "idle"
         /\ \A i \in DOMAIN queue'[b] : /\ i \in Nat /\ i + 1 \in DOMAIN queue[b] /\ 1 <= i
                                        /\ queue'[b][i] = queue[b][i + 1]
         /\ \A c \in Boxes : c # b => queue'[c] = queue[c]
<1>1. queue \in [Boxes -> Seq(Job)]
  BY DEF IInv, TypeOK
<1>2. queue[b] \in Seq(Job) /\ queue[b] # <<>> /\ queue'[b] = Tail(queue[b])
  BY <1>1 DEF Dequeue
<1> QED
  BY <1>1, <1>2 DEF Dequeue, Idle

(* StoreReading: the reading is as new as the snapshot, and becomes it.     *)
LEMMA StoreReadingKeepsWatcher ==
  ASSUME IInv, WatcherInv, NEW b \in Boxes, StoreReading(b)
  PROVE  WatcherInv'
<1>0. /\ now \in Nat /\ box \in [Boxes -> Box] /\ task \in [Boxes -> Task]
      /\ pkg' = pkg /\ now' = now /\ Dequeue(b, "reading")
  BY DEF IInv, TypeOK, StoreReading
<1> PICK r : r = queue[b][1].reading
  OBVIOUS
<1>1. /\ r \in Snapshot /\ box[b].sensor.at <= r.at /\ r.at <= now /\ r = Head(queue[b]).reading
      /\ \A i \in DOMAIN queue[b] : 1 <= i /\ queue[b][i].kind = "reading"
           => r.at <= queue[b][i].reading.at
  BY <1>0, Dequeued DEF WatcherInv, ReadingsInOrder
<1>2. /\ box'[b].sensor = r
      /\ \A c \in Boxes : c # b => box'[c] = box[c]
      /\ task'[b] = [pc |-> "link", pkg |-> NoPkg, reading |-> r]
      /\ \A c \in Boxes : c # b => task'[c] = task[c]
  BY <1>0, <1>1 DEF StoreReading, Box
<1>3. ReadingsInOrder'
  BY <1>0, <1>1, <1>2, Dequeued DEF WatcherInv, ReadingsInOrder
<1>4. ExpiriesDue'
  BY <1>0, Dequeued DEF WatcherInv, ExpiriesDue, DueAt
<1>5. \A c \in Boxes : TaskInformed(c)'
  BY <1>0, <1>1, <1>2 DEF WatcherInv, TaskInformed, DueAt
<1> QED
  BY <1>3, <1>4, <1>5 DEF WatcherInv

(* StartExpiry: a deposit that was past its deadline still is.              *)
LEMMA StartExpiryKeepsWatcher ==
  ASSUME IInv, WatcherInv, NEW b \in Boxes, StartExpiry(b)
  PROVE  WatcherInv'
<1>0. /\ now \in Nat /\ box \in [Boxes -> Box] /\ task \in [Boxes -> Task]
      /\ pkg' = pkg /\ now' = now /\ box' = box /\ Dequeue(b, "expiry")
  BY DEF IInv, TypeOK, StartExpiry
<1>1. /\ now > DueAt(Head(queue[b]).pkg)
      /\ task'[b] = Idle \/ (task'[b].pc = "expiry" /\ task'[b].pkg = Head(queue[b]).pkg)
      /\ \A c \in Boxes : c # b => task'[c] = task[c]
  BY <1>0, Dequeued DEF WatcherInv, ExpiriesDue, StartExpiry
<1>2. ReadingsInOrder'
  BY <1>0, Dequeued DEF WatcherInv, ReadingsInOrder
<1>3. ExpiriesDue'
  BY <1>0, Dequeued DEF WatcherInv, ExpiriesDue, DueAt
<1>4. \A c \in Boxes : TaskInformed(c)'
  BY <1>0, <1>1 DEF WatcherInv, TaskInformed, DueAt, Idle
<1> QED
  BY <1>2, <1>3, <1>4 DEF WatcherInv

(* A restart empties the queues and stops the jobs.                         *)
LEMMA ServerRestartKeepsWatcher ==
  ASSUME WatcherInv, ServerRestart PROVE WatcherInv'
  BY DEF ServerRestart, WatcherInv, ReadingsInOrder, ExpiriesDue, TaskInformed, Idle

(* The watcher's invariant holds at the start and is kept by every step.    *)
LEMMA WatcherInit == Init => WatcherInv
  BY DEF Init, WatcherInv, ReadingsInOrder, ExpiriesDue, TaskInformed, Idle, NoSnapshot

(* No handler, fault or restart takes a job's knowledge away.               *)
LEMMA WatcherStep == IInv /\ WatcherInv /\ [Next]_vars => WatcherInv'
<1> SUFFICES ASSUME IInv, WatcherInv, [Next]_vars PROVE WatcherInv'
  OBVIOUS
<1>1. ASSUME NEW p \in Packages, PackageStep(p) PROVE WatcherInv'
  BY <1>1, RequestsKeepWatcher, HandleExpiredDepositsKeepsWatcher DEF PackageStep
<1>2. ASSUME NEW b \in Boxes, BoxStep(b) PROVE WatcherInv'
  <2>1. CASE TaskStep(b)
    BY <2>1, StoreReadingKeepsWatcher, StartExpiryKeepsWatcher, DecisionsKeepWatcher,
       WritesKeepWatcher DEF TaskStep
  <2> QED
    BY <1>2, <2>1, SensorEventKeepsWatcher, RequestsKeepWatcher, WritesKeepWatcher DEF BoxStep
<1>3. CASE Tick \/ UNCHANGED vars
  BY <1>3, RequestsKeepWatcher
<1>4. CASE ServerRestart
  BY <1>4, ServerRestartKeepsWatcher
<1> QED
  BY <1>1, <1>2, <1>3, <1>4 DEF Next

(* What every job of the watcher has decided on is the newest reading kept  *)
(* on its box, at each of its steps.                                        *)
THEOREM JobsStayInformed == Spec => []WatcherInv
  BY WatcherInit, WatcherStep, Invariance, PTL DEF Spec

(* Only the watcher settles a deposit.                                      *)
LEMMA Settlers ==
  ASSUME IInv, [Next]_vars, NEW p \in Packages, pkg[p].status = "PENDING_DEPOSIT",
         pkg'[p].status \in {"WAITING_FOR_PICKUP", "DEPOSIT_CANCELLED"}
  PROVE  \E b \in Boxes :
           /\ task[b].pkg = p /\ pkg[p].box = b
           /\ \/ task[b].pc = "confirm" /\ pkg'[p].status = "WAITING_FOR_PICKUP"
              \/ task[b].pc = "cancel" /\ pkg'[p].status = "DEPOSIT_CANCELLED"
<1>1. pkg \in [Packages -> Package] /\ pkg'[p].status # pkg[p].status
  BY DEF IInv, TypeOK
<1>2. ASSUME NEW q \in Packages,
             DropOffCreate(q) \/ PickupClaim(q) \/ ReturnClaim(q) \/ MarkOverdue(q)
      PROVE  FALSE
  <2>1. pkg[q].status # "PENDING_DEPOSIT"
    BY <1>2 DEF DropOffCreate, PickupClaim, ReturnClaim, MarkOverdue, PickupableStatuses,
       IInv, DocumentsAgree, DropsAgree
  <2>2. pkg'[p] = pkg[p]
    BY <1>1, <1>2, <2>1 DEF DropOffCreate, PickupClaim, ReturnClaim, MarkOverdue
  <2> QED
    BY <1>1, <2>2
<1>3. ASSUME NEW b \in Boxes, MarkDoorOpened(b) PROVE FALSE
  BY <1>1, <1>3 DEF MarkDoorOpened, Package
<1>4. ASSUME NEW b \in Boxes, ConfirmDeposit(b) \/ CancelDeposit(b)
      PROVE  /\ task[b].pkg = p /\ pkg[p].box = b
             /\ \/ task[b].pc = "confirm" /\ pkg'[p].status = "WAITING_FOR_PICKUP"
                \/ task[b].pc = "cancel" /\ pkg'[p].status = "DEPOSIT_CANCELLED"
  <2>1. task[b].pkg = p
    BY <1>1, <1>4 DEF ConfirmDeposit, CancelDeposit
  <2>2. pkg[p].box = b
    BY <1>4, <2>1 DEF ConfirmDeposit, CancelDeposit, IInv, DocumentsAgree, TasksAgree,
       BelongsTo
  <2> QED
    BY <1>1, <1>4, <2>1, <2>2 DEF ConfirmDeposit, CancelDeposit, Package
<1> QED
  BY <1>1, <1>2, <1>3, <1>4, PackageWriters

(* A deposit is confirmed only while the newest reading kept on its box     *)
(* shows a closed door and an item: no older reading overtakes a newer one. *)
THEOREM ConfirmsOnNewest == Spec => ConfirmedOnNewestReading
<1>1. IInv /\ WatcherInv /\ [Next]_vars =>
        [\A p \in Packages :
           pkg[p].status = "PENDING_DEPOSIT" /\ pkg'[p].status = "WAITING_FOR_PICKUP"
             => LET s == box[pkg[p].box].sensor IN s.door = "CLOSED" /\ s.item]_vars
  <2> SUFFICES ASSUME IInv, WatcherInv, [Next]_vars, NEW p \in Packages,
                      pkg[p].status = "PENDING_DEPOSIT",
                      pkg'[p].status = "WAITING_FOR_PICKUP"
               PROVE  box[pkg[p].box].sensor.door = "CLOSED" /\ box[pkg[p].box].sensor.item
    OBVIOUS
  <2> QED
    BY Settlers DEF WatcherInv, TaskInformed
<1> QED
  BY <1>1, Invariance, JobsStayInformed, PTL DEF Spec, ConfirmedOnNewestReading

(* A deposit is cancelled only after its deadline and never while the       *)
(* newest reading since the unlock shows an open door or an item inside.    *)
THEOREM CancelsWhenEmpty == Spec => CancelledOnlyWhenEmpty
<1>1. IInv /\ WatcherInv /\ [Next]_vars =>
        [\A p \in Packages :
           pkg[p].status = "PENDING_DEPOSIT" /\ pkg'[p].status = "DEPOSIT_CANCELLED"
             => LET s == box[pkg[p].box].sensor IN
                /\ now > pkg[p].unlockedAt + TTL
                /\ \/ s = NoSnapshot \/ s.at < pkg[p].unlockedAt
                   \/ s.door = "CLOSED" /\ ~s.item]_vars
  <2> SUFFICES ASSUME IInv, WatcherInv, [Next]_vars, NEW p \in Packages,
                      pkg[p].status = "PENDING_DEPOSIT",
                      pkg'[p].status = "DEPOSIT_CANCELLED"
               PROVE  /\ now > pkg[p].unlockedAt + TTL
                      /\ \/ box[pkg[p].box].sensor = NoSnapshot
                         \/ box[pkg[p].box].sensor.at < pkg[p].unlockedAt
                         \/ /\ box[pkg[p].box].sensor.door = "CLOSED"
                            /\ ~box[pkg[p].box].sensor.item
    OBVIOUS
  <2> QED
    BY Settlers DEF WatcherInv, TaskInformed, DueAt
<1> QED
  BY <1>1, Invariance, JobsStayInformed, PTL DEF Spec, CancelledOnlyWhenEmpty
----------------------------------------------------------------------------
(* No box leaks                                                             *)
(*                                                                          *)
(* A box is given back through its link, or by the request that claimed it. *)
(* Nothing settles a package before its link is written: the watcher finds  *)
(* it by the link, or by a deadline that a running drop-off has not reached. *)

InFlight == {"checked", "claimed", "created", "failed"}

(* A drop-off under way is within its deposit deadline, and the package it  *)
(* has created is as it created it.                                         *)
DropsFresh ==
    \A p \in Packages :
      /\ drop[p].pc \in InFlight => now <= drop[p].at + TTL
      /\ drop[p].pc = "created" => /\ pkg[p].status = "PENDING_DEPOSIT"
                                   /\ pkg[p].unlockedAt = drop[p].at

Over(p) == drop[p].pc = "over"

(* The watcher knows only packages whose drop-off is over.                  *)
KnownAreOver ==
    \A b \in Boxes :
      /\ box[b].link # NoPkg => Over(box[b].link)
      /\ task[b].pc \notin {"idle", "link"} => Over(task[b].pkg)
      /\ \A i \in DOMAIN queue[b] : queue[b][i].kind = "expiry" => Over(queue[b][i].pkg)

(* Without a fault, a box still points to its owner once it was linked.     *)
OwnersLinked ==
    faults = 0 => \A p \in Packages, b \in Boxes : Owns(p, b) /\ Over(p) => box[b].link = p

LeakInv == DropsFresh /\ KnownAreOver /\ OwnersLinked /\ OccupiedBoxHasOwner

(* What a step does to the request of a drop-off.                           *)
LEMMA DropEffects ==
  ASSUME IInv, [Next]_vars, NEW p \in Packages
  PROVE  \/ drop'[p] = drop[p]
         \/ \E b \in Boxes : DropOffCheck(p, b)
         \/ DropOffStep(p) /\ drop[p].pc \in InFlight
         \/ faults' # 0 /\ drop'[p].pc \in {"idle", "over"} /\ (Over(p) => Over(p)')
<1>0. drop \in [Packages -> DropOff] /\ faults \in Nat
  BY DEF IInv, TypeOK
<1>1. ASSUME NEW q \in Packages, PackageStep(q)
      PROVE  \/ drop'[p] = drop[p]
             \/ \E b \in Boxes : DropOffCheck(p, b)
             \/ DropOffStep(p) /\ drop[p].pc \in InFlight
             \/ faults' # 0 /\ drop'[p].pc = "over"
  <2>1. ASSUME NEW b \in Boxes, DropOffCheck(q, b)
        PROVE  drop'[p] = drop[p] \/ q = p
    BY <1>0, <2>1 DEF DropOffCheck
  <2>2. CASE DropOffStep(q)
    BY Zenon, <1>0, <2>2 DEF DropOffStep, DropOffClaim, DropOffCreate, DropOffCreateFails,
       DropOffGiveBack, DropOffLink, InFlight
  <2>3. CASE DropOffThrows(q)
    BY <1>0, <2>3 DEF DropOffThrows, Fault, Answered
  <2>4. HandleExpiredDeposits(q) \/ PickupClaim(q) \/ ReturnClaim(q) \/ ReleaseStep(q)
          \/ MarkOverdue(q) \/ ReleaseThrows(q) => drop' = drop
    <3>1. HandleExpiredDeposits(q) => drop' = drop
      BY DEF HandleExpiredDeposits
    <3>2. PickupClaim(q) \/ ReturnClaim(q) \/ MarkOverdue(q) => drop' = drop
      BY DEF PickupClaim, ReturnClaim, MarkOverdue
    <3>3. ReleaseThrows(q) => drop' = drop
      BY DEF ReleaseThrows
    <3> QED
      BY <3>1, <3>2, <3>3, ReleaseFrame
  <2> QED
    BY <1>1, <2>1, <2>2, <2>3, <2>4 DEF PackageStep
<1>2. ASSUME NEW b \in Boxes, BoxStep(b) PROVE drop' = drop
  BY <1>2 DEF BoxStep, SensorEvent, TaskStep, StoreReading, ReadLink, Decide, MarkDoorOpened,
     StartExpiry, JudgeExpiry, ConfirmDeposit, ConfirmBox, CancelDeposit, CancelBox,
     UpdateBoxStatus, TaskThrows
<1>3. CASE Tick \/ UNCHANGED vars
  BY <1>3 DEF Tick, vars
<1>4. CASE ServerRestart
  BY <1>0, <1>4 DEF ServerRestart, Fault, NotStarted, Answered, Over
<1> QED
  BY <1>1, <1>2, <1>3, <1>4 DEF Next, Over

(* A drop-off that is over stays over.                                      *)
LEMMA OverStays ==
  ASSUME IInv, [Next]_vars, NEW p \in Packages, Over(p) PROVE Over(p)'
  BY DropEffects DEF Over, DropOffCheck, InFlight

(* What a step does to the link of a box.                                   *)
LEMMA LinkEffects ==
  ASSUME IInv, [Next]_vars, NEW b \in Boxes
  PROVE  \/ box'[b].link = box[b].link
         \/ \E p \in Packages : DropOffLink(p) /\ drop[p].box = b /\ box'[b].link = p
         \/ /\ box'[b].link = NoPkg
            /\ \/ \E p \in Packages : PickupSaveBox(p) /\ pkg[p].box = b
               \/ \E p \in Packages : ReturnBox(p) /\ pkg[p].box = b /\ box[b].link = p
               \/ CancelBox(b) /\ box[b].link = task[b].pkg
<1>0. box \in [Boxes -> Box]
  BY DEF IInv, TypeOK
<1>1. ASSUME NEW p \in Packages, DropOffStep(p)
      PROVE  \/ box'[b].link = box[b].link
             \/ DropOffLink(p) /\ drop[p].box = b /\ box'[b].link = p
  <2> PICK d : d = drop[p].box
    OBVIOUS
  <2>1. CASE box' = [box EXCEPT ![d].status = "OCCUPIED", ![d].item = FALSE]
    BY <1>0, <2>1 DEF Box
  <2>2. CASE box' = [box EXCEPT ![d].status = "AVAILABLE", ![d].item = FALSE]
    BY <1>0, <2>2 DEF Box
  <2>3. CASE DropOffLink(p) /\ box' = [box EXCEPT ![d].link = p]
    BY <1>0, <2>3 DEF Box
  <2> QED
    BY <1>1, <2>1, <2>2, <2>3, DropOffBox
<1>2. ASSUME NEW x, NEW p, FreeIfLinked(x, p)
      PROVE  box'[b].link = box[b].link \/ (x = b /\ box[b].link = p /\ box'[b].link = NoPkg)
  <2>1. CASE x # b
    BY <1>0, <1>2, <2>1 DEF FreeIfLinked
  <2>2. CASE x = b
    BY <1>0, <1>2, <2>2 DEF FreeIfLinked, Box
  <2> QED
    BY <2>1, <2>2
<1>3. ASSUME NEW p \in Packages, ReleaseStep(p)
      PROVE  \/ box'[b].link = box[b].link
             \/ PickupSaveBox(p) /\ pkg[p].box = b /\ box'[b].link = NoPkg
             \/ ReturnBox(p) /\ pkg[p].box = b /\ box[b].link = p /\ box'[b].link = NoPkg
  <2>1. CASE PickupFindBox(p)
    BY <2>1 DEF PickupFindBox
  <2>2. CASE PickupSaveBox(p)
    <3>1. PICK v : box' = [box EXCEPT ![pkg[p].box].status = "AVAILABLE",
                                      ![pkg[p].box].link = NoPkg, ![pkg[p].box].item = v]
      BY Zenon, <2>2 DEF PickupSaveBox
    <3>2. box'[b].link = box[b].link \/ (pkg[p].box = b /\ box'[b].link = NoPkg)
      BY <1>0, <3>1 DEF Box
    <3> QED
      BY <2>2, <3>2
  <2>3. CASE ReturnBox(p)
    BY <1>2, <2>3 DEF ReturnBox
  <2> QED
    BY <1>3, <2>1, <2>2, <2>3 DEF ReleaseStep
<1>4. ASSUME NEW c \in Boxes, TaskStep(c)
      PROVE  \/ box'[b].link = box[b].link
             \/ CancelBox(b) /\ box[b].link = task[b].pkg /\ box'[b].link = NoPkg
  <2>1. CASE CancelBox(c)
    <3>1. pkg[task[c].pkg].box = c /\ FreeIfLinked(c, task[c].pkg)
      BY <2>1 DEF CancelBox, IInv, DocumentsAgree, TasksAgree, BelongsTo
    <3> QED
      BY <1>2, <2>1, <3>1
  <2>2. CASE StoreReading(c)
    BY <1>0, <2>2 DEF StoreReading, Box
  <2>3. CASE ConfirmBox(c)
    <3>1. PICK v : box' = [box EXCEPT ![pkg[task[c].pkg].box].item = v]
      BY Zenon, <2>3 DEF ConfirmBox
    <3> QED
      BY <1>0, <3>1 DEF Box
  <2> QED
    BY <1>4, <2>1, <2>2, <2>3 DEF TaskStep, ReadLink, Decide, MarkDoorOpened, StartExpiry,
       JudgeExpiry, ConfirmDeposit, CancelDeposit
<1>5. ASSUME NEW c \in Boxes, UpdateBoxStatus(c) PROVE box'[b].link = box[b].link
  BY <1>0, <1>5 DEF UpdateBoxStatus, Box
<1>6. CASE Tick \/ ServerRestart \/ UNCHANGED vars
  BY <1>6 DEF Tick, ServerRestart, vars
<1>7. ASSUME NEW p \in Packages, PackageStep(p), ~DropOffStep(p), ~ReleaseStep(p)
      PROVE  box' = box
  BY <1>7 DEF PackageStep, DropOffCheck, HandleExpiredDeposits, PickupClaim, ReturnClaim,
     MarkOverdue, DropOffThrows, ReleaseThrows
<1>8. ASSUME NEW c \in Boxes, BoxStep(c), ~TaskStep(c), ~UpdateBoxStatus(c)
      PROVE  box' = box
  BY <1>8 DEF BoxStep, SensorEvent, TaskThrows
<1> QED
  BY <1>1, <1>3, <1>4, <1>5, <1>6, <1>7, <1>8 DEF Next

(* A drop-off under way stays within its deadline, and nothing touches the  *)
(* package it has created.                                                  *)
LEMMA FreshStep ==
  ASSUME IInv, LeakInv, [Next]_vars PROVE DropsFresh'
<1>0. /\ now \in Nat /\ TTL \in Nat /\ drop \in [Packages -> DropOff]
      /\ pkg \in [Packages -> Package]
  BY ClockAssumption DEF IInv, TypeOK
<1>1. CASE Tick
  BY <1>0, <1>1 DEF Tick, LeakInv, DropsFresh, DropOff, InFlight
<1>2. CASE ~Tick
  <2>1. now' = now
    BY ZenonT(60), <1>2 DEF Next, PackageStep, BoxStep, DropOffCheck, DropOffStep, DropOffClaim,
       DropOffCreate, DropOffCreateFails, DropOffGiveBack, DropOffLink, DropOffThrows,
       HandleExpiredDeposits, PickupClaim, ReturnClaim, ReleaseStep, PickupFindBox,
       PickupSaveBox, ReturnBox, MarkOverdue, ReleaseThrows, SensorEvent, TaskStep,
       StoreReading, ReadLink, Decide, MarkDoorOpened, StartExpiry, JudgeExpiry,
       ConfirmDeposit, ConfirmBox, CancelDeposit, CancelBox, UpdateBoxStatus, TaskThrows,
       ServerRestart, vars
  <2>2. ASSUME NEW p \in Packages, drop[p].pc = "created"
        PROVE  pkg'[p].status = pkg[p].status /\ pkg'[p].unlockedAt = pkg[p].unlockedAt
    <3>1. pkg[p].status = "PENDING_DEPOSIT"
      BY <2>2 DEF LeakInv, DropsFresh
    <3>2. ASSUME NEW q \in Packages,
                 DropOffCreate(q) \/ PickupClaim(q) \/ ReturnClaim(q) \/ MarkOverdue(q)
          PROVE  pkg'[p] = pkg[p]
      <4>1. q # p
        BY <2>2, <3>1, <3>2 DEF DropOffCreate, PickupClaim, ReturnClaim, MarkOverdue,
           PickupableStatuses
      <4> QED
        BY <1>0, <3>2, <4>1 DEF DropOffCreate, PickupClaim, ReturnClaim, MarkOverdue
    <3>3. ASSUME NEW b \in Boxes, MarkDoorOpened(b) \/ ConfirmDeposit(b) \/ CancelDeposit(b)
          PROVE  pkg'[p] = pkg[p]
      <4>1. task[b].pkg # p
        BY <2>2, <3>3 DEF MarkDoorOpened, ConfirmDeposit, CancelDeposit, LeakInv,
           KnownAreOver, Over
      <4> QED
        BY <1>0, <3>3, <4>1 DEF MarkDoorOpened, ConfirmDeposit, CancelDeposit
    <3> QED
      BY <3>2, <3>3, PackageWriters
  <2> SUFFICES ASSUME NEW p \in Packages, drop'[p].pc \in InFlight
               PROVE  /\ now <= drop'[p].at + TTL
                      /\ drop'[p].pc = "created" => /\ pkg'[p].status = "PENDING_DEPOSIT"
                                                    /\ pkg'[p].unlockedAt = drop'[p].at
    BY <2>1 DEF DropsFresh, InFlight
  <2>3. CASE drop'[p] = drop[p]
    BY <2>2, <2>3 DEF LeakInv, DropsFresh
  <2>4. ASSUME NEW b \in Boxes, DropOffCheck(p, b)
        PROVE  drop'[p].at = now /\ drop'[p].pc = "checked"
    BY <1>0, <2>4 DEF DropOffCheck
  <2>5. CASE DropOffStep(p) /\ drop[p].pc \in InFlight
    <3>1. drop'[p].at = drop[p].at
      BY <1>0, <2>5 DEF DropOffStep, DropOffClaim, DropOffCreate, DropOffCreateFails,
         DropOffGiveBack, DropOffLink, DropOff, Answered, InFlight
    <3>2. drop'[p].pc = "created" => DropOffCreate(p)
      BY <1>0, <2>5 DEF DropOffStep, DropOffClaim, DropOffCreate, DropOffCreateFails,
         DropOffGiveBack, DropOffLink, DropOff, Answered
    <3>3. DropOffCreate(p) => /\ pkg'[p].status = "PENDING_DEPOSIT"
                              /\ pkg'[p].unlockedAt = drop[p].at
      BY <1>0 DEF DropOffCreate
    <3> QED
      BY <2>5, <3>1, <3>2, <3>3 DEF LeakInv, DropsFresh
  <2> QED
    BY SMTT(30), <1>0, <2>3, <2>4, <2>5, DropEffects DEF InFlight
<1> QED
  BY <1>1, <1>2

(* The watcher gets to know a package by its link or its deadline only.     *)
LEMMA KnownStep ==
  ASSUME IInv, LeakInv, [Next]_vars PROVE KnownAreOver'
<1>0. /\ now \in Nat /\ TTL \in Nat /\ drop \in [Packages -> DropOff]
      /\ task \in [Boxes -> Task] /\ queue \in [Boxes -> Seq(Job)]
  BY ClockAssumption DEF IInv, TypeOK
<1> SUFFICES ASSUME NEW b \in Boxes
             PROVE  /\ box'[b].link # NoPkg => drop'[box'[b].link].pc = "over"
                    /\ task'[b].pc \notin {"idle", "link"} => drop'[task'[b].pkg].pc = "over"
                    /\ \A i \in DOMAIN queue'[b] :
                         queue'[b][i].kind = "expiry" => drop'[queue'[b][i].pkg].pc = "over"
  BY DEF KnownAreOver, Over
<1>1. ASSUME NEW p \in Packages, Over(p) PROVE drop'[p].pc = "over"
  BY <1>1, OverStays DEF Over
<1>2. box'[b].link # NoPkg => drop'[box'[b].link].pc = "over"
  <2>1. box[b].link # NoPkg => box[b].link \in Packages /\ Over(box[b].link)
    BY DEF LeakInv, KnownAreOver, IInv, DocumentsAgree, LinksAgree, BelongsTo
  <2>2. ASSUME NEW p \in Packages, DropOffLink(p) PROVE drop'[p].pc = "over"
    BY <1>0, <2>2 DEF DropOffLink, Answered
  <2> QED
    BY <1>1, <2>1, <2>2, LinkEffects
<1>3. task[b].pc \notin {"idle", "link"} => task[b].pkg \in Packages /\ Over(task[b].pkg)
  BY DEF LeakInv, KnownAreOver, IInv, DocumentsAgree, TasksAgree, BelongsTo
<1>4. \A i \in DOMAIN queue[b] : queue[b][i].kind = "expiry"
        => queue[b][i].pkg \in Packages /\ Over(queue[b][i].pkg)
  BY DEF LeakInv, KnownAreOver, IInv, DocumentsAgree, QueuesAgree, BelongsTo
<1>5. task'[b].pc \notin {"idle", "link"} => drop'[task'[b].pkg].pc = "over"
  <2>1. CASE ReadLink(b)
    <3>1. task'[b] = Idle \/ (box[b].link # NoPkg /\ task'[b].pkg = box[b].link)
      BY <1>0, <2>1 DEF ReadLink, Task
    <3>2. box[b].link # NoPkg => box[b].link \in Packages /\ Over(box[b].link)
      BY DEF LeakInv, KnownAreOver, IInv, DocumentsAgree, LinksAgree, BelongsTo
    <3> QED
      BY <1>1, <3>1, <3>2 DEF Idle
  <2>2. CASE StartExpiry(b)
    <3>1. /\ 1 \in DOMAIN queue[b] /\ queue[b][1].kind = "expiry"
          /\ task'[b] = Idle \/ task'[b].pkg = queue[b][1].pkg
      BY <1>0, <2>2, Dequeued DEF StartExpiry
    <3> QED
      BY <1>1, <1>4, <3>1 DEF Idle
  <2>3. CASE ~ReadLink(b) /\ ~StartExpiry(b)
    <3>1. \/ task'[b].pc \in {"idle", "link"}
          \/ task[b].pc \notin {"idle", "link"} /\ task'[b].pkg = task[b].pkg
      <4>1. ASSUME NEW c \in Boxes, TaskStep(c), c # b PROVE task'[b] = task[b]
        BY <1>0, <4>1, TaskFrame
      <4>2. CASE TaskStep(b)
        <5> PICK s : s = task[b]
          OBVIOUS
        <5>1. CASE StoreReading(b)
          BY <1>0, <5>1 DEF StoreReading
        <5>2. ASSUME NEW x, task' = [task EXCEPT ![b] = IF x = "idle" THEN Idle
                                                        ELSE [@ EXCEPT !.pc = x]]
              PROVE  task'[b].pc = "idle" \/ task'[b].pkg = task[b].pkg
          BY <1>0, <5>2 DEF Idle, Task
        <5>3. CASE Decide(b)
          <6>1. s.pc = "decide"
            BY <5>3 DEF Decide
          <6> QED
            BY <5>2, <5>3, <6>1 DEF Decide
        <5>4. CASE JudgeExpiry(b)
          <6>1. s.pc = "expiry"
            BY <5>4 DEF JudgeExpiry
          <6> QED
            BY <5>2, <5>4, <6>1 DEF JudgeExpiry
        <5>5. CASE task' = [task EXCEPT ![b] = Idle]
          BY <1>0, <5>5 DEF Idle
        <5>6. MarkDoorOpened(b) \/ ConfirmBox(b) \/ CancelBox(b) => task' = [task EXCEPT ![b] = Idle]
          BY DEF MarkDoorOpened, ConfirmBox, CancelBox
        <5>7. CASE ConfirmDeposit(b)
          BY <1>0, <5>5, <5>7 DEF ConfirmDeposit, Task
        <5>8. CASE CancelDeposit(b)
          BY <1>0, <5>5, <5>8 DEF CancelDeposit, Task
        <5> QED
          BY <2>3, <4>2, <5>1, <5>3, <5>4, <5>5, <5>6, <5>7, <5>8 DEF TaskStep
      <4>3. ASSUME NEW c \in Boxes, TaskThrows(c)
            PROVE  task'[b] = task[b] \/ task'[b].pc = "idle"
        BY <1>0, <4>3 DEF TaskThrows, Idle
      <4>4. CASE ServerRestart
        BY <4>4 DEF ServerRestart, Idle
      <4>5. CASE \/ \E p \in Packages : PackageStep(p)
                 \/ \E c \in Boxes : SensorEvent(c) \/ UpdateBoxStatus(c)
                 \/ Tick \/ UNCHANGED vars
        <5>1. task' = task
          BY <4>5, PackageFrame DEF SensorEvent, UpdateBoxStatus, Tick, vars
        <5> QED
          BY SMTT(30), <5>1
      <4> QED
        BY <4>1, <4>2, <4>3, <4>4, <4>5 DEF Next, BoxStep
    <3> QED
      BY <1>1, <1>3, <3>1
  <2> QED
    BY <2>1, <2>2, <2>3
<1>6. ASSUME NEW i \in DOMAIN queue'[b], queue'[b][i].kind = "expiry"
      PROVE  drop'[queue'[b][i].pkg].pc = "over"
  <2>1. ASSUME NEW c \in Boxes, SensorEvent(c)
        PROVE  \E k \in DOMAIN queue[b] : queue'[b][i] = queue[b][k]
    <3>1. PICK j \in Job : Enqueue(c, j) /\ j.kind = "reading"
      BY <1>0, <2>1 DEF SensorEvent, Job, Snapshot
    <3> QED
      BY <1>6, <3>1, Enqueued
  <2>2. ASSUME NEW p \in Packages, HandleExpiredDeposits(p)
        PROVE  \/ \E k \in DOMAIN queue[b] : queue'[b][i] = queue[b][k]
               \/ queue'[b][i].pkg = p /\ Over(p)
    <3>1. PICK j \in Job : Enqueue(pkg[p].box, j) /\ j.pkg = p
      BY <2>2 DEF HandleExpiredDeposits, Job
    <3>2. /\ pkg[p].box \in Boxes /\ pkg[p].status # "NONE"
          /\ pkg[p].unlockedAt + TTL < now /\ pkg[p].unlockedAt \in Nat
      BY <2>2 DEF HandleExpiredDeposits, IInv, TypeOK, Package, DocumentsAgree, DropsAgree
    <3>3. drop[p].pc # "created"
      <4>1. drop[p].pc = "created" => /\ now <= drop[p].at + TTL
                                      /\ pkg[p].unlockedAt = drop[p].at
        BY DEF LeakInv, DropsFresh, InFlight
      <4> QED
        BY <1>0, <3>2, <4>1
    <3>4. Over(p)
      BY <1>0, <3>2, <3>3 DEF IInv, DocumentsAgree, DropsAgree, DropOff, Over
    <3> QED
      BY <3>1, <3>2, <3>4, Enqueued
  <2>3. ASSUME NEW c \in Boxes, NEW kind, Dequeue(c, kind)
        PROVE  \E k \in DOMAIN queue[b] : queue'[b][i] = queue[b][k]
    BY <2>3, Dequeued
  <2>4. CASE queue' = queue
    BY <1>1, <1>4, <1>6, <2>4
  <2>5. CASE ServerRestart
    BY <2>5 DEF ServerRestart
  <2>6. \/ queue' = queue \/ ServerRestart
        \/ \E c \in Boxes : SensorEvent(c) \/ (\E kind : Dequeue(c, kind))
        \/ \E p \in Packages : HandleExpiredDeposits(p)
    <3>1. ASSUME NEW p \in Packages, PackageStep(p)
          PROVE  queue' = queue \/ HandleExpiredDeposits(p)
      BY <3>1, PackageFrame
    <3>2. ASSUME NEW c \in Boxes, BoxStep(c)
          PROVE  queue' = queue \/ SensorEvent(c) \/ \E kind : Dequeue(c, kind)
      BY <3>2 DEF BoxStep, TaskStep, StoreReading, ReadLink, Decide, MarkDoorOpened,
         StartExpiry, JudgeExpiry, ConfirmDeposit, ConfirmBox, CancelDeposit, CancelBox,
         UpdateBoxStatus, TaskThrows
    <3> QED
      BY SMTT(30), <3>1, <3>2 DEF Next, Tick, vars
  <2> QED
    BY <1>1, <1>4, <1>6, <2>1, <2>2, <2>3, <2>4, <2>5, <2>6
<1> QED
  BY <1>2, <1>5, <1>6

(* Without a fault a package gives up its box only by freeing it.           *)
LEMMA OwnerLeaves ==
  ASSUME IInv, [Next]_vars, faults' = 0, NEW p \in Packages, NEW b \in Boxes,
         Owns(p, b), ~Owns(p, b)'
  PROVE  \/ DropOffGiveBack(p) /\ drop[p].box = b
         \/ (PickupSaveBox(p) \/ ReturnBox(p)) /\ pkg[p].box = b
         \/ CancelBox(b) /\ task[b].pkg = p
<1>0. /\ TypeOK /\ DocumentsAgree /\ faults \in Nat
      /\ pkg \in [Packages -> Package] /\ release \in [Packages -> Release]
      /\ task \in [Boxes -> Task] /\ drop \in [Packages -> DropOff]
  BY DEF IInv, TypeOK
<1>1. CASE Stored(p, b)
  <2>1. pkg' # pkg
    BY <1>1 DEF Owns, Stored
  <2>2. ASSUME NEW q \in Packages, q # p,
               DropOffCreate(q) \/ PickupClaim(q) \/ ReturnClaim(q) \/ MarkOverdue(q)
        PROVE  FALSE
    <3>1. pkg'[p] = pkg[p]
      BY <1>0, <2>2 DEF DropOffCreate, PickupClaim, ReturnClaim, MarkOverdue
    <3> QED
      BY <1>1, <3>1 DEF Owns, Stored
  <2>3. CASE DropOffCreate(p)
    BY <1>0, <1>1, <2>3 DEF DropOffCreate, DocumentsAgree, DropsAgree, Stored,
       StoredStatuses, PickupableStatuses
  <2>4. CASE PickupClaim(p) \/ ReturnClaim(p)
    <3>1. release'[p].pc # "none" /\ pkg'[p].box = pkg[p].box
      BY <1>0, <2>4 DEF PickupClaim, ReturnClaim, Release, Package
    <3> QED
      BY <1>1, <3>1 DEF Owns, Stored
  <2>5. CASE MarkOverdue(p)
    BY <1>0, <1>1, <2>5 DEF MarkOverdue, Package, Owns, Stored, StoredStatuses,
       PickupableStatuses
  <2>6. ASSUME NEW c \in Boxes, MarkDoorOpened(c) \/ ConfirmDeposit(c) PROVE FALSE
    <3>1. /\ pkg'[p].box = pkg[p].box
          /\ pkg'[p].status = pkg[p].status \/ pkg'[p].status = "WAITING_FOR_PICKUP"
      <4>1. CASE MarkDoorOpened(c)
        BY <1>0, <4>1 DEF MarkDoorOpened, Package
      <4>2. CASE ConfirmDeposit(c)
        BY <1>0, <4>2 DEF ConfirmDeposit, Package
      <4> QED
        BY <2>6, <4>1, <4>2
    <3> QED
      BY <1>1, <3>1 DEF Owns, Stored, StoredStatuses, PickupableStatuses
  <2>7. ASSUME NEW c \in Boxes, CancelDeposit(c) PROVE FALSE
    <3>1. CASE task[c].pkg # p
      <4>1. pkg'[p] = pkg[p]
        BY <1>0, <2>7, <3>1 DEF CancelDeposit
      <4> QED
        BY <1>1, <4>1 DEF Owns, Stored
    <3>2. CASE task[c].pkg = p
      <4>1. c = b
        BY <1>0, <1>1, <2>7, <3>2 DEF CancelDeposit, DocumentsAgree, TasksAgree, BelongsTo,
           Stored
      <4>2. pkg' = pkg \/ (task'[b].pc = "cancelBox" /\ task'[b].pkg = p)
        BY <1>0, <2>7, <3>2, <4>1 DEF CancelDeposit, Task
      <4> QED
        BY <2>1, <4>2 DEF Owns
    <3> QED
      BY <3>1, <3>2
  <2> QED
    BY <2>1, <2>2, <2>3, <2>4, <2>5, <2>6, <2>7, PackageWriters
<1>2. CASE drop[p].pc \in {"claimed", "failed"} /\ drop[p].box = b
  <2>1. CASE drop'[p] = drop[p]
    BY <1>2, <2>1 DEF Owns
  <2>2. ASSUME NEW c \in Boxes, DropOffCheck(p, c) PROVE FALSE
    BY <1>2, <2>2 DEF DropOffCheck
  <2>3. CASE DropOffStep(p)
    <3>1. CASE DropOffCreate(p)
      <4>1. pkg'[p].status = "PENDING_DEPOSIT" /\ pkg'[p].box = b
        BY <1>0, <1>2, <3>1 DEF DropOffCreate
      <4> QED
        BY <4>1 DEF Owns, Stored, StoredStatuses
    <3>2. CASE DropOffCreateFails(p)
      <4>1. drop'[p].pc = "failed" /\ drop'[p].box = b
        BY <1>0, <1>2, <3>2 DEF DropOffCreateFails, DropOff
      <4> QED
        BY <4>1 DEF Owns
    <3> QED
      BY <1>2, <2>3, <3>1, <3>2 DEF DropOffStep, DropOffClaim, DropOffLink
  <2> QED
    BY <2>1, <2>2, <2>3, DropEffects
<1>3. CASE release[p].pc # "none" /\ pkg[p].box = b
  <2>1. pkg'[p].box = pkg[p].box
    <3>1. ASSUME NEW q \in Packages,
                 DropOffCreate(q) \/ PickupClaim(q) \/ ReturnClaim(q) \/ MarkOverdue(q)
          PROVE  pkg'[p].box = pkg[p].box
      <4>1. pkg[p].status \in EndedStatuses
        BY <1>0, <1>3 DEF DocumentsAgree, ReleasesAgree, Release, EndedStatuses
      <4>2. q # p
        BY <1>0, <3>1, <4>1 DEF DropOffCreate, PickupClaim, ReturnClaim, MarkOverdue,
           PickupableStatuses, EndedStatuses, DocumentsAgree, DropsAgree
      <4> QED
        BY <1>0, <3>1, <4>2 DEF DropOffCreate, PickupClaim, ReturnClaim, MarkOverdue
    <3>2. ASSUME NEW c \in Boxes, MarkDoorOpened(c) \/ ConfirmDeposit(c) \/ CancelDeposit(c)
          PROVE  pkg'[p].box = pkg[p].box
      <4>1. CASE MarkDoorOpened(c)
        BY <1>0, <4>1 DEF MarkDoorOpened, Package
      <4>2. CASE ConfirmDeposit(c)
        BY <1>0, <4>2 DEF ConfirmDeposit, Package
      <4>3. CASE CancelDeposit(c)
        BY <1>0, <4>3 DEF CancelDeposit, Package
      <4> QED
        BY <3>2, <4>1, <4>2, <4>3
    <3> QED
      BY <3>1, <3>2, PackageWriters
  <2>2. release'[p].pc = "none"
    BY <1>3, <2>1 DEF Owns
  <2>3. ASSUME NEW q \in Packages, PackageStep(q) PROVE PickupSaveBox(p) \/ ReturnBox(p)
    <3>1. CASE ReleaseStep(q)
      <4>1. q = p
        BY <1>0, <1>3, <2>2, <3>1 DEF ReleaseStep, PickupFindBox, PickupSaveBox, ReturnBox
      <4>2. ~PickupFindBox(p)
        BY <1>0, <2>2 DEF PickupFindBox
      <4> QED
        BY <3>1, <4>1, <4>2 DEF ReleaseStep
    <3>2. CASE PickupClaim(q) \/ ReturnClaim(q)
      BY SMTT(30), <1>0, <1>3, <2>2, <3>2 DEF PickupClaim, ReturnClaim, Release
    <3>3. ~ReleaseThrows(q)
      BY <1>0 DEF ReleaseThrows, Fault
    <3> QED
      BY <1>3, <2>2, <2>3, <3>1, <3>2, <3>3 DEF PackageStep, DropOffCheck, DropOffStep,
         DropOffClaim, DropOffCreate, DropOffCreateFails, DropOffGiveBack, DropOffLink,
         DropOffThrows, HandleExpiredDeposits, MarkOverdue
  <2>4. ASSUME NEW c \in Boxes, BoxStep(c) PROVE FALSE
    BY <1>3, <2>2, <2>4 DEF BoxStep, SensorEvent, TaskStep, StoreReading, ReadLink, Decide,
       MarkDoorOpened, StartExpiry, JudgeExpiry, ConfirmDeposit, ConfirmBox, CancelDeposit,
       CancelBox, UpdateBoxStatus, TaskThrows
  <2> QED
    BY <1>0, <1>3, <2>2, <2>3, <2>4 DEF Next, Tick, ServerRestart, Fault, vars
<1>4. CASE task[b].pc = "cancelBox" /\ task[b].pkg = p
  <2>1. task'[b] # task[b]
    BY SMTT(30), <1>4 DEF Owns
  <2>2. ASSUME NEW q \in Packages, PackageStep(q) PROVE FALSE
    BY <2>1, <2>2, PackageFrame
  <2>3. ASSUME NEW c \in Boxes, BoxStep(c) PROVE CancelBox(b)
    <3>1. CASE c # b
      <4>1. TaskStep(c) => task'[b] = task[b]
        BY <1>0, <3>1, TaskFrame
      <4> QED
        BY <1>0, <2>1, <2>3, <3>1, <4>1 DEF BoxStep, SensorEvent, UpdateBoxStatus, TaskThrows
    <3>2. CASE c = b
      <4>1. ~SensorEvent(b) /\ ~UpdateBoxStatus(b)
        BY <2>1 DEF SensorEvent, UpdateBoxStatus
      <4>2. ~TaskThrows(b)
        BY <1>0 DEF TaskThrows, Fault
      <4>3. ~StoreReading(b) /\ ~StartExpiry(b)
        BY <1>4 DEF StoreReading, StartExpiry, Dequeue, Idle
      <4>4. ~ReadLink(b) /\ ~Decide(b) /\ ~JudgeExpiry(b)
        BY <1>4 DEF ReadLink, Decide, JudgeExpiry
      <4>5. ~MarkDoorOpened(b) /\ ~ConfirmDeposit(b) /\ ~ConfirmBox(b) /\ ~CancelDeposit(b)
        BY <1>4 DEF MarkDoorOpened, ConfirmDeposit, ConfirmBox, CancelDeposit
      <4> QED
        BY <2>3, <3>2, <4>1, <4>2, <4>3, <4>4, <4>5 DEF BoxStep, TaskStep
    <3> QED
      BY <3>1, <3>2
  <2> QED
    BY <1>0, <1>4, <2>1, <2>2, <2>3 DEF Next, Tick, ServerRestart, Fault, vars
<1> QED
  BY <1>1, <1>2, <1>3, <1>4 DEF Owns

(* Who owns a box after a fault-free step owned it before, or claims it.    *)
LEMMA OwnerComes ==
  ASSUME IInv, [Next]_vars, faults' = 0, NEW p \in Packages, NEW b \in Boxes, Owns(p, b)'
  PROVE  Owns(p, b) \/ (DropOffClaim(p) /\ drop'[p].pc = "claimed")
<1>0. TypeOK /\ DocumentsAgree /\ drop \in [Packages -> DropOff]
  BY DEF IInv, TypeOK
<1>1. KeepsOwners => Owns(p, b)
  BY DEF KeepsOwners
<1>2. ASSUME NEW q \in Packages, PackageStep(q)
      PROVE  KeepsOwners \/ DropOffClaim(q)
  BY <1>0, <1>2, DropOffCheckKeepsOwners, DropOffCreateKeepsOwners,
     DropOffCreateFailsKeepsOwners, DropOffGiveBackKeepsOwners, DropOffLinkKeepsOwners,
     HandleExpiredDepositsKeepsOwners, PickupClaimKeepsOwners, ReturnClaimKeepsOwners,
     MarkOverdueKeepsOwners, PickupFindBoxKeepsOwners, PickupSaveBoxKeepsOwners,
     ReturnBoxKeepsOwners, DropOffThrowsKeepsOwners, ReleaseThrowsKeepsOwners
  DEF PackageStep, DropOffStep, ReleaseStep
<1>3. ASSUME NEW c \in Boxes, BoxStep(c) PROVE KeepsOwners
  BY <1>0, <1>3, SensorEventKeepsOwners, StoreReadingKeepsOwners, ReadLinkKeepsOwners,
     DecideKeepsOwners, MarkDoorOpenedKeepsOwners, StartExpiryKeepsOwners,
     JudgeExpiryKeepsOwners, ConfirmDepositKeepsOwners, ConfirmBoxKeepsOwners,
     CancelDepositKeepsOwners, CancelBoxKeepsOwners, UpdateBoxStatusKeepsOwners,
     TaskThrowsKeepsOwners DEF BoxStep, TaskStep
<1>4. CASE Tick \/ ServerRestart
  BY <1>0, <1>1, <1>4, TickKeepsOwners, ServerRestartKeepsOwners
<1>5. CASE UNCHANGED vars
  BY <1>5 DEF vars, Owns, Stored
<1>6. ASSUME NEW q \in Packages, DropOffClaim(q)
      PROVE  Owns(p, b) \/ (DropOffClaim(p) /\ drop'[p].pc = "claimed")
  <2>1. CASE q # p \/ drop'[p].pc # "claimed"
    <3>1. drop'[p] = drop[p] \/ drop'[p].pc = "over"
      <4>1. CASE q # p
        BY <1>0, <1>6, <4>1 DEF DropOffClaim
      <4>2. CASE q = p /\ drop'[p].pc # "claimed"
        BY <1>0, <1>6, <4>2 DEF DropOffClaim, Answered, DropOff
      <4> QED
        BY <2>1, <4>1, <4>2
    <3>2. pkg' = pkg /\ release' = release /\ task' = task
      BY <1>6 DEF DropOffClaim
    <3> QED
      BY <3>1, <3>2 DEF Owns, Stored
  <2>2. CASE q = p /\ drop'[p].pc = "claimed"
    BY <1>6, <2>2
  <2> QED
    BY <2>1, <2>2
<1> QED
  BY <1>1, <1>2, <1>3, <1>4, <1>5, <1>6 DEF Next

(* Faults are only counted up.                                              *)
LEMMA FaultsCount == ASSUME IInv, [Next]_vars, faults' = 0 PROVE faults = 0
<1>1. faults \in Nat
  BY SMTT(30) DEF IInv, TypeOK
<1>2. faults' = faults \/ faults' = faults + 1
  BY ZenonT(60) DEF Next, PackageStep, BoxStep, DropOffCheck, DropOffStep, DropOffClaim, DropOffCreate,
     DropOffCreateFails, DropOffGiveBack, DropOffLink, DropOffThrows, HandleExpiredDeposits,
     PickupClaim, ReturnClaim, ReleaseStep, PickupFindBox, PickupSaveBox, ReturnBox,
     MarkOverdue, ReleaseThrows, SensorEvent, TaskStep, StoreReading, ReadLink, Decide,
     MarkDoorOpened, StartExpiry, JudgeExpiry, ConfirmDeposit, ConfirmBox, CancelDeposit,
     CancelBox, UpdateBoxStatus, TaskThrows, ServerRestart, Tick, Fault, vars
<1> QED
  BY <1>1, <1>2

(* A package whose release has ended owns no box.                           *)
LEMMA ReleasedIsNoOwner ==
  ASSUME IInv, NEW p \in Packages, NEW b \in Boxes, PickupSaveBox(p) \/ ReturnBox(p)
  PROVE  ~Owns(p, b)'
<1>1. pkg' = pkg /\ drop' = drop /\ task' = task
  BY DEF PickupSaveBox, ReturnBox
<1>2. pkg[p].status \in {"PICKED_UP", "RETURNED"}
  BY DEF PickupSaveBox, ReturnBox, IInv, DocumentsAgree, ReleasesAgree
<1>3. release'[p].pc = "none"
  BY DEF PickupSaveBox, ReturnBox, IInv, TypeOK, NoRelease
<1> QED
  BY <1>1, <1>2, <1>3 DEF Owns, Stored, StoredStatuses, PickupableStatuses, IInv,
     DocumentsAgree, DropsAgree, TasksAgree

(* Nor does a cancelled one whose box the watcher has freed.                *)
LEMMA CancelledIsNoOwner ==
  ASSUME IInv, NEW p \in Packages, NEW b \in Boxes, CancelBox(b), task[b].pkg = p
  PROVE  ~Owns(p, b)'
<1>1. pkg' = pkg /\ drop' = drop /\ release' = release
  BY DEF CancelBox
<1>2. pkg[p].status = "DEPOSIT_CANCELLED"
  BY DEF CancelBox, IInv, DocumentsAgree, TasksAgree
<1>3. task'[b].pc = "idle"
  BY DEF CancelBox, IInv, TypeOK, Idle
<1>4. release[p].pc = "none"
  BY <1>2 DEF IInv, TypeOK, Release, DocumentsAgree, ReleasesAgree
<1> QED
  BY <1>1, <1>2, <1>3, <1>4 DEF Owns, Stored, StoredStatuses, PickupableStatuses, IInv,
     DocumentsAgree, DropsAgree

(* Only a claim makes a box occupied.                                       *)
LEMMA Occupiers ==
  ASSUME IInv, [Next]_vars, NEW b \in Boxes, box[b].status # "OCCUPIED",
         box'[b].status = "OCCUPIED"
  PROVE  \E p \in Packages : DropOffClaim(p) /\ drop[p].box = b /\ box[b].status = "AVAILABLE"
<1>0. box \in [Boxes -> Box]
  BY DEF IInv, TypeOK
<1>1. ASSUME NEW x, NEW p, FreeIfLinked(x, p) PROVE FALSE
  <2>1. CASE x # b
    BY <1>0, <1>1, <2>1 DEF FreeIfLinked
  <2>2. CASE x = b
    BY <1>0, <1>1, <2>2 DEF FreeIfLinked, Box
  <2> QED
    BY <2>1, <2>2
<1>2. ASSUME NEW p \in Packages, DropOffStep(p)
      PROVE  DropOffClaim(p) /\ drop[p].box = b /\ box[b].status = "AVAILABLE"
  <2> PICK d : d = drop[p].box
    OBVIOUS
  <2>1. CASE /\ DropOffClaim(p) /\ box[d].status = "AVAILABLE"
             /\ box' = [box EXCEPT ![d].status = "OCCUPIED", ![d].item = FALSE]
    BY <1>0, <2>1 DEF Box
  <2>2. CASE box' = [box EXCEPT ![d].status = "AVAILABLE", ![d].item = FALSE]
    BY <1>0, <2>2 DEF Box
  <2>3. CASE box' = [box EXCEPT ![d].link = p]
    BY <1>0, <2>3 DEF Box
  <2> QED
    BY <1>2, <2>1, <2>2, <2>3, DropOffBox
<1>3. ASSUME NEW p \in Packages, ReleaseStep(p) PROVE FALSE
  <2>1. CASE PickupSaveBox(p)
    <3>1. PICK v : box' = [box EXCEPT ![pkg[p].box].status = "AVAILABLE",
                                      ![pkg[p].box].link = NoPkg, ![pkg[p].box].item = v]
      BY Zenon, <2>1 DEF PickupSaveBox
    <3> QED
      BY <1>0, <3>1 DEF Box
  <2> QED
    BY <1>1, <1>3, <2>1 DEF ReleaseStep, PickupFindBox, ReturnBox
<1>4. ASSUME NEW c \in Boxes, TaskStep(c) PROVE FALSE
  <2>1. ~StoreReading(c)
    BY <1>0 DEF StoreReading, Box
  <2>2. ~ConfirmBox(c)
    <3>1. ASSUME NEW v, NEW d, box' = [box EXCEPT ![d].item = v] PROVE FALSE
      BY <1>0, <3>1 DEF Box
    <3> QED
      BY Zenon, <3>1 DEF ConfirmBox
  <2>3. ~CancelBox(c)
    BY <1>1 DEF CancelBox
  <2> QED
    BY <1>4, <2>1, <2>2, <2>3 DEF TaskStep, ReadLink, Decide, MarkDoorOpened, StartExpiry,
       JudgeExpiry, ConfirmDeposit, CancelDeposit
<1>5. ASSUME NEW c \in Boxes, UpdateBoxStatus(c) PROVE FALSE
  BY <1>0, <1>5 DEF UpdateBoxStatus, Box
<1>6. ASSUME NEW p \in Packages, PackageStep(p) PROVE DropOffStep(p) \/ ReleaseStep(p)
  BY <1>6 DEF PackageStep, DropOffCheck, HandleExpiredDeposits, PickupClaim, ReturnClaim,
     MarkOverdue, DropOffThrows, ReleaseThrows
<1>7. ASSUME NEW c \in Boxes, BoxStep(c) PROVE TaskStep(c) \/ UpdateBoxStatus(c)
  BY <1>7 DEF BoxStep, SensorEvent, TaskThrows
<1> QED
  BY <1>2, <1>3, <1>4, <1>5, <1>6, <1>7 DEF Next, Tick, ServerRestart, vars

(* A box is unlinked only when its owner frees it, and linked when its      *)
(* owner's drop-off is over.                                                *)
LEMMA LinkedStep ==
  ASSUME IInv, LeakInv, [Next]_vars PROVE OwnersLinked'
<1> SUFFICES ASSUME faults' = 0, NEW p \in Packages, NEW b \in Boxes,
                    Owns(p, b)', drop'[p].pc = "over"
             PROVE  box'[b].link = p
  BY DEF OwnersLinked, Over
<1>0. /\ TypeOK /\ DocumentsAgree /\ faults = 0 /\ drop \in [Packages -> DropOff]
      /\ box \in [Boxes -> Box] /\ OneOwnerPerBox
  BY FaultsCount DEF IInv, TypeOK
<1>1. Owns(p, b)
  BY OwnerComes
<1>2. CASE Over(p)
  <2>1. box[b].link = p
    BY <1>0, <1>1, <1>2 DEF LeakInv, OwnersLinked
  <2>2. ASSUME NEW q \in Packages, DropOffLink(q), drop[q].box = b PROVE FALSE
    <3>1. Stored(q, b) /\ drop[q].pc = "created"
      BY <1>0, <2>2 DEF DropOffLink, LeakInv, DropsFresh, DocumentsAgree, DropsAgree, Stored,
         StoredStatuses
    <3>2. q = p
      BY <1>0, <1>1, <3>1 DEF OneOwnerPerBox, Owns
    <3> QED
      BY <1>2, <3>1, <3>2 DEF Over
  <2>3. ASSUME NEW q \in Packages, PickupSaveBox(q) \/ ReturnBox(q), pkg[q].box = b
        PROVE  FALSE
    <3>1. Owns(q, b)
      BY <2>3 DEF PickupSaveBox, ReturnBox, Owns
    <3>2. q = p
      BY <1>0, <1>1, <3>1 DEF OneOwnerPerBox
    <3>3. ~Owns(p, b)'
      BY <1>0, <2>3, <3>2, ReleasedIsNoOwner
    <3> QED
      BY <3>3
  <2>4. ASSUME CancelBox(b) PROVE FALSE
    <3>1. task[b].pkg \in Packages /\ Owns(task[b].pkg, b)
      BY <1>0, <2>4 DEF CancelBox, Owns, DocumentsAgree, TasksAgree, BelongsTo
    <3>2. task[b].pkg = p
      BY <1>0, <1>1, <3>1 DEF OneOwnerPerBox
    <3>3. ~Owns(p, b)'
      BY <2>4, <3>2, CancelledIsNoOwner
    <3> QED
      BY <3>3
  <2> QED
    BY <2>1, <2>2, <2>3, <2>4, LinkEffects
<1>3. CASE ~Over(p)
  <2>1. DropOffStep(p) /\ drop[p].pc \in InFlight
    BY <1>0, <1>3, DropEffects DEF Over, DropOffCheck
  <2>2. drop[p].pc # "created" => ~Owns(p, b)'
    <3>1. ASSUME drop[p].pc # "created" PROVE pkg[p].status = "NONE" /\ pkg' = pkg
      BY <1>0, <2>1, <3>1 DEF InFlight, DocumentsAgree, DropsAgree, DropOffStep,
         DropOffClaim, DropOffCreate, DropOffCreateFails, DropOffGiveBack, DropOffLink, DropOff
    <3>2. release' = release /\ task' = task
      BY <2>1 DEF DropOffStep, DropOffClaim, DropOffCreate, DropOffCreateFails,
         DropOffGiveBack, DropOffLink
    <3>3. pkg[p].status = "NONE" => release[p].pc = "none"
      BY <1>0 DEF TypeOK, Release, DocumentsAgree, ReleasesAgree
    <3>4. pkg[p].status = "NONE" => ~(task[b].pc = "cancelBox" /\ task[b].pkg = p)
      BY <1>0 DEF DocumentsAgree, TasksAgree
    <3> QED
      BY <3>1, <3>2, <3>3, <3>4 DEF Owns, Stored, StoredStatuses, PickupableStatuses
  <2>3. DropOffLink(p) /\ drop[p].box = pkg[p].box
    BY <1>0, <2>1, <2>2 DEF DropOffStep, DropOffClaim, DropOffCreate, DropOffCreateFails,
       DropOffGiveBack, DropOffLink, DocumentsAgree, DropsAgree
  <2>4. pkg[p].box = b
    <3>1. pkg[p].status = "PENDING_DEPOSIT" /\ drop[p].pc = "created"
      BY <2>3 DEF DropOffLink, LeakInv, DropsFresh
    <3> QED
      BY <1>0, <1>1, <3>1 DEF Owns, Stored, TypeOK, Release, DocumentsAgree, ReleasesAgree,
         TasksAgree
  <2> QED
    BY <1>0, <2>3, <2>4 DEF DropOffLink, Box
<1> QED
  BY <1>2, <1>3

(* A box that is still occupied has the owner it had, or the one that       *)
(* claimed it.                                                              *)
LEMMA OccupiedStep ==
  ASSUME IInv, LeakInv, [Next]_vars PROVE OccupiedBoxHasOwner'
<1> SUFFICES ASSUME faults' = 0, NEW b \in Boxes, box'[b].status = "OCCUPIED"
             PROVE  \E p \in Packages : Owns(p, b)'
  BY DEF OccupiedBoxHasOwner
<1>0. /\ TypeOK /\ DocumentsAgree /\ faults = 0 /\ drop \in [Packages -> DropOff]
      /\ box \in [Boxes -> Box]
  BY FaultsCount DEF IInv, TypeOK
<1>1. CASE box[b].status = "OCCUPIED"
  <2> PICK p \in Packages : Owns(p, b)
    BY <1>0, <1>1 DEF LeakInv, OccupiedBoxHasOwner
  <2> SUFFICES ASSUME ~Owns(p, b)' PROVE FALSE
    OBVIOUS
  <2>1. CASE DropOffGiveBack(p) /\ drop[p].box = b
    BY <1>0, <2>1 DEF DropOffGiveBack, Box
  <2>2. CASE PickupSaveBox(p) /\ pkg[p].box = b
    BY <1>0, <2>2 DEF PickupSaveBox, Box
  <2>3. CASE ReturnBox(p) /\ pkg[p].box = b
    <3>1. Over(p)
      BY <1>0, <2>3 DEF ReturnBox, DocumentsAgree, ReleasesAgree, DropsAgree, LeakInv,
         DropsFresh, DropOff, Over
    <3>2. box[b].link = p
      BY <1>0, <3>1 DEF LeakInv, OwnersLinked
    <3> QED
      BY <1>0, <2>3, <3>2 DEF ReturnBox, FreeIfLinked, Box
  <2>4. CASE CancelBox(b) /\ task[b].pkg = p
    <3>1. Over(p) /\ pkg[p].box = b
      BY <1>0, <2>4 DEF CancelBox, DocumentsAgree, TasksAgree, BelongsTo, LeakInv,
         KnownAreOver
    <3>2. box[b].link = p
      BY <1>0, <3>1 DEF LeakInv, OwnersLinked
    <3> QED
      BY <1>0, <2>4, <3>1, <3>2 DEF CancelBox, FreeIfLinked, Box
  <2> QED
    BY <2>1, <2>2, <2>3, <2>4, OwnerLeaves
<1>2. CASE box[b].status # "OCCUPIED"
  <2> PICK p \in Packages : DropOffClaim(p) /\ drop[p].box = b /\ box[b].status = "AVAILABLE"
    BY <1>0, <1>2, Occupiers
  <2>1. drop'[p].pc = "claimed" /\ drop'[p].box = b
    BY <1>0 DEF DropOffClaim, DropOff
  <2> QED
    BY <2>1 DEF Owns
<1> QED
  BY <1>1, <1>2

(* Nothing has leaked before the first request.                             *)
LEMMA LeakInit == Init => LeakInv
  BY ClockAssumption DEF Init, LeakInv, DropsFresh, KnownAreOver, OwnersLinked,
     OccupiedBoxHasOwner, InFlight, Over, NotStarted, Idle

(* Every handler, fault and restart keeps what a box points to and who      *)
(* owns it.                                                                 *)
LEMMA LeakStep == IInv /\ LeakInv /\ [Next]_vars => LeakInv'
  BY FreshStep, KnownStep, LinkedStep, OccupiedStep DEF LeakInv

(* Without a fault no box leaks: an occupied box has a package inside or a  *)
(* request that will put one in or free it.                                 *)
THEOREM NoBoxLeaks == Spec => []OccupiedBoxHasOwner
<1>1. LeakInv => OccupiedBoxHasOwner
  BY DEF LeakInv
<1> QED
  BY <1>1, LeakInit, LeakStep, Invariance, PTL DEF Spec
=============================================================================
