--------------------------- MODULE DepositPickup ---------------------------
(***************************************************************************)
(* The stay of a package in a box: drop-off, deposit confirmation or        *)
(* cancellation by the sensor watcher, pickup, return to storage, and the   *)
(* release of the box.                                                      *)
(*                                                                          *)
(* Every await on the database in the handlers is a step of its own.  The   *)
(* documents (box, pkg) survive a restart of the server; the requests in    *)
(* flight (drop, release), the watcher's queues and its running task do     *)
(* not.  Code and access checks that only read are left out: they decide    *)
(* whether a request starts, not what it writes.  One writer of a package's *)
(* status is left to StayWithPayments: the completion of a remote payment.  *)
(* What is said here of stays is said without it.                           *)
(***************************************************************************)
EXTENDS Integers, Sequences, FiniteSets

CONSTANTS
    Boxes,
    Packages,      \* drop-off requests; each becomes at most one package
    NoPkg,         \* currentPackageId absent
    NoBox,         \* boxId of a package that does not exist yet
    Grace,         \* DEPOSIT_GRACE_MS, in ticks of the clock
    TTL,           \* DEPOSIT_TTL_MS, in ticks
    Fresh,         \* SENSOR_FRESH_MS, in ticks
    MaxTime,       \* bound: the clock stops here
    LastDrop,      \* bound: no drop-off starts after this instant
    MaxReadings,   \* bound: sensor readings waiting in one queue
    MaxFaults      \* bound: failed writes and restarts

ASSUME NullAssumption == NoPkg \notin Packages /\ NoBox \notin Boxes

ASSUME ClockAssumption ==
    /\ Grace \in Nat /\ TTL \in Nat /\ Fresh \in Nat
    /\ MaxTime \in Nat /\ LastDrop \in Nat
    /\ MaxReadings \in Nat /\ MaxFaults \in Nat

VARIABLES
    now,        \* Date.now() of the server
    box,        \* the boxes collection
    pkg,        \* the packages collection
    drop,       \* the dropOff request of each package
    release,    \* the request that ended a package's stay and still has its box to free
    queue,      \* DepositWatcherService.queues: waiting jobs of each box
    task,       \* the running job of each box
    faults      \* faults so far

vars == <<now, box, pkg, drop, release, queue, task, faults>>
----------------------------------------------------------------------------
(* Documents *)

Never == -1

PackageStatus == {"NONE", "PENDING_DEPOSIT", "DEPOSIT_CANCELLED",
                  "WAITING_FOR_PICKUP", "OVERDUE", "PICKED_UP", "RETURNED"}

PickupableStatuses == {"WAITING_FOR_PICKUP", "OVERDUE"}

StoredStatuses == {"PENDING_DEPOSIT"} \cup PickupableStatuses

EndedStatuses == {"DEPOSIT_CANCELLED", "PICKED_UP", "RETURNED"}

BoxStatus == {"AVAILABLE", "OCCUPIED", "MAINTENANCE"}

Snapshot == [door: {"OPEN", "CLOSED"}, item: BOOLEAN, at: Nat]
NoSnapshot == [door |-> "NONE", item |-> FALSE, at |-> 0]

Box == [status: BoxStatus, link: Packages \cup {NoPkg}, item: BOOLEAN,
        sensor: Snapshot \cup {NoSnapshot}]

Package == [status: PackageStatus, box: Boxes \cup {NoBox},
            unlockedAt: Nat, openedAt: Nat \cup {Never}]

(* Requests and jobs *)

DropOff == [pc: {"idle", "checked", "claimed", "created", "failed", "over"},
            box: Boxes \cup {NoBox}, at: Nat]

Release == [pc: {"none", "find", "save", "return"}, sawItem: BOOLEAN]

Job == [kind: {"reading", "expiry"}, pkg: Packages \cup {NoPkg},
        reading: Snapshot \cup {NoSnapshot}]

Task == [pc: {"idle", "link", "decide", "mark", "expiry", "confirm",
              "confirmBox", "cancel", "cancelBox"},
         pkg: Packages \cup {NoPkg}, reading: Snapshot \cup {NoSnapshot}]

Idle == [pc |-> "idle", pkg |-> NoPkg, reading |-> NoSnapshot]

NoRelease == [pc |-> "none", sawItem |-> FALSE]

NotStarted == [pc |-> "idle", box |-> NoBox, at |-> 0]

Answered == [pc |-> "over", box |-> NoBox, at |-> 0]

TypeOK ==
    /\ now \in Nat
    /\ box \in [Boxes -> Box]
    /\ pkg \in [Packages -> Package]
    /\ drop \in [Packages -> DropOff]
    /\ release \in [Packages -> Release]
    /\ queue \in [Boxes -> Seq(Job)]
    /\ task \in [Boxes -> Task]
    /\ faults \in Nat

Init ==
    /\ now = 0
    /\ box = [b \in Boxes |-> [status |-> "AVAILABLE", link |-> NoPkg,
                               item |-> FALSE, sensor |-> NoSnapshot]]
    /\ pkg = [p \in Packages |-> [status |-> "NONE", box |-> NoBox,
                                  unlockedAt |-> 0, openedAt |-> Never]]
    /\ drop = [p \in Packages |-> NotStarted]
    /\ release = [p \in Packages |-> NoRelease]
    /\ queue = [b \in Boxes |-> <<>>]
    /\ task = [b \in Boxes |-> Idle]
    /\ faults = 0
----------------------------------------------------------------------------
(* Decisions of the watcher *)

IsSensorReportingItem(s, t) == s # NoSnapshot /\ s.item /\ t - s.at <= Fresh

DecideOnSensor(p, s) ==
    IF s.door = "OPEN"
    THEN IF p.openedAt = Never THEN "mark" ELSE "idle"
    ELSE IF s.item /\ (p.openedAt # Never \/ s.at - p.unlockedAt >= Grace)
         THEN "confirm" ELSE "idle"

(* Mutant: an open door at the deadline cancels like an empty box.          *)
DecideOnExpiryIgnoringDoor(p, s) ==
    IF s = NoSnapshot \/ s.at < p.unlockedAt \/ ~s.item THEN "cancel" ELSE "confirm"

(* Mutant: a deposit without any reading waits for one.                     *)
DecideOnExpiryAwaitingSensor(p, s) ==
    IF s = NoSnapshot THEN "idle"
    ELSE IF s.at < p.unlockedAt THEN "cancel"
    ELSE IF s.door = "OPEN" THEN "idle"
    ELSE IF s.item THEN "confirm" ELSE "cancel"

DecideOnExpiry(p, s) ==
    IF s = NoSnapshot \/ s.at < p.unlockedAt THEN "cancel"
    ELSE IF s.door = "OPEN" THEN "idle"
    ELSE IF s.item THEN "confirm" ELSE "cancel"
----------------------------------------------------------------------------
(* PackagesService.dropOff *)

(* The reads of dropOff: the box is available and its last fresh reading    *)
(* shows nothing inside.  droppedOffAt is taken here.                       *)
DropOffCheck(p, b) ==
    /\ drop[p].pc = "idle"
    /\ now <= LastDrop
    /\ box[b].status = "AVAILABLE"
    /\ ~IsSensorReportingItem(box[b].sensor, now)
    /\ drop' = [drop EXCEPT ![p] = [pc |-> "checked", box |-> b, at |-> now]]
    /\ UNCHANGED <<now, box, pkg, release, queue, task, faults>>

(* Mutant: the box is claimed by its id alone.                              *)
DropOffClaimById(p) ==
    /\ drop[p].pc = "checked"
    /\ box' = [box EXCEPT ![drop[p].box].status = "OCCUPIED", ![drop[p].box].item = FALSE]
    /\ drop' = [drop EXCEPT ![p].pc = "claimed"]
    /\ UNCHANGED <<now, pkg, release, queue, task, faults>>

(* Mutant: the claim links the box to the package, not yet created.         *)
DropOffClaimLinking(p) ==
    /\ drop[p].pc = "checked"
    /\ box[drop[p].box].status = "AVAILABLE"
    /\ box' = [box EXCEPT ![drop[p].box].status = "OCCUPIED", ![drop[p].box].link = p]
    /\ drop' = [drop EXCEPT ![p].pc = "claimed"]
    /\ UNCHANGED <<now, pkg, release, queue, task, faults>>

(* The conditional update that claims the box, or the conflict answer.      *)
DropOffClaim(p) ==
    LET b == drop[p].box IN
    /\ drop[p].pc = "checked"
    /\ \/ /\ box[b].status = "AVAILABLE"
          /\ box' = [box EXCEPT ![b].status = "OCCUPIED", ![b].item = FALSE]
          /\ drop' = [drop EXCEPT ![p].pc = "claimed"]
       \/ /\ box[b].status # "AVAILABLE"
          /\ drop' = [drop EXCEPT ![p] = Answered]
          /\ UNCHANGED box
    /\ UNCHANGED <<now, pkg, release, queue, task, faults>>

DropOffCreate(p) ==
    /\ drop[p].pc = "claimed"
    /\ pkg' = [pkg EXCEPT ![p] = [status |-> "PENDING_DEPOSIT",
                                  box |-> drop[p].box,
                                  unlockedAt |-> drop[p].at,
                                  openedAt |-> Never]]
    /\ drop' = [drop EXCEPT ![p].pc = "created"]
    /\ UNCHANGED <<now, box, release, queue, task, faults>>

(* create rejects (a validation error, a duplicate key): nothing inserted.  *)
DropOffCreateFails(p) ==
    /\ drop[p].pc = "claimed"
    /\ drop' = [drop EXCEPT ![p].pc = "failed"]
    /\ UNCHANGED <<now, box, pkg, release, queue, task, faults>>

(* Mutant: the catch of a failed create answers without freeing the box.    *)
DropOffGiveBackNothing(p) ==
    /\ drop[p].pc = "failed"
    /\ drop' = [drop EXCEPT ![p] = Answered]
    /\ UNCHANGED <<now, box, pkg, release, queue, task, faults>>

DropOffGiveBack(p) ==
    /\ drop[p].pc = "failed"
    /\ box' = [box EXCEPT ![drop[p].box].status = "AVAILABLE",
                          ![drop[p].box].item = FALSE]
    /\ drop' = [drop EXCEPT ![p] = Answered]
    /\ UNCHANGED <<now, pkg, release, queue, task, faults>>

DropOffLink(p) ==
    /\ drop[p].pc = "created"
    /\ box' = [box EXCEPT ![drop[p].box].link = p]
    /\ drop' = [drop EXCEPT ![p] = Answered]
    /\ UNCHANGED <<now, pkg, release, queue, task, faults>>
----------------------------------------------------------------------------
(* DepositWatcherService: one queue per box, one running job per queue      *)

Enqueue(b, j) == queue' = [queue EXCEPT ![b] = Append(@, j)]

(* A status message of the station reaches sensorEvents$; its instant is    *)
(* the server's, taken when the event is emitted.                           *)
SensorEvent(b) ==
    /\ Cardinality({i \in DOMAIN queue[b] : queue[b][i].kind = "reading"}) < MaxReadings
    /\ \E door \in {"OPEN", "CLOSED"}, item \in BOOLEAN :
          Enqueue(b, [kind |-> "reading", pkg |-> NoPkg,
                      reading |-> [door |-> door, item |-> item, at |-> now]])
    /\ UNCHANGED <<now, box, pkg, drop, release, task, faults>>

(* The cron of every minute: one job per deposit past its deadline.  A      *)
(* second job for a package whose first still waits adds nothing, because   *)
(* the job reads the package again: the queue keeps one (bound).            *)
HandleExpiredDeposits(p) ==
    LET b == pkg[p].box IN
    /\ pkg[p].status = "PENDING_DEPOSIT"
    /\ pkg[p].unlockedAt + TTL < now
    /\ \A i \in DOMAIN queue[b] : queue[b][i].pkg # p
    /\ Enqueue(b, [kind |-> "expiry", pkg |-> p, reading |-> NoSnapshot])
    /\ UNCHANGED <<now, box, pkg, drop, release, task, faults>>

(* The next job of the queue starts when the running one has ended.         *)
Dequeue(b, kind) ==
    /\ task[b] = Idle
    /\ queue[b] # <<>>
    /\ Head(queue[b]).kind = kind
    /\ queue' = [queue EXCEPT ![b] = Tail(@)]

(* Mutant: $lt for $lte, a reading of the same instant is not kept.         *)
StoreReadingIfLater(b) ==
    LET s == Head(queue[b]).reading IN
    /\ Dequeue(b, "reading")
    /\ box' = [box EXCEPT ![b].sensor = IF @ = NoSnapshot \/ @.at < s.at THEN s ELSE @]
    /\ task' = [task EXCEPT ![b] = [pc |-> "link", pkg |-> NoPkg, reading |-> s]]
    /\ UNCHANGED <<now, pkg, drop, release, faults>>

(* handleSensorEvent: keep the reading unless a newer one is stored.        *)
StoreReading(b) ==
    LET s == Head(queue[b]).reading IN
    /\ Dequeue(b, "reading")
    /\ box' = [box EXCEPT ![b].sensor = IF @ = NoSnapshot \/ @.at <= s.at THEN s ELSE @]
    /\ task' = [task EXCEPT ![b] = [pc |-> "link", pkg |-> NoPkg, reading |-> s]]
    /\ UNCHANGED <<now, pkg, drop, release, faults>>

ReadLink(b) ==
    /\ task[b].pc = "link"
    /\ task' = [task EXCEPT ![b] = IF box[b].link = NoPkg THEN Idle
                                   ELSE [@ EXCEPT !.pc = "decide", !.pkg = box[b].link]]
    /\ UNCHANGED <<now, box, pkg, drop, release, queue, faults>>

Decide(b) ==
    LET p == pkg[task[b].pkg] IN
    /\ task[b].pc = "decide"
    /\ LET next == IF p.status = "PENDING_DEPOSIT"
                   THEN DecideOnSensor(p, task[b].reading) ELSE "idle"
       IN task' = [task EXCEPT ![b] = IF next = "idle" THEN Idle
                                      ELSE [@ EXCEPT !.pc = next]]
    /\ UNCHANGED <<now, box, pkg, drop, release, queue, faults>>

MarkDoorOpened(b) ==
    LET p == task[b].pkg IN
    /\ task[b].pc = "mark"
    /\ pkg' = [pkg EXCEPT ![p].openedAt =
                  IF pkg[p].status = "PENDING_DEPOSIT" /\ @ = Never
                  THEN task[b].reading.at ELSE @]
    /\ task' = [task EXCEPT ![b] = Idle]
    /\ UNCHANGED <<now, box, drop, release, queue, faults>>

(* handleExpiry: the package, then the snapshot kept on its box.            *)
StartExpiry(b) ==
    LET p == Head(queue[b]).pkg IN
    /\ Dequeue(b, "expiry")
    /\ task' = [task EXCEPT ![b] =
                  IF pkg[p].status = "PENDING_DEPOSIT"
                  THEN [pc |-> "expiry", pkg |-> p, reading |-> NoSnapshot] ELSE Idle]
    /\ UNCHANGED <<now, box, pkg, drop, release, faults>>

JudgeExpiry(b) ==
    LET p == pkg[task[b].pkg] IN
    /\ task[b].pc = "expiry"
    /\ LET next == DecideOnExpiry(p, box[p.box].sensor)
       IN task' = [task EXCEPT ![b] = IF next = "idle" THEN Idle
                                      ELSE [@ EXCEPT !.pc = next]]
    /\ UNCHANGED <<now, box, pkg, drop, release, queue, faults>>

(* confirmDeposit: the conditional update of the package, then of its box.  *)
ConfirmDeposit(b) ==
    LET p == task[b].pkg IN
    /\ task[b].pc = "confirm"
    /\ \/ /\ pkg[p].status = "PENDING_DEPOSIT"
          /\ pkg' = [pkg EXCEPT ![p].status = "WAITING_FOR_PICKUP"]
          /\ task' = [task EXCEPT ![b].pc = "confirmBox"]
       \/ /\ pkg[p].status # "PENDING_DEPOSIT"
          /\ task' = [task EXCEPT ![b] = Idle]
          /\ UNCHANGED pkg
    /\ UNCHANGED <<now, box, drop, release, queue, faults>>

ConfirmBox(b) ==
    LET p == task[b].pkg IN
    /\ task[b].pc = "confirmBox"
    /\ box' = [box EXCEPT ![pkg[p].box].item = IF box[pkg[p].box].link = p THEN TRUE ELSE @]
    /\ task' = [task EXCEPT ![b] = Idle]
    /\ UNCHANGED <<now, pkg, drop, release, queue, faults>>

(* Mutant: the update forgets $unset of currentPackageId.                   *)
FreeButKeepLink(b, p) ==
    box' = [box EXCEPT ![b] =
              IF @.link = p THEN [@ EXCEPT !.status = "AVAILABLE", !.item = FALSE] ELSE @]

(* The update that frees box b only while it still points to p.             *)
FreeIfLinked(b, p) ==
    box' = [box EXCEPT ![b] =
              IF @.link = p
              THEN [@ EXCEPT !.status = "AVAILABLE", !.item = FALSE, !.link = NoPkg]
              ELSE @]

CancelDeposit(b) ==
    LET p == task[b].pkg IN
    /\ task[b].pc = "cancel"
    /\ \/ /\ pkg[p].status = "PENDING_DEPOSIT"
          /\ pkg' = [pkg EXCEPT ![p].status = "DEPOSIT_CANCELLED"]
          /\ task' = [task EXCEPT ![b].pc = "cancelBox"]
       \/ /\ pkg[p].status # "PENDING_DEPOSIT"
          /\ task' = [task EXCEPT ![b] = Idle]
          /\ UNCHANGED pkg
    /\ UNCHANGED <<now, box, drop, release, queue, faults>>

CancelBox(b) ==
    LET p == task[b].pkg IN
    /\ task[b].pc = "cancelBox"
    /\ FreeIfLinked(pkg[p].box, p)
    /\ task' = [task EXCEPT ![b] = Idle]
    /\ UNCHANGED <<now, pkg, drop, release, queue, faults>>
----------------------------------------------------------------------------
(* Pickup: claimPackageForPickup, then releaseBoxAfterPickup                *)

PickupClaim(p) ==
    /\ pkg[p].status \in PickupableStatuses
    /\ pkg' = [pkg EXCEPT ![p].status = "PICKED_UP"]
    /\ release' = [release EXCEPT ![p].pc = "find"]
    /\ UNCHANGED <<now, box, drop, queue, task, faults>>

PickupFindBox(p) ==
    /\ release[p].pc = "find"
    /\ release' = [release EXCEPT ![p] = [pc |-> "save", sawItem |-> box[pkg[p].box].item]]
    /\ UNCHANGED <<now, box, pkg, drop, queue, task, faults>>

(* save() writes the paths whose value differs from the one it read: a      *)
(* hasItem read as false is not written again.                              *)
PickupSaveBox(p) ==
    LET b == pkg[p].box IN
    /\ release[p].pc = "save"
    /\ box' = [box EXCEPT ![b].status = "AVAILABLE", ![b].link = NoPkg,
                          ![b].item = IF release[p].sawItem THEN FALSE ELSE @]
    /\ release' = [release EXCEPT ![p] = NoRelease]
    /\ UNCHANGED <<now, pkg, drop, queue, task, faults>>

(* Mutant: the return updates the package by its id alone.                  *)
ReturnClaimById(p) ==
    /\ pkg[p].status # "NONE"
    /\ pkg' = [pkg EXCEPT ![p].status = "RETURNED"]
    /\ release' = [release EXCEPT ![p].pc = "return"]
    /\ UNCHANGED <<now, box, drop, queue, task, faults>>

(* Mutant: the return writes a status the schema does not have.             *)
ReturnClaimUnknown(p) ==
    /\ pkg[p].status \in PickupableStatuses
    /\ pkg' = [pkg EXCEPT ![p].status = "IN_STORAGE"]
    /\ release' = [release EXCEPT ![p].pc = "return"]
    /\ UNCHANGED <<now, box, drop, queue, task, faults>>

(* PackagesAdminService.returnToStorage                                     *)
ReturnClaim(p) ==
    /\ pkg[p].status \in PickupableStatuses
    /\ pkg' = [pkg EXCEPT ![p].status = "RETURNED"]
    /\ release' = [release EXCEPT ![p].pc = "return"]
    /\ UNCHANGED <<now, box, drop, queue, task, faults>>

ReturnBox(p) ==
    /\ release[p].pc = "return"
    /\ FreeIfLinked(pkg[p].box, p)
    /\ release' = [release EXCEPT ![p] = NoRelease]
    /\ UNCHANGED <<now, pkg, drop, queue, task, faults>>

(* handleOverduePackagesCron.  The storage limit is hours, far beyond this  *)
(* clock: whether it has passed is left open.                               *)
MarkOverdue(p) ==
    /\ pkg[p].status = "WAITING_FOR_PICKUP"
    /\ pkg' = [pkg EXCEPT ![p].status = "OVERDUE"]
    /\ UNCHANGED <<now, box, drop, release, queue, task, faults>>

(* Mutant: the admin's change is not conditional on the box.                *)
UpdateBoxStatusById(b) ==
    /\ \E s \in {"AVAILABLE", "MAINTENANCE"} \ {box[b].status} :
          box' = [box EXCEPT ![b].status = s]
    /\ UNCHANGED <<now, pkg, drop, release, queue, task, faults>>

(* LockersAdminService.updateBoxStatus                                      *)
UpdateBoxStatus(b) ==
    /\ box[b].status \in {"AVAILABLE", "MAINTENANCE"}
    /\ box[b].link = NoPkg
    /\ \E s \in {"AVAILABLE", "MAINTENANCE"} \ {box[b].status} :
          box' = [box EXCEPT ![b].status = s]
    /\ UNCHANGED <<now, pkg, drop, release, queue, task, faults>>
----------------------------------------------------------------------------
(* Time and faults *)

(* A drop-off request ends before its own deposit deadline: its writes take *)
(* milliseconds, the deadline is ten minutes (assumption).                  *)
Tick ==
    /\ now < MaxTime
    /\ \A p \in Packages : drop[p].pc \notin {"idle", "over"} => now < drop[p].at + TTL
    /\ now' = now + 1
    /\ UNCHANGED <<box, pkg, drop, release, queue, task, faults>>

Fault == faults < MaxFaults /\ faults' = faults + 1

(* A write of a request or of a job throws: what it did before stays.       *)
DropOffThrows(p) ==
    /\ Fault
    /\ drop[p].pc \in {"created", "failed"}
    /\ drop' = [drop EXCEPT ![p] = Answered]
    /\ UNCHANGED <<now, box, pkg, release, queue, task>>

ReleaseThrows(p) ==
    /\ Fault
    /\ release[p].pc # "none"
    /\ release' = [release EXCEPT ![p] = NoRelease]
    /\ UNCHANGED <<now, box, pkg, drop, queue, task>>

TaskThrows(b) ==
    /\ Fault
    /\ task[b] # Idle
    /\ task' = [task EXCEPT ![b] = Idle]
    /\ UNCHANGED <<now, box, pkg, drop, release, queue>>

(* The server restarts: only the documents remain.                          *)
ServerRestart ==
    /\ Fault
    /\ drop' = [p \in Packages |-> IF drop[p].pc = "idle" THEN NotStarted ELSE Answered]
    /\ release' = [p \in Packages |-> NoRelease]
    /\ queue' = [b \in Boxes |-> <<>>]
    /\ task' = [b \in Boxes |-> Idle]
    /\ UNCHANGED <<now, box, pkg>>
----------------------------------------------------------------------------
DropOffStep(p) ==
    \/ DropOffClaim(p) \/ DropOffCreate(p) \/ DropOffCreateFails(p)
    \/ DropOffGiveBack(p) \/ DropOffLink(p)

TaskStep(b) ==
    \/ StoreReading(b) \/ ReadLink(b) \/ Decide(b) \/ MarkDoorOpened(b)
    \/ StartExpiry(b) \/ JudgeExpiry(b) \/ ConfirmDeposit(b) \/ ConfirmBox(b)
    \/ CancelDeposit(b) \/ CancelBox(b)

ReleaseStep(p) == PickupFindBox(p) \/ PickupSaveBox(p) \/ ReturnBox(p)

PackageStep(p) ==
    \/ \E b \in Boxes : DropOffCheck(p, b)
    \/ DropOffStep(p)
    \/ HandleExpiredDeposits(p)
    \/ PickupClaim(p) \/ ReturnClaim(p) \/ ReleaseStep(p) \/ MarkOverdue(p)
    \/ DropOffThrows(p) \/ ReleaseThrows(p)

BoxStep(b) == SensorEvent(b) \/ TaskStep(b) \/ UpdateBoxStatus(b) \/ TaskThrows(b)

Next ==
    \/ \E p \in Packages : PackageStep(p)
    \/ \E b \in Boxes : BoxStep(b)
    \/ Tick
    \/ ServerRestart

Spec == Init /\ [][Next]_vars

(* A started handler or job runs on, the cron fires every minute, time      *)
(* passes.  Nobody is obliged to pick a package up or to send a reading.    *)
Fairness ==
    /\ \A p \in Packages : WF_vars(DropOffStep(p)) /\ WF_vars(ReleaseStep(p))
    /\ \A p \in Packages : WF_vars(HandleExpiredDeposits(p))
    /\ \A b \in Boxes : WF_vars(TaskStep(b))
    /\ WF_vars(Tick)

FairSpec == Spec /\ Fairness
----------------------------------------------------------------------------
(* Properties *)

Stored(p, b) == pkg[p].status \in StoredStatuses /\ pkg[p].box = b

(* p is in box b, or its request still has to put it there or to free b.    *)
Owns(p, b) ==
    \/ Stored(p, b)
    \/ drop[p].pc \in {"claimed", "failed"} /\ drop[p].box = b
    \/ release[p].pc # "none" /\ pkg[p].box = b
    \/ task[b].pc = "cancelBox" /\ task[b].pkg = p

(* The stay of a package as BoxStay sees it.                                *)
Leaving(p) ==
    \/ release[p].pc # "none"
    \/ \E b \in Boxes : task[b].pc = "cancelBox" /\ task[b].pkg = p

StageOf(p) ==
    IF pkg[p].status \in StoredStatuses THEN "stored"
    ELSE IF drop[p].pc \in {"claimed", "failed"} THEN "taking"
    ELSE IF drop[p].pc \in {"idle", "checked"} THEN "new"
    ELSE IF Leaving(p) THEN "leaving" ELSE "gone"

BoxOf(p) ==
    IF StageOf(p) = "taking" THEN drop[p].box
    ELSE IF StageOf(p) \in {"stored", "leaving"} THEN pkg[p].box ELSE NoBox

Stay == INSTANCE BoxStay WITH
          stage <- [p \in Packages |-> StageOf(p)],
          at <- [p \in Packages |-> BoxOf(p)]

(* Drop-off, watcher, pickup, return and restart together keep the promise  *)
(* of BoxStay: a box is taken only when no package has it, and none of them *)
(* starts a stay again that has ended.  A payment may: StayWithPayments.    *)
ImplementsBoxStay == Stay!Spec

(* One box never holds two packages, whatever drop-offs, pickups, returns,  *)
(* sensor jobs and restarts overlap.                                        *)
OneStoredPerBox ==
    \A b \in Boxes : \A p, q \in Packages : Stored(p, b) /\ Stored(q, b) => p = q

(* A box that holds a package, or that a request still has to free, is not  *)
(* offered to another shipper nor put into maintenance.                     *)
OwnedBoxIsOccupied ==
    \A b \in Boxes : (\E p \in Packages : Owns(p, b)) => box[b].status = "OCCUPIED"

(* Without a fault no box leaks: an occupied box has a package inside or a  *)
(* request that will put one in or free it.                                 *)
OccupiedBoxHasOwner ==
    faults = 0 =>
      \A b \in Boxes : box[b].status = "OCCUPIED" => \E p \in Packages : Owns(p, b)

(* Boxes, jobs and requests point to packages of their own box.             *)
DropsAgree ==
    \A p \in Packages :
      /\ drop[p].pc \in {"checked", "claimed", "created", "failed"} => drop[p].box \in Boxes
      /\ drop[p].pc \in {"idle", "checked", "claimed", "failed"} => pkg[p].status = "NONE"
      /\ drop[p].pc = "created" => pkg[p].status # "NONE" /\ pkg[p].box = drop[p].box
      /\ pkg[p].status # "NONE" => pkg[p].box \in Boxes

BelongsTo(p, b) == p \in Packages /\ pkg[p].status # "NONE" /\ pkg[p].box = b

LinksAgree == \A b \in Boxes : box[b].link # NoPkg => BelongsTo(box[b].link, b)

QueuesAgree ==
    \A b \in Boxes : \A i \in DOMAIN queue[b] :
      queue[b][i].kind = "expiry" => BelongsTo(queue[b][i].pkg, b)

TasksAgree ==
    \A b \in Boxes :
      /\ task[b].pc \notin {"idle", "link"} => BelongsTo(task[b].pkg, b)
      /\ task[b].pc = "cancelBox" => pkg[task[b].pkg].status = "DEPOSIT_CANCELLED"

ReleasesAgree ==
    \A p \in Packages :
      /\ release[p].pc \in {"find", "save"} => pkg[p].status = "PICKED_UP"
      /\ release[p].pc = "return" => pkg[p].status = "RETURNED"

(* currentPackageId, the watcher's jobs and the requests in flight never    *)
(* concern a package of another box, nor one that was not created.          *)
DocumentsAgree ==
    DropsAgree /\ LinksAgree /\ QueuesAgree /\ TasksAgree /\ ReleasesAgree

(* At most one package owns a box: with OwnedBoxIsOccupied, what makes      *)
(* OneStoredPerBox inductive.                                               *)
OneOwnerPerBox ==
    \A b \in Boxes : \A p, q \in Packages : Owns(p, b) /\ Owns(q, b) => p = q

IInv == TypeOK /\ DocumentsAgree /\ OneOwnerPerBox /\ OwnedBoxIsOccupied

(* A deposit is confirmed only while the newest reading kept on its box     *)
(* shows a closed door and an item: no older reading overtakes a newer one. *)
ConfirmedOnNewestReading ==
    [][\A p \in Packages :
         pkg[p].status = "PENDING_DEPOSIT" /\ pkg'[p].status = "WAITING_FOR_PICKUP"
           => LET s == box[pkg[p].box].sensor IN s.door = "CLOSED" /\ s.item]_vars

(* A deposit is cancelled only after its deadline and never while the       *)
(* newest reading since the unlock shows an open door or an item inside.    *)
CancelledOnlyWhenEmpty ==
    [][\A p \in Packages :
         pkg[p].status = "PENDING_DEPOSIT" /\ pkg'[p].status = "DEPOSIT_CANCELLED"
           => LET s == box[pkg[p].box].sensor IN
              /\ now > pkg[p].unlockedAt + TTL
              /\ \/ s = NoSnapshot \/ s.at < pkg[p].unlockedAt
                 \/ s.door = "CLOSED" /\ ~s.item]_vars

(* Every deposit is settled even across restarts, unless the door is still  *)
(* open at the newest reading, which the code leaves to an operator.        *)
DepositIsSettled ==
    \A p \in Packages :
      (pkg[p].status = "PENDING_DEPOSIT")
        ~> \/ pkg[p].status # "PENDING_DEPOSIT"
           \/ box[pkg[p].box].sensor.door = "OPEN"

Linked(p) == \E b \in Boxes : box[b].link = p

(* Without a fault, a picked up, returned or cancelled package does not     *)
(* keep its box: the box stops pointing to it.                              *)
EndedStayFreesBox ==
    \A p \in Packages :
      (pkg[p].status \in EndedStatuses /\ Linked(p))
        ~> (~Linked(p) \/ faults > 0)

(* What the code says and does not keep:                                    *)

(* A box whose fresh reading shows an item is not handed to a shipper: the  *)
(* comment of dropOff's sensor check, at the instant of the claim.          *)
ClaimSeesNoItem ==
    [][\A p \in Packages :
         drop[p].pc = "checked" /\ drop'[p].pc = "claimed"
           => ~IsSensorReportingItem(box[drop[p].box].sensor, now)]_vars

(* A box given back after a pickup is recorded empty: the comment of        *)
(* releaseBoxAfterPickup.                                                   *)
AvailableBoxIsEmpty ==
    \A b \in Boxes : box[b].status = "AVAILABLE" => ~box[b].item

(* A deposit confirmed before the grace period has seen its door open since *)
(* the unlock: the comment of DEPOSIT_GRACE_MS.                             *)
EarlyConfirmSawDoorOpen ==
    [][\A p \in Packages :
         (/\ pkg[p].status = "PENDING_DEPOSIT" /\ pkg'[p].status = "WAITING_FOR_PICKUP"
          /\ now - pkg[p].unlockedAt < Grace)
           => pkg[p].openedAt >= pkg[p].unlockedAt]_vars
=============================================================================
