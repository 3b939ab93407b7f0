------------------------ MODULE DepositPickupProofs ------------------------
(***************************************************************************)
(* For any number of boxes and packages, any clock constants and any number *)
(* of faults: every variable keeps its type, documents and requests agree,  *)
(* and a box never holds two packages.  IInv is the inductive invariant:    *)
(* OneStoredPerBox alone is not inductive (an AVAILABLE box with an owner   *)
(* could be claimed again), nor with OwnedBoxIsOccupied (a freed box could  *)
(* have a second owner).                                                    *)
(***************************************************************************)
EXTENDS StayWithPayments, TLAPS

----------------------------------------------------------------------------
(* Types                                                                    *)
(*                                                                          *)
(* A leaf expands only the record sets its handler writes: with all of them *)
(* the provers give up.                                                     *)

(* Changing one value of a function keeps its range. *)
LEMMA SetOne ==
  ASSUME NEW S, NEW T, NEW f \in [S -> T], NEW x, NEW v, x \in S => v \in T
  PROVE  [f EXCEPT ![x] = v] \in [S -> T]
  OBVIOUS

(* The parts of a box document. *)
LEMMA BoxParts ==
  ASSUME NEW x \in Box
  PROVE  x.item \in BOOLEAN /\ x.sensor \in Snapshot \cup {NoSnapshot}
  BY DEF Box

(* A task moves to any known stage and keeps its parts. *)
LEMMA TaskParts ==
  ASSUME NEW x \in Task
  PROVE  /\ \A c \in {"idle", "link", "decide", "mark", "expiry", "confirm",
                    "confirmBox", "cancel", "cancelBox"} :
              [x EXCEPT !.pc = c] \in Task
         /\ x.pkg \in Packages \cup {NoPkg}
         /\ x.reading \in Snapshot \cup {NoSnapshot}
  BY DEF Task

(* The idle task is a task. *)
LEMMA IdleTask == Idle \in Task
  BY DEF Idle, Task

(* DropOffClaim keeps the types. *)
LEMMA DropOffClaimTyped ==
  ASSUME TypeOK, NEW p \in Packages, DropOffClaim(p) PROVE TypeOK'
<1>1. box' \in [Boxes -> Box]
  <2>1. box \in [Boxes -> Box]
    BY DEF TypeOK
  <2> QED
    BY <2>1 DEF DropOffClaim, Box, BoxStatus
<1>2. drop' \in [Packages -> DropOff]
  <2>1. drop \in [Packages -> DropOff]
    BY DEF TypeOK
  <2> QED
    BY <2>1 DEF DropOffClaim, DropOff, Answered
<1> QED
  BY <1>1, <1>2 DEF TypeOK, DropOffClaim

(* DropOffGiveBack keeps the types. *)
LEMMA DropOffGiveBackTyped ==
  ASSUME TypeOK, NEW p \in Packages, DropOffGiveBack(p) PROVE TypeOK'
<1>1. box' \in [Boxes -> Box]
  <2>1. box \in [Boxes -> Box]
    BY DEF TypeOK
  <2> QED
    BY ZenonT(60), <2>1 DEF DropOffGiveBack, Box, BoxStatus
<1>2. drop' \in [Packages -> DropOff]
  <2>1. drop \in [Packages -> DropOff]
    BY DEF TypeOK
  <2> QED
    BY <2>1 DEF DropOffGiveBack, DropOff, Answered
<1> QED
  BY <1>1, <1>2 DEF TypeOK, DropOffGiveBack

(* DropOffLink keeps the types. *)
LEMMA DropOffLinkTyped ==
  ASSUME TypeOK, NEW p \in Packages, DropOffLink(p) PROVE TypeOK'
<1>1. box' \in [Boxes -> Box]
  <2>1. box \in [Boxes -> Box]
    BY DEF TypeOK
  <2> QED
    BY ZenonT(60), <2>1 DEF DropOffLink, Box, BoxStatus
<1>2. drop' \in [Packages -> DropOff]
  <2>1. drop \in [Packages -> DropOff]
    BY DEF TypeOK
  <2> QED
    BY <2>1 DEF DropOffLink, DropOff, Answered
<1> QED
  BY <1>1, <1>2 DEF TypeOK, DropOffLink

(* SensorEvent keeps the types. *)
LEMMA SensorEventTyped ==
  ASSUME TypeOK, NEW b \in Boxes, SensorEvent(b) PROVE TypeOK'
<1>1. PICK door \in {"OPEN", "CLOSED"}, item \in BOOLEAN :
        queue' = [queue EXCEPT ![b] = Append(@, [kind |-> "reading", pkg |-> NoPkg,
                      reading |-> [door |-> door, item |-> item, at |-> now]])]
  BY DEF SensorEvent, Enqueue
<1> DEFINE s == [door |-> door, item |-> item, at |-> now]
           j == [kind |-> "reading", pkg |-> NoPkg, reading |-> s]
<1>2. s \in Snapshot
  BY DEF TypeOK, Snapshot
<1>3. j \in Job
  BY <1>2 DEF Job
<1> HIDE DEF s, j
<1>4. queue' \in [Boxes -> Seq(Job)]
  BY <1>1, <1>3, SMT DEF TypeOK, s, j
<1> QED
  BY <1>4 DEF TypeOK, SensorEvent

(* HandleExpiredDeposits keeps the types. *)
LEMMA HandleExpiredDepositsTyped ==
  ASSUME TypeOK, NEW p \in Packages, HandleExpiredDeposits(p) PROVE TypeOK'
<1> DEFINE j == [kind |-> "expiry", pkg |-> p, reading |-> NoSnapshot]
<1>1. j \in Job
  BY DEF Job
<1>2. queue' = [queue EXCEPT ![pkg[p].box] = Append(@, j)]
  BY DEF HandleExpiredDeposits, Enqueue
<1> HIDE DEF j
<1>3. queue' \in [Boxes -> Seq(Job)]
  <2>1. queue \in [Boxes -> Seq(Job)]
    BY DEF TypeOK
  <2>2. pkg[p].box \in Boxes => Append(queue[pkg[p].box], j) \in Seq(Job)
    BY <2>1, <1>1
  <2> QED
    BY <2>1, <2>2, <1>2, SetOne
<1> QED
  BY <1>3 DEF TypeOK, HandleExpiredDeposits

(* The job at the head of a queue is a job, and so are those behind it. *)
LEMMA DequeueTyped ==
  ASSUME TypeOK, NEW b \in Boxes, NEW k, Dequeue(b, k)
  PROVE  queue' \in [Boxes -> Seq(Job)] /\ Head(queue[b]) \in Job
<1>1. queue[b] \in Seq(Job) /\ queue[b] # <<>> /\ queue \in [Boxes -> Seq(Job)]
  BY DEF TypeOK, Dequeue
<1>2. Head(queue[b]) \in Job /\ Tail(queue[b]) \in Seq(Job)
  BY <1>1
<1> QED
  BY <1>1, <1>2 DEF Dequeue

(* StoreReading keeps the types. *)
LEMMA StoreReadingTyped ==
  ASSUME TypeOK, NEW b \in Boxes, StoreReading(b) PROVE TypeOK'
<1> DEFINE s == Head(queue[b]).reading
<1>1. Dequeue(b, "reading")
  BY DEF StoreReading
<1>2. queue' \in [Boxes -> Seq(Job)] /\ Head(queue[b]) \in Job
  BY <1>1, DequeueTyped
<1>3. s \in Snapshot \cup {NoSnapshot}
  BY <1>2 DEF Job
<1>4. box' = [box EXCEPT ![b].sensor = IF @ = NoSnapshot \/ @.at <= s.at THEN s ELSE @]
  BY DEF StoreReading
<1>5. task' = [task EXCEPT ![b] = [pc |-> "link", pkg |-> NoPkg, reading |-> s]]
  BY DEF StoreReading
<1> HIDE DEF s
<1>6. box' \in [Boxes -> Box]
  <2>1. box \in [Boxes -> Box]
    BY DEF TypeOK
  <2> QED
    BY <2>1, <1>3, <1>4 DEF Box
<1>7. task' \in [Boxes -> Task]
  <2>1. task \in [Boxes -> Task]
    BY DEF TypeOK
  <2>2. [pc |-> "link", pkg |-> NoPkg, reading |-> s] \in Task
    BY <1>3 DEF Task
  <2> QED
    BY <2>1, <2>2, <1>5
<1> QED
  BY <1>2, <1>6, <1>7 DEF TypeOK, StoreReading

(* MarkDoorOpened keeps the types. *)
LEMMA MarkDoorOpenedTyped ==
  ASSUME TypeOK, NEW b \in Boxes, MarkDoorOpened(b) PROVE TypeOK'
<1> DEFINE p == task[b].pkg
<1>1. task[b].reading.at \in Nat
  BY DEF TypeOK, Task, Snapshot, NoSnapshot
<1>2. pkg' = [pkg EXCEPT ![p].openedAt =
                  IF pkg[p].status = "PENDING_DEPOSIT" /\ @ = Never
                  THEN task[b].reading.at ELSE @]
  BY DEF MarkDoorOpened
<1> DEFINE t == task[b].reading.at
<1> HIDE DEF p, t
<1>3. pkg' \in [Packages -> Package]
  <2>1. pkg \in [Packages -> Package]
    BY DEF TypeOK
  <2> QED
    BY ZenonT(60), <2>1, <1>1, <1>2 DEF Package, t
<1>4. task' \in [Boxes -> Task]
  BY IdleTask DEF TypeOK, MarkDoorOpened
<1> QED
  BY <1>3, <1>4 DEF TypeOK, MarkDoorOpened

(* StartExpiry keeps the types. *)
LEMMA StartExpiryTyped ==
  ASSUME TypeOK, NEW b \in Boxes, StartExpiry(b) PROVE TypeOK'
<1> DEFINE p == Head(queue[b]).pkg
<1>1. Dequeue(b, "expiry")
  BY DEF StartExpiry
<1>2. queue' \in [Boxes -> Seq(Job)] /\ Head(queue[b]) \in Job
  BY <1>1, DequeueTyped
<1>3. p \in Packages \cup {NoPkg}
  BY <1>2 DEF Job
<1>4. task' = [task EXCEPT ![b] =
                  IF pkg[p].status = "PENDING_DEPOSIT"
                  THEN [pc |-> "expiry", pkg |-> p, reading |-> NoSnapshot] ELSE Idle]
  BY DEF StartExpiry
<1> HIDE DEF p
<1>5. [pc |-> "expiry", pkg |-> p, reading |-> NoSnapshot] \in Task
  BY <1>3 DEF Task
<1>6. task' \in [Boxes -> Task]
  BY <1>4, <1>5, IdleTask DEF TypeOK
<1> QED
  BY <1>2, <1>6 DEF TypeOK, StartExpiry

(* JudgeExpiry keeps the types. *)
LEMMA JudgeExpiryTyped ==
  ASSUME TypeOK, NEW b \in Boxes, JudgeExpiry(b) PROVE TypeOK'
<1> DEFINE next == DecideOnExpiry(pkg[task[b].pkg], box[pkg[task[b].pkg].box].sensor)
<1>1. next \in {"idle", "confirm", "cancel"}
  BY DEF DecideOnExpiry
<1>2. task' = [task EXCEPT ![b] = IF next = "idle" THEN Idle ELSE [@ EXCEPT !.pc = next]]
  BY DEF JudgeExpiry
<1> HIDE DEF next
<1>3. task' \in [Boxes -> Task]
  BY <1>1, <1>2, IdleTask, TaskParts DEF TypeOK
<1> QED
  BY <1>3 DEF TypeOK, JudgeExpiry

(* ConfirmDeposit keeps the types. *)
LEMMA ConfirmDepositTyped ==
  ASSUME TypeOK, NEW b \in Boxes, ConfirmDeposit(b) PROVE TypeOK'
<1>1. pkg' \in [Packages -> Package]
  <2>1. pkg \in [Packages -> Package]
    BY DEF TypeOK
  <2> QED
    BY <2>1 DEF ConfirmDeposit, Package, PackageStatus
<1>2. task' \in [Boxes -> Task]
  <2>1. task \in [Boxes -> Task]
    BY DEF TypeOK
  <2> QED
    BY <2>1, IdleTask DEF ConfirmDeposit, Task
<1> QED
  BY <1>1, <1>2 DEF TypeOK, ConfirmDeposit

(* CancelDeposit keeps the types. *)
LEMMA CancelDepositTyped ==
  ASSUME TypeOK, NEW b \in Boxes, CancelDeposit(b) PROVE TypeOK'
<1>1. pkg' \in [Packages -> Package]
  <2>1. pkg \in [Packages -> Package]
    BY DEF TypeOK
  <2> QED
    BY <2>1 DEF CancelDeposit, Package, PackageStatus
<1>2. task' \in [Boxes -> Task]
  <2>1. task \in [Boxes -> Task]
    BY DEF TypeOK
  <2> QED
    BY <2>1, IdleTask DEF CancelDeposit, Task
<1> QED
  BY <1>1, <1>2 DEF TypeOK, CancelDeposit

(* ConfirmBox keeps the types. *)
LEMMA ConfirmBoxTyped ==
  ASSUME TypeOK, NEW b \in Boxes, ConfirmBox(b) PROVE TypeOK'
<1>1. box' \in [Boxes -> Box]
  <2>1. box \in [Boxes -> Box]
    BY DEF TypeOK
  <2> QED
    BY ZenonT(60), <2>1 DEF ConfirmBox, Box
<1>2. task' \in [Boxes -> Task]
  BY IdleTask DEF TypeOK, ConfirmBox
<1> QED
  BY <1>1, <1>2 DEF TypeOK, ConfirmBox

(* A freed box is a box document. *)
LEMMA FreeIfLinkedTyped ==
  ASSUME TypeOK, NEW b, NEW p, FreeIfLinked(b, p) PROVE box' \in [Boxes -> Box]
<1>1. box \in [Boxes -> Box]
  BY DEF TypeOK
<1> QED
  BY ZenonT(60), <1>1 DEF FreeIfLinked, Box, BoxStatus

(* CancelBox keeps the types. *)
LEMMA CancelBoxTyped ==
  ASSUME TypeOK, NEW b \in Boxes, CancelBox(b) PROVE TypeOK'
<1>1. box' \in [Boxes -> Box]
  BY FreeIfLinkedTyped DEF CancelBox
<1>2. task' \in [Boxes -> Task]
  BY IdleTask DEF TypeOK, CancelBox
<1> QED
  BY <1>1, <1>2 DEF TypeOK, CancelBox

(* ReturnBox keeps the types. *)
LEMMA ReturnBoxTyped ==
  ASSUME TypeOK, NEW p \in Packages, ReturnBox(p) PROVE TypeOK'
<1>1. box' \in [Boxes -> Box]
  BY FreeIfLinkedTyped DEF ReturnBox
<1> QED
  BY <1>1 DEF TypeOK, ReturnBox, Release, NoRelease

(* PickupFindBox keeps the types. *)
LEMMA PickupFindBoxTyped ==
  ASSUME TypeOK, NEW p \in Packages, PickupFindBox(p), pkg[p].box \in Boxes PROVE TypeOK'
<1>1. box[pkg[p].box].item \in BOOLEAN
  BY DEF TypeOK, Box
<1>2. release' \in [Packages -> Release]
  BY <1>1 DEF TypeOK, PickupFindBox, Release
<1> QED
  BY <1>2 DEF TypeOK, PickupFindBox

(* PickupSaveBox keeps the types. *)
LEMMA PickupSaveBoxTyped ==
  ASSUME TypeOK, NEW p \in Packages, PickupSaveBox(p) PROVE TypeOK'
<1>1. box' \in [Boxes -> Box]
  <2>1. box \in [Boxes -> Box]
    BY DEF TypeOK
  <2> DEFINE i == IF release[p].sawItem THEN FALSE ELSE box[pkg[p].box].item
  <2>2. pkg[p].box \in Boxes => i \in BOOLEAN
    BY <2>1, BoxParts
  <2>3. box' = [box EXCEPT ![pkg[p].box].status = "AVAILABLE", ![pkg[p].box].link = NoPkg,
                           ![pkg[p].box].item = i]
    BY DEF PickupSaveBox
  <2> HIDE DEF i
  <2> DEFINE b == pkg[p].box
             saved == [box[b] EXCEPT !.status = "AVAILABLE", !.link = NoPkg, !.item = i]
  <2>4. box' = [box EXCEPT ![b] = saved]
    BY <2>1, <2>3
  <2>5. ASSUME b \in Boxes PROVE saved \in Box
    <3>1. box[b] \in Box /\ i \in BOOLEAN
      BY <2>1, <2>2, <2>5
    <3> QED
      BY <3>1 DEF Box, BoxStatus
  <2> HIDE DEF saved
  <2> QED
    BY <2>1, <2>4, <2>5, SetOne
<1>2. release' \in [Packages -> Release]
  BY DEF TypeOK, PickupSaveBox, Release, NoRelease
<1> QED
  BY <1>1, <1>2 DEF TypeOK, PickupSaveBox

(* UpdateBoxStatus keeps the types. *)
LEMMA UpdateBoxStatusTyped ==
  ASSUME TypeOK, NEW b \in Boxes, UpdateBoxStatus(b) PROVE TypeOK'
<1>1. box' \in [Boxes -> Box]
  <2>1. box \in [Boxes -> Box]
    BY DEF TypeOK
  <2>2. PICK s \in BoxStatus : box' = [box EXCEPT ![b].status = s]
    BY DEF UpdateBoxStatus, BoxStatus
  <2> QED
    BY <2>1, <2>2 DEF Box
<1> QED
  BY <1>1 DEF TypeOK, UpdateBoxStatus

(* DropOffCheck keeps the types. *)
LEMMA DropOffCheckTyped ==
  ASSUME TypeOK, NEW p \in Packages, NEW b \in Boxes, DropOffCheck(p, b) PROVE TypeOK'
<1>1. drop' \in [Packages -> DropOff]
  BY DEF TypeOK, DropOffCheck, DropOff
<1> QED
  BY <1>1 DEF TypeOK, DropOffCheck

(* DropOffCreate keeps the types. *)
LEMMA DropOffCreateTyped ==
  ASSUME TypeOK, NEW p \in Packages, DropOffCreate(p) PROVE TypeOK'
  BY ZenonT(60), NullAssumption DEF TypeOK, DropOffCreate, DropOff, Package, PackageStatus, Never

(* DropOffCreateFails keeps the types. *)
LEMMA DropOffCreateFailsTyped ==
  ASSUME TypeOK, NEW p \in Packages, DropOffCreateFails(p) PROVE TypeOK'
  BY ZenonT(60), NullAssumption DEF TypeOK, DropOffCreateFails, DropOff

(* PickupClaim keeps the types. *)
LEMMA PickupClaimTyped ==
  ASSUME TypeOK, NEW p \in Packages, PickupClaim(p) PROVE TypeOK'
<1>1. pkg' \in [Packages -> Package]
  <2>1. pkg \in [Packages -> Package]
    BY DEF TypeOK
  <2> QED
    BY <2>1 DEF PickupClaim, Package, PackageStatus
<1>2. release' \in [Packages -> Release]
  <2>1. release \in [Packages -> Release]
    BY DEF TypeOK
  <2> QED
    BY <2>1 DEF PickupClaim, Release
<1> QED
  BY <1>1, <1>2 DEF TypeOK, PickupClaim

(* ReturnClaim keeps the types. *)
LEMMA ReturnClaimTyped ==
  ASSUME TypeOK, NEW p \in Packages, ReturnClaim(p) PROVE TypeOK'
<1>1. pkg' \in [Packages -> Package]
  <2>1. pkg \in [Packages -> Package]
    BY DEF TypeOK
  <2> QED
    BY <2>1 DEF ReturnClaim, Package, PackageStatus
<1>2. release' \in [Packages -> Release]
  <2>1. release \in [Packages -> Release]
    BY DEF TypeOK
  <2> QED
    BY <2>1 DEF ReturnClaim, Release
<1> QED
  BY <1>1, <1>2 DEF TypeOK, ReturnClaim

(* MarkOverdue keeps the types. *)
LEMMA MarkOverdueTyped ==
  ASSUME TypeOK, NEW p \in Packages, MarkOverdue(p) PROVE TypeOK'
  BY ZenonT(60), NullAssumption DEF TypeOK, MarkOverdue, Package, PackageStatus

(* DropOffThrows keeps the types. *)
LEMMA DropOffThrowsTyped ==
  ASSUME TypeOK, NEW p \in Packages, DropOffThrows(p) PROVE TypeOK'
  BY NullAssumption DEF TypeOK, DropOffThrows, Fault, DropOff, Answered

(* ReleaseThrows keeps the types. *)
LEMMA ReleaseThrowsTyped ==
  ASSUME TypeOK, NEW p \in Packages, ReleaseThrows(p) PROVE TypeOK'
  BY NullAssumption DEF TypeOK, ReleaseThrows, Fault, Release, NoRelease

(* ReadLink keeps the types. *)
LEMMA ReadLinkTyped ==
  ASSUME TypeOK, NEW b \in Boxes, ReadLink(b) PROVE TypeOK'
<1>1. task \in [Boxes -> Task] /\ box[b].link \in Packages \cup {NoPkg}
  BY DEF TypeOK, Box
<1>2. [task[b] EXCEPT !.pc = "decide", !.pkg = box[b].link] \in Task
  BY <1>1 DEF Task
<1>3. task' \in [Boxes -> Task]
  BY <1>1, <1>2, IdleTask DEF ReadLink
<1> QED
  BY <1>3 DEF TypeOK, ReadLink

(* Decide keeps the types. *)
LEMMA DecideTyped ==
  ASSUME TypeOK, NEW b \in Boxes, Decide(b) PROVE TypeOK'
<1> DEFINE next == IF pkg[task[b].pkg].status = "PENDING_DEPOSIT"
                   THEN DecideOnSensor(pkg[task[b].pkg], task[b].reading) ELSE "idle"
<1>1. task[b] \in Task /\ task \in [Boxes -> Task]
  BY DEF TypeOK
<1>2. next \in {"mark", "confirm", "idle"}
  BY DEF DecideOnSensor
<1>3. task' = [task EXCEPT ![b] = IF next = "idle" THEN Idle ELSE [task[b] EXCEPT !.pc = next]]
  BY <1>1 DEF Decide
<1> HIDE DEF next
<1>4. [task[b] EXCEPT !.pc = next] \in Task
  BY <1>1, <1>2, TaskParts
<1>5. task' \in [Boxes -> Task]
  BY <1>1, <1>3, <1>4, IdleTask, SetOne
<1> QED
  BY <1>5 DEF TypeOK, Decide

(* TaskThrows keeps the types. *)
LEMMA TaskThrowsTyped ==
  ASSUME TypeOK, NEW b \in Boxes, TaskThrows(b) PROVE TypeOK'
  BY NullAssumption DEF TypeOK, TaskThrows, Fault, Task, Idle

(* Tick keeps the types. *)
LEMMA TickTyped ==
  ASSUME TypeOK, Tick PROVE TypeOK'
  BY NullAssumption DEF TypeOK, Tick

(* ServerRestart keeps the types. *)
LEMMA ServerRestartTyped ==
  ASSUME TypeOK, ServerRestart PROVE TypeOK'
  BY NullAssumption DEF TypeOK, ServerRestart, Fault, DropOff, NotStarted, Answered,
     Release, NoRelease, Task, Idle

----------------------------------------------------------------------------
(* One step of the component, whatever it is, keeps the types, provided a   *)
(* package whose box is looked up has one.                                  *)
LEMMA TypeStep ==
  ASSUME TypeOK, [Next]_vars,
         \A p \in Packages : PickupFindBox(p) => pkg[p].box \in Boxes
  PROVE  TypeOK'
<1>1. ASSUME NEW p \in Packages, PackageStep(p) PROVE TypeOK'
  <2>1. ASSUME NEW b \in Boxes, DropOffCheck(p, b) PROVE TypeOK'
    BY <2>1, DropOffCheckTyped
  <2>2. CASE DropOffStep(p)
    BY <2>2, DropOffClaimTyped, DropOffCreateTyped, DropOffCreateFailsTyped,
       DropOffGiveBackTyped, DropOffLinkTyped DEF DropOffStep
  <2>3. CASE HandleExpiredDeposits(p)
    BY <2>3, HandleExpiredDepositsTyped
  <2>4. CASE PickupClaim(p) \/ ReturnClaim(p) \/ MarkOverdue(p)
    BY <2>4, PickupClaimTyped, ReturnClaimTyped, MarkOverdueTyped
  <2>5. CASE ReleaseStep(p)
    BY <2>5, PickupFindBoxTyped, PickupSaveBoxTyped, ReturnBoxTyped DEF ReleaseStep
  <2>6. CASE DropOffThrows(p) \/ ReleaseThrows(p)
    BY <2>6, DropOffThrowsTyped, ReleaseThrowsTyped
  <2> QED
    BY <1>1, <2>1, <2>2, <2>3, <2>4, <2>5, <2>6 DEF PackageStep
<1>2. ASSUME NEW b \in Boxes, BoxStep(b) PROVE TypeOK'
  <2>1. CASE TaskStep(b)
    BY <2>1, StoreReadingTyped, ReadLinkTyped, DecideTyped, MarkDoorOpenedTyped,
       StartExpiryTyped, JudgeExpiryTyped, ConfirmDepositTyped, ConfirmBoxTyped,
       CancelDepositTyped, CancelBoxTyped DEF TaskStep
  <2> QED
    BY <1>2, <2>1, SensorEventTyped, UpdateBoxStatusTyped, TaskThrowsTyped DEF BoxStep
<1>3. CASE Tick \/ ServerRestart
  BY <1>3, TickTyped, ServerRestartTyped
<1>4. CASE UNCHANGED vars
  BY <1>4 DEF TypeOK, vars
<1> QED
  BY <1>1, <1>2, <1>3, <1>4 DEF Next

(* The initial values have their types. *)
LEMMA TypeInit == Init => TypeOK
<1> SUFFICES ASSUME Init PROVE TypeOK
  OBVIOUS
<1>1. box \in [Boxes -> Box]
  BY DEF Init, Box, BoxStatus
<1>2. pkg \in [Packages -> Package]
  BY DEF Init, Package, PackageStatus, Never
<1>3. drop \in [Packages -> DropOff]
  BY DEF Init, DropOff, NotStarted
<1>4. release \in [Packages -> Release]
  BY DEF Init, Release, NoRelease
<1>5. queue \in [Boxes -> Seq(Job)]
  BY DEF Init
<1>6. task \in [Boxes -> Task]
  BY IdleTask DEF Init
<1> QED
  BY <1>1, <1>2, <1>3, <1>4, <1>5, <1>6 DEF Init, TypeOK
----------------------------------------------------------------------------
(* Agreement                                                                *)

(* Links stay in agreement when they stay or are removed.                   *)
LEMMA LinksKept ==
  ASSUME LinksAgree, pkg' = pkg, \A c \in Boxes : box'[c].link \in {box[c].link, NoPkg}
  PROVE  LinksAgree'
  BY DEF LinksAgree, BelongsTo

(* Freeing a box removes its link or leaves it.                             *)
LEMMA FreeKeepsLinks ==
  ASSUME TypeOK, NEW b, NEW p, FreeIfLinked(b, p)
  PROVE  \A c \in Boxes : box'[c].link \in {box[c].link, NoPkg}
<1>0. box \in [Boxes -> Box]
  BY DEF TypeOK
<1>1. ASSUME NEW c \in Boxes PROVE box'[c].link \in {box[c].link, NoPkg}
  <2>1. CASE c # b
    BY <1>0, <2>1 DEF FreeIfLinked
  <2>2. CASE c = b
    BY <1>0, <2>2 DEF FreeIfLinked, Box
  <2> QED
    BY <2>1, <2>2
<1> QED
  BY <1>1

(* Jobs stay in agreement when each stays, ends or moves on with a package  *)
(* of its box.                                                              *)
LEMMA TasksKept ==
  ASSUME TasksAgree, pkg' = pkg,
         \A c \in Boxes : \/ task'[c] = task[c] \/ task'[c].pc \in {"idle", "link"}
                          \/ task'[c].pc # "cancelBox" /\ BelongsTo(task'[c].pkg, c)
  PROVE  TasksAgree'
  BY DEF TasksAgree, BelongsTo

(* What a step does not write stays in agreement.                           *)
LEMMA UnwrittenAgree ==
  ASSUME DocumentsAgree, pkg' = pkg
  PROVE  /\ drop' = drop => DropsAgree'
         /\ queue' = queue => QueuesAgree'
         /\ task' = task => TasksAgree'
         /\ release' = release => ReleasesAgree'
<1>1. drop' = drop => DropsAgree'
  BY DEF DocumentsAgree, DropsAgree
<1>2. queue' = queue => QueuesAgree'
  BY DEF DocumentsAgree, QueuesAgree, BelongsTo
<1>3. task' = task => TasksAgree'
  BY DEF DocumentsAgree, TasksAgree, BelongsTo
<1>4. release' = release => ReleasesAgree'
  BY DEF DocumentsAgree, ReleasesAgree
<1> QED
  BY <1>1, <1>2, <1>3, <1>4

(* DropOffCheck keeps documents, jobs and requests in agreement. *)
LEMMA DropOffCheckAgrees ==
  ASSUME TypeOK, DocumentsAgree, NEW p \in Packages, NEW b \in Boxes, DropOffCheck(p, b)
  PROVE  DocumentsAgree'
<1>1. DropsAgree'
  BY DEF DropOffCheck, DropsAgree, DocumentsAgree, TypeOK, DropOff
<1>2. LinksAgree' /\ QueuesAgree' /\ TasksAgree' /\ ReleasesAgree'
  BY DEF DropOffCheck, DocumentsAgree, LinksAgree, QueuesAgree, TasksAgree,
     ReleasesAgree, BelongsTo
<1> QED
  BY <1>1, <1>2 DEF DocumentsAgree

(* DropOffClaim keeps documents, jobs and requests in agreement. *)
LEMMA DropOffClaimAgrees ==
  ASSUME TypeOK, DocumentsAgree, NEW p \in Packages, DropOffClaim(p)
  PROVE  DocumentsAgree'
<1>1. pkg' = pkg /\ queue' = queue /\ task' = task /\ release' = release
  BY DEF DropOffClaim
<1>2. DropsAgree'
  <2>1. \A q \in Packages : /\ drop'[q].pc # "over" => drop'[q].box = drop[q].box
                            /\ drop'[q].pc = "claimed" => drop[q].pc \in {"checked", "claimed"}
                            /\ drop'[q].pc \notin {"claimed", "over"} => drop'[q].pc = drop[q].pc
    <3>1. drop' = [drop EXCEPT ![p].pc = "claimed"] \/ drop' = [drop EXCEPT ![p] = Answered]
      BY DEF DropOffClaim
    <3>2. drop \in [Packages -> DropOff] /\ drop[p].pc = "checked"
      BY DEF TypeOK, DropOffClaim
    <3> QED
  BY <3>1, <3>2 DEF DropOff, Answered
  <2> QED
  BY <1>1, <2>1 DEF DropsAgree, DocumentsAgree
<1>3. LinksAgree'
  <2>1. \A c \in Boxes : box'[c].link = box[c].link
    <3>1. \/ box' = box
          \/ box' = [box EXCEPT ![drop[p].box].status = "OCCUPIED", ![drop[p].box].item = FALSE]
      BY DEF DropOffClaim
    <3>2. box \in [Boxes -> Box]
      BY DEF TypeOK
    <3> QED
  BY <3>1, <3>2 DEF Box
  <2> QED
  BY <1>1, <2>1 DEF LinksAgree, DocumentsAgree, BelongsTo
<1> QED
  BY <1>1, <1>2, <1>3 DEF DocumentsAgree, QueuesAgree, TasksAgree, ReleasesAgree,
     BelongsTo

(* DropOffCreate keeps documents, jobs and requests in agreement. *)
LEMMA DropOffCreateAgrees ==
  ASSUME TypeOK, DocumentsAgree, NEW p \in Packages, DropOffCreate(p)
  PROVE  DocumentsAgree'
<1>1. box' = box /\ queue' = queue /\ task' = task /\ release' = release
  BY DEF DropOffCreate
<1>2. pkg[p].status = "NONE" /\ drop[p].box \in Boxes
  BY DEF DropOffCreate, DropsAgree, DocumentsAgree
<1>3. \A q \in Packages : q # p => pkg'[q] = pkg[q]
  BY DEF DropOffCreate, TypeOK
<1>4. \A q, c : BelongsTo(q, c) => BelongsTo(q, c)'
  BY <1>2, <1>3 DEF BelongsTo
<1>5. DropsAgree'
  BY <1>2 DEF DropOffCreate, DropsAgree, DocumentsAgree, TypeOK, DropOff
<1>6. TasksAgree'
  <2>1. \A c \in Boxes : task[c].pc = "cancelBox" => task[c].pkg # p /\ task[c].pkg \in Packages
    BY <1>2 DEF TasksAgree, DocumentsAgree, BelongsTo
  <2> QED
  BY <1>1, <1>3, <1>4, <2>1 DEF TasksAgree, DocumentsAgree
<1>7. ReleasesAgree'
  BY <1>1, <1>2, <1>3 DEF ReleasesAgree, DocumentsAgree
<1>8. LinksAgree' /\ QueuesAgree'
  BY <1>1, <1>4 DEF LinksAgree, QueuesAgree, DocumentsAgree
<1> QED
  BY <1>5, <1>6, <1>7, <1>8 DEF DocumentsAgree

(* DropOffCreateFails keeps documents, jobs and requests in agreement. *)
LEMMA DropOffCreateFailsAgrees ==
  ASSUME TypeOK, DocumentsAgree, NEW p \in Packages, DropOffCreateFails(p)
  PROVE  DocumentsAgree'
<1>1. DropsAgree'
  BY DEF DropOffCreateFails, DropsAgree, DocumentsAgree, TypeOK, DropOff
<1>2. LinksAgree' /\ QueuesAgree' /\ TasksAgree' /\ ReleasesAgree'
  BY DEF DropOffCreateFails, DocumentsAgree, LinksAgree, QueuesAgree, TasksAgree,
     ReleasesAgree, BelongsTo
<1> QED
  BY <1>1, <1>2 DEF DocumentsAgree

(* DropOffGiveBack keeps documents, jobs and requests in agreement. *)
LEMMA DropOffGiveBackAgrees ==
  ASSUME TypeOK, DocumentsAgree, NEW p \in Packages, DropOffGiveBack(p)
  PROVE  DocumentsAgree'
<1>1. DropsAgree'
  BY DEF DropOffGiveBack, DropsAgree, DocumentsAgree, TypeOK, DropOff, Answered
<1>2. LinksAgree'
  <2>1. box \in [Boxes -> Box] /\ pkg' = pkg
    BY DEF TypeOK, DropOffGiveBack
  <2>2. box' = [box EXCEPT ![drop[p].box].status = "AVAILABLE", ![drop[p].box].item = FALSE]
    BY DEF DropOffGiveBack
  <2>3. \A c \in Boxes : box'[c].link = box[c].link
    BY <2>1, <2>2 DEF Box
  <2> QED
    BY <2>1, <2>3, LinksKept DEF DocumentsAgree
<1>3. QueuesAgree' /\ TasksAgree' /\ ReleasesAgree'
  BY DEF DropOffGiveBack, DocumentsAgree, QueuesAgree, TasksAgree, ReleasesAgree,
     BelongsTo
<1> QED
  BY <1>1, <1>2, <1>3 DEF DocumentsAgree

(* DropOffLink keeps documents, jobs and requests in agreement. *)
LEMMA DropOffLinkAgrees ==
  ASSUME TypeOK, DocumentsAgree, NEW p \in Packages, DropOffLink(p)
  PROVE  DocumentsAgree'
<1>1. DropsAgree'
  BY DEF DropOffLink, DropsAgree, DocumentsAgree, TypeOK, DropOff, Answered
<1>2. LinksAgree'
  BY DEF DropOffLink, LinksAgree, DocumentsAgree, TypeOK, Box, Answered, BelongsTo,
     DropsAgree
<1>3. QueuesAgree' /\ TasksAgree' /\ ReleasesAgree'
  BY DEF DropOffLink, DocumentsAgree, QueuesAgree, TasksAgree, ReleasesAgree,
     BelongsTo
<1> QED
  BY <1>1, <1>2, <1>3 DEF DocumentsAgree

(* SensorEvent keeps documents, jobs and requests in agreement. *)
LEMMA SensorEventAgrees ==
  ASSUME TypeOK, DocumentsAgree, NEW b \in Boxes, SensorEvent(b)
  PROVE  DocumentsAgree'
<1>1. QueuesAgree'
  BY DEF SensorEvent, QueuesAgree, DocumentsAgree, TypeOK, Job, Enqueue, BelongsTo,
     DropsAgree
<1>2. DropsAgree' /\ LinksAgree' /\ TasksAgree' /\ ReleasesAgree'
  BY DEF SensorEvent, DocumentsAgree, DropsAgree, LinksAgree, TasksAgree,
     ReleasesAgree, BelongsTo
<1> QED
  BY <1>1, <1>2 DEF DocumentsAgree

(* HandleExpiredDeposits keeps documents, jobs and requests in agreement. *)
LEMMA HandleExpiredDepositsAgrees ==
  ASSUME TypeOK, DocumentsAgree, NEW p \in Packages, HandleExpiredDeposits(p)
  PROVE  DocumentsAgree'
<1>1. QueuesAgree'
  <2>1. pkg' = pkg /\ BelongsTo(p, pkg[p].box) /\ pkg[p].box \in Boxes
    BY DEF HandleExpiredDeposits, DocumentsAgree, DropsAgree, BelongsTo
  <2>2. PICK j \in Job : Enqueue(pkg[p].box, j) /\ j.pkg = p
    BY DEF HandleExpiredDeposits, Job
  <2>3. queue \in [Boxes -> Seq(Job)]
    BY DEF TypeOK
  <2>4. ASSUME NEW c \in Boxes, NEW i \in DOMAIN queue'[c]
        PROVE  \/ i \in DOMAIN queue[c] /\ queue'[c][i] = queue[c][i]
               \/ c = pkg[p].box /\ queue'[c][i] = j
    BY <2>1, <2>2, <2>3, <2>4 DEF Enqueue
  <2> QED
    BY <2>1, <2>2, <2>4 DEF QueuesAgree, DocumentsAgree, BelongsTo
<1>2. DropsAgree' /\ LinksAgree' /\ TasksAgree' /\ ReleasesAgree'
  BY DEF HandleExpiredDeposits, DocumentsAgree, DropsAgree, LinksAgree, TasksAgree,
     ReleasesAgree, BelongsTo
<1> QED
  BY <1>1, <1>2 DEF DocumentsAgree

(* StoreReading keeps documents, jobs and requests in agreement. *)
LEMMA StoreReadingAgrees ==
  ASSUME TypeOK, DocumentsAgree, NEW b \in Boxes, StoreReading(b)
  PROVE  DocumentsAgree'
<1>1. LinksAgree'
  BY DEF StoreReading, LinksAgree, DocumentsAgree, TypeOK, Box, Dequeue, BelongsTo,
     DropsAgree
<1>2. QueuesAgree'
  BY DEF StoreReading, QueuesAgree, DocumentsAgree, TypeOK, Job, Dequeue, BelongsTo,
     DropsAgree
<1>3. TasksAgree'
  BY DEF StoreReading, TasksAgree, DocumentsAgree, TypeOK, Task, Dequeue, BelongsTo,
     LinksAgree, QueuesAgree
<1>4. DropsAgree' /\ ReleasesAgree'
  BY DEF StoreReading, DocumentsAgree, DropsAgree, ReleasesAgree, BelongsTo
<1> QED
  BY <1>1, <1>2, <1>3, <1>4 DEF DocumentsAgree

(* ReadLink keeps documents, jobs and requests in agreement. *)
LEMMA ReadLinkAgrees ==
  ASSUME TypeOK, DocumentsAgree, NEW b \in Boxes, ReadLink(b)
  PROVE  DocumentsAgree'
<1>1. TasksAgree'
  BY DEF ReadLink, TasksAgree, DocumentsAgree, TypeOK, Task, Idle, BelongsTo,
     LinksAgree, QueuesAgree
<1>2. DropsAgree' /\ LinksAgree' /\ QueuesAgree' /\ ReleasesAgree'
  BY DEF ReadLink, DocumentsAgree, DropsAgree, LinksAgree, QueuesAgree,
     ReleasesAgree, BelongsTo
<1> QED
  BY <1>1, <1>2 DEF DocumentsAgree

(* Decide keeps documents, jobs and requests in agreement. *)
LEMMA DecideAgrees ==
  ASSUME TypeOK, DocumentsAgree, NEW b \in Boxes, Decide(b)
  PROVE  DocumentsAgree'
<1>1. TasksAgree'
  <2> DEFINE next == IF pkg[task[b].pkg].status = "PENDING_DEPOSIT"
                     THEN DecideOnSensor(pkg[task[b].pkg], task[b].reading) ELSE "idle"
  <2>1. next \in {"idle", "mark", "confirm"}
    BY DEF DecideOnSensor
  <2>2. /\ task' = [task EXCEPT ![b] = IF next = "idle" THEN Idle ELSE [@ EXCEPT !.pc = next]]
        /\ task[b].pc = "decide" /\ pkg' = pkg
    BY DEF Decide
  <2>3. BelongsTo(task[b].pkg, b) /\ task \in [Boxes -> Task]
    BY <2>2 DEF DocumentsAgree, TasksAgree, TypeOK
  <2> HIDE DEF next
  <2>4. ASSUME NEW c \in Boxes
        PROVE  \/ task'[c] = task[c] \/ task'[c].pc \in {"idle", "link"}
               \/ task'[c].pc # "cancelBox" /\ BelongsTo(task'[c].pkg, c)
    <3>1. CASE c # b
      BY <2>2, <2>3, <3>1
    <3>2. CASE c = b
      BY <2>1, <2>2, <2>3, <3>2 DEF Task, Idle
    <3> QED
      BY <3>1, <3>2
  <2> QED
    BY <2>2, <2>4, TasksKept DEF DocumentsAgree
<1>2. DropsAgree' /\ LinksAgree' /\ QueuesAgree' /\ ReleasesAgree'
  BY DEF Decide, DocumentsAgree, DropsAgree, LinksAgree, QueuesAgree, ReleasesAgree,
     BelongsTo
<1> QED
  BY <1>1, <1>2 DEF DocumentsAgree

(* MarkDoorOpened keeps documents, jobs and requests in agreement. *)
LEMMA MarkDoorOpenedAgrees ==
  ASSUME TypeOK, DocumentsAgree, NEW b \in Boxes, MarkDoorOpened(b)
  PROVE  DocumentsAgree'
<1>1. \A q, c : BelongsTo(q, c) => BelongsTo(q, c)'
  BY DEF MarkDoorOpened, TypeOK, Package, DropsAgree, DocumentsAgree, Idle,
     BelongsTo
<1>2. DropsAgree'
  BY DEF MarkDoorOpened, DropsAgree, DocumentsAgree, TypeOK, Package, Idle
<1>3. LinksAgree'
  BY <1>1 DEF MarkDoorOpened, LinksAgree, DocumentsAgree, TypeOK, Package, Idle
<1>4. QueuesAgree'
  BY <1>1 DEF MarkDoorOpened, QueuesAgree, DocumentsAgree, TypeOK, Package, Idle
<1>5. TasksAgree'
  BY <1>1 DEF MarkDoorOpened, TasksAgree, DocumentsAgree, TypeOK, Task, Package,
     Idle, BelongsTo, LinksAgree, QueuesAgree
<1>6. ReleasesAgree'
  BY DEF MarkDoorOpened, ReleasesAgree, DocumentsAgree, TypeOK, Package, Idle
<1> QED
  BY <1>2, <1>3, <1>4, <1>5, <1>6 DEF DocumentsAgree

(* StartExpiry keeps documents, jobs and requests in agreement. *)
LEMMA StartExpiryAgrees ==
  ASSUME TypeOK, DocumentsAgree, NEW b \in Boxes, StartExpiry(b)
  PROVE  DocumentsAgree'
<1>1. QueuesAgree'
  BY DEF StartExpiry, QueuesAgree, DocumentsAgree, TypeOK, Job, Dequeue, Idle,
     BelongsTo, DropsAgree
<1>2. TasksAgree'
  <2>1. /\ pkg' = pkg /\ Dequeue(b, "expiry")
        /\ queue \in [Boxes -> Seq(Job)] /\ task \in [Boxes -> Task]
    BY DEF StartExpiry, TypeOK
  <2>2. 1 \in DOMAIN queue[b] /\ Head(queue[b]) = queue[b][1] /\ queue[b][1].kind = "expiry"
    BY <2>1 DEF Dequeue
  <2>3. BelongsTo(Head(queue[b]).pkg, b)
    BY <2>2 DEF DocumentsAgree, QueuesAgree
  <2>4. \/ task' = [task EXCEPT ![b] = [pc |-> "expiry", pkg |-> Head(queue[b]).pkg,
                                       reading |-> NoSnapshot]]
        \/ task' = [task EXCEPT ![b] = Idle]
    BY DEF StartExpiry
  <2>5. ASSUME NEW c \in Boxes
        PROVE  \/ task'[c] = task[c] \/ task'[c].pc \in {"idle", "link"}
               \/ task'[c].pc # "cancelBox" /\ BelongsTo(task'[c].pkg, c)
    BY <2>1, <2>3, <2>4 DEF Idle
  <2> QED
    BY <2>1, <2>5, TasksKept DEF DocumentsAgree
<1>3. DropsAgree' /\ LinksAgree' /\ ReleasesAgree'
  BY DEF StartExpiry, DocumentsAgree, DropsAgree, LinksAgree, ReleasesAgree,
     BelongsTo
<1> QED
  BY <1>1, <1>2, <1>3 DEF DocumentsAgree

(* JudgeExpiry keeps documents, jobs and requests in agreement. *)
LEMMA JudgeExpiryAgrees ==
  ASSUME TypeOK, DocumentsAgree, NEW b \in Boxes, JudgeExpiry(b)
  PROVE  DocumentsAgree'
<1>1. pkg' = pkg /\ queue' = queue /\ box' = box /\ release' = release /\ drop' = drop
  BY DEF JudgeExpiry
<1>2. TasksAgree'
  <2> DEFINE next == DecideOnExpiry(pkg[task[b].pkg], box[pkg[task[b].pkg].box].sensor)
  <2>1. next \in {"idle", "confirm", "cancel"}
    BY DEF DecideOnExpiry
  <2>2. task' = [task EXCEPT ![b] = IF next = "idle" THEN Idle ELSE [@ EXCEPT !.pc = next]]
    BY DEF JudgeExpiry
  <2>3. task[b].pc = "expiry"
    BY DEF JudgeExpiry
  <2> HIDE DEF next
  <2> QED
  BY <1>1, <2>1, <2>2, <2>3 DEF TasksAgree, DocumentsAgree, BelongsTo, TypeOK, Task,
     Idle
<1> QED
  BY <1>1, <1>2 DEF DocumentsAgree, DropsAgree, LinksAgree, QueuesAgree,
     ReleasesAgree, BelongsTo

(* ConfirmDeposit keeps documents, jobs and requests in agreement. *)
LEMMA ConfirmDepositAgrees ==
  ASSUME TypeOK, DocumentsAgree, NEW b \in Boxes, ConfirmDeposit(b)
  PROVE  DocumentsAgree'
<1>1. box' = box /\ queue' = queue /\ drop' = drop /\ release' = release
  BY DEF ConfirmDeposit
<1>2. /\ task[b].pc = "confirm" /\ BelongsTo(task[b].pkg, b)
      /\ task[b].pkg \in Packages
  BY DEF ConfirmDeposit, DocumentsAgree, TasksAgree, BelongsTo
<1>3. \A q \in Packages : /\ pkg'[q].box = pkg[q].box
                          /\ pkg'[q].status = pkg[q].status
                             \/ /\ pkg[q].status = "PENDING_DEPOSIT"
                                /\ pkg'[q].status = "WAITING_FOR_PICKUP"
  <2>1. \/ pkg' = pkg
        \/ /\ pkg[task[b].pkg].status = "PENDING_DEPOSIT"
           /\ pkg' = [pkg EXCEPT ![task[b].pkg].status = "WAITING_FOR_PICKUP"]
    BY DEF ConfirmDeposit
  <2>2. pkg \in [Packages -> Package]
    BY DEF TypeOK
  <2> QED
  BY <2>1, <2>2 DEF Package
<1>4. \A q, c : BelongsTo(q, c) => BelongsTo(q, c)'
  BY <1>3 DEF BelongsTo
<1>5. DropsAgree'
  BY <1>1, <1>3 DEF DropsAgree, DocumentsAgree
<1>6. TasksAgree'
  <2>1. \A c \in Boxes : /\ c # b => task'[c] = task[c]
                         /\ task'[b].pc \in {"idle", "confirmBox"}
                         /\ task'[b].pc = "confirmBox" => task'[b].pkg = task[b].pkg
    BY DEF ConfirmDeposit, TypeOK, Task, Idle
  <2> QED
  BY <1>2, <1>3, <1>4, <2>1 DEF TasksAgree, DocumentsAgree, BelongsTo
<1>7. ReleasesAgree'
  BY <1>1, <1>3 DEF ReleasesAgree, DocumentsAgree
<1>8. LinksAgree' /\ QueuesAgree'
  BY <1>1, <1>4 DEF LinksAgree, QueuesAgree, DocumentsAgree
<1> QED
  BY <1>5, <1>6, <1>7, <1>8 DEF DocumentsAgree

(* ConfirmBox keeps documents, jobs and requests in agreement. *)
LEMMA ConfirmBoxAgrees ==
  ASSUME TypeOK, DocumentsAgree, NEW b \in Boxes, ConfirmBox(b)
  PROVE  DocumentsAgree'
<1>1. LinksAgree'
  <2>1. box \in [Boxes -> Box] /\ pkg' = pkg
    BY DEF TypeOK, ConfirmBox
  <2>2. PICK v : box' = [box EXCEPT ![pkg[task[b].pkg].box].item = v]
    BY DEF ConfirmBox
  <2>3. \A c \in Boxes : box'[c].link = box[c].link
    BY <2>1, <2>2 DEF Box
  <2> QED
    BY <2>1, <2>3, LinksKept DEF DocumentsAgree
<1>2. TasksAgree'
  <2>1. pkg' = pkg /\ task' = [task EXCEPT ![b] = Idle] /\ task \in [Boxes -> Task]
    BY Zenon DEF ConfirmBox, TypeOK
  <2>2. \A c \in Boxes : task'[c] = task[c] \/ task'[c].pc = "idle"
    BY <2>1 DEF Idle
  <2> QED
    BY <2>1, <2>2, TasksKept DEF DocumentsAgree
<1>3. DropsAgree' /\ QueuesAgree' /\ ReleasesAgree'
  BY UnwrittenAgree DEF ConfirmBox
<1> QED
  BY SMTT(30), <1>1, <1>2, <1>3 DEF DocumentsAgree

(* CancelDeposit keeps documents, jobs and requests in agreement. *)
LEMMA CancelDepositAgrees ==
  ASSUME TypeOK, DocumentsAgree, NEW b \in Boxes, CancelDeposit(b)
  PROVE  DocumentsAgree'
<1>1. box' = box /\ queue' = queue /\ drop' = drop /\ release' = release
  BY DEF CancelDeposit
<1>2. /\ task[b].pc = "cancel" /\ BelongsTo(task[b].pkg, b)
      /\ task[b].pkg \in Packages
  BY DEF CancelDeposit, DocumentsAgree, TasksAgree, BelongsTo
<1>3. \A q \in Packages : /\ pkg'[q].box = pkg[q].box
                          /\ pkg'[q].status = pkg[q].status
                             \/ /\ pkg[q].status = "PENDING_DEPOSIT"
                                /\ pkg'[q].status = "DEPOSIT_CANCELLED"
  <2>1. \/ pkg' = pkg
        \/ /\ pkg[task[b].pkg].status = "PENDING_DEPOSIT"
           /\ pkg' = [pkg EXCEPT ![task[b].pkg].status = "DEPOSIT_CANCELLED"]
    BY DEF CancelDeposit
  <2>2. pkg \in [Packages -> Package]
    BY DEF TypeOK
  <2> QED
  BY <2>1, <2>2 DEF Package
<1>4. \A q, c : BelongsTo(q, c) => BelongsTo(q, c)'
  BY <1>3 DEF BelongsTo
<1>5. DropsAgree'
  BY <1>1, <1>3 DEF DropsAgree, DocumentsAgree
<1>6. TasksAgree'
  <2>1. \A c \in Boxes : /\ c # b => task'[c] = task[c]
                         /\ task'[b].pc \in {"idle", "cancelBox"}
                         /\ task'[b].pc = "cancelBox" =>
                              /\ task'[b].pkg = task[b].pkg
                              /\ pkg'[task[b].pkg].status = "DEPOSIT_CANCELLED"
    BY <1>2 DEF CancelDeposit, TypeOK, Task, Idle, Package
  <2>2. \A c \in Boxes : task[c].pc = "cancelBox" =>
          /\ task[c].pkg \in Packages
          /\ pkg[task[c].pkg].status = "DEPOSIT_CANCELLED"
    BY DEF TasksAgree, DocumentsAgree, BelongsTo
  <2>3. \A c \in Boxes : task[c].pc \notin {"idle", "link"} => BelongsTo(task[c].pkg, c)
    BY DEF TasksAgree, DocumentsAgree
  <2> QED
  BY <1>2, <1>3, <1>4, <2>1, <2>2, <2>3 DEF TasksAgree
<1>7. ReleasesAgree'
  BY <1>1, <1>3 DEF ReleasesAgree, DocumentsAgree
<1>8. LinksAgree' /\ QueuesAgree'
  BY <1>1, <1>4 DEF LinksAgree, QueuesAgree, DocumentsAgree
<1> QED
  BY <1>5, <1>6, <1>7, <1>8 DEF DocumentsAgree

(* CancelBox keeps documents, jobs and requests in agreement. *)
LEMMA CancelBoxAgrees ==
  ASSUME TypeOK, DocumentsAgree, NEW b \in Boxes, CancelBox(b)
  PROVE  DocumentsAgree'
<1>1. pkg' = pkg /\ queue' = queue /\ drop' = drop /\ release' = release
  BY DEF CancelBox
<1>2. LinksAgree'
  <2>1. \A c \in Boxes : box'[c].link \in {box[c].link, NoPkg}
    BY FreeKeepsLinks DEF CancelBox
  <2> QED
  BY <1>1, <2>1 DEF LinksAgree, DocumentsAgree, BelongsTo
<1>3. TasksAgree'
  BY <1>1 DEF CancelBox, TasksAgree, DocumentsAgree, BelongsTo, TypeOK, Idle
<1> QED
  BY <1>1, <1>2, <1>3 DEF DocumentsAgree, DropsAgree, QueuesAgree, ReleasesAgree,
     BelongsTo

(* PickupClaim keeps documents, jobs and requests in agreement. *)
LEMMA PickupClaimAgrees ==
  ASSUME TypeOK, DocumentsAgree, NEW p \in Packages, PickupClaim(p)
  PROVE  DocumentsAgree'
<1>1. \A q, c : BelongsTo(q, c) => BelongsTo(q, c)'
  BY DEF PickupClaim, TypeOK, Package, DropsAgree, DocumentsAgree,
     PickupableStatuses, BelongsTo
<1>2. DropsAgree'
  BY DEF PickupClaim, DropsAgree, DocumentsAgree, TypeOK, Package,
     PickupableStatuses
<1>3. LinksAgree'
  BY <1>1 DEF PickupClaim, LinksAgree, DocumentsAgree, TypeOK, Package,
     PickupableStatuses
<1>4. QueuesAgree'
  BY <1>1 DEF PickupClaim, QueuesAgree, DocumentsAgree, TypeOK, Package,
     PickupableStatuses
<1>5. TasksAgree'
  BY <1>1 DEF PickupClaim, TasksAgree, DocumentsAgree, TypeOK, Package,
     PickupableStatuses, BelongsTo
<1>6. ReleasesAgree'
  BY DEF PickupClaim, ReleasesAgree, DocumentsAgree, TypeOK, Release, Package,
     PickupableStatuses
<1> QED
  BY <1>2, <1>3, <1>4, <1>5, <1>6 DEF DocumentsAgree

(* PickupFindBox keeps documents, jobs and requests in agreement. *)
LEMMA PickupFindBoxAgrees ==
  ASSUME TypeOK, DocumentsAgree, NEW p \in Packages, PickupFindBox(p)
  PROVE  DocumentsAgree'
<1>1. ReleasesAgree'
  BY DEF PickupFindBox, ReleasesAgree, DocumentsAgree, TypeOK, Release
<1>2. DropsAgree' /\ LinksAgree' /\ QueuesAgree' /\ TasksAgree'
  BY DEF PickupFindBox, DocumentsAgree, DropsAgree, LinksAgree, QueuesAgree,
     TasksAgree, BelongsTo
<1> QED
  BY <1>1, <1>2 DEF DocumentsAgree

(* PickupSaveBox keeps documents, jobs and requests in agreement. *)
LEMMA PickupSaveBoxAgrees ==
  ASSUME TypeOK, DocumentsAgree, NEW p \in Packages, PickupSaveBox(p)
  PROVE  DocumentsAgree'
<1>1. LinksAgree'
  <2>1. box \in [Boxes -> Box] /\ pkg' = pkg
    BY DEF TypeOK, PickupSaveBox
  <2>2. PICK v : box' = [box EXCEPT ![pkg[p].box].status = "AVAILABLE",
                                    ![pkg[p].box].link = NoPkg, ![pkg[p].box].item = v]
    BY DEF PickupSaveBox
  <2>3. \A c \in Boxes : box'[c].link \in {box[c].link, NoPkg}
    BY <2>1, <2>2 DEF Box
  <2> QED
    BY <2>1, <2>3, LinksKept DEF DocumentsAgree
<1>2. ReleasesAgree'
  BY DEF PickupSaveBox, ReleasesAgree, DocumentsAgree, TypeOK, Release, NoRelease
<1>3. DropsAgree' /\ QueuesAgree' /\ TasksAgree'
  BY UnwrittenAgree DEF PickupSaveBox
<1> QED
  BY <1>1, <1>2, <1>3 DEF DocumentsAgree

(* ReturnClaim keeps documents, jobs and requests in agreement. *)
LEMMA ReturnClaimAgrees ==
  ASSUME TypeOK, DocumentsAgree, NEW p \in Packages, ReturnClaim(p)
  PROVE  DocumentsAgree'
<1>1. \A q, c : BelongsTo(q, c) => BelongsTo(q, c)'
  BY DEF ReturnClaim, TypeOK, Package, DropsAgree, DocumentsAgree,
     PickupableStatuses, BelongsTo
<1>2. DropsAgree'
  BY DEF ReturnClaim, DropsAgree, DocumentsAgree, TypeOK, Package,
     PickupableStatuses
<1>3. LinksAgree'
  BY <1>1 DEF ReturnClaim, LinksAgree, DocumentsAgree, TypeOK, Package,
     PickupableStatuses
<1>4. QueuesAgree'
  BY <1>1 DEF ReturnClaim, QueuesAgree, DocumentsAgree, TypeOK, Package,
     PickupableStatuses
<1>5. TasksAgree'
  BY <1>1 DEF ReturnClaim, TasksAgree, DocumentsAgree, TypeOK, Package,
     PickupableStatuses, BelongsTo
<1>6. ReleasesAgree'
  BY DEF ReturnClaim, ReleasesAgree, DocumentsAgree, TypeOK, Release, Package,
     PickupableStatuses
<1> QED
  BY <1>2, <1>3, <1>4, <1>5, <1>6 DEF DocumentsAgree

(* ReturnBox keeps documents, jobs and requests in agreement. *)
LEMMA ReturnBoxAgrees ==
  ASSUME TypeOK, DocumentsAgree, NEW p \in Packages, ReturnBox(p)
  PROVE  DocumentsAgree'
<1>1. LinksAgree'
  <2>1. pkg' = pkg /\ FreeIfLinked(pkg[p].box, p)
    BY DEF ReturnBox
  <2> QED
    BY <2>1, FreeKeepsLinks, LinksKept DEF DocumentsAgree
<1>2. ReleasesAgree'
  BY DEF ReturnBox, ReleasesAgree, DocumentsAgree, TypeOK, Release, NoRelease,
     FreeIfLinked
<1>3. DropsAgree' /\ QueuesAgree' /\ TasksAgree'
  BY DEF ReturnBox, DocumentsAgree, DropsAgree, QueuesAgree, TasksAgree, BelongsTo
<1> QED
  BY <1>1, <1>2, <1>3 DEF DocumentsAgree

(* MarkOverdue keeps documents, jobs and requests in agreement. *)
LEMMA MarkOverdueAgrees ==
  ASSUME TypeOK, DocumentsAgree, NEW p \in Packages, MarkOverdue(p)
  PROVE  DocumentsAgree'
<1>1. \A q, c : BelongsTo(q, c) => BelongsTo(q, c)'
  BY DEF MarkOverdue, TypeOK, Package, DropsAgree, DocumentsAgree, BelongsTo
<1>2. DropsAgree'
  BY DEF MarkOverdue, DropsAgree, DocumentsAgree, TypeOK, Package
<1>3. LinksAgree'
  BY <1>1 DEF MarkOverdue, LinksAgree, DocumentsAgree, TypeOK, Package
<1>4. QueuesAgree'
  BY <1>1 DEF MarkOverdue, QueuesAgree, DocumentsAgree, TypeOK, Package
<1>5. TasksAgree'
  BY <1>1 DEF MarkOverdue, TasksAgree, DocumentsAgree, TypeOK, Package, BelongsTo
<1>6. ReleasesAgree'
  BY DEF MarkOverdue, ReleasesAgree, DocumentsAgree, TypeOK, Package
<1> QED
  BY <1>2, <1>3, <1>4, <1>5, <1>6 DEF DocumentsAgree

(* UpdateBoxStatus keeps documents, jobs and requests in agreement. *)
LEMMA UpdateBoxStatusAgrees ==
  ASSUME TypeOK, DocumentsAgree, NEW b \in Boxes, UpdateBoxStatus(b)
  PROVE  DocumentsAgree'
<1>1. LinksAgree'
  BY DEF UpdateBoxStatus, LinksAgree, DocumentsAgree, TypeOK, Box, BelongsTo,
     DropsAgree
<1>2. DropsAgree' /\ QueuesAgree' /\ TasksAgree' /\ ReleasesAgree'
  BY DEF UpdateBoxStatus, DocumentsAgree, DropsAgree, QueuesAgree, TasksAgree,
     ReleasesAgree, BelongsTo
<1> QED
  BY <1>1, <1>2 DEF DocumentsAgree

(* Tick keeps documents, jobs and requests in agreement. *)
LEMMA TickAgrees ==
  ASSUME TypeOK, DocumentsAgree, Tick
  PROVE  DocumentsAgree'
  BY DEF Tick, DocumentsAgree, DropsAgree, LinksAgree, QueuesAgree, TasksAgree,
     ReleasesAgree, BelongsTo

(* DropOffThrows keeps documents, jobs and requests in agreement. *)
LEMMA DropOffThrowsAgrees ==
  ASSUME TypeOK, DocumentsAgree, NEW p \in Packages, DropOffThrows(p)
  PROVE  DocumentsAgree'
<1>1. DropsAgree'
  BY DEF DropOffThrows, DropsAgree, DocumentsAgree, TypeOK, DropOff, Answered
<1>2. LinksAgree' /\ QueuesAgree' /\ TasksAgree' /\ ReleasesAgree'
  BY DEF DropOffThrows, DocumentsAgree, LinksAgree, QueuesAgree, TasksAgree,
     ReleasesAgree, BelongsTo
<1> QED
  BY <1>1, <1>2 DEF DocumentsAgree

(* ReleaseThrows keeps documents, jobs and requests in agreement. *)
LEMMA ReleaseThrowsAgrees ==
  ASSUME TypeOK, DocumentsAgree, NEW p \in Packages, ReleaseThrows(p)
  PROVE  DocumentsAgree'
<1>1. ReleasesAgree'
  BY DEF ReleaseThrows, ReleasesAgree, DocumentsAgree, TypeOK, Release, NoRelease
<1>2. DropsAgree' /\ LinksAgree' /\ QueuesAgree' /\ TasksAgree'
  BY DEF ReleaseThrows, DocumentsAgree, DropsAgree, LinksAgree, QueuesAgree,
     TasksAgree, BelongsTo
<1> QED
  BY <1>1, <1>2 DEF DocumentsAgree

(* TaskThrows keeps documents, jobs and requests in agreement. *)
LEMMA TaskThrowsAgrees ==
  ASSUME TypeOK, DocumentsAgree, NEW b \in Boxes, TaskThrows(b)
  PROVE  DocumentsAgree'
<1>1. TasksAgree'
  BY DEF TaskThrows, TasksAgree, DocumentsAgree, TypeOK, Task, Idle, BelongsTo,
     LinksAgree, QueuesAgree
<1>2. DropsAgree' /\ LinksAgree' /\ QueuesAgree' /\ ReleasesAgree'
  BY DEF TaskThrows, DocumentsAgree, DropsAgree, LinksAgree, QueuesAgree,
     ReleasesAgree, BelongsTo
<1> QED
  BY <1>1, <1>2 DEF DocumentsAgree

(* ServerRestart keeps documents, jobs and requests in agreement. *)
LEMMA ServerRestartAgrees ==
  ASSUME TypeOK, DocumentsAgree, ServerRestart
  PROVE  DocumentsAgree'
<1>1. DropsAgree'
  BY DEF ServerRestart, DropsAgree, DocumentsAgree, TypeOK, DropOff, NotStarted,
     Answered, NoRelease, Idle
<1>2. QueuesAgree'
  BY DEF ServerRestart, QueuesAgree, DocumentsAgree, TypeOK, Job, NotStarted,
     Answered, NoRelease, Idle, BelongsTo, DropsAgree
<1>3. TasksAgree'
  BY DEF ServerRestart, TasksAgree, DocumentsAgree, TypeOK, Task, NotStarted,
     Answered, NoRelease, Idle, BelongsTo, LinksAgree, QueuesAgree
<1>4. ReleasesAgree'
  BY DEF ServerRestart, ReleasesAgree, DocumentsAgree, TypeOK, Release, NotStarted,
     Answered, NoRelease, Idle
<1>5. LinksAgree'
  BY DEF ServerRestart, DocumentsAgree, LinksAgree, BelongsTo
<1> QED
  BY <1>1, <1>2, <1>3, <1>4, <1>5 DEF DocumentsAgree

(* One step keeps the agreement of documents, jobs and requests.            *)
LEMMA AgreeStep ==
  ASSUME TypeOK, DocumentsAgree, [Next]_vars PROVE DocumentsAgree'
<1>1. ASSUME NEW p \in Packages, PackageStep(p) PROVE DocumentsAgree'
  <2>1. ASSUME NEW b \in Boxes, DropOffCheck(p, b) PROVE DocumentsAgree'
    BY <2>1, DropOffCheckAgrees
  <2>2. CASE DropOffStep(p)
    BY <2>2, DropOffClaimAgrees, DropOffCreateAgrees, DropOffCreateFailsAgrees,
       DropOffGiveBackAgrees, DropOffLinkAgrees DEF DropOffStep
  <2>3. CASE HandleExpiredDeposits(p)
    BY <2>3, HandleExpiredDepositsAgrees
  <2>4. CASE PickupClaim(p) \/ ReturnClaim(p) \/ MarkOverdue(p)
    BY <2>4, PickupClaimAgrees, ReturnClaimAgrees, MarkOverdueAgrees
  <2>5. CASE ReleaseStep(p)
    BY <2>5, PickupFindBoxAgrees, PickupSaveBoxAgrees, ReturnBoxAgrees DEF ReleaseStep
  <2>6. CASE DropOffThrows(p) \/ ReleaseThrows(p)
    BY <2>6, DropOffThrowsAgrees, ReleaseThrowsAgrees
  <2> QED
    BY <1>1, <2>1, <2>2, <2>3, <2>4, <2>5, <2>6 DEF PackageStep
<1>2. ASSUME NEW b \in Boxes, BoxStep(b) PROVE DocumentsAgree'
  <2>1. CASE TaskStep(b)
    BY <2>1, StoreReadingAgrees, ReadLinkAgrees, DecideAgrees, MarkDoorOpenedAgrees,
       StartExpiryAgrees, JudgeExpiryAgrees, ConfirmDepositAgrees, ConfirmBoxAgrees,
       CancelDepositAgrees, CancelBoxAgrees DEF TaskStep
  <2> QED
    BY <1>2, <2>1, SensorEventAgrees, UpdateBoxStatusAgrees,
       TaskThrowsAgrees DEF BoxStep
<1>3. CASE Tick \/ ServerRestart
  BY <1>3, TickAgrees, ServerRestartAgrees
<1>4. CASE UNCHANGED vars
  BY <1>4 DEF vars, DocumentsAgree, DropsAgree, LinksAgree, QueuesAgree, TasksAgree,
     ReleasesAgree, BelongsTo
<1> QED
  BY <1>1, <1>2, <1>3, <1>4 DEF Next
----------------------------------------------------------------------------
(* Ownership                                                                *)

(* No package becomes an owner, and a box that keeps an owner keeps its status. *)
KeepsOwners ==
    \A c \in Boxes :
      /\ \A q \in Packages : Owns(q, c)' => Owns(q, c)
      /\ (\E q \in Packages : Owns(q, c)') => box'[c].status = box[c].status

(* DropOffCheck makes no new owner and changes no box's status. *)
LEMMA DropOffCheckKeepsOwners ==
  ASSUME TypeOK, DocumentsAgree, NEW p \in Packages, NEW b \in Boxes, DropOffCheck(p, b)
  PROVE  KeepsOwners
<1>1. \A q \in Packages, c \in Boxes : Owns(q, c)' => Owns(q, c)
  BY DEF DropOffCheck, TypeOK, Owns, Stored, StoredStatuses, DropOff
<1>2. \A c \in Boxes : box'[c].status = box[c].status
  BY DEF DropOffCheck
<1> QED
  BY <1>1, <1>2 DEF KeepsOwners

(* DropOffCreate makes no new owner and changes no box's status. *)
LEMMA DropOffCreateKeepsOwners ==
  ASSUME TypeOK, DocumentsAgree, NEW p \in Packages, DropOffCreate(p)
  PROVE  KeepsOwners
<1>1. \A q \in Packages, c \in Boxes : Owns(q, c)' => Owns(q, c)
  BY DEF DropOffCreate, TypeOK, Owns, Stored, StoredStatuses, Package, DropOff,
     DropsAgree, DocumentsAgree
<1>2. \A c \in Boxes : box'[c].status = box[c].status
  BY DEF DropOffCreate
<1> QED
  BY <1>1, <1>2 DEF KeepsOwners

(* DropOffCreateFails makes no new owner and changes no box's status. *)
LEMMA DropOffCreateFailsKeepsOwners ==
  ASSUME TypeOK, DocumentsAgree, NEW p \in Packages, DropOffCreateFails(p)
  PROVE  KeepsOwners
<1>1. \A q \in Packages, c \in Boxes : Owns(q, c)' => Owns(q, c)
  BY DEF DropOffCreateFails, TypeOK, Owns, Stored, StoredStatuses, DropOff
<1>2. \A c \in Boxes : box'[c].status = box[c].status
  BY DEF DropOffCreateFails
<1> QED
  BY <1>1, <1>2 DEF KeepsOwners

(* DropOffLink makes no new owner and changes no box's status. *)
LEMMA DropOffLinkKeepsOwners ==
  ASSUME TypeOK, DocumentsAgree, NEW p \in Packages, DropOffLink(p)
  PROVE  KeepsOwners
<1>1. \A q \in Packages, c \in Boxes : Owns(q, c)' => Owns(q, c)
  BY DEF DropOffLink, TypeOK, Owns, Stored, StoredStatuses, DropOff, Answered
<1>2. \A c \in Boxes : box'[c].status = box[c].status
  BY DEF DropOffLink, TypeOK, Box, Answered
<1> QED
  BY <1>1, <1>2 DEF KeepsOwners

(* SensorEvent makes no new owner and changes no box's status. *)
LEMMA SensorEventKeepsOwners ==
  ASSUME TypeOK, DocumentsAgree, NEW b \in Boxes, SensorEvent(b)
  PROVE  KeepsOwners
<1>1. \A q \in Packages, c \in Boxes : Owns(q, c)' => Owns(q, c)
  BY DEF SensorEvent, TypeOK, Owns, Stored, StoredStatuses, Enqueue
<1>2. \A c \in Boxes : box'[c].status = box[c].status
  BY DEF SensorEvent
<1> QED
  BY <1>1, <1>2 DEF KeepsOwners

(* HandleExpiredDeposits makes no new owner and changes no box's status. *)
LEMMA HandleExpiredDepositsKeepsOwners ==
  ASSUME TypeOK, DocumentsAgree, NEW p \in Packages, HandleExpiredDeposits(p)
  PROVE  KeepsOwners
<1>1. \A q \in Packages, c \in Boxes : Owns(q, c)' => Owns(q, c)
  BY DEF HandleExpiredDeposits, TypeOK, Owns, Stored, StoredStatuses, Enqueue
<1>2. \A c \in Boxes : box'[c].status = box[c].status
  BY DEF HandleExpiredDeposits
<1> QED
  BY <1>1, <1>2 DEF KeepsOwners

(* StoreReading makes no new owner and changes no box's status. *)
LEMMA StoreReadingKeepsOwners ==
  ASSUME TypeOK, DocumentsAgree, NEW b \in Boxes, StoreReading(b)
  PROVE  KeepsOwners
<1>1. \A q \in Packages, c \in Boxes : Owns(q, c)' => Owns(q, c)
  BY DEF StoreReading, TypeOK, Owns, Stored, StoredStatuses, Task, Dequeue
<1>2. \A c \in Boxes : box'[c].status = box[c].status
  BY DEF StoreReading, TypeOK, Box, Dequeue
<1> QED
  BY <1>1, <1>2 DEF KeepsOwners

(* ReadLink makes no new owner and changes no box's status. *)
LEMMA ReadLinkKeepsOwners ==
  ASSUME TypeOK, DocumentsAgree, NEW b \in Boxes, ReadLink(b)
  PROVE  KeepsOwners
<1>1. \A q \in Packages, c \in Boxes : Owns(q, c)' => Owns(q, c)
  BY DEF ReadLink, TypeOK, Owns, Stored, StoredStatuses, Task, Idle
<1>2. \A c \in Boxes : box'[c].status = box[c].status
  BY DEF ReadLink
<1> QED
  BY <1>1, <1>2 DEF KeepsOwners

(* Decide makes no new owner and changes no box's status. *)
LEMMA DecideKeepsOwners ==
  ASSUME TypeOK, DocumentsAgree, NEW b \in Boxes, Decide(b)
  PROVE  KeepsOwners
<1>1. \A q \in Packages, c \in Boxes : Owns(q, c)' => Owns(q, c)
  BY DEF Decide, TypeOK, Owns, Stored, StoredStatuses, Task, Idle, DecideOnSensor
<1>2. \A c \in Boxes : box'[c].status = box[c].status
  BY DEF Decide
<1> QED
  BY <1>1, <1>2 DEF KeepsOwners

(* MarkDoorOpened makes no new owner and changes no box's status. *)
LEMMA MarkDoorOpenedKeepsOwners ==
  ASSUME TypeOK, DocumentsAgree, NEW b \in Boxes, MarkDoorOpened(b)
  PROVE  KeepsOwners
<1>1. \A q \in Packages, c \in Boxes : Owns(q, c)' => Owns(q, c)
  BY DEF MarkDoorOpened, TypeOK, Owns, Stored, StoredStatuses, Package, Task, Idle
<1>2. \A c \in Boxes : box'[c].status = box[c].status
  BY DEF MarkDoorOpened
<1> QED
  BY <1>1, <1>2 DEF KeepsOwners

(* StartExpiry makes no new owner and changes no box's status. *)
LEMMA StartExpiryKeepsOwners ==
  ASSUME TypeOK, DocumentsAgree, NEW b \in Boxes, StartExpiry(b)
  PROVE  KeepsOwners
<1>1. \A q \in Packages, c \in Boxes : Owns(q, c)' => Owns(q, c)
  BY DEF StartExpiry, TypeOK, Owns, Stored, StoredStatuses, Task, Dequeue, Idle
<1>2. \A c \in Boxes : box'[c].status = box[c].status
  BY SMTT(30) DEF StartExpiry
<1> QED
  BY <1>1, <1>2 DEF KeepsOwners

(* JudgeExpiry makes no new owner and changes no box's status. *)
LEMMA JudgeExpiryKeepsOwners ==
  ASSUME TypeOK, DocumentsAgree, NEW b \in Boxes, JudgeExpiry(b)
  PROVE  KeepsOwners
<1>1. \A q \in Packages, c \in Boxes : Owns(q, c)' => Owns(q, c)
  BY DEF JudgeExpiry, TypeOK, Owns, Stored, StoredStatuses, Task, Idle,
     DecideOnExpiry
<1>2. \A c \in Boxes : box'[c].status = box[c].status
  BY DEF JudgeExpiry
<1> QED
  BY <1>1, <1>2 DEF KeepsOwners

(* ConfirmBox makes no new owner and changes no box's status. *)
LEMMA ConfirmBoxKeepsOwners ==
  ASSUME TypeOK, DocumentsAgree, NEW b \in Boxes, ConfirmBox(b)
  PROVE  KeepsOwners
<1>1. \A q \in Packages, c \in Boxes : Owns(q, c)' => Owns(q, c)
  BY DEF ConfirmBox, TypeOK, Owns, Stored, StoredStatuses, Task, Idle
<1>2. \A c \in Boxes : box'[c].status = box[c].status
  BY DEF ConfirmBox, TypeOK, Box, Idle
<1> QED
  BY <1>1, <1>2 DEF KeepsOwners

(* PickupClaim makes no new owner and changes no box's status. *)
LEMMA PickupClaimKeepsOwners ==
  ASSUME TypeOK, DocumentsAgree, NEW p \in Packages, PickupClaim(p)
  PROVE  KeepsOwners
<1>1. \A q \in Packages, c \in Boxes : Owns(q, c)' => Owns(q, c)
  BY DEF PickupClaim, TypeOK, Owns, Stored, StoredStatuses, Package, Release,
     PickupableStatuses
<1>2. \A c \in Boxes : box'[c].status = box[c].status
  BY DEF PickupClaim
<1> QED
  BY <1>1, <1>2 DEF KeepsOwners

(* PickupFindBox makes no new owner and changes no box's status. *)
LEMMA PickupFindBoxKeepsOwners ==
  ASSUME TypeOK, DocumentsAgree, NEW p \in Packages, PickupFindBox(p)
  PROVE  KeepsOwners
<1>1. \A q \in Packages, c \in Boxes : Owns(q, c)' => Owns(q, c)
  BY DEF PickupFindBox, TypeOK, Owns, Stored, StoredStatuses, Release
<1>2. \A c \in Boxes : box'[c].status = box[c].status
  BY DEF PickupFindBox
<1> QED
  BY <1>1, <1>2 DEF KeepsOwners

(* ReturnClaim makes no new owner and changes no box's status. *)
LEMMA ReturnClaimKeepsOwners ==
  ASSUME TypeOK, DocumentsAgree, NEW p \in Packages, ReturnClaim(p)
  PROVE  KeepsOwners
<1>1. \A q \in Packages, c \in Boxes : Owns(q, c)' => Owns(q, c)
  BY DEF ReturnClaim, TypeOK, Owns, Stored, StoredStatuses, Package, Release,
     PickupableStatuses
<1>2. \A c \in Boxes : box'[c].status = box[c].status
  BY DEF ReturnClaim
<1> QED
  BY <1>1, <1>2 DEF KeepsOwners

(* MarkOverdue makes no new owner and changes no box's status. *)
LEMMA MarkOverdueKeepsOwners ==
  ASSUME TypeOK, DocumentsAgree, NEW p \in Packages, MarkOverdue(p)
  PROVE  KeepsOwners
<1>1. \A q \in Packages, c \in Boxes : Owns(q, c)' => Owns(q, c)
  BY DEF MarkOverdue, TypeOK, Owns, Stored, StoredStatuses, Package,
     PickupableStatuses
<1>2. \A c \in Boxes : box'[c].status = box[c].status
  BY DEF MarkOverdue
<1> QED
  BY <1>1, <1>2 DEF KeepsOwners

(* Tick makes no new owner and changes no box's status. *)
LEMMA TickKeepsOwners ==
  ASSUME TypeOK, DocumentsAgree, Tick
  PROVE  KeepsOwners
<1>1. \A q \in Packages, c \in Boxes : Owns(q, c)' => Owns(q, c)
  BY DEF Tick, TypeOK, Owns, Stored, StoredStatuses
<1>2. \A c \in Boxes : box'[c].status = box[c].status
  BY DEF Tick
<1> QED
  BY <1>1, <1>2 DEF KeepsOwners

(* DropOffThrows makes no new owner and changes no box's status. *)
LEMMA DropOffThrowsKeepsOwners ==
  ASSUME TypeOK, DocumentsAgree, NEW p \in Packages, DropOffThrows(p)
  PROVE  KeepsOwners
<1>1. \A q \in Packages, c \in Boxes : Owns(q, c)' => Owns(q, c)
  BY DEF DropOffThrows, TypeOK, Owns, Stored, StoredStatuses, DropOff, Answered
<1>2. \A c \in Boxes : box'[c].status = box[c].status
  BY DEF DropOffThrows
<1> QED
  BY <1>1, <1>2 DEF KeepsOwners

(* ReleaseThrows makes no new owner and changes no box's status. *)
LEMMA ReleaseThrowsKeepsOwners ==
  ASSUME TypeOK, DocumentsAgree, NEW p \in Packages, ReleaseThrows(p)
  PROVE  KeepsOwners
<1>1. \A q \in Packages, c \in Boxes : Owns(q, c)' => Owns(q, c)
  BY DEF ReleaseThrows, TypeOK, Owns, Stored, StoredStatuses, Release, NoRelease
<1>2. \A c \in Boxes : box'[c].status = box[c].status
  BY DEF ReleaseThrows
<1> QED
  BY <1>1, <1>2 DEF KeepsOwners

(* TaskThrows makes no new owner and changes no box's status. *)
LEMMA TaskThrowsKeepsOwners ==
  ASSUME TypeOK, DocumentsAgree, NEW b \in Boxes, TaskThrows(b)
  PROVE  KeepsOwners
<1>1. \A q \in Packages, c \in Boxes : Owns(q, c)' => Owns(q, c)
  BY DEF TaskThrows, TypeOK, Owns, Stored, StoredStatuses, Task, Idle
<1>2. \A c \in Boxes : box'[c].status = box[c].status
  BY DEF TaskThrows
<1> QED
  BY <1>1, <1>2 DEF KeepsOwners

(* ServerRestart makes no new owner and changes no box's status. *)
LEMMA ServerRestartKeepsOwners ==
  ASSUME TypeOK, DocumentsAgree, ServerRestart
  PROVE  KeepsOwners
<1>1. \A q \in Packages, c \in Boxes : Owns(q, c)' => Owns(q, c)
  BY DEF ServerRestart, TypeOK, Owns, Stored, StoredStatuses, DropOff, Release,
     Task, NotStarted, Answered, NoRelease, Idle
<1>2. \A c \in Boxes : box'[c].status = box[c].status
  BY DEF ServerRestart
<1> QED
  BY <1>1, <1>2 DEF KeepsOwners

(* ConfirmDeposit makes no new owner and changes no box. *)
LEMMA ConfirmDepositKeepsOwners ==
  ASSUME TypeOK, DocumentsAgree, NEW b \in Boxes, ConfirmDeposit(b)
  PROVE  KeepsOwners
<1>1. box' = box /\ drop' = drop /\ release' = release
  BY DEF ConfirmDeposit
<1>2. \A q \in Packages : /\ pkg'[q].box = pkg[q].box
                          /\ pkg'[q].status \in StoredStatuses => pkg[q].status \in StoredStatuses
  <2>1. \/ pkg' = pkg
        \/ /\ pkg[task[b].pkg].status = "PENDING_DEPOSIT"
           /\ pkg' = [pkg EXCEPT ![task[b].pkg].status = "WAITING_FOR_PICKUP"]
    BY DEF ConfirmDeposit
  <2>2. pkg \in [Packages -> Package]
    BY DEF TypeOK
  <2> QED
  BY <2>1, <2>2 DEF Package, StoredStatuses
<1>3. \A c \in Boxes : task'[c].pc = "cancelBox" => task'[c] = task[c]
  BY DEF ConfirmDeposit, TypeOK, Task, Idle
<1> QED
  BY <1>1, <1>2, <1>3 DEF KeepsOwners, Owns, Stored

(* CancelDeposit makes no new owner and changes no box. *)
LEMMA CancelDepositKeepsOwners ==
  ASSUME TypeOK, DocumentsAgree, NEW b \in Boxes, CancelDeposit(b)
  PROVE  KeepsOwners
<1>1. box' = box /\ drop' = drop /\ release' = release
  BY DEF CancelDeposit
<1>2. \A q \in Packages : /\ pkg'[q].box = pkg[q].box
                          /\ pkg'[q].status \in StoredStatuses => pkg[q].status \in StoredStatuses
  <2>1. \/ pkg' = pkg
        \/ pkg' = [pkg EXCEPT ![task[b].pkg].status = "DEPOSIT_CANCELLED"]
    BY DEF CancelDeposit
  <2>2. pkg \in [Packages -> Package]
    BY DEF TypeOK
  <2> QED
  BY <2>1, <2>2 DEF Package, StoredStatuses, PickupableStatuses
<1>3. \A c \in Boxes : task'[c].pc = "cancelBox" =>
        \/ task'[c] = task[c]
        \/ c = b /\ task'[c].pkg = task[b].pkg /\ pkg[task[b].pkg].status = "PENDING_DEPOSIT"
  BY DEF CancelDeposit, TypeOK, Task, Idle
<1>4. pkg[task[b].pkg].status = "PENDING_DEPOSIT" => Stored(task[b].pkg, b)
  BY DEF CancelDeposit, Stored, StoredStatuses, DocumentsAgree, TasksAgree, BelongsTo
<1> QED
  BY <1>1, <1>2, <1>3, <1>4 DEF KeepsOwners, Owns, Stored

(* When the only owner of box b gives it up, only an ownerless box changes. *)
LEMMA OneOwnerFreed ==
  ASSUME OneOwnerPerBox, NEW p \in Packages, NEW b \in Boxes, Owns(p, b), ~Owns(p, b)',
         \A q \in Packages, c \in Boxes : Owns(q, c)' => Owns(q, c),
         \A c \in Boxes : c # b => box'[c].status = box[c].status
  PROVE  KeepsOwners
  BY DEF KeepsOwners, OneOwnerPerBox

(* DropOffGiveBack frees a box only from its only owner. *)
LEMMA DropOffGiveBackKeepsOwners ==
  ASSUME IInv, NEW p \in Packages, DropOffGiveBack(p)
  PROVE  KeepsOwners
<1>1. pkg' = pkg /\ release' = release /\ task' = task
  BY DEF DropOffGiveBack
<1>2. drop[p].box \in Boxes /\ pkg[p].status = "NONE" /\ drop[p].pc = "failed"
  BY DEF DropOffGiveBack, IInv, DocumentsAgree, DropsAgree
<1> PICK b \in Boxes : b = drop[p].box
  BY <1>2
<1>3. drop'[p].pc = "over" /\ \A q \in Packages : q # p => drop'[q] = drop[q]
  BY DEF DropOffGiveBack, IInv, TypeOK, Answered
<1>4. Owns(p, b)
  BY <1>2 DEF Owns
<1>5. ~Owns(p, b)'
  <2>1. release[p].pc = "none"
    BY <1>2 DEF IInv, TypeOK, Release, DocumentsAgree, ReleasesAgree
  <2> QED
  BY <1>1, <1>2, <1>3, <2>1 DEF Owns, Stored, StoredStatuses, PickupableStatuses,
     IInv, DocumentsAgree, ReleasesAgree, TasksAgree
<1>6. \A q \in Packages, c \in Boxes : Owns(q, c)' => Owns(q, c)
  BY <1>1, <1>3 DEF Owns, Stored
<1>7. \A c \in Boxes : c # b => box'[c].status = box[c].status
  BY DEF DropOffGiveBack, IInv, TypeOK
<1> QED
  BY <1>2, <1>4, <1>5, <1>6, <1>7, OneOwnerFreed DEF IInv

(* PickupSaveBox frees a box only from its only owner. *)
LEMMA PickupSaveBoxKeepsOwners ==
  ASSUME IInv, NEW p \in Packages, PickupSaveBox(p)
  PROVE  KeepsOwners
<1>1. pkg' = pkg /\ drop' = drop /\ task' = task
  BY DEF PickupSaveBox
<1>2. pkg[p].box \in Boxes /\ pkg[p].status = "PICKED_UP" /\ release[p].pc = "save"
  BY DEF PickupSaveBox, IInv, DocumentsAgree, DropsAgree, ReleasesAgree
<1> PICK b \in Boxes : b = pkg[p].box
  BY <1>2
<1>3. release'[p].pc = "none" /\ \A q \in Packages : q # p => release'[q] = release[q]
  BY DEF PickupSaveBox, IInv, TypeOK, NoRelease
<1>4. Owns(p, b)
  BY <1>2 DEF Owns
<1>5. ~Owns(p, b)'
  BY <1>1, <1>2, <1>3 DEF Owns, Stored, StoredStatuses, PickupableStatuses, IInv,
     DocumentsAgree, DropsAgree, TasksAgree
<1>6. \A q \in Packages, c \in Boxes : Owns(q, c)' => Owns(q, c)
  BY <1>1, <1>3 DEF Owns, Stored
<1>7. \A c \in Boxes : c # b => box'[c].status = box[c].status
  BY DEF PickupSaveBox, IInv, TypeOK
<1> QED
  BY <1>2, <1>4, <1>5, <1>6, <1>7, OneOwnerFreed DEF IInv

(* ReturnBox frees a box only from its only owner. *)
LEMMA ReturnBoxKeepsOwners ==
  ASSUME IInv, NEW p \in Packages, ReturnBox(p)
  PROVE  KeepsOwners
<1>1. pkg' = pkg /\ drop' = drop /\ task' = task
  BY DEF ReturnBox
<1>2. pkg[p].box \in Boxes /\ pkg[p].status = "RETURNED" /\ release[p].pc = "return"
  BY DEF ReturnBox, IInv, DocumentsAgree, DropsAgree, ReleasesAgree
<1> PICK b \in Boxes : b = pkg[p].box
  BY <1>2
<1>3. release'[p].pc = "none" /\ \A q \in Packages : q # p => release'[q] = release[q]
  BY DEF ReturnBox, IInv, TypeOK, NoRelease
<1>4. Owns(p, b)
  BY <1>2 DEF Owns
<1>5. ~Owns(p, b)'
  BY <1>1, <1>2, <1>3 DEF Owns, Stored, StoredStatuses, PickupableStatuses, IInv,
     DocumentsAgree, DropsAgree, TasksAgree
<1>6. \A q \in Packages, c \in Boxes : Owns(q, c)' => Owns(q, c)
  BY <1>1, <1>3 DEF Owns, Stored
<1>7. \A c \in Boxes : c # b => box'[c].status = box[c].status
  BY DEF ReturnBox, FreeIfLinked, IInv, TypeOK
<1> QED
  BY <1>2, <1>4, <1>5, <1>6, <1>7, OneOwnerFreed DEF IInv

(* CancelBox frees a box only from its only owner. *)
LEMMA CancelBoxKeepsOwners ==
  ASSUME IInv, NEW b \in Boxes, CancelBox(b)
  PROVE  KeepsOwners
<1>1. pkg' = pkg /\ drop' = drop /\ release' = release
  BY DEF CancelBox
<1>0. task[b].pkg \in Packages
  BY DEF CancelBox, IInv, DocumentsAgree, TasksAgree, BelongsTo
<1> PICK p \in Packages : p = task[b].pkg
  BY <1>0
<1>2. /\ pkg[p].box = b /\ pkg[p].status = "DEPOSIT_CANCELLED"
      /\ task[b].pc = "cancelBox"
  BY DEF CancelBox, IInv, DocumentsAgree, TasksAgree, BelongsTo
<1>3. task'[b].pc = "idle" /\ \A c \in Boxes : c # b => task'[c] = task[c]
  BY DEF CancelBox, IInv, TypeOK, Idle
<1>4. Owns(p, b)
  BY <1>2 DEF Owns
<1>5. ~Owns(p, b)'
  <2>1. release[p].pc = "none"
    BY <1>2 DEF IInv, TypeOK, Release, DocumentsAgree, ReleasesAgree
  <2> QED
  BY <1>1, <1>2, <1>3, <2>1 DEF Owns, Stored, StoredStatuses, PickupableStatuses,
     IInv, DocumentsAgree, DropsAgree, ReleasesAgree
<1>6. \A q \in Packages, c \in Boxes : Owns(q, c)' => Owns(q, c)
  BY <1>1, <1>3 DEF Owns, Stored
<1>7. \A c \in Boxes : c # b => box'[c].status = box[c].status
  BY <1>2 DEF CancelBox, FreeIfLinked, IInv, TypeOK
<1> QED
  BY <1>2, <1>4, <1>5, <1>6, <1>7, OneOwnerFreed DEF IInv

(* UpdateBoxStatus changes only a box that nobody owns. *)
LEMMA UpdateBoxStatusKeepsOwners ==
  ASSUME IInv, NEW b \in Boxes, UpdateBoxStatus(b)
  PROVE  KeepsOwners
<1>1. pkg' = pkg /\ drop' = drop /\ release' = release /\ task' = task
  BY DEF UpdateBoxStatus
<1>2. \A q \in Packages, c \in Boxes : Owns(q, c)' <=> Owns(q, c)
  BY <1>1 DEF Owns, Stored
<1>3. ~\E q \in Packages : Owns(q, b)
  BY DEF UpdateBoxStatus, IInv, OwnedBoxIsOccupied
<1>4. \A c \in Boxes : c # b => box'[c].status = box[c].status
  BY DEF UpdateBoxStatus, IInv, TypeOK
<1> QED
  BY <1>2, <1>3, <1>4 DEF KeepsOwners

(* No new owner and no change to an owned box keep ownership exclusive. *)
LEMMA KeepsOwnersSuffices ==
  ASSUME IInv, KeepsOwners PROVE OneOwnerPerBox' /\ OwnedBoxIsOccupied'
  BY DEF IInv, KeepsOwners, OneOwnerPerBox, OwnedBoxIsOccupied

(* DropOffClaim makes one new owner, of a box that had none. *)
LEMMA DropOffClaimOwns ==
  ASSUME IInv, NEW p \in Packages, DropOffClaim(p)
  PROVE  OneOwnerPerBox' /\ OwnedBoxIsOccupied'
<1> DEFINE b == drop[p].box
<1>1. pkg' = pkg /\ release' = release /\ task' = task
  BY DEF DropOffClaim
<1>2. CASE /\ box[b].status = "AVAILABLE"
           /\ box' = [box EXCEPT ![b].status = "OCCUPIED", ![b].item = FALSE]
           /\ drop' = [drop EXCEPT ![p].pc = "claimed"]
  <2>1. b \in Boxes
    BY DEF DropOffClaim, IInv, DocumentsAgree, DropsAgree
  <2>2. \A q \in Packages : ~Owns(q, b)
    BY <1>2, <2>1 DEF IInv, OwnedBoxIsOccupied
  <2>3. /\ drop'[p].box = b
        /\ \A q \in Packages : q # p => drop'[q] = drop[q]
    BY <1>2 DEF IInv, TypeOK, DropOff
  <2>4. \A q \in Packages, c \in Boxes : Owns(q, c)' => Owns(q, c) \/ (q = p /\ c = b)
    BY <1>1, <2>3 DEF Owns, Stored
  <2>5. \A c \in Boxes : box'[c].status = IF c = b THEN "OCCUPIED" ELSE box[c].status
    <3>1. box \in [Boxes -> Box]
      BY DEF IInv, TypeOK
    <3> QED
    BY <1>2, <2>1, <3>1 DEF Box
  <2> QED
    BY <2>1, <2>2, <2>4, <2>5 DEF IInv, OneOwnerPerBox, OwnedBoxIsOccupied
<1>3. CASE box' = box /\ drop' = [drop EXCEPT ![p] = Answered]
  <2>1. drop'[p].pc = "over" /\ \A q \in Packages : q # p => drop'[q] = drop[q]
    BY <1>3 DEF IInv, TypeOK, Answered
  <2>2. KeepsOwners
    BY <1>1, <1>3, <2>1 DEF KeepsOwners, Owns, Stored
  <2> QED
    BY <2>2, KeepsOwnersSuffices
<1> QED
    BY <1>2, <1>3 DEF DropOffClaim

(* One step keeps a box to one owner, and an owned box occupied.             *)
LEMMA OwnerStep ==
  ASSUME IInv, [Next]_vars PROVE OneOwnerPerBox' /\ OwnedBoxIsOccupied'
<1>0. TypeOK /\ DocumentsAgree
  BY DEF IInv
<1>1. ASSUME NEW p \in Packages, PackageStep(p) PROVE OneOwnerPerBox' /\ OwnedBoxIsOccupied'
  <2>1. ASSUME NEW b \in Boxes, DropOffCheck(p, b) PROVE OneOwnerPerBox' /\ OwnedBoxIsOccupied'
    BY <2>1, KeepsOwnersSuffices, <1>0, DropOffCheckKeepsOwners
  <2>2. CASE DropOffStep(p)
    BY <2>2, KeepsOwnersSuffices, <1>0, DropOffClaimOwns,
       DropOffCreateKeepsOwners, DropOffCreateFailsKeepsOwners,
       DropOffGiveBackKeepsOwners, DropOffLinkKeepsOwners DEF DropOffStep
  <2>3. CASE HandleExpiredDeposits(p)
    BY <2>3, KeepsOwnersSuffices, <1>0, HandleExpiredDepositsKeepsOwners
  <2>4. CASE PickupClaim(p) \/ ReturnClaim(p) \/ MarkOverdue(p)
    BY <2>4, KeepsOwnersSuffices, <1>0, PickupClaimKeepsOwners,
       ReturnClaimKeepsOwners, MarkOverdueKeepsOwners
  <2>5. CASE ReleaseStep(p)
    BY <2>5, KeepsOwnersSuffices, <1>0, PickupFindBoxKeepsOwners,
       PickupSaveBoxKeepsOwners, ReturnBoxKeepsOwners DEF ReleaseStep
  <2>6. CASE DropOffThrows(p) \/ ReleaseThrows(p)
    BY <2>6, KeepsOwnersSuffices, <1>0, DropOffThrowsKeepsOwners,
       ReleaseThrowsKeepsOwners
  <2> QED
    BY <1>1, <2>1, <2>2, <2>3, <2>4, <2>5, <2>6 DEF PackageStep
<1>2. ASSUME NEW b \in Boxes, BoxStep(b) PROVE OneOwnerPerBox' /\ OwnedBoxIsOccupied'
  <2>1. CASE TaskStep(b)
    BY <2>1, KeepsOwnersSuffices, <1>0, StoreReadingKeepsOwners,
       ReadLinkKeepsOwners, DecideKeepsOwners, MarkDoorOpenedKeepsOwners,
       StartExpiryKeepsOwners, JudgeExpiryKeepsOwners, ConfirmDepositKeepsOwners,
       ConfirmBoxKeepsOwners, CancelDepositKeepsOwners, CancelBoxKeepsOwners DEF TaskStep
  <2> QED
    BY <1>2, <2>1, KeepsOwnersSuffices, <1>0, SensorEventKeepsOwners,
       UpdateBoxStatusKeepsOwners, TaskThrowsKeepsOwners DEF BoxStep
<1>3. CASE Tick \/ ServerRestart
  BY <1>3, KeepsOwnersSuffices, <1>0, TickKeepsOwners, ServerRestartKeepsOwners
<1>4. CASE UNCHANGED vars
  BY <1>4 DEF vars, IInv, OneOwnerPerBox, OwnedBoxIsOccupied, Owns, Stored
<1> QED
  BY <1>1, <1>2, <1>3, <1>4 DEF Next
----------------------------------------------------------------------------
(* Theorems                                                                 *)

(* The initial documents, queues and requests satisfy the invariant.        *)
LEMMA InvInit == Init => IInv
<1> SUFFICES ASSUME Init PROVE IInv
  OBVIOUS
<1>1. TypeOK
  BY TypeInit
<1>2. DropsAgree /\ LinksAgree /\ ReleasesAgree
  BY DEF Init, DropsAgree, LinksAgree, ReleasesAgree, NotStarted, NoRelease
<1>3. QueuesAgree /\ TasksAgree
  BY DEF Init, QueuesAgree, TasksAgree, Idle
<1>4. \A p \in Packages, b \in Boxes : ~Owns(p, b)
  BY DEF Init, Owns, Stored, StoredStatuses, PickupableStatuses, NotStarted,
     NoRelease, Idle
<1> QED
  BY <1>1, <1>2, <1>3, <1>4 DEF IInv, DocumentsAgree, OneOwnerPerBox, OwnedBoxIsOccupied

(* IInv is inductive: every handler, fault and restart keeps it.             *)
LEMMA InvStep == IInv /\ [Next]_vars => IInv'
<1> SUFFICES ASSUME IInv, [Next]_vars PROVE IInv'
  OBVIOUS
<1>1. \A p \in Packages : PickupFindBox(p) => pkg[p].box \in Boxes
  BY DEF PickupFindBox, IInv, DocumentsAgree, ReleasesAgree, DropsAgree
<1> QED
  BY <1>1, TypeStep, AgreeStep, OwnerStep DEF IInv

(* The inductive invariant holds for any boxes, packages, clock constants,   *)
(* queue bounds and number of faults.                                        *)
THEOREM Invariance == Spec => []IInv
  BY InvInit, InvStep, PTL DEF Spec

(* Every variable keeps its type: no handler writes a status, a link, a job  *)
(* or a request record that the schemas do not know.                         *)
THEOREM TypeCorrect == Spec => []TypeOK
<1>1. IInv => TypeOK
  BY DEF IInv
<1> QED
  BY <1>1, Invariance, PTL

(* currentPackageId, waiting jobs, running tasks and requests in flight      *)
(* never concern a package of another box or one that does not exist.        *)
THEOREM Agreement == Spec => []DocumentsAgree
<1>1. IInv => DocumentsAgree
  BY DEF IInv
<1> QED
  BY <1>1, Invariance, PTL

(* No box ever holds two packages.                                           *)
THEOREM NoSharedBox == Spec => []OneStoredPerBox
<1>1. IInv => OneStoredPerBox
  BY DEF IInv, OneOwnerPerBox, OneStoredPerBox, Owns
<1> QED
  BY <1>1, Invariance, PTL

(* A box that holds a package, or that a request still has to free, stays    *)
(* OCCUPIED: no drop-off can claim it and no admin can change it.            *)
THEOREM OwnedStaysOccupied == Spec => []OwnedBoxIsOccupied
<1>1. IInv => OwnedBoxIsOccupied
  BY DEF IInv
<1> QED
  BY <1>1, Invariance, PTL

(* The steps of a drop-off write the box, the package and their request.    *)
LEMMA DropOffFrame ==
  ASSUME NEW p \in Packages, DropOffStep(p)
  PROVE  /\ now' = now /\ release' = release /\ queue' = queue /\ task' = task
         /\ pkg' = pkg \/ DropOffCreate(p)
<1>1. CASE DropOffClaim(p)
  BY <1>1 DEF DropOffClaim
<1>2. CASE DropOffCreate(p)
  BY <1>2 DEF DropOffCreate
<1>3. CASE DropOffCreateFails(p)
  BY <1>3 DEF DropOffCreateFails
<1>4. CASE DropOffGiveBack(p)
  BY <1>4 DEF DropOffGiveBack
<1>5. CASE DropOffLink(p)
  BY <1>5 DEF DropOffLink
<1> QED
  BY <1>1, <1>2, <1>3, <1>4, <1>5 DEF DropOffStep

(* What a drop-off writes to its box.                                       *)
LEMMA DropOffBox ==
  ASSUME NEW p \in Packages, DropOffStep(p), NEW d, d = drop[p].box
  PROVE  \/ box' = box
         \/ /\ DropOffClaim(p) /\ box[d].status = "AVAILABLE"
            /\ box' = [box EXCEPT ![d].status = "OCCUPIED", ![d].item = FALSE]
         \/ box' = [box EXCEPT ![d].status = "AVAILABLE", ![d].item = FALSE]
         \/ DropOffLink(p) /\ box' = [box EXCEPT ![d].link = p]
<1>1. DropOffClaim(p) =>
        \/ box' = box
        \/ /\ box[d].status = "AVAILABLE"
           /\ box' = [box EXCEPT ![d].status = "OCCUPIED", ![d].item = FALSE]
  BY DEF DropOffClaim
<1>2. DropOffCreate(p) \/ DropOffCreateFails(p) => box' = box
  BY DEF DropOffCreate, DropOffCreateFails
<1>3. DropOffGiveBack(p) => box' = [box EXCEPT ![d].status = "AVAILABLE", ![d].item = FALSE]
  BY DEF DropOffGiveBack
<1>4. DropOffLink(p) => box' = [box EXCEPT ![d].link = p]
  BY DEF DropOffLink
<1> QED
  BY <1>1, <1>2, <1>3, <1>4 DEF DropOffStep

(* The release of a box writes the box and its request.                     *)
LEMMA ReleaseFrame ==
  ASSUME NEW p \in Packages, ReleaseStep(p)
  PROVE  now' = now /\ pkg' = pkg /\ drop' = drop /\ queue' = queue /\ task' = task
<1>1. CASE PickupFindBox(p)
  BY <1>1 DEF PickupFindBox
<1>2. CASE PickupSaveBox(p)
  BY <1>2 DEF PickupSaveBox
<1>3. CASE ReturnBox(p)
  BY <1>3 DEF ReturnBox
<1> QED
  BY <1>1, <1>2, <1>3 DEF ReleaseStep

(* A job of a box writes no request, and no other box's job.                *)
LEMMA TaskFrame ==
  ASSUME task \in [Boxes -> Task], NEW b \in Boxes, TaskStep(b)
  PROVE  /\ now' = now /\ drop' = drop /\ release' = release
         /\ \A c \in Boxes : c # b => task'[c] = task[c]
<1>1. CASE StoreReading(b)
  BY <1>1 DEF StoreReading
<1>2. CASE ReadLink(b)
  BY <1>2 DEF ReadLink
<1>3. CASE Decide(b)
  BY <1>3 DEF Decide
<1>4. CASE MarkDoorOpened(b)
  BY <1>4 DEF MarkDoorOpened
<1>5. CASE StartExpiry(b)
  BY <1>5 DEF StartExpiry
<1>6. CASE JudgeExpiry(b)
  BY <1>6 DEF JudgeExpiry
<1>7. CASE ConfirmDeposit(b)
  BY <1>7 DEF ConfirmDeposit
<1>8. CASE ConfirmBox(b)
  BY <1>8 DEF ConfirmBox
<1>9. CASE CancelDeposit(b)
  BY <1>9 DEF CancelDeposit
<1>10. CASE CancelBox(b)
  BY <1>10 DEF CancelBox
<1> QED
  BY <1>1, <1>2, <1>3, <1>4, <1>5, <1>6, <1>7, <1>8, <1>9, <1>10 DEF TaskStep

(* Requests leave the jobs alone, and only the cron adds to their queues.   *)
LEMMA PackageFrame ==
  ASSUME NEW p \in Packages, PackageStep(p)
  PROVE  /\ now' = now /\ task' = task
         /\ queue' = queue \/ HandleExpiredDeposits(p)
         /\ pkg' = pkg \/ DropOffCreate(p) \/ PickupClaim(p) \/ ReturnClaim(p) \/ MarkOverdue(p)
<1>1. ASSUME NEW b \in Boxes, DropOffCheck(p, b)
      PROVE  now' = now /\ task' = task /\ queue' = queue /\ pkg' = pkg
  BY <1>1 DEF DropOffCheck
<1>2. CASE HandleExpiredDeposits(p)
  BY <1>2 DEF HandleExpiredDeposits
<1>3. CASE PickupClaim(p)
  BY <1>3 DEF PickupClaim
<1>4. CASE ReturnClaim(p)
  BY <1>4 DEF ReturnClaim
<1>5. CASE MarkOverdue(p)
  BY <1>5 DEF MarkOverdue
<1>6. CASE DropOffThrows(p)
  BY <1>6 DEF DropOffThrows
<1>7. CASE ReleaseThrows(p)
  BY <1>7 DEF ReleaseThrows
<1> QED
  BY <1>1, <1>2, <1>3, <1>4, <1>5, <1>6, <1>7, DropOffFrame, ReleaseFrame DEF PackageStep

(* Only these actions write the packages collection.                        *)
LEMMA PackageWriters ==
  ASSUME [Next]_vars, pkg' # pkg
  PROVE  \/ \E p \in Packages : \/ DropOffCreate(p) \/ PickupClaim(p)
                                \/ ReturnClaim(p) \/ MarkOverdue(p)
         \/ \E b \in Boxes : MarkDoorOpened(b) \/ ConfirmDeposit(b) \/ CancelDeposit(b)
<1>1. ASSUME NEW p \in Packages, PackageStep(p)
      PROVE  DropOffCreate(p) \/ PickupClaim(p) \/ ReturnClaim(p) \/ MarkOverdue(p)
  BY <1>1, PackageFrame
<1>2. ASSUME NEW b \in Boxes, BoxStep(b)
      PROVE  MarkDoorOpened(b) \/ ConfirmDeposit(b) \/ CancelDeposit(b)
  BY <1>2 DEF BoxStep, SensorEvent, TaskStep, StoreReading, ReadLink, Decide, StartExpiry,
     JudgeExpiry, ConfirmBox, CancelBox, UpdateBoxStatus, TaskThrows
<1>3. ~Tick /\ ~ServerRestart /\ ~UNCHANGED vars
  BY DEF Tick, ServerRestart, vars
<1> QED
  BY SMTT(30), <1>1, <1>2, <1>3 DEF Next

----------------------------------------------------------------------------
(* The stay and the payments                                                *)

(* The deposit was confirmed: the package was, or still is, in storage.     *)
ConfirmedStatuses == {"WAITING_FOR_PICKUP", "OVERDUE", "PICKED_UP", "RETURNED"}

(* What a step of the stay's handlers does to a package: it stays in its    *)
(* box once it is created, only its own drop-off creates it, a confirmed    *)
(* deposit stays confirmed, and a stay that has ended keeps its status.     *)
LEMMA PackageStays ==
  ASSUME TypeOK, DropsAgree, [Next]_vars, NEW p \in Packages
  PROVE  /\ pkg[p].status # "NONE" => pkg'[p].status # "NONE" /\ pkg'[p].box = pkg[p].box
         /\ pkg[p].status = "NONE" => pkg'[p].status = "NONE" \/ DropOffCreate(p)
         /\ pkg[p].status \in ConfirmedStatuses => pkg'[p].status \in ConfirmedStatuses
         /\ pkg[p].status \in EndedStatuses => pkg'[p].status = pkg[p].status
<1>1. pkg \in [Packages -> Package]
  BY DEF TypeOK
<1>2. CASE pkg' = pkg
  BY <1>2
<1>3. ASSUME NEW q \in Packages, DropOffCreate(q)
      PROVE  pkg'[p] = pkg[p] \/ (q = p /\ pkg[p].status = "NONE")
  BY <1>1, <1>3 DEF DropOffCreate, DropsAgree
<1>4. ASSUME NEW q \in Packages, PickupClaim(q) \/ ReturnClaim(q) \/ MarkOverdue(q)
      PROVE  \/ pkg'[p] = pkg[p]
             \/ /\ pkg[p].status \in PickupableStatuses
                /\ pkg'[p].status \in {"PICKED_UP", "RETURNED", "OVERDUE"}
                /\ pkg'[p].box = pkg[p].box
  BY <1>1, <1>4 DEF PickupClaim, ReturnClaim, MarkOverdue, PickupableStatuses, Package
<1>5. ASSUME NEW b \in Boxes, MarkDoorOpened(b)
      PROVE  pkg'[p].status = pkg[p].status /\ pkg'[p].box = pkg[p].box
  BY <1>1, <1>5 DEF MarkDoorOpened, Package
<1>6. ASSUME NEW b \in Boxes, ConfirmDeposit(b) \/ CancelDeposit(b)
      PROVE  \/ pkg'[p] = pkg[p]
             \/ /\ pkg[p].status = "PENDING_DEPOSIT"
                /\ pkg'[p].status \in {"WAITING_FOR_PICKUP", "DEPOSIT_CANCELLED"}
                /\ pkg'[p].box = pkg[p].box
  <2>1. PICK s \in {"WAITING_FOR_PICKUP", "DEPOSIT_CANCELLED"} :
           pkg' = pkg \/ (/\ pkg[task[b].pkg].status = "PENDING_DEPOSIT"
                          /\ pkg' = [pkg EXCEPT ![task[b].pkg].status = s])
    BY <1>6 DEF ConfirmDeposit, CancelDeposit
  <2> QED
    BY <1>1, <2>1 DEF Package
<1> QED
  BY <1>2, <1>3, <1>4, <1>5, <1>6, PackageWriters DEF EndedStatuses, PickupableStatuses,
     ConfirmedStatuses

(* What a step of the stay's handlers does to a drop-off.                   *)
LEMMA DropOffStays ==
  ASSUME TypeOK, [Next]_vars, NEW p \in Packages
  PROVE  \/ drop'[p] = drop[p] \/ drop'[p].pc = "over"
         \/ drop'[p].pc = "idle" /\ drop[p].pc = "idle"
         \/ /\ drop[p].pc = "idle" /\ drop'[p].pc = "checked" /\ drop'[p].box \in Boxes
            /\ pkg' = pkg
         \/ /\ drop[p].pc \in {"checked", "claimed"} /\ drop'[p].pc \in {"claimed", "failed"}
            /\ drop'[p].box = drop[p].box /\ pkg' = pkg
         \/ DropOffCreate(p)
<1>0. drop \in [Packages -> DropOff]
  BY DEF TypeOK
<1>1. ASSUME NEW q \in Packages, NEW b \in Boxes, DropOffCheck(q, b)
      PROVE  \/ drop'[p] = drop[p]
             \/ drop[p].pc = "idle" /\ drop'[p].pc = "checked" /\ drop'[p].box \in Boxes
  BY <1>0, <1>1 DEF DropOffCheck
<1>2. ASSUME NEW q \in Packages, DropOffStep(q), q # p PROVE drop'[p] = drop[p]
  BY <1>0, <1>2 DEF DropOffStep, DropOffClaim, DropOffCreate, DropOffCreateFails,
     DropOffGiveBack, DropOffLink
<1>3. ASSUME DropOffClaim(p) \/ DropOffCreateFails(p)
      PROVE  \/ drop'[p].pc = "over"
             \/ /\ drop[p].pc \in {"checked", "claimed"} /\ drop'[p].pc \in {"claimed", "failed"}
                /\ drop'[p].box = drop[p].box
  BY <1>0, <1>3 DEF DropOffClaim, DropOffCreateFails, DropOff, Answered
<1>4. DropOffGiveBack(p) \/ DropOffLink(p) => drop'[p].pc = "over"
  BY <1>0 DEF DropOffGiveBack, DropOffLink, Answered
<1>5. ASSUME NEW q \in Packages, PackageStep(q)
      PROVE  \/ drop' = drop \/ DropOffStep(q) \/ DropOffThrows(q)
             \/ \E b \in Boxes : DropOffCheck(q, b)
  BY <1>5, ReleaseFrame DEF PackageStep, HandleExpiredDeposits, PickupClaim, ReturnClaim,
     MarkOverdue, ReleaseThrows
<1>6. ASSUME NEW q \in Packages, DropOffThrows(q)
      PROVE  drop'[p] = drop[p] \/ drop'[p].pc = "over"
  BY <1>0, <1>6 DEF DropOffThrows, Answered
<1>7. ASSUME NEW b \in Boxes, BoxStep(b) PROVE drop' = drop
  BY <1>7, TaskFrame DEF BoxStep, SensorEvent, UpdateBoxStatus, TaskThrows, TypeOK
<1>8. ServerRestart => drop'[p].pc \in {"over", "idle"} /\ (drop'[p].pc = "idle" => drop[p].pc = "idle")
  BY DEF ServerRestart, NotStarted, Answered
<1>9. Tick \/ UNCHANGED vars => drop' = drop
  BY DEF Tick, vars
<1>10. ASSUME NEW q \in Packages, DropOffStep(q)
       PROVE  \/ q # p \/ DropOffCreate(p)
              \/ (DropOffClaim(p) \/ DropOffCreateFails(p)) /\ pkg' = pkg
              \/ DropOffGiveBack(p) \/ DropOffLink(p)
  BY <1>10 DEF DropOffStep, DropOffClaim, DropOffCreateFails
<1>11. ASSUME NEW q \in Packages, NEW b \in Boxes, DropOffCheck(q, b) PROVE pkg' = pkg
  BY <1>11 DEF DropOffCheck
<1>12. CASE \E q \in Packages : PackageStep(q)
  BY <1>1, <1>2, <1>3, <1>4, <1>5, <1>6, <1>10, <1>11, <1>12
<1> QED
  BY <1>7, <1>8, <1>9, <1>12 DEF Next

(* Only a pickup, a return and their continuation start to free a box.      *)
LEMMA ReleaseWriters ==
  ASSUME TypeOK, [Next]_vars, NEW p \in Packages, release'[p].pc # "none"
  PROVE  \/ release[p].pc # "none"
         \/ pkg[p].status \in PickupableStatuses
<1>0. release \in [Packages -> Release]
  BY DEF TypeOK
<1>1. ASSUME NEW q \in Packages, PickupClaim(q) \/ ReturnClaim(q)
      PROVE  release'[p] = release[p] \/ pkg[p].status \in PickupableStatuses
  BY <1>0, <1>1 DEF PickupClaim, ReturnClaim
<1>2. ASSUME NEW q \in Packages, PickupFindBox(q)
      PROVE  release'[p] = release[p] \/ release[p].pc # "none"
  BY <1>0, <1>2 DEF PickupFindBox
<1>3. ASSUME NEW q \in Packages, PickupSaveBox(q) \/ ReturnBox(q) \/ ReleaseThrows(q)
      PROVE  release'[p] = release[p] \/ release'[p] = NoRelease
  BY <1>0, <1>3 DEF PickupSaveBox, ReturnBox, ReleaseThrows
<1>4. ASSUME NEW q \in Packages, PackageStep(q), ~PickupClaim(q), ~ReturnClaim(q),
             ~ReleaseStep(q), ~ReleaseThrows(q)
      PROVE  release' = release
  BY <1>4, DropOffFrame DEF PackageStep, DropOffCheck, HandleExpiredDeposits, MarkOverdue,
     DropOffThrows
<1>5. ASSUME NEW q \in Packages, PackageStep(q)
      PROVE  \/ release'[p] = release[p] \/ release[p].pc # "none"
             \/ pkg[p].status \in PickupableStatuses \/ release'[p] = NoRelease
  BY <1>1, <1>2, <1>3, <1>4, <1>5 DEF ReleaseStep
<1>6. ASSUME NEW b \in Boxes, BoxStep(b) PROVE release' = release
  BY <1>6, TaskFrame DEF BoxStep, SensorEvent, UpdateBoxStatus, TaskThrows, TypeOK
<1>7. ServerRestart => release'[p] = NoRelease
  BY DEF ServerRestart
<1>8. Tick \/ UNCHANGED vars => release' = release
  BY DEF Tick, vars
<1> QED
  BY <1>5, <1>6, <1>7, <1>8 DEF Next, NoRelease

(* A request that frees a box concerns a created package, and a completion  *)
(* extends one whose deposit was confirmed.                                 *)
ReleasesKnown == \A p \in Packages : release[p].pc # "none" => pkg[p].status # "NONE"

ExtensionsKnown ==
    \A e \in Completions : extension[e] # NoPkg =>
      pkg[extension[e]].status \in ConfirmedStatuses

StayInv == StayTypeOK /\ DropsAgree /\ ReleasesKnown /\ ExtensionsKnown

(* The initial documents and calls satisfy it.                              *)
LEMMA StayInvInit == StayInit => StayInv
<1> SUFFICES ASSUME StayInit PROVE StayInv
  OBVIOUS
<1>1. TypeOK
  BY TypeInit DEF StayInit
<1>2. DropsAgree /\ ReleasesKnown
  BY DEF StayInit, Init, DropsAgree, ReleasesKnown, NotStarted, NoRelease
<1>3. ExtensionsKnown /\ extension \in [Completions -> Packages \cup {NoPkg}]
  BY DEF StayInit, ExtensionsKnown
<1> QED
  BY <1>1, <1>2, <1>3 DEF StayInv, StayTypeOK

(* A step of the stay's own handlers keeps it.                              *)
LEMMA StayInvHandler ==
  ASSUME StayInv, [Next]_vars, UNCHANGED extension PROVE StayInv'
<1>0. TypeOK /\ DropsAgree /\ extension \in [Completions -> Packages \cup {NoPkg}]
  BY DEF StayInv, StayTypeOK
<1>1. \A p \in Packages : PickupFindBox(p) => pkg[p].box \in Boxes
  BY DEF PickupFindBox, StayInv, ReleasesKnown, DropsAgree
<1>2. TypeOK'
  BY <1>0, <1>1, TypeStep
<1>3. ASSUME NEW p \in Packages, DropOffCreate(p)
      PROVE  /\ drop'[p].pc = "created" /\ drop'[p].box \in Boxes
             /\ pkg'[p].status # "NONE" /\ pkg'[p].box = drop'[p].box
  <2>1. drop \in [Packages -> DropOff] /\ pkg \in [Packages -> Package]
    BY <1>0 DEF TypeOK
  <2>2. drop[p].box \in Boxes
    BY <1>0, <1>3 DEF DropsAgree, DropOffCreate
  <2> QED
    BY <1>3, <2>1, <2>2 DEF DropOffCreate, DropOff
<1>4. DropsAgree'
  <2> SUFFICES ASSUME NEW p \in Packages, ~DropOffCreate(p)
               PROVE
      /\ drop'[p].pc \in {"checked", "claimed", "created", "failed"} => drop'[p].box \in Boxes
      /\ drop'[p].pc \in {"idle", "checked", "claimed", "failed"} => pkg'[p].status = "NONE"
      /\ drop'[p].pc = "created" => pkg'[p].status # "NONE" /\ pkg'[p].box = drop'[p].box
      /\ pkg'[p].status # "NONE" => pkg'[p].box \in Boxes
    BY <1>3 DEF DropsAgree
  <2>1. /\ pkg[p].status # "NONE" => pkg'[p].status # "NONE" /\ pkg'[p].box = pkg[p].box
        /\ pkg[p].status = "NONE" => pkg'[p].status = "NONE"
    BY <1>0, PackageStays
  <2>2. \/ drop'[p] = drop[p] \/ drop'[p].pc = "over"
        \/ drop'[p].pc = "idle" /\ drop[p].pc = "idle"
        \/ drop[p].pc = "idle" /\ drop'[p].pc = "checked" /\ drop'[p].box \in Boxes
        \/ /\ drop[p].pc \in {"checked", "claimed"} /\ drop'[p].pc \in {"claimed", "failed"}
           /\ drop'[p].box = drop[p].box
    BY <1>0, DropOffStays
  <2> QED
    BY <1>0, <2>1, <2>2 DEF DropsAgree
<1>5. ReleasesKnown'
  BY <1>0, PackageStays, ReleaseWriters DEF ReleasesKnown, StayInv, PickupableStatuses
<1>6. ExtensionsKnown'
  BY <1>0, PackageStays, NullAssumption DEF ExtensionsKnown, StayInv
<1> QED
  BY <1>0, <1>2, <1>4, <1>5, <1>6 DEF StayInv, StayTypeOK

(* A step of a completion keeps it, and writes the status of a package only *)
(* to make it wait again.                                                   *)
LEMMA StayInvCompletion ==
  ASSUME StayInv, NEW e \in Completions, Completion(e)
  PROVE  /\ StayInv'
         /\ \A p \in Packages :
              \/ pkg'[p].status = pkg[p].status
              \/ /\ pkg[p].status # "PICKED_UP" /\ pkg'[p].status = "WAITING_FOR_PICKUP"
                 /\ extension[e] = p
<1>0. /\ TypeOK /\ DropsAgree /\ extension \in [Completions -> Packages \cup {NoPkg}]
      /\ pkg \in [Packages -> Package]
  BY DEF StayInv, StayTypeOK, TypeOK
<1>1. CASE UNCHANGED vars
  <2>1. TypeOK' /\ DropsAgree' /\ ReleasesKnown' /\ pkg' = pkg
    BY <1>1 DEF vars, StayInv, StayTypeOK, TypeOK, DropsAgree, ReleasesKnown
  <2>2. \/ extension' = [extension EXCEPT ![e] = NoPkg]
        \/ \E p \in Packages : /\ pkg[p].status = "OVERDUE"
                               /\ extension' = [extension EXCEPT ![e] = p]
        \/ ExtendPackage(e)
    BY DEF Completion, ReadPackage, CompletionEnds
  <2>3. ExtensionsKnown' /\ extension' \in [Completions -> Packages \cup {NoPkg}]
    BY <1>0, <2>1, <2>2 DEF StayInv, ExtensionsKnown, ConfirmedStatuses, ExtendPackage
  <2> QED
    BY <2>1, <2>3 DEF StayInv, StayTypeOK
<1>2. CASE ExtendPackage(e)
  <2> DEFINE q == extension[e]
  <2>1. /\ q \in Packages /\ pkg[q].status \in ConfirmedStatuses
        /\ extension' = [extension EXCEPT ![e] = NoPkg]
        /\ now' = now /\ box' = box /\ drop' = drop /\ release' = release
        /\ queue' = queue /\ task' = task /\ faults' = faults
    BY <1>0, <1>2 DEF ExtendPackage, StayInv, ExtensionsKnown
  <2>2. PICK s \in {"PICKED_UP", "WAITING_FOR_PICKUP"} :
           /\ pkg' = [pkg EXCEPT ![q].status = s]
           /\ s = "PICKED_UP" <=> pkg[q].status = "PICKED_UP"
    <3>1. pkg' = [pkg EXCEPT ![q].status =
                    IF pkg[q].status = "PICKED_UP" THEN pkg[q].status ELSE "WAITING_FOR_PICKUP"]
      BY <1>0, <1>2, <2>1 DEF ExtendPackage
    <3> QED
      BY <3>1
  <2> HIDE DEF q
  <2>3. pkg' \in [Packages -> Package]
    BY <1>0, <2>1, <2>2 DEF Package, PackageStatus
  <2>4. \A p \in Packages : /\ pkg'[p].box = pkg[p].box
                            /\ p # q => pkg'[p] = pkg[p]
                            /\ p = q => pkg'[p].status = s
    BY <1>0, <2>1, <2>2 DEF Package
  <2>5. TypeOK'
    BY <1>0, <2>1, <2>3 DEF TypeOK
  <2>6. \A p \in Packages : /\ pkg'[p].status = "NONE" <=> pkg[p].status = "NONE"
                            /\ pkg[p].status \in ConfirmedStatuses
                                 => pkg'[p].status \in ConfirmedStatuses
    BY <2>1, <2>2, <2>4 DEF ConfirmedStatuses
  <2>7. DropsAgree' /\ ReleasesKnown'
    BY <1>0, <2>1, <2>4, <2>6 DEF DropsAgree, ReleasesKnown, StayInv
  <2>8. ExtensionsKnown' /\ extension' \in [Completions -> Packages \cup {NoPkg}]
    BY <1>0, <2>1, <2>6 DEF StayInv, ExtensionsKnown
  <2>9. \A p \in Packages :
              \/ pkg'[p].status = pkg[p].status
              \/ /\ pkg[p].status # "PICKED_UP" /\ pkg'[p].status = "WAITING_FOR_PICKUP"
                 /\ q = p
    BY <2>2, <2>4
  <2> QED
    BY <2>5, <2>7, <2>8, <2>9 DEF StayInv, StayTypeOK, q
<1> QED
  BY <1>1, <1>2 DEF Completion, ReadPackage, CompletionEnds

(* Only a payment that read the package while it was overdue makes a        *)
(* returned package wait again, and nothing else undoes the end of a stay:  *)
(* for any boxes, packages, completions and faults, whatever overlaps.      *)
THEOREM RevivedByPaymentOnly == StaySpec => OnlyLatePaymentRevives
<1>1. StayInv /\ [StayNext]_stayVars => StayInv'
  <2> SUFFICES ASSUME StayInv, [StayNext]_stayVars PROVE StayInv'
    OBVIOUS
  <2>1. CASE UNCHANGED stayVars
    BY <2>1, StayInvHandler DEF stayVars
  <2>2. CASE StayNext
    BY <2>2, StayInvHandler, StayInvCompletion DEF StayNext
  <2> QED
    BY <2>1, <2>2
<1>2. StaySpec => []StayInv
  BY <1>1, StayInvInit, PTL DEF StaySpec
<1>3. StayInv /\ [StayNext]_stayVars =>
        [\A p \in Packages : pkg[p].status \in EndedStatuses =>
           \/ pkg'[p].status = pkg[p].status
           \/ /\ pkg[p].status = "RETURNED" /\ pkg'[p].status = "WAITING_FOR_PICKUP"
              /\ \E e \in Completions : extension[e] = p]_stayVars
  <2> SUFFICES ASSUME StayInv, StayNext, NEW p \in Packages,
                      pkg[p].status \in EndedStatuses, pkg'[p].status # pkg[p].status
               PROVE  /\ pkg[p].status = "RETURNED" /\ pkg'[p].status = "WAITING_FOR_PICKUP"
                      /\ \E e \in Completions : extension[e] = p
    OBVIOUS
  <2>1. ~Next
    BY PackageStays DEF StayInv, StayTypeOK
  <2>2. PICK e \in Completions : Completion(e)
    BY <2>1 DEF StayNext
  <2>3. /\ pkg[p].status # "PICKED_UP" /\ pkg'[p].status = "WAITING_FOR_PICKUP"
        /\ extension[e] = p
    BY <2>2, StayInvCompletion
  <2>4. pkg[p].status \in ConfirmedStatuses
    BY <2>3, NullAssumption DEF StayInv, ExtensionsKnown
  <2> QED
    BY <2>3, <2>4 DEF EndedStatuses, ConfirmedStatuses
<1> QED
  BY <1>2, <1>3, PTL DEF StaySpec, OnlyLatePaymentRevives
=============================================================================
