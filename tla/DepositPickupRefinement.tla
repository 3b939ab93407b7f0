---------------------- MODULE DepositPickupRefinement ----------------------
(***************************************************************************)
(* The handlers keep the promise of BoxStay: for any number of boxes,       *)
(* packages and faults, every step of DepositPickup is a step of BoxStay    *)
(* under the mapping StageOf, BoxOf, or leaves the stays as they are.       *)
(*                                                                          *)
(* A step concerns the stay of one package, except for a restart, which     *)
(* ends all those that a request had in hand.                               *)
(***************************************************************************)
EXTENDS DepositPickupProofs

(* The stay of q looks the same after the step.                             *)
Same(q) == StageOf(q)' = StageOf(q) /\ BoxOf(q)' = BoxOf(q)

(* The step changes no stay but that of p.                                  *)
OnlyOf(p) == \A q \in Packages : q # p => Same(q)

StepOfStay == [Stay!Next]_(Stay!vars)

(* What the stay of q is read from is as it was.                            *)
Kept(q) ==
    /\ pkg'[q].status \in StoredStatuses <=> pkg[q].status \in StoredStatuses
    /\ pkg'[q].box = pkg[q].box
    /\ drop'[q].pc \in {"claimed", "failed"} <=> drop[q].pc \in {"claimed", "failed"}
    /\ drop'[q].pc \in {"idle", "checked"} <=> drop[q].pc \in {"idle", "checked"}
    /\ drop[q].pc \in {"claimed", "failed"} => drop'[q].box = drop[q].box
    /\ Leaving(q)' <=> Leaving(q)

(* A stay whose sources are kept is the same.                               *)
LEMMA KeptIsSame == ASSUME NEW q \in Packages, Kept(q) PROVE Same(q)
<1>1. StageOf(q)' = StageOf(q)
  BY DEF Kept, StageOf
<1>2. StageOf(q) = "taking" => drop[q].pc \in {"claimed", "failed"}
  BY DEF StageOf
<1> QED
  BY <1>1, <1>2 DEF Kept, Same, BoxOf
----------------------------------------------------------------------------
(* Steps of BoxStay                                                         *)

(* A step that changes no stay stutters.                                    *)
LEMMA Stutters == ASSUME \A q \in Packages : Same(q) PROVE StepOfStay
  BY DEF Same, StepOfStay, Stay!vars

(* A new package that gets a box nobody has takes it.                       *)
LEMMA Takes ==
  ASSUME NEW p \in Packages, NEW b \in Boxes, OnlyOf(p),
         \A q \in Packages : BoxOf(q) # b,
         StageOf(p) = "new", StageOf(p)' = "taking", BoxOf(p)' = b
  PROVE  StepOfStay
<1>1. Stay!Take(p, b)
  BY DEF OnlyOf, Same, Stay!Take
<1> QED
  BY <1>1 DEF StepOfStay, Stay!Next

(* A package whose box was taken is stored in it.                           *)
LEMMA Stores ==
  ASSUME NEW p \in Packages, OnlyOf(p),
         StageOf(p) = "taking", StageOf(p)' = "stored", BoxOf(p)' = BoxOf(p)
  PROVE  StepOfStay
<1>1. Stay!Store(p)
  BY DEF OnlyOf, Same, Stay!Store
<1> QED
  BY <1>1 DEF StepOfStay, Stay!Next

(* A stored package starts to leave and still has its box.                  *)
LEMMA StartsToLeave ==
  ASSUME NEW p \in Packages, OnlyOf(p),
         StageOf(p) = "stored", StageOf(p)' = "leaving", BoxOf(p)' = BoxOf(p)
  PROVE  StepOfStay
<1>1. Stay!StartLeaving(p)
  BY DEF OnlyOf, Same, Stay!StartLeaving
<1> QED
  BY <1>1 DEF StepOfStay, Stay!Next

(* Packages that are gone have no box.                                      *)
LEMMA Leaves ==
  ASSUME NEW S \in SUBSET Packages, S # {},
         \A q \in S : StageOf(q) \in {"new", "taking", "leaving"} /\ StageOf(q)' = "gone",
         \A q \in Packages \ S : Same(q)
  PROVE  StepOfStay
<1>1. \A q \in S : BoxOf(q)' = NoBox
  BY DEF BoxOf
<1>2. Stay!Leave(S)
  BY <1>1 DEF Same, Stay!Leave
<1> QED
  BY <1>2 DEF StepOfStay, Stay!Next

(* One package is gone.                                                     *)
LEMMA OneLeaves ==
  ASSUME NEW p \in Packages, OnlyOf(p),
         StageOf(p) \in {"new", "taking", "leaving"}, StageOf(p)' = "gone"
  PROVE  StepOfStay
  BY Leaves, {p} \in SUBSET Packages DEF OnlyOf
----------------------------------------------------------------------------
(* What the documents say of a stay                                         *)

(* A package that is leaving has ended its stay and its drop-off.           *)
LEMMA LeavingHasEnded ==
  ASSUME TypeOK, DocumentsAgree, NEW p \in Packages, Leaving(p)
  PROVE  /\ pkg[p].status \in EndedStatuses
         /\ drop[p].pc \notin {"idle", "checked", "claimed", "failed"}
<1>1. pkg[p].status \in EndedStatuses
  <2>1. CASE release[p].pc # "none"
    BY <2>1 DEF TypeOK, Release, DocumentsAgree, ReleasesAgree, EndedStatuses
  <2>2. CASE \E b \in Boxes : task[b].pc = "cancelBox" /\ task[b].pkg = p
    BY <2>2 DEF DocumentsAgree, TasksAgree, EndedStatuses
  <2> QED
    BY <2>1, <2>2 DEF Leaving
<1> QED
  BY <1>1 DEF DocumentsAgree, DropsAgree, EndedStatuses

(* Who has a box in BoxStay owns it.                                        *)
LEMMA TheBoxIsOwned ==
  ASSUME TypeOK, DocumentsAgree, NEW q \in Packages, NEW b \in Boxes, BoxOf(q) = b
  PROVE  Owns(q, b)
<1>1. StageOf(q) \in {"taking", "stored", "leaving"}
  BY NullAssumption DEF BoxOf
<1>2. CASE StageOf(q) = "taking"
  BY <1>2 DEF StageOf, BoxOf, Owns
<1>3. CASE StageOf(q) = "stored"
  BY <1>3 DEF StageOf, BoxOf, Owns, Stored
<1>4. CASE StageOf(q) = "leaving"
  <2>1. Leaving(q) /\ pkg[q].box = b
    BY <1>4 DEF StageOf, BoxOf
  <2>2. CASE release[q].pc # "none"
    BY <2>1, <2>2 DEF Owns
  <2>3. CASE \E c \in Boxes : task[c].pc = "cancelBox" /\ task[c].pkg = q
    <3>1. PICK c \in Boxes : task[c].pc = "cancelBox" /\ task[c].pkg = q
      BY <2>3
    <3>2. c = b
      BY <2>1, <3>1 DEF DocumentsAgree, TasksAgree, BelongsTo
    <3> QED
      BY <3>1, <3>2 DEF Owns
  <2> QED
    BY <2>1, <2>2, <2>3 DEF Leaving
<1> QED
  BY <1>1, <1>2, <1>3, <1>4

(* Requests and jobs that free no box and end no stay leave BoxStay alone.  *)
LEMMA QuietStep ==
  ASSUME pkg' = pkg, drop' = drop, release' = release,
         \A c \in Boxes : /\ task'[c].pc = "cancelBox" <=> task[c].pc = "cancelBox"
                          /\ task[c].pc = "cancelBox" => task'[c].pkg = task[c].pkg
  PROVE  StepOfStay
<1>1. ASSUME NEW q \in Packages PROVE Kept(q)
  BY DEF Kept, Leaving
<1> QED
  BY <1>1, KeptIsSame, Stutters
----------------------------------------------------------------------------
(* Drop-off                                                                 *)

(* DropOffCheck: a package that has looked at a box is still new.           *)
LEMMA DropOffCheckRefines ==
  ASSUME TypeOK, NEW p \in Packages, NEW b \in Boxes, DropOffCheck(p, b)
  PROVE  StepOfStay
<1>1. ASSUME NEW q \in Packages PROVE Kept(q)
  BY DEF Kept, Leaving, DropOffCheck, TypeOK, DropOff
<1> QED
  BY <1>1, KeptIsSame, Stutters

(* DropOffClaim takes an available box, which nobody has, or is refused.    *)
LEMMA DropOffClaimRefines ==
  ASSUME IInv, NEW p \in Packages, DropOffClaim(p)
  PROVE  StepOfStay
<1> DEFINE b == drop[p].box
<1>0. TypeOK /\ DocumentsAgree /\ OwnedBoxIsOccupied
  BY DEF IInv
<1>1. /\ drop[p].pc = "checked" /\ b \in Boxes /\ pkg[p].status = "NONE"
      /\ drop \in [Packages -> DropOff]
      /\ pkg' = pkg /\ release' = release /\ task' = task
  BY <1>0 DEF DropOffClaim, TypeOK, DocumentsAgree, DropsAgree
<1>2. \A q \in Packages : drop'[q] = drop[q] \/ q = p
  BY <1>1 DEF DropOffClaim
<1>3. OnlyOf(p)
  <2>1. ASSUME NEW q \in Packages, q # p PROVE Kept(q)
    BY <1>1, <1>2, <2>1 DEF Kept, Leaving
  <2> QED
    BY <2>1, KeptIsSame DEF OnlyOf
<1>4. ~Leaving(p) /\ StageOf(p) = "new"
  BY <1>0, <1>1, LeavingHasEnded
  DEF StageOf, StoredStatuses, PickupableStatuses, EndedStatuses
<1>5. CASE drop' = [drop EXCEPT ![p].pc = "claimed"] /\ box[b].status = "AVAILABLE"
  <2>1. drop'[p].pc = "claimed" /\ drop'[p].box = b
    BY <1>1, <1>5 DEF DropOff
  <2>2. StageOf(p)' = "taking" /\ BoxOf(p)' = b
    BY <1>1, <2>1 DEF StageOf, BoxOf, StoredStatuses, PickupableStatuses
  <2>3. \A q \in Packages : BoxOf(q) # b
    BY <1>0, <1>1, <1>5, TheBoxIsOwned DEF OwnedBoxIsOccupied
  <2> QED
    BY <1>1, <1>3, <1>4, <2>2, <2>3, Takes
<1>6. CASE drop' = [drop EXCEPT ![p] = Answered]
  <2>1. drop'[p].pc = "over"
    BY <1>1, <1>6 DEF Answered
  <2>2. StageOf(p)' = "gone"
    BY <1>1, <1>4, <2>1 DEF StageOf, StoredStatuses, PickupableStatuses, Leaving
  <2> QED
    BY <1>3, <1>4, <2>2, OneLeaves
<1> QED
  BY <1>5, <1>6 DEF DropOffClaim

(* DropOffCreate stores the package in the box its request has claimed.     *)
LEMMA DropOffCreateRefines ==
  ASSUME IInv, NEW p \in Packages, DropOffCreate(p)
  PROVE  StepOfStay
<1>0. TypeOK /\ DocumentsAgree
  BY DEF IInv
<1>1. /\ drop[p].pc = "claimed" /\ pkg[p].status = "NONE"
      /\ drop \in [Packages -> DropOff] /\ pkg \in [Packages -> Package]
      /\ release' = release /\ task' = task
  BY <1>0 DEF DropOffCreate, TypeOK, DocumentsAgree, DropsAgree
<1>2. \A q \in Packages : q # p => drop'[q] = drop[q] /\ pkg'[q] = pkg[q]
  BY <1>1 DEF DropOffCreate
<1>3. OnlyOf(p)
  <2>1. ASSUME NEW q \in Packages, q # p PROVE Kept(q)
    BY <1>1, <1>2, <2>1 DEF Kept, Leaving
  <2> QED
    BY <2>1, KeptIsSame DEF OnlyOf
<1>4. pkg'[p].status = "PENDING_DEPOSIT" /\ pkg'[p].box = drop[p].box
  BY <1>1 DEF DropOffCreate
<1>5. StageOf(p) = "taking" /\ BoxOf(p) = drop[p].box
  BY <1>1 DEF StageOf, BoxOf, StoredStatuses, PickupableStatuses
<1>6. StageOf(p)' = "stored" /\ BoxOf(p)' = drop[p].box
  BY <1>4 DEF StageOf, BoxOf, StoredStatuses
<1> QED
  BY <1>3, <1>5, <1>6, Stores

(* DropOffCreateFails: the box is still claimed.                            *)
LEMMA DropOffCreateFailsRefines ==
  ASSUME TypeOK, NEW p \in Packages, DropOffCreateFails(p)
  PROVE  StepOfStay
<1>1. ASSUME NEW q \in Packages PROVE Kept(q)
  BY DEF Kept, Leaving, DropOffCreateFails, TypeOK, DropOff
<1> QED
  BY <1>1, KeptIsSame, Stutters

(* The answer of a drop-off: a package that was created stays where it is,  *)
(* one that could not be created is gone.                                   *)
LEMMA AnswerRefines ==
  ASSUME IInv, NEW p \in Packages, drop[p].pc \in {"created", "failed"},
         drop' = [drop EXCEPT ![p] = Answered],
         pkg' = pkg, release' = release, task' = task
  PROVE  StepOfStay
<1>0. /\ TypeOK /\ DocumentsAgree
      /\ drop \in [Packages -> DropOff] /\ drop'[p].pc = "over"
  BY DEF IInv, TypeOK, Answered
<1>1. \A q \in Packages : q # p => drop'[q] = drop[q]
  BY <1>0
<1>2. OnlyOf(p)
  <2>1. ASSUME NEW q \in Packages, q # p PROVE Kept(q)
    BY <1>1, <2>1 DEF Kept, Leaving
  <2> QED
    BY <2>1, KeptIsSame DEF OnlyOf
<1>3. CASE drop[p].pc = "created"
  <2>1. Kept(p)
    BY <1>0, <1>3 DEF Kept, Leaving
  <2> QED
    BY <1>2, <2>1, KeptIsSame, Stutters DEF OnlyOf
<1>4. CASE drop[p].pc = "failed"
  <2>1. pkg[p].status = "NONE" /\ ~Leaving(p)
    BY <1>0, <1>4, LeavingHasEnded DEF DocumentsAgree, DropsAgree
  <2>2. StageOf(p) = "taking" /\ StageOf(p)' = "gone"
    BY <1>0, <1>4, <2>1 DEF StageOf, StoredStatuses, PickupableStatuses, Leaving
  <2> QED
    BY <1>2, <2>2, OneLeaves
<1> QED
  BY <1>3, <1>4
----------------------------------------------------------------------------
(* The watcher                                                              *)

(* A change of a package that is stored before and after changes no stay.   *)
LEMMA StoredStaysRefines ==
  ASSUME TypeOK, NEW p \in Packages, drop' = drop, release' = release,
         \A q \in Packages : q # p => pkg'[q] = pkg[q],
         pkg'[p].box = pkg[p].box,
         pkg'[p].status \in StoredStatuses <=> pkg[p].status \in StoredStatuses,
         \A c \in Boxes : /\ task'[c].pc = "cancelBox" <=> task[c].pc = "cancelBox"
                          /\ task[c].pc = "cancelBox" => task'[c].pkg = task[c].pkg
  PROVE  StepOfStay
<1>1. ASSUME NEW q \in Packages PROVE Kept(q)
  BY DEF Kept, Leaving
<1> QED
  BY <1>1, KeptIsSame, Stutters

(* MarkDoorOpened writes a date.                                            *)
LEMMA MarkDoorOpenedRefines ==
  ASSUME IInv, NEW b \in Boxes, MarkDoorOpened(b)
  PROVE  StepOfStay
<1> DEFINE p == task[b].pkg
<1>1. TypeOK /\ p \in Packages /\ pkg \in [Packages -> Package] /\ task \in [Boxes -> Task]
  BY DEF IInv, TypeOK, MarkDoorOpened, DocumentsAgree, TasksAgree, BelongsTo
<1>2. /\ \A q \in Packages : q # p => pkg'[q] = pkg[q]
      /\ pkg'[p].box = pkg[p].box /\ pkg'[p].status = pkg[p].status
  BY <1>1 DEF MarkDoorOpened, Package
<1>3. \A c \in Boxes : /\ task'[c].pc = "cancelBox" <=> task[c].pc = "cancelBox"
                       /\ task[c].pc = "cancelBox" => task'[c].pkg = task[c].pkg
  BY <1>1 DEF MarkDoorOpened, Idle
<1> QED
  BY <1>1, <1>2, <1>3, StoredStaysRefines DEF MarkDoorOpened

(* ConfirmDeposit: the package was and is stored.                           *)
LEMMA ConfirmDepositRefines ==
  ASSUME IInv, NEW b \in Boxes, ConfirmDeposit(b)
  PROVE  StepOfStay
<1> DEFINE p == task[b].pkg
<1>1. TypeOK /\ p \in Packages /\ pkg \in [Packages -> Package] /\ task \in [Boxes -> Task]
  BY DEF IInv, TypeOK, ConfirmDeposit, DocumentsAgree, TasksAgree, BelongsTo
<1>2. /\ \A q \in Packages : q # p => pkg'[q] = pkg[q]
      /\ pkg'[p].box = pkg[p].box
      /\ pkg'[p].status \in StoredStatuses <=> pkg[p].status \in StoredStatuses
  BY <1>1 DEF ConfirmDeposit, Package, StoredStatuses, PickupableStatuses
<1>3. \A c \in Boxes : /\ task'[c].pc = "cancelBox" <=> task[c].pc = "cancelBox"
                       /\ task[c].pc = "cancelBox" => task'[c].pkg = task[c].pkg
  BY <1>1 DEF ConfirmDeposit, Idle, Task
<1> QED
  BY <1>1, <1>2, <1>3, StoredStaysRefines DEF ConfirmDeposit

(* CancelDeposit: the package starts to leave, unless its stay has ended.   *)
LEMMA CancelDepositRefines ==
  ASSUME IInv, NEW b \in Boxes, CancelDeposit(b)
  PROVE  StepOfStay
<1>0. TypeOK /\ DocumentsAgree
  BY DEF IInv
<1> PICK p \in Packages : p = task[b].pkg
  BY <1>0 DEF CancelDeposit, DocumentsAgree, TasksAgree, BelongsTo
<1>1. /\ pkg \in [Packages -> Package] /\ task \in [Boxes -> Task]
      /\ task[b].pc = "cancel" /\ pkg[p].status # "NONE"
      /\ drop' = drop /\ release' = release
  BY <1>0 DEF TypeOK, CancelDeposit, DocumentsAgree, TasksAgree, BelongsTo
<1>2. CASE pkg[p].status = "PENDING_DEPOSIT"
  <2>1. /\ pkg' = [pkg EXCEPT ![p].status = "DEPOSIT_CANCELLED"]
        /\ task' = [task EXCEPT ![b].pc = "cancelBox"]
    BY <1>2 DEF CancelDeposit
  <2>2. /\ pkg'[p].status = "DEPOSIT_CANCELLED" /\ pkg'[p].box = pkg[p].box
        /\ task'[b].pc = "cancelBox" /\ task'[b].pkg = p
        /\ \A c \in Boxes : c # b => task'[c] = task[c]
        /\ \A q \in Packages : q # p => pkg'[q] = pkg[q]
    BY <1>1, <2>1 DEF Package, Task
  <2>3. OnlyOf(p)
    <3>1. ASSUME NEW q \in Packages, q # p PROVE Kept(q)
      <4>1. Leaving(q)' <=> Leaving(q)
        BY <1>1, <2>2, <3>1 DEF Leaving
      <4> QED
        BY <1>1, <2>2, <3>1, <4>1 DEF Kept
    <3> QED
      BY <3>1, KeptIsSame DEF OnlyOf
  <2>4. StageOf(p) = "stored" /\ BoxOf(p) = pkg[p].box
    BY <1>2 DEF StageOf, BoxOf, StoredStatuses
  <2>5. Leaving(p)'
    BY <2>2 DEF Leaving
  <2>6. drop[p].pc \notin {"claimed", "failed", "idle", "checked"}
    BY <1>0, <1>1 DEF DocumentsAgree, DropsAgree
  <2>7. StageOf(p)' = "leaving" /\ BoxOf(p)' = pkg[p].box
    BY <1>1, <2>2, <2>5, <2>6 DEF StageOf, BoxOf, StoredStatuses, PickupableStatuses
  <2> QED
    BY <1>1, <2>3, <2>4, <2>7, StartsToLeave
<1>3. CASE pkg[p].status # "PENDING_DEPOSIT"
  <2>1. pkg' = pkg /\ task' = [task EXCEPT ![b] = Idle]
    BY <1>3 DEF CancelDeposit
  <2>2. \A c \in Boxes : /\ task'[c].pc = "cancelBox" <=> task[c].pc = "cancelBox"
                         /\ task[c].pc = "cancelBox" => task'[c].pkg = task[c].pkg
    BY <1>1, <2>1 DEF Idle
  <2> QED
    BY <1>1, <2>1, <2>2, QuietStep
<1> QED
  BY <1>2, <1>3

(* The end of a cancellation, done or failed: the package is gone.          *)
LEMMA CancellationEnds ==
  ASSUME IInv, NEW b \in Boxes, task[b].pc = "cancelBox", task' = [task EXCEPT ![b] = Idle],
         pkg' = pkg, drop' = drop, release' = release
  PROVE  StepOfStay
<1>0. TypeOK /\ DocumentsAgree
  BY DEF IInv
<1> PICK p \in Packages : p = task[b].pkg
  BY <1>0 DEF DocumentsAgree, TasksAgree, BelongsTo
<1>1. /\ BelongsTo(p, b) /\ pkg[p].status = "DEPOSIT_CANCELLED"
      /\ task'[b].pc = "idle" /\ \A c \in Boxes : c # b => task'[c] = task[c]
  BY <1>0 DEF TypeOK, DocumentsAgree, TasksAgree, Idle
<1>3. OnlyOf(p)
  <2>1. ASSUME NEW q \in Packages, q # p PROVE Kept(q)
    BY <1>1, <2>1 DEF Kept, Leaving
  <2> QED
    BY <2>1, KeptIsSame DEF OnlyOf
<1>4. Leaving(p)
  BY DEF Leaving
<1>5. StageOf(p) = "leaving"
  BY <1>0, <1>1, <1>4, LeavingHasEnded
  DEF StageOf, StoredStatuses, PickupableStatuses
<1>6. ~Leaving(p)'
  <2>1. release[p].pc = "none"
    BY <1>0, <1>1 DEF TypeOK, Release, DocumentsAgree, ReleasesAgree
  <2>2. \A c \in Boxes : task'[c].pc = "cancelBox" /\ task'[c].pkg = p => c = b
    BY <1>0, <1>1 DEF DocumentsAgree, TasksAgree, BelongsTo
  <2> QED
    BY <1>1, <2>1, <2>2 DEF Leaving
<1>7. StageOf(p)' = "gone"
  BY <1>0, <1>1, <1>4, <1>6, LeavingHasEnded
  DEF StageOf, StoredStatuses, PickupableStatuses
<1> QED
  BY <1>3, <1>5, <1>7, OneLeaves

(* The jobs of the watcher: a cancellation makes its package leave, the     *)
(* others change no stay.                                                   *)
LEMMA TaskStepRefines ==
  ASSUME IInv, NEW b \in Boxes, TaskStep(b)
  PROVE  StepOfStay
<1>0. TypeOK /\ task \in [Boxes -> Task]
  BY DEF IInv, TypeOK
<1>1. CASE StoreReading(b) \/ StartExpiry(b)
  <2>1. \A c \in Boxes : /\ task'[c].pc = "cancelBox" <=> task[c].pc = "cancelBox"
                         /\ task[c].pc = "cancelBox" => task'[c].pkg = task[c].pkg
    BY <1>0, <1>1 DEF StoreReading, StartExpiry, Dequeue, Idle
  <2> QED
    BY <1>1, <2>1, QuietStep DEF StoreReading, StartExpiry
<1>2. CASE ReadLink(b)
  <2>1. \A c \in Boxes : /\ task'[c].pc = "cancelBox" <=> task[c].pc = "cancelBox"
                         /\ task[c].pc = "cancelBox" => task'[c].pkg = task[c].pkg
    BY <1>0, <1>2 DEF ReadLink, Idle, Task
  <2> QED
    BY <1>2, <2>1, QuietStep DEF ReadLink
<1>3. CASE Decide(b) \/ JudgeExpiry(b)
  <2>1. /\ task[b].pc \in {"decide", "expiry"}
        /\ \/ task' = [task EXCEPT ![b] = Idle]
           \/ \E pc \in {"mark", "confirm", "cancel"} : task' = [task EXCEPT ![b].pc = pc]
    BY <1>3 DEF Decide, JudgeExpiry, DecideOnSensor, DecideOnExpiry
  <2>2. \A c \in Boxes : /\ task'[c].pc = "cancelBox" <=> task[c].pc = "cancelBox"
                         /\ task[c].pc = "cancelBox" => task'[c].pkg = task[c].pkg
    BY <1>0, <2>1 DEF Idle, Task
  <2> QED
    BY <1>3, <2>2, QuietStep DEF Decide, JudgeExpiry
<1>4. CASE ConfirmBox(b)
  <2>1. \A c \in Boxes : /\ task'[c].pc = "cancelBox" <=> task[c].pc = "cancelBox"
                         /\ task[c].pc = "cancelBox" => task'[c].pkg = task[c].pkg
    BY <1>0, <1>4 DEF ConfirmBox, Idle
  <2> QED
    BY <1>4, <2>1, QuietStep DEF ConfirmBox
<1>5. CASE CancelBox(b)
  BY <1>5, CancellationEnds DEF CancelBox
<1> QED
  BY <1>1, <1>2, <1>3, <1>4, <1>5, MarkDoorOpenedRefines, ConfirmDepositRefines,
     CancelDepositRefines DEF TaskStep
----------------------------------------------------------------------------
(* Pickup, return and the cron                                              *)

(* A claimed pickup or return starts to leave its box.                      *)
LEMMA ClaimRefines ==
  ASSUME IInv, NEW p \in Packages, PickupClaim(p) \/ ReturnClaim(p)
  PROVE  StepOfStay
<1>0. /\ TypeOK /\ DocumentsAgree
      /\ pkg \in [Packages -> Package] /\ release \in [Packages -> Release]
  BY DEF IInv, TypeOK
<1>1. /\ pkg[p].status \in PickupableStatuses /\ drop' = drop /\ task' = task
      /\ pkg'[p].status \in EndedStatuses /\ pkg'[p].box = pkg[p].box
      /\ release'[p].pc # "none"
      /\ \A q \in Packages : q # p => pkg'[q] = pkg[q] /\ release'[q] = release[q]
  BY <1>0 DEF PickupClaim, ReturnClaim, Package, Release, EndedStatuses
<1>2. OnlyOf(p)
  <2>1. ASSUME NEW q \in Packages, q # p PROVE Kept(q)
    BY <1>1, <2>1 DEF Kept, Leaving
  <2> QED
    BY <2>1, KeptIsSame DEF OnlyOf
<1>3. StageOf(p) = "stored" /\ BoxOf(p) = pkg[p].box
  BY <1>1 DEF StageOf, BoxOf, StoredStatuses
<1>4. drop[p].pc \notin {"claimed", "failed", "idle", "checked"}
  BY <1>0, <1>1 DEF DocumentsAgree, DropsAgree, PickupableStatuses
<1>5. StageOf(p)' = "leaving" /\ BoxOf(p)' = pkg[p].box
  BY <1>1, <1>4 DEF StageOf, BoxOf, Leaving, StoredStatuses, PickupableStatuses, EndedStatuses
<1> QED
  BY <1>2, <1>3, <1>5, StartsToLeave

(* PickupFindBox reads the box: the package is still leaving it.            *)
LEMMA PickupFindBoxRefines ==
  ASSUME TypeOK, NEW p \in Packages, PickupFindBox(p)
  PROVE  StepOfStay
<1>1. ASSUME NEW q \in Packages PROVE Kept(q)
  BY DEF Kept, Leaving, PickupFindBox, TypeOK, Release
<1> QED
  BY <1>1, KeptIsSame, Stutters

(* The end of a release, done or failed: the package is gone.               *)
LEMMA ReleaseEnds ==
  ASSUME IInv, NEW p \in Packages, release[p].pc # "none",
         release' = [release EXCEPT ![p] = NoRelease],
         pkg' = pkg, drop' = drop, task' = task
  PROVE  StepOfStay
<1>0. /\ TypeOK /\ DocumentsAgree
      /\ release'[p].pc = "none"
      /\ \A q \in Packages : q # p => release'[q] = release[q]
  BY DEF IInv, TypeOK, NoRelease
<1>1. pkg[p].status \in {"PICKED_UP", "RETURNED"}
  BY <1>0 DEF TypeOK, Release, DocumentsAgree, ReleasesAgree
<1>2. OnlyOf(p)
  <2>1. ASSUME NEW q \in Packages, q # p PROVE Kept(q)
    BY <1>0, <2>1 DEF Kept, Leaving
  <2> QED
    BY <2>1, KeptIsSame DEF OnlyOf
<1>3. Leaving(p)
  BY DEF Leaving
<1>4. StageOf(p) = "leaving"
  BY <1>0, <1>1, <1>3, LeavingHasEnded DEF StageOf, StoredStatuses, PickupableStatuses
<1>5. ~Leaving(p)'
  BY <1>0, <1>1 DEF Leaving, DocumentsAgree, TasksAgree
<1>6. StageOf(p)' = "gone"
  BY <1>0, <1>1, <1>3, <1>5, LeavingHasEnded DEF StageOf, StoredStatuses, PickupableStatuses
<1> QED
  BY <1>2, <1>4, <1>6, OneLeaves

(* MarkOverdue: the package was and is stored.                              *)
LEMMA MarkOverdueRefines ==
  ASSUME TypeOK, NEW p \in Packages, MarkOverdue(p)
  PROVE  StepOfStay
<1>1. /\ \A q \in Packages : q # p => pkg'[q] = pkg[q]
      /\ pkg'[p].box = pkg[p].box
      /\ pkg'[p].status \in StoredStatuses <=> pkg[p].status \in StoredStatuses
  BY DEF MarkOverdue, TypeOK, Package, StoredStatuses, PickupableStatuses
<1> QED
  BY <1>1, StoredStaysRefines DEF MarkOverdue
----------------------------------------------------------------------------
(* Faults                                                                   *)

(* A job that throws while it frees a box has ended its cancellation.       *)
LEMMA TaskThrowsRefines ==
  ASSUME IInv, NEW b \in Boxes, TaskThrows(b)
  PROVE  StepOfStay
<1>1. CASE task[b].pc = "cancelBox"
  BY <1>1, CancellationEnds DEF TaskThrows
<1>2. CASE task[b].pc # "cancelBox"
  <2>1. \A c \in Boxes : /\ task'[c].pc = "cancelBox" <=> task[c].pc = "cancelBox"
                         /\ task[c].pc = "cancelBox" => task'[c].pkg = task[c].pkg
    BY <1>2 DEF TaskThrows, IInv, TypeOK, Idle
  <2> QED
    BY <2>1, QuietStep DEF TaskThrows
<1> QED
  BY <1>1, <1>2

(* A restart ends the stays that a request or a job had in hand.            *)
LEMMA ServerRestartRefines ==
  ASSUME IInv, ServerRestart
  PROVE  StepOfStay
<1> DEFINE InHand(q) == \/ StageOf(q) \in {"taking", "leaving"}
                        \/ StageOf(q) = "new" /\ drop[q].pc = "checked"
<1> PICK S \in SUBSET Packages : \A q \in Packages : q \in S <=> InHand(q)
  <2>1. {q \in Packages : InHand(q)} \in SUBSET Packages
    OBVIOUS
  <2> QED
    BY <2>1
<1>0. TypeOK /\ DocumentsAgree
  BY DEF IInv
<1>1. ASSUME NEW q \in Packages
      PROVE  /\ pkg'[q] = pkg[q] /\ ~Leaving(q)'
             /\ drop[q].pc = "idle" => drop'[q].pc = "idle"
             /\ drop[q].pc # "idle" => drop'[q].pc = "over"
  BY DEF ServerRestart, Leaving, NoRelease, Idle, NotStarted, Answered
<1>2. \A q \in S : StageOf(q) \in {"new", "taking", "leaving"} /\ StageOf(q)' = "gone"
  <2>1. ASSUME NEW q \in Packages, q \in S
        PROVE  pkg[q].status \notin StoredStatuses /\ drop[q].pc # "idle"
    BY <2>1 DEF StageOf
  <2>2. ASSUME NEW q \in Packages, q \in S PROVE StageOf(q)' = "gone"
    BY <1>1, <2>1, <2>2 DEF StageOf
  <2> QED
    BY <2>2
<1>3. \A q \in Packages \ S : Same(q)
  <2>1. ASSUME NEW q \in Packages, q \notin S PROVE StageOf(q)' = StageOf(q)
    <3>1. StageOf(q) \in {"stored", "gone"} \/ (StageOf(q) = "new" /\ drop[q].pc = "idle")
      BY <2>1 DEF StageOf
    <3>2. CASE StageOf(q) = "stored"
      BY <1>1, <3>2 DEF StageOf
    <3>3. CASE StageOf(q) = "gone"
      BY <1>1, <3>3 DEF StageOf
    <3>4. CASE StageOf(q) = "new" /\ drop[q].pc = "idle"
      BY <1>1, <3>4 DEF StageOf
    <3> QED
      BY <3>1, <3>2, <3>3, <3>4
  <2>2. ASSUME NEW q \in Packages, q \notin S PROVE BoxOf(q)' = BoxOf(q)
    BY <1>1, <2>1, <2>2 DEF BoxOf
  <2> QED
    BY <2>1, <2>2 DEF Same
<1>4. CASE S = {}
  BY <1>3, <1>4, Stutters
<1>5. CASE S # {}
  BY <1>2, <1>3, <1>5, Leaves
<1> QED
  BY <1>4, <1>5
----------------------------------------------------------------------------
(* Theorems                                                                 *)

(* Before the first request no package has a box.                           *)
LEMMA InitRefines == Init => Stay!Init
<1> SUFFICES ASSUME Init PROVE Stay!Init
  OBVIOUS
<1>1. ASSUME NEW p \in Packages PROVE StageOf(p) = "new" /\ BoxOf(p) = NoBox
  BY DEF Init, StageOf, BoxOf, NotStarted, StoredStatuses, PickupableStatuses
<1> QED
  BY <1>1 DEF Stay!Init

(* Every step is a step of BoxStay or leaves the stays alone.               *)
LEMMA StepRefines ==
  ASSUME IInv, [Next]_vars PROVE StepOfStay
<1>0. TypeOK
  BY DEF IInv
<1>1. ASSUME NEW p \in Packages, PackageStep(p) PROVE StepOfStay
  <2>1. ASSUME NEW b \in Boxes, DropOffCheck(p, b) PROVE StepOfStay
    BY <1>0, <2>1, DropOffCheckRefines
  <2>2. CASE DropOffGiveBack(p) \/ DropOffLink(p) \/ DropOffThrows(p)
    BY <2>2, AnswerRefines DEF DropOffGiveBack, DropOffLink, DropOffThrows
  <2>3. CASE DropOffStep(p)
    BY <1>0, <2>2, <2>3, DropOffClaimRefines, DropOffCreateRefines,
       DropOffCreateFailsRefines DEF DropOffStep
  <2>4. CASE HandleExpiredDeposits(p)
    BY <2>4, QuietStep DEF HandleExpiredDeposits
  <2>5. CASE PickupClaim(p) \/ ReturnClaim(p) \/ MarkOverdue(p)
    BY <1>0, <2>5, ClaimRefines, MarkOverdueRefines
  <2>6. CASE PickupSaveBox(p) \/ ReturnBox(p) \/ ReleaseThrows(p)
    BY <2>6, ReleaseEnds DEF PickupSaveBox, ReturnBox, ReleaseThrows
  <2>7. CASE ReleaseStep(p)
    BY <1>0, <2>6, <2>7, PickupFindBoxRefines DEF ReleaseStep
  <2> QED
    BY <1>1, <2>1, <2>2, <2>3, <2>4, <2>5, <2>6, <2>7 DEF PackageStep
<1>2. ASSUME NEW b \in Boxes, BoxStep(b) PROVE StepOfStay
  <2>1. CASE SensorEvent(b) \/ UpdateBoxStatus(b)
    BY <2>1, QuietStep DEF SensorEvent, UpdateBoxStatus
  <2> QED
    BY <1>2, <2>1, TaskStepRefines, TaskThrowsRefines DEF BoxStep
<1>3. CASE Tick
  BY <1>3, QuietStep DEF Tick
<1>4. CASE ServerRestart
  BY <1>4, ServerRestartRefines
<1>5. CASE UNCHANGED vars
  BY <1>5, QuietStep DEF vars
<1> QED
  BY <1>1, <1>2, <1>3, <1>4, <1>5 DEF Next

(* Drop-off, watcher, pickup, return, failed writes and restarts together   *)
(* keep the promise of BoxStay: a box is taken only when no package has it, *)
(* and a stay that has ended never starts again.                            *)
THEOREM StaysImplemented == Spec => ImplementsBoxStay
<1>1. IInv /\ [Next]_vars => [Stay!Next]_(Stay!vars)
  BY StepRefines DEF StepOfStay
<1> QED
  BY <1>1, InitRefines, Invariance, PTL DEF Spec, ImplementsBoxStay, Stay!Spec
----------------------------------------------------------------------------
(* The promise of BoxStay                                                   *)

StayPromise == Stay!TypeOK /\ Stay!OnePackagePerBox

(* Taking only boxes that nobody has is enough: every step of a stay keeps  *)
(* a box to one package.                                                    *)
LEMMA PromiseKept ==
  ASSUME StayPromise, StepOfStay PROVE StayPromise'
<1> USE DEF StayPromise, Stay!TypeOK, Stay!OnePackagePerBox, Stay!Stages
<1>1. ASSUME NEW p \in Packages, NEW b \in Boxes, Stay!Take(p, b) PROVE StayPromise'
  BY ZenonT(60), <1>1 DEF Stay!Take
<1>2. ASSUME NEW p \in Packages, Stay!Store(p) \/ Stay!StartLeaving(p) PROVE StayPromise'
  BY <1>2 DEF Stay!Store, Stay!StartLeaving
<1>3. ASSUME NEW S \in SUBSET Packages, Stay!Leave(S) PROVE StayPromise'
  BY <1>3 DEF Stay!Leave
<1>4. CASE UNCHANGED Stay!vars
  BY <1>4 DEF Stay!vars
<1> QED
  BY <1>1, <1>2, <1>3, <1>4 DEF StepOfStay, Stay!Next

(* Two packages never have the same box, whether they are being dropped off *)
(* in it, stored, or still leaving it.                                      *)
THEOREM Exclusive == Spec => []Stay!OnePackagePerBox
<1>1. Stay!Init => StayPromise
  BY DEF Stay!Init, StayPromise, Stay!TypeOK, Stay!OnePackagePerBox, Stay!Stages
<1>2. StayPromise /\ [Stay!Next]_(Stay!vars) => StayPromise'
  BY PromiseKept DEF StepOfStay
<1>3. StayPromise => Stay!OnePackagePerBox
  BY DEF StayPromise
<1> QED
  BY <1>1, <1>2, <1>3, StaysImplemented, PTL DEF ImplementsBoxStay, Stay!Spec
=============================================================================
