--------------------------- MODULE StorageDeadline ---------------------------
(***************************************************************************)
(* How long a package may stay, and who is told: the deadline computed when *)
(* the deposit is confirmed, the retrieval threshold T3 an administrator    *)
(* changes, the two hourly jobs, and the extensions residents pay for.      *)
(*                                                                          *)
(* Each of them reads first and writes later; a job may still be at work    *)
(* when the next one starts, and the server may stop in between.            *)
(***************************************************************************)
EXTENDS Integers, FiniteSets

CONSTANTS
    Packages,
    Limits,         \* values of t3Hours
    Admins,         \* edits of the building in flight
    Jobs,           \* hourly jobs in flight
    Extension,      \* extensionHours
    WarnHours,      \* EXPIRY_WARNING_HOURS
    MaxEvents,      \* bound: edits, extensions and restarts together
    LastHour        \* bound: the clock

DeadlineAssumption ==
    /\ Limits \subseteq Nat /\ Limits # {}
    /\ \A n \in {Extension, WarnHours, MaxEvents, LastHour} : n \in Nat

VARIABLES
    limit,      \* resolveStorageLimitHours of the building's policy
    parcel,     \* the documents of the packages
    confirm,    \* the limit each confirmation has read
    pay,        \* what each extension has computed
    edit,       \* each edit: its place, the limits before and after
    job,        \* each job: its kind, its list and whom it has to tell
    spells,     \* times each package became OVERDUE
    told,       \* notices of an overdue package
    warned,     \* notices of an expiring package
    events,
    hour

dvars == <<limit, parcel, confirm, pay, edit, job, spells, told, warned, events, hour>>
----------------------------------------------------------------------------
Never == -1     \* an absent date

Status == {"PENDING_DEPOSIT", "WAITING_FOR_PICKUP", "OVERDUE", "PICKED_UP"}

Parcel == [status: Status, droppedOffAt: Int, expiredAt: Int, paidUntil: Int, expiryWarnedAt: Int]

NoJob == [kind |-> "none", list |-> {}, tell |-> {}]

NoEdit == [pc |-> "idle", previous |-> 0, next |-> 0, at |-> 0]

NoPay == [until |-> Never, restore |-> FALSE]

DeadlineTypeOK ==
    /\ limit \in Limits
    /\ parcel \in [Packages -> Parcel]
    /\ confirm \in [Packages -> Limits \cup {Never}]
    /\ pay \in [Packages -> [until: Nat \cup {Never}, restore: BOOLEAN]]
    /\ edit \in [Admins -> [pc: {"idle", "write", "resync", "restore", "mark"},
                            previous: Nat, next: Nat, at: Nat]]
    /\ job \in [Jobs -> [kind: {"none", "overdue", "expiring"},
                         list: SUBSET Packages, tell: SUBSET Packages]]
    /\ \A count \in {spells, told, warned} : count \in [Packages -> Nat]
    /\ events \in 0..MaxEvents /\ hour \in 0..LastHour

Quiet ==
    /\ confirm = [p \in Packages |-> Never]
    /\ pay = [p \in Packages |-> NoPay]
    /\ edit = [a \in Admins |-> NoEdit]
    /\ job = [j \in Jobs |-> NoJob]

Init ==
    /\ limit \in Limits
    /\ parcel = [p \in Packages |-> [status |-> "PENDING_DEPOSIT", droppedOffAt |-> 0,
                    expiredAt |-> limit, paidUntil |-> Never, expiryWarnedAt |-> Never]]
    /\ Quiet
    /\ spells = [p \in Packages |-> 0] /\ told = spells /\ warned = spells
    /\ events = 0 /\ hour = 0

Pickupable(p) == parcel[p].status \in {"WAITING_FOR_PICKUP", "OVERDUE"}

(* buildOverdueFilter and buildExpiringSoonFilter, at the instant now.      *)
PaidPast(p, now) == parcel[p].paidUntil # Never /\ parcel[p].paidUntil > now

OverdueAt(now) ==
    {p \in Packages : /\ parcel[p].status = "WAITING_FOR_PICKUP"
                      /\ parcel[p].expiredAt < now /\ ~PaidPast(p, now)}

ExpiringAt(now) ==
    {p \in Packages : /\ parcel[p].status = "WAITING_FOR_PICKUP"
                      /\ parcel[p].expiredAt \in now + 1..now + WarnHours
                      /\ parcel[p].expiryWarnedAt = Never /\ ~PaidPast(p, now)}

Event == events < MaxEvents /\ events' = events + 1

Begun(P) == spells' = [p \in Packages |-> IF p \in P THEN spells[p] + 1 ELSE spells[p]]
----------------------------------------------------------------------------
(* Packages *)

ReadPolicy(p) ==
    /\ parcel[p].status = "PENDING_DEPOSIT" /\ confirm[p] = Never
    /\ confirm' = [confirm EXCEPT ![p] = limit]
    /\ UNCHANGED <<limit, parcel, pay, edit, job, spells, told, warned, events, hour>>

ConfirmDeposit(p) ==
    /\ confirm[p] # Never
    /\ parcel' = [parcel EXCEPT ![p].status = "WAITING_FOR_PICKUP", ![p].droppedOffAt = hour,
                                ![p].expiredAt = hour + confirm[p]]
    /\ confirm' = [confirm EXCEPT ![p] = Never]
    /\ UNCHANGED <<limit, pay, edit, job, spells, told, warned, events, hour>>

PickUp(p) ==
    /\ Pickupable(p)
    /\ parcel' = [parcel EXCEPT ![p].status = "PICKED_UP"]
    /\ UNCHANGED <<limit, confirm, pay, edit, job, spells, told, warned, events, hour>>

(* completePaidPayment of a remote payment: read, then update.              *)
ReadForExtension(p) ==
    LET base == IF parcel[p].paidUntil > hour THEN parcel[p].paidUntil ELSE hour
    IN  /\ Pickupable(p) /\ pay[p] = NoPay
        /\ Event
        /\ pay' = [pay EXCEPT ![p] = [until |-> base + Extension,
                                      restore |-> parcel[p].status = "OVERDUE"]]
        /\ UNCHANGED <<limit, parcel, confirm, edit, job, spells, told, warned, hour>>

SaveExtension(p) ==
    /\ pay[p] # NoPay
    /\ parcel' = [parcel EXCEPT
            ![p].paidUntil = pay[p].until,
            ![p].status = IF pay[p].restore /\ @ # "PICKED_UP" THEN "WAITING_FOR_PICKUP" ELSE @]
    /\ pay' = [pay EXCEPT ![p] = NoPay]
    /\ UNCHANGED <<limit, confirm, edit, job, spells, told, warned, events, hour>>
----------------------------------------------------------------------------
(* The threshold: the building is read, written, and its packages re-dated  *)
(* by three queries when the threshold differs from the one read.           *)

UpdateBuilding(a, l) ==
    /\ edit[a] = NoEdit
    /\ Event
    /\ edit' = [edit EXCEPT ![a] = [pc |-> "write", previous |-> limit, next |-> l, at |-> hour]]
    /\ UNCHANGED <<limit, parcel, confirm, pay, job, spells, told, warned, hour>>

WriteBuilding(a) ==
    /\ edit[a].pc = "write"
    /\ limit' = edit[a].next
    /\ edit' = [edit EXCEPT ![a] = IF @.previous # @.next THEN [@ EXCEPT !.pc = "resync"]
                                    ELSE NoEdit]
    /\ UNCHANGED <<parcel, confirm, pay, job, spells, told, warned, events, hour>>

ResyncExpiry(a) ==
    /\ edit[a].pc = "resync"
    /\ parcel' = [p \in Packages |->
            IF Pickupable(p)
            THEN [parcel[p] EXCEPT !.expiredAt = parcel[p].droppedOffAt + edit[a].next]
            ELSE parcel[p]]
    /\ edit' = [edit EXCEPT ![a].pc = "restore"]
    /\ UNCHANGED <<limit, confirm, pay, job, spells, told, warned, events, hour>>

RestoreWaiting(a) ==
    /\ edit[a].pc = "restore"
    /\ parcel' = [p \in Packages |->
            IF parcel[p].status = "OVERDUE" /\ parcel[p].expiredAt > hour
            THEN [parcel[p] EXCEPT !.status = "WAITING_FOR_PICKUP"] ELSE parcel[p]]
    /\ edit' = [edit EXCEPT ![a].pc = "mark", ![a].at = hour]
    /\ UNCHANGED <<limit, confirm, pay, job, spells, told, warned, events, hour>>

(* Nobody is told of these.                                                 *)
MarkOverdue(a) ==
    LET late == OverdueAt(edit[a].at)
    IN  /\ edit[a].pc = "mark"
        /\ parcel' = [p \in Packages |->
                IF p \in late THEN [parcel[p] EXCEPT !.status = "OVERDUE"] ELSE parcel[p]]
        /\ Begun(late)
        /\ edit' = [edit EXCEPT ![a] = NoEdit]
        /\ UNCHANGED <<limit, confirm, pay, job, told, warned, events, hour>>
----------------------------------------------------------------------------
(* The jobs: a list is read once and worked off package by package.         *)

HandleOverduePackagesCron(j) ==
    /\ job[j] = NoJob /\ OverdueAt(hour) # {}
    /\ job' = [job EXCEPT ![j] = [kind |-> "overdue", list |-> OverdueAt(hour), tell |-> {}]]
    /\ UNCHANGED <<limit, parcel, confirm, pay, edit, spells, told, warned, events, hour>>

HandleExpiringPackagesCron(j) ==
    /\ job[j] = NoJob /\ ExpiringAt(hour) # {}
    /\ job' = [job EXCEPT ![j] = [kind |-> "expiring", list |-> ExpiringAt(hour), tell |-> {}]]
    /\ UNCHANGED <<limit, parcel, confirm, pay, edit, spells, told, warned, events, hour>>

NextListed(j, p, kind) == job[j].kind = kind /\ job[j].tell = {} /\ p \in job[j].list

Worked(j, p, tells) ==
    job' = [job EXCEPT ![j] = IF @.list = {p} /\ ~tells THEN NoJob
                              ELSE [@ EXCEPT !.list = job[j].list \ {p},
                                             !.tell = IF tells THEN {p} ELSE {}]]

(* Mutant: whether the update changed anything is not looked at.            *)
MoveListed(j, p) ==
    LET waits == parcel[p].status = "WAITING_FOR_PICKUP"
    IN  /\ NextListed(j, p, "overdue")
        /\ parcel' = IF waits THEN [parcel EXCEPT ![p].status = "OVERDUE"] ELSE parcel
        /\ Begun(IF waits THEN {p} ELSE {})
        /\ Worked(j, p, TRUE)
        /\ UNCHANGED <<limit, confirm, pay, edit, told, warned, events, hour>>

(* Only the status is asked again, not the deadline.                        *)
MoveOverdue(j, p) ==
    LET waits == parcel[p].status = "WAITING_FOR_PICKUP"
    IN  /\ NextListed(j, p, "overdue")
        /\ parcel' = IF waits THEN [parcel EXCEPT ![p].status = "OVERDUE"] ELSE parcel
        /\ Begun(IF waits THEN {p} ELSE {})
        /\ Worked(j, p, waits)
        /\ UNCHANGED <<limit, confirm, pay, edit, told, warned, events, hour>>

(* Mutant: the warning is claimed by id only.                               *)
ClaimListed(j, p) ==
    /\ NextListed(j, p, "expiring")
    /\ parcel' = [parcel EXCEPT ![p].expiryWarnedAt = hour]
    /\ Worked(j, p, TRUE)
    /\ UNCHANGED <<limit, confirm, pay, edit, spells, told, warned, events, hour>>

ClaimWarning(j, p) ==
    LET claims == parcel[p].expiryWarnedAt = Never
    IN  /\ NextListed(j, p, "expiring")
        /\ parcel' = IF claims THEN [parcel EXCEPT ![p].expiryWarnedAt = hour] ELSE parcel
        /\ Worked(j, p, claims)
        /\ UNCHANGED <<limit, confirm, pay, edit, spells, told, warned, events, hour>>

Told(j) ==
    job' = [job EXCEPT ![j] = IF @.list = {} THEN NoJob ELSE [@ EXCEPT !.tell = {}]]

NotifyResidentOverdue(j) ==
    /\ job[j].kind = "overdue" /\ job[j].tell # {}
    /\ told' = [p \in Packages |-> IF p \in job[j].tell THEN told[p] + 1 ELSE told[p]]
    /\ Told(j)
    /\ UNCHANGED <<limit, parcel, confirm, pay, edit, spells, warned, events, hour>>

NotifyPackageExpiring(j) ==
    /\ job[j].kind = "expiring" /\ job[j].tell # {}
    /\ warned' = [p \in Packages |-> IF p \in job[j].tell THEN warned[p] + 1 ELSE warned[p]]
    /\ Told(j)
    /\ UNCHANGED <<limit, parcel, confirm, pay, edit, spells, told, events, hour>>

(* The server stops: what was in flight is lost, what was stored stays.     *)
Restart ==
    /\ Event
    /\ confirm' = [p \in Packages |-> Never]
    /\ pay' = [p \in Packages |-> NoPay]
    /\ edit' = [a \in Admins |-> NoEdit]
    /\ job' = [j \in Jobs |-> NoJob]
    /\ UNCHANGED <<limit, parcel, spells, told, warned, hour>>

Tick ==
    /\ hour < LastHour
    /\ hour' = hour + 1
    /\ UNCHANGED <<limit, parcel, confirm, pay, edit, job, spells, told, warned, events>>

Next ==
    \/ \E p \in Packages :
        \/ ReadPolicy(p) \/ ConfirmDeposit(p) \/ PickUp(p)
        \/ ReadForExtension(p) \/ SaveExtension(p)
        \/ \E j \in Jobs : MoveOverdue(j, p) \/ ClaimWarning(j, p)
    \/ \E a \in Admins :
        \/ \E l \in Limits : UpdateBuilding(a, l)
        \/ WriteBuilding(a) \/ ResyncExpiry(a) \/ RestoreWaiting(a) \/ MarkOverdue(a)
    \/ \E j \in Jobs :
        \/ HandleOverduePackagesCron(j) \/ HandleExpiringPackagesCron(j)
        \/ NotifyResidentOverdue(j) \/ NotifyPackageExpiring(j)
    \/ Restart
    \/ Tick

Spec == Init /\ [][Next]_dvars
----------------------------------------------------------------------------
(* Correctness *)

(* A package is announced as expiring at most once, also by jobs that       *)
(* overlap, after a change of its deadline and across a restart.            *)
WarnedOnce == \A p \in Packages : warned[p] <= 1

(* Residents are told of an overdue package no more often than it became    *)
(* overdue, although every job works off a list that may be stale.          *)
ToldPerSpell == \A p \in Packages : told[p] <= spells[p]

(* Once every edit and confirmation has ended, the deadline of a stored     *)
(* package is the one of the policy (buildings.service.ts:248).             *)
DeadlineFollowsPolicy ==
    (\A a \in Admins : edit[a] = NoEdit) /\ (\A p \in Packages : confirm[p] = Never)
    => \A p \in Packages : Pickupable(p) => parcel[p].expiredAt = parcel[p].droppedOffAt + limit
=============================================================================
