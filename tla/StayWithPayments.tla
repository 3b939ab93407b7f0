-------------------------- MODULE StayWithPayments --------------------------
(***************************************************************************)
(* The stay of a package together with the one writer of its status that    *)
(* DepositPickup leaves out: the completion of a remote payment reads the   *)
(* package, and in a later update makes it wait again if it was OVERDUE.    *)
(* A completion that read anything else writes no status and is left out.   *)
(* A revived package may be picked up while its return still has the box    *)
(* to free: release then follows the pickup, the later of the two, whose    *)
(* write frees the box in any case.                                         *)
(***************************************************************************)
EXTENDS DepositPickup

CONSTANT Completions      \* completePaidPayment calls in flight

VARIABLE extension        \* the package each completion has read as OVERDUE

stayVars == <<vars, extension>>

StayTypeOK == TypeOK /\ extension \in [Completions -> Packages \cup {NoPkg}]

StayInit == Init /\ extension = [e \in Completions |-> NoPkg]
----------------------------------------------------------------------------
ReadPackage(e, p) ==
    /\ extension[e] = NoPkg /\ pkg[p].status = "OVERDUE"
    /\ extension' = [extension EXCEPT ![e] = p]
    /\ UNCHANGED vars

(* The update spares a package picked up meanwhile, and only that one.      *)
ExtendPackage(e) ==
    /\ extension[e] # NoPkg
    /\ pkg' = [pkg EXCEPT ![extension[e]].status =
                 IF @ = "PICKED_UP" THEN @ ELSE "WAITING_FOR_PICKUP"]
    /\ extension' = [extension EXCEPT ![e] = NoPkg]
    /\ UNCHANGED <<now, box, drop, release, queue, task, faults>>

(* The update throws, or the server is started again before it.             *)
CompletionEnds(e) ==
    /\ extension[e] # NoPkg
    /\ extension' = [extension EXCEPT ![e] = NoPkg]
    /\ UNCHANGED vars
----------------------------------------------------------------------------
Completion(e) ==
    \/ \E p \in Packages : ReadPackage(e, p)
    \/ ExtendPackage(e) \/ CompletionEnds(e)

StayNext ==
    \/ Next /\ UNCHANGED extension
    \/ \E e \in Completions : Completion(e)

StaySpec == StayInit /\ [][StayNext]_stayVars

(* Handlers, jobs, cron and clock as in DepositPickup.  No completion is    *)
(* obliged to run.                                                          *)
StayFairSpec == StaySpec /\ Fairness
----------------------------------------------------------------------------
(* Properties *)

(* No drop-off, watcher's job, pickup, return or cron changes the status of *)
(* a package whose stay has ended, also when a payment interferes; a        *)
(* payment can revive only a returned one, and only if its completion read  *)
(* it while it was OVERDUE.  A picked up or cancelled package stays so.     *)
OnlyLatePaymentRevives ==
    [][\A p \in Packages : pkg[p].status \in EndedStatuses =>
         \/ pkg'[p].status = pkg[p].status
         \/ /\ pkg[p].status = "RETURNED" /\ pkg'[p].status = "WAITING_FOR_PICKUP"
            /\ \E e \in Completions : extension[e] = p]_stayVars
=============================================================================
