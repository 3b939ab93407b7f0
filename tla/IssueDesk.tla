----------------------------- MODULE IssueDesk -----------------------------
(***************************************************************************)
(* Trouble tickets: their codes, the table of status changes, escalation to *)
(* the system administrator and the timeline each ticket carries.           *)
(*                                                                          *)
(* A handler reads the ticket, looks its actor up and then writes with a    *)
(* condition on the status; other administrators act between the read and   *)
(* the write.  The notices a handler sends once its write is done are those *)
(* of module Notifications: nothing here reads them.                        *)
(***************************************************************************)
EXTENDS Integers, Sequences, FiniteSets

CONSTANTS
    Issues,          \* tickets that may be reported
    BuildingAdmins,
    SystemAdmins,
    Buildings,
    HomeOf,          \* the building of each building administrator
    Reporter,        \* the resident who reports
    NoOne,           \* assignee absent
    MaxEntries       \* bound: entries of all the timelines

Staff == BuildingAdmins \cup SystemAdmins

DeskAssumption ==
    /\ HomeOf \in [BuildingAdmins -> Buildings]
    /\ BuildingAdmins \cap SystemAdmins = {}
    /\ Reporter \notin Staff /\ NoOne \notin Staff
    /\ MaxEntries \in Nat

VARIABLES
    seq,        \* the counter document of ticket codes
    issue,      \* the issues collection
    create,     \* the request that reports each ticket
    req         \* the request each administrator has in flight

vars == <<seq, issue, create, req>>
----------------------------------------------------------------------------
Status == {"PENDING", "IN_PROGRESS", "ESCALATED", "RESOLVED", "CLOSED"}

Transitions ==
    [s \in Status |->
        CASE s = "PENDING" -> {"IN_PROGRESS", "RESOLVED"}
          [] s = "IN_PROGRESS" -> {"RESOLVED"}
          [] s = "ESCALATED" -> {"IN_PROGRESS", "RESOLVED"}
          [] s = "RESOLVED" -> {"CLOSED", "IN_PROGRESS"}
          [] s = "CLOSED" -> {}]

Escalatable == {"PENDING", "IN_PROGRESS"}

Entry == [by: Staff \cup {Reporter}, from: Status \cup {"NONE"}, to: Status]

Issue == [code: Nat, building: Buildings, status: Status,
          assignee: Staff \cup {NoOne}, escalated: BOOLEAN,
          timeline: Seq(Entry)]

NotReported == [code |-> 0]

Create == [pc: {"idle", "located", "coded", "over"},
           building: Buildings, code: Nat]

Request == [pc: {"idle", "status", "escalate"},
            issue: Issues, read: Status, unassigned: BOOLEAN, to: Status]

NoRequest == [pc |-> "idle"]

TypeOK ==
    /\ seq \in Nat
    /\ issue \in [Issues -> Issue \cup {NotReported}]
    /\ create \in [Issues -> Create \cup {NoRequest}]
    /\ req \in [Staff -> Request \cup {NoRequest}]

Init ==
    /\ seq = 0
    /\ issue = [i \in Issues |-> NotReported]
    /\ create = [i \in Issues |-> NoRequest]
    /\ req = [a \in Staff |-> NoRequest]

Reported(i) == issue[i] # NotReported

CanAccess(a, b) == a \in BuildingAdmins => HomeOf[a] = b
----------------------------------------------------------------------------
(* Reporting a ticket *)

(* The location is resolved and the pictures are uploaded: a rejected       *)
(* upload ends the request before anything is stored.                       *)
Locate(i, b) ==
    /\ create[i] = NoRequest
    /\ create' = [create EXCEPT ![i] = [pc |-> "located", building |-> b, code |-> 0]]
    /\ UNCHANGED <<seq, issue, req>>

UploadFails(i) ==
    /\ create[i].pc = "located"
    /\ create' = [create EXCEPT ![i].pc = "over"]
    /\ UNCHANGED <<seq, issue, req>>

NextTicketCode(i) ==
    /\ create[i].pc = "located"
    /\ seq' = seq + 1
    /\ create' = [create EXCEPT ![i].pc = "coded", ![i].code = seq']
    /\ UNCHANGED <<issue, req>>

(* Mutant: the schema's default status is gone.                             *)
InsertWithoutStatus(i) ==
    /\ create[i].pc = "coded"
    /\ issue' = [issue EXCEPT ![i] =
          [code |-> create[i].code, building |-> create[i].building,
           status |-> "NONE", assignee |-> NoOne, escalated |-> FALSE,
           timeline |-> <<[by |-> Reporter, from |-> "NONE", to |-> "PENDING"]>>]]
    /\ create' = [create EXCEPT ![i].pc = "over"]
    /\ UNCHANGED <<seq, req>>

Insert(i) ==
    /\ create[i].pc = "coded"
    /\ issue' = [issue EXCEPT ![i] =
          [code |-> create[i].code, building |-> create[i].building,
           status |-> "PENDING", assignee |-> NoOne, escalated |-> FALSE,
           timeline |-> <<[by |-> Reporter, from |-> "NONE", to |-> "PENDING"]>>]]
    /\ create' = [create EXCEPT ![i].pc = "over"]
    /\ UNCHANGED <<seq, req>>
----------------------------------------------------------------------------
(* Handling a ticket *)

HasRoom ==
    Cardinality(UNION {{<<i, k>> : k \in DOMAIN issue[i].timeline} :
                       i \in {j \in Issues : Reported(j)}}) < MaxEntries

Push(i, entry) == Append(issue[i].timeline, entry)

ReadForStatus(a, i, to) ==
    /\ req[a].pc = "idle" /\ Reported(i) /\ CanAccess(a, issue[i].building)
    /\ to \in Transitions[issue[i].status]
    /\ issue[i].status = "ESCALATED" => a \in SystemAdmins
    /\ req' = [req EXCEPT ![a] =
          [pc |-> "status", issue |-> i, read |-> issue[i].status,
           unassigned |-> issue[i].assignee = NoOne, to |-> to]]
    /\ UNCHANGED <<seq, issue, create>>

WriteStatus(a) ==
    LET r == req[a]
        i == r.issue
    IN  /\ r.pc = "status" /\ issue[i].status = r.read
        /\ HasRoom
        /\ issue' = [issue EXCEPT ![i].status = r.to,
                ![i].assignee = IF r.to = "IN_PROGRESS" /\ r.unassigned THEN a ELSE @,
                ![i].timeline = Push(i, [by |-> a, from |-> r.read, to |-> r.to])]
        /\ req' = [req EXCEPT ![a] = NoRequest]
        /\ UNCHANGED <<seq, create>>

ReadForEscalation(a, i) ==
    /\ req[a].pc = "idle" /\ Reported(i)
    /\ a \in BuildingAdmins /\ CanAccess(a, issue[i].building)
    /\ issue[i].status \in Escalatable
    /\ req' = [req EXCEPT ![a] =
          [pc |-> "escalate", issue |-> i, read |-> issue[i].status,
           unassigned |-> issue[i].assignee = NoOne, to |-> "ESCALATED"]]
    /\ UNCHANGED <<seq, issue, create>>

(* Mutant: the write of an escalation matches the ticket by its id alone.   *)
EscalateById(a) ==
    LET r == req[a]
        i == r.issue
    IN  /\ r.pc = "escalate" /\ HasRoom
        /\ issue' = [issue EXCEPT ![i].status = "ESCALATED", ![i].escalated = TRUE,
                ![i].timeline = Push(i, [by |-> a, from |-> r.read, to |-> "ESCALATED"])]
        /\ req' = [req EXCEPT ![a] = NoRequest]
        /\ UNCHANGED <<seq, create>>

(* Any escalatable status will do, not only the one that was read: the      *)
(* entry's "from" may be older than the status it replaces.                 *)
Escalate(a) ==
    LET r == req[a]
        i == r.issue
    IN  /\ r.pc = "escalate" /\ issue[i].status \in Escalatable
        /\ HasRoom
        /\ issue' = [issue EXCEPT ![i].status = "ESCALATED", ![i].escalated = TRUE,
                ![i].timeline = Push(i, [by |-> a, from |-> r.read, to |-> "ESCALATED"])]
        /\ req' = [req EXCEPT ![a] = NoRequest]
        /\ UNCHANGED <<seq, create>>

(* Nothing matched the condition of the write: 409 Conflict.                *)
Conflict(a) ==
    LET r == req[a]
    IN  /\ \/ r.pc = "status" /\ issue[r.issue].status # r.read
           \/ r.pc = "escalate" /\ issue[r.issue].status \notin Escalatable
        /\ req' = [req EXCEPT ![a] = NoRequest]
        /\ UNCHANGED <<seq, issue, create>>

Next ==
    \/ \E i \in Issues :
        \/ \E b \in Buildings : Locate(i, b)
        \/ UploadFails(i) \/ NextTicketCode(i) \/ Insert(i)
    \/ \E a \in Staff :
        \/ \E i \in Issues, to \in Status : ReadForStatus(a, i, to)
        \/ \E i \in Issues : ReadForEscalation(a, i)
        \/ WriteStatus(a) \/ Escalate(a) \/ Conflict(a)

Spec == Init /\ [][Next]_vars
----------------------------------------------------------------------------
(* Correctness *)

Steps(i) == 2..Len(issue[i].timeline)

(* The timeline runs through the table of updateStatus, or an escalation of *)
(* a ticket that may still be escalated, and ends in the ticket's status:   *)
(* administrators acting on stale reads never skip a step of the table,     *)
(* nothing follows CLOSED, and only a system administrator moves an         *)
(* escalated ticket on, also when others read it before the escalation.     *)
HistoryFollowsTable ==
    \A i \in {j \in Issues : Reported(j)} :
        LET t == issue[i].timeline
        IN  /\ t[Len(t)].to = issue[i].status
            /\ \A k \in Steps(i) :
                 /\ \/ t[k].to \in Transitions[t[k-1].to] /\ t[k].from = t[k-1].to
                    \/ t[k].to = "ESCALATED" /\ t[k-1].to \in Escalatable
                 /\ t[k-1].to = "ESCALATED" => t[k].by \in SystemAdmins
=============================================================================
