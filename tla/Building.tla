------------------------------ MODULE Building ------------------------------
(* What happens around the stays of a building: tickets, notices, e-invoices, *)
(* the station's status, storage deadlines and storage fees.  The parts share *)
(* no state the properties tell apart, so a behaviour explores each on its    *)
(* own: "part" names the one that moves while the others stay as they began.  *)
EXTENDS StoragePricing, FiniteSets

CONSTANTS
    Issues, BuildingAdmins, SystemAdmins, Buildings, HomeOf, Reporter, NoOne, MaxEntries,
    Users, Events, Tokens, NoToken, BatchSize,
    Orders, Calls, PollAttempts, MaxLosses,
    Creators, Handlers, Unlockers, Timeout, Cooldown, MaxMessages, LastMoment,
    Packages, Limits, Admins, Jobs, Extension, WarnHours, MaxEvents, LastHour

VARIABLES
    part,
    seq, issue, create, req,
    mail, token, live, heard, notice, send, pushed,
    eInvoice, call, series, remote, mails, lost, losses,
    station, creator, connected, handler, unlock, opened, logs, drops, backs, messages, moment,
    limit, parcel, confirm, pay, edit, job, spells, told, warned, events, hour
D == INSTANCE IssueDesk
N == INSTANCE Notifications
E == INSTANCE EInvoice
L == INSTANCE LockerStation
S == INSTANCE StorageDeadline

ASSUME BuildingAssumption ==
    /\ D!DeskAssumption /\ N!NoticeAssumption /\ E!InvoiceAssumption
    /\ L!StationAssumption /\ S!DeadlineAssumption

ivars == <<seq, issue, create, req>>
nvars == <<mail, token, live, heard, notice, send, pushed>>
evars == <<eInvoice, call, series, remote, mails, lost, losses>>
lvars == <<station, creator, connected, handler, unlock, opened, logs,
           drops, backs, messages, moment>>
dvars == <<limit, parcel, confirm, pay, edit, job, spells, told, warned, events, hour>>

allvars == <<part, vars, ivars, nvars, evars, lvars, dvars>>

Still == CHOOSE p \in Policies : TRUE

BuildingInit ==
    /\ part \in {"issues", "notices", "invoices", "station", "deadline", "fees"}
    /\ Init /\ D!Init /\ N!Init /\ E!Init /\ L!Init /\ S!Init
    /\ part # "fees" => policy = Still /\ ~subscriber
    /\ part # "station" => connected
    /\ part # "deadline" => \A l \in Limits : limit <= l

IssuesMove == part = "issues" /\ D!Next /\ UNCHANGED <<part, vars, nvars, evars, lvars, dvars>>
NoticesMove == part = "notices" /\ N!Next /\ UNCHANGED <<part, vars, ivars, evars, lvars, dvars>>
InvoicesMove == part = "invoices" /\ E!Next /\ UNCHANGED <<part, vars, ivars, nvars, lvars, dvars>>
StationMoves == part = "station" /\ L!Next /\ UNCHANGED <<part, vars, ivars, nvars, evars, dvars>>
DeadlinesMove == part = "deadline" /\ S!Next /\ UNCHANGED <<part, vars, ivars, nvars, evars, lvars>>
FeesMove == part = "fees" /\ Next /\ UNCHANGED <<part, ivars, nvars, evars, lvars, dvars>>

BuildingNext ==
    IssuesMove \/ NoticesMove \/ InvoicesMove \/ StationMoves \/ DeadlinesMove \/ FeesMove

BuildingSpec == BuildingInit /\ [][BuildingNext]_allvars

(* The type invariants of the storage fees and of the instantiated modules. *)
BuildingTypes ==
    /\ TypeOK /\ D!TypeOK /\ N!NoticesTypeOK /\ E!InvoiceTypeOK
    /\ L!StationTypeOK /\ S!DeadlineTypeOK

(* Tickets: every timeline follows the table of status changes.             *)
HistoryFollowsTable == D!HistoryFollowsTable

(* Notices: a device that was alerted finds the notice in the inbox.        *)
AlertIsStored == N!AlertIsStored

(* Notices: an answer of Expo costs no user a live token.                   *)
LiveTokenKept == N!LiveTokenKept

(* Invoices: at most one e-mail, of an issued invoice.                      *)
MailedOnce == E!MailedOnce

(* Invoices: PROCESSING is never left behind.                               *)
ProcessingHasACall == E!ProcessingHasACall

(* Station: one log entry for each loss of connection and each return.      *)
LoggedPerDrop == L!LoggedPerDrop

(* Deadlines: a package is announced as expiring once.                      *)
WarnedOnce == S!WarnedOnce

(* Deadlines: residents hear of an overdue package once per time it became  *)
(* overdue.                                                                 *)
ToldPerSpell == S!ToldPerSpell
=============================================================================
