---------------------------- MODULE LockerStation ----------------------------
(***************************************************************************)
(* One locker station: its creation, the status its messages and the        *)
(* administrators write, and the remote unlock of a box.                    *)
(*                                                                          *)
(* The messages of a station are handled concurrently: MQTT's callback does *)
(* not wait for the handler.  Each database call is a step of its own.      *)
(***************************************************************************)
EXTENDS Integers

CONSTANTS
    Creators,       \* requests to create the station
    Handlers,       \* messages being handled
    Unlockers,      \* requests to open one of its boxes
    Timeout,        \* HEARTBEAT_TIMEOUT_MS
    Cooldown,       \* UNLOCK_COOLDOWN_MS
    MaxMessages,    \* bound: messages and edits together
    LastMoment      \* bound: the clock

StationAssumption == \A n \in {Timeout, Cooldown, MaxMessages, LastMoment} : n \in Nat

VARIABLES
    station,    \* the Locker document
    creator,    \* where each creation is
    connected,  \* isConnected of the broker
    handler,    \* each message: what is left to do, and its "now"
    unlock,     \* where each unlock is
    opened,     \* the latest REMOTE_OPEN of the box in LockerLog
    logs,       \* activity log entries on the station's connection
    drops,      \* times a message took the station OFFLINE
    backs,      \* times a message brought it back
    messages,
    moment

lvars == <<station, creator, connected, handler, unlock, opened, logs,
           drops, backs, messages, moment>>
----------------------------------------------------------------------------
Never == -1     \* an absent date

Absent == [status |-> "ABSENT", lastHeartbeatAt |-> Never, boxes |-> FALSE]

Ready == [pc |-> "ready", now |-> Never]

StationTypeOK ==
    /\ station \in [status: {"ABSENT", "ONLINE", "OFFLINE", "MAINTENANCE"},
                    lastHeartbeatAt: Nat \cup {Never}, boxes: BOOLEAN]
    /\ creator \in [Creators -> {"idle", "insert", "boxes", "done"}]
    /\ connected \in BOOLEAN
    /\ handler \in [Handlers -> [pc: {"ready", "offline", "online", "logDrop", "logBack", "beat"},
                                 now: Nat \cup {Never}]]
    /\ unlock \in [Unlockers -> {"idle", "recent", "publish", "sent", "failed"}]
    /\ opened \in Nat \cup {Never}
    /\ logs \in [offline: Nat, online: Nat]
    /\ drops \in Nat /\ backs \in Nat
    /\ messages \in 0..MaxMessages /\ moment \in 0..LastMoment
    /\ station.status = "ABSENT" => station = Absent

Init ==
    /\ station = Absent
    /\ creator = [c \in Creators |-> "idle"]
    /\ connected \in BOOLEAN
    /\ handler = [h \in Handlers |-> Ready]
    /\ unlock = [u \in Unlockers |-> "idle"]
    /\ opened = Never
    /\ logs = [offline |-> 0, online |-> 0]
    /\ drops = 0 /\ backs = 0
    /\ messages = 0
    /\ moment = 0

Message == messages < MaxMessages /\ messages' = messages + 1

(* getLockerHealth, resolveEffectiveStatus and isLockerOnline.              *)
IsLockerOnline ==
    /\ station.status = "ONLINE" /\ station.lastHeartbeatAt # Never
    /\ moment - station.lastHeartbeatAt <= Timeout
----------------------------------------------------------------------------
(* create: the code is looked up, the document inserted under its unique    *)
(* code, then the boxes; nothing takes the station back if those fail.      *)

Create(c) ==
    /\ creator[c] = "idle"
    /\ creator' = [creator EXCEPT ![c] = IF station = Absent THEN "insert" ELSE "done"]
    /\ UNCHANGED <<station, connected, handler, unlock, opened, logs,
                   drops, backs, messages, moment>>

InsertLocker(c) ==
    /\ creator[c] = "insert"
    /\ creator' = [creator EXCEPT ![c] = IF station = Absent THEN "boxes" ELSE "done"]
    /\ station' = IF station = Absent THEN [station EXCEPT !.status = "ONLINE"] ELSE station
    /\ UNCHANGED <<connected, handler, unlock, opened, logs, drops, backs, messages, moment>>

InsertBoxes(c) ==
    /\ creator[c] = "boxes"
    /\ creator' = [creator EXCEPT ![c] = "done"]
    /\ \E inserted \in BOOLEAN : station' = [station EXCEPT !.boxes = inserted]
    /\ UNCHANGED <<connected, handler, unlock, opened, logs, drops, backs, messages, moment>>

(* update of the station by an administrator; its log entry is not one of   *)
(* those counted here.                                                      *)
Update(status) ==
    /\ station # Absent
    /\ Message
    /\ station' = [station EXCEPT !.status = status]
    /\ UNCHANGED <<creator, connected, handler, unlock, opened, logs, drops, backs, moment>>
----------------------------------------------------------------------------
(* handleIncomingMessage                                                    *)

(* The client's connection comes and goes; messages are lost without it.    *)
Connect ==
    /\ connected' = ~connected
    /\ UNCHANGED <<station, creator, handler, unlock, opened, logs, drops, backs, messages, moment>>

(* OFFLINE, or any event of a living station, whose time is taken first.    *)
HandleIncomingMessage(h, event) ==
    /\ connected /\ handler[h] = Ready
    /\ Message
    /\ handler' = [handler EXCEPT ![h] =
            [pc |-> event, now |-> IF event = "online" THEN moment ELSE Never]]
    /\ UNCHANGED <<station, creator, connected, unlock, opened, logs, drops, backs, moment>>

(* Mutant: only MAINTENANCE is excluded, so every message is logged.        *)
WriteOfflineAgain(h) ==
    LET matches == station.status \notin {"ABSENT", "MAINTENANCE"}
    IN  /\ handler[h].pc = "offline"
        /\ station' = IF matches THEN [station EXCEPT !.status = "OFFLINE"] ELSE station
        /\ drops' = IF matches /\ station.status # "OFFLINE" THEN drops + 1 ELSE drops
        /\ handler' = [handler EXCEPT ![h] = IF matches THEN [@ EXCEPT !.pc = "logDrop"] ELSE Ready]
        /\ UNCHANGED <<creator, connected, unlock, opened, logs, backs, messages, moment>>

WriteOffline(h) ==
    LET matches == station.status = "ONLINE"
    IN  /\ handler[h].pc = "offline"
        /\ station' = IF matches THEN [station EXCEPT !.status = "OFFLINE"] ELSE station
        /\ drops' = IF matches THEN drops + 1 ELSE drops
        /\ handler' = [handler EXCEPT ![h] = IF matches THEN [@ EXCEPT !.pc = "logDrop"] ELSE Ready]
        /\ UNCHANGED <<creator, connected, unlock, opened, logs, backs, messages, moment>>

(* A station in maintenance keeps its status; the time is the handler's.    *)
WriteOnline(h) ==
    LET matches == station.status \in {"ONLINE", "OFFLINE"}
        returns == station.status = "OFFLINE"
    IN  /\ handler[h].pc = "online"
        /\ station' = IF matches
                      THEN [station EXCEPT !.status = "ONLINE", !.lastHeartbeatAt = handler[h].now]
                      ELSE station
        /\ backs' = IF returns THEN backs + 1 ELSE backs
        /\ handler' = [handler EXCEPT ![h].pc = IF returns THEN "logBack" ELSE "beat"]
        /\ UNCHANGED <<creator, connected, unlock, opened, logs, drops, messages, moment>>

(* A failed log entry is a warning and nothing else.                        *)
LogDrop(h) ==
    /\ handler[h].pc = "logDrop"
    /\ \E written \in BOOLEAN :
            logs' = IF written THEN [logs EXCEPT !.offline = @ + 1] ELSE logs
    /\ handler' = [handler EXCEPT ![h] = Ready]
    /\ UNCHANGED <<station, creator, connected, unlock, opened, drops, backs, messages, moment>>

LogBack(h) ==
    /\ handler[h].pc = "logBack"
    /\ \E written \in BOOLEAN :
            logs' = IF written THEN [logs EXCEPT !.online = @ + 1] ELSE logs
    /\ handler' = [handler EXCEPT ![h].pc = "beat"]
    /\ UNCHANGED <<station, creator, connected, unlock, opened, drops, backs, messages, moment>>

BeatInMaintenance(h) ==
    /\ handler[h].pc = "beat"
    /\ station' = IF station.status = "MAINTENANCE"
                  THEN [station EXCEPT !.lastHeartbeatAt = handler[h].now] ELSE station
    /\ handler' = [handler EXCEPT ![h] = Ready]
    /\ UNCHANGED <<creator, connected, unlock, opened, logs, drops, backs, messages, moment>>
----------------------------------------------------------------------------
(* unlockBox: the station must be online and the box not just opened.       *)

UnlockBox(u) ==
    /\ unlock[u] = "idle" /\ station.boxes /\ IsLockerOnline
    /\ unlock' = [unlock EXCEPT ![u] = "recent"]
    /\ UNCHANGED <<station, creator, connected, handler, opened, logs,
                   drops, backs, messages, moment>>

RecentlyOpened(u) ==
    LET recent == opened # Never /\ moment - opened <= Cooldown
    IN  /\ unlock[u] = "recent"
        /\ unlock' = [unlock EXCEPT ![u] = IF recent THEN "idle" ELSE "publish"]
        /\ UNCHANGED <<station, creator, connected, handler, opened, logs,
                       drops, backs, messages, moment>>

(* Without a connection the command waits in the client's queue.            *)
PublishDoorUnlock(u) ==
    /\ unlock[u] = "publish"
    /\ \E result \in {"sent", "failed"} :
            /\ result = "sent" => connected
            /\ unlock' = [unlock EXCEPT ![u] = result]
    /\ UNCHANGED <<station, creator, connected, handler, opened, logs,
                   drops, backs, messages, moment>>

(* Logged whether it was sent or not; a failed entry ends in a warning.     *)
RecordLockerAction(u) ==
    /\ unlock[u] \in {"sent", "failed"}
    /\ \E written \in BOOLEAN : opened' = IF written THEN moment ELSE opened
    /\ unlock' = [unlock EXCEPT ![u] = "idle"]
    /\ UNCHANGED <<station, creator, connected, handler, logs, drops, backs, messages, moment>>

Tick ==
    /\ moment < LastMoment
    /\ moment' = moment + 1
    /\ UNCHANGED <<station, creator, connected, handler, unlock, opened,
                   logs, drops, backs, messages>>

Next ==
    \/ \E c \in Creators : Create(c) \/ InsertLocker(c) \/ InsertBoxes(c)
    \/ \E status \in {"ONLINE", "OFFLINE", "MAINTENANCE"} : Update(status)
    \/ Connect
    \/ \E h \in Handlers :
        \/ \E event \in {"offline", "online"} : HandleIncomingMessage(h, event)
        \/ WriteOffline(h) \/ WriteOnline(h)
        \/ LogDrop(h) \/ LogBack(h) \/ BeatInMaintenance(h)
    \/ \E u \in Unlockers :
        \/ UnlockBox(u) \/ RecentlyOpened(u) \/ PublishDoorUnlock(u) \/ RecordLockerAction(u)
    \/ Tick

Spec == Init /\ [][Next]_lvars
----------------------------------------------------------------------------
(* Correctness *)

(* The log of a station's connection has no more entries than the station   *)
(* had changes, however many messages say the same and whichever overtakes  *)
(* which (mqtt.service.ts:176).                                             *)
LoggedPerDrop == logs.offline <= drops /\ logs.online <= backs
=============================================================================
