------------------------------- MODULE Devices -------------------------------
(***************************************************************************)
(* The fleet: devices, the API keys they report with, and the requests of   *)
(* devices, operators and the scheduled sweep that change them.             *)
(*                                                                         *)
(* A request loads rows, decides on what it loaded and writes at the end;   *)
(* in between it may hold the lock of a row it has already updated.  A      *)
(* device's request first updates last_used_at of its key, and holds the    *)
(* key until it commits.  Deleting a device locks its row, then its keys.   *)
(***************************************************************************)
EXTENDS Naturals, FiniteSets, Optional

CONSTANTS
    Connection,     \* requests under way at once
    Device,         \* device identifiers
    Key,            \* API keys ever minted
    Scenario        \* what one behaviour is about: its calls, crashes and faults

Status == {"active", "inactive", "maintenance", "decommissioned"}

VARIABLES
    may,        \* the scenario of this behaviour
    devices,    \* table devices; fresh: last_online_at is after the sweep's cutoff
    keys,       \* table device_api_keys
    job         \* the request under way on a connection

fleet == <<devices, keys>>

DeviceRow == [status : Status, fresh : BOOLEAN]
KeyRow == [device : Device, state : {"good", "revoked", "expired"}]

\* At most one device has a key: which key it is makes no difference.
FleetInit ==
    /\ may \in Scenario
    /\ devices = [d \in Device |-> IF d \in may.absent THEN None
                                   ELSE [status |-> "active", fresh |-> FALSE]]
    /\ \E d \in Device :
          LET first == CHOOSE k \in Key : TRUE
          IN  keys = [k \in Key |-> IF k = first /\ d \notin may.absent
                                    THEN [device |-> d, state |-> "good"] ELSE None]
    /\ job = [c \in Connection |-> None]

-----------------------------------------------------------------------------
(* Requests.                                                               *)

Blank == [call |-> "none", device |-> None, key |-> None, loaded |-> None, now |-> None,
          crash |-> None, site |-> None, at |-> None, report |-> None, told |-> None,
          step |-> "none"]

Running(c) == job[c] # None
At(c, step) == Running(c) /\ job[c].step = step
Ready(c, call) == ~Running(c) /\ call \in may.calls

Begin(c, j) == job' = [job EXCEPT ![c] = j]
Step(c, step) == job' = [job EXCEPT ![c].step = step]
End(c) == job' = [job EXCEPT ![c] = None]

Others(c) == {job[d] : d \in {e \in Connection \ {c} : Running(e)}}

\* From the update of the key to the commit.
HoldsKey(j, k) == j.key = k /\ j.call \in {"ingest", "heartbeat"}
                            /\ j.step \in {"device", "file", "store", "save"}
HoldsRow(j, d) == j.device = d /\ j.step \in {"file", "store", "cascade"}

KeyFree(c, k) == \A j \in Others(c) : ~HoldsKey(j, k)
RowFree(c, d) == \A j \in Others(c) : ~HoldsRow(j, d)

\* authenticate_api_key
GoodKey(k) ==
    /\ keys[k] # None /\ keys[k].state = "good"
    /\ devices[keys[k].device] # None
    /\ devices[keys[k].device].status # "decommissioned"

\* A request of a device: authenticated, about to update its key.
Authenticated(k, call) ==
    [Blank EXCEPT !.call = call, !.device = keys[k].device, !.key = k,
        !.loaded = devices[keys[k].device], !.now = devices[keys[k].device], !.step = "key"]

\* touch_last_used; of a key that is gone it updates nothing.
TouchKey(c) ==
    /\ At(c, "key")
    /\ KeyFree(c, job[c].key)
    /\ Step(c, IF job[c].call = "heartbeat" THEN "save" ELSE "device")
    /\ UNCHANGED fleet

\* What a heartbeat makes of the row it loaded: told is the status it carries, if any.
CheckedIn(row, told) ==
    [row EXCEPT !.fresh = TRUE,
        !.status = CASE told \in Status -> told
                     [] told = None /\ row.status = "inactive" -> "active"
                     [] OTHER -> row.status]

\* The body of a heartbeat may be missing altogether.
Heartbeat(c, k, told) ==
    /\ Ready(c, "heartbeat")
    /\ GoodKey(k)
    /\ Begin(c, [Authenticated(k, "heartbeat") EXCEPT !.told = told,
                    !.now = CheckedIn(devices[keys[k].device], told)])
    /\ UNCHANGED fleet

\* A signed-in user checks a device in on its behalf, whatever its status.
HeartbeatById(c, d, told) ==
    /\ Ready(c, "heartbeat")
    /\ devices[d] # None
    /\ Begin(c, [Blank EXCEPT !.call = "heartbeat", !.device = d, !.step = "save", !.told = told,
                    !.loaded = devices[d], !.now = CheckedIn(devices[d], told)])
    /\ UNCHANGED fleet

\* An operator's PATCH of the status.
Configure(c, d, status) ==
    /\ Ready(c, "configure")
    /\ devices[d] # None
    /\ Begin(c, [Blank EXCEPT !.call = "configure", !.device = d, !.step = "save",
                    !.loaded = devices[d], !.now = [devices[d] EXCEPT !.status = status]])
    /\ UNCHANGED fleet

\* Mutant of Save: every column is written, as it was loaded or changed.
SaveWholeRow(c) ==
    LET j == job[c]
    IN  /\ At(c, "save")
        /\ RowFree(c, j.device)
        /\ devices' = IF devices[j.device] = None THEN devices
                      ELSE [devices EXCEPT ![j.device] = j.now]
        /\ End(c)
        /\ UNCHANGED keys

\* The flush writes the columns whose value is not the loaded one, last_online_at
\* of a check-in always; it fails when the row is gone.
Save(c) ==
    LET j == job[c]
        row == devices[j.device]
    IN  /\ At(c, "save")
        /\ RowFree(c, j.device)
        /\ devices' = IF row = None THEN devices
                      ELSE [devices EXCEPT ![j.device] =
                              [status |-> IF j.now.status # j.loaded.status THEN j.now.status
                                          ELSE row.status,
                               fresh |-> j.call = "heartbeat" \/ row.fresh]]
        /\ End(c)
        /\ UNCHANGED keys

\* The identifier is checked first and unique in the table.
Register(c, d, status) ==
    /\ Ready(c, "register")
    /\ devices[d] = None
    /\ Begin(c, [Blank EXCEPT !.call = "register", !.device = d, !.step = "insert",
                    !.now = [status |-> status, fresh |-> FALSE]])
    /\ UNCHANGED fleet

Mint(c, d) ==
    /\ Ready(c, "mint")
    /\ devices[d] # None
    /\ Begin(c, [Blank EXCEPT !.call = "mint", !.device = d, !.step = "insert"])
    /\ UNCHANGED fleet

\* A second device of one identifier, and a key of no device, are refused.
Insert(c) ==
    LET d == job[c].device IN
    /\ At(c, "insert")
    /\ RowFree(c, d)
    /\ \/ /\ job[c].call = "register"
          /\ devices' = IF devices[d] # None THEN devices
                        ELSE [devices EXCEPT ![d] = job[c].now]
          /\ UNCHANGED keys
       \/ /\ job[c].call = "mint"
          /\ LET free == {k \in Key : keys[k] = None}
             IN  keys' = IF devices[d] = None \/ free = {} THEN keys
                         ELSE [keys EXCEPT ![CHOOSE k \in free : TRUE] =
                                  [device |-> d, state |-> "good"]]
          /\ UNCHANGED devices
    /\ End(c)

Revoke(c, k) ==
    /\ Ready(c, "revoke")
    /\ keys[k] # None
    /\ Begin(c, [Blank EXCEPT !.call = "revoke", !.device = keys[k].device, !.key = k,
                    !.step = "strike"])
    /\ UNCHANGED fleet

Strike(c) ==
    LET k == job[c].key IN
    /\ At(c, "strike")
    /\ KeyFree(c, k)
    /\ keys' = IF keys[k] = None THEN keys ELSE [keys EXCEPT ![k].state = "revoked"]
    /\ End(c)
    /\ UNCHANGED devices

Remove(c, d) ==
    /\ Ready(c, "remove")
    /\ devices[d] # None
    /\ Begin(c, [Blank EXCEPT !.call = "remove", !.device = d, !.step = "delete"])
    /\ UNCHANGED fleet

\* DELETE locks the device's row, ...
LockRow(c) ==
    /\ At(c, "delete")
    /\ RowFree(c, job[c].device)
    /\ Step(c, "cascade")
    /\ UNCHANGED fleet

\* ... the cascade deletes its keys once no request holds one, and commits.
Cascade(c) ==
    LET d == job[c].device
        lost == {k \in Key : keys[k] # None /\ keys[k].device = d}
    IN  /\ At(c, "cascade")
        /\ \A k \in lost : KeyFree(c, k)
        /\ devices' = [devices EXCEPT ![d] = None]
        /\ keys' = [k \in Key |-> IF k \in lost THEN None ELSE keys[k]]
        /\ End(c)

\* The database ends a cycle of waits: a request that holds a key waits for the row
\* whose deletion waits for the key.  Either is rolled back.
Victim(c) ==
    LET Crossed(j, i) == /\ j.step \in {"device", "save"} /\ j.key # None
                         /\ i.step = "cascade" /\ i.device = j.device
    IN  /\ Running(c)
        /\ \E j \in Others(c) : Crossed(job[c], j) \/ Crossed(j, job[c])
        /\ End(c)
        /\ UNCHANGED fleet

-----------------------------------------------------------------------------
(* The sweep and time.                                                     *)

IsStale(row) == row # None /\ row.status = "active" /\ ~row.fresh

\* One UPDATE; it waits for rows others hold.
MarkStaleDevicesInactive ==
    /\ "sweep" \in may.calls
    /\ \A d \in Device : IsStale(devices[d]) =>
          \A c \in Connection : Running(c) => ~HoldsRow(job[c], d)
    /\ \E d \in Device : IsStale(devices[d])
    /\ devices' = [d \in Device |-> IF IsStale(devices[d])
                                    THEN [devices[d] EXCEPT !.status = "inactive"]
                                    ELSE devices[d]]
    /\ UNCHANGED <<keys, job>>

Silence(d) ==
    /\ "sweep" \in may.calls
    /\ devices[d] # None /\ devices[d].fresh
    /\ devices' = [devices EXCEPT ![d].fresh = FALSE]
    /\ UNCHANGED <<keys, job>>

Expire(k) ==
    /\ "revoke" \in may.calls
    /\ keys[k] # None /\ keys[k].state = "good"
    /\ keys' = [keys EXCEPT ![k].state = "expired"]
    /\ UNCHANGED <<devices, job>>
=============================================================================
