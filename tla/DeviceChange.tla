---------------------------- MODULE DeviceChange ---------------------------
(***************************************************************************)
(* How the Windows service notices disks (FlashControlAgent/service.py,    *)
(* run and device_change_payload): a periodic scan, and a rescan a little  *)
(* after Windows announces a change, whose difference from device_cache    *)
(* becomes connected and disconnected observations.                        *)
(*                                                                         *)
(* The service is one thread; SvcOtherEx runs on another and only sets an  *)
(* auto-reset event.  Disks come and go at any time, also during a scan.   *)
(* A disk stands for its device_key; disks without one are never cached    *)
(* and are left out.  A pass of the loop that waits takes one unit of time.*)
(***************************************************************************)
EXTENDS Integers, FiniteSets

CONSTANTS
    Disks,         \* device_key values
    Interval,      \* interval_seconds in units of the model's time
    Debounce,      \* device_event_debounce_seconds in the same units
    MaxItems,      \* queue_max_items
    MaxChanges,    \* bound: how often a disk comes or goes
    MaxFailures,   \* bound: how often a scan raises
    MaxRestarts    \* bound: how often the service is restarted

ASSUME BoundsAssumption ==
    /\ IsFiniteSet(Disks)
    /\ Interval \in Nat \ {0}
    /\ Debounce \in Nat
    /\ MaxItems \in Nat \ {0}
    /\ MaxChanges \in Nat
    /\ MaxFailures \in Nat
    /\ MaxRestarts \in Nat

NoScan == -1   \* device_scan_at is None

VARIABLES
    plugged,         \* the disks that are there
    subscribed,      \* RegisterDeviceNotification succeeded
    deviceEvent,     \* the auto-reset event SvcOtherEx sets
    pc,              \* where the loop stands
    scanAt,          \* device_scan_at minus now, or NoScan
    nextCollection,  \* next_collection_at minus now, 0 when due
    notified,        \* device_notification_scan
    snapshot,        \* what the last scan saw
    cache,           \* device_cache
    used,            \* rows of the delivery queue
    lastQueued,      \* per disk: the last observation that entered the queue
    refused,         \* history: the full queue has turned a scan away
    changes, failures, restarts

queue == <<used, lastQueued, refused>>
loop == <<scanAt, nextCollection, notified>>
bounds == <<changes, failures, restarts>>
vars == <<plugged, subscribed, deviceEvent, pc, loop, snapshot, cache, queue,
          bounds>>

Init ==
    /\ plugged \in SUBSET Disks
    /\ subscribed \in BOOLEAN
    /\ deviceEvent = FALSE
    /\ pc = "top"
    /\ scanAt = NoScan
    /\ nextCollection = 0
    /\ notified = FALSE
    /\ snapshot = {}
    /\ cache = {}
    /\ used = 0
    /\ lastQueued = [d \in Disks |-> "nothing"]
    /\ refused = FALSE
    /\ changes = 0
    /\ failures = 0
    /\ restarts = 0

----------------------------------------------------------------------------

\* A disk arrives or is removed; SvcOtherEx sets the event.
Change(d) ==
    /\ changes < MaxChanges
    /\ changes' = changes + 1
    /\ plugged' = IF d \in plugged THEN plugged \ {d} ELSE plugged \union {d}
    /\ deviceEvent' = (deviceEvent \/ (subscribed /\ pc # "down"))
    /\ UNCHANGED <<subscribed, pc, loop, snapshot, cache, queue,
                   failures, restarts>>

----------------------------------------------------------------------------
(* One pass of the loop *)

\* A due notification makes the collection due and marks it.
Top ==
    /\ pc = "top"
    /\ IF scanAt = 0
       THEN scanAt' = NoScan /\ nextCollection' = 0 /\ notified' = TRUE
       ELSE UNCHANGED loop
    /\ pc' = IF nextCollection' = 0 THEN "capture" ELSE "deliver"
    /\ UNCHANGED <<plugged, subscribed, deviceEvent, snapshot, cache, queue,
                   bounds>>

\* capture_collector_json
Capture ==
    /\ pc = "capture"
    /\ snapshot' = plugged
    /\ pc' = "process"
    /\ UNCHANGED <<plugged, subscribed, deviceEvent, loop, cache, queue,
                   bounds>>

\* The finally clause and the line after it.
EndCollection ==
    /\ notified' = FALSE
    /\ nextCollection' = Interval
    /\ pc' = "deliver"
    /\ UNCHANGED scanAt

CaptureFails ==
    /\ pc = "capture"
    /\ failures < MaxFailures
    /\ failures' = failures + 1
    /\ EndCollection
    /\ UNCHANGED <<plugged, subscribed, deviceEvent, snapshot, cache, queue,
                   changes, restarts>>

\* enqueue_json of one observation per disk of reported: an empty payload and
\* a full queue raise, and the loop logs it.
Enqueue(reported, kind) ==
    IF reported # {} /\ used + Cardinality(reported) <= MaxItems
    THEN /\ used' = used + Cardinality(reported)
         /\ lastQueued' = [d \in Disks |->
                             IF d \in reported THEN kind[d] ELSE lastQueued[d]]
         /\ UNCHANGED refused
    ELSE /\ refused' = (refused \/ reported # {})
         /\ UNCHANGED <<used, lastQueued>>

\* Mutant of ProcessNotification: previous_devices is not cleared.
ProcessNotificationAdding ==
    /\ pc = "process"
    /\ notified
    /\ cache' = cache \union snapshot
    /\ Enqueue((cache \ snapshot) \union (snapshot \ cache),
               [d \in Disks |-> IF d \in snapshot THEN "connected" ELSE "disconnected"])
    /\ EndCollection
    /\ UNCHANGED <<plugged, subscribed, deviceEvent, snapshot, bounds>>

\* device_change_payload: the cache is replaced before the queue is asked.
ProcessNotification ==
    /\ pc = "process"
    /\ notified
    /\ cache' = snapshot
    /\ Enqueue((cache \ snapshot) \union (snapshot \ cache),
               [d \in Disks |-> IF d \in snapshot THEN "connected" ELSE "disconnected"])
    /\ EndCollection
    /\ UNCHANGED <<plugged, subscribed, deviceEvent, snapshot, bounds>>

\* Mutant of ProcessPeriodic: the cache is left to the notifications.
ProcessPeriodicUncached ==
    /\ pc = "process"
    /\ ~ notified
    /\ Enqueue(snapshot, [d \in Disks |-> "present"])
    /\ EndCollection
    /\ UNCHANGED <<plugged, subscribed, deviceEvent, snapshot, cache, bounds>>

\* The periodic scan replaces the cache too and reports what is there.
ProcessPeriodic ==
    /\ pc = "process"
    /\ ~ notified
    /\ cache' = snapshot
    /\ Enqueue(snapshot, [d \in Disks |-> "present"])
    /\ EndCollection
    /\ UNCHANGED <<plugged, subscribed, deviceEvent, snapshot, bounds>>

\* Enrollment, the drain and the heartbeat: here, the queue may shrink.
Deliver ==
    /\ pc = "deliver"
    /\ used' \in 0 .. used
    /\ pc' = "wait"
    /\ UNCHANGED <<plugged, subscribed, deviceEvent, loop, snapshot, cache,
                   lastQueued, refused, bounds>>

\* Mutant of Woken: an event that is there right after a collection is taken
\* for an echo of it.
WokenOnce ==
    /\ pc = "wait"
    /\ deviceEvent
    /\ deviceEvent' = FALSE
    /\ scanAt' = IF nextCollection = Interval THEN scanAt ELSE Debounce
    /\ pc' = "top"
    /\ UNCHANGED <<plugged, subscribed, nextCollection, notified, snapshot,
                   cache, queue, bounds>>

\* WaitForMultipleObjects returns for the device event, which resets; the
\* debounce starts, or starts anew.
Woken ==
    /\ pc = "wait"
    /\ deviceEvent
    /\ deviceEvent' = FALSE
    /\ scanAt' = Debounce
    /\ pc' = "top"
    /\ UNCHANGED <<plugged, subscribed, nextCollection, notified, snapshot,
                   cache, queue, bounds>>

\* The wait times out.
TimedOut ==
    /\ pc = "wait"
    /\ ~ deviceEvent
    /\ scanAt' = IF scanAt > 0 THEN scanAt - 1 ELSE scanAt
    /\ nextCollection' = IF nextCollection > 0 THEN nextCollection - 1 ELSE 0
    /\ pc' = "top"
    /\ UNCHANGED <<plugged, subscribed, deviceEvent, notified, snapshot, cache,
                   queue, bounds>>

\* The service stops or dies: the queue and nothing else survives.
Stop ==
    /\ pc # "down"
    /\ restarts < MaxRestarts
    /\ restarts' = restarts + 1
    /\ pc' = "down"
    /\ UNCHANGED <<plugged, subscribed, deviceEvent, loop, snapshot, cache, queue,
                   changes, failures>>

Start ==
    /\ pc = "down"
    /\ pc' = "top"
    /\ subscribed' \in BOOLEAN
    /\ deviceEvent' = FALSE
    /\ scanAt' = NoScan
    /\ nextCollection' = 0
    /\ notified' = FALSE
    /\ snapshot' = {}
    /\ cache' = {}
    /\ UNCHANGED <<plugged, queue, bounds>>

----------------------------------------------------------------------------

Service ==
    \/ Top \/ Capture \/ ProcessNotification \/ ProcessPeriodic \/ Deliver
    \/ Woken \/ TimedOut \/ Start

Next ==
    \/ \E d \in Disks : Change(d)
    \/ CaptureFails
    \/ Stop
    \/ Service

Safety == Init /\ [][Next]_vars

\* The service thread is always scheduled again.
Spec == Safety /\ WF_vars(Service)

----------------------------------------------------------------------------
(* Properties *)

TypeOK ==
    /\ plugged \subseteq Disks /\ snapshot \subseteq Disks /\ cache \subseteq Disks
    /\ subscribed \in BOOLEAN /\ deviceEvent \in BOOLEAN /\ notified \in BOOLEAN
    /\ pc \in {"top", "capture", "process", "deliver", "wait", "down"}
    /\ scanAt \in {NoScan} \union (0 .. Debounce)
    /\ nextCollection \in 0 .. Interval
    /\ used \in 0 .. MaxItems
    /\ refused \in BOOLEAN
    /\ lastQueued \in [Disks -> {"nothing", "present", "connected", "disconnected"}]
    /\ changes \in 0 .. MaxChanges
    /\ failures \in 0 .. MaxFailures
    /\ restarts \in 0 .. MaxRestarts

\* No wakeup is lost: whenever the service is about to wait with a cache that
\* differs from the disks, the event is set or a scan is scheduled, whatever
\* changed during the scan before; unless the scan itself failed.
NoLostWakeup ==
    (pc = "wait" /\ subscribed /\ failures = 0 /\ cache # plugged)
        => deviceEvent \/ scanAt # NoScan

\* Two disconnected observations of one disk have an observation of its
\* presence between them, through restarts and failing scans, as long as the
\* queue has turned nothing away.
NotDisconnectedTwice ==
    [][\A d \in Disks :
         (/\ pc = "process" /\ notified /\ used' > used
          /\ d \in cache \ snapshot
          /\ lastQueued[d] = "disconnected") => refused]_vars

\* The periodic scan is a fallback: when the disks come to rest, the cache
\* agrees with them in the end, with notifications or without, though scans
\* fail and the service restarts (build/README.md:65-70).
CacheCatchesUp == <>[](cache = plugged)

\* What build/README.md:65-68 says of a removal: the disk the service knew
\* is reported as disconnected, unless it comes back first.
RemovalReported ==
    \A d \in Disks :
        (subscribed /\ pc # "down" /\ d \in cache /\ d \notin plugged)
            ~> (d \in plugged \/ lastQueued[d] = "disconnected")
=============================================================================
