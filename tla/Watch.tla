-------------------------------- MODULE Watch -----------------------------
(***************************************************************************)
(* The collector of the agent, FlashControlAgent/main.py: the scan of the  *)
(* physical disks, its one-shot use, and `--watch`, which polls for the    *)
(* USB disks that are present and writes an event for every change.        *)
(*                                                                         *)
(* Nothing holds Windows still during a scan.  The interfaces of the disks *)
(* are listed first, each with the number Windows gives its disk at that   *)
(* moment, then the volumes, then the drives are opened by number; a       *)
(* number that is freed goes to the next disk plugged in.                  *)
(***************************************************************************)
EXTENDS Integers, FiniteSets

CONSTANTS
    Disks,       \* the disks; the interface path of a disk is the disk itself
    Chained,     \* disks with a USB node among their PnP parents
    UsbBus,      \* disks whose storage descriptor says BusTypeUsb
    MaxDisks,    \* max_disks: the drive numbers are 0 .. MaxDisks - 1
    MaxChanges,  \* bound: disks plugged in or out
    MaxFaults    \* bound: Windows calls that fail

None == "none"   \* no disk

ASSUME WatchAssumption ==
    /\ Chained \subseteq Disks /\ UsbBus \subseteq Disks /\ None \notin Disks
    /\ MaxDisks \in Nat
    /\ Disks \intersect (0 .. MaxDisks) = {}
    /\ MaxChanges \in Nat /\ MaxFaults \in Nat

VARIABLES
    slot,     \* per drive number: the disk Windows gave it to
    task,     \* "once", or in watch_usb: "start" and then "poll"
    pc,       \* where the collector is
    todo,     \* the interfaces or volumes of the list still to be looked at
    found,    \* by_number of the list being made
    pnp,      \* pnp_by_disk
    volumes,  \* volumes_by_disk
    next,     \* the drive number to be opened next
    devices,  \* the records of the scan
    keys,     \* current_keys
    cache,    \* the watched devices by their presence key
    told,     \* history: keys whose last event says the device is there
    cause,    \* history: per disk, reasons for it to appear less appearances
    loss,     \* history: per disk, reasons for it to go less disconnections
    changes,
    faults

scan == <<todo, found, pnp, volumes, next, devices>>
history == <<told, cause, loss>>
vars == <<slot, task, pc, scan, keys, cache, history, changes, faults>>

Numbers == 0 .. MaxDisks - 1
Plugged == {slot[n] : n \in Numbers} \ {None}
NumberOf(d) == CHOOSE n \in Numbers : slot[n] = d
NoNumbers == [n \in Numbers |-> None]
Phases == {"pnp", "volumes", "presence"}

\* What scan_physical_disks knows of a drive, by the disk each part is of.
Records == [number : Numbers, disk : Disks, iface : Disks \union {None},
            media : Disks \union {None}]

\* The interface path, or the drive path for a record without one.
PresenceKey(r) == IF r.iface # None THEN r.iface ELSE r.number
Keys == Disks \union Numbers

ByKey(records) ==
    [k \in {PresenceKey(r) : r \in records} |->
        CHOOSE r \in records : PresenceKey(r) = k]

\* A listing starts with what is present now.
List(phase) ==
    /\ pc' = phase
    /\ todo' = Plugged
    /\ found' = NoNumbers

\* What a listing or a scan kept is gone when it returns.
Forget ==
    /\ todo' = {} /\ found' = NoNumbers
    /\ pnp' = NoNumbers /\ volumes' = NoNumbers
    /\ next' = 0 /\ devices' = {}

Init ==
    /\ slot \in [Numbers -> Disks \union {None}]
    /\ \A m, n \in Numbers : m # n /\ slot[m] # None => slot[m] # slot[n]
    /\ task \in {"once", "start"}
    /\ pc = "pnp"
    /\ todo = Plugged
    /\ found = NoNumbers /\ pnp = NoNumbers /\ volumes = NoNumbers
    /\ next = 0
    /\ devices = {}
    /\ keys = {}
    /\ cache = ByKey({})
    /\ told = {}
    /\ cause = [d \in Disks |-> IF d \in Plugged THEN 1 ELSE 0]
    /\ loss = [d \in Disks |-> 0]
    /\ changes = 0
    /\ faults = 0

Change == changes < MaxChanges /\ changes' = changes + 1
Fault == faults < MaxFaults /\ faults' = faults + 1

----------------------------------------------------------------------------
(* Windows *)

Plug(d, n) ==
    /\ Change
    /\ d \notin Plugged /\ slot[n] = None
    /\ slot' = [slot EXCEPT ![n] = d]
    /\ cause' = [cause EXCEPT ![d] = @ + 1]
    /\ UNCHANGED <<task, pc, scan, keys, cache, told, loss, faults>>

Unplug(d) ==
    /\ Change
    /\ d \in Plugged
    /\ slot' = [slot EXCEPT ![NumberOf(d)] = None]
    /\ loss' = [loss EXCEPT ![d] = @ + 1]
    /\ UNCHANGED <<task, pc, scan, keys, cache, told, cause, faults>>

----------------------------------------------------------------------------
(* enumerate_setupapi_disks and enumerate_volumes_by_physical_drive *)

\* An interface (a volume) is opened and asked for its number.
ListOne(d) ==
    /\ pc \in Phases
    /\ d \in todo
    /\ todo' = todo \ {d}
    /\ found' = IF d \in Plugged THEN [found EXCEPT ![NumberOf(d)] = d] ELSE found
    /\ UNCHANGED <<slot, task, pc, pnp, volumes, next, devices, keys, cache, history,
                   changes, faults>>

\* It cannot be opened or asked, or its PnP parents cannot be read: it is left
\* out and nothing is reported.
LeftOut(d) ==
    /\ pc \in Phases
    /\ d \in todo \intersect Plugged
    /\ Fault
    /\ todo' = todo \ {d}
    /\ IF pc = "presence"
       THEN /\ cause' = [cause EXCEPT ![d] = @ + 1]
            /\ loss' = [loss EXCEPT ![d] = @ + 1]
       ELSE UNCHANGED <<cause, loss>>
    /\ UNCHANGED <<slot, task, pc, found, pnp, volumes, next, devices, keys, cache,
                   told, changes>>

\* The lists of a scan are used in turn: pnp, volumes, then the drives.
UsePnp(result) ==
    /\ pc = "pnp"
    /\ pnp' = result
    /\ List("volumes")
    /\ UNCHANGED <<volumes, next, devices, keys>>

UseVolumes(result) ==
    /\ pc = "volumes"
    /\ volumes' = result
    /\ pc' = "drives"
    /\ todo' = {} /\ found' = NoNumbers
    /\ UNCHANGED <<pnp, next, devices, keys>>

\* usb_presence_keys: the interfaces with USB evidence.
UsePresence ==
    /\ pc = "presence"
    /\ keys' = {found[n] : n \in Numbers} \intersect Chained
    /\ pc' = "compare"
    /\ Forget

ListEnds ==
    /\ todo = {}
    /\ UsePnp(found) \/ UseVolumes(found) \/ UsePresence
    /\ UNCHANGED <<slot, task, cache, history, changes, faults>>

\* Mutant of SkipPoll: a listing that failed counts as an empty one.
EmptyPoll ==
    /\ pc = "presence"
    /\ keys' = {}
    /\ pc' = "compare"
    /\ Forget

\* A presence check that failed is printed and the next poll tries again.
SkipPoll ==
    /\ pc = "presence"
    /\ pc' = "sleep"
    /\ Forget
    /\ UNCHANGED keys

\* The list itself fails, at its start or between two items: a scan goes on
\* without what it had found.
ListFails ==
    /\ Fault
    /\ UsePnp(NoNumbers) \/ UseVolumes(NoNumbers) \/ SkipPoll
    /\ UNCHANGED <<slot, task, cache, history, changes>>

----------------------------------------------------------------------------
(* The drives *)

Record(n) == [number |-> n, disk |-> slot[n], iface |-> pnp[n], media |-> volumes[n]]

ReadDrive ==
    /\ pc = "drives"
    /\ next < MaxDisks
    /\ next' = next + 1
    /\ devices' = IF slot[next] \in UsbBus THEN devices \union {Record(next)} ELSE devices
    /\ UNCHANGED <<slot, task, pc, todo, found, pnp, volumes, keys, cache, history,
                   changes, faults>>

\* The drive cannot be opened, or its descriptor not be read.
DriveFails ==
    /\ pc = "drives"
    /\ next < MaxDisks
    /\ slot[next] # None
    /\ Fault
    /\ next' = next + 1
    /\ UNCHANGED <<slot, task, pc, todo, found, pnp, volumes, devices, keys, cache,
                   history, changes>>

----------------------------------------------------------------------------
(* main and watch_usb *)

\* Appearances of `appeared` and disconnections of `gone` are written.
Write(appeared, gone) ==
    /\ told' = (told \ gone) \union appeared
    /\ cause' = [d \in Disks |-> IF d \in appeared THEN cause[d] - 1 ELSE cause[d]]
    /\ loss' = [d \in Disks |-> IF d \in gone THEN loss[d] - 1 ELSE loss[d]]

\* The one-shot collector prints its scan and ends.
PrintOnce ==
    /\ task = "once" /\ pc = "drives" /\ next = MaxDisks
    /\ pc' = "done"
    /\ Write(DOMAIN ByKey(devices), {})
    /\ Forget
    /\ UNCHANGED <<slot, task, keys, cache, changes, faults>>

WriteSnapshots ==
    /\ task = "start" /\ pc = "drives" /\ next = MaxDisks
    /\ task' = "poll"
    /\ pc' = "sleep"
    /\ cache' = ByKey(devices)
    /\ Write(DOMAIN cache', {})
    /\ Forget
    /\ UNCHANGED <<slot, keys, changes, faults>>

Poll ==
    /\ pc = "sleep"
    /\ List("presence")
    /\ UNCHANGED <<slot, task, pnp, volumes, next, devices, keys, cache, history,
                   changes, faults>>

Compare ==
    /\ pc = "compare"
    /\ IF keys = DOMAIN cache
       THEN pc' = "sleep" /\ keys' = {} /\ UNCHANGED <<todo, found>>
       ELSE List("pnp") /\ UNCHANGED keys
    /\ UNCHANGED <<slot, task, pnp, volumes, next, devices, cache, history, changes,
                   faults>>

\* Mutant of CachedAfter: a disk whose descriptor is not ready yet is cached.
CachedUnready(current) ==
    [k \in keys |-> IF k \in DOMAIN current THEN current[k]
                    ELSE IF k \in DOMAIN cache THEN cache[k]
                    ELSE [number |-> 0, disk |-> k, iface |-> k, media |-> None]]

\* What went is dropped, what came is added if the scan has it, what stayed is
\* refreshed.
CachedAfter(current) ==
    [k \in keys \intersect (DOMAIN cache \union DOMAIN current) |->
        IF k \in DOMAIN current THEN current[k] ELSE cache[k]]

WriteChanges ==
    /\ task = "poll" /\ pc = "drives" /\ next = MaxDisks
    /\ pc' = "sleep"
    /\ LET current == ByKey(devices)
           appeared == (keys \ DOMAIN cache) \intersect DOMAIN current
           gone == DOMAIN cache \ keys
       IN  /\ cache' = CachedAfter(current)
           /\ Write(appeared, gone)
    /\ keys' = {}
    /\ Forget
    /\ UNCHANGED <<slot, task, changes, faults>>

\* KeyboardInterrupt.
Interrupt ==
    /\ pc # "done"
    /\ pc' = "done"
    /\ UNCHANGED <<slot, task, scan, keys, cache, history, changes, faults>>

Collector ==
    \/ \E d \in Disks : ListOne(d) \/ LeftOut(d)
    \/ ListEnds \/ ListFails
    \/ ReadDrive \/ DriveFails
    \/ PrintOnce \/ WriteSnapshots
    \/ Poll \/ Compare \/ WriteChanges

Next ==
    \/ \E d \in Disks, n \in Numbers : Plug(d, n)
    \/ \E d \in Disks : Unplug(d)
    \/ Collector
    \/ Interrupt

\* The collector is one thread that never waits for anything but its sleep.
Spec == Init /\ [][Next]_vars /\ WF_vars(Collector)

----------------------------------------------------------------------------
(* Properties *)

\* Type invariant: the collector's lists, records, keys and cache have their
\* shapes, and a cached device is under its own key, at every step.
TypeOK ==
    /\ slot \in [Numbers -> Disks \union {None}]
    /\ task \in {"once", "start", "poll"}
    /\ pc \in Phases \union {"drives", "compare", "sleep", "done"}
    /\ todo \subseteq Disks
    /\ {found, pnp, volumes} \subseteq [Numbers -> Disks \union {None}]
    /\ next \in 0 .. MaxDisks
    /\ devices \subseteq Records
    /\ keys \subseteq Chained
    /\ DOMAIN cache \subseteq Keys
    /\ \A k \in DOMAIN cache : cache[k] \in Records /\ PresenceKey(cache[k]) = k
    /\ told \subseteq Keys
    /\ cause \in [Disks -> Int] /\ loss \in [Disks -> Int]
    /\ changes \in 0 .. MaxChanges /\ faults \in 0 .. MaxFaults

\* A USB disk is announced under its interface at most once for each time it
\* was plugged in or left out of a poll, and disconnected at most once for each
\* time it was unplugged or left out: whatever changes while the three lists
\* of a poll and its rescan are made, and whichever of them fail, watch_usb
\* repeats no event.
EventsHaveCause == \A d \in Chained : cause[d] >= 0 /\ loss[d] >= 0

\* Once Windows is quiet, the last event of a disk says whether it is there:
\* the keys announced and not disconnected are exactly the USB disks plugged
\* in, however many polls a slow descriptor or a failed listing costs.  (A disk
\* that is not on the USB bus may keep an announcement made with the facts of a
\* disk that took its drive number during the scan.)
Settles ==
    <>[](\/ task = "once" \/ pc = "done"
         \/ told \ (Disks \ UsbBus) = Plugged \intersect Chained \intersect UsbBus)
=============================================================================
