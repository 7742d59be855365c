----------------------------- MODULE TrafficMeter -----------------------------
(***************************************************************************)
(* How the device monitor (device_monitor/service.py) meters the traffic   *)
(* of the devices on a VPN node and suspends those that have used up their *)
(* plan or share their key.                                                *)
(*                                                                         *)
(* Xray counts the bytes of each client from its last start; every change  *)
(* of the agents' configuration restarts it, the suspension of a device    *)
(* too.  The subscription keeps what was used and the counter as last      *)
(* seen; a renewal starts with a new subscription, at zero.  A poll loads  *)
(* the active devices, visits one after the other, and commits once.       *)
(*                                                                         *)
(* A unit of traffic stands for some number of bytes.  The devices are     *)
(* those with a limited plan; how their rows expire and come back is the   *)
(* matter of VpnKeys, here a row is suspended, or replaced by the cabinet. *)
(***************************************************************************)
EXTENDS Naturals, FiniteSetsExt

CONSTANTS
  Devices,   \* device rows, one of each user
  Cabinet,   \* those of users of the site, whose cabinet replaces keys
  NoDevice,  \* no device
  Limit,     \* plan.traffic_limit_gb, in units
  MaxUnits,  \* bound: traffic that can be charged to all devices together
  MaxSubs,   \* bound: subscriptions of all devices together
  Faults     \* what may go wrong: "stats", "shape", "torn", "agent", "poll"

ASSUME DevicesAssumption == NoDevice \notin Devices /\ Cabinet \subseteq Devices
ASSUME LimitAssumption   == Limit \in Nat \ {0}
ASSUME BoundAssumption   == MaxUnits \in Nat /\ MaxSubs \in Nat
ASSUME FaultsAssumption  == Faults \subseteq {"stats", "shape", "torn", "agent", "poll"}

VARIABLES
  client,    \* devices that are clients of Xray
  counter,   \* Xray's counter, uplink and downlink together
  status,    \* of the row in table devices
  sub,       \* number of the device's present subscription
  meter,     \* traffic_used_bytes and traffic_xray_snapshot_bytes of that
  poll,      \* DeviceMonitorService.poll_once in progress
  replacing,  \* the device whose row regenerate_vpn_key is about to replace
  real,      \* history: traffic under the present subscription
  extra,     \* history: the counter when that was bought, and what readings
             \* below the snapshot that were none have doubled
  whole,     \* history: devices without such a reading, and without a restart
             \* of Xray, since it was bought
  reissued   \* history: devices whose suspended row was replaced since then

history == <<real, extra, whole, reissued>>
rows    == <<status, sub, meter>>
vars    == <<client, counter, rows, poll, replacing, history>>

Meter == [used: Nat, snapshot: Nat]
Fresh == [used |-> 0, snapshot |-> 0]

\* left: devices not visited yet; cutting: the device whose client is being
\* removed; over and sharing: devices found in violation; gone: devices whose
\* loaded row is deleted.  sub and meter are as loaded, meter with the readings
\* since then.
Poll == [busy: BOOLEAN, left: SUBSET Devices, cutting: Devices \union {NoDevice},
         over: SUBSET Devices, sharing: SUBSET Devices, gone: SUBSET Devices,
         sub: [Devices -> Nat], meter: [Devices -> Meter]]

NoPoll == [busy |-> FALSE, left |-> {}, cutting |-> NoDevice,
           over |-> {}, sharing |-> {}, gone |-> {},
           sub |-> [d \in Devices |-> 0], meter |-> [d \in Devices |-> Fresh]]

Init ==
  /\ client = Devices
  /\ counter = [d \in Devices |-> 0]
  /\ status = [d \in Devices |-> "active"]
  /\ sub = [d \in Devices |-> 1]
  /\ meter = [d \in Devices |-> Fresh]
  /\ poll = NoPoll
  /\ replacing = NoDevice
  /\ real = [d \in Devices |-> 0]
  /\ extra = [d \in Devices |-> 0]
  /\ whole = Devices
  /\ reissued = {}

-----------------------------------------------------------------------------
(* Xray and the users.                                                     *)

\* What the bounds limit.
Units == MapThenSumSet(LAMBDA d : real[d] + extra[d], Devices)
Subs  == MapThenSumSet(LAMBDA d : sub[d], Devices)

Use(d) ==
  /\ d \in client
  /\ Units < MaxUnits
  /\ counter' = [counter EXCEPT ![d] = @ + 1]
  /\ real' = [real EXCEPT ![d] = @ + 1]
  /\ UNCHANGED <<client, rows, poll, replacing, extra, whole, reissued>>

CountersReset == counter' = [d \in Devices |-> 0] /\ whole' = {}

\* Xray is started again: the machine reboots, or an agent has added or removed
\* some client; the button "connect" registers a device once more that it has
\* read as active, be it suspended in the meantime.
Restart ==
  /\ CountersReset
  /\ client' \in {client} \union {client \union {d} : d \in Devices}
  /\ UNCHANGED <<rows, poll, replacing, real, extra, reissued>>

\* Mutant: the new subscription goes on from the counter's last reading.
RenewKeepsSnapshot(d) ==
  /\ Subs < MaxSubs
  /\ replacing # d
  /\ sub' = [sub EXCEPT ![d] = @ + 1]
  /\ meter' = [meter EXCEPT ![d].used = 0]
  /\ real' = [real EXCEPT ![d] = 0]
  /\ extra' = [extra EXCEPT ![d] = counter[d]]
  /\ whole' = whole \union {d}
  /\ reissued' = reissued \ {d}
  /\ UNCHANGED <<client, counter, status, poll, replacing>>

\* The plan is paid again: a new row, and the device moves to it.
Renew(d) ==
  /\ Subs < MaxSubs
  /\ replacing # d
  /\ sub' = [sub EXCEPT ![d] = @ + 1]
  /\ meter' = [meter EXCEPT ![d] = Fresh]
  /\ real' = [real EXCEPT ![d] = 0]
  /\ extra' = [extra EXCEPT ![d] = counter[d]]
  /\ whole' = whole \union {d}
  /\ reissued' = reissued \ {d}
  /\ UNCHANGED <<client, counter, status, poll, replacing>>

\* The cabinet replaces the key: the row is read as active, its client revoked.
RegenerateLoad(d) ==
  /\ d \in Cabinet
  /\ replacing = NoDevice
  /\ status[d] = "active"
  /\ replacing' = d
  /\ client' = client \ {d}
  /\ CountersReset
  /\ UNCHANGED <<rows, poll, real, extra, reissued>>

\* The row that was read is deleted, whatever its status is now, and another one
\* of the same email is created on the same subscription; or that fails, and
\* everything is rolled back.
Regenerate(d) ==
  /\ replacing = d
  /\ replacing' = NoDevice
  /\ \/ /\ client' = client \union {d}
        /\ CountersReset
        /\ status' = [status EXCEPT ![d] = "active"]
        /\ reissued' = IF status[d] = "suspended" THEN reissued \union {d} ELSE reissued
        /\ poll' = IF poll.busy THEN [poll EXCEPT !.gone = @ \union {d}] ELSE poll
     \/ UNCHANGED <<client, counter, whole, status, reissued, poll>>
  /\ UNCHANGED <<sub, meter, real, extra>>

-----------------------------------------------------------------------------
(* poll_once.                                                              *)

\* Mutant: after a restart the old reading is counted as well.
DeltaOfBoth(current, snapshot) ==
  IF current < snapshot THEN current + snapshot ELSE current - snapshot

\* A counter below the last reading has started again.
Delta(current, snapshot) ==
  IF current < snapshot THEN current ELSE current - snapshot

\* apply_traffic_delta
ApplyTrafficDelta(m, current) ==
  [used |-> m.used + Delta(current, m.snapshot), snapshot |-> current]

PollLoad ==
  LET active == {d \in Devices : status[d] = "active"} IN
  /\ ~poll.busy
  /\ poll' = [NoPoll EXCEPT !.busy = TRUE, !.left = active, !.sub = sub, !.meter = meter]
  /\ UNCHANGED <<client, counter, rows, replacing, history>>

\* The device is dealt with under meter m: its traffic may have reached the
\* limit; if not, it may be online from too many addresses or countries.
Visited(d, m) ==
  LET next == [poll EXCEPT !.left = @ \ {d}, !.meter[d] = m] IN
  IF m.used >= Limit
  THEN poll' = [next EXCEPT !.over = @ \union {d}, !.cutting = d]
  ELSE poll' \in {next, [next EXCEPT !.sharing = @ \union {d}, !.cutting = d]}

MayVisit(d) == poll.busy /\ d \in poll.left /\ poll.cutting = NoDevice

\* _sync_traffic, with a reading of the counter.
SyncTraffic(d) ==
  /\ MayVisit(d)
  /\ Visited(d, ApplyTrafficDelta(poll.meter[d], counter[d]))
  /\ UNCHANGED <<client, counter, rows, replacing, history>>

\* _query_counter takes an answer of another shape than it looks for, for one
\* direction or both, for zero and says nothing.  What is missing then is charged
\* by the next true reading; below the snapshot it looks like a restart, and what
\* the snapshot stood for is charged once more.
SyncTrafficMisread(d) ==
  /\ "shape" \in Faults
  /\ MayVisit(d)
  /\ \E current \in 0..counter[d] :
       LET below == current < poll.meter[d].snapshot /\ poll.sub[d] = sub[d] IN
       /\ below => Units + poll.meter[d].snapshot <= MaxUnits
       /\ Visited(d, ApplyTrafficDelta(poll.meter[d], current))
       /\ extra' = [extra EXCEPT ![d] = IF below THEN @ + poll.meter[d].snapshot ELSE @]
       /\ whole' = IF below THEN whole \ {d} ELSE whole
  /\ UNCHANGED <<client, counter, rows, replacing, real, reissued>>

\* Uplink and downlink are queried one after the other; another agent of the
\* node, or systemd, restarts Xray in between.
SyncTrafficTorn(d) ==
  /\ "torn" \in Faults
  /\ MayVisit(d)
  /\ \E current \in 0..counter[d] :
       /\ Visited(d, ApplyTrafficDelta(poll.meter[d], current))
       /\ extra' = [extra EXCEPT ![d] =
                      IF current < poll.meter[d].snapshot /\ poll.sub[d] = sub[d]
                      THEN @ + current ELSE @]
  /\ CountersReset
  /\ UNCHANGED <<client, rows, replacing, real, reissued>>

\* The agent does not answer: the traffic is left for the next poll, the
\* addresses are looked at all the same.
StatsUnavailable(d) ==
  /\ "stats" \in Faults
  /\ MayVisit(d)
  /\ LET next == [poll EXCEPT !.left = @ \ {d}] IN
     poll' \in {next, [next EXCEPT !.sharing = @ \union {d}, !.cutting = d]}
  /\ UNCHANGED <<client, counter, rows, replacing, history>>

\* _suspend_device: remove_user restarts Xray; its errors are logged, that the
\* client is not there any more, or has got a new key, is one of them.
RemoveUser ==
  /\ poll.cutting # NoDevice
  /\ \/ /\ poll.cutting \in client \ poll.gone
        /\ client' = client \ {poll.cutting}
        /\ CountersReset
     \/ /\ poll.cutting \notin client \ poll.gone \/ "agent" \in Faults
        /\ UNCHANGED <<client, counter, whole>>
  /\ poll' = [poll EXCEPT !.cutting = NoDevice]
  /\ UNCHANGED <<rows, replacing, real, extra, reissued>>

Found == poll.over \union poll.sharing

\* Every device has been visited, and no row to be suspended is deleted.
Done ==
  /\ poll.busy /\ poll.left = {} /\ poll.cutting = NoDevice
  /\ Found \intersect poll.gone = {}

\* Mutant: the readings are committed, the suspensions get lost.
CommitReadings ==
  /\ Done
  /\ meter' = [d \in Devices |-> IF poll.sub[d] = sub[d] THEN poll.meter[d] ELSE meter[d]]
  /\ poll' = NoPoll
  /\ UNCHANGED <<client, counter, status, sub, replacing, history>>

\* Mutant: the poll's figures go to whatever subscription there is now.
CommitToPresent ==
  /\ Done
  /\ meter' = poll.meter
  /\ status' = [d \in Devices |->
                  IF d \in Found THEN "suspended" ELSE status[d]]
  /\ poll' = NoPoll
  /\ UNCHANGED <<client, counter, sub, replacing, history>>

\* The only commit: readings go to the subscriptions that were loaded,
\* suspensions to the devices.
Commit ==
  /\ Done
  /\ meter' = [d \in Devices |-> IF poll.sub[d] = sub[d] THEN poll.meter[d] ELSE meter[d]]
  /\ status' = [d \in Devices |->
                  IF d \in Found THEN "suspended" ELSE status[d]]
  /\ poll' = NoPoll
  /\ UNCHANGED <<client, counter, sub, replacing, history>>

\* Nothing is stored of the whole poll: its commit fails, because of a row
\* deleted meanwhile or of the database; an exception; the monitor stops.
PollFails ==
  /\ poll.busy
  /\ "poll" \in Faults \/ poll.gone # {}
  /\ poll' = NoPoll
  /\ UNCHANGED <<client, counter, rows, replacing, history>>

Visit(d) ==
  SyncTraffic(d) \/ SyncTrafficMisread(d) \/ SyncTrafficTorn(d) \/ StatsUnavailable(d)
Monitor  == PollLoad \/ (\E d \in Devices : Visit(d)) \/ RemoveUser \/ Commit

Next ==
  \/ \E d \in Devices : Use(d) \/ Renew(d) \/ RegenerateLoad(d) \/ Regenerate(d)
  \/ Restart
  \/ Monitor
  \/ PollFails

Spec == Init /\ [][Next]_vars

-----------------------------------------------------------------------------
(* Properties.                                                             *)

\* Every variable stays within its type.
TypeOK ==
  /\ client \subseteq Devices
  /\ counter \in [Devices -> Nat]
  /\ status \in [Devices -> {"active", "suspended"}]
  /\ sub \in [Devices -> Nat]
  /\ meter \in [Devices -> Meter]
  /\ poll \in Poll
  /\ real \in [Devices -> Nat]
  /\ extra \in [Devices -> Nat]
  /\ replacing \in Devices \union {NoDevice}
  /\ whole \subseteq Devices
  /\ reissued \subseteq Devices

\* Whatever restarts, renewals, lost polls and late commits do to snapshots, a
\* subscription is never charged for more than what went through since it was
\* bought, what stood on the counter then, and what torn readings and misread
\* ones doubled.
NeverOvercharged ==
  \A d \in Devices : meter[d].used <= real[d] + extra[d]

\* As long as Xray is not restarted and no reading falls below the snapshot, no
\* poll, however it fails, misreads or overlaps a renewal, loses a unit of
\* traffic: used and the counter's progress since the snapshot add up to exactly
\* what went through.
NothingMissed ==
  \A d \in whole :
    /\ meter[d].snapshot <= counter[d]
    /\ meter[d].used + (counter[d] - meter[d].snapshot) = real[d] + extra[d]

\* A subscription charged with its limit has no active device: the reading that reaches the
\* limit and the suspension are stored together or not at all.  The one way out
\* is a regeneration that has read the row before it was suspended.
UsedUpIsSuspended ==
  \A d \in Devices :
    meter[d].used >= Limit => status[d] = "suspended" \/ d \in reissued

\* A device is suspended for its traffic only if that much really went through
\* or was doubled by torn or misread ones, unless it was renewed during the poll.
SuspendedForCause ==
  [][\A d \in Devices :
       status[d] = "active" /\ status'[d] = "suspended" =>
         \/ d \in poll.sharing
         \/ poll.sub[d] # sub[d]
         \/ real[d] + extra[d] >= Limit]_vars

=============================================================================
