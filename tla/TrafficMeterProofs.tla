-------------------------- MODULE TrafficMeterProofs --------------------------
(***************************************************************************)
(* Theorems about TrafficMeter, for every number of devices, every limit   *)
(* and every combination of faults.                                        *)
(*                                                                         *)
(* A poll keeps the readings it has loaded or made while users go on,      *)
(* Xray restarts and plans are renewed, and it may or may not store them.  *)
(* So what is to be shown of the stored meter must hold all along of the   *)
(* meter the poll would store: MeterInv says it of both.                   *)
(***************************************************************************)
EXTENDS TrafficMeter, TLAPS

-----------------------------------------------------------------------------
(* The inductive invariant.                                                *)

\* What went through, or is to be put up with, under d's subscription.
Total(d) == real[d] + extra[d]

\* Charging what the counter has gained since the last reading is not too much.
Covers(m, d) == m.used + Delta(counter[d], m.snapshot) <= Total(d)

\* It is everything.
Exact(m, d) ==
  m.snapshot <= counter[d] /\ m.used + (counter[d] - m.snapshot) = Total(d)

\* The poll's meter of d may be stored.
Pending(d) == poll.busy /\ poll.sub[d] = sub[d]

StoredInv(d) ==
  /\ Covers(meter[d], d)
  /\ d \in whole => Exact(meter[d], d)
  /\ meter[d].used >= Limit => status[d] = "suspended" \/ d \in reissued

PendingInv(d) ==
  Pending(d) =>
    /\ Covers(poll.meter[d], d)
    /\ d \in whole => Exact(poll.meter[d], d)
    /\ poll.meter[d].used >= Limit =>
         d \in poll.over \/ status[d] = "suspended" \/ d \in reissued
    /\ d \in poll.over => Total(d) >= Limit

MeterInv ==
  /\ TypeOK
  /\ \A d \in Devices : poll.sub[d] <= sub[d]
  /\ \A d \in Devices : StoredInv(d)
  /\ \A d \in Devices : PendingInv(d)

-----------------------------------------------------------------------------
(* Facts about a reading.                                                  *)

\* A reading is a natural number and never more than the counter shows.
LEMMA DeltaBounds ==
  ASSUME NEW c \in Nat, NEW s \in Nat
  PROVE  Delta(c, s) \in Nat /\ Delta(c, s) <= c
BY DEF Delta

\* After a restart of Xray nothing is left to be charged.
LEMMA DeltaOfReset ==
  ASSUME NEW s \in Nat
  PROVE  Delta(0, s) = 0
BY DEF Delta

\* One more unit on the counter is at most one more unit to be charged.
LEMMA DeltaOfUse ==
  ASSUME NEW c \in Nat, NEW s \in Nat
  PROVE  Delta(c + 1, s) <= Delta(c, s) + 1
BY DEF Delta

\* A reading gives a meter.
LEMMA ReadingType ==
  ASSUME NEW m \in Meter, NEW c \in Nat
  PROVE  /\ ApplyTrafficDelta(m, c) \in Meter
         /\ ApplyTrafficDelta(m, c).used = m.used + Delta(c, m.snapshot)
         /\ ApplyTrafficDelta(m, c).snapshot = c
<1>1. m.used \in Nat /\ m.snapshot \in Nat
  BY DEF Meter
<1>2. Delta(c, m.snapshot) \in Nat
  BY <1>1, DeltaBounds
<1> QED
  BY <1>1, <1>2 DEF ApplyTrafficDelta, Meter

-----------------------------------------------------------------------------
(* Types.                                                                  *)

\* The first state is well-formed.
LEMMA InitTypeOK == Init => TypeOK
BY DevicesAssumption DEF Init, TypeOK, Meter, Fresh, Poll, NoPoll

\* A poll that deals with a device stays well-formed.
LEMMA VisitedType ==
  ASSUME TypeOK, NEW d \in Devices, NEW m \in Meter, Visited(d, m)
  PROVE  poll' \in Poll
<1> DEFINE next == [poll EXCEPT !.left = @ \ {d}, !.meter[d] = m]
<1>1. next \in Poll
  BY DEF TypeOK, Poll
<1>2. [next EXCEPT !.over = @ \union {d}, !.cutting = d] \in Poll
  BY <1>1 DEF Poll
<1>3. [next EXCEPT !.sharing = @ \union {d}, !.cutting = d] \in Poll
  BY <1>1 DEF Poll
<1>4. poll' \in {next, [next EXCEPT !.over = @ \union {d}, !.cutting = d],
                 [next EXCEPT !.sharing = @ \union {d}, !.cutting = d]}
  BY DEF Visited
<1> QED
  BY <1>1, <1>2, <1>3, <1>4

\* No step leaves the types.
LEMMA NextTypeOK == TypeOK /\ [Next]_vars => TypeOK'
<1> SUFFICES ASSUME TypeOK, [Next]_vars PROVE TypeOK'
  OBVIOUS
<1> USE DEF TypeOK
<1>1. ASSUME NEW d \in Devices, Use(d) PROVE TypeOK'
  BY <1>1 DEF Use, rows
<1>2. CASE Restart
  BY <1>2 DEF Restart, CountersReset, rows
<1>3. ASSUME NEW d \in Devices, Renew(d) PROVE TypeOK'
  <2>1. Fresh \in Meter
    BY DEF Fresh, Meter
  <2> QED BY <1>3, <2>1 DEF Renew
<1>4. ASSUME NEW d \in Devices, RegenerateLoad(d) PROVE TypeOK'
  BY <1>4 DEF RegenerateLoad, CountersReset, rows
<1>5. ASSUME NEW d \in Devices, Regenerate(d) PROVE TypeOK'
  <2>1. poll' \in Poll
    BY <1>5 DEF Regenerate, Poll
  <2>2. client' \subseteq Devices /\ counter' \in [Devices -> Nat] /\ whole' \subseteq Devices
    BY <1>5 DEF Regenerate, CountersReset
  <2>3. status' \in [Devices -> {"active", "suspended"}] /\ reissued' \subseteq Devices
    BY <1>5 DEF Regenerate
  <2> QED BY <1>5, <2>1, <2>2, <2>3 DEF Regenerate
<1>6. CASE PollLoad
  <2>1. poll' \in Poll
    BY <1>6 DEF PollLoad, NoPoll, Poll
  <2> QED BY <1>6, <2>1 DEF PollLoad, rows, history
<1>7. ASSUME NEW d \in Devices, SyncTraffic(d) PROVE TypeOK'
  <2>1. poll.meter[d] \in Meter /\ counter[d] \in Nat
    BY DEF Poll
  <2>2. poll' \in Poll
    BY <1>7, <2>1, ReadingType, VisitedType DEF SyncTraffic
  <2> QED BY <1>7, <2>2 DEF SyncTraffic, rows, history
<1>8. ASSUME NEW d \in Devices, SyncTrafficTorn(d) PROVE TypeOK'
  <2>1. PICK current \in 0..counter[d] :
          /\ Visited(d, ApplyTrafficDelta(poll.meter[d], current))
          /\ extra' = [extra EXCEPT ![d] =
                         IF current < poll.meter[d].snapshot /\ poll.sub[d] = sub[d]
                         THEN @ + current ELSE @]
    BY <1>8 DEF SyncTrafficTorn
  <2>2. poll.meter[d] \in Meter /\ current \in Nat
    BY DEF Poll
  <2>3. poll' \in Poll
    BY <2>1, <2>2, ReadingType, VisitedType
  <2>4. extra' \in [Devices -> Nat]
    BY <2>1, <2>2
  <2> QED BY <1>8, <2>3, <2>4 DEF SyncTrafficTorn, CountersReset, rows
<1>14. ASSUME NEW d \in Devices, SyncTrafficMisread(d) PROVE TypeOK'
  <2>1. PICK current \in 0..counter[d] :
          /\ Visited(d, ApplyTrafficDelta(poll.meter[d], current))
          /\ extra' \in {extra, [extra EXCEPT ![d] = @ + poll.meter[d].snapshot]}
          /\ whole' \subseteq whole
    BY <1>14 DEF SyncTrafficMisread
  <2>2. /\ poll.meter[d] \in Meter /\ poll.meter[d].snapshot \in Nat /\ current \in Nat
        /\ extra[d] \in Nat
    BY DEF Poll, Meter
  <2>3. poll' \in Poll
    BY <2>1, <2>2, ReadingType, VisitedType
  <2>4. extra' \in [Devices -> Nat]
    BY <2>1, <2>2
  <2> QED BY <1>14, <2>1, <2>3, <2>4 DEF SyncTrafficMisread, rows
<1>9. ASSUME NEW d \in Devices, StatsUnavailable(d) PROVE TypeOK'
  <2> DEFINE next == [poll EXCEPT !.left = @ \ {d}]
  <2>1. next \in Poll
    BY DEF Poll
  <2>2. [next EXCEPT !.sharing = @ \union {d}, !.cutting = d] \in Poll
    BY <2>1 DEF Poll
  <2>3. poll' \in Poll
    BY <1>9, <2>1, <2>2 DEF StatsUnavailable
  <2> QED BY <1>9, <2>3 DEF StatsUnavailable, rows, history
<1>10. CASE RemoveUser
  <2>1. poll' \in Poll
    BY <1>10 DEF RemoveUser, Poll
  <2> QED BY <1>10, <2>1 DEF RemoveUser, CountersReset, rows
<1>11. CASE Commit
  <2>1. NoPoll \in Poll
    BY DEF NoPoll, Poll, Meter, Fresh
  <2>2. meter' \in [Devices -> Meter]
    BY <1>11 DEF Commit, Poll
  <2>3. status' \in [Devices -> {"active", "suspended"}]
    BY <1>11 DEF Commit
  <2> QED BY <1>11, <2>1, <2>2, <2>3 DEF Commit, history
<1>12. CASE PollFails
  <2>1. NoPoll \in Poll
    BY DEF NoPoll, Poll, Meter, Fresh
  <2> QED BY <1>12, <2>1 DEF PollFails, rows, history
<1>13. CASE UNCHANGED vars
  BY <1>13 DEF vars, rows, history
<1> QED
  BY <1>1, <1>2, <1>3, <1>4, <1>5, <1>6, <1>7, <1>8, <1>9, <1>10, <1>11, <1>12, <1>13,
     <1>14 DEF Next, Monitor, Visit

\* Devices, meters, counters and the poll stay well-formed in every run.
THEOREM TypeOKCorrect == Spec => []TypeOK
BY InitTypeOK, NextTypeOK, PTL DEF Spec

-----------------------------------------------------------------------------
(* The invariant.                                                          *)

\* It holds in the first state.
LEMMA InitMeterInv == Init => MeterInv
<1> SUFFICES ASSUME Init PROVE MeterInv
  OBVIOUS
<1>1. TypeOK
  BY InitTypeOK
<1>2. ASSUME NEW d \in Devices PROVE StoredInv(d)
  BY LimitAssumption DEF Init, StoredInv, Covers, Exact, Total, Delta, Fresh
<1>3. ASSUME NEW d \in Devices PROVE PendingInv(d) /\ poll.sub[d] <= sub[d]
  BY DEF Init, PendingInv, Pending, NoPoll
<1> QED
  BY <1>1, <1>2, <1>3 DEF MeterInv

\* What the types say of one device.
LEMMA DeviceTypes ==
  ASSUME TypeOK, NEW d \in Devices
  PROVE  /\ counter[d] \in Nat /\ real[d] \in Nat /\ extra[d] \in Nat
         /\ sub[d] \in Nat /\ poll.sub[d] \in Nat
         /\ meter[d] \in Meter /\ poll.meter[d] \in Meter
         /\ meter[d].used \in Nat /\ meter[d].snapshot \in Nat
         /\ poll.meter[d].used \in Nat /\ poll.meter[d].snapshot \in Nat
BY DEF TypeOK, Poll, Meter

\* A used unit raises the counter and the total, of d and of no other device.
LEMMA UseMeterInv ==
  ASSUME MeterInv, NEW d \in Devices, Use(d), NEW e \in Devices
  PROVE  poll'.sub[e] <= sub'[e] /\ StoredInv(e)' /\ PendingInv(e)'
<1>1. TypeOK /\ poll.sub[e] <= sub[e] /\ StoredInv(e) /\ PendingInv(e)
  BY DEF MeterInv
<1>2. /\ e # d => counter'[e] = counter[e] /\ real'[e] = real[e]
      /\ e = d => counter'[e] = counter[e] + 1 /\ real'[e] = real[e] + 1
      /\ UNCHANGED <<status, sub, meter, poll, extra, whole, reissued>>
  BY <1>1 DEF Use, rows, TypeOK
<1>3. ASSUME NEW m \in Meter, Covers(m, e) PROVE Covers(m, e)'
  <2>1. m.used \in Nat /\ m.snapshot \in Nat
    BY DEF Meter
  <2>2. Delta(counter[e] + 1, m.snapshot) <= Delta(counter[e], m.snapshot) + 1
    BY <1>1, <2>1, DeviceTypes, DeltaOfUse
  <2>3. /\ Delta(counter[e], m.snapshot) \in Nat
        /\ Delta(counter[e] + 1, m.snapshot) \in Nat
    <3>1. counter[e] \in Nat /\ counter[e] + 1 \in Nat
      BY <1>1, DeviceTypes
    <3> QED BY <2>1, <3>1, DeltaBounds
  <2> QED
    BY <1>1, <1>2, <1>3, <2>1, <2>2, <2>3, DeviceTypes DEF Covers, Total
<1>4. ASSUME NEW m \in Meter, Exact(m, e) PROVE Exact(m, e)'
  BY <1>1, <1>2, <1>4, DeviceTypes DEF Exact, Total, Meter
<1>5. StoredInv(e)'
  BY <1>1, <1>2, <1>3, <1>4, DeviceTypes DEF StoredInv
<1>6. Total(e)' >= Total(e)
  BY <1>1, <1>2, DeviceTypes DEF Total
<1>7. Total(e) >= Limit => Total(e)' >= Limit
  BY <1>1, <1>2, <1>6, LimitAssumption, DeviceTypes DEF Total
<1>8. PendingInv(e)'
  BY <1>1, <1>2, <1>3, <1>4, <1>7, DeviceTypes DEF PendingInv, Pending
<1> QED
  BY <1>1, <1>2, <1>5, <1>8

\* When Xray starts again no meter has anything to catch up with, and none is
\* exact any more.
LEMMA ResetMeterInv ==
  ASSUME MeterInv, CountersReset, UNCHANGED <<sub, meter, real, extra>>,
         poll'.busy = poll.busy, poll'.sub = poll.sub,
         poll'.meter = poll.meter, poll'.over = poll.over,
         NEW e \in Devices,
         status[e] = "suspended" \/ e \in reissued =>
           status'[e] = "suspended" \/ e \in reissued'
  PROVE  poll'.sub[e] <= sub'[e] /\ StoredInv(e)' /\ PendingInv(e)'
<1>1. TypeOK /\ poll.sub[e] <= sub[e] /\ StoredInv(e) /\ PendingInv(e)
  BY DEF MeterInv
<1>2. counter'[e] = 0 /\ e \notin whole'
  BY DEF CountersReset
<1>3. Total(e)' = Total(e)
  BY DEF Total
<1>4. ASSUME NEW m \in Meter, Covers(m, e) PROVE Covers(m, e)'
  <2>1. m.used \in Nat /\ m.snapshot \in Nat
    BY DEF Meter
  <2>2. Delta(0, m.snapshot) = 0 /\ Delta(counter[e], m.snapshot) \in Nat
    BY <1>1, <2>1, DeltaOfReset, DeltaBounds, DeviceTypes
  <2> QED
    BY <1>1, <1>2, <1>3, <1>4, <2>1, <2>2, DeviceTypes DEF Covers, Total
<1>5. StoredInv(e)'
  BY <1>1, <1>2, <1>4, DeviceTypes DEF StoredInv
<1>6. PendingInv(e)'
  BY <1>1, <1>2, <1>3, <1>4, DeviceTypes DEF PendingInv, Pending
<1> QED
  BY <1>1, <1>5, <1>6

\* Steps that leave counters, meters and totals alone.
LEMMA IdleMeterInv ==
  ASSUME MeterInv, UNCHANGED <<counter, status, sub, meter, real, extra, whole, reissued>>,
         poll'.busy = poll.busy, poll'.sub = poll.sub,
         poll'.meter = poll.meter, poll'.over = poll.over,
         NEW e \in Devices
  PROVE  poll'.sub[e] <= sub'[e] /\ StoredInv(e)' /\ PendingInv(e)'
BY DEF MeterInv, StoredInv, PendingInv, Pending, Covers, Exact, Total

\* A new subscription starts with what the counter shows, and is none of the
\* poll's.
LEMMA RenewMeterInv ==
  ASSUME MeterInv, NEW d \in Devices, Renew(d), NEW e \in Devices
  PROVE  poll'.sub[e] <= sub'[e] /\ StoredInv(e)' /\ PendingInv(e)'
<1>1. TypeOK /\ poll.sub[e] <= sub[e] /\ StoredInv(e) /\ PendingInv(e)
  BY DEF MeterInv
<1>2. CASE e = d
  <2>1. /\ meter'[e] = Fresh /\ sub'[e] = sub[e] + 1 /\ poll' = poll
        /\ real'[e] = 0 /\ extra'[e] = counter[e] /\ counter' = counter
    BY <1>1, <1>2 DEF Renew, TypeOK
  <2>2. Covers(Fresh, e)' /\ Exact(Fresh, e)'
    BY <1>1, <2>1, DeviceTypes DEF Covers, Exact, Total, Fresh, Delta
  <2>3. ~ (Fresh.used >= Limit)
    BY LimitAssumption DEF Fresh
  <2>4. StoredInv(e)'
    BY <2>1, <2>2, <2>3 DEF StoredInv, Covers, Exact, Total
  <2>5. poll'.sub[e] <= sub'[e] /\ ~ Pending(e)'
    BY <1>1, <2>1, DeviceTypes DEF Pending
  <2> QED
    BY <2>4, <2>5 DEF PendingInv
<1>3. CASE e # d
  <2>1. /\ meter'[e] = meter[e] /\ sub'[e] = sub[e] /\ poll' = poll
        /\ real'[e] = real[e] /\ extra'[e] = extra[e] /\ counter' = counter
        /\ (e \in whole') = (e \in whole) /\ status' = status
        /\ (e \in reissued') = (e \in reissued)
    BY <1>1, <1>3 DEF Renew, TypeOK
  <2>2. StoredInv(e)'
    BY <1>1, <2>1 DEF StoredInv, Covers, Exact, Total
  <2>3. PendingInv(e)'
    BY <1>1, <2>1 DEF PendingInv, Pending, Covers, Exact, Total
  <2> QED
    BY <1>1, <2>1, <2>2, <2>3
<1> QED
  BY <1>2, <1>3

\* A regeneration may replace a suspended row, and marks the device if it does.
LEMMA RegenerateMeterInv ==
  ASSUME MeterInv, NEW d \in Devices, Regenerate(d), NEW e \in Devices
  PROVE  poll'.sub[e] <= sub'[e] /\ StoredInv(e)' /\ PendingInv(e)'
<1>1. UNCHANGED <<sub, meter, real, extra>> /\ TypeOK
  BY DEF Regenerate, MeterInv
<1>2. CASE UNCHANGED <<client, counter, whole, status, reissued, poll>>
  BY <1>1, <1>2, IdleMeterInv
<1>3. CASE /\ CountersReset
           /\ status' = [status EXCEPT ![d] = "active"]
           /\ reissued' = IF status[d] = "suspended" THEN reissued \union {d} ELSE reissued
           /\ poll' = IF poll.busy THEN [poll EXCEPT !.gone = @ \union {d}] ELSE poll
  <2>1. status[e] = "suspended" \/ e \in reissued =>
          status'[e] = "suspended" \/ e \in reissued'
    BY <1>1, <1>3 DEF TypeOK
  <2>2. /\ poll'.busy = poll.busy /\ poll'.sub = poll.sub
        /\ poll'.meter = poll.meter /\ poll'.over = poll.over
    BY <1>1, <1>3 DEF TypeOK, Poll
  <2> QED
    BY <1>1, <1>3, <2>1, <2>2, ResetMeterInv
<1> QED
  BY <1>2, <1>3 DEF Regenerate

\* A poll loads what is stored.
LEMMA PollLoadMeterInv ==
  ASSUME MeterInv, PollLoad, NEW e \in Devices
  PROVE  poll'.sub[e] <= sub'[e] /\ StoredInv(e)' /\ PendingInv(e)'
<1>1. TypeOK /\ StoredInv(e)
  BY DEF MeterInv
<1>2. /\ poll'.sub = sub /\ poll'.meter = meter /\ poll'.over = {}
      /\ UNCHANGED <<counter, status, sub, meter, real, extra, whole, reissued>>
  BY DEF PollLoad, NoPoll, rows, history
<1>3. poll'.sub[e] <= sub'[e]
  BY <1>1, <1>2, DeviceTypes
<1>4. StoredInv(e)'
  BY <1>1, <1>2 DEF StoredInv, Covers, Exact, Total
<1>5. PendingInv(e)'
  BY <1>1, <1>2 DEF PendingInv, StoredInv, Covers, Exact, Total
<1> QED
  BY <1>3, <1>4, <1>5

\* What dealing with d under meter m does to the poll.
LEMMA VisitedShape ==
  ASSUME TypeOK, NEW d \in Devices, NEW m \in Meter, Visited(d, m)
  PROVE  /\ poll'.busy = poll.busy /\ poll'.sub = poll.sub
         /\ poll'.meter = [poll.meter EXCEPT ![d] = m]
         /\ m.used >= Limit => poll'.over = poll.over \union {d}
         /\ ~ (m.used >= Limit) => poll'.over = poll.over
<1> DEFINE next == [poll EXCEPT !.left = @ \ {d}, !.meter[d] = m]
<1>1. /\ next.busy = poll.busy /\ next.sub = poll.sub /\ next.over = poll.over
      /\ next.meter = [poll.meter EXCEPT ![d] = m] /\ next \in Poll
  BY DEF TypeOK, Poll
<1> HIDE DEF next
<1>2. CASE m.used >= Limit
  <2>1. poll' = [next EXCEPT !.over = @ \union {d}, !.cutting = d]
    BY <1>2 DEF Visited, next
  <2> QED BY <1>1, <1>2, <2>1 DEF Poll
<1>3. CASE ~ (m.used >= Limit)
  <2>1. poll' \in {next, [next EXCEPT !.sharing = @ \union {d}, !.cutting = d]}
    BY <1>3 DEF Visited, next
  <2> QED BY <1>1, <1>3, <2>1 DEF Poll
<1> QED
  BY <1>2, <1>3

\* A reading may be stored later on if it covers d's traffic; the other devices'
\* meters must stay as good as they were.
LEMMA VisitedPending ==
  ASSUME TypeOK, TypeOK', UNCHANGED <<status, sub, reissued>>,
         NEW d \in Devices, NEW m \in Meter, Visited(d, m),
         NEW e \in Devices, PendingInv(e), Total(e)' >= Total(e),
         NEW old, old = poll.meter[e],
         e # d /\ Covers(old, e) => Covers(old, e)',
         e # d /\ e \in whole' => e \in whole /\ (Exact(old, e) => Exact(old, e)'),
         e = d /\ Pending(d) => Covers(m, d)' /\ (d \in whole' => Exact(m, d)')
  PROVE  PendingInv(e)'
<1>1. /\ poll'.busy = poll.busy /\ poll'.sub = poll.sub
      /\ poll'.meter = [poll.meter EXCEPT ![d] = m]
      /\ m.used >= Limit => poll'.over = poll.over \union {d}
      /\ ~ (m.used >= Limit) => poll'.over = poll.over
  BY VisitedShape
<1>2. Pending(e)' = Pending(e)
  BY <1>1 DEF Pending
<1>3. SUFFICES ASSUME Pending(e) PROVE PendingInv(e)'
  BY <1>2 DEF PendingInv
<1>4. Total(e) \in Nat /\ Total(e)' \in Nat /\ Limit \in Nat
  BY LimitAssumption DEF TypeOK, Total
<1>5. CASE e # d
  <2>1. poll'.meter[e] = old /\ (e \in poll'.over) = (e \in poll.over)
    BY <1>1, <1>5 DEF TypeOK, Poll
  <2>2. e \in poll.over => Total(e)' >= Limit
    BY <1>3, <1>4 DEF PendingInv
  <2>3. Covers(old, e)' /\ (e \in whole' => Exact(old, e)')
    BY <1>3, <1>5 DEF PendingInv
  <2>4. old.used >= Limit => e \in poll.over \/ status[e] = "suspended" \/ e \in reissued
    BY <1>3 DEF PendingInv
  <2> QED
    BY <2>1, <2>2, <2>3, <2>4 DEF PendingInv, Covers, Exact, Total
<1>6. CASE e = d
  <2>1. poll'.meter[e] = m
    BY <1>1, <1>6 DEF TypeOK, Poll
  <2>2. Covers(m, e)' /\ (e \in whole' => Exact(m, e)')
    BY <1>3, <1>6
  <2>3. m.used <= Total(e)' /\ m.used \in Nat
    <3>1. m.used \in Nat /\ m.snapshot \in Nat /\ counter'[e] \in Nat
      BY DEF Meter, TypeOK
    <3>2. Delta(counter'[e], m.snapshot) \in Nat
      BY <3>1, DeltaBounds
    <3>3. m.used + Delta(counter'[e], m.snapshot) <= Total(e)'
      BY <2>2 DEF Covers
    <3> QED BY <1>4, <3>1, <3>2, <3>3
  <2>4. m.used >= Limit => e \in poll'.over /\ Total(e)' >= Limit
    BY <1>1, <1>4, <1>6, <2>3
  <2>5. e \in poll.over => Total(e)' >= Limit
    BY <1>3, <1>4 DEF PendingInv
  <2>6. e \in poll'.over => Total(e)' >= Limit
    BY <1>1, <2>4, <2>5
  <2> QED
    BY <2>1, <2>2, <2>4, <2>6 DEF PendingInv, Covers, Exact, Total
<1> QED
  BY <1>5, <1>6

\* A reading of the counter.
LEMMA SyncMeterInv ==
  ASSUME MeterInv, TypeOK', NEW d \in Devices, SyncTraffic(d), NEW e \in Devices
  PROVE  poll'.sub[e] <= sub'[e] /\ StoredInv(e)' /\ PendingInv(e)'
<1>1. TypeOK /\ poll.sub[e] <= sub[e] /\ StoredInv(e) /\ PendingInv(e) /\ PendingInv(d)
  BY DEF MeterInv
<1> DEFINE m == ApplyTrafficDelta(poll.meter[d], counter[d])
           c == counter[d]
           old == poll.meter[d]
<1>2. UNCHANGED <<counter, status, sub, meter, real, extra, whole, reissued>> /\ Visited(d, m)
  BY DEF SyncTraffic, rows, history
<1>3. c \in Nat /\ old.used \in Nat /\ old.snapshot \in Nat /\ old \in Meter
  BY <1>1, DeviceTypes
<1>4. m \in Meter /\ m.used = old.used + Delta(c, old.snapshot) /\ m.snapshot = c
  BY <1>3, ReadingType
<1> HIDE DEF m, old, c
<1>5. Delta(c, m.snapshot) = 0
  BY <1>3, <1>4 DEF Delta
<1>6. Pending(d) => Covers(m, d)
  <2>1. Pending(d) => old.used + Delta(c, old.snapshot) <= Total(d)
    BY <1>1 DEF PendingInv, Covers, old, c
  <2>2. Delta(c, old.snapshot) \in Nat
    BY <1>3, DeltaBounds
  <2> QED
    BY <1>3, <1>4, <1>5, <2>1, <2>2 DEF Covers, c
<1>7. Pending(d) /\ d \in whole => Exact(m, d)
  <2>1. Pending(d) /\ d \in whole =>
          old.snapshot <= c /\ old.used + (c - old.snapshot) = Total(d)
    BY <1>1 DEF PendingInv, Exact, old, c
  <2>2. old.snapshot <= c => Delta(c, old.snapshot) = c - old.snapshot
    BY <1>3 DEF Delta
  <2> QED
    BY <1>3, <1>4, <2>1, <2>2 DEF Exact, c
<1>8. Total(e)' = Total(e) /\ Total(e) \in Nat
  BY <1>1, <1>2 DEF Total, TypeOK
<1>9. PendingInv(e)'
  BY <1>1, <1>2, <1>4, <1>6, <1>7, <1>8, VisitedPending
     DEF Covers, Exact, Total
<1>10. StoredInv(e)'
  BY <1>1, <1>2 DEF StoredInv, Covers, Exact, Total
<1>11. poll'.sub = poll.sub
  BY <1>1, <1>2, <1>4, VisitedShape
<1> QED
  BY <1>1, <1>2, <1>9, <1>10, <1>11

\* A reading that is taken for less than the counter shows: what it counts once
\* more is put up with, the rest is left to the next reading.
LEMMA MisreadMeterInv ==
  ASSUME MeterInv, TypeOK', NEW d \in Devices, SyncTrafficMisread(d), NEW e \in Devices
  PROVE  poll'.sub[e] <= sub'[e] /\ StoredInv(e)' /\ PendingInv(e)'
<1>1. TypeOK /\ poll.sub[e] <= sub[e] /\ StoredInv(e) /\ PendingInv(e) /\ PendingInv(d)
  BY DEF MeterInv
<1>2. PICK current \in 0..counter[d] :
        /\ Visited(d, ApplyTrafficDelta(poll.meter[d], current))
        /\ IF current < poll.meter[d].snapshot /\ poll.sub[d] = sub[d]
           THEN /\ extra' = [extra EXCEPT ![d] = @ + poll.meter[d].snapshot]
                /\ whole' = whole \ {d}
           ELSE extra' = extra /\ whole' = whole
  <2>1. [extra EXCEPT ![d] = extra[d]] = extra
    BY <1>1 DEF TypeOK
  <2> QED BY <1>1, <2>1 DEF SyncTrafficMisread, TypeOK
<1>3. UNCHANGED <<counter, status, sub, meter, real, reissued>>
  BY DEF SyncTrafficMisread, rows
<1>4. PICK old : old = poll.meter[d]
  OBVIOUS
<1>5. PICK m : m = ApplyTrafficDelta(old, current)
  OBVIOUS
<1>6. PICK c : c = counter[d]
  OBVIOUS
<1>7. /\ current \in Nat /\ current <= c /\ c \in Nat
      /\ old.used \in Nat /\ old.snapshot \in Nat /\ old \in Meter
      /\ extra[d] \in Nat /\ real[d] \in Nat
  BY <1>1, <1>2, <1>4, <1>6, DeviceTypes
<1>8. m \in Meter /\ m.used = old.used + Delta(current, old.snapshot) /\ m.snapshot = current
  BY <1>7, <1>5, ReadingType
<1>9. Visited(d, m)
  BY <1>2, <1>4, <1>5
<1>10. poll.busy
  BY DEF SyncTrafficMisread, MayVisit
<1>11. ASSUME current < old.snapshot, Pending(d) PROVE StoredInv(e)' /\ PendingInv(e)'
  <2>1. /\ extra'[d] = extra[d] + old.snapshot /\ d \notin whole'
        /\ e # d => extra'[e] = extra[e] /\ (e \in whole' <=> e \in whole)
    BY <1>1, <1>2, <1>4, <1>11 DEF TypeOK, Pending
  <2>2. Covers(m, d)'
    <3>1. old.used + Delta(c, old.snapshot) <= real[d] + extra[d]
      BY <1>1, <1>4, <1>6, <1>11 DEF PendingInv, Covers, Total
    <3>2. Delta(c, old.snapshot) \in Nat /\ c <= Delta(c, old.snapshot) + old.snapshot
      BY <1>7 DEF Delta
    <3>3. m.used = old.used + current /\ Delta(c, m.snapshot) = c - current
      BY <1>7, <1>8, <1>11 DEF Delta
    <3>4. m.used + Delta(c, m.snapshot) <= real[d] + extra'[d]
      BY <1>7, <2>1, <3>1, <3>2, <3>3
    <3> QED BY <1>3, <1>6, <3>4 DEF Covers, Total
  <2>3. Total(e)' >= Total(e) /\ Total(e) \in Nat /\ Total(e)' \in Nat /\ (e # d => Total(e)' = Total(e))
    BY <1>1, <1>3, <1>7, <2>1 DEF Total, TypeOK
  <2>4. ASSUME NEW k \in Meter, Covers(k, e) PROVE Covers(k, e)'
    <3>1. k.used \in Nat /\ Delta(counter[e], k.snapshot) \in Nat
      BY <1>1, DeviceTypes, DeltaBounds DEF Meter
    <3> QED BY <1>3, <2>3, <2>4, <3>1 DEF Covers
  <2>5. e # d => \A k : Exact(k, e) => Exact(k, e)'
    BY <1>3, <2>3 DEF Exact
  <2>6. PendingInv(e)'
    <3>1. PICK was \in Meter : was = poll.meter[e]
      BY <1>1, DeviceTypes
    <3> QED
      BY <1>1, <1>3, <1>8, <1>9, <2>1, <2>2, <2>3, <2>4, <2>5, <3>1, VisitedPending
  <2>7. StoredInv(e)'
    <3>1. PICK was \in Meter : was = meter[e]
      BY <1>1, DeviceTypes
    <3>2. Covers(was, e)' /\ (e \in whole' => Exact(was, e)')
      BY <1>1, <2>1, <2>4, <2>5, <3>1 DEF StoredInv
    <3> QED BY <1>1, <1>3, <3>1, <3>2 DEF StoredInv, Covers, Exact, Total
  <2> QED BY <2>6, <2>7
<1>12. ASSUME ~(current < old.snapshot /\ Pending(d)) PROVE StoredInv(e)' /\ PendingInv(e)'
  <2>1. extra' = extra /\ whole' = whole
    BY <1>1, <1>2, <1>4, <1>10, <1>12 DEF Pending
  <2>2. Pending(d) => Covers(m, d) /\ (d \in whole => Exact(m, d))
    <3>1. SUFFICES ASSUME Pending(d) PROVE Covers(m, d) /\ (d \in whole => Exact(m, d))
      OBVIOUS
    <3>2. /\ m.used = old.used + (current - old.snapshot) /\ old.snapshot <= current
          /\ Delta(c, m.snapshot) = c - current /\ Delta(c, old.snapshot) = c - old.snapshot
      BY <1>7, <1>8, <1>12, <3>1 DEF Delta
    <3>3. Covers(m, d)
      <4>1. old.used + Delta(c, old.snapshot) <= Total(d)
        BY <1>1, <1>4, <1>6, <3>1 DEF PendingInv, Covers
      <4>2. m.used + Delta(c, m.snapshot) = old.used + Delta(c, old.snapshot)
        BY <1>7, <3>2
      <4> QED BY <1>6, <4>1, <4>2 DEF Covers
    <3>4. d \in whole => Exact(m, d)
      <4>1. d \in whole => old.used + (c - old.snapshot) = Total(d)
        BY <1>1, <1>4, <1>6, <3>1 DEF PendingInv, Exact
      <4>2. m.used + (c - m.snapshot) = old.used + (c - old.snapshot)
        BY <1>7, <1>8, <3>2
      <4> QED BY <1>6, <1>7, <1>8, <4>1, <4>2 DEF Exact
    <3> QED BY <3>3, <3>4
  <2>3. Total(e)' = Total(e) /\ Total(e) \in Nat
    BY <1>1, <1>3, <2>1 DEF Total, TypeOK
  <2>4. PendingInv(e)'
    BY <1>1, <1>3, <1>8, <1>9, <2>1, <2>2, <2>3, VisitedPending DEF Covers, Exact, Total
  <2>5. StoredInv(e)'
    BY <1>1, <1>3, <2>1 DEF StoredInv, Covers, Exact, Total
  <2> QED BY <2>4, <2>5
<1>13. poll'.sub = poll.sub
  BY <1>1, <1>8, <1>9, VisitedShape
<1> QED
  BY <1>1, <1>3, <1>11, <1>12, <1>13

\* A reading that a restart of Xray has torn: what it counts once more is put up
\* with.
LEMMA TornMeterInv ==
  ASSUME MeterInv, TypeOK', NEW d \in Devices, SyncTrafficTorn(d), NEW e \in Devices
  PROVE  poll'.sub[e] <= sub'[e] /\ StoredInv(e)' /\ PendingInv(e)'
<1>1. TypeOK /\ poll.sub[e] <= sub[e] /\ StoredInv(e) /\ PendingInv(e) /\ PendingInv(d)
  BY DEF MeterInv
<1>2. PICK current \in 0..counter[d] :
        /\ Visited(d, ApplyTrafficDelta(poll.meter[d], current))
        /\ extra' = [extra EXCEPT ![d] =
                       IF current < poll.meter[d].snapshot /\ poll.sub[d] = sub[d]
                       THEN @ + current ELSE @]
  BY DEF SyncTrafficTorn
<1>3. poll.meter[d] \in Meter /\ current \in Nat /\ counter[d] \in Nat
  BY <1>1, <1>2, DeviceTypes
<1>4. PICK old : old = poll.meter[d]
  OBVIOUS
<1>5. PICK m : m = ApplyTrafficDelta(old, current)
  OBVIOUS
<1>6. UNCHANGED <<status, sub, meter, real, reissued>>
  BY DEF SyncTrafficTorn, rows
<1>7. /\ current \in Nat /\ current <= counter[d] /\ counter[d] \in Nat
      /\ old.used \in Nat /\ old.snapshot \in Nat /\ old \in Meter
      /\ extra[d] \in Nat /\ real[d] \in Nat
  BY <1>1, <1>2, <1>3, <1>4, DeviceTypes
<1>8. m \in Meter /\ m.used = old.used + Delta(current, old.snapshot) /\ m.snapshot = current
  BY <1>7, <1>5, ReadingType
<1>9. Visited(d, m)
  BY <1>2, <1>4, <1>5
<1>10. /\ counter'[e] = 0 /\ e \notin whole'
      /\ counter'[d] = 0 /\ d \notin whole'
  BY DEF SyncTrafficTorn, CountersReset
<1>11. extra'[d] = IF current < old.snapshot /\ Pending(d) THEN extra[d] + current ELSE extra[d]
  <2>1. poll.busy
    BY DEF SyncTrafficTorn, MayVisit
  <2> QED
    BY <1>1, <1>2, <1>4, <2>1 DEF TypeOK, Pending
<1>12. Pending(d) => Covers(m, d)'
  <2>1. SUFFICES ASSUME Pending(d) PROVE Covers(m, d)'
    OBVIOUS
  <2>2. old.used + Delta(counter[d], old.snapshot) <= real[d] + extra[d]
    BY <1>1, <1>4, <2>1 DEF PendingInv, Covers, Total
  <2>3. Delta(counter[d], old.snapshot) \in Nat /\ Delta(current, old.snapshot) \in Nat
    BY <1>7, DeltaBounds
  <2>4. m.used <= real[d] + extra'[d]
    <3>1. CASE current < old.snapshot
      <4>1. Delta(current, old.snapshot) = current
        BY <3>1 DEF Delta
      <4>2. extra'[d] = extra[d] + current
        BY <1>11, <2>1, <3>1
      <4> QED BY <1>7, <1>8, <2>2, <2>3, <4>1, <4>2
    <3>2. CASE ~ (current < old.snapshot)
      <4>1. Delta(current, old.snapshot) <= Delta(counter[d], old.snapshot)
        BY <1>7, <3>2 DEF Delta
      <4>2. extra'[d] = extra[d]
        BY <1>11, <3>2
      <4> QED BY <1>7, <1>8, <2>2, <2>3, <4>1, <4>2
    <3> QED BY <3>1, <3>2
  <2>5. Delta(0, m.snapshot) = 0 /\ m.used \in Nat
    BY <1>7, <1>8, <2>3, DeltaOfReset
  <2> QED
    BY <1>6, <1>7, <1>10, <1>11, <2>4, <2>5 DEF Covers, Total
<1>13. Total(e)' >= Total(e) /\ Total(e) \in Nat
  BY <1>1, <1>2, <1>6, <1>7 DEF Total, TypeOK
<1>14. ASSUME NEW k \in Meter, Covers(k, e) PROVE Covers(k, e)'
  <2>1. k.used \in Nat /\ k.snapshot \in Nat /\ counter[e] \in Nat /\ Total(e)' \in Nat
    BY <1>1 DEF Meter, TypeOK, Total
  <2>2. Delta(0, k.snapshot) = 0 /\ Delta(counter[e], k.snapshot) \in Nat
    BY <2>1, DeltaOfReset, DeltaBounds
  <2>3. k.used + Delta(counter[e], k.snapshot) <= Total(e)
    BY <1>14 DEF Covers
  <2>4. k.used + Delta(counter'[e], k.snapshot) <= Total(e)'
    BY <1>10, <1>13, <2>1, <2>2, <2>3
  <2> QED
    BY <2>4 DEF Covers
<1>15. PendingInv(e)'
  <2>1. PICK was \in Meter : was = poll.meter[e]
    BY <1>1, DeviceTypes
  <2>2. Covers(was, e) => Covers(was, e)'
    BY <1>14
  <2>3. e = d /\ Pending(d) => Covers(m, d)' /\ (d \in whole' => Exact(m, d)')
    BY <1>10, <1>12
  <2> QED
    BY <1>1, <1>6, <1>8, <1>9, <1>10, <1>13, <2>1, <2>2, <2>3, VisitedPending
<1>16. StoredInv(e)'
  <2>1. meter[e] \in Meter /\ Covers(meter[e], e)
    BY <1>1, DeviceTypes DEF StoredInv
  <2>2. Covers(meter[e], e)'
    <3>1. PICK was \in Meter : was = meter[e]
      BY <2>1
    <3>2. Covers(was, e)'
      BY <1>14, <2>1, <3>1
    <3> QED BY <1>6, <3>1, <3>2 DEF Covers
  <2> QED
    BY <1>1, <1>6, <1>10, <2>2 DEF StoredInv
<1>17. poll'.sub = poll.sub
  BY <1>1, <1>8, <1>9, VisitedShape
<1> QED
  BY <1>1, <1>6, <1>15, <1>16, <1>17

\* The steps of a poll that read nothing.
LEMMA OtherPollMeterInv ==
  ASSUME MeterInv, NEW e \in Devices,
         RemoveUser \/ \E d \in Devices : StatsUnavailable(d)
  PROVE  poll'.sub[e] <= sub'[e] /\ StoredInv(e)' /\ PendingInv(e)'
<1>1. TypeOK
  BY DEF MeterInv
<1>2. ASSUME NEW d \in Devices, StatsUnavailable(d)
      PROVE  poll'.sub[e] <= sub'[e] /\ StoredInv(e)' /\ PendingInv(e)'
  <2> DEFINE next == [poll EXCEPT !.left = @ \ {d}]
  <2>1. poll' \in {next, [next EXCEPT !.sharing = @ \union {d}, !.cutting = d]}
    BY <1>2 DEF StatsUnavailable
  <2>2. /\ poll'.busy = poll.busy /\ poll'.sub = poll.sub
        /\ poll'.meter = poll.meter /\ poll'.over = poll.over
    BY <1>1, <2>1 DEF TypeOK, Poll
  <2>3. UNCHANGED <<counter, status, sub, meter, real, extra, whole, reissued>>
    BY <1>2 DEF StatsUnavailable, rows, history
  <2> QED
    BY <2>2, <2>3, IdleMeterInv
<1>3. CASE RemoveUser
  <2>1. /\ poll'.busy = poll.busy /\ poll'.sub = poll.sub
        /\ poll'.meter = poll.meter /\ poll'.over = poll.over
    BY <1>1, <1>3 DEF RemoveUser, TypeOK, Poll
  <2>2. UNCHANGED <<status, sub, meter, real, extra, reissued>>
    BY <1>3 DEF RemoveUser, rows
  <2>3. CASE CountersReset
    BY <2>1, <2>2, <2>3, ResetMeterInv
  <2>4. CASE UNCHANGED <<client, counter, whole>>
    BY <2>1, <2>2, <2>4, IdleMeterInv
  <2> QED
    BY <1>3, <2>3, <2>4 DEF RemoveUser
<1> QED
  BY <1>2, <1>3

\* A commit stores what may be stored, and suspends what the poll has found.
LEMMA CommitMeterInv ==
  ASSUME MeterInv, Commit, NEW e \in Devices
  PROVE  poll'.sub[e] <= sub'[e] /\ StoredInv(e)' /\ PendingInv(e)'
<1>1. TypeOK /\ StoredInv(e) /\ PendingInv(e)
  BY DEF MeterInv
<1>2. /\ meter'[e] = IF poll.sub[e] = sub[e] THEN poll.meter[e] ELSE meter[e]
      /\ status'[e] = IF e \in Found THEN "suspended" ELSE status[e]
      /\ UNCHANGED <<counter, sub, real, extra, whole, reissued>>
      /\ poll' = NoPoll /\ poll.busy
  BY DEF Commit, Done, history
<1>3. poll'.sub[e] <= sub'[e] /\ ~ Pending(e)'
  BY <1>1, <1>2, DeviceTypes DEF NoPoll, Pending
<1>4. ASSUME poll.sub[e] = sub[e] PROVE StoredInv(e)'
  BY <1>1, <1>2, <1>4 DEF StoredInv, PendingInv, Pending, Covers, Exact, Total, Found
<1>5. ASSUME poll.sub[e] # sub[e] PROVE StoredInv(e)'
  BY <1>1, <1>2, <1>5 DEF StoredInv, Covers, Exact, Total
<1> QED
  BY <1>3, <1>4, <1>5 DEF PendingInv

\* A poll that fails leaves what was stored.
LEMMA PollFailsMeterInv ==
  ASSUME MeterInv, PollFails, NEW e \in Devices
  PROVE  poll'.sub[e] <= sub'[e] /\ StoredInv(e)' /\ PendingInv(e)'
<1>1. TypeOK /\ StoredInv(e)
  BY DEF MeterInv
<1>2. UNCHANGED <<counter, rows, history>> /\ poll' = NoPoll
  BY DEF PollFails
<1>3. poll'.sub[e] <= sub'[e] /\ ~ Pending(e)'
  BY <1>1, <1>2, DeviceTypes DEF NoPoll, Pending, rows
<1>4. StoredInv(e)'
  BY <1>1, <1>2 DEF StoredInv, Covers, Exact, Total, rows, history
<1> QED
  BY <1>3, <1>4 DEF PendingInv

\* Every step keeps the invariant.
LEMMA NextMeterInv == MeterInv /\ [Next]_vars => MeterInv'
<1> SUFFICES ASSUME MeterInv, [Next]_vars PROVE MeterInv'
  OBVIOUS
<1>1. TypeOK /\ TypeOK'
  BY NextTypeOK DEF MeterInv
<1>2. SUFFICES ASSUME NEW e \in Devices
               PROVE  poll'.sub[e] <= sub'[e] /\ StoredInv(e)' /\ PendingInv(e)'
  BY <1>1 DEF MeterInv
<1>3. ASSUME NEW d \in Devices, Use(d) \/ Renew(d) \/ Regenerate(d)
      PROVE  poll'.sub[e] <= sub'[e] /\ StoredInv(e)' /\ PendingInv(e)'
  BY <1>3, UseMeterInv, RenewMeterInv, RegenerateMeterInv
<1>4. CASE Restart \/ \E d \in Devices : RegenerateLoad(d)
  BY <1>4, ResetMeterInv DEF Restart, RegenerateLoad, rows
<1>5. CASE PollLoad
  BY <1>5, PollLoadMeterInv
<1>6. ASSUME NEW d \in Devices, SyncTraffic(d) \/ SyncTrafficMisread(d) \/ SyncTrafficTorn(d)
      PROVE  poll'.sub[e] <= sub'[e] /\ StoredInv(e)' /\ PendingInv(e)'
  BY <1>1, <1>6, SyncMeterInv, MisreadMeterInv, TornMeterInv
<1>7. CASE RemoveUser \/ \E d \in Devices : StatsUnavailable(d)
  BY <1>7, OtherPollMeterInv
<1>8. CASE Commit \/ PollFails
  BY <1>8, CommitMeterInv, PollFailsMeterInv
<1>9. CASE UNCHANGED vars
  BY <1>9, IdleMeterInv DEF vars, rows, history
<1> QED
  BY <1>3, <1>4, <1>5, <1>6, <1>7, <1>8, <1>9 DEF Next, Monitor, Visit

\* Stored and pending meters cover the traffic in every run.
THEOREM MeterInvCorrect == Spec => []MeterInv
BY InitMeterInv, NextMeterInv, PTL DEF Spec

-----------------------------------------------------------------------------
(* The properties.                                                         *)

\* A subscription is never charged for more than what went through since it was
\* bought, the counter's reading of that time and what torn or misread ones doubled.
THEOREM NeverOverchargedCorrect == Spec => []NeverOvercharged
<1>1. MeterInv => NeverOvercharged
  <2> SUFFICES ASSUME MeterInv, NEW d \in Devices
               PROVE  meter[d].used <= real[d] + extra[d]
    BY DEF NeverOvercharged
  <2>1. TypeOK /\ meter[d].used + Delta(counter[d], meter[d].snapshot) <= real[d] + extra[d]
    BY DEF MeterInv, StoredInv, Covers, Total
  <2>2. Delta(counter[d], meter[d].snapshot) \in Nat
    BY <2>1, DeviceTypes, DeltaBounds
  <2> QED
    BY <2>1, <2>2, DeviceTypes
<1> QED
  BY <1>1, MeterInvCorrect, PTL

\* Until Xray is restarted or a reading falls short of the snapshot, what is charged and what the counter has gained since
\* then are exactly the traffic, whatever polls were lost.
THEOREM NothingMissedCorrect == Spec => []NothingMissed
<1>1. MeterInv => NothingMissed
  BY DEF MeterInv, NothingMissed, StoredInv, Exact, Total, TypeOK
<1> QED
  BY <1>1, MeterInvCorrect, PTL

\* A used-up subscription has no active device but one that a regeneration under
\* way has put in the place of the suspended one.
THEOREM UsedUpIsSuspendedCorrect == Spec => []UsedUpIsSuspended
<1>1. MeterInv => UsedUpIsSuspended
  BY DEF MeterInv, UsedUpIsSuspended, StoredInv
<1> QED
  BY <1>1, MeterInvCorrect, PTL

\* Only a commit suspends, and only what the poll has found in violation.
LEMMA SuspensionIsCommit ==
  ASSUME TypeOK, [Next]_vars, NEW d \in Devices,
         status[d] = "active", status'[d] = "suspended"
  PROVE  Commit /\ d \in Found
<1>1. ASSUME NEW e \in Devices, Use(e) \/ Renew(e) \/ RegenerateLoad(e) \/ Regenerate(e)
      PROVE  FALSE
  BY <1>1 DEF Use, Renew, RegenerateLoad, Regenerate, rows, TypeOK
<1>2. ASSUME NEW e \in Devices, Visit(e)
      PROVE  FALSE
  BY <1>2 DEF Visit, SyncTraffic, SyncTrafficMisread, SyncTrafficTorn, StatsUnavailable, rows
<1>3. CASE Restart \/ PollLoad \/ RemoveUser \/ PollFails \/ UNCHANGED vars
  BY <1>3 DEF Restart, PollLoad, RemoveUser, PollFails, vars, rows
<1>4. CASE Commit
  BY <1>4 DEF Commit
<1> QED
  BY <1>1, <1>2, <1>3, <1>4 DEF Next, Monitor

\* A device is suspended only for sharing, or for traffic that went through or was
\* doubled by torn or misread ones, or it was renewed during the poll.
THEOREM SuspendedForCauseCorrect == Spec => SuspendedForCause
<1>1. ASSUME MeterInv, [Next]_vars
      PROVE  [\A d \in Devices :
                status[d] = "active" /\ status'[d] = "suspended" =>
                  \/ d \in poll.sharing
                  \/ poll.sub[d] # sub[d]
                  \/ real[d] + extra[d] >= Limit]_vars
  <2> SUFFICES ASSUME NEW d \in Devices, status[d] = "active", status'[d] = "suspended",
                      d \notin poll.sharing, poll.sub[d] = sub[d]
               PROVE  real[d] + extra[d] >= Limit
    OBVIOUS
  <2>1. Commit /\ d \in Found
    BY <1>1, SuspensionIsCommit DEF MeterInv
  <2>2. d \in poll.over /\ Pending(d)
    BY <2>1 DEF Found, Commit, Done, Pending
  <2> QED
    BY <1>1, <2>2 DEF MeterInv, PendingInv, Total
<1> QED
  BY <1>1, MeterInvCorrect, PTL DEF Spec, SuspendedForCause

=============================================================================
