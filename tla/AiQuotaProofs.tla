----------------------------- MODULE AiQuotaProofs -----------------------------
(***************************************************************************)
(* Theorems about AiQuota, for every limit, every list of keys and proxies *)
(* and any number of messages at once.                                     *)
(***************************************************************************)
EXTENDS AiQuota, FiniteSetTheorems, TLAPS

-----------------------------------------------------------------------------
(* The order of routes.                                                    *)

\* A rotation of a list is a list of the same length over the same elements.
LEMMA RotationType ==
  ASSUME NEW S, NEW s \in Seq(S), NEW i \in 0..(Len(s) - 1)
  PROVE  Rotation(s, i) \in Seq(S) /\ Len(Rotation(s, i)) = Len(s)
<1> DEFINE a == SubSeq(s, i + 1, Len(s))
           b == SubSeq(s, 1, i)
<1>1. a \in Seq(S) /\ Len(a) = Len(s) - i
  OBVIOUS
<1>2. b \in Seq(S) /\ Len(b) = i
  OBVIOUS
<1>3. Rotation(s, i) = a \o b
  BY DEF Rotation
<1> HIDE DEF a, b
<1>4. a \o b \in Seq(S) /\ Len(a \o b) = Len(a) + Len(b)
  BY <1>1, <1>2
<1> QED
  BY <1>1, <1>2, <1>3, <1>4

\* The indices of a table of p rows and k columns that is read row by row.
LEMMA TableIndices ==
  ASSUME NEW p \in Nat \ {0}, NEW k \in Nat \ {0}, NEW n \in 1..(p * k)
  PROVE  ((n - 1) \div k) + 1 \in 1..p /\ ((n - 1) % k) + 1 \in 1..k
<1> DEFINE q == (n - 1) \div k
           r == (n - 1) % k
<1>1. n - 1 \in Nat /\ n - 1 < p * k
  OBVIOUS
<1>2. q \in Nat /\ r \in 0..(k - 1) /\ n - 1 = k * q + r
  BY <1>1
<1> HIDE DEF q, r
<1>3. q < p
  <2>1. SUFFICES ASSUME q >= p PROVE FALSE
    BY <1>2
  <2>2. PICK x \in Nat : q = p + x
    BY <1>2, <2>1
  <2>3. k * q = p * k + k * x /\ k * x \in Nat
    BY <1>2, <2>2
  <2> QED
    BY <1>1, <1>2, <2>3
<1>4. q + 1 \in 1..p /\ r + 1 \in 1..k
  BY <1>2, <1>3
<1> QED
  BY <1>4 DEF q, r

\* The order is a list of routes that is not empty, wherever the rotations begin.
LEMMA RouteOrderType ==
  ASSUME NEW i \in 0..(Len(Proxies) - 1), NEW j \in 0..(Len(ApiKeys) - 1)
  PROVE  RouteOrder(i, j) \in Seq(Route) /\ RouteOrder(i, j) # <<>>
<1> DEFINE ps == Rotation(Proxies, i)
           ks == Rotation(ApiKeys, j)
<1>1. ps \in Seq(STRING) /\ Len(ps) \in Nat \ {0} /\ ks \in Seq(STRING) /\ Len(ks) \in Nat \ {0}
  BY RotationType, KeysAssumption, ProxiesAssumption
<1> HIDE DEF ps, ks
<1>2. ASSUME NEW n \in 1..(Len(ps) * Len(ks))
      PROVE  <<ps[((n - 1) \div Len(ks)) + 1], ks[((n - 1) % Len(ks)) + 1]>> \in STRING \X STRING
  <2>1. ((n - 1) \div Len(ks)) + 1 \in 1..Len(ps) /\ ((n - 1) % Len(ks)) + 1 \in 1..Len(ks)
    BY <1>1, TableIndices
  <2> QED
    BY <1>1, <2>1
<1>3. Len(ps) * Len(ks) \in Nat \ {0}
  BY <1>1
<1> DEFINE N == Len(ps) * Len(ks)
           f == [n \in 1..(Len(ps) * Len(ks)) |->
         <<ps[((n - 1) \div Len(ks)) + 1], ks[((n - 1) % Len(ks)) + 1]>>]
<1>4. f \in Seq(STRING \X STRING) /\ Len(f) = N
  BY <1>2, <1>3
<1>5. f # <<>>
  BY <1>3, <1>4
<1> QED
  BY <1>4, <1>5 DEF RouteOrder, Route, ps, ks

-----------------------------------------------------------------------------
(* The inductive invariant.                                                *)

\* Before its commit a message is not asked and no route has been tried; whoever
\* has begun has a day.
Unasked(m) ==
  /\ msg[m].step \in {"new", "counting", "committing", "refused"} =>
       ~msg[m].asked /\ msg[m].tried = {}
  /\ msg[m].step # "new" => msg[m].day \in Days

\* What the type invariant needs to be inductive.
Typed == TypeOK /\ (\A m \in Messages : Unasked(m))

\* Message m has read the counter and will write it.
Reading(m) == msg[m].step = "committing" /\ msg[m].free

\* Neither a counter nor a value read is more than the messages asked.
CountInv ==
  /\ \A d \in Days : count[d] <= Cardinality(Asked(d))
  /\ \A m \in Messages : Reading(m) => msg[m].read <= Cardinality(Asked(msg[m].day))

\* Without overlap, at most one message of the day is being counted, and it has
\* read the counter as it is; the counter is exact and within the limit.
AloneInv(d) ==
  /\ Cardinality(Asked(d)) = count[d] /\ count[d] <= Limit
  /\ \A m, n \in Messages :
       Counting(m) /\ Counting(n) /\ msg[m].day = d /\ msg[n].day = d => m = n
  /\ \A m \in Messages : Counting(m) /\ msg[m].day = d =>
       count[d] < Limit /\ (Reading(m) => msg[m].read = count[d])

Inv ==
  /\ Typed
  /\ CountInv
  /\ \A d \in Days \ clash : AloneInv(d)

-----------------------------------------------------------------------------
(* Types.                                                                  *)

\* A message nobody handles yet.
LEMMA NewType == New \in Msg /\ New.day = 0 /\ New.tried = {} /\ ~New.asked
<1>1. <<>> \in Seq(Route)
  OBVIOUS
<1>2. 0 \in 0..MaxDay
  BY BoundAssumption
<1> QED
  BY <1>1, <1>2 DEF New, Msg, Step

\* Types and days: what the first state satisfies.
LEMMA InitTyped == Init => TypeOK /\ (\A m \in Messages : Unasked(m))
<1> SUFFICES ASSUME Init PROVE TypeOK /\ (\A m \in Messages : Unasked(m))
  OBVIOUS
<1>1. today \in Days /\ count \in [Days -> Nat]
  BY BoundAssumption DEF Init, Days
<1>2. \A m \in Messages : msg[m] = New
  BY DEF Init
<1>3. msg \in [Messages -> Msg]
  BY NewType DEF Init
<1> QED
  BY <1>1, <1>2, <1>3 DEF Init, TypeOK, Unasked, New


\* Begin leaves a message at one of three steps, with a day and no route.
LEMMA BeginEffect ==
  ASSUME Typed, NEW m \in Messages, Begin(m)
  PROVE  /\ msg' \in [Messages -> Msg]
         /\ \A n \in Messages \ {m} : msg'[n] = msg[n]
         /\ msg[m].step = "new"
         /\ msg'[m].step \in {"committing", "refused", "counting"}
         /\ msg'[m].day = today /\ msg'[m].free = ~entitled
         /\ ~msg'[m].asked /\ msg'[m].tried = {}
         /\ msg'[m].step = "committing" => entitled
         /\ msg'[m].step = "counting" => ~entitled /\ count[today] < Limit
<1> DEFINE begun == [New EXCEPT !.day = today, !.free = ~entitled, !.creates = ~known]
           st == IF entitled THEN "committing"
                 ELSE IF count[today] >= Limit THEN "refused" ELSE "counting"
<1>1. today \in 0..MaxDay /\ today \in Days /\ entitled \in BOOLEAN /\ known \in BOOLEAN
  BY BoundAssumption DEF Typed, TypeOK, Days
<1>2. begun \in Msg /\ begun.day = today /\ begun.free = ~entitled
      /\ ~begun.asked /\ begun.tried = {}
  BY <1>1, NewType DEF Msg
<1>3. st \in {"committing", "refused", "counting"}
  OBVIOUS
<1> DEFINE r == [begun EXCEPT !.step = st]
<1>4. msg' = [msg EXCEPT ![m] = r] /\ msg[m].step = "new"
  BY DEF Begin
<1> HIDE DEF begun, st
<1>5. r \in Msg /\ r.step = st /\ r.day = today /\ r.free = ~entitled
      /\ ~r.asked /\ r.tried = {}
  <2>1. /\ r \in Msg /\ r.step = st /\ r.day = begun.day /\ r.free = begun.free
        /\ r.asked = begun.asked /\ r.tried = begun.tried
    BY <1>2, <1>3 DEF Msg, Step
  <2> QED BY <1>2, <2>1
<1> USE DEF begun, st
<1>6. msg \in [Messages -> Msg]
  BY DEF Typed, TypeOK
<1>7. msg' \in [Messages -> Msg] /\ (\A n \in Messages \ {m} : msg'[n] = msg[n]) /\ msg'[m] = r
  BY <1>4, <1>5, <1>6
<1>8. /\ st = "committing" => entitled
      /\ st = "counting" => ~entitled /\ count[today] < Limit
  BY <1>1, LimitAssumption DEF Typed, TypeOK
<1> QED
  BY <1>3, <1>4, <1>5, <1>7, <1>8

\* An increment moves a message on with the counter of its day.
LEMMA IncrementEffect ==
  ASSUME Typed, NEW m \in Messages, IncrementUsage(m)
  PROVE  /\ msg' \in [Messages -> Msg]
         /\ \A n \in Messages \ {m} : msg'[n] = msg[n]
         /\ msg[m].step = "counting" /\ msg'[m].step = "committing"
         /\ msg[m].day \in Days /\ msg'[m].read = count[msg[m].day]
         /\ msg'[m].day = msg[m].day /\ msg'[m].free = msg[m].free
         /\ msg'[m].asked = msg[m].asked /\ msg'[m].tried = msg[m].tried
<1> USE DEF Typed, TypeOK
<1>1. msg[m].step = "counting" /\ msg[m].day \in Days /\ msg[m].read \in Nat
  BY DEF IncrementUsage, Unasked, Msg
<1>2. count[msg[m].day] \in Nat
  BY <1>1
<1> QED
  BY <1>1, <1>2 DEF IncrementUsage, Msg, Step

\* A commit moves a message on to OpenAI.
LEMMA CommitEffect ==
  ASSUME Typed, NEW m \in Messages, Commit(m)
  PROVE  /\ msg' \in [Messages -> Msg]
         /\ \A n \in Messages \ {m} : msg'[n] = msg[n]
         /\ msg[m].step = "committing" /\ msg'[m].step = "asking"
         /\ msg'[m].day = msg[m].day /\ msg'[m].free = msg[m].free /\ msg'[m].tried = msg[m].tried
         /\ msg'[m].asked
         /\ count' \in [Days -> Nat]
<1> USE DEF Typed, TypeOK
<1>1. PICK i \in 0..(Len(Proxies) - 1), j \in 0..(Len(ApiKeys) - 1) :
        msg' = [msg EXCEPT ![m].step = "asking", ![m].asked = TRUE, ![m].left = RouteOrder(i, j)]
  BY DEF Commit
<1>2. RouteOrder(i, j) \in Seq(Route)
  BY RouteOrderType
<1>3. /\ msg[m].step = "committing" /\ msg[m].read \in Nat
      /\ count' = IF msg[m].free THEN [count EXCEPT ![msg[m].day] = msg[m].read + 1] ELSE count
  BY DEF Commit, Msg
<1>4. msg[m].read + 1 \in Nat
  BY <1>3
<1>5. count' \in [Days -> Nat]
  BY <1>3, <1>4
<1> DEFINE r == [msg[m] EXCEPT !.step = "asking", !.asked = TRUE, !.left = RouteOrder(i, j)]
<1>6. /\ r \in Msg
      /\ r.day = msg[m].day /\ r.free = msg[m].free /\ r.tried = msg[m].tried
      /\ r.step = "asking" /\ r.asked /\ r.left = RouteOrder(i, j)
  <2>1. msg[m] \in Msg
    OBVIOUS
  <2> QED BY <1>2, <2>1 DEF Msg, Step
<1>7. msg' = [msg EXCEPT ![m] = r]
  BY <1>1
<1> HIDE DEF r
<1>8. /\ msg' \in [Messages -> Msg] /\ msg'[m] = r
      /\ \A n \in Messages \ {m} : msg'[n] = msg[n]
  BY <1>6, <1>7
<1> QED
  BY <1>2, <1>3, <1>5, <1>6, <1>8

\* An attempt, a failure: neither the day, nor whether it counts, changes.
LEMMA AskingEffect ==
  ASSUME Typed, NEW m \in Messages, CommitFails(m) \/ Attempt(m) \/ GiveUp(m)
  PROVE  /\ msg' \in [Messages -> Msg]
         /\ \A n \in Messages \ {m} : msg'[n] = msg[n]
         /\ msg'[m].day = msg[m].day /\ msg'[m].free = msg[m].free /\ msg'[m].asked = msg[m].asked
         /\ msg'[m].step \in {"asking", "answered", "lost", "failed"}
         /\ CommitFails(m) => msg[m].step = "committing" /\ msg'[m].step = "lost"
                              /\ msg'[m].tried = msg[m].tried
         /\ Attempt(m) => msg[m].step = "asking" /\ msg'[m].step # "failed"
         /\ GiveUp(m) => msg[m].step = "asking" /\ msg[m].left = <<>> /\ msg'[m].tried = msg[m].tried
                         /\ msg'[m].step = "failed"
<1> USE DEF Typed, TypeOK
<1>0. /\ CommitFails(m) => msg[m].step = "committing"
      /\ GiveUp(m) => msg[m].step = "asking" /\ msg[m].left = <<>>
      /\ Attempt(m) => msg[m].step = "asking" /\ msg[m].left # <<>>
  BY DEF CommitFails, GiveUp, Attempt
<1>1. CASE CommitFails(m) \/ GiveUp(m)
  <2>1. PICK st \in {"lost", "failed"} : msg' = [msg EXCEPT ![m].step = st]
                 /\ (st = "lost" <=> CommitFails(m))
    BY <1>0, <1>1 DEF CommitFails, GiveUp, Moves
  <2>2. /\ msg' \in [Messages -> Msg]
        /\ \A n \in Messages \ {m} : msg'[n] = msg[n]
        /\ msg'[m].day = msg[m].day /\ msg'[m].free = msg[m].free /\ msg'[m].asked = msg[m].asked
        /\ msg'[m].step = st /\ msg'[m].tried = msg[m].tried
    BY <2>1 DEF Msg, Step
  <2> QED
    BY <1>0, <1>1, <2>1, <2>2
<1>2. CASE Attempt(m)
  <2> DEFINE after == [msg[m] EXCEPT !.left = Tail(@), !.tried = @ \union {Head(msg[m].left)}]
  <2>1. msg[m] \in Msg /\ msg[m].left \in Seq(Route) /\ msg[m].left # <<>>
    BY <1>2 DEF Attempt, Msg
  <2>2. Tail(msg[m].left) \in Seq(Route) /\ Head(msg[m].left) \in Route
    BY <2>1
  <2>3. after \in Msg /\ after.day = msg[m].day /\ after.free = msg[m].free /\ after.asked = msg[m].asked
        /\ after.step = msg[m].step
    BY <2>1, <2>2 DEF Msg
  <2> HIDE DEF after
  <2>4. <<>> \in Seq(Route)
    OBVIOUS
  <2>5. ASSUME NEW st \in Step, NEW r, r = [after EXCEPT !.step = st, !.left = <<>>]
        PROVE  r \in Msg /\ r.day = msg[m].day /\ r.free = msg[m].free /\ r.asked = msg[m].asked /\ r.step = st
    BY <2>3, <2>4, <2>5 DEF Msg
  <2>6. PICK r : msg' = [msg EXCEPT ![m] = r] /\ (r = after
             \/ r = [after EXCEPT !.step = "answered", !.left = <<>>]
             \/ r = [after EXCEPT !.step = "lost", !.left = <<>>])
    BY <1>2 DEF Attempt, after
  <2>7. "answered" \in Step /\ "lost" \in Step /\ msg[m].step = "asking"
    BY <1>2 DEF Step, Attempt
  <2>8. r \in Msg /\ r.day = msg[m].day /\ r.free = msg[m].free /\ r.asked = msg[m].asked
        /\ r.step \in {"asking", "answered", "lost"}
    <3>1. CASE r = after
      BY <2>3, <2>7, <3>1
    <3>2. ASSUME NEW st \in {"answered", "lost"}, r = [after EXCEPT !.step = st, !.left = <<>>]
          PROVE  r \in Msg /\ r.day = msg[m].day /\ r.free = msg[m].free
                 /\ r.asked = msg[m].asked /\ r.step = st
      BY <2>5, <2>7, <3>2
    <3> QED BY <2>6, <3>1, <3>2
  <2>9. msg' \in [Messages -> Msg] /\ msg'[m] = r /\ \A n \in Messages \ {m} : msg'[n] = msg[n]
    BY <2>6, <2>8
  <2> QED
    BY <1>0, <1>2, <2>7, <2>8, <2>9
<1> QED
  BY <1>1, <1>2

\* A restart loses what is in flight; what has been asked is still counted.
LEMMA RestartEffect ==
  ASSUME Typed, Restart
  PROVE  /\ msg' \in [Messages -> Msg]
         /\ \A m \in Messages :
              /\ msg'[m].day = msg[m].day /\ msg'[m].free = msg[m].free /\ msg'[m].asked = msg[m].asked
              /\ msg'[m].step \notin {"counting", "committing", "asking"}
              /\ msg'[m] = msg[m] \/ (msg'[m].step = "lost" /\ msg[m].step # "new")
<1> DEFINE end(n) == [msg[n] EXCEPT !.step = "lost", !.left = <<>>]
<1>1. <<>> \in Seq(Route)
  OBVIOUS
<1>2. ASSUME NEW n \in Messages
      PROVE  /\ end(n) \in Msg /\ msg[n] \in Msg /\ end(n).step = "lost"
             /\ end(n).day = msg[n].day /\ end(n).free = msg[n].free /\ end(n).asked = msg[n].asked
  <2>1. msg[n] \in Msg
    BY DEF Typed, TypeOK
  <2> QED BY <1>1, <2>1 DEF Msg, Step
<1>3. \A n \in Messages : msg'[n] = IF n \in InFlight THEN end(n) ELSE msg[n]
  BY DEF Restart
<1>4. msg' = [n \in Messages |-> IF n \in InFlight THEN end(n) ELSE msg[n]]
  BY DEF Restart
<1> HIDE DEF end
<1>5. msg' \in [Messages -> Msg]
  BY <1>2, <1>4
<1> QED
  BY <1>2, <1>3, <1>5 DEF InFlight

\* No step leaves the types.
LEMMA NextTyped == Typed /\ [Next]_vars => Typed'
<1> SUFFICES ASSUME Typed, [Next]_vars PROVE Typed'
  OBVIOUS
<1>1. CASE Midnight
  BY <1>1, BoundAssumption DEF Midnight, Days, Typed, TypeOK, Unasked
<1>2. CASE SubscriptionChanges
  BY <1>2 DEF SubscriptionChanges, Typed, TypeOK, Unasked
<1>3. ASSUME NEW m \in Messages, Begin(m) PROVE Typed'
  <2>1. today \in Days /\ clash' \subseteq Days
    BY <1>3 DEF Begin, Typed, TypeOK
  <2> QED BY <1>3, <2>1, BeginEffect DEF Begin, Typed, TypeOK, Unasked
<1>4. ASSUME NEW m \in Messages, IncrementUsage(m) PROVE Typed'
  BY <1>4, IncrementEffect DEF IncrementUsage, Typed, TypeOK, Unasked
<1>5. ASSUME NEW m \in Messages, Commit(m) PROVE Typed'
  <2>1. UNCHANGED <<today, entitled, clash>> /\ known' = TRUE
    BY <1>5 DEF Commit
  <2>2. TypeOK'
    BY <1>5, <2>1, CommitEffect DEF Typed, TypeOK, Days
  <2>3. ASSUME NEW n \in Messages PROVE Unasked(n)'
    <3>1. CASE n = m
      BY <1>5, <3>1, CommitEffect DEF Typed, Unasked
    <3>2. CASE n # m
      <4>1. msg'[n] = msg[n] /\ Unasked(n)
        BY <1>5, <3>2, CommitEffect DEF Typed
      <4> QED BY <4>1 DEF Unasked, Days
    <3> QED BY <3>1, <3>2
  <2> QED BY <2>2, <2>3 DEF Typed
<1>6. ASSUME NEW m \in Messages, CommitFails(m) \/ Attempt(m) \/ GiveUp(m) PROVE Typed'
  <2>1. UNCHANGED <<today, entitled, known, count, clash>>
    BY <1>6 DEF CommitFails, Attempt, GiveUp
  <2>2. msg[m].step # "new"
    BY <1>6 DEF CommitFails, Attempt, GiveUp
  <2> QED BY <1>6, <2>1, <2>2, AskingEffect DEF Typed, TypeOK, Unasked
<1>7. CASE Restart
  <2>1. UNCHANGED <<today, entitled, known, count, clash>>
    BY <1>7 DEF Restart
  <2> QED BY <1>7, <2>1, RestartEffect DEF Typed, TypeOK, Unasked
<1>8. CASE UNCHANGED vars
  BY <1>8 DEF vars, Typed, TypeOK, Unasked
<1> QED
  BY <1>1, <1>2, <1>3, <1>4, <1>5, <1>6, <1>7, <1>8 DEF Next, Proceed

\* Counters and messages stay well-formed in every run.
THEOREM TypeOKCorrect == Spec => []TypeOK
<1>1. Init => Typed
  BY InitTyped DEF Typed
<1>2. Typed => TypeOK
  BY DEF Typed
<1> QED
  BY <1>1, <1>2, NextTyped, PTL DEF Spec

-----------------------------------------------------------------------------
(* The counter.                                                            *)

\* The messages asked on a day are finitely many.
LEMMA AskedFinite == ASSUME NEW d PROVE IsFiniteSet(Asked(d)) /\ Cardinality(Asked(d)) \in Nat
<1>1. Asked(d) \subseteq Messages
  BY DEF Asked
<1> QED
  BY <1>1, MessageAssumption, FS_Subset, FS_CardinalityType

\* Steps of a message other than its commit.
Other(m) == Begin(m) \/ IncrementUsage(m) \/ CommitFails(m) \/ Attempt(m) \/ GiveUp(m)

\* Only a commit changes which messages have been asked.
LEMMA AskedStays ==
  ASSUME Typed, NEW m \in Messages, Other(m), NEW d
  PROVE  Asked(d)' = Asked(d)
<1>1. \A n \in Messages \ {m} : msg'[n] = msg[n]
  BY BeginEffect, IncrementEffect, AskingEffect DEF Other
<1>2. msg'[m].free /\ msg'[m].day = d /\ msg'[m].asked <=> msg[m].free /\ msg[m].day = d /\ msg[m].asked
  <2>1. CASE Begin(m)
    BY <2>1, BeginEffect DEF Typed, Unasked
  <2>2. CASE ~Begin(m)
    BY <2>2, IncrementEffect, AskingEffect DEF Other
  <2> QED BY <2>1, <2>2
<1> QED
  BY <1>1, <1>2 DEF Asked

\* A commit adds its message to the day on which the message began.
LEMMA AskedGrows ==
  ASSUME Typed, NEW m \in Messages, Commit(m), NEW d
  PROVE  /\ Asked(d)' = IF msg[m].free /\ msg[m].day = d THEN Asked(d) \union {m} ELSE Asked(d)
         /\ Cardinality(Asked(d))' = IF msg[m].free /\ msg[m].day = d
                                     THEN Cardinality(Asked(d)) + 1 ELSE Cardinality(Asked(d))
<1>1. Asked(d)' = IF msg[m].free /\ msg[m].day = d THEN Asked(d) \union {m} ELSE Asked(d)
  BY CommitEffect DEF Asked
<1>2. m \notin Asked(d)
  BY CommitEffect DEF Asked, Typed, Unasked
<1> QED
  BY <1>1, <1>2, AskedFinite, FS_AddElement

\* In the first state nothing is counted.
LEMMA InitInv == Init => Inv
<1> SUFFICES ASSUME Init PROVE Inv
  OBVIOUS
<1>1. Typed
  BY InitTyped DEF Typed
<1>2. \A m \in Messages : msg[m].step = "new" /\ ~msg[m].asked
  BY DEF Init, New
<1>3. \A d : Cardinality(Asked(d)) = 0
  <2>1. \A d : Asked(d) = {}
    BY <1>2 DEF Asked
  <2> QED BY <2>1, FS_EmptySet
<1>4. \A d \in Days : count[d] = 0
  BY DEF Init
<1>5. \A m \in Messages : ~Reading(m) /\ ~Counting(m)
  BY <1>2 DEF Reading, Counting
<1> QED
  BY <1>1, <1>3, <1>4, <1>5, LimitAssumption DEF Inv, CountInv, AloneInv

\* The commit writes what was read plus one, and one more has been asked.
LEMMA CommitInv == ASSUME Inv, NEW m \in Messages, Commit(m) PROVE CountInv' /\ (\A d \in Days \ clash : AloneInv(d))'
<1> DEFINE e == msg[m].day
<1>1. Typed /\ CountInv /\ clash' = clash
  BY DEF Inv, Commit
<1>2. e \in Days /\ count \in [Days -> Nat] /\ msg[m].read \in Nat /\ msg[m].step = "committing"
  BY <1>1, CommitEffect DEF Typed, TypeOK, Unasked, Msg
<1>3. \A d \in Days : count'[d] = IF msg[m].free /\ e = d THEN msg[m].read + 1 ELSE count[d]
  BY <1>2 DEF Commit
<1>4. \A d \in Days : /\ Cardinality(Asked(d)) \in Nat
                      /\ Cardinality(Asked(d))' = IF msg[m].free /\ e = d
                           THEN Cardinality(Asked(d)) + 1 ELSE Cardinality(Asked(d))
  BY <1>1, AskedFinite, AskedGrows
<1>5. /\ ~Reading(m)' /\ ~Counting(m)'
      /\ \A n \in Messages \ {m} : msg'[n] = msg[n]
  BY <1>1, CommitEffect DEF Reading, Counting
<1>6. \A n \in Messages : msg[n].read \in Nat /\ (Reading(n) => msg[n].day \in Days)
  BY <1>1 DEF Typed, TypeOK, Unasked, Msg, Reading
<1>7. msg[m].free => Reading(m) /\ Counting(m)
  BY <1>2 DEF Reading, Counting
<1>8. CountInv'
  <2>1. ASSUME NEW d \in Days PROVE (count[d] <= Cardinality(Asked(d)))'
    BY <1>1, <1>2, <1>3, <1>4, <1>7 DEF CountInv
  <2>2. ASSUME NEW n \in Messages, Reading(n)' PROVE (msg[n].read <= Cardinality(Asked(msg[n].day)))'
    <3>1. n # m /\ msg'[n] = msg[n] /\ Reading(n)
      BY <1>5, <2>2 DEF Reading
    <3>2. msg[n].read <= Cardinality(Asked(msg[n].day)) /\ msg[n].day \in Days
      BY <1>1, <1>6, <3>1 DEF CountInv
    <3>3. \A d \in Days : Cardinality(Asked(d)) <= Cardinality(Asked(d))'
      BY <1>4
    <3>4. PICK d \in Days : d = msg[n].day
      BY <3>2
    <3>5. Asked(msg[n].day)' = Asked(d)' /\ Cardinality(Asked(msg[n].day))' = Cardinality(Asked(d))'
      BY <3>1, <3>4 DEF Asked
    <3> QED BY <1>4, <1>6, <3>1, <3>2, <3>3, <3>4, <3>5
  <2> QED BY <2>1, <2>2 DEF CountInv
<1>9. ASSUME NEW d \in Days \ clash PROVE AloneInv(d)'
  <2>1. AloneInv(d)
    BY <1>9 DEF Inv
  <2>2. ASSUME NEW n \in Messages, Counting(n)', msg'[n].day = d
        PROVE  n # m /\ msg'[n] = msg[n] /\ Counting(n) /\ (Reading(n)' => Reading(n))
               /\ ~(msg[m].free /\ e = d)
    <3>1. n # m /\ msg'[n] = msg[n] /\ Counting(n) /\ (Reading(n)' => Reading(n))
      BY <1>5, <2>2 DEF Counting, Reading
    <3> QED BY <1>7, <2>1, <2>2, <3>1 DEF AloneInv
  <2>3. (Cardinality(Asked(d)) = count[d] /\ count[d] <= Limit)'
    BY <1>2, <1>3, <1>4, <1>7, <2>1, LimitAssumption DEF AloneInv
  <2>4. ASSUME NEW n \in Messages, Counting(n)', msg'[n].day = d
        PROVE  count'[d] < Limit /\ (Reading(n)' => msg'[n].read = count'[d])
    BY <1>3, <2>1, <2>2, <2>4 DEF AloneInv
  <2>5. ASSUME NEW n \in Messages, NEW k \in Messages, Counting(n)', Counting(k)',
               msg'[n].day = d, msg'[k].day = d
        PROVE  n = k
    BY <2>1, <2>2, <2>5 DEF AloneInv
  <2> QED BY <2>3, <2>4, <2>5 DEF AloneInv
<1> QED
  BY <1>1, <1>8, <1>9

\* Every other step leaves the counters alone; a message that begins while the
\* day is being counted makes it one of overlap.
LEMMA OtherInv == ASSUME Inv, NEW m \in Messages, Other(m) PROVE CountInv' /\ (\A d \in Days \ clash : AloneInv(d))'
<1>1. Typed /\ CountInv /\ clash \subseteq clash' /\ count' = count
  BY DEF Inv, Other, Begin, IncrementUsage, CommitFails, Attempt, GiveUp
<1>2. \A d : Asked(d)' = Asked(d) /\ Cardinality(Asked(d))' = Cardinality(Asked(d))
  BY <1>1, AskedStays
<1>3. msg' \in [Messages -> Msg] /\ \A n \in Messages \ {m} : msg'[n] = msg[n]
  BY <1>1, BeginEffect, IncrementEffect, AskingEffect DEF Other
<1>4. Reading(m)' => IncrementUsage(m)
  BY <1>1, BeginEffect, AskingEffect DEF Other, Reading
<1>5. ASSUME NEW d \in Days, NEW n \in Messages, Counting(n)', msg'[n].day = d
      PROVE  \/ Counting(n) /\ msg[n].day = d
             \/ n = m /\ Begin(m) /\ today = d /\ ~entitled /\ count[d] < Limit
  <2>1. CASE n # m
    BY <1>3, <1>5, <2>1 DEF Counting
  <2>2. CASE n = m /\ Begin(m)
    BY <1>1, <1>5, <2>2, BeginEffect DEF Counting
  <2>3. CASE n = m /\ ~Begin(m)
    BY <1>1, <1>5, <2>3, IncrementEffect, AskingEffect DEF Counting, Other
  <2> QED BY <2>1, <2>2, <2>3
<1>6. CountInv'
  <2>1. ASSUME NEW n \in Messages, Reading(n)' PROVE (msg[n].read <= Cardinality(Asked(msg[n].day)))'
    <3>1. \A d : (d = msg'[n].day => Asked(msg[n].day)' = Asked(d)')
      BY DEF Asked
    <3>2. Cardinality(Asked(msg[n].day))' = Cardinality(Asked(msg'[n].day))
      BY <1>2, <3>1
    <3>3. CASE n # m
      BY <1>1, <1>3, <2>1, <3>2, <3>3 DEF CountInv, Reading
    <3>4. CASE n = m
      BY <1>1, <1>4, <2>1, <3>2, <3>4, IncrementEffect DEF CountInv
    <3> QED BY <3>3, <3>4
  <2> QED BY <1>1, <1>2, <2>1 DEF CountInv
<1>7. ASSUME NEW d \in Days \ clash' PROVE AloneInv(d)'
  <2>1. AloneInv(d)
    BY <1>1, <1>7 DEF Inv
  <2>2. ASSUME NEW n \in Messages, Counting(n)', msg'[n].day = d
        PROVE  count'[d] < Limit /\ (Reading(n)' => msg'[n].read = count'[d])
    <3>1. count[d] < Limit
      BY <1>5, <2>1, <2>2 DEF AloneInv
    <3>2. CASE n # m
      BY <1>1, <1>3, <2>1, <2>2, <3>1, <3>2 DEF AloneInv, Reading, Counting
    <3>3. CASE n = m
      BY <1>1, <1>4, <2>2, <3>1, <3>3, IncrementEffect
    <3> QED BY <3>2, <3>3
  <2>3. ASSUME NEW n \in Messages, NEW k \in Messages, Counting(n)', Counting(k)',
               msg'[n].day = d, msg'[k].day = d
        PROVE  n = k
    <3>1. CASE Begin(m) /\ ~entitled /\ today = d
      <4>1. \A x \in Messages : ~(Counting(x) /\ msg[x].day = d)
        BY <1>1, <1>7, <3>1 DEF Begin, Typed, TypeOK
      <4> QED BY <1>5, <2>3, <4>1
    <3>2. CASE ~(Begin(m) /\ ~entitled /\ today = d)
      BY <1>5, <2>1, <2>3, <3>2 DEF AloneInv
    <3> QED BY <3>1, <3>2
  <2> QED BY <1>1, <1>2, <2>1, <2>2, <2>3 DEF AloneInv
<1> QED
  BY <1>1, <1>6, <1>7

\* Every step preserves the invariant.
LEMMA NextInv == Inv /\ [Next]_vars => Inv'
<1> SUFFICES ASSUME Inv, [Next]_vars PROVE Inv'
  OBVIOUS
<1>1. Typed'
  BY NextTyped DEF Inv
<1>2. CASE \E m \in Messages : Begin(m) \/ Proceed(m)
  BY <1>1, <1>2, CommitInv, OtherInv DEF Proceed, Other, Inv
<1>3. CASE Midnight \/ SubscriptionChanges \/ UNCHANGED vars
  <2>1. msg' = msg /\ count' = count /\ clash' = clash
    BY <1>3 DEF Midnight, SubscriptionChanges, vars
  <2> QED BY <1>1, <2>1 DEF Inv, CountInv, AloneInv, Reading, Counting, Asked
<1>4. CASE Restart
  <2>1. count' = count /\ clash' = clash /\ Typed
    BY <1>4 DEF Restart, Inv
  <2>2. \A m \in Messages : ~Reading(m)' /\ ~Counting(m)'
    BY <1>4, <2>1, RestartEffect DEF Reading, Counting
  <2>3. \A d : Asked(d)' = Asked(d) /\ Cardinality(Asked(d))' = Cardinality(Asked(d))
    BY <1>4, <2>1, RestartEffect DEF Asked
  <2> QED BY <1>1, <2>1, <2>2, <2>3 DEF Inv, CountInv, AloneInv
<1> QED
  BY <1>2, <1>3, <1>4 DEF Next

\* A day's counter never exceeds the messages that went on to OpenAI.
THEOREM NeverOvercountedCorrect == Spec => []NeverOvercounted
<1>1. Inv => NeverOvercounted
  BY DEF Inv, CountInv, NeverOvercounted
<1> QED
  BY <1>1, InitInv, NextInv, PTL DEF Spec

\* Without overlap the counter is exact and the limit holds.
THEOREM LimitHoldsAloneCorrect == Spec => []LimitHoldsAlone
<1>1. Inv => LimitHoldsAlone
  BY DEF Inv, AloneInv, LimitHoldsAlone
<1> QED
  BY <1>1, InitInv, NextInv, PTL DEF Spec

-----------------------------------------------------------------------------
(* The routes.                                                             *)

\* A rotation loses no element.
LEMMA RotationRange ==
  ASSUME NEW S, NEW s \in Seq(S), NEW i \in 0..(Len(s) - 1)
  PROVE  Range(Rotation(s, i)) = Range(s)
<1> DEFINE L == Len(s)
           a == SubSeq(s, i + 1, L)
           b == SubSeq(s, 1, i)
           r == a \o b
<1>1. a \in Seq(S) /\ Len(a) = L - i /\ \A n \in 1..(L - i) : a[n] = s[n + i]
  OBVIOUS
<1>2. b \in Seq(S) /\ Len(b) = i /\ \A n \in 1..i : b[n] = s[n]
  OBVIOUS
<1>3. L \in Nat /\ i \in 0..(L - 1) /\ DOMAIN s = 1..L
  OBVIOUS
<1>4. Rotation(s, i) = r
  BY DEF Rotation
<1> HIDE DEF a, b, L
<1>5. r \in Seq(S) /\ Len(r) = L
  <2>1. a \in Seq(S) /\ b \in Seq(S)
    BY <1>1, <1>2
  <2>2. r \in Seq(S) /\ Len(r) = Len(a) + Len(b)
    BY <2>1
  <2>3. Len(a) = L - i /\ Len(b) = i
    BY <1>1, <1>2
  <2> QED BY <1>3, <2>2, <2>3
<1>6. \A n \in 1..L : r[n] = IF n <= Len(a) THEN a[n] ELSE b[n - Len(a)]
  BY <1>1, <1>2, <1>3
<1>7. DOMAIN r = 1..L
  BY <1>5
<1> HIDE DEF r
<1>8. ASSUME NEW n \in 1..L PROVE \E k \in 1..L : r[n] = s[k]
  <2>1. CASE n <= L - i
    <3>1. n \in 1..(L - i) /\ n + i \in 1..L
      BY <1>3, <2>1
    <3> QED BY <1>1, <1>6, <2>1, <3>1
  <2>2. CASE ~(n <= L - i)
    <3>1. n - (L - i) \in 1..i /\ n - (L - i) \in 1..L
      BY <1>3, <2>2
    <3> QED BY <1>1, <1>2, <1>6, <2>2, <3>1
  <2> QED BY <2>1, <2>2
<1>9. ASSUME NEW k \in 1..L PROVE \E n \in 1..L : r[n] = s[k]
  <2>1. CASE k > i
    <3>1. k - i \in 1..L /\ k - i \in 1..(L - i) /\ k - i <= L - i /\ (k - i) + i = k
      BY <1>3, <2>1
    <3> QED BY <1>1, <1>6, <3>1
  <2>2. CASE ~(k > i)
    <3> DEFINE n == k + (L - i)
    <3>1. n \in 1..L /\ k \in 1..i /\ ~(n <= L - i) /\ n - (L - i) = k
      BY <1>3, <2>2
    <3> HIDE DEF n
    <3> QED BY <1>1, <1>2, <1>6, <3>1
  <2> QED BY <2>1, <2>2
<1>10. Range(r) = {r[n] : n \in 1..L} /\ Range(s) = {s[k] : k \in 1..L}
  BY <1>3, <1>7 DEF Range
<1>11. {r[n] : n \in 1..L} = {s[k] : k \in 1..L}
  <2>1. ASSUME NEW n \in 1..L PROVE r[n] \in {s[k] : k \in 1..L}
    BY <1>8
  <2>2. ASSUME NEW k \in 1..L PROVE s[k] \in {r[n] : n \in 1..L}
    BY <1>9
  <2> QED BY <2>1, <2>2
<1> QED
  BY <1>4, <1>10, <1>11

\* The place of row x and column y in a table of p rows and k columns.
LEMMA TablePlace ==
  ASSUME NEW p \in Nat \ {0}, NEW k \in Nat \ {0}, NEW x \in 1..p, NEW y \in 1..k,
         NEW n, n = k * (x - 1) + y
  PROVE  n \in 1..(p * k) /\ ((n - 1) \div k) + 1 = x /\ ((n - 1) % k) + 1 = y
<1> DEFINE q == x - 1
<1>1. q \in Nat /\ p - 1 - q \in Nat /\ q + 1 = x
  OBVIOUS
<1>2. k * q \in Nat /\ k * (p - 1 - q) \in Nat /\ k * (p - 1 - q) = p * k - k - k * q
  BY <1>1
<1>3. n \in 1..(p * k)
  BY <1>2
<1>4. (n - 1) \div k = q /\ (n - 1) % k = y - 1
  <2>1. n - 1 = k * q + (y - 1) /\ y - 1 \in 0..(k - 1)
    BY <1>2
  <2> QED BY <1>1, <2>1
<1> HIDE DEF q
<1> QED
  BY <1>1, <1>3, <1>4

\* The order holds every key over every proxy, wherever the rotations begin.
LEMMA RouteOrderRange ==
  ASSUME NEW i \in 0..(Len(Proxies) - 1), NEW j \in 0..(Len(ApiKeys) - 1)
  PROVE  Range(RouteOrder(i, j)) = Routes
<1> DEFINE ps == Rotation(Proxies, i)
           ks == Rotation(ApiKeys, j)
<1>1. /\ ps \in Seq(STRING) /\ Len(ps) \in Nat \ {0} /\ Range(ps) = Range(Proxies)
      /\ ks \in Seq(STRING) /\ Len(ks) \in Nat \ {0} /\ Range(ks) = Range(ApiKeys)
  BY RotationType, RotationRange, KeysAssumption, ProxiesAssumption
<1> HIDE DEF ps, ks
<1> DEFINE p == Len(ps)
           k == Len(ks)
           row(n) == ((n - 1) \div k) + 1
           col(n) == ((n - 1) % k) + 1
<1>2. DOMAIN ps = 1..p /\ DOMAIN ks = 1..k
  BY <1>1
<1>3. RouteOrder(i, j) = [n \in 1..(p * k) |-> <<ps[row(n)], ks[col(n)]>>]
  BY DEF RouteOrder, ps, ks
<1>4. \A n \in 1..(p * k) : row(n) \in 1..p /\ col(n) \in 1..k
  BY <1>1, TableIndices
<1>5. p \in Nat \ {0} /\ k \in Nat \ {0}
  BY <1>1
<1> HIDE DEF p, k
<1>6. ASSUME NEW x \in 1..p, NEW y \in 1..k PROVE \E n \in 1..(p * k) : row(n) = x /\ col(n) = y
  <2> DEFINE n == k * (x - 1) + y
  <2>1. n \in 1..(p * k) /\ ((n - 1) \div k) + 1 = x /\ ((n - 1) % k) + 1 = y
    BY <1>5, TablePlace
  <2> HIDE DEF n
  <2> QED BY <2>1
<1> HIDE DEF row, col
<1>7. Range(RouteOrder(i, j)) = {<<ps[row(n)], ks[col(n)]>> : n \in 1..(p * k)}
  BY <1>3 DEF Range
<1>8. Range(ps) = {ps[x] : x \in 1..p} /\ Range(ks) = {ks[y] : y \in 1..k}
  BY <1>2 DEF Range
<1>9. {<<ps[row(n)], ks[col(n)]>> : n \in 1..(p * k)} = {ps[x] : x \in 1..p} \X {ks[y] : y \in 1..k}
  <2>1. ASSUME NEW n \in 1..(p * k)
        PROVE  <<ps[row(n)], ks[col(n)]>> \in {ps[x] : x \in 1..p} \X {ks[y] : y \in 1..k}
    BY <1>4
  <2>2. ASSUME NEW x \in 1..p, NEW y \in 1..k
        PROVE  <<ps[x], ks[y]>> \in {<<ps[row(n)], ks[col(n)]>> : n \in 1..(p * k)}
    BY <1>6
  <2> QED BY <2>1, <2>2
<1> QED
  BY <1>1, <1>7, <1>8, <1>9 DEF Routes

\* Taking the head off a list.
LEMMA HeadTailRange ==
  ASSUME NEW S, NEW s \in Seq(S), s # <<>>
  PROVE  Range(s) = {Head(s)} \union Range(Tail(s))
<1>1. /\ Len(s) \in Nat \ {0} /\ Head(s) = s[1] /\ DOMAIN s = 1..Len(s)
      /\ DOMAIN Tail(s) = 1..(Len(s) - 1) /\ \A n \in 1..(Len(s) - 1) : Tail(s)[n] = s[n + 1]
  OBVIOUS
<1>2. ASSUME NEW n \in 1..Len(s) PROVE s[n] = s[1] \/ \E k \in 1..(Len(s) - 1) : s[n] = Tail(s)[k]
  <2>1. CASE n = 1
    BY <2>1
  <2>2. CASE n # 1
    <3>1. n - 1 \in 1..(Len(s) - 1) /\ Tail(s)[n - 1] = s[n]
      BY <1>1, <2>2
    <3> QED BY <3>1
  <2> QED BY <2>1, <2>2
<1>3. ASSUME NEW k \in 1..(Len(s) - 1) PROVE \E n \in 1..Len(s) : Tail(s)[k] = s[n]
  BY <1>1
<1>4. 1 \in 1..Len(s)
  BY <1>1
<1> DEFINE L == Len(s)
           t == Tail(s)
           A == {s[n] : n \in 1..L}
           B == {t[n] : n \in 1..(L - 1)}
<1>5. Range(s) = A /\ Range(t) = B
  BY <1>1 DEF Range
<1>6. ASSUME NEW n \in 1..L PROVE s[n] \in {s[1]} \union B
  BY <1>2
<1>7. s[1] \in A
  BY <1>4
<1>8. ASSUME NEW n \in 1..(L - 1) PROVE t[n] \in A
  BY <1>3
<1>9. A \subseteq {s[1]} \union B
  BY <1>6
<1>10. B \subseteq A
  BY <1>8
<1> HIDE DEF A, B, t, L
<1>11. A = {s[1]} \union B
  BY <1>7, <1>9, <1>10
<1> QED
  BY <1>1, <1>5, <1>11 DEF t

\* What has been tried and what is left are all routes, until the end.
RoutesInv(m) ==
  /\ msg[m].step = "asking" => msg[m].tried \union Range(msg[m].left) = Routes
  /\ msg[m].step = "failed" => msg[m].tried = Routes

\* Every step keeps account of the routes.
LEMMA NextRoutes ==
  ASSUME Typed, \A m \in Messages : RoutesInv(m), [Next]_vars
  PROVE  (\A m \in Messages : RoutesInv(m))'
<1> SUFFICES ASSUME NEW n \in Messages PROVE RoutesInv(n)'
  OBVIOUS
<1>1. CASE msg'[n] = msg[n]
  BY <1>1 DEF RoutesInv, Routes
<1>2. ASSUME Begin(n) PROVE RoutesInv(n)'
  BY <1>2, BeginEffect DEF RoutesInv
<1>3. ASSUME IncrementUsage(n) PROVE RoutesInv(n)'
  BY <1>3, IncrementEffect DEF RoutesInv
<1>4. ASSUME Commit(n) PROVE RoutesInv(n)'
  <2>1. PICK i \in 0..(Len(Proxies) - 1), j \in 0..(Len(ApiKeys) - 1) :
          msg' = [msg EXCEPT ![n].step = "asking", ![n].asked = TRUE, ![n].left = RouteOrder(i, j)]
    BY <1>4 DEF Commit
  <2>2. msg[n] \in Msg /\ msg[n].tried = {}
    BY <1>4, CommitEffect DEF Typed, TypeOK, Unasked
  <2>3. msg'[n].step = "asking" /\ msg'[n].left = RouteOrder(i, j) /\ msg'[n].tried = {}
    BY <2>1, <2>2 DEF Typed, TypeOK, Msg
  <2> QED BY <2>3, RouteOrderRange DEF RoutesInv, Routes
<1>5. ASSUME CommitFails(n) PROVE RoutesInv(n)'
  BY <1>5, AskingEffect DEF RoutesInv
<1>6. ASSUME Attempt(n) PROVE RoutesInv(n)'
  <2> DEFINE after == [msg[n] EXCEPT !.left = Tail(@), !.tried = @ \union {Head(msg[n].left)}]
  <2>1. msg[n] \in Msg /\ msg[n].left \in Seq(Route) /\ msg[n].left # <<>> /\ msg[n].step = "asking"
    BY <1>6 DEF Attempt, Typed, TypeOK, Msg
  <2>2. /\ after.left = Tail(msg[n].left) /\ after.step = "asking"
        /\ after.tried = msg[n].tried \union {Head(msg[n].left)}
    BY <2>1 DEF Msg
  <2>3. after.tried \union Range(after.left) = Routes
    BY <2>1, <2>2, HeadTailRange DEF RoutesInv
  <2> HIDE DEF after
  <2>4. CASE msg' = [msg EXCEPT ![n] = after]
    BY <2>3, <2>4, <2>2 DEF RoutesInv, Typed, TypeOK, Routes
  <2>5. CASE msg' # [msg EXCEPT ![n] = after]
    <3>1. msg'[n].step \in {"answered", "lost"}
      <4>1. PICK st \in {"answered", "lost"} : msg' = [msg EXCEPT ![n] = [after EXCEPT !.step = st, !.left = <<>>]]
        BY <1>6, <2>5 DEF Attempt, after
      <4>2. [after EXCEPT !.step = st, !.left = <<>>].step = st
        BY <2>1 DEF after, Msg
      <4> QED BY <4>1, <4>2 DEF Typed, TypeOK
    <3> QED BY <3>1 DEF RoutesInv
  <2> QED BY <2>4, <2>5
<1>7. ASSUME GiveUp(n) PROVE RoutesInv(n)'
  <2>1. msg[n].step = "asking" /\ msg[n].left = <<>> /\ msg'[n].tried = msg[n].tried /\ msg'[n].step = "failed"
    BY <1>7, AskingEffect
  <2>2. Range(<<>>) = {}
    BY DEF Range
  <2> QED BY <2>1, <2>2 DEF RoutesInv, Routes
<1>8. ASSUME NEW m \in Messages \ {n}, Begin(m) \/ Proceed(m) PROVE msg'[n] = msg[n]
  BY <1>8, BeginEffect, IncrementEffect, CommitEffect, AskingEffect DEF Proceed
<1>9. CASE Midnight \/ SubscriptionChanges \/ UNCHANGED vars
  BY <1>9, <1>1 DEF Midnight, SubscriptionChanges, vars
<1>10. CASE Restart
  BY <1>1, <1>10, RestartEffect DEF RoutesInv
<1> QED
  BY <1>1, <1>2, <1>3, <1>4, <1>5, <1>6, <1>7, <1>8, <1>9, <1>10 DEF Next, Proceed

\* Failure is reported only after every key over every proxy.
THEOREM FailedOnEveryRouteCorrect == Spec => []FailedOnEveryRoute
<1> DEFINE RInv == Typed /\ \A m \in Messages : RoutesInv(m)
<1>1. Init => RInv
  <2>1. Init => \A m \in Messages : msg[m].step = "new"
    BY DEF Init, New
  <2> QED BY <2>1, InitTyped DEF Typed, RoutesInv
<1>2. RInv /\ [Next]_vars => RInv'
  BY NextTyped, NextRoutes
<1>3. RInv => FailedOnEveryRoute
  BY DEF RoutesInv, FailedOnEveryRoute
<1> QED
  BY <1>1, <1>2, <1>3, PTL DEF Spec

=============================================================================
