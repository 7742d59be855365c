--------------------------- MODULE XrayAgentProofs ---------------------------
(***************************************************************************)
(* Theorems about XrayAgent, for any number of inbounds with an agent each *)
(* any clients, emails and limit, and any choice of what may fail.         *)
(***************************************************************************)
EXTENDS XrayAgent, FiniteSetTheorems, TLAPS

\* No two paying clients of a configuration have one email.
Unique(c) ==
  \A s, t \in Tags : \A i \in Paying(c, s), j \in Paying(c, t) :
    EmailOf[i] = EmailOf[j] => s = t /\ i = j

Bounded(c) == \A t \in Tags : Cardinality(Paying(c, t)) <= MaxUsers

Sound(c) == c \in Config /\ Unique(c) /\ Bounded(c)

\* What an agent in the middle of an operation relies on: the lock is its own,
\* the file is as it left it, and the original is one change away from it.
AgentOK(t) ==
  /\ op[t] = Idle \/ (op[t].step # "idle" /\ op[t].request \in Requests)
  /\ op[t].step \in Held => lock = t
  /\ op[t].step = "write" => /\ ~Refused(file, t, op[t].request)
                             /\ op[t].next = Changed(file, t, op[t].request)
  /\ Pending(t) => /\ Sound(op[t].original)
                   /\ ~Refused(op[t].original, t, op[t].request)
                   /\ file = Changed(op[t].original, t, op[t].request)
  /\ op[t].step \in {"reload", "done"} => Accepted(file)
  /\ op[t].step = "done" => running = file

Inv == TypeOK /\ Sound(file) /\ \A t \in Tags : AgentOK(t)

-----------------------------------------------------------------------------
(* add_user and remove_user on a configuration.                            *)

\* The changed configuration is well-typed.
LEMMA ChangedType ==
  ASSUME NEW c \in Config, NEW t \in Tags, NEW r \in Requests
  PROVE  Changed(c, t, r) \in Config
BY DEF Changed, Config, Requests, Existing, Twins

\* add_user: who is where afterwards.
LEMMA AddedMembers ==
  ASSUME NEW c \in Config, Unique(c), NEW t \in Tags, NEW r \in Requests,
         r.kind = "add", ~Refused(c, t, r), NEW s \in Tags, NEW j \in Ids
  PROVE  j \in Changed(c, t, r)[s]
           <=> \/ s = t /\ j = r.id
               \/ j \in c[s] /\ (EmailOf[j] # EmailOf[r.id] \/ j \in Reserved)
<1>1. Existing(c, t, r.id) \cap Reserved = {}
  BY DEF Refused
<1>2. CASE s # t
  BY <1>2 DEF Changed, Twins
<1>3. CASE s = t /\ r.id \notin c[t]
  <2>1. Existing(c, t, r.id) = {k \in c[t] : EmailOf[k] = EmailOf[r.id]}
    BY <1>3 DEF Existing, Twins
  <2> QED BY <1>1, <1>3, <2>1 DEF Changed
<1>4. CASE s = t /\ r.id \in c[t]
  <2>1. Existing(c, t, r.id) = {r.id} /\ r.id \notin Reserved
    BY <1>1, <1>4 DEF Existing
  <2>2. ASSUME j \in c[t], EmailOf[j] = EmailOf[r.id], j \notin Reserved
        PROVE  j = r.id
    BY <1>4, <2>1, <2>2 DEF Unique, Paying
  <2> QED BY <1>4, <2>1, <2>2 DEF Changed
<1> QED BY <1>2, <1>3, <1>4

\* remove_user: who is where afterwards.
LEMMA RemovedMembers ==
  ASSUME NEW c \in Config, NEW t \in Tags, NEW r \in Requests,
         r.kind = "remove", NEW s \in Tags, NEW j \in Ids
  PROVE  j \in Changed(c, t, r)[s] <=> j \in c[s] /\ ~(s = t /\ j = r.id)
BY DEF Changed, Config

\* No email is doubled.
LEMMA ChangedUnique ==
  ASSUME NEW c \in Config, Unique(c), NEW t \in Tags, NEW r \in Requests,
         ~Refused(c, t, r)
  PROVE  Unique(Changed(c, t, r))
<1> DEFINE d == Changed(c, t, r)
<1>1. d \in Config
  BY ChangedType
<1>2. r.id \in Ids
  BY DEF Requests
<1>3. CASE r.kind = "add"
  <2>1. \A s \in Tags, j \in Ids : j \in d[s]
          <=> \/ s = t /\ j = r.id
              \/ j \in c[s] /\ (EmailOf[j] # EmailOf[r.id] \/ j \in Reserved)
    BY <1>3, AddedMembers
  <2> HIDE DEF d
  <2> SUFFICES ASSUME NEW s \in Tags, NEW u \in Tags,
                      NEW i \in Paying(d, s), NEW j \in Paying(d, u),
                      EmailOf[i] = EmailOf[j]
               PROVE  s = u /\ i = j
    BY DEF Unique, d
  <2>2. i \in Ids /\ j \in Ids /\ i \notin Reserved /\ j \notin Reserved
    BY <1>1 DEF Paying, Config
  <2>3. /\ (s = t /\ i = r.id) \/ (i \in Paying(c, s) /\ EmailOf[i] # EmailOf[r.id])
        /\ (u = t /\ j = r.id) \/ (j \in Paying(c, u) /\ EmailOf[j] # EmailOf[r.id])
    BY <2>1, <2>2 DEF Paying
  <2> QED BY <2>3 DEF Unique
<1>4. CASE r.kind = "remove"
  <2>1. \A s \in Tags : Paying(d, s) \subseteq Paying(c, s)
    BY <1>1, <1>4, RemovedMembers DEF Paying, Config
  <2> QED BY <2>1 DEF Unique
<1> QED BY <1>3, <1>4 DEF Requests

\* The limit is kept: a client is added below it, or takes the place of one.
LEMMA ChangedBounded ==
  ASSUME NEW c \in Config, Unique(c), Bounded(c), NEW t \in Tags, NEW r \in Requests,
         ~Refused(c, t, r)
  PROVE  Bounded(Changed(c, t, r))
<1> DEFINE d == Changed(c, t, r)
<1>1. d \in Config
  BY ChangedType
<1>2. \A s \in Tags : /\ IsFiniteSet(Paying(c, s)) /\ IsFiniteSet(Paying(d, s))
                      /\ Cardinality(Paying(c, s)) \in Nat
                      /\ Cardinality(Paying(d, s)) \in Nat
  <2>1. \A s \in Tags : Paying(c, s) \in SUBSET Ids /\ Paying(d, s) \in SUBSET Ids
    BY <1>1 DEF Paying, Config
  <2> QED BY <2>1, IdsAssumption, FS_Subset, FS_CardinalityType
<1>3. r.id \in Ids
  BY DEF Requests
<1>4. ASSUME NEW s \in Tags, Paying(d, s) \subseteq Paying(c, s)
      PROVE  Cardinality(Paying(d, s)) <= MaxUsers
  <2>1. Cardinality(Paying(d, s)) <= Cardinality(Paying(c, s))
    BY <1>2, <1>4, FS_Subset
  <2>2. Cardinality(Paying(c, s)) <= MaxUsers
    BY DEF Bounded
  <2> HIDE DEF d
  <2> QED BY <1>2, <2>1, <2>2, MaxUsersAssumption
<1>5. CASE r.kind = "remove"
  <2>1. \A s \in Tags : Paying(d, s) \subseteq Paying(c, s)
    BY <1>1, <1>5, RemovedMembers DEF Paying, Config
  <2> QED BY <1>4, <2>1 DEF Bounded
<1>6. CASE r.kind = "add"
  <2>1. \A s \in Tags, j \in Ids : j \in d[s]
          <=> \/ s = t /\ j = r.id
              \/ j \in c[s] /\ (EmailOf[j] # EmailOf[r.id] \/ j \in Reserved)
    BY <1>6, AddedMembers
  <2>2. ASSUME NEW s \in Tags \ {t} PROVE Paying(d, s) \subseteq Paying(c, s)
    BY <1>1, <2>1 DEF Paying, Config
  <2>3. Cardinality(Paying(d, t)) <= MaxUsers
    <3> DEFINE existing == Existing(c, t, r.id)
    <3>1. existing \cap Reserved = {} /\ existing \subseteq c[t]
      BY <1>6 DEF Refused, Existing, Twins
    <3>2. CASE existing = {}
      <4>1. Cardinality(Paying(c, t)) < MaxUsers
        BY <1>2, <1>6, <3>2, MaxUsersAssumption DEF Refused
      <4>2. Paying(d, t) \in SUBSET (Paying(c, t) \union {r.id})
        BY <1>1, <2>1 DEF Paying, Config
      <4>3. /\ IsFiniteSet(Paying(c, t) \union {r.id})
            /\ Cardinality(Paying(c, t) \union {r.id}) \in
                 {Cardinality(Paying(c, t)), Cardinality(Paying(c, t)) + 1}
        BY <1>2, FS_AddElement
      <4>4. Cardinality(Paying(d, t)) <= Cardinality(Paying(c, t) \union {r.id})
        BY <4>2, <4>3, FS_Subset
      <4> HIDE DEF d, existing
      <4> QED BY <1>2, <4>1, <4>3, <4>4, MaxUsersAssumption
    <3>3. CASE existing # {}
      <4>1. PICK k \in existing : TRUE
        BY <3>3
      <4>2. k \in Paying(c, t) /\ EmailOf[k] = EmailOf[r.id] /\ k \in Ids
        BY <3>1, <4>1 DEF Paying, Existing, Twins, Config
      <4> DEFINE rest == Paying(c, t) \ {k}
      <4>3. /\ IsFiniteSet(rest)
            /\ Cardinality(rest) = Cardinality(Paying(c, t)) - 1
        BY <1>2, <4>2, FS_RemoveElement
      <4>4. /\ IsFiniteSet(rest \union {r.id})
            /\ Cardinality(rest \union {r.id}) \in {Cardinality(rest), Cardinality(rest) + 1}
        BY <4>3, FS_AddElement
      <4>5. Paying(d, t) \in SUBSET (rest \union {r.id})
        BY <1>1, <2>1, <4>2 DEF Paying, Config
      <4>6. Cardinality(Paying(d, t)) <= Cardinality(rest \union {r.id})
        BY <4>4, <4>5, FS_Subset
      <4>7. Cardinality(Paying(c, t)) <= MaxUsers
        BY DEF Bounded
      <4> HIDE DEF d, existing, rest
      <4> QED BY <1>2, <4>3, <4>4, <4>6, <4>7, MaxUsersAssumption
    <3> QED BY <3>2, <3>3
  <2> QED BY <1>4, <2>2, <2>3 DEF Bounded
<1> QED BY <1>5, <1>6 DEF Requests

\* An accepted operation on a sound configuration gives a sound one, and is
\* what the contract calls the effect of the request.
LEMMA ChangedFacts ==
  ASSUME NEW c, Sound(c), NEW t \in Tags, NEW r \in Requests, ~Refused(c, t, r)
  PROVE  /\ Sound(Changed(c, t, r))
         /\ Contract!Effect(t, r, c, Changed(c, t, r))
<1>1. c \in Config /\ Unique(c) /\ Bounded(c)
  BY DEF Sound
<1>2. Sound(Changed(c, t, r))
  BY <1>1, ChangedType, ChangedUnique, ChangedBounded DEF Sound
<1>3. CASE r.kind = "add"
  <2>1. r.id \in Ids
    BY DEF Requests
  <2>2. Contract!Adds(t, r.id, c, Changed(c, t, r))
    BY <1>1, <1>3, <2>1, AddedMembers DEF Contract!Adds
  <2> QED BY <1>2, <1>3, <2>2 DEF Contract!Effect
<1>4. CASE r.kind = "remove"
  <2>1. r.id \in c[t] \ Reserved
    BY <1>4 DEF Refused
  <2>2. Contract!Removes(t, r.id, c, Changed(c, t, r))
    BY <1>1, <1>4, <2>1, RemovedMembers DEF Contract!Removes
  <2> QED BY <1>2, <1>4, <2>2 DEF Contract!Effect
<1> QED BY <1>3, <1>4 DEF Requests

-----------------------------------------------------------------------------
(* The invariant.                                                          *)

\* Nothing is going on at first and only reserved clients are configured.
LEMMA InvInit == Init => Inv
<1> SUFFICES ASSUME Init PROVE Inv
  OBVIOUS
<1>1. file \in Config /\ \A t \in Tags : Paying(file, t) = {}
  BY ReservedAssumption DEF Init, Config, Paying
<1>2. Sound(file)
  BY <1>1, FS_EmptySet, MaxUsersAssumption DEF Sound, Unique, Bounded
<1>3. Idle \in Op /\ Idle.step = "idle"
  BY DEF Idle, Op, Step, Empty, Config
<1>4. TypeOK
  BY <1>1, <1>3 DEF TypeOK, Init
<1>5. \A t \in Tags : AgentOK(t)
  BY <1>3 DEF Init, AgentOK, Held, Pending
<1> QED BY <1>2, <1>4, <1>5 DEF Inv

\* What becomes of the agents' records.
LEMMA BecomesFacts ==
  ASSUME TypeOK, NEW t \in Tags, NEW next \in Op, Becomes(t, next)
  PROVE  /\ op' \in [Tags -> Op]
         /\ op'[t] = next
         /\ \A s \in Tags \ {t} : op'[s] = op[s]
BY DEF TypeOK, Becomes

\* The same for a change of the step alone.
LEMMA GoesFacts ==
  ASSUME TypeOK, NEW t \in Tags, NEW step \in Step, Goes(t, step)
  PROVE  /\ op' \in [Tags -> Op]
         /\ op'[t] = [op[t] EXCEPT !.step = step]
         /\ op'[t].step = step
         /\ op'[t].request = op[t].request
         /\ op'[t].next = op[t].next
         /\ op'[t].original = op[t].original
         /\ \A s \in Tags \ {t} : op'[s] = op[s]
<1>1. op[t] \in Op /\ op \in [Tags -> Op]
  BY DEF TypeOK
<1>2. [op[t] EXCEPT !.step = step] \in Op
  BY <1>1 DEF Op
<1>3. op' = [op EXCEPT ![t] = [op[t] EXCEPT !.step = step]]
  BY <1>1 DEF Goes
<1> QED BY <1>1, <1>2, <1>3 DEF Op

\* The holder of the lock, or the one who takes it, disturbs nobody else.
LEMMA OthersOK ==
  ASSUME Inv, NEW t \in Tags, NEW s \in Tags \ {t}, op'[s] = op[s],
         UNCHANGED <<file, running, lock>> \/ op[t].step \in Held \/ lock = Nobody
  PROVE  AgentOK(s)'
<1>1. AgentOK(s)
  BY DEF Inv
<1>2. CASE op[s].step \in Held
  <2>1. lock = s
    BY <1>1, <1>2 DEF AgentOK
  <2>2. UNCHANGED <<file, running, lock>>
    BY <2>1, NobodyAssumption DEF Inv, AgentOK
  <2> QED BY <1>1, <2>2 DEF AgentOK, Pending
<1>3. CASE op[s].step \notin Held
  BY <1>1, <1>3 DEF AgentOK, Pending, Held
<1> QED BY <1>2, <1>3

\* Acquire: the operation is computed from the file as it is.
LEMMA AcquireInv ==
  ASSUME Inv, NEW t \in Tags, Acquire(t)
  PROVE  Inv'
<1>1. TypeOK /\ Sound(file) /\ op[t] \in Op /\ op[t].request \in Requests
  BY DEF Inv, TypeOK, AgentOK, Acquire, Idle
<1>2. Sound(file)' /\ file' = file
  BY <1>1 DEF Acquire, Sound, Unique, Bounded, Paying
<1>3. CASE Refused(file, t, op[t].request)
  <2>1. Goes(t, "refused") /\ "refused" \in Step
    BY <1>3 DEF Acquire, Step, Held
  <2>2. AgentOK(t)'
    BY <1>1, <2>1, GoesFacts DEF Acquire, AgentOK, Held, Pending
  <2>3. TypeOK'
    BY <1>1, <2>1, GoesFacts DEF TypeOK, Acquire
  <2> QED BY <1>1, <1>2, <2>1, <2>2, <2>3, GoesFacts, OthersOK DEF Inv, Acquire
<1>4. CASE ~Refused(file, t, op[t].request)
  <2> DEFINE new == [op[t] EXCEPT !.step = "write",
                                  !.next = Changed(file, t, op[t].request)]
  <2>1. Changed(file, t, op[t].request) \in Config
    BY <1>1, ChangedType DEF Sound
  <2>2. /\ new \in Op /\ new.step = "write" /\ new.request = op[t].request
        /\ new.next = Changed(file, t, op[t].request)
    BY <1>1, <2>1 DEF Op, Step, Held
  <2>3. Becomes(t, new)
    BY <1>4 DEF Acquire
  <2> HIDE DEF new
  <2>4. AgentOK(t)'
    BY <1>1, <1>2, <1>4, <2>2, <2>3, BecomesFacts DEF Acquire, AgentOK, Held, Pending
  <2>5. TypeOK'
    BY <1>1, <2>2, <2>3, BecomesFacts DEF TypeOK, Acquire
  <2> QED BY <1>1, <1>2, <2>2, <2>3, <2>4, <2>5, BecomesFacts, OthersOK DEF Inv, Acquire
<1> QED BY <1>3, <1>4

\* Write: the new file is one change away from the original.
LEMMA WriteInv ==
  ASSUME Inv, NEW t \in Tags, Write(t)
  PROVE  Inv'
<1>1. /\ TypeOK /\ Sound(file) /\ op[t] \in Op /\ op[t].request \in Requests
      /\ op[t].step \in Held /\ lock = t
      /\ ~Refused(file, t, op[t].request)
      /\ op[t].next = Changed(file, t, op[t].request)
  BY DEF Inv, TypeOK, AgentOK, Write, Idle, Held
<1>2. CASE Goes(t, "refused") /\ file' = file
  <2>1. "refused" \in Step
    BY DEF Step, Held
  <2>2. AgentOK(t)'
    BY <1>1, <1>2, <2>1, GoesFacts DEF Write, AgentOK, Held, Pending
  <2>3. TypeOK'
    BY <1>1, <1>2, <2>1, GoesFacts DEF TypeOK, Write
  <2>4. Sound(file)'
    BY <1>1, <1>2 DEF Sound, Unique, Bounded, Paying
  <2> QED BY <1>1, <1>2, <2>1, <2>2, <2>3, <2>4, GoesFacts, OthersOK DEF Inv
<1>3. CASE /\ file' = op[t].next
           /\ Becomes(t, [op[t] EXCEPT !.step = "test", !.next = Empty, !.original = file])
  <2> DEFINE new == [op[t] EXCEPT !.step = "test", !.next = Empty, !.original = file]
  <2>1. /\ new \in Op /\ new.step = "test" /\ new.request = op[t].request
        /\ new.original = file
    BY <1>1 DEF Op, Step, Held, Sound, Empty, Config
  <2>2. Becomes(t, new)
    BY <1>3
  <2> HIDE DEF new
  <2>3. Sound(Changed(file, t, op[t].request))
    BY <1>1, ChangedFacts
  <2>4. PICK c : c = file
    OBVIOUS
  <2>5. file' = Changed(c, t, op[t].request) /\ Sound(c) /\ op'[t].original = c
    BY <1>1, <1>3, <2>1, <2>2, <2>4, BecomesFacts
  <2>6. Sound(file')
    BY <1>1, <1>3, <2>3
  <2>7. Sound(file)'
    BY <2>6 DEF Sound, Unique, Bounded, Paying
  <2>8. AgentOK(t)'
    BY <1>1, <2>1, <2>2, <2>4, <2>5, BecomesFacts
    DEF Write, AgentOK, Held, Pending, Sound, Unique, Bounded, Paying
  <2>9. TypeOK'
    BY <1>1, <2>1, <2>2, <2>6, BecomesFacts DEF TypeOK, Write, Sound
  <2> QED BY <1>1, <2>1, <2>2, <2>7, <2>8, <2>9, BecomesFacts, OthersOK DEF Inv
<1> QED BY <1>2, <1>3 DEF Write

\* Test and restart: the file stays, and what Xray runs is the file.
LEMMA CommandsInv ==
  ASSUME Inv, NEW t \in Tags, TestConfig(t) \/ Reload(t)
  PROVE  Inv'
<1>1. /\ TypeOK /\ Sound(file) /\ op[t] \in Op /\ op[t].request \in Requests
      /\ op[t].step \in Held /\ lock = t /\ Pending(t) /\ AgentOK(t)
  BY DEF Inv, TypeOK, AgentOK, TestConfig, Reload, Idle, Held, Pending
<1>2. PICK step \in Step : /\ Goes(t, step)
                           /\ step \in {"reload", "restore", "done"}
                           /\ step = "reload" => Accepted(file)
                           /\ step = "done" => op[t].step = "reload" /\ running' = file
  BY DEF TestConfig, Reload, Step, Held
<1>3. UNCHANGED <<file, lock, answer>> /\ running' \in {running, file, Down}
  BY DEF TestConfig, Reload
<1>4. Sound(file)'
  BY <1>1, <1>3 DEF Sound, Unique, Bounded, Paying
<1>5. TypeOK'
  BY <1>1, <1>2, <1>3, GoesFacts DEF TypeOK
<1>6. /\ op'[t].step = step /\ op'[t].request = op[t].request
      /\ op'[t].original = op[t].original
  BY <1>1, <1>2, GoesFacts
<1>7. step = "done" => Accepted(file)
  BY <1>1, <1>2 DEF AgentOK
<1>8. AgentOK(t)'
  BY <1>1, <1>2, <1>3, <1>6, <1>7
  DEF AgentOK, Held, Pending, Sound, Unique, Bounded, Paying, Accepted
<1> QED BY <1>1, <1>2, <1>4, <1>5, <1>8, GoesFacts, OthersOK DEF Inv

\* Restore: the original was sound.
LEMMA RestoreInv ==
  ASSUME Inv, NEW t \in Tags, Restore(t)
  PROVE  Inv'
<1>1. /\ TypeOK /\ Sound(file) /\ op[t] \in Op /\ op[t].request \in Requests
      /\ op[t].step \in Held /\ lock = t /\ Sound(op[t].original)
  BY DEF Inv, TypeOK, AgentOK, Restore, Idle, Held, Pending
<1>2. PICK step \in Step : Goes(t, step) /\ step \in {"refused", "botched"}
  BY DEF Restore, Step, Held
<1>3. Sound(file') /\ UNCHANGED <<running, lock, answer>>
  BY <1>1 DEF Restore
<1>4. Sound(file)'
  BY <1>3 DEF Sound, Unique, Bounded, Paying
<1>5. TypeOK'
  BY <1>1, <1>2, <1>3, GoesFacts DEF TypeOK, Sound
<1>6. AgentOK(t)'
  BY <1>1, <1>2, <1>3, GoesFacts DEF AgentOK, Held, Pending
<1> QED BY <1>1, <1>2, <1>4, <1>5, <1>6, GoesFacts, OthersOK DEF Inv

\* The beginning and the end of an operation leave the file alone.
LEMMA EndsInv ==
  ASSUME Inv, NEW t \in Tags, Receive(t) \/ GiveUp(t) \/ Answer(t) \/ Crash(t)
  PROVE  Inv'
<1>1. TypeOK /\ Sound(file) /\ Idle \in Op /\ Idle.step = "idle"
  BY DEF Inv, Idle, Op, Step, Empty, Config
<1>2. PICK next \in Op : /\ Becomes(t, next)
                         /\ \/ next = Idle
                            \/ next.step = "lock" /\ next.request \in Requests
  <2>1. CASE Receive(t)
    <3>1. PICK r \in Requests : Becomes(t, [Idle EXCEPT !.step = "lock", !.request = r])
      BY <2>1 DEF Receive
    <3>2. /\ [Idle EXCEPT !.step = "lock", !.request = r] \in Op
          /\ [Idle EXCEPT !.step = "lock", !.request = r].step = "lock"
          /\ [Idle EXCEPT !.step = "lock", !.request = r].request = r
      BY <1>1 DEF Op, Step, Idle
    <3> QED BY <3>1, <3>2
  <2> QED BY <1>1, <2>1 DEF GiveUp, Answer, Crash, Ends
<1>3. UNCHANGED <<file, running>>
  BY DEF Receive, GiveUp, Answer, Crash
<1>4. /\ lock' \in {lock, Nobody}
      /\ lock' = lock \/ op[t].step \in Held
  BY DEF Receive, GiveUp, Answer, Crash, Held
<1>5. answer' \in [Tags -> {"none", "ok", "error"}]
  BY <1>1 DEF TypeOK, Receive, GiveUp, Answer, Crash, Ends
<1>6. TypeOK'
  BY <1>1, <1>2, <1>3, <1>4, <1>5, BecomesFacts DEF TypeOK
<1>7. Sound(file)'
  BY <1>1, <1>3 DEF Sound, Unique, Bounded, Paying
<1>8. AgentOK(t)'
  BY <1>1, <1>2, BecomesFacts DEF AgentOK, Held, Pending
<1> QED BY <1>1, <1>2, <1>3, <1>4, <1>6, <1>7, <1>8, BecomesFacts, OthersOK DEF Inv

\* Every step keeps the invariant.
LEMMA InvStep == Inv /\ [Next]_vars => Inv'
<1> SUFFICES ASSUME Inv, [Next]_vars PROVE Inv'
  OBVIOUS
<1>1. ASSUME NEW t \in Tags, Proceed(t) PROVE Inv'
  BY <1>1, AcquireInv, WriteInv, CommandsInv, RestoreInv, EndsInv DEF Proceed
<1>2. ASSUME NEW t \in Tags, Receive(t) \/ Crash(t) PROVE Inv'
  BY <1>2, EndsInv
<1>3. CASE Restart
  <2>1. TypeOK' /\ Sound(file)'
    BY <1>3 DEF Restart, Inv, TypeOK, Sound, Unique, Bounded, Paying
  <2>2. ASSUME NEW t \in Tags PROVE AgentOK(t)'
    <3>1. AgentOK(t)
      BY DEF Inv
    <3> QED BY <1>3, <3>1
      DEF Restart, AgentOK, Pending, Sound, Unique, Bounded, Paying, Accepted
  <2> QED BY <2>1, <2>2 DEF Inv
<1>4. CASE UNCHANGED vars
  <2>1. TypeOK' /\ Sound(file)'
    BY <1>4 DEF vars, Inv, TypeOK, Sound, Unique, Bounded, Paying
  <2>2. ASSUME NEW t \in Tags PROVE AgentOK(t)'
    <3>1. AgentOK(t)
      BY DEF Inv
    <3> QED BY <1>4, <3>1
      DEF vars, AgentOK, Pending, Sound, Unique, Bounded, Paying, Accepted
  <2> QED BY <2>1, <2>2 DEF Inv
<1> QED BY <1>1, <1>2, <1>3, <1>4 DEF Next

\* Whatever fails, every agent finds the file as it left it, and every file
\* written is sound.
THEOREM InvCorrect == Spec => []Inv
BY InvInit, InvStep, PTL DEF Spec

\* The file, what Xray runs, the lock and the agents' records are well-formed.
THEOREM AgentTypeCorrect == Spec => []TypeOK
<1>1. Inv => TypeOK
  BY DEF Inv
<1> QED BY <1>1, InvCorrect, PTL

\* Agents of several inbounds that share a file never leave two paying clients
\* with one email in it.
THEOREM OneClientCorrect == Spec => []OneClientPerEmail
<1>1. Inv => OneClientPerEmail
  BY DEF Inv, Sound, Unique, OneClientPerEmail
<1> QED BY <1>1, InvCorrect, PTL

\* No inbound has more paying clients than the limit.
THEOREM WithinLimitCorrect == Spec => []WithinLimit
<1>1. Inv => WithinLimit
  BY DEF Inv, Sound, Bounded, WithinLimit
<1> QED BY <1>1, InvCorrect, PTL

\* Success means that Xray runs the file.
THEOREM SuccessCorrect == Spec => []SuccessIsRunning
<1>1. Inv => SuccessIsRunning
  BY DEF Inv, AgentOK, SuccessIsRunning
<1> QED BY <1>1, InvCorrect, PTL

-----------------------------------------------------------------------------
(* XrayAgent implements AgentContract.                                     *)

PhaseOf(step) == CASE step = "idle"                -> "idle"
                   [] step \in {"done", "botched"} -> "carried"
                   [] OTHER                        -> "called"
PendingSteps == {"test", "reload", "restore"}

\* The agent in the middle of a change is the holder of the lock, so there is
\* one at most and its original is what counts.
ClientsOf(f, o) == IF \E t \in Tags : o[t].step \in PendingSteps
                   THEN o[CHOOSE t \in Tags : o[t].step \in PendingSteps].original
                   ELSE f

\* Who counts is the one pending agent, or nobody.
LEMMA ClientsFacts ==
  ASSUME NEW f, NEW o, NEW l, \A t \in Tags : o[t].step \in Held => l = t
  PROVE  /\ \A t \in Tags : o[t].step \in PendingSteps => ClientsOf(f, o) = o[t].original
         /\ (\A t \in Tags : o[t].step \notin PendingSteps) => ClientsOf(f, o) = f
<1>1. ASSUME NEW t \in Tags, o[t].step \in PendingSteps
      PROVE  ClientsOf(f, o) = o[t].original
  <2> DEFINE s == CHOOSE s \in Tags : o[s].step \in PendingSteps
  <2>1. s \in Tags /\ o[s].step \in PendingSteps
    BY <1>1
  <2>2. s = t
    BY <1>1, <2>1 DEF PendingSteps, Held
  <2> QED BY <1>1, <2>2 DEF ClientsOf
<1>2. ASSUME \A t \in Tags : o[t].step \notin PendingSteps
      PROVE  ClientsOf(f, o) = f
  BY <1>2 DEF ClientsOf
<1> QED BY <1>1, <1>2

\* The mapped variables of the contract.
clients == Clients
request == [t \in Tags |-> op[t].request]
phase   == [t \in Tags |-> Phase(t)]

\* The mapped variables, before a step and after it, as functions of the tables.
LEMMA MappedVariables ==
  /\ clients = ClientsOf(file, op)
  /\ phase = [t \in Tags |-> PhaseOf(op[t].step)]
  /\ clients' = ClientsOf(file', op')
  /\ phase' = [t \in Tags |-> PhaseOf(op'[t].step)]
  /\ request' = [t \in Tags |-> op'[t].request]
BY DEF clients, Clients, ClientsOf, Pending, PendingSteps, phase, Phase, PhaseOf, request

\* The clients that count, before a step and after it.
LEMMA ClientsNow ==
  ASSUME Inv
  PROVE  /\ \A t \in Tags : op[t].step \in Held => lock = t
         /\ \A t \in Tags : op[t].step \in PendingSteps => clients = op[t].original
         /\ (\A t \in Tags : op[t].step \notin PendingSteps) => clients = file
<1>1. PICK f, o, l : f = file /\ o = op /\ l = lock
  OBVIOUS
<1>2. \A t \in Tags : o[t].step \in Held => l = t
  BY <1>1 DEF Inv, AgentOK
<1>3. clients = ClientsOf(f, o)
  BY <1>1, MappedVariables
<1>4. /\ \A t \in Tags : o[t].step \in PendingSteps => clients = o[t].original
      /\ (\A t \in Tags : o[t].step \notin PendingSteps) => clients = f
  BY <1>2, <1>3, ClientsFacts
<1> QED BY <1>1, <1>2, <1>4

\* The same after a step.
LEMMA ClientsNext ==
  ASSUME Inv'
  PROVE  /\ \A t \in Tags : op'[t].step \in Held => lock' = t
         /\ \A t \in Tags : op'[t].step \in PendingSteps => clients' = op'[t].original
         /\ (\A t \in Tags : op'[t].step \notin PendingSteps) => clients' = file'
<1>1. PICK f, o, l : f = file' /\ o = op' /\ l = lock'
  OBVIOUS
<1>2. \A t \in Tags : o[t].step \in Held => l = t
  BY <1>1 DEF Inv, AgentOK
<1>3. clients' = ClientsOf(f, o)
  BY <1>1, MappedVariables
<1>4. /\ \A t \in Tags : o[t].step \in PendingSteps => clients' = o[t].original
      /\ (\A t \in Tags : o[t].step \notin PendingSteps) => clients' = f
  BY <1>2, <1>3, ClientsFacts
<1> QED BY <1>1, <1>2, <1>4

\* A step of one agent changes its own phase and request only.
LEMMA OwnPhase ==
  ASSUME NEW t \in Tags, \A s \in Tags \ {t} : op'[s] = op[s]
  PROVE  /\ phase[t] = PhaseOf(op[t].step) /\ request[t] = op[t].request
         /\ phase' = [phase EXCEPT ![t] = PhaseOf(op'[t].step)]
         /\ request' = [request EXCEPT ![t] = op'[t].request]
BY MappedVariables DEF request

\* An agent that does not touch the file and is not pending before or after
\* does not disturb the clients either, nor does a pending one that stays so.
LEMMA SameClients ==
  ASSUME Inv, Inv', NEW t \in Tags, \A s \in Tags \ {t} : op'[s] = op[s],
         \/ /\ op[t].step \notin PendingSteps /\ op'[t].step \notin PendingSteps
            /\ file' = file
         \/ /\ op[t].step \in PendingSteps /\ op'[t].step \in PendingSteps
            /\ op'[t].original = op[t].original
         \/ /\ op[t].step \in Held \ PendingSteps /\ op'[t].step \in PendingSteps
            /\ op'[t].original = file
         \/ /\ op[t].step \in PendingSteps /\ op'[t].step \notin PendingSteps
            /\ file' = op[t].original
  PROVE  clients' = clients
<1>1. \A s \in Tags : op[s].step \in Held => lock = s
  BY ClientsNow
<1>2. /\ \A s \in Tags : op[s].step \in PendingSteps => clients = op[s].original
      /\ (\A s \in Tags : op[s].step \notin PendingSteps) => clients = file
      /\ \A s \in Tags : op'[s].step \in PendingSteps => clients' = op'[s].original
      /\ (\A s \in Tags : op'[s].step \notin PendingSteps) => clients' = file'
  BY ClientsNow, ClientsNext
<1>3. CASE op[t].step \in Held
  <2>1. \A s \in Tags \ {t} : op[s].step \notin PendingSteps
    BY <1>1, <1>3 DEF Held, PendingSteps
  <2> QED BY <1>2, <1>3, <2>1
<1>4. CASE op[t].step \notin Held
  <2>1. op[t].step \notin PendingSteps /\ op'[t].step \notin PendingSteps /\ file' = file
    BY <1>4 DEF Held, PendingSteps
  <2> QED BY <1>2, <2>1
<1> QED BY <1>3, <1>4

\* The pending agent that ends with its file in place carries the change out.
LEMMA CarriedOut ==
  ASSUME Inv, Inv', NEW t \in Tags, \A s \in Tags \ {t} : op'[s] = op[s],
         op[t].step \in PendingSteps, op'[t].step \notin PendingSteps, file' = file
  PROVE  /\ clients' \in [Tags -> SUBSET Ids]
         /\ Contract!Effect(t, op[t].request, clients, clients')
<1>1. \A s \in Tags : op[s].step \in Held => lock = s
  BY ClientsNow
<1>2. clients = op[t].original
  BY ClientsNow
<1>3. \A s \in Tags : op'[s].step \notin PendingSteps
  BY <1>1 DEF Held, PendingSteps
<1>4. clients' = file
  BY <1>3, ClientsNext
<1>5. /\ op[t].request \in Requests /\ Sound(op[t].original)
      /\ ~Refused(op[t].original, t, op[t].request)
      /\ file = Changed(op[t].original, t, op[t].request)
  BY DEF Inv, AgentOK, Pending, PendingSteps, Idle
<1>6. Contract!Effect(t, op[t].request, op[t].original, file)
  BY <1>5, ChangedFacts
<1>7. file \in [Tags -> SUBSET Ids]
  BY DEF Inv, TypeOK, Config
<1> QED BY <1>2, <1>4, <1>6, <1>7

\* The initial states are those of the contract.
LEMMA ContractInit == Init => Contract!Init
<1> SUFFICES ASSUME Init PROVE Contract!Init
  OBVIOUS
<1>1. \A t \in Tags : op[t].step = "idle" /\ op[t].request = NoRequest
  BY DEF Init, Idle
<1>2. clients = file
  BY <1>1 DEF clients, Clients, Pending
<1>3. phase = [t \in Tags |-> "idle"]
  BY <1>1 DEF phase, Phase
<1> QED BY <1>1, <1>2, <1>3 DEF Contract!Init, clients, phase, Init

\* Every step is one of the contract's, or changes nothing it speaks of.
LEMMA ContractStep == Inv /\ Inv' /\ [Next]_vars => [Contract!Next]_(Contract!vars)
<1> DEFINE Same == clients' = clients /\ request' = request /\ phase' = phase
                   /\ answer' = answer
<1> SUFFICES ASSUME Inv, Inv', [Next]_vars PROVE Contract!Next \/ Same
  BY DEF Contract!vars, clients, phase, request
<1>0. /\ TypeOK /\ op \in [Tags -> Op] /\ Idle \in Op /\ Idle.step = "idle"
      /\ Idle.request = NoRequest
  BY DEF Inv, TypeOK, Idle, Op, Step, Empty, Config
<1>1. ASSUME NEW t \in Tags, Receive(t) PROVE Contract!Next
  <2>1. PICK r \in Requests : Becomes(t, [Idle EXCEPT !.step = "lock", !.request = r])
    BY <1>1 DEF Receive
  <2> DEFINE next == [Idle EXCEPT !.step = "lock", !.request = r]
  <2>2. next \in Op /\ next.step = "lock" /\ next.request = r
    BY <1>0 DEF Op, Step, Idle
  <2> HIDE DEF next
  <2>3. op'[t] = next /\ \A s \in Tags \ {t} : op'[s] = op[s]
    BY <1>0, <2>1, <2>2, BecomesFacts DEF next
  <2>4. clients' = clients
    BY <1>0, <1>1, <2>2, <2>3, SameClients DEF Receive, PendingSteps
  <2>5. /\ phase[t] = "idle" /\ phase' = [phase EXCEPT ![t] = "called"]
        /\ request' = [request EXCEPT ![t] = r]
    BY <1>0, <1>1, <2>2, <2>3, OwnPhase DEF Receive, PhaseOf
  <2>6. r \in Contract!Requests
    BY DEF Requests, Contract!Requests
  <2>7. Contract!Call(t)
    BY <1>1, <2>4, <2>5, <2>6 DEF Contract!Call, Receive, clients, phase, request
  <2> QED BY <2>7 DEF Contract!Next
<1>2. ASSUME NEW t \in Tags, Acquire(t) PROVE Same
  <2>1. PICK step \in {"refused", "write"} :
          /\ op'[t].step = step /\ op'[t].request = op[t].request
          /\ \A s \in Tags \ {t} : op'[s] = op[s]
    BY <1>0, <1>2 DEF Acquire, Goes, Becomes, Op
  <2>2. op[t].step = "lock" /\ file' = file /\ answer' = answer
    BY <1>2 DEF Acquire
  <2>3. clients' = clients
    BY <2>1, <2>2, SameClients DEF PendingSteps
  <2>4. phase' = phase /\ request' = request
    BY <2>1, <2>2, OwnPhase, MappedVariables DEF PhaseOf, request
  <2> QED BY <2>2, <2>3, <2>4
<1>3. ASSUME NEW t \in Tags, GiveUp(t) \/ Answer(t) PROVE Contract!Next
  <2>1. PICK result \in {"ok", "error"} :
          /\ Ends(t, result)
          /\ result = "ok" => op[t].step = "done"
    BY <1>3 DEF GiveUp, Answer
  <2>2. op'[t] = Idle /\ \A s \in Tags \ {t} : op'[s] = op[s]
    BY <1>0, <2>1, BecomesFacts DEF Ends
  <2>3. /\ op[t].step \in {"lock", "done", "refused", "botched"}
        /\ file' = file
    BY <1>3 DEF GiveUp, Answer
  <2>4. clients' = clients
    BY <1>0, <2>2, <2>3, SameClients DEF PendingSteps
  <2>5. /\ phase[t] # "idle" /\ phase' = [phase EXCEPT ![t] = "idle"]
        /\ request' = [request EXCEPT ![t] = NoRequest]
        /\ result = "ok" => phase[t] = "carried"
    BY <1>0, <2>1, <2>2, <2>3, OwnPhase DEF PhaseOf
  <2>6. answer' = [answer EXCEPT ![t] = result]
    BY <2>1 DEF Ends
  <2>7. Contract!Succeed(t) \/ Contract!Fail(t)
    BY <2>1, <2>4, <2>5, <2>6 DEF Contract!Succeed, Contract!Fail, clients, phase, request
  <2> QED BY <2>7 DEF Contract!Next
<1>4. ASSUME NEW t \in Tags, Write(t) \/ TestConfig(t) PROVE Same
  <2>1. PICK step \in {"refused", "test", "reload", "restore"} :
          /\ op'[t].step = step /\ op'[t].request = op[t].request
          /\ \A s \in Tags \ {t} : op'[s] = op[s]
          /\ \/ op[t].step = "write" /\ step = "refused" /\ file' = file
             \/ op[t].step = "write" /\ step = "test" /\ op'[t].original = file
             \/ /\ op[t].step = "test" /\ step \in {"reload", "restore"}
                /\ op'[t].original = op[t].original
    <3>1. {"refused", "reload", "restore"} \subseteq Step
      BY DEF Step, Held
    <3>2. CASE TestConfig(t)
      BY <1>0, <3>1, <3>2, GoesFacts DEF TestConfig
    <3>3. CASE Write(t) /\ Goes(t, "refused") /\ file' = file
      BY <1>0, <3>1, <3>3, GoesFacts DEF Write
    <3>4. CASE Write(t) /\ Becomes(t, [op[t] EXCEPT !.step = "test", !.next = Empty,
                                                   !.original = file])
      <4> DEFINE new == [op[t] EXCEPT !.step = "test", !.next = Empty, !.original = file]
      <4>1. /\ new \in Op /\ new.step = "test" /\ new.request = op[t].request
            /\ new.original = file
        BY <1>0 DEF Op, Step, Held, Inv, TypeOK, Empty, Config
      <4>2. Becomes(t, new) /\ op[t].step = "write"
        BY <3>4 DEF Write
      <4> HIDE DEF new
      <4> QED BY <1>0, <4>1, <4>2, BecomesFacts
    <3> QED BY <1>4, <3>2, <3>3, <3>4 DEF Write
  <2>2. clients' = clients
    BY <2>1, SameClients DEF PendingSteps, Held
  <2>3. phase' = phase /\ request' = request
    BY <2>1, OwnPhase, MappedVariables DEF PhaseOf, request
  <2> QED BY <1>4, <2>2, <2>3 DEF Write, TestConfig
<1>5. ASSUME NEW t \in Tags, Reload(t) \/ Restore(t) PROVE Contract!Next \/ Same
  <2>1. PICK step \in {"done", "restore", "refused", "botched"} :
          /\ Goes(t, step)
          /\ step \in {"done", "botched"} => file' = file
          /\ step = "refused" => file' = op[t].original
    BY <1>5 DEF Reload, Restore
  <2>2. step \in Step
    BY <2>1 DEF Step, Held
  <2>3. /\ op'[t].step = step /\ op'[t].request = op[t].request
        /\ op'[t].original = op[t].original
        /\ \A s \in Tags \ {t} : op'[s] = op[s]
    BY <1>0, <2>1, <2>2, GoesFacts
  <2>4. op[t].step \in PendingSteps /\ answer' = answer
    BY <1>5 DEF Reload, Restore, PendingSteps
  <2>5. /\ phase[t] = "called" /\ phase' = [phase EXCEPT ![t] = PhaseOf(step)]
        /\ request' = request /\ request[t] = op[t].request
    BY <2>3, <2>4, OwnPhase, MappedVariables DEF PhaseOf, PendingSteps, request
  <2>6. CASE step \in {"done", "botched"}
    <3>1. /\ clients' \in [Tags -> SUBSET Ids]
          /\ Contract!Effect(t, request[t], clients, clients')
      BY <2>1, <2>3, <2>4, <2>5, <2>6, CarriedOut DEF PendingSteps
    <3>2. PhaseOf(step) = "carried"
      BY <2>6 DEF PhaseOf
    <3>3. Contract!Carry(t)
      BY <2>4, <2>5, <3>1, <3>2 DEF Contract!Carry, clients, phase, request
    <3> QED BY <3>3 DEF Contract!Next
  <2>7. CASE step \in {"restore", "refused"}
    <3>1. clients' = clients
      BY <2>1, <2>3, <2>4, <2>7, SameClients DEF PendingSteps
    <3>2. PhaseOf(step) = "called"
      BY <2>7 DEF PhaseOf
    <3>3. phase' = phase
      BY <2>5, <3>2, MappedVariables
    <3> QED BY <2>4, <2>5, <3>1, <3>3
  <2> QED BY <2>6, <2>7
<1>6. ASSUME NEW t \in Tags, Crash(t) PROVE Contract!Next
  <2>1. op'[t] = Idle /\ \A s \in Tags \ {t} : op'[s] = op[s]
    BY <1>0, <1>6, BecomesFacts DEF Crash
  <2>2. op[t].step # "idle" /\ op[t] \in Op
    BY <1>0, <1>6 DEF Crash, Inv, AgentOK
  <2>3. /\ phase[t] # "idle" /\ phase' = [phase EXCEPT ![t] = "idle"]
        /\ request' = [request EXCEPT ![t] = NoRequest]
        /\ request[t] = op[t].request
        /\ op[t].step \in PendingSteps => phase[t] = "called"
    BY <1>0, <2>1, <2>2, OwnPhase DEF PhaseOf, PendingSteps
  <2>4. file' = file /\ answer' = answer /\ Idle.step \notin PendingSteps
    BY <1>0, <1>6 DEF Crash, PendingSteps
  <2>5. CASE op[t].step \in PendingSteps
    <3>1. /\ clients' \in [Tags -> SUBSET Ids]
          /\ Contract!Effect(t, request[t], clients, clients')
      BY <2>1, <2>3, <2>4, <2>5, CarriedOut
    <3>2. Contract!Die(t)
      BY <2>3, <2>4, <2>5, <3>1 DEF Contract!Die, clients, phase, request
    <3> QED BY <3>2 DEF Contract!Next
  <2>6. CASE op[t].step \notin PendingSteps
    <3>1. clients' = clients
      BY <2>1, <2>4, <2>6, SameClients
    <3>2. Contract!Die(t)
      BY <2>3, <2>4, <3>1 DEF Contract!Die, clients, phase, request
    <3> QED BY <3>2 DEF Contract!Next
  <2> QED BY <2>5, <2>6
<1>7. CASE Restart \/ UNCHANGED vars
  BY <1>7, MappedVariables DEF Restart, vars, request
<1> QED BY <1>1, <1>2, <1>3, <1>4, <1>5, <1>6, <1>7 DEF Next, Proceed

\* The agents implement the contract: no update is lost or mixed with another,
\* an operation answered with success was carried out, one answered with an
\* error or not at all was carried out completely or not at all.
THEOREM ContractCorrect == Spec => ImplementsContract
BY ContractInit, ContractStep, InvCorrect, PTL DEF Spec, ImplementsContract, Contract!Spec

-----------------------------------------------------------------------------
(* Reserved clients.                                                       *)

\* No effect of the contract takes a reserved client away.
LEMMA ReservedStep ==
  ASSUME Inv, Inv', [Next]_vars, NEW t \in Tags
  PROVE  Clients[t] \cap Reserved \subseteq Clients'[t]
<1>1. ASSUME NEW s \in Tags, NEW r, Contract!Effect(s, r, clients, clients')
      PROVE  clients[t] \cap Reserved \subseteq clients'[t]
  BY <1>1, ReservedAssumption DEF Contract!Effect, Contract!Adds, Contract!Removes
<1>2. CASE clients' = clients
  BY <1>2 DEF clients
<1>3. CASE clients' # clients
  <2>1. PICK s \in Tags : Contract!Carry(s) \/ Contract!Die(s)
    BY <1>3, ContractStep
    DEF Contract!Next, Contract!vars, Contract!Call, Contract!Succeed, Contract!Fail, clients
  <2> QED BY <1>1, <1>3, <2>1 DEF Contract!Carry, Contract!Die, clients
<1> QED BY <1>2, <1>3 DEF clients

\* Whatever is added, removed, rolled back or interrupted, on any inbound, the
\* administrator's clients stay.
THEOREM ReservedCorrect == Spec => ReservedStay
<1>1. Inv /\ Inv' /\ [Next]_vars
        => [\A t \in Tags : Clients[t] \cap Reserved \subseteq Clients'[t]]_vars
  BY ReservedStep
<1> QED BY <1>1, InvCorrect, PTL DEF Spec, ReservedStay

=============================================================================
