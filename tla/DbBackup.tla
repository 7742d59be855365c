------------------------------ MODULE DbBackup ------------------------------
(***************************************************************************)
(* The copies of the database on Yandex Disk: run_once of                  *)
(* DatabaseBackupService (db_backup/service.py) dumps PostgreSQL, uploads  *)
(* the dump and deletes the oldest copies.  The service db-backup does so  *)
(* every evening, an operator may do so by hand at any time, in a          *)
(* container of its own.                                                   *)
(*                                                                         *)
(* A copy is named after the second in which its run started, so names are *)
(* ordered as the runs are and a copy is that second here.                 *)
(***************************************************************************)
EXTENDS Integers, FiniteSets

CONSTANTS
  Daemon,     \* the process of the service db-backup
  Manual,     \* processes started by hand: docker compose run db-backup
  MaxTime,    \* bound: the clock stops here, and runs go on
  MaxLate,    \* bound: answers with 202 that are not carried out yet
  Retention,  \* BACKUP_RETENTION_COUNT
  Faults      \* "dump", "disk", "network", "late", "token", "crash"

Processes == {Daemon} \union Manual
Names     == 1..MaxTime

ASSUME ProcessAssumption == Daemon \notin Manual
ASSUME NumberAssumption  == MaxTime \in Nat \ {0} /\ MaxLate \in Nat /\ Retention \in Nat

VARIABLES
  now,      \* the clock
  disk,     \* copies in the folder
  landing,  \* uploads answered with 202 that are not in the folder yet
  leaving,  \* deletions answered with 202 that are not carried out yet
  token,    \* the access token each process holds
  op,       \* what each process is doing
  ever      \* history: copies that have been in the folder

store == <<disk, landing, leaving, ever>>
vars  == <<now, store, token, op>>

Op == [step: {"idle", "dump", "folder", "upload", "put", "list", "delete"},
       name: Names \union {0}, old: SUBSET Names]

Idle == [step |-> "idle", name |-> 0, old |-> {}]

Init ==
  /\ now = 1
  /\ disk = {} /\ landing = {} /\ leaving = {} /\ ever = {}
  /\ token = [p \in Processes |-> "none"]
  /\ op = [p \in Processes |-> Idle]

-----------------------------------------------------------------------------
(* Helpers.                                                                *)

Newer(files, n) == {m \in files : m > n}

\* Mutants: one copy too few is kept, or one too many.
SelectTooMany(files) == {n \in files : Cardinality(Newer(files, n)) + 1 >= Retention}
SelectTooFew(files)  == {n \in files : Cardinality(Newer(files, n)) > Retention}

\* select_files_for_deletion: all but the newest Retention names.
SelectForDeletion(files) == {n \in files : Cardinality(Newer(files, n)) >= Retention}

\* The folder gets to hold these files.
Holds(files) == disk' = files /\ ever' = ever \union files

Goes(p, step) == op' = [op EXCEPT ![p].step = step]

\* The run is over, for good or with an exception that is logged: the daemon
\* keeps its client and the token in it, a process started by hand is gone.
Ends(p, t) ==
  /\ op' = [op EXCEPT ![p] = Idle]
  /\ token' = [token EXCEPT ![p] = IF p = Daemon THEN t ELSE "none"]

\* Yandex answers with 202 and takes its time.
Late == "late" \in Faults /\ Cardinality(landing) + Cardinality(leaving) < MaxLate

\* _ensure_access_token: a client without a token asks for one, a client with
\* one never does again.
EnsureAccessToken(p) == IF token[p] = "none" THEN "live" ELSE token[p]

\* A call to Yandex that fails: refused because of an old token, refused for
\* another reason, or not answered, carried out or not.
Refused(p) == token[p] = "stale" \/ "disk" \in Faults
Lost       == "network" \in Faults
Fails(p)   == Refused(p) \/ Lost

-----------------------------------------------------------------------------
(* run_once.                                                               *)

\* The evening has come, or the operator starts it: the name is fixed first.
Start(p) ==
  /\ op[p] = Idle
  /\ op' = [op EXCEPT ![p] = [Idle EXCEPT !.step = "dump", !.name = now]]
  /\ UNCHANGED <<now, store, token>>

\* pg_dump and gzip, into a temporary directory.
CreateDump(p) ==
  /\ op[p].step = "dump"
  /\ \/ Goes(p, "folder") /\ UNCHANGED token
     \/ "dump" \in Faults /\ Ends(p, token[p])
  /\ UNCHANGED <<now, store>>

\* The first call of a run, the only one that may lack a token.
EnsureFolder(p) ==
  LET held == EnsureAccessToken(p) IN
  /\ op[p].step = "folder"
  /\ \/ held = "live" /\ Goes(p, "upload") /\ token' = [token EXCEPT ![p] = held]
     \/ /\ Fails(p)
        /\ \E t \in {token[p], held} : Ends(p, t)
  /\ UNCHANGED <<now, store>>

\* The link for the upload, which works without the token.
RequestUploadHref(p) ==
  /\ op[p].step = "upload"
  /\ \/ token[p] = "live" /\ Goes(p, "put") /\ UNCHANGED token
     \/ Fails(p) /\ Ends(p, token[p])
  /\ UNCHANGED <<now, store>>

\* The put has been accepted: the file is in the folder, or will be.
Puts(n) ==
  \/ Holds(disk \union {n}) /\ UNCHANGED landing
  \/ Late /\ landing' = landing \union {n} /\ UNCHANGED <<disk, ever>>

\* Mutant: the status of the put is not looked at.
PutAnyStatus(p) ==
  /\ op[p].step = "put"
  /\ \/ Puts(op[p].name)
     \/ "disk" \in Faults /\ UNCHANGED <<disk, ever, landing>>
  /\ op' = [op EXCEPT ![p] = [Idle EXCEPT !.step = "list"]]
  /\ UNCHANGED <<now, leaving, token>>

\* The file is put there; if the answer is lost, it may be there all the same.
PutFile(p) ==
  /\ op[p].step = "put"
  /\ \/ /\ Puts(op[p].name)
        /\ op' = [op EXCEPT ![p] = [Idle EXCEPT !.step = "list"]]
        /\ UNCHANGED token
     \/ /\ Lost /\ Puts(op[p].name)
        /\ Ends(p, token[p])
     \/ /\ Lost \/ "disk" \in Faults
        /\ Ends(p, token[p])
        /\ UNCHANGED <<disk, ever, landing>>
  /\ UNCHANGED <<now, leaving>>

\* The folder is listed and what is to go is selected.
ListFiles(p) ==
  /\ op[p].step = "list"
  /\ \/ /\ token[p] = "live"
        /\ op' = [op EXCEPT ![p].step = "delete", ![p].old = SelectForDeletion(disk)]
        /\ UNCHANGED token
     \/ /\ Fails(p)
        /\ Ends(p, token[p])
  /\ UNCHANGED <<now, store>>

\* The deletion has been accepted: the copy is gone, or will be.
Removes(n) ==
  \/ Holds(disk \ {n}) /\ UNCHANGED leaving
  \/ Late /\ leaving' = leaving \union {n} /\ UNCHANGED <<disk, ever>>

\* The next copy to go, the newest first.  A refusal is logged and the next one
\* tried; no answer at all is another exception and ends the run.
Delete(p) ==
  /\ op[p].step = "delete"
  /\ \E n \in op[p].old :
       /\ Newer(op[p].old, n) = {}
       /\ \/ /\ token[p] = "live" /\ Removes(n)
             /\ op' = [op EXCEPT ![p].old = @ \ {n}] /\ UNCHANGED token
          \/ /\ Refused(p) /\ UNCHANGED <<disk, ever, leaving>>
             /\ op' = [op EXCEPT ![p].old = @ \ {n}] /\ UNCHANGED token
          \/ /\ Lost /\ token[p] = "live" /\ Removes(n)
             /\ Ends(p, token[p])
          \/ /\ Lost /\ UNCHANGED <<disk, ever, leaving>>
             /\ Ends(p, token[p])
  /\ UNCHANGED <<now, landing>>

\* "Backup completed", or "nothing to delete" before it.
Finish(p) ==
  /\ op[p].step = "delete"
  /\ op[p].old = {}
  /\ Ends(p, token[p])
  /\ UNCHANGED <<now, store>>

-----------------------------------------------------------------------------
(* Everything else.                                                        *)

Tick == now < MaxTime /\ now' = now + 1 /\ UNCHANGED <<store, token, op>>

\* What Yandex has accepted is carried out.
Land(n) ==
  /\ n \in landing
  /\ landing' = landing \ {n}
  /\ Holds(disk \union {n})
  /\ UNCHANGED <<now, leaving, token, op>>

Leave(n) ==
  /\ n \in leaving
  /\ leaving' = leaving \ {n}
  /\ Holds(disk \ {n})
  /\ UNCHANGED <<now, landing, token, op>>

\* Yandex's access tokens are valid for a limited time, far longer than a run:
\* only the daemon gets to hold an old one.
TokenExpires ==
  /\ "token" \in Faults
  /\ token[Daemon] = "live"
  /\ token' = [token EXCEPT ![Daemon] = "stale"]
  /\ UNCHANGED <<now, store, op>>

\* The container stops; the daemon's is started again.
Crash(p) ==
  /\ "crash" \in Faults
  /\ op[p] # Idle \/ token[p] # "none"
  /\ op' = [op EXCEPT ![p] = Idle]
  /\ token' = [token EXCEPT ![p] = "none"]
  /\ UNCHANGED <<now, store>>

Run(p) ==
  \/ Start(p)
  \/ CreateDump(p)
  \/ EnsureFolder(p)
  \/ RequestUploadHref(p)
  \/ PutFile(p)
  \/ ListFiles(p)
  \/ Delete(p)
  \/ Finish(p)

Next ==
  \/ \E p \in Processes : Run(p) \/ Crash(p)
  \/ TokenExpires
  \/ \E n \in Names : Land(n) \/ Leave(n)
  \/ Tick

Spec == Init /\ [][Next]_vars

\* The loop of the daemon survives every exception and comes back every
\* evening; whatever fails, works on some evening; Yandex does what it accepts.
FairSpec ==
  /\ Spec
  /\ WF_vars(Run(Daemon))
  /\ \A s \in {"folder", "upload", "put", "list", "delete"} :
       SF_vars(Run(Daemon) /\ op[Daemon].step # s /\ op'[Daemon].step = s)
  /\ SF_vars(Delete(Daemon) /\ disk' # disk)
  /\ WF_vars(\E n \in Names : Land(n) \/ Leave(n))

-----------------------------------------------------------------------------
(* Properties.                                                             *)

\* Every variable stays within its type.
TypeOK ==
  /\ now \in Names
  /\ disk \subseteq Names /\ landing \subseteq Names /\ leaving \subseteq Names
  /\ ever \subseteq Names
  /\ token \in [Processes -> {"none", "live", "stale"}]
  /\ op \in [Processes -> Op]

\* The newest Retention copies there have ever been are there: a copy is
\* missing only if that many newer ones are in the folder, whatever fails and
\* however a run by hand, a late upload or a late deletion crosses the rotation.
KeepsNewest ==
  \A n \in ever \ disk : Cardinality(Newer(disk, n)) >= Retention

\* Every evening a copy gets to the folder in the end, although dumps, uploads
\* and the process fail now and then, unless the daemon's token has expired:
\* then nothing but a restart helps.
DailyCopy ==
  now = MaxTime ~> MaxTime \in disk \/ token[Daemon] = "stale"

\* Copies beyond the newest Retention are deleted in the end, although a
\* deletion that fails is only logged.
ExcessIsDeleted ==
  Cardinality(disk) > Retention ~>
    Cardinality(disk) <= Retention \/ token[Daemon] = "stale"

=============================================================================
