# NetAgent: models, model checking and proofs

NetAgent sells VPN and AI-chat subscriptions through a Telegram bot and a web site. This directory
holds TLA+ models of its core, the TLC configurations that check them on small instances, and
machine-checked proofs (TLAPS) of the properties that matter most. Paths below are relative to the
repository; `build/lib` is an older build of the sources and is not looked at.

## 1. The system

| Process | Code | What runs in it |
|---|---|---|
| bot | `src/bot` | one asyncio loop; every database operation goes to a thread (`asyncio.to_thread`), so operations of different users, and of one user, overlap; background tasks: expiry (6 h), reminders (1 h) |
| web | `src/webapp` | one uvicorn process; `async` handlers call the synchronous services directly, so its handlers run one at a time |
| device monitor | `src/device_monitor` | one loop, `poll_once` every 30 s |
| xray-agent | `src/xray_agent` | one uvicorn process per inbound of a VPN node; the agents of one node share Xray's configuration file |
| backup | `src/db_backup` | one loop, daily |
| clean-up script | `scripts/clean_entry_clients.py` | run by hand on the entry server, beside its agents |
| PostgreSQL, Xray, YooKassa, OpenAI, Telegram, Yandex.Disk | outside | modelled, where they are, from the way the code uses them |

The processes share nothing but the database and the xray-agent's HTTP API. No operation takes a lock
in the database: a read, an HTTP call and a commit are three points between which anything may happen.

### Inventory

**VPN key lifecycle** (`bot/billing.py`, `bot/xray_provisioner.py`, `bot/subscription_expiration.py`).
State: tables `subscriptions` and `devices`, the agent's clients. Operations: activation of a plan
(closes the conflicting subscriptions, moves the device to the new one), `ensure_vpn_key` (sync,
restore or create), `regenerate_vpn_key_for_user`, `expire_due_subscriptions`, and the compensation after
each failed commit. Called by bot threads, by the web process, and by the expiry task. Hard: every
operation is read - agent call - commit; agent answers may be lost; the expiry job decides on a
snapshot and commits once for all. Correct means: one active subscription per product line; rows hang
off the right subscription; a replaced key stays dead; a key changes only when asked for; no client of
Xray is unknown to the database; due subscriptions get closed. Modelled in `VpnKeys`, refining `KeyBook`.

**Payments** (`netagent_common/payment_service.py`, `yookassa_client.py`, `webapp/routes/payments.py`).
State: tables `payments`, `payment_webhook_events`, `subscriptions`; YooKassa's invoices. Operations:
create, web hook (log, check, activate, provision, answer). Hard: two commits and an HTTP answer per
hook, repetition until 200, crashes in between, invoices whose answer was lost, purchases that overlap.
Correct means: what can be paid is on record; money grants its plan exactly once, eventually; 200 is
said only after that. Modelled in `Payments`, refining `PaymentLedger`.

**Xray agent** (`xray_agent/config_service.py`, `app.py`, `xray_client/client.py`). State: the configuration
file, its lock file, the running Xray. Operations: add, remove (list, count and health only read).
Hard: several agents rewrite one file; the change is tested and loaded after it is written and rolled
back on failure; the rollback can fail; an agent can die with the lock. Correct means: no lost update,
no email twice, the limit holds, reserved clients stay, success means "Xray runs it", and every request
ends. Modelled in `XrayAgent`, refining `AgentContract`.

**Device monitor** (`device_monitor/service.py`, `xray_agent/stats_service.py`). State: `subscriptions.traffic_*`,
`devices.status`, `last_*`; Xray's counters. Operation: `poll_once` reads the online addresses, then for each active
device the traffic, suspends at once in Xray those in violation, and commits once for all. Hard: counters that every
restart of Xray resets, and every suspension is one; readings kept from the load to the commit while plans are renewed
and rows replaced; one failure that loses a whole poll. Correct means: traffic is charged once and to the right
subscription; a used-up plan is suspended, and only for a cause. Modelled in `TrafficMeter`; what a suspension means
for the life of a key is in `VpnKeys`, where any set of devices may be found in violation.

**VPN node picker** (`netagent_common/vpn_nodes.py`). State: none of its own; the active rows per node, and the clients
of each agent. Operation: take the least loaded node with room. Hard: the count is read before the agent is called and the row
inserted; an expired row comes back to its node without a count; the database limits rows and the agent limits clients, and the
two drift apart. Correct means: a node's limit holds, up to creations in progress; whoever is turned away is so for
a reason that can be named. Modelled in `NodePicker`.

**Entry server clean-up script** (`scripts/clean_entry_clients.py`). State: the node's configuration file and a backup of it.
Operation: remove all clients but those it is told to keep, test, roll back. Hard: it does not know the lock of the agents, which
rewrite the same file meanwhile, and whom it keeps is given on its own command line. Correct means: the clients to be kept stay; the link of a user whose client it did not print and
who did nothing during the run still works. Modelled in `EntryCleaner`, together with `NodePicker`.

**AI quota and OpenAI client** (`bot/ai_service.py`, `netagent_common/openai_client.py`). State: one counter
per user and day. Operation: `complete_message` checks and increments the counter in one transaction, then asks OpenAI
with every key over every proxy. Hard: a thread per message, without locks; a message counted whose answer fails;
midnight, a restart, a subscription bought in between. Correct means: the daily limit, the counter's agreement with
what was let through, no failure reported with a route left. Modelled in `AiQuota`.

**Reminders** (`bot/subscription_reminders.py`). State: two flags of a subscription, the batch in memory. Operation: read
what is due, send one by one, store a flag after each. Hard: the message is sent before the flag is stored; windows of one
day; purchases go on while the batch is at work; one error drops the rest. Correct means: no reminder twice unless a store was
cut off, none missed without a failure, and whoever is reminded may buy. Modelled in `Reminders`.

**Database backup** (`db_backup`). State: copies on Yandex Disk, a cached access token. Operations: dump, upload and
rotation, every evening by the service and at any time by hand. Hard: steps that fail one by one, two rotations at
once, uploads and deletions that are accepted and carried out later, a token that expires. Correct means: the newest
copies are never missing; a copy gets there every evening; retention holds in the end. Modelled in `DbBackup`.

**Bot dialogs** (`bot/onboarding_handlers.py`, `ai_handlers.py`, `support_handlers.py`, `handlers.py`, `keyboards.py`). State: aiogram's
state of a user and its data, in memory; the screens in the chat. Operations: a handler per command, button and text, in
a task per update. Hard: handlers of one user overlap at every wait; old screens keep their buttons; a restart forgets the states
and not the screens. Correct means: the setup guide is for those who have paid, and they get there. Modelled in `BotDialog`.

**Support tickets** (`bot/support_service.py`). State: table `support_tickets`. Operations: create (bot, site), reply (admin).
Each is one commit; a later reply replaces an earlier one. The creation is a step of `BotDialog`, the rest is left out.

**Not to be modelled**: site pages and wording (sessions, read-only statistics;
their state-changing calls are the operations above), seeding and migrations (before any service
starts), formatting helpers.

The hazards this code is exposed to, each at its line and with the property that covers it, are listed
in `PROJECT.json`.

## 2. Modules and how they correspond to the code

| Module | Content |
|---|---|
| `VpnKeys` | subscriptions, devices and clients; all operations on them, step by step; refines `KeyBook` |
| `KeyHistory` | `VpnKeys` with a history of the users with whose operations something came in the way |
| `MCVpnKeys`, `MCKeyHistory` | symmetry of uuids, for TLC |
| `KeyBook` | abstract: a uuid drawn, issued, replaced, switched on and off |
| `VpnKeysProofs` | inductive invariants, refinement, agreement with `AgentEffects`; twelve theorems about `VpnKeys` and `KeyHistory` |
| `PaymentLedger` | abstract: offered, paid or withdrawn, granted once |
| `Payments` | payment creation, YooKassa, web hooks; refines `PaymentLedger` |
| `PaymentsProofs` | inductive invariant, refinement and five theorems |
| `TrafficMeter` | a poll of the monitor, Xray's counters, renewals, regenerations |
| `TrafficMeterProofs` | inductive invariant and five theorems |
| `AiQuota` | free messages of the AI chat, their counter, keys and proxies |
| `MCAiQuota` | lists of keys and proxies, symmetry of messages, for TLC |
| `AiQuotaProofs` | inductive invariants and four theorems |
| `DbBackup` | copies of the database, rotation, calls to Yandex Disk |
| `DbBackupProofs` | inductive invariant and two theorems |
| `BotDialog` | state of a user, screens and buttons, all handlers of the bot |
| `BotProofs` | for `BotDialog` and `Reminders`, two inductive invariants and six theorems |
| `NodePicker` | several nodes of one entry server: which one a key is put on, both limits, the shared file |
| `EntryCleaner` | the clean-up script, step by step, beside the operations of `NodePicker` |
| `MCEntryCleaner` | limits of the nodes, symmetry of customers, for TLC |
| `EntryCleanerProofs` | inductive invariants, agreement with `AgentEffects`; six theorems about both |
| `Reminders` | the reminder loop, its batch and flags, beside purchases and the clock |
| `AgentEffects` | what one addition or removal does to the clients of a node |
| `AgentContract` | abstract: what a caller of an agent may rely on |
| `XrayAgent` | agents, lock file, configuration file, Xray; refines `AgentContract` |
| `MCXrayAgent` | clients and emails, for TLC |
| `XrayAgentProofs` | inductive invariant, refinement and six theorems |

How they fit together: `Payments` ends a hook with the step `Provision`, which is `EnsureVpnKey(Web, u)` of
`VpnKeys`; its `FulfillPayment` is `Activate` of `VpnKeys`. `VpnKeys` calls the agent through `AddUser` and
`RemoveUser`, whose outcomes (success: carried out; error or no answer: carried out or not) are those
`AgentContract` allows and `XrayAgent` is shown to have. So each module sees its neighbour through a contract
and the neighbour is checked against it; that the two sides mean the same is proved as well (`AgentAnswers`): both use
the operators of `AgentEffects`, as does what the agents of `NodePicker` do to their file (`EffectCorrect`). `TrafficMeter` and `VpnKeys` share the monitor: the one knows what is found
in violation and leaves out how rows expire and come back, the other knows these and lets anything be found.
`Renew` and `Regenerate` of `TrafficMeter` are `Activate` and `RevokeOldKey` to `CreateCommit` of `VpnKeys`, as far
as the meter sees them. `VpnKeys` has one node and operations of one user that overlap; `NodePicker` has several nodes and
operations of different users that overlap on their file, an agent's request being two steps (the read and the write under
the lock), whose inside is `XrayAgent`. `EntryCleaner` composes it with the script that writes the file without that lock.
`Activate` of `Reminders` is `Activate` of `VpnKeys`, as far as reminders see it.

Definitions have the name of the function they stand for; `PROJECT.json` gives the lines of each. Definitions
that a comment calls *Mutant* are plausible bugs: put in the place of the definition after them, they break a
property, which shows that the property depends on the code it is about.

### VpnKeys

* `subs` is the table in order of id; `over` says that `expires_at` has passed. `xray_email` is unique in the
  database and made from the user with a single suffix, so there is at most one row per user (`device`) and
  one client per email (`xray`), which makes both functions of the user.
* `op[w]` is the local state of a bot thread or of the web process: where it is, and what it loaded (`row`,
  `from`). `held` marks a deletion flushed and not committed: others that change this row wait for it, which
  is PostgreSQL's row lock.
* `Activate` has no guard on what the user has: `can_purchase` ran when the payment was *created*, and payments
  may be fulfilled long afterwards, in any order.
* `EnsureStep` keeps a subtlety: sessions have `autoflush=False`, so a row that
  `_consolidate_vpn_devices_for_user` moved to the current subscription in memory is not seen by the query that
  follows.
* Bot threads call `ensure_vpn_key` for users of the bot; the web process calls it after a fulfilment, for any
  user. `regenerate` is called from the cabinet of the site only.
* `retired` is a history variable. `MaxSubs`, `Keys` and `MaxInFlight` are bounds.
* `_build_connection_uri`, which may raise between `add_user` and the commit if a node has no host, is left out: a matter of
  configuration.
* `KeyHistory` adds `troubled`: the users for whom two of the workers, the job and the monitor were at work at once (`Crossed`), or for
  whom a step went as none does while the agent answers and processes live (`Failed`, by an instance of `VpnKeys` without these
  faults). Its steps are those of `Next` one by one
  (`HistoryNextIsNext`), so what holds of `Spec` holds of `HistorySpec`. The two passing runs check it.
* `KeyBook` knows of each user the uuid in the row and the one Xray lets in; subscriptions, statuses, operations in progress
  and jobs are gone. A row is read under the mapping as its uuid (`Book`): what suspends, expires, restores or moves it is
  a stutter, and so is a regeneration up to its commit, which is the one step that replaces a uuid.
* An agent call takes effect at one point between request and answer. A call that the client gave up after
  60 s and that the agent carries out after that is seen as carried out at the time of the error.

### Payments

* The id of a row comes from a sequence and is used up even if the row is rolled back (`issued`). The
  idempotence key is made from it, so there is at most one invoice for it.
* `left[u]` is the time left in the user's subscription, as `can_purchase` tells it apart: more than five days,
  five days at most, none.
* The hook's steps are its commits: the event (`Receive`), the details and the amount check (`Fulfill`), the
  activation with the status (`FulfillPayment`), the key (`Provision`), the answer (`Answer`). An exception
  between them becomes a 500, which is the step to `Idle`; YooKassa keeps the event in `unacked`.
* Plans are those that replace each other (so a user has one subscription), with one price that a migration may
  change (`Reprice`). The history `repriced` holds the payments that were created before such a change.

### TrafficMeter

* A unit stands for some number of bytes, `counter` for uplink and downlink together.
* `_query_counter` looks for an object under `stat` and a number in it, and takes anything else for zero, without an error
  (`xray_agent/stats_service.py:57-65`). `SyncTrafficMisread` is a poll to which that happens for one direction or both: what is
  missing is charged by the next true reading, and a reading below the snapshot lets the snapshot be charged twice (`extra`). If Xray
  always prints another shape, a list say, then every reading is zero and nobody is ever suspended for traffic, against
  `docs/key-enforcement-guide.md:14` ("при превышении лимита ключ отключается"). Nothing in the repository shows what Xray prints, so
  this is neither a finding nor excluded: no property says that overuse is suspended in the end.
* `meter` is the pair in `subscriptions`, `poll` the objects of the monitor's session: what it loaded, changed by its
  readings. A poll's commit writes a reading to the subscription that was loaded, which after a renewal is no longer
  the present one (`poll.sub[d] # sub[d]`).
* `Visited` is one turn of the loop: limit reached, or, if not, perhaps shared; whether addresses and countries break
  the rule is a free choice. `RemoveUser` is the call to the agent that follows.
* The two commands that read uplink and downlink may be torn by a restart (`SyncTrafficTorn`). The reading can then be
  anything up to the counter; if it is below the snapshot it is charged a second time, which `extra` records.
* `extra` also holds what the counter shows when a plan is renewed: the new subscription's snapshot is zero, so it is
  charged with that much unless Xray is restarted before the next poll. The fulfilment's own `add_user` usually does
  restart it; it does not if the agent cannot be reached.
* A regeneration is two steps, as it may delete a row that has been suspended since it was read. A renewal between
  these steps is left to `VpnKeys`.
* `real`, `extra`, `whole` (no restart and no reading below the snapshot yet) and `reissued` are history variables; `MaxUnits` and `MaxSubs` are bounds.

### AiQuota

* A message goes through `Begin` (everything read up to the check of the limit), `IncrementUsage` (the second query of the
  row, which sees what others committed, as the session forgot the first object), `Commit` or `CommitFails`, then one
  `Attempt` per route. `read` is what the session holds; the commit writes it plus one, as SQLAlchemy does.
* `Conflict` stands for the unique keys of `users` and of `ai_daily_usage`. PostgreSQL makes the second insert of a
  user wait already at the flush; it fails at the same point, when the first one commits.
* `Attempt` tells apart a text, what `complete` catches (HTTP errors, documents without a text), and an answer
  that is not JSON, whose exception nobody catches: the message is `lost`, and the bot's animation never ends.
* The indices of the rotations are read and moved on without a lock, so a rotation begins anywhere. A list
  without proxies is the direct connection alone.
* `clash` is a history variable; `MaxDay`, `MaxInFlight` are bounds. Users share nothing, so there is one.

### DbBackup

* A copy is the second in which its run started, since that is its name and names are ordered like the seconds. The
  order needs a clock that is not set back; with a `TIMEZONE` that has a winter time the names of one hour a year would be
  out of order (the default, Moscow, has none).
* A run goes through `Start`, `CreateDump`, `EnsureFolder`, `RequestUploadHref`, `PutFile`, `ListFiles` and one `Delete` per file.
  Any exception ends it (`Ends`), except a refused deletion, which is logged. A call that is not answered raises an
  exception of httpx, which ends the rotation too.
* `landing` and `leaving` are uploads and deletions that Yandex has answered with 202, which the code takes for
  success. `Land` and `Leave` carry them out.
* `token` is the client's `_access_token`. It is asked for once in the life of a process; `TokenExpires` makes it
  useless, and only the end of the process forgets it.
* A listing is complete: the limit of 1000 files is a hundred times the retention. `ever` is a history variable.

### BotDialog

* `fsm` and `step` are aiogram's state and the `onboard_step` in its data. What a handler does up to its first wait is one
  action; `ShowScreen` is its call to Telegram, and `ActivateMockPayment`, `Charged`, `Notified` are what comes after other waits.
* `shown` collects the screens of the wizard; `Buttons` are their keyboards. A handler that only raises an alert changes
  nothing and is no action. `Shop` stands for all handlers that leave the state alone.
* The order of the routers matters: in the chat and in support a `/start` never gets to `StartOnboarding`
  (`CommandPasses`), although `docs/bot-brand.md` lists it as the way to the menu; the user is asked for a text instead.
  `/plans` and `/help` (`Commands`) have the same fate. `SupportCategory` changes the data of the state and not the state.
* `refused` says that `ensure_vpn_key` raises what the guide does not catch (`onboarding_handlers.py:134-149` catches three errors): the
  `IntegrityError` of a suspended row and the `BillingError` of full nodes. The handler then ends and shows nothing, on this press and
  the next ones, until that changes (`KeyTurns`): for full nodes when a place is free, for a suspended row never by itself.
* `Notified` and `Charged` write the state late, after a wait, over whatever another handler has written meanwhile. This is in the
  model and in no property: what gets lost is what the code does, and nothing in the repository says otherwise.
* `paid` is a history variable; `Tasks` is a bound.

### NodePicker

* A client is known by its email, which is made from the user: so `file` maps each inbound to a set of emails. `Former` are the
  emails of a database that was wiped (the reason why the script exists), `Kept` are the agents' reserved ones (`AGENT_RESERVED_EMAILS`).
* `op[u]` goes from `call` over `write`, while the agent holds `lock` and `draft` is what it will write, to `commit`. A creation
  remembers the node it picked; `Picks` compares loads as the query's order does, and then the numbers of the nodes.
* `EnsureKept` and the expiry use the row's node without looking at its load. An error of the agent ends an operation, but the expiry job only
  logs it and goes on to its commit, so the row is closed and the client stays (`NotDone`; `bot/billing.py:452-459`).
* An agent refuses (`Refused`) or fails (`AgentFails`): it is not reached, does not get the lock in time, puts the old file back
  after a failed test, or its answer is lost. All nodes full is a `BillingError`, of which the user is told nothing.
* The limits are both 50 in the code's defaults; `LimitsAssumption` asks that the agent's is not the smaller one. Otherwise
  the agent would refuse at a node that the picker keeps choosing.
* `excused` is a history variable, of exactly the two ways in which a row may be one too many.

### EntryCleaner

* One run of the script: `ReadOriginal` (with what it prints), `MakeBackup`, which copies the file as it is by then and not what was
  read, `ReplaceConfig`, `TestConfig`, `RestoreBackup`. Between any two of them the agents read or write.
* `Spared` are the emails the script keeps. They come from its own options and need not be the agents' reserved ones; without any
  it warns and removes all clients.
* `restore_backup` copies in place; it is one step here, so a reader that finds half a file is left out.
* The script looks at all inbounds unless `--inbound` names some, hence the choice of `tags`. A dry run changes nothing.
* `loose` is a history variable: whose client was printed for removal, or who was at work with an agent during the run, or with whom
  the agent failed, until the next addition for that user; and whose expiry removed the client and then failed to commit.

### Reminders

* `left` counts ticks to `expires_at`; a day has `Day` of them, and `left \div Day` is `timedelta.days`, which the code compares
  with 2 and 0. The window is therefore a full day each time.
* `batch` is the list of rows the loop has read. `closed` are those of them that a purchase has replaced since: the loop still
  reminds of them (once at most) and stores the flag in the old row, so they say nothing of the running subscription (`Fresh`).
* `Send`, `SendRefused` and `SendRaises` are the three outcomes of `send_message`; `StoreFlag` and `StoreFails` of the
  commit that follows. `Drops` is the exception that leaves the loop over the batch.
* `Activate` has no guard, as in `VpnKeys`; `MayBuy` is what `can_purchase` would say, which is in a property. It
  leaves out that the plan must not have been taken out of the catalogue (`Plan.is_active`, `bot/billing.py:225-227`): subscribers of
  such a plan are reminded and cannot renew.
* The windows are those of the code, two days and zero days ahead; `docs/TZ.md:743` asks for a warning three days ahead, which no
  code sends.
* `sent`, `cut` and `spoiled` are history variables; `MaxGap` is a bound on time. The names that every module has are prefixed
  here (`RemindersInit`, `RemindersTypeOK`), since `BotProofs` extends this module and `BotDialog`, as one process runs both.

### XrayAgent

* A configuration is the set of clients of each inbound. `Changed` is `add_user` and `remove_user` on the
  configuration read under the lock; `Existing` finds the client to update by uuid, then by email; the same
  email is removed from the other inbounds unless reserved.
* `lock` is the lock file, created with `O_EXCL`; it stays when the agent dies, since nothing in the code removes
  it (`Crash`). From then on every request on the node ends in `GiveUp`, the `ConfigError` after ten seconds.
* `Write`, `TestConfig`, `Reload`, `Restore`, `Answer` are the parts of the critical section. `botched` is a rollback
  that could not be written.
* An email is a function of the uuid: the bot makes a new uuid for every key and never gives one to another
  user. `Restart` is systemd's or the machine's doing.

## 3. What the runs check

| Run | Question | Outcome |
|---|---|---|
| `keys_faults` | two operations overlap; agent, commits and processes fail: do the tables stay right, old keys dead, and uuids with their users; and are keys delivered, and does nothing stay behind, for users with whom none of this interfered? | holds |
| `keys_live` | up to four operations overlap: does a user who keeps asking get a working key, is no foreign key left behind, and does the expiry job close what is due when its calls fail? | holds |
| `keys_suspended_again` | does a suspended user get a new key? | violated |
| `payments` | two users and payments, changing price, all faults: records, agreement with YooKassa, refinement, settlement before 200 and in the end | holds |
| `payments_repriced` | is an invoice paid at its own amount activated, also when the plan's price has changed? | violated |
| `agent` | two agents on one file, all faults: contract, email, limit, success, reserved clients, termination | holds |
| `quota` | three messages overlap at a limit of two, over midnight, all faults: is the counter right, and every route tried? | holds |
| `backups` | a run by hand beside the service, all faults: are the newest copies kept, do copies arrive and old ones go? | holds |
| `dialog` | two updates of a user overlap, restarts, all faults: is the guide for payers, and do they get it? | holds |
| `nodes` | two customers, two nodes, the script beside agents that may fail: limits, refusals, links and clients to be kept | holds |
| `reminders` | purchases and days race a batch that is refused, dropped, cut short or killed: is nobody reminded twice or missed? | holds |
| `traffic` | two devices, a renewal, regenerations, all faults: readings of a wrong shape: is traffic charged once, and are charge and suspension stored together? | holds |

### Properties

`VpnKeys`: **OneActivePerLine**, two active subscriptions never cover one line. **RetiredKeysStayDead**, after a committed regeneration nothing brings the old uuid
back, not even an operation that had loaded it. **SameKeyUnlessAsked**, everything else keeps the uuid. **ImplementsKeyBook** says
of the whole what these say of one step each: a uuid is drawn before it is handed out and is one user's only, Xray is told only
the uuid of the user's own row, or a fresh one, and a removal, however stale what it was decided on, silences one user and never a second.
**NoOrphanClient** and **DeliveredKeyWorks** are about users with whose operations nothing came in the way, whatever happens to
others, in the same batch or the same process: no client is left that the database does not hold as working, and a key that is handed
out works. For the others the first is false: a press that loaded an active row registers the uuid again after the monitor has
suspended it, and an expiry whose revocation fails closes the row and leaves the client. **NoForeignKey** holds with overlap as long as
agent and processes do not fail: compensation is one unrepeated call. **DueIsExpired** and **AskedKeyIsServed** are liveness; the second
holds because the user presses again, as the web process does not try a second time. **SuspendedUserGetsNewKey** is refuted.

`Payments`: **RowAgreesWithInvoice**, **AckedIsSettled**, **ImplementsLedger** and, for liveness,
**PaidIsActivated**; `AckedIsSettled` and `PaidIsActivated` except payments that are `repriced`: the amount paid is
compared with the plan's price of today, so an invoice paid at its own amount after a change of the price is answered with 200 and
never activated (`netagent_common/payment_service.py:169`). **PaidIsActivatedAtAnyPrice** is the same promise without the exception,
as the bot's texts make it; it is refuted.

`XrayAgent`: **OneClientPerEmail**, **SuccessIsRunning**, **ImplementsContract** and, for
liveness, **EveryRequestEnds**. The refinement counts a replaced file only once Xray has accepted it; until then the
original of the agent in its critical section counts. That is what makes a failed test invisible to callers.

`TrafficMeter`: **NeverOvercharged** and **NothingMissed** bound a subscription's charge from above, always, and to the
unit, until Xray restarts or a reading falls below the snapshot. **UsedUpIsSuspended** says that the reading that reaches the limit and the suspension are
stored together, and names the one race that undoes the second: a regeneration under way. **SuspendedForCause**
forbids suspensions for traffic that was not there.

`AiQuota`: **NeverOvercounted**, overlapping increments may get lost and never double, nor does one land on the wrong
day. **LimitHoldsAlone**, on a day on which no two messages were counted at once the counter is exact and the limit
holds, whatever failed. With overlap it does not hold: messages that read the same counter are all let
through, so a user who writes fast gets more than the daily limit. **FailedOnEveryRoute**, failure is reported
only after every key over every proxy.

`DbBackup`: **KeepsNewest**, a copy is missing only if `Retention` newer ones are in the folder. The rotation decides on a
listing that may be old when the deletion happens, and so may another rotation's. **DailyCopy** and **ExcessIsDeleted** are
liveness. Both except a daemon whose token has expired: from then on every backup fails until the container is
restarted, which nothing does (`db_backup/yandex_disk.py:137`).

`BotDialog`: **GuideAfterPayment**, two handlers on the way to the guide do not look at the subscription, and the property
shows that the keyboards make up for it. **PaidReachesGuide** is liveness, across restarts; it excepts a user whose key is `refused`.

`NodePicker` and `EntryCleaner`: **LimitUnlessOverlap**, `max_users` holds but for rows that came back after their expiry and rows
whose node was picked while another was on its way there. Both exceptions happen: two creations at once take a last place twice.
**RefusalExplained**, an agent turns away a new key only if its node has a client without an active row (a forgotten one, or one
of an operation that is not finished) or a row beyond the limit. **ShownUnlessLoose**, the link that bot and cabinet show leads to a client
in the file, and there is no other client of this user, whatever is written over what; those to whom the script may have done harm
are those it printed and those with a request during the run, or with a request that failed, and only until their next successful
request. **KeptStay**, in every step, for the
clients the script is told to keep. An agent
that has read before the script wrote puts back what was cleaned; the script undoes an addition made after it has read: neither
is seen by anybody but the users in `loose`.

`Reminders`: **OnceUnlessCut**, a second reminder is sent only after a crash or a failing database between the first and its flag.
**NoneMissed**, a window that closes without its reminder was open when the loop failed at it, or the reminder is in the batch at
work. **RemindedMayRenew** ties two modules together: who is in a batch may pay for that plan, since a longer
subscription of a conflicting product would have closed the one that is reminded of. **ChecksGoOn** is liveness.

The type invariants, and `DeviceOnVpnLine`, `WithinLimit`, `PayableIsRecorded` and the agents' reserved clients, are
not in the runs, as they are proved for all constants (section 4); TLC agreed with each of them on the bounds of the runs.

### Bounds, and why they are enough

* `keys_*`: a site user and a bot user, as they reach different operations; a bot thread and the web process beside
  the job and the monitor, so every pair of actors meets. No operation touches two users' rows, except the batches of
  the job and the monitor, for which two users are the first interesting number. `MaxSubs` = 2 is a plan
  and what replaces or renews it; three uuids allow an original, a replacement and one that gets
  lost. `MaxInFlight` = 2 with faults, 4 in `keys_live`, where one user suffices: the properties are about one
  user's row. `keys_live` has no web user, since only users of the bot keep pressing; there the job's own calls may fail and
  nothing makes its commit fail.
* `keys_*`, `payments` and `quota` switch deadlock checking off: subscriptions, uuids, payment ids or messages run out,
  and there the bounded system stops. The others check deadlock.
* `payments`: two payments are enough for "pending at once", two users for rows that could be mixed up, two prices
  for a change in each direction.
* `agent`: two inbounds on one file; two keys of one user (a replaced uuid), one of another user (the limit of 1), and a
  reserved client with the first user's email. Operations are unbounded: the state space is finite.
* `traffic`: two devices, as a suspension resets the other's counter and a deleted row takes the other's reading with
  it; one of them belongs to a user with a cabinet, so that only its key is regenerated. A limit of two units, so a
  plan can be half used; two units at a time and one renewal between the devices. Polls, restarts, regenerations and
  failures are unbounded.
* `nodes`: two nodes with one place each, so a node can be full and the other not, and a second agent that would take two, so the two
  limits can disagree; two customers in flight at once, which overfill a node; a client of a forgotten customer
  and two the agents reserve, of which the script is told to keep one, on any node each. Operations are unbounded, the script runs once; the theorems cover all numbers.
* `reminders`: one user, as nothing in the loop depends on another but the order in the batch, and three products of the user fill
  a batch. A day of three ticks with `MaxGap` = 2: the loop must come within a day, as the real one does (an hour of sleep
  and the time it sends). A plan of four days begins outside of both windows. `EarlyDays` is 2, not the code's 5: the smallest
  that admits a reminder two days before the end, so the property holds for 5 as well.
* `quota`: three messages at once and a limit of two: two can lose each other's increment at a counter that is not
  zero, and two days put a midnight into each of their steps. Two keys show that a rotation loses none; lists of any
  length are covered by the theorem.

* `dialog`: two tasks, so a late write has another handler before it; presses, texts, payments and restarts are
  unbounded.
* `backups`: three copies and a retention of one, so two copies may be in excess and a rotation may be overtaken; one run by
  hand at a time beside the service; one accepted upload or deletion outstanding. The clock stops, the runs go on and
  overwrite their copy. The theorem covers every retention and any number of runs at once.

### Fairness

* Reminders: the task survives every exception, so it goes on (weak fairness of `Loop`), and time passes (weak fairness of `Tick`).
  The query works again and again, and the bot lives long enough to start it (strong fairness of `Look`). Nothing is assumed
  of Telegram, of the commits, or of users.
* Keys: agent calls end after 60 s and the handler goes on, hence weak fairness of `Proceed`, `EnsureVpnKey(Web, u)` and
  `NoSubscription`. The expiry loop catches every exception and comes back after six hours, hence weak fairness of
  `ExpiryJob`. In `keys_live` commits fail only through conflicts, never for good. `Asking` adds the assumption about
  the user, who presses again and again. Nothing is assumed of the monitor.
* Payments: calls to YooKassa end after 30 s (weak fairness of `Creation` and `WebHook`). YooKassa repeats a hook until
  it gets 200 (strong fairness of `Receive`). Commits that are tried again and again succeed in the end (strong
  fairness of the successful `Fulfill` and `FulfillPayment`).
* Agent: waiting for the lock ends after 10 s and the commands after 20 s, hence weak fairness of `Proceed(t)`.
  A death of the agent is not a matter of fairness: it ends the request.
* Traffic: none, as its properties are safety.

* Backups: the daemon's loop survives every exception and comes back the next evening (weak fairness of its run). What
  fails, dumps and calls, works on some evening (strong fairness of each successful step, and of a deletion), and Yandex
  carries out what it has accepted. Nothing is assumed of runs by hand, of containers that stop, or of a new token.

* Dialog: calls and threads end (weak fairness of `Proceed`). The user presses "I have paid" again and again, and Telegram shows
  the guide at one of these times, if the key is not refused (strong fairness of both). Nothing is assumed to end a refusal.

### Findings

1. **`keys_suspended_again`**: the suspended row keeps the unique `xray_email`, so the insert of the new key fails and the
   key promised by `docs/device-enforcement.md` is taken back (`bot/billing.py:540`).

2. **`payments_repriced`**: the bot shows the sum of an invoice and says that the subscription is activated by itself after the
   payment (`src/bot/messages.py:379-381`, also 292). An invoice that was made before a migration changed the plan's price is paid at
   its own sum, refused by the amount check and never activated (`netagent_common/payment_service.py:169`).

Disagreements with the documents that no run states, as the code does so on every such occasion or the documents leave room:

* Buying an AI plan while a bundle runs closes the bundle and leaves its device active on it, where the expiry job never looks
  (`bot/billing.py:830`): the VPN works on without end. `docs/TZ.md:437` has the client removed from Xray after expiry, as have
  lines 740 and 929. `TakesOverDevice` is the place in the model.
* The same lines against an expiry whose call to the agent fails: the row is closed, the client stays (`bot/billing.py:452-459`).
* `docs/TZ.md:743`, a warning three days ahead: see Reminders. `docs/key-enforcement-guide.md:14`, keys are switched off at the
  limit: see TrafficMeter.

## 4. What is proved

All proofs are for any number of users, workers, uuids, payments, inbounds and clients, any bounds and any set of
faults, but for three theorems: one on keys that states what may fail, two on reminders that exclude durations. They assume only the named `ASSUME`s of the modules: marker values are none of the real ones, bounds are
numbers, site and bot users are disjoint, the set of clients that may be configured and that of messages are
finite, there is an API key and a proxy or the direct connection, nodes are numbered and have limits, customers, forgotten
customers and the administrator have different emails, and an agent's limit is not below that of the database.

**VpnKeysProofs.** `TypeOKCorrect`, `OneActivePerLineCorrect`, `DeviceOnVpnLineCorrect`, `SameKeyCorrect`,
`RetiredKeysStayDeadCorrect`. None of the properties is inductive. The type invariant is split by what a step disturbs
(tables, uuids, workers, jobs). Active subscriptions stay exclusive as all other steps only close rows (`SubsStep`).
For the device's subscription one must know that what a worker remembers is a VPN subscription of its user
(`VpnLineInv`); for the uuid, that a row is deleted only by a regeneration in the web process for a site user
(`CabinetInv`); for dead keys, that nobody who could still register or store a uuid holds a retired one
(`RetiredInv`): a bot thread never works for a site user, and the web process does one thing at a time.

`NoForeignKeyCorrect` carries a condition in its statement: neither an agent's answer is
lost nor a process dies; commits, the expiry job's calls and any overlap are free. By `HoldsStep` a worker that holds a client's uuid
keeps it until it has stored it or taken it back, and by `ForeignStep` every client stays with somebody; that a
uuid shown or restored is still the row's is `LoadedInv`, that nobody brings back a replaced one `RetiredInv`.

`NoOrphanClientCorrect` and `DeliveredKeyCorrect` are about `KeyHistory`, for any overlap and any faults. The invariant says of each user
who is not troubled that one at most is at work on the user's key and that what it loaded is still so (`Calm`, with `WorkOK` for a
worker): a row the job or the monitor has dealt with has no client left, and a client belongs to the active row or to the worker
between agent and commit. Steps for other users, failing or not, leave all this alone because nobody holds a uuid of two users
(`SnapshotInv`, for the jobs' old snapshots; `CalmElsewhere`); a step for the user goes as with a sound agent, or the user is
troubled after it (`SoundCalls`, `CalmWork`, `CalmSweep`, `CalmPoll`). `DeliveredKeyCorrect` adds that of a user's VPN
subscriptions all but the last are closed (`NewestInv`).

`KeyBookCorrect`, for any faults and overlap, is the refinement: the four invariants `TypeInv`, `CabinetInv`, `RetiredInv` and
`LoadedInv` decide for each step which one of the book it is. A creation draws (`BookCreate`); its commit issues a first
key, or, when it has deleted a row, replaces the old uuid, of which `RetiredInv` knows that no client is left (`BookCommit`). What
is shown or restored is the uuid the row still has, by `LoadedInv` (`BookConnect`). What is removed, by an undo, the job or the monitor, from
whatever snapshot, is the client of one user at most (`RemovesOne`, `BookRemove`). All other steps stutter (`BookRest`).

Three theorems join `VpnKeys` to `XrayAgent`. `VpnKeys` has a function from users to uuids where the contract has sets of clients with
emails, so both are read with an `owner` of each uuid (`ClientsFacts`). `AgentAnswers` then says that `AddUser` and `RemoveUser` are
the contract's `Adds` and `Removes` in both directions: no outcome is expected that the contract excludes, and none that it allows is
left out. `AgentCallsCorrect` says of every step of every run that it is such a call or leaves the clients alone, and
`OneHolderCorrect` that a uuid stays with the user it was drawn for, the assumption of `XrayAgent` that an email is a function of the uuid.
TLC agreed with the last two on the bounds of `keys_faults`. Calls that the agent
refuses at its limit are errors like others there; which node has room is the matter of `NodePicker`.

**PaymentsProofs.** `PaymentsTypeCorrect`, `PayableIsRecordedCorrect`, `RowAgreesCorrect`, `LedgerCorrect`,
`AckedIsSettledCorrect`. The invariant says of ids not issued that nothing exists for them (`FreshInv`), of a creation
in progress that nobody else has its id and no row is visible (`CreationInv`), of the hook's steps what they found
(`HookInv`), and relates rows, invoices, links and grants (`RowsInv`): a payment has one grant exactly when its row is
`succeeded`. From this follows that every step is a step of the ledger. `AckedIsSettled` needs a further part
(`SettledInv`): a hook on its way to 200 without activation has found its payment activated, unless the price changed
after the payment was created.

**XrayAgentProofs.** `AgentTypeCorrect`, `OneClientCorrect`, `WithinLimitCorrect`, `SuccessCorrect`, `ContractCorrect`,
`ReservedCorrect`. The invariant: an agent in its critical section is named in the lock file, hence alone; what it will
write, and what it would restore, are one operation away from the file and satisfy email and limit as well; a
file about to be loaded is accepted by Xray; and at the point of success the file is what runs. The refinement goes
action by action under the mapping of section 3.

**TrafficMeterProofs.** `TypeOKCorrect`, `NeverOverchargedCorrect`, `NothingMissedCorrect`, `UsedUpIsSuspendedCorrect`,
`SuspendedForCauseCorrect`. The properties speak of what is stored, but what is stored next lies in the poll, which
may be committed or lost. So the invariant (`MeterInv`) says the same of both meters (`StoredInv`, `PendingInv`): what
is charged and what the next reading would add do not exceed the traffic, and equal it as long as Xray has not been
restarted and no reading fell below the snapshot (`MisreadMeterInv` for such a reading). A renewal takes the poll's meter out of the invariant, since it is no longer the present subscription's.

**AiQuotaProofs.** `TypeOKCorrect`, `NeverOvercountedCorrect`, `LimitHoldsAloneCorrect`, `FailedOnEveryRouteCorrect`. What is
written is what was read, so the invariant bounds every value read by the messages let through (`CountInv`), which only
grow (`AskedStays`, `AskedGrows`); and on a day without overlap there is one message at most that counts, and it has
read the counter as it is (`AloneInv`). For the routes: what was tried and what is left are always all of them
(`RoutesInv`), by lemmas on rotations and on a table read row by row (`RouteOrderRange`).

**DbBackupProofs.** `TypeOKCorrect`, `KeepsNewestCorrect`. What a rotation deletes was selected earlier, so the invariant
counts not the copies in the folder but those there have ever been: `Retention` of them are newer than anything that is
to be deleted (`OldInv`). As the newest copies are never missing, as many are in the folder at the moment of the
deletion (`ObsoleteNow`), which is what `Removal` needs.

**BotProofs.** `DialogTypeCorrect`, `GuideAfterPaymentCorrect`. The guide can be asked for by
buttons on the guide, and it may be on its way in a task, so the invariant says of tasks what the property says of screens
(`PaidInv`). A lemma for the end of a handler (`HandledShows`) and one for each way of writing the state carry all actions.

For the reminders: `RemindersTypeCorrect`, `OnceUnlessCutCorrect`, `NoneMissedCorrect`, `RemindedMayRenewCorrect`. Flags, batch and history
are tied together by `BatchInv` (what is flagged was sent; what is about to be flagged is in the batch) and `SentInv` (what was
sent is flagged, about to be, or cut). `NoneMissed` is about the tick on which a window closes, hours after the look at
which the reminder was due. The invariant therefore looks back: `left + since` is what was left at the last look, and what was in its window
then has been sent, is in the batch, or is spoiled (`SeenInv`). That the window was open at that look follows from `MaxGap` < `Day`. The
theorem needs `PlanDays` # 2: a plan of two days begins on the last tick of its first window and nobody looks before the next, a case
for which TLC has a counterexample and which the 30 days of every plan of the seed exclude. `RemindedMayRenew` needs that conflicting
subscriptions do not run at the same time (`OneRuns`) and `EarlyDays` >= 2, which the code's five are.

**EntryCleanerProofs.** `TypeCorrect`, `KeptCorrect`, `LimitCorrect`, `RefusalCorrect`, `ShownCorrect`, `EffectCorrect`. `Base` holds the types and
that the lock's holder alone is about to write. For `KeptCorrect` all copies of the file (the agent's draft, the
script's new file and its backup) have the clients to be kept where the file has them (`KeptInv`). The limit is not inductive:
a pick counts rows, and the row comes later. So `LimitInv` counts, for each node, the rows within the limit and the rows
on their way there that are not excused: a pick that is not excused finds none on its way. Cardinalities come from lemmas
on finite sets. `RefusalCorrect` needs nothing more: if every client belongs to a row within the limit, the new one fits.
`ShownCorrect` needs `HomeInv`: it says for each user that is not loose where the file, the draft of an agent, and the script's new
file and backup have that user's client, depending on the step the user's operation has reached. `EffectCorrect` ties the short
agent of `NodePicker` to the modelled one: `Changed` is an addition or a removal as `AgentEffects` defines it, and the file a
request writes over is the one it read (`FreshInv`), unless the script ran beside it or the request failed. TLC has a counterexample without the first
exception.

**Model-checked before they were proved.** The type invariants, `DeviceOnVpnLine`,
`PayableIsRecorded`, `WithinLimit` and what `ReservedCorrect` states are in no run. TLC agreed with each of them on the bounds of the
runs above; since they are proved for all bounds, the configurations leave them out.

**Model-checked only.** The liveness properties (`DueIsExpired`, `AskedKeyIsServed`, `PaidIsActivated`,
`EveryRequestEnds`, `DailyCopy`, `ExcessIsDeleted`,
`PaidReachesGuide`, `ChecksGoOn`), because fairness and ENABLED are beyond the prover. Every safety property of a passing run is proved.

## 5. Not modelled

* The web site's pages, sessions, forms and statistics, and the admin's pages: they read, or make one commit that no other part
  depends on. The cabinet's payment and new key are in `Payments` and `VpnKeys`.
* Wording, keyboards' labels and formatting helpers: no state. Seeding and migrations: they run before any service does.
* `scripts/diagnose_vpn_entry.py` and the other read-only scripts.
* `remove_device` and the bot's `regenerate_vpn_key`, which nobody calls; and what `activate_mock_payment`, a test mode,
  does to the tables (`BotDialog` has its dialog).
* Operations of one user that overlap, on several nodes: overlap is in `VpnKeys`, over one node.
* Answers of an agent that are not JSON, whose exception passes the client's own error.
* The admin's reply to a support ticket: one commit, a later reply replaces an earlier one.
* Receipts, texts, and the lookup of a payment from an event without metadata.
* Which online addresses and countries count as sharing, and the fields `last_ip` and `last_seen`.
* A stop of the poll by a device without an agent, which is a matter of configuration.
* Messages to the chat that are blank, which Telegram does not deliver, and what a text says.
* Bodies of HTTP requests and their authentication.

## 6. What could come next

Mock payments as a variant of `Activate` in two steps (two taps in two
threads), should the test mode be offered to users. The number of runs is to stay small: a finding whose code is
repaired becomes a property of a passing run.

## 7. Running

In this directory:

```
tlc -workers 2 -config agent.cfg MCXrayAgent
tlc -workers 2 -config keys_faults.cfg MCKeyHistory
tlc -workers 2 -config nodes.cfg MCEntryCleaner
tlapm VpnKeysProofs.tla
```

`PROJECT.json` names the module of each configuration. Passing runs take between seconds and three minutes.
