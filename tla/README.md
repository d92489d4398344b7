# Patchgrid in TLA+

Patchgrid (`src/`) is a multi-tenant service desk: a NestJS API over Postgres, with Redis and
BullMQ for queues and an S3 bucket for files. This directory holds TLA+ models of the parts of
it where several transactions, jobs or processes meet, the TLC configurations that check them
on small instances, and proofs that the TLAPS proof system checks for every value of the
constants. Paths below are relative to `src/apps/api/src` unless they start with `src/`.

Run `tlc -config MCOutbox_settled.cfg MCOutbox` (or any other `.cfg` with its `MC` module) and
`tlapm OutboxProofs.tla` in this directory. `PROJECT.json` lists every run, the mutants that
show a property can fail, the source lines of every definition, the hazards and the theorems.

## The system's parts

Every part works inside Prisma interactive transactions at READ COMMITTED: what a transaction
reads is committed, what it writes is seen when it commits, a row it wrote or asked for with
`FOR UPDATE` is locked to its end, and a row it merely read may be another one by the time it
writes. Almost every hazard below comes from that last clause, or from a step that cannot be
inside the transaction: a Redis call, a queue, the bucket, a dead process.

| Part (code) | State | Operations | Correct when | Model |
|---|---|---|---|---|
| Outbox relay (`events/relay.ts`, `events/repositories`) | `OutboxEvent`, `EventConsumer` (cursor, failing event, failures, next attempt), advisory locks | append, drain, record a failure, park | no committed event is passed over; each takes effect once per consumer or waits as a dead letter | `Outbox` |
| Dead letters (`events/dead-letters`) | `EventDeadLetter` | list, replay | a letter takes effect once, whoever replays it | `Outbox` |
| Retention (`jobs/maintenance`) | the event table | delete consumed events | never ahead of a cursor or of a letter | `Outbox` (events only) |
| Drain requests (`events/drain-requests.ts`, `drain.processor.ts`, `outbox-listener.ts`, `outbox-sweep.ts`) | a Redis flag and a BullMQ queue per pair | wake, sweep, request, take, follow up | no wake lost, one job in line | `DrainRequests` |
| Tickets (`tickets/tickets.service.ts`, `tickets/domain`) | the ticket row with its version | create, transition, edit, assign | the table is the only way; guards hold when written | `Tickets` |
| Comments (`tickets/comments.service.ts`) | comments, and the ticket's clocks | reply | resumes a waiting ticket and nothing else | `Tickets` (effect on the ticket) |
| Duplicates (`tickets/links.service.ts`) | `DUPLICATE_OF` rows of `TicketLink` | add, remove | a duplicate stands for one survivor, and a survivor for itself | `Links` |
| SLA clocks and scan (`tickets/domain/sla.ts`, `tickets/sweeps/sla-scan.ts`) | timestamps, deadlines and flags of the row | pause, resume, reopen, scan | clocks follow the status; a breach is told once | `Tickets` |
| Auto-close (`tickets/sweeps/auto-close.ts`) | none of its own | sweep | closes what stayed resolved, and only that | `Tickets` |
| Attachments (`attachments`) | the row, two object keys, a quota counter | presign, complete, ingest, remove, sweep | quota is exact, no READY row without its object, no orphan | `Attachments` |
| Quota (`quota`) | `UsageCounter` | consume, release, recount | the counter is the rows it counts | with its users: `Attachments`, `Members` |
| Members, invitations (`memberships`) | `Membership`, `Invitation`, the organization row as a lock | change role or status, remove, invite, revoke, accept | an owner remains, seats are exact | `Members` |
| Picker projection (`memberships/projections`) | a row per person that repeats membership and organization | mirror, reconcile | in the end the rows repeat the source | `Picker` |
| Webhooks (`webhooks`) | deliveries with their claims, the tenant's in-flight slots, the endpoint's circuit, jobs | queue, claim, attempt, record, sweep, replay, turn off and on, remove | one attempt per delivery at a time; the circuit opens and lets one probe through; every delivery ends | `Webhooks` |
| Sessions (`auth/sessions`) | refresh tokens chained by rotation | log in, open, refresh, detect reuse, log out, revoke | an ended session stays ended | `Sessions` |
| Organizations (`orgs/provisioning`, `jobs/purge`) | the deletion request, the status, the tables' rows, the tokens' epoch in Redis | request, cancel, restore, suspend, purge | never half purged; a due one is purged | `Lifecycle` |
| Exports (`exports`) | a row per export, its archive in the bucket | ask, build, expire | one a day, whatever builds it; the archive lapses | `Exports` |
| Inbound mail (`inbound`) | the message's row with its claim, raw copies | deliver, receive, claim, act, sweep | a message acts once and is decided in the end | `Inbound` |
| Reporting (`reporting`) | facts per ticket | consume, reconcile | a fact is its ticket's, but for events not yet read | `Reporting` |
| Idempotency (`common/idempotency`) | a key in Redis | claim, answer, repeat | one entity for all who claimed the key | `Idempotency` |
| Live stream (`notifications/live`, `common/http/sse.ts`, `src/apps/app/lib/live.ts`) | a channel's listeners, streams, tabs with their last id | publish, open, replay, end, reconnect, refetch | an open tab misses nothing unnoticed; every tab catches up | `Stream` |

How they meet: a handler that changes anything appends an event in its own transaction; the
commit notifies the listener, which asks for drains; a drain runs a consumer's handler
(notifications, webhooks, reporting) inside the transaction that moves the cursor. Sweeps are
fanned out per tenant every minute, hour or night by the job dispatcher. Quota counters are
rows moved inside the transactions that add or remove what they count. `DrainRequests` and
`Outbox` are the two halves of one mechanism: the first says when a drain runs and abstracts
the log to three counts, the second says what it does to the log and starts drains freely.
`Reporting` and `Stream` begin where `Outbox` ends: at the events a drain hands to a consumer,
and at what the consumer does once that has committed. `Webhooks`, `Exports` and `Inbound` are
each a row and a job beside it that may be lost, late or doubled, with a sweep that makes up
for it. `Members`, `Picker` and `Lifecycle` meet in the organization's row and its lock.

What is hard here: ids that are assigned in one order and commit in another, a lock that is
tried and not waited for, failures recorded after the transaction that failed, a flag set
before a job is added and cleared before it runs, patches computed from unlocked reads, objects
and rows that cannot change together, counters that several unlocked reads feed, claims that lapse
under whoever holds them, and messages nobody was subscribed to.
`PROJECT.json` lists each at its line under `hazards`.

## The modules

**`Outbox`** (ADR 0049) is one workspace's log. `BeginWrite`, `Append`, `Commit` and `Abort` are
any transaction of the application: an event is its place `<<txn, n>>`, the transaction id that
`pg_current_xact_id` gave and the rank of its time-ordered uuid. `BelowHorizon` is the read's
`txn < pg_snapshot_xmin(...)`. A drain (`StartDrain`, `Read`, `NothingToDo`, `Park`, `Handled`,
`BatchFailed`, `EventFailed`, `RecordFailure`, `RecordNothing`) is the loop of `relay.ts`, one
action per transaction and one for a transaction's two ends, so that a drain can die
(`DrainDies`) before, inside and between them. The failure is recorded in a transaction that
does not hold the lock, as in the code. A replay locks its letter, tries the advisory lock, runs
the handler and commits; `Retire` deletes an event every consumer has passed. `applied`,
`published` and `blamed` are history variables.

**`OutboxLog`** says what that amounts to without transactions, cursors or locks: events
appear behind everybody, a consumer handles the next ones or gives up on the next one, and a
dead letter takes effect once. `Outbox` implements it by the mapping `log <- published,
effects <- applied, parked <- dead letters not replayed` (`KeepsItsPromise`).

**`DrainRequests`** is who asks for a drain: listeners, the sweep and the drains themselves all
run `request` (`SetsFlag`, `FindsFlag`, `Adds`, and its failures `AddFails`, `RequestLost`);
workers take a job, clear the flag (`Started`) and read, come back or throw.

**`Tickets`** is one ticket and everything that writes it. The three transition tables are
records of the code's rows. A request is two steps, `Loads` (the read and the decision) and
`Write` (the versioned update, or 409), because nothing locks the row in between; a reply's
write names no version, as in `comments.service.ts`. The auto-close sweep and the SLA scan are
two steps each as well. The four edges of `sla.ts` (`OnResponded`, `OnPause`, `OnResume`,
`OnReopen`) are the patches they are in the code.

**`Links`** is the duplicates of one workspace. An add locks the two tickets it names (`Locks`),
looks at the duplicate (`Checks`), follows the other to its survivor a row at a time (`Hops`,
`Arrives`), inserts, which waits for the survivor's lock because of the foreign key (`Inserts`),
and commits; `Removes` locks no ticket. `loose` is a history variable: the rows whose survivor
lost its last duplicate between the following and the commit.

**`Attachments`** is rows, objects in the bucket and one quota counter, with a step for every
call to the database or the bucket, and a mishap (a death, a refused delete) between any two.

**`Members`** is members, invitations and the seat counter. A change locks the organization
when it begins; an acceptance burns its invitation and asks for the organization only when it
commits, when its foreign keys do; whoever moves the counter holds its row until it commits.
The nightly recount is two steps under the counter's lock. `RollsBack` is any failure,
Postgres ending one of two deadlocked transactions included. Two acceptances by one person
overlap freely; `overruled` is a history variable: what an acceptance that read its person
removed wrote over (a seat already held, the last owner).

**`Picker`** makes every change of a membership one action, since it holds the organization's
lock from its read to its commit. An acceptance reads the organization first (`Resolves`) and
joins later; the reconcile is its three reads and its write (`ReadsRows`, `ReadsName`,
`ReadsMembers`, `Writes`). `late` are the rows that a change which waited for the reconcile
cannot see.

**`Webhooks`** is one endpoint. An attempt claims its row (`Claim`), decides (`Skip`, `GivesUp`,
`EndpointIsOff`, `WaitsForCircuit`, `TakesProbe`, `LosesProbe`), sends outside any transaction
and records (`Record`). Jobs may run late, early, twice or never; claims and slots lapse by
`Tick`; a worker may die (`Die`) or stall, and be slower than its claim, which `Tick` lets it be
as often as `MaxTurns` allows. Its delivery is then claimed again, and it records over whatever
it finds, as the code's update does; `overtaken`, a history variable, marks the attempts this
was done to. A stalled attempt keeps its place among `Slots`, although the tenant's lease on it
has expired: `Slots` bounds the attempts in flight.

**`Sessions`** is the tokens of one person. A refresh presents a token, is judged and rotates in
steps of their own, and nothing keeps another request, a logout or an end of the session from
coming in between; a presented token that was rotated already revokes its chain, one token at
a time (`WalkReads`, `WalkRevokes`). `escaped` is a history variable: the sessions with a token
that a rotation made of one replaced, ended or about to be revoked by then (`Escapes`). **`Idempotency`** is one key: claim, run, store the answer,
with Redis failing and processes dying in between.

**`Lifecycle`** is one workspace's deletion: requests in steps (`Ask` and `Bump`, `ChangesBack`,
`ComesBack`, `Clear`), suspension and erasure, and the purge (`Starts`, `Deletes`, `Tombstone`),
which may die and is then run again.

**`Exports`** and **`Inbound`** are rows, jobs that are given out again when their worker dies or
falls silent, objects and sweeps. **`Reporting`** is the consumer and the reconcile, which take
one advisory lock (`Holds`) and read the tickets before they write the facts.

**`Stream`** is one member and one API process. The consumer commits a row (`Writes`) and then
publishes it (`Publishes`, `PublishFails`). Streams share the channel's entry and join it while
its SUBSCRIBE is under way (`Opens`, `Answers`, `Fails`), read the replay and go live
(`SendsMissed`, `GoesLive`), end (`Ends`), and unsubscribe when they were the last
(`Unsubscribes`). A tab reads what was sent to it, breaks off, connects again with or without
the last id it has seen, and reads the inbox. Whatever Redis loses is `PublishFails`; frames
that carry no id are left out.

**`MCPortal`** (`Attachments` and `Stream`), **`MCRaces`** and **`MCServices`** give TLC one instance for
several components each: `focus` says which one a behaviour is about, the others stand still,
and fairness is each component's own, about its own behaviours. `MCRaces` shares model values
between them, so that one symmetry serves all. `MCServices` shares fairness conjuncts, which is
no stronger than each component's own, as only one disjunct of each belongs to the component
that moves.

## What the runs check

| Run | Question | Instance |
|---|---|---|
| `outbox_settled` | Two consumers, two drains, two replays, the writers, a poison event and retention: is anything passed over, read twice, parked early or deleted while needed? Does the log keep `OutboxLog`'s promise, and does every event end handled or parked? | 2 transactions of 1 event, batches of 2, 2 failures to park, 1 hiccup, fairness |
| `drain_live` | Has every committed event somebody who will read it, and is there one waiting job? Does a refused call, a death, a lost connection or a lapsed flag ever leave an event unread? | a listener, a sweep, 2 workers, 1 event, 4 jobs, 1 throw, 1 mishap, fairness |
| `requests_race` | Members (owners, seats), sessions, an idempotency key, webhook attempts and their circuit, reporting facts, duplicates: do requests and workers that race for the same rows leave them right? | 3 transactions, 2 seats, 3 people, to the loss of the last owner (`Governed`); 4 tokens, 2 refreshes; 4 requests with one key, 2 outages; 2 deliveries in 2 slots; 2 tickets of 2 versions; 4 tickets and 2 requests that link them |
| `services_work` | Purge, webhooks, picker, exports and inbound mail: is anything half done, and does everything come to its end? | 2 requests, 2 purges; 2 deliveries; 2 people; 2 exports; 3 copies of a mail; 1 or 2 failures each, fairness |
| `tickets_work` | Through any sequence of moves, edits and replies by three people, two at a time: does every move of an incident, problem or change go by the table at the moment it is written? Are an incident's clocks the status's and its deadlines the formula's? Has the status its grounds (root cause, workaround, the approved plan), and a waiting change a decider? | 5 versions, 2 instants, 2 priorities; a problem or change keeps its priority and waits only once resolved (`Bounded`) |
| `tickets_clocks` | Two overlapping scans, the sweep and policy edits: is a breach told once, and is an overdue clock flagged and an expired ticket closed in the end? | 3 minutes, fairness |
| `portal_work` | Uploads, completions, deletions, mail files and the sweep race for one unit of quota: is it exact, does a READY row keep its object, is an object orphaned, is every upload settled? And once a notification is committed: does an open tab miss it unnoticed, and does every tab show it in the end? | 2 uploads, 2 handlers, 2 mishaps; 2 notes, a tab, 2 streams, 2 outages; fairness |
| `attachments_double` | *(violation)* "never a row pointing at nothing" | 2 completions of one upload |
| `tickets_cancelled` | *(violation)* "`CANCELLED` is terminal" | a reply that races a cancel |
| `tickets_target` | *(violation)* "Open tickets keep the targets they were created under" | a policy edit during a pause |
| `stream_gap` | *(violation)* "so nothing lands in the gap" | a tab that reconnects with its last id |
| `sessions_outlives` | *(violation)* "Ends every session of a user" | a refresh that races the end; 4 tokens |

### What the five violations show

* `attachments_double`: two requests complete one upload at once. Both read PENDING and copy;
  one marks the row READY, the other finds no PENDING row, takes that for the sweep's doing
  (`attachments.service.ts:150`) and removes the object the READY row points at.
* `tickets_cancelled`: the requester's reply reads a PENDING ticket, an agent cancels it, and the
  reply writes IN_PROGRESS, since `CommentsService.addAs` updates without a version. The same
  write can put back a deadline that an edit has just moved.
* `tickets_target`: resume and reopen compute the new deadline from the policy of that moment, so
  an edited policy retargets every ticket that pauses afterwards.
* `stream_gap`: a reconnecting stream reads its replay, a notification commits and is published,
  and only then does the response begin. The bus hands the message to a `Subject` nobody has
  subscribed to yet (`notification-stream.service.ts:70`), so it is neither replayed nor sent.
  The tab reads the inbox on opening, and so `NothingGoesUnnoticed` holds; the frame, with its
  toast and its mark, is lost.
* `sessions_outlives`: a refresh reads its token alive, every session of the person is ended
  (`auth/sessions/session.service.ts:161`), and the refresh, which looks at the workspace and the
  membership but not at the token again, rotates it (`:261`,
  `platform/repositories/refresh-token.repository.ts:57`). The new token is of a session that was
  ended, and alive. A walk down a reused chain is escaped from in the same way; and two refreshes
  that rotate one token leave a chain of two ends, of which `replacedById` names one.

The passing runs keep these apart by a constant or a history variable rather than hide them:
`ReplyRaces = FALSE` lets no reply overlap another write in `Tickets`, `doubled` marks an upload
that two requests were completing at once in `Attachments` (`KeepsItsObject`), and `escaped` a
session as above in `Sessions` (`EndedForGood`), of whose requests any number overlap.

Two more history variables name exceptions that a property makes where the code does overwrite
what it did not read:

* `overruled` in `Members`. Two pending invitations of one removed member accepted at once take
  two seats (`memberships/acceptance/invitation-acceptance.service.ts:158` locks the invitation
  only): the counter is above the seats held until the nightly recount, and `SeatsAreExact` says
  so. The later one also reactivates the row as it was invited, whatever it is by now: if the
  first made its person a member and somebody made that member the last owner meanwhile, no owner
  is left (`AnOwnerRemains`).
* `overtaken` in `Webhooks`. An attempt slower than its claim records its outcome on a row that
  another attempt has claimed, or ended, since `recordAttempt` names the delivery only
  (`webhooks/repositories/webhook.repository.ts:190`). `AttemptOwnsItsDelivery` speaks of attempts
  within their claim, and not of those this happened to.

Noted while modelling, without a run of its own:

* The picker's reconcile writes its plan over whatever has changed since it read
  (`memberships/projections/projection-reconcile.ts:38-40` says otherwise): an older state can
  stand over a newer one until the next night. `PickerSettles` asks for the end only.
* An idempotency key fails open (`common/idempotency/idempotency.ts:25-28`): when Redis refuses
  the claim the request runs without it, and two entities can result. `OneEntityPerClaim` is
  about those that claimed.
* The bump of the tokens' epoch after a deletion request can come after a cancel has cleared it
  (`orgs/provisioning/org-deletion.service.ts:78`, `:109`): the API tokens of a live workspace
  are then refused.
* A build that fails removes the archive its twin has finished (`exports/export-builder.ts:155`),
  which leaves a READY export without one; a QUEUED export whose job is lost stays QUEUED.
* A client that leaves while its stream is being opened is not noticed, since the response's
  `close` is listened to only afterwards (`common/http/sse.ts:48`): the stream stays until a
  write or its lifetime ends it.
* A drain that throws goes back to the queue by BullMQ's retry, beside the job a wake has added
  meanwhile, so two drains of one pair can wait (`OneWaitingDrain` says `throws = 0` where
  `drain-requests.ts:18` does not).
* A link that is removed while another request has followed it lets that request's row point at
  a ticket that nothing holds any longer, and that may become a duplicate itself: A follows S1's
  link to S2, the link is removed, S2 is marked a duplicate of S3, and A's row still says S2
  (`tickets/links.service.ts:108`), although `src/docs/DOMAIN.md:28` and
  `link.repository.ts:99` rule chains out. No cycle was found. `NoChains` makes an exception
  of such rows.
* `flagSla` looks at the clock again but not at the status or the deadline, so a ticket
  cancelled or rescheduled between the scan's read and its write is flagged.
* Who is agent, lead, admin or owner stays as it is in `Tickets`: `DecisionIsPossible` does not
  speak of a decider who is demoted or removed while the change waits.

### Bounds

The bounds are the smallest at which every action fires and every race the properties speak of
can happen, and the mutants (one per property, all caught under the run's own bounds) are the
evidence that they are large enough. Two transactions are enough for an id taken before and
committed after a reader's batch; two failures to park tell a first failure from the last; four
jobs for every follow-up of `drain_live` to find a free id (with three the bound itself blocks
`Adds`, which liveness notices); five versions take an incident through wait, resume, resolve
and reopen with a racing edit; two seats for three people make the limit bind; two
deliveries and a threshold of two open the circuit under an attempt in flight; two streams with
a cap of one make the newer end the older; a forged copy of a mail meets the claim of a good one. Symmetry is used
in safety runs only, over workers, requests, tokens, tickets, deliveries,
invitations people other than the founder, and the tickets that are linked.
Time is minutes in `Tickets`, three ages in `Attachments`, a flag in the outbox, units of 30 s
in `Webhooks` and half days in `Exports`; the code
compares instants only with deadlines, so nothing finer is told apart. Deadlock checking is off:
every bounded instance ends when its ids, versions or minutes are used up.

### Fairness

* `Outbox`: Postgres or Prisma's timeout ends every transaction; a drain that started goes on;
  the minute sweep and the first-in-first-out queue start a drain of every consumer again and
  again (strong fairness of `StartDrain` per consumer); backoffs pass. Strong fairness of a
  drain's single-event `Read` and of `RecordFailure` says that a drain is not beaten to the lock
  for ever in the instant between two of its own transactions: others refused the lock stay away
  for `RETRY_SOON_MS` (`drain.processor.ts:16`).
* `DrainRequests`: running processes go on, BullMQ gives jobs out, the sweep comes round, the
  horizon lifts, a backoff ends, the flag of a request that left nothing behind lapses after its
  60 s (`PENDING_TTL_MS`), the listener reconnects. Commits and misfortunes are nobody's duty.
* `Tickets`: time passes, an open transaction ends, both sweeps come round; no person must act.
* `Attachments`: ages pass, handlers go on, and the hourly sweep takes an upload it finds again
  and again.
* `Webhooks`: time passes, the sweep comes round, a job in the queue runs, an attempt that was
  made is recorded. `Picker`: the reconcile reads every night, and it is not rolled back every
  time (strong fairness of `Writes`). `Lifecycle`: time passes, requests and purges go on.
  `Exports`, `Inbound`: time passes, the sweep comes round, a job takes its next step. None of
  them obliges a person or a fault.
* `Stream`: Redis answers, the consumer publishes what it has committed, a stream that opens
  goes on, every stream ends (its lifetime is 30 minutes at most), and a tab connects again,
  reads what it was sent and reads the inbox. Outages are bounded, so that one reconnect is the
  last to fail.

## What is proved

For every value of the constants (as many consumers, drains, requests, people, events and
versions of bounds as one likes), from the named assumption of each module:

* `OutboxProofs`: `Spec => []IndInv`, and from it `TypeOK`, `NoSkippedEvent`, `BatchIsNext`,
  `FailingIsNext`, `NothingLost`, `ParkedAfterMaxFailures`, and `Implements`:
  `Spec => KeepsItsPromise`. None of the properties is inductive alone. `IndInv` adds that unfinished transactions are younger than
  what they could skip (`LogInOrder`), that cursors stay below the horizon and everything
  settled behind them (`CursorInOrder`), that the advisory lock is held exactly by whoever runs
  a handler (`LocksHeld`), that what a handler holds is below the horizon to its last event
  (`BatchInOrder`), that whatever committed before the event about to be blamed is settled
  (`BlameInOrder`), and bookkeeping (`LettersInOrder`, `BudgetInOrder`). The heart is the
  horizon: ids only grow, so an event below the oldest running transaction can get no new
  predecessor. `ParkedAfterMaxFailures` takes a second
  invariant, `BlameIsCounted`: what the row holds against an event, and the drains about to add
  to it, are no more than the failures it had; it counts drains, so they must be finitely many.
  The refinement proof maps a drain's commit to `Handle`, a parked event to
  `GiveUp`, a committed replay to `Replay`, a writer's commit to `Publish`, all else to a stutter.
* `DrainRequestsProofs`: `NoLostWake` and `OneWaitingDrain`, by `FlagIsOwned` (a set flag has a
  job or somebody about to add one), `OneOwner` (just one, as long as nothing threw) and
  `WorkersInOrder`.
* `PortalProofs`, of the two components of `MCPortal`:
  * `Attachments`: `TypeOK`, `QuotaIsExact`, `KeepsItsObject`, `NoOrphan` and the action
    property `PaidWhileWritable`. What it takes: a handler that works has its upload
    (`BusyHaveUploads`), a completion that nobody doubled is alone and has its object from the
    copy on (`CompletionsInOrder`), an object is removed only after its row (`RemovalsInOrder`),
    and a mail file's key is one handler's until its row is written (`IngestsInOrder`).
  * `Stream`: `NothingGoesUnnoticed`. A stream that is being opened or is live is a listener of
    the channel's entry (`SharedEntry`), and the last command on its way to Redis, or the
    subscription itself, is that entry's (`CommandsInOrder`); hence whatever is published reaches
    every live stream. An open tab has a live stream, or the end of one on its line and nothing
    after it (`TabsOfStreams`, `StreamsOfTabs`, `EndComesLast`), and no stream is twice in the
    list that the cap is counted in (`EachOnce`). Lemmas say what a line and a list hold after a frame
    is added, taken from the front, or an entry is removed in the middle.
* `RacesProofs`, of the components of `MCRaces`, and of their composition where the run checks a
  property under the composition's own name:
  * `Members`: `TypeOK`, `AnOwnerRemains`, `SeatsAreExact`. The key is `ReadsStillHold`: what a
    change read of a member is still so when it commits, because it has the organization to
    itself and an acceptance commits only when it is free; of an acceptance only that it read
    nobody or a removed member, and what it then writes over is `overruled`. `CounterInOrder`
    carries the limit and the recount, `LeavesAnOwner` the last-owner check, from the check to
    the commit.
  * `Idempotency`: `OneEntityPerClaim`. A key that was claimed and not let go of is not free, so
    its holder is alone (`KeyIsHeld`), and what each caller has done follows from where it is
    (`CallersInOrder`).
  * `Webhooks`: `AttemptOwnsItsDelivery` and `CircuitHolds`. The argument is time: claiming a row
    makes it not due for a lease, and an attempt ages with the lease, so that the row waits for
    as long as the attempt is within its claim (`RowsWait`) and a twin finds nothing to claim
    (`NoTwins`), until an attempt older than its claim writes. A probe pushes the circuit's
    opening on in the same way (`OneProbe`).
  * `Reporting`: `FactsKeepUp`. What a refresher has read is its ticket's row, or an event has
    come since that is none of its batch (`ReadsAreRecent`), since the lock keeps refreshers apart
    (`RefreshersAlone`) and no event and no fact is ahead of its ticket (`NothingAhead`).
  * `NoChains` and `EndedForGood`, with the exceptions these state (`loose`, `escaped`), carry
    the results of `LinksProofs` and `SessionsProofs` over to the composition, whose steps are a
    step of one component and a stutter of the others (`StepOfEach`).
* `ServicesProofs`, of the components of `MCServices`:
  * `Lifecycle`: `TypeOK` and `NothingIsHalfPurged`. A purge at work finds a workspace past
    its grace that stays so (`PurgeIsDue`), because whoever checked that the window is open is one
    unit of time past it at most (`CheckHolds`); so only such a workspace has lost anything
    (`WholeUntilDue`). `WindowAssumption` makes the grace one such unit or more, as an hour is
    against an HTTP request.
  * `Exports`: `OneExportADay`, which is inductive with the types and `BuildersInOrder`: a row
    starts to count only when none younger than the cooldown does, and one that failed does
    not come back (`Moves`).
  * `Inbound`: `ActsOnce`, which is inductive with the types and `AttemptsInOrder`: what is made
    and the row that says so are one transaction, whose update names a message not yet acted on.
  * `Picker`: its types (`PickerTypes`), with no more names than changes. Its property is that the
    rows settle, which is liveness.
* `TicketsProofs`: `StatusHasItsGrounds`, `DecisionIsPossible`,
  `BreachIsToldOnce`, and, when no reply overlaps another request (`~ReplyRaces`),
  `MovesByTheTable`, `ClocksFollowStatus` and `PendingIsAnswered`. The argument is the version:
  a handler whose version is still the row's has decided on the row it is about to write, flags
  aside, so what the table asked of it holds still (`RequestInOrder`); any other writes nothing.
  A reply names no version, hence the condition. Lemmas say what each of the three tables moves
  and what its patches set (`IncidentMoves`, `ProblemMoves`, `ChangeMoves`, `EffectsFields`).
  `DeadlinesAreTheFormula` takes a second invariant, `DeadlineInv`: the row, and the row that each
  handler still able to write would leave, have the formula's deadlines, because every patch
  leaves the formula's terms alone (`Untimed`) or sets the deadline with them (`Retimed`). It is
  proved, as it is checked, under a policy that stays the one agreed on (`Policies = {Agreed}`):
  `SlaPoliciesService.update` retargets no ticket, so another policy's deadlines are no error.

* `SessionsProofs`: `TypeOK` and `EndedForGood`, for chains of any length and any number of
  requests on one session. A chain from which no rotation escaped has one token that nothing has
  replaced (`OneTip`), every other token of it is dead (`ChainsInOrder`), and a walk about to go
  on knows what replaced the token it holds (`RequestsInOrder`); so a walk that comes to a token
  without a successor has come to the end of the chain.

* `LinksProofs`: `TypeOK` and `NoChains`. Row locks keep two requests off one duplicate
  (`LocksApart`), so what was found of it stays true until the commit (`StillFree`); a survivor
  that was named is locked and stays one (`TipHeld`), and one that was followed to is kept one by
  the row that led there, as a ticket with duplicates cannot be marked. Hence the exception: when
  that row goes, nothing keeps it.

Every invariant and every action property that a passing run checks is stated by a theorem above.
The assumptions say of the constants that counts are natural numbers, that what is counted is
finite, that somebody founded the workspace, that "nobody" and "none" are no member of what they
stand beside, and of times what the code's constants satisfy: a circuit is open for no less
than a lease (`RacesAssumption`), and `WindowAssumption` above.

Only model-checked: the liveness properties, as the prover has neither ENABLED nor fairness here.
What a recursive definition computes for every input is out of its reach too; no module has one.

## What is not modelled

The console and the web site, contracts, deployment, telemetry, throttling, mail and audit are
I/O, types or append-only writes. Row-level security is a database policy on every query, and
permissions a pure matrix; both are assumed by every module (each works inside one tenant, and
`Tickets` keeps of the matrix only what its table asks). Credentials and SSO are protocols of
libraries. Of the parts that are modelled: ticket numbers, links other than duplicates, watchers, assets and free
text; comment edits; joins by domain and SSO, service accounts; access tokens
and their epochs; the expiry of an idempotency key; an operator's release of a refused mail;
who is notified, and mail; storage
metadata; the other tables retention trims. `PROJECT.json` gives the reason for each component.

## Plan

Every part of the table above is modelled. What is left, in this order:

1. `Members` with domain joins, service accounts and erasure.
2. Bulk actions, as requests over several tickets.
3. `Stream` over two API processes, and with the frames that carry no id.
4. Of the proofs: the refinement of what each component promises by an abstract specification of
   its own, as `OutboxLog` is for the outbox.
