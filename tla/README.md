# CamFlow API: TLA+ models and proofs

CamFlow API (`src/`, TypeScript, NestJS) is the backend of an offline-first photo
documentation app. Clients keep a local database, push their mutations in
batches, pull what changed by a cursor, upload photos and videos that workers
process, and hold a session by rotating refresh tokens. Everything shared lives in
Postgres; Redis holds idempotency records and the job queues (BullMQ); objects
live in a store. The API runs as any number of replicas.

What makes the system hard is the same everywhere in it: a handler is
JavaScript that runs until its next `await`, and between two awaits of one
request any other request, replica, worker or scheduled job may run. Each SQL statement
commits by itself. Three handlers open a transaction (an organization with its owner,
an invitation with its assignments, a removal with its), and none of them reads in
it: what a handler has read may be out of date when it writes.

The modules here model that: a request is a process whose steps end at the
next awaited call (`pc` names the call it awaits), the database tables are shared
variables, and every statement is one atomic step.

## Components

| part | code | state | modelled in |
|---|---|---|---|
| sync push | `sync/sync.service.ts` 50-348 | entity rows, `row_version_seq`, `sync:idem:*` in Redis, the request's locals | `SyncPush` |
| sync pull | `sync/sync.service.ts` 369-442 | rows and versions (read), the client's cursor and copies | `SyncPull` |
| entity registry | `sync/entities.ts` | none: which entities are pushed, under which policy | `Permissions` (policies), columns abstracted |
| roles and permissions | `organizations/permissions.ts` | none: a table | `Permissions` |
| refresh tokens | `auth/token.service.ts` | `refresh_tokens` | `TokenService` |
| accounts, sign-in | `auth/auth.service.ts` | `accounts` | the start of a session in `TokenService`; the rest is not modelled |
| retention | `cleanup/cleanup.service.ts` | deletes old rows | its window in `Retention`; its races in `SyncPush` (`Prune`) and `PushDelivery` (`Forget`); the purge of tokens in `TokenService` |
| organizations, members, invites | `organizations/`, `invites/` | `organizations`, `org_members`, `project_members` | `Membership`; role changes beside push in `SyncPush` |
| plans, billing | `organizations/plan.ts`, `organizations.service.ts` 90-137 | the plan and stamp columns of `organizations` | `Plans`, `Organizations` |
| guards | `common/guards/` | none; read the membership first | `Membership` |
| notifications | `notifications/notification.service.ts` | `app_notifications` | recipients and counts in `SyncPush`; the row and its job in `PushDelivery` |
| push devices, APNs | `push/` | `push_devices`, jobs in Redis | `PushDelivery` |
| media ingestion | `media/media.service.ts` | `photos` columns, raw objects | `MediaPipeline` |
| media worker, its queue | `media/media-process.worker.ts`, `queue/queue.module.ts` | the same, derivatives, jobs in Redis | `MediaPipeline` |
| realtime signals | `realtime/` | connections | no: lossy hints to pull. A device of `SyncPull` may pull at any time, which covers a lost or late signal |
| storage drivers | `storage/` | objects | put, get and delete of `MediaPipeline` |
| config, health, filters, image processing, seed | `common/`, `health/`, `database/seed.ts` | | no: I/O and wiring |

How they interact. `push` writes rows that `pull` reads, through
`row_version` alone: pull returns rows with a version above the client's cursor.
`push` reads memberships that the organization endpoints change, writes
notifications, whose jobs `PushSendWorker` sends to the devices of the member's
account, and sends signals. The nightly cleanup deletes tombstones
under both, and must not do so before every device has pulled them. The media worker writes photo rows with new versions beside push.
Sessions are independent of all this: the access token is checked without the
database.

What is hard, and what makes each part correct:

- **push**: overlapping requests on a row between SELECT and UPDATE; a retry of a
  mutation that is still running or whose record was lost; failures and crashes
  between the write, the notifications and the record; memberships cached
  per batch; pruning between a read and a write. Correct means: last writer wins,
  a version names one state of a row, a mutation takes effect once, nobody
  writes what his role or his organization does not allow.
- **pull**: versions drawn in one order and committed in another; tables read one by
  one; pages cut per table and again after the merge. Correct means: the
  cursor never passes a change the client does not get, and the client catches up.
- **tokens**: two rotations of one token; revocation against rotation; a lost
  answer. Correct means: one usable token per session, revoked sessions stay
  dead, honest clients stay signed in.
- **media**: uploads and commits while a job runs; duplicate jobs of one photo that
  store derivatives over each other; a crash between row and queue, or between row
  and object store; pushes of metadata beside it all. Correct means: what was
  committed is kept or processed, what is shown as done is whole, the watermark bears the
  row's stamp, no edit is lost to the pipeline, no photo is stuck.
- **membership**: two redemptions of one code, two issues of one invite, a role change
  or a removal against all that has passed its guards. Correct means: exactly one owner,
  one membership per account and organization, a code that was handed out opens its
  member's row, and nobody does what his role does not allow.
- **billing**: overlapping subscriptions, plan changes, the last tick of a trial. Correct
  means: who paid is never locked out, and a trial runs once, as long as it says.
- **push delivery**: a phone that changes hands, whose sign-in or sign-out reaches the server
  late or never, or that comes back while a job is at work; dead tokens; a job that starts over.
  Correct means: a notification is shown to
  its recipient only, on every phone he has, and a signed-in phone stays registered.
- **retention**: tombstones dated by the clients' clocks, devices that were offline, late
  changes, pushes that overlap, cursors that pass a change. Correct means: every device in use sees a delete, and a delete stands.

## Modules

- `Permissions` — the role table, and each entity's push policy. Pure.
- `LwwRegister` — abstract: one last-writer-wins register per row, and the
  promises made in answers. A mutation takes effect over a strictly older value only.
- `Session` — abstract: a session with at most one usable token, which is exchanged
  for a fresh one, closed, or wasted.
- `Roster` — abstract: organizations, members and invites, each call one step on the rows as
  they are when it takes effect.
- `SyncPush` — the whole of `push` .. `fanOut`, with the environment: `Fail` (an
  awaited call throws), `Crash`, `Expire` (of a record), `RoleChange`, `Prune`. A write is
  two steps: its version is drawn, and later it commits.
- `SyncPull` — writers that `Draw` a version and later `Commit`, and devices that
  pull table by table.
- `TokenService` — `issue`, `rotate`, `signOut`, `revokeFamily`, the purge.
- `MediaPipeline` — upload, `commit`, `stampVerification`, `reprocess`, the worker's
  `process` and the queue's retries, for one photo.
- `Membership` — `create`, `softDelete`, `invite`, `update`, `setRole`, `remove`, `issue`,
  `redeem`, each behind its guards, over `Permissions`.
- `Plans` — the derivations of `plan.ts`. Pure.
- `Organizations` — the trial, the plan and the subscription of an organization under the clock.
- `PushDelivery` — sign-ins and sign-outs with their late calls, the create of a notification
  and its job.
- `Retention` — tombstones and their cutoff, against devices with clocks of their own and
  pushes that are under way.
- `MC...` — constants and symmetries for TLC.
- `SyncPushProofs`, `SyncPullProofs`, `TokenServiceProofs`, `MediaPipelineProofs`, `MembershipProofs`,
  `OrganizationsProofs`, `PushDeliveryProofs`, `RetentionProofs` — the inductive invariants and the theorems.

Operators whose comment says *mutant* (`StaleIfNewer`, `MarkNothing`, ...) are wrong versions of
the definition after them. They are used by nothing: putting one in the place of its
original shows that a property notices that mistake.

### SyncPush

| action | code |
|---|---|
| `Send` | a request arrives; `push` starts its loop with an empty `membershipCache` |
| `UnknownEntity`, `Replay`, `FirstSeen` | the registry lookup and `redis.get` of the key |
| `ResolveMembership`, `NotMember` | `resolveMembership`, a cached null included |
| `ReadForeign`, `ReadStale`, `ReadFresh` | the SELECT by id, `orgMismatch`, the LWW test |
| `Enforce`, `Deny` | `enforce`: role, policy, operation, assignee |
| `BeginWrite` | the statement of `write` has its row and draws `nextRowVersion` |
| `CommitTombstone`, `CommitUpdate`, `CommitInsert` | it commits: the row is seen |
| `DeleteNothing` | a delete of what is not there |
| `WriteGone`, `WriteRefused` | an UPDATE that matches nothing; a key that refuses the statement, which spends a version |
| `FanOut` | notifications, best-effort: any subset of the recipients is reached |
| `Remember` | `redis.set` and the entry in `results` |
| `Fail`, `Crash` | an awaited call throws and the mutation is answered `rejected`; the process dies |

`rows[i]` is the row: its organization, the payload last written (named by its
mutation), `updatedAt`, `deletedAt`, `row_version`. `Locked` and `Held` are the row locks of
a statement under way; other versions may be drawn and committed between its two ends. A mutation stands for one
idempotency key. Payload fields the code branches on are kept: assignee, parent,
`deletedAt`, and the mentions as the sequence they come in: `taskComment` collects its
recipients in a map, `photoComment` does not (`Due`). A tombstone is pruned at any time, because its `deletedAt`
is the client's clock; children go with it by ON DELETE CASCADE. `disturbed` is the
history variable that the properties of overlapping requests exempt: rows overwritten by a request that had
read another row, or removed by retention.

### SyncPull

`Draw` and `Commit` are the two ends of one writing statement: `nextval` runs
inside it and is not transactional. A statement holds its row's lock, so one
row's versions grow. `ReadTable` is one turn of the loop of `pull`: the rows in
scope with `row_version > since`, lowest `Limit` of them. `Answer` merges,
cuts at `Limit`, and hands page and cursor to the device, which applies both at
once; `LosePull` is a lost request or answer. `Visible` is `pullScope`.
`overtaken` records the versions that became visible behind a device's back:
below its cursor, or in a table its pull had read already.

### TokenService

`Rotate` .. `Answer` follow `rotate` call by call: the SELECT with its checks
(`Refuse`, `DetectReuse`, `Accept`), the account (`FindAccount`), the UPDATE
(`MarkRotated`), the INSERT (`IssueRefresh`), the answer. `SignOut`,
`FindFamily`, `RevokeFamily` are the sign-out. A client may present any token it was
ever given. A family's account may be removed by hand (`RemoveAccount`): the code
tests `accounts.deletedAt` but never sets it. The purge waits seven days after
expiry or revocation, so it never meets a request that read the row before.

### MediaPipeline

| action | code |
|---|---|
| `Edit`, `PushMetadata` | the client edits; push writes the photo's row under its LWW test, in any order and repeatedly |
| `Upload` | `createUploadTicket`, `handleUpload`: replaces the object at its raw key |
| `Commit`, `StampRead`, `StampWrite`, `Enqueue` | `commit`: the upsert, the two halves of `stampVerification`, `queue.add` |
| `LoadPhoto`, `Requeue`, `Enqueue` | `reprocess` |
| `Skip`, `ReadPhoto`, `MarkProcessing` | the job reads the row; `setStatus` |
| `Download`, `DownloadNothing`, `Store`, `Publish` | the try block: raw object, derivatives one by one, the row's UPDATE |
| `FreeRaw` | the delete of the raw object, whose errors are swallowed |
| `Throw`, `MarkFailed`, `EndAttempt` | a call in the try block throws; the catch block; the queue tries again or gives up |
| `ThrowUnmarked`, `CrashWorker`, `CrashRequest` | a call outside the try block throws, the first SELECT included; a worker or a replica dies |

Contents, edits and stamps are numbers in the order they were made, so "no older
than" is `<=`. `evidence` is the edit whose capture columns the row has, `seal` the stamp and
the evidence it was computed from, `baked` what the stored watermark shows.
The job's data is the photo's id: it reads the row when it starts, and
its UPDATEs name the id only. History variables name the cases the properties
exempt: `crossed` (a commit met a job that had read the row, an upload replaced the raw object such a job reads, or a
commit named another key under which nothing was uploaded: `commit` accepts any key with the photo's
prefix), `restamped` (the row was stamped while a job that had read it was at work, or after it was
published), `insertedAt` (the `now()` of the commit that inserted the row), `stranded` (a request
or last attempt ended between the row and the queue) and `outrun` (a job published the photo between
a reprocess's read and its write: nothing failed, and the photo stays `queued`).

### Membership

`org_members` rows and the requests on them. `Arrive` is the SELECT of the organization
in `OrgScopeGuard`, `Guard` that of the membership with the test of `PermissionsGuard`;
only then does the handler start (`at = "service"`).

| action | code |
|---|---|
| `Create` | `organizations.create`, one transaction: the organization and its owner's row |
| `Arrive`, `Guard`, `Forbid` | the guards; the caller may be demoted or removed behind them |
| `Invite`, `InviteTaken` | `members.invite`: the row and its assignments; its client-chosen id is taken |
| `Find`, `Refuse` | `requireMember` and the refusals on an owner's row, of update, setRole, remove and issue |
| `Update`, `SetRole`, `Remove`, `DeleteOrg` | the UPDATE by id, whatever the row says by then; a removal drops the assignments |
| `Reissue`, `IssueFresh`, `Draw`, `SaveCode`, `CodeTaken` | `issue`: the code there is, or a new one, tried and written; the unique index refuses it |
| `Redeem`, `Confirm`, `FindOrg`, `OrgUnavailable`, `AlreadyMember`, `NotYetMember`, `Activate` | `redeem`: the row by its code, the organization, an existing membership, the UPDATE |

`raced`, `doubled`, `reissued` and `shaken` name what the properties exempt: two redemptions of
one row, two of one account in an organization, two issues of one invite, and a request whose
caller's role, membership or organization changed after its guards.

### Plans, Organizations

Time runs in ticks, a day is `DayLength` of them. `Load` and `Subscribe` are the SELECT and
the UPDATE of `subscribe`, which writes the stamp it read, or now; the other calls are one
statement on a live row. An organization may predate trials (`Grandfathered`). The code reads
the clock once for the status and once for the days left; the model has one tick for both.

### PushDelivery

A phone has a token. It may sign in (`SignIn`), sign out (`SignOut`) and be reinstalled; its register
and unregister calls are messages (`signingIn`, `signingOut`), which the server serves (`Register`,
an upsert by token, `Unregister`) late, in any order or never. `Link` is a redemption: a
recipient may get his account late. `Forget` is retention: a notification, or a removed member and the
notifications to him, are gone. A job reads the notification (`FindNotification`; it ends at once without APNs
settings, `configured`, or when the row is gone), the recipient (`FindRecipient`), his devices
(`FindTargets`), then sends one by one: APNs accepts (`Accept`), refuses for some other reason
(`Refuse`), or says that the token is dead (`Invalid`), which deletes the row by its token
(`Prune`). `Throw`, up to `Attempts` times, and `Crash`, once (BullMQ gives a stalled job up the second
time), send a job back to its start.
`moved`: the phone's row changed after a job had read it. `early`: an alert was shown before the register
call of the phone's sign-in had been served, or on a phone that is `overtaken`: its call was served while one that
undoes it was under way. `steady`: the devices that stayed the recipient's.

### Retention

`Read` is the SELECT of `applyMutation` with the LWW test, `Write` the statement of `write` on the row of
that moment, `Reject` a policy, a conflict or an error; between them others may write, and a
day may end, but not two (the second conjunct of `Tick`). An upsert may carry a `deletedAt` of its own, up to `Lag` days older than its
`updatedAt`. `pruneTombstones` is the cutoff; the rows a parent takes with it by its foreign keys are its argument.
`Pull` gives a device what its cursor has not passed: a `Write` during a pull may be `hidden` from it, as in
`SyncPull`, until the row changes again. The devices are not in the repository. Assumed of them: they push before they pull; they date
a change after the state it changes; their clocks are off by at most `Skew` days; one
that has not synced for `Purge` days, at least one, starts afresh ("the 7-day device purge",
`cleanup.service.ts:82`). A mutation may be answered `rejected` and sent again later.
The exceptions: `skipped` (a device's mutations of a row came out of order), `raced` (a push
wrote over another row than it had read), `vanished` (a row was pruned with its parent, or while hidden from a device).

## Runs

| run | question | answer |
|---|---|---|
| `push_race` | what holds of two overlapping requests, with crashes, role changes, expiring records and pruning? | a row's versions grow, although drawn at one moment and committed at another, and identify the data (`VersionsGrow`, `VersionIdentifies`); a timestamp falls only in a lost race (`LwwUnlessRaced`); nobody writes beyond his organization (`TenantIsolation`); a mutation acts once and the whole implements `LwwRegister` (`AtMostOnce`, `ImplementsLww`), but for disturbed rows |
| `push_batches` | who may write what in whole batches of eight entities, and who is told? | only by a role held while the request ran (`Authorised`); each member once, or as often as a photo comment names him (`AtMostOnce`) |
| `push_lww` | does the equal-or-newer row always win? | no: see Findings |
| `pull` | do pages, cursors and hasMore fit together, against two writers and lost answers? | yes (`PagesHaveNoHoles`, `HasMoreIsRight`, `CopiesAdvance`); a change is lost only if overtaken (`LostOnlyWhenOvertaken`); devices catch up (`Converges`) |
| `pull_gap` | does each new version lie above every cursor? | no |
| `tokens` | who holds a usable token, under races, crashes, expiry and purge? | a revoked family is dead unless a rotation was under way (`DeadUnlessRaced`); one usable token unless rotations overlapped (`OneLiveUnlessForked`); honest sessions survive (`SessionSurvives`); the calls implement `Session` (`ImplementsSession`) |
| `media` | what is kept, shown and signed, under overlapping calls, duplicate jobs, failures and retries? | the committed content is kept or processed (`KeptOrProcessed`), done means every derivative, of one content unless `crossed` (`DoneIsShown`), the watermark is the row's unless `restamped` (`WatermarkMatches`), an edit loses to the pipeline only in the commit that inserts the row (`MetadataKept`) |
| `media_settles` | is a queued photo ever stuck? | no, unless a call or last attempt ended half way (`stranded`) or a job published it under a reprocess (`outrun`) (`Settles`) |
| `membership` | what holds of organizations and members, with two requests of three accounts at a time? | one owner (`OneOwner`); who joined is linked, once, and a handed code stays (`JoinedIsLinked`, `OneMembership`, `HandedOpens`), unless the named calls overlapped; a request past its guards stays within its organization and its caller's rights (`Authorised`); the calls implement `Roster` (`ImplementsRoster`) |
| `organizations` | may a trial or a subscription be lost or start again? | no (`TrialRunsOnce`, `NeverLockedOut`) |
| `push_delivery` | who sees a notification, and who is forgotten, with phones changing hands under a job? | nobody else unless the phone changed hands after the read or its register call was late (`NeverToAnother`); a registered phone stays so unless an opposing call was under way (`StaysRegistered`); with APNs configured and the notification there, a job that ends tried every device (`EveryDeviceTried`); every job ends (`Settles`) |
| `retention` | is a window of twice the purge, the skew, the lag and a night enough? | yes: no device keeps what was deleted (`NoGhost`), no delete is undone by an older change (`NoResurrection`), but for the three exceptions |

### Bounds, and why they are enough

- `push_race`: two request slots, three requests, two mishaps, one task, two
  accounts in two organizations, four mutations. Two overlapping requests are
  what every race of a row's read with its write needs; the third request is the retry,
  or the organization that claims the pruned id. Requests are interchangeable, which
  the run uses as a symmetry. A batch of two keeps the
  membership cache alive across mutations.
- `push_batches`: one slot, four requests, one mishap, eight rows, of seven
  registered entities and one unknown: every policy, every recipient rule (a member named twice
  in a task comment and in a photo comment), every foreign key.
- `pull`: two writers, four rows in two tables, pages of two, four versions, one lost
  answer: a SELECT can be cut off at the limit, the merge can be cut again, and
  writers can commit out of order.
- `tokens`: two requests, four tokens, two families, two mishaps: sign-in, two
  rotations that overlap, or one with a revocation. Tokens, families and requests are
  interchangeable: symmetry is used (no liveness is checked there).

- `media`: two requests, two jobs, two keys, two contents, one edit, two calls, two attempts, one mishap:
  overlapping commits, a commit with a running job, two jobs that store over
  each other, a retry after a failure. Two derivatives are what
  "one by one" needs (an image has three, a video two), the last carries the watermark.
  Keys, requests and jobs are interchangeable. `media_settles` has one key, no edits and
  two mishaps: a stalled job that fails again; it uses no symmetry.
- `membership`: three accounts, two organizations, three member rows, two codes, two requests, seven calls: enough for a
  creation and two invitations, both issued and both redeemed, or redeemed by two. The third account is
  the outsider. Every invitation assigns projects (`Assigning`), which no property of the run depends on.
  All five sets are interchangeable: symmetry is used.
- `organizations`: a trial of two days of two ticks, so that a day is left in part, one organization, two
  overlapping subscriptions, six ticks: the trial and two more.
- `push_delivery`: two phones, two accounts, one member, one notification, two attempts, two mishaps, two
  sign-ins: a phone that changes hands, or two phones of one account, with calls that come late, and a job that dies in
  between, twice. Liveness is checked, so no symmetry is used.
- `retention`: one row, two devices with a push under way each (`push_race` has a retry that overlaps its own first request), three changes, Purge 1, Skew 0, Lag 1 and the narrowest window for
  them, Retention 4, in six days: a delete that waited offline is pushed over a night by one device, pruned, and met by the other. With
  a window of 3 TLC finds `NoGhost` violated, so the bound is exact. A second row would only
  be a parent, whose effect is the argument `orphans`; the theorems hold for any number, and any skew.

`MaxSends`, `MaxMishaps`, `MaxVersion`, `MaxLost`, `MaxUploads`, `MaxCalls`, `MaxEdits`, `MaxSwitches`,
`MaxChanges`, `MaxRequests` and `MaxTime` bound the counters; a behaviour
stops when they are used up, which is why these runs do not check for deadlock.

### Fairness

`Converges` (`FairSpec` of `SyncPull`): weak fairness of `StartPull`
(a client pulls again, on a signal, on a timer or on launch), of `ReadTable` (a
handler that awaits a SELECT is resumed) and of `Answer`. Nothing is assumed of
writers, and `LosePull` may take an answer away, `MaxLost` times. Writers may pause
for ever inside a statement.

`Settles` (`FairSpec` of `MediaPipeline`): weak fairness of `RequestStep(r)` (a handler
whose call is answered is resumed) and of `JobStep(j)` (BullMQ hands a waiting job to a
worker, back-off delays end, a worker's call is answered). Uploads, commits, reprocesses,
edits and mishaps need not come; each is bounded.

`Settles` (`FairSpec` of `PushDelivery`): weak fairness of `JobStep(n)`: BullMQ hands out a waiting job, a call of its
worker is answered, and APNs answers: `Accept` or `Invalid`, as the token is. Phones,
their calls, failures and other refusals need not come. That APNs answers is an assumption about it and not something the
code sees to: its requests have no timeout (`apns.service.ts:76`), so one that is never answered keeps
its job for ever.

## Proofs

TLC looks at the instances above; the theorems hold for any number of requests,
rows, tables, devices, tokens, and any values of the bounds. They rest on the
named assumptions of the modules (types of the constants; `None` is none of the
values it is mixed with), and on nothing else but what their statement says.

- `SyncPushProofs`: `TypeCorrect`, `VersionsSound`, `VersionsAlwaysGrow`,
  `LwwButForRaces`, `TenantsIsolated`, `WritersEntitled`. `LockInv` says what a statement under way
  holds: its row, which no other is at. `VersionIdentifies` is not inductive: an ack
  still in a request's hands is about to be cached. `VersionInv` says the same of it,
  and that versions in use were drawn and are distinct; `FreshInv`, that the version of a statement under
  way is nobody else's and above that of its row, so that its commit, whatever was drawn and committed in between,
  cannot take a version some ack names nor set a row back. `ReadInv` says that a request on its way to
  its write passed both tests against the row it *read*: that the row it
  *overwrites* may differ is the very exception the two properties name. `HeldInv`
  says that a batch has one account, that its cached roles were held while the request ran, and that whoever is about to
  write was let through for one of them.
- `SyncPushProofs`, its second half, for any number of overlapping requests: `PushIsLww`
  (`Spec => ImplementsLww`, the refinement, step by step) and
  `NothingTwice`. `AnswerInv`: a cached or pending ack with a version is no newer than its row, unless the row was
  disturbed. `OnceInv`: a mutation that changed its row is no newer than the row, so the LWW
  test, not the Redis record, is what stops its repetition; and of two requests that are about to notify, no
  two have the same mutation.
- `SyncPullProofs`: `TypeCorrect`, `NoHoles`, `HasMoreSound`, `NeverBack`,
  `OnlyOvertakenLost`, `LastPageCatchesUp`, `AdvancesOrWasPassed`. `PullInv` has three parts: versions grow along each row (the
  row lock); a candidate is what its table held when read, and a row that was cut
  off has `Limit` candidates below it (`CutOff`), which is why the cursor, the
  last of the lowest `Limit` candidates, stays below it; what was read and is no longer
  current was overtaken. `LastPageCatchesUp` is the safety half of `Converges`: after the page that says there is no
  more, the device holds every row in its scope as the database does, but for what was overtaken
  (a page that says there is more has moved the cursor, `HasMoreSound`).
  `AdvancesOrWasPassed` is what the sentence of `schema/_helpers.ts` comes to with overlapping
  statements: a mutated row advances past every cursor, unless another row with a later version had become visible
  before it. It rests on versions being drawn once (`DrawnOnce`) and on no cursor being ahead of every row (`CursorReal`).
- `TokenServiceProofs`: `TypeCorrect`, `DeadStaysDead`, `OneLive`,
  `NoAccidentalSignOut`. `TokenInv`: what rows and requests say of each other
  (`RowsInv`, `RequestsInv`), that a dead family has no request rotating it
  (`DeadInv`), and that whoever rotates an unforked family holds its one token
  (`ForkInv`). `SessionsAsPromised` is the refinement, `Spec => ImplementsSession`: the usable tokens of a
  family are what `Session` calls `usable`; `MarkRotated` spends, `IssueRefresh` issues, a
  revocation closes. The mapping leaves out the families whose rotations overlapped each
  other or a revocation (`forked`, `raced`); their tokens are wasted. `SpentStaysSpent` leaves
  out nothing: what was exchanged, revoked or purged is never of use again.

- `MediaPipelineProofs`: `TypeCorrect`, `NothingLost`, `DoneIsWhole`, `WatermarkTrue`,
  `EditsWin`. None of the properties is inductive: what a job will write depends on what
  it read. `KeptInv` says that, unless calls crossed, jobs at work share one raw
  object, which is gone or holds what is wanted, and so does what they derived
  (`ObjectsInv`, `SharedInv`). `DoneInv` says that once the photo is done, whatever
  a duplicate job still stores is the same content. `WholeInv` has no exception: whatever crosses, a photo is done only with every
  derivative stored and its raw object let go. `MarkInv` says of the
  mark each job draws that it is under the row's stamp, unless `restamped`, with `EvidenceInv`: a stamp is never of later evidence
  than the row has. `MetadataInv`: `updatedAt` is the pushed edit the row shows, or the moment of the commit that made it.
  `JobsWearOff` and `NobodyForgets` are the two safety halves of `Settles`. `JobsWear`: each step, failure or
  crash of a job lowers its restarts, then its attempts, then the calls of this attempt. `Attended`: a
  photo shown as queued or in process has a request about to enqueue it, or a job that will write the outcome itself
  or has yet to fetch the raw object, which the row still names, but for `stranded` and `outrun`. What is left
  to TLC is that a step that may be taken is.

- `MembershipProofs`: `TypeCorrect`, `OneOwnerAlways`, `JoinedLinked`, `OneMembershipButForRaces`,
  `HandedCodesOpen`, `RequestsAuthorised`, and `AssignmentsLive`, for any number of accounts, rows, codes
  and requests. `MembershipInv` says what a request may rely on of the row it holds: it is of the
  request's organization (`RequestsInv`), it is not an owner's if the request writes a role, a tombstone
  or an account (`OwnersLeftAlone`: an owner's row never loses or gains
  that role, so the test on the row read still holds at the write), it is unlinked, or has no code, as it was when read, but
  for the races named (`LinkInv`, `CheckedInv`, `CodesInv`). That a caller keeps his rights is shown by kinds of steps:
  those that leave everybody's standing as it is (`StaysAuthorised`), and those that write one row and mark
  whom that row let in (`WriterLeavesAuthorised`). `CallsTakeEffectAtOnce` is the refinement, `Spec =>
  ImplementsRoster`: a request that reads, waits and writes does at its last write what `Roster` does in one
  step, on the rows of that moment, although it tested older ones. `raced`, `doubled` and
  `reissued` are mapped to the crossings of `Roster`, whose guards they relax.
- `OrganizationsProofs`: `TypeCorrect`, `PaidStaysActive`, `TrialOnce`, from `BillingInv` (the stamp a call read is the row's
  but for an overlap) and a lemma on rounding up to days.
- `PushDeliveryProofs`: `TypeCorrect`, `NeverShownToAnother`, `PhonesStayRegistered`, `EveryTargetTried`, from `DeliveryInv`: a
  target whose row has not changed is still the recipient's (`TargetsInv`), a steady one is still to be sent to or
  was (`SteadyInv`), and of a phone whose own register call was served, and which is not overtaken, nothing that undoes it
  is under way (`PhonesInv`). `JobsWearOff` and `JobsNeverStuck` are the safety
  halves of `Settles`: if there are finitely many phones each step of a job lowers its `Effort`,
  the calls before it, and only its own failure or crash raises it; and a job at work always has what its next call
  needs.
- `RetentionProofs`: `TypeCorrect`, `DeletesReachEveryone`, `DeletesStand`, assuming
  `WindowSuffices`: `Retention >= 2 * Purge + Skew + Lag + 1`. That is the longest a delete may be on its way: a purge
  on its device, the error of its clock, the lag of its `deletedAt`, a night in its request; and a purge more on the device that is
  to see it. `RetentionInv`: whoever synced more than `Purge + Skew + Lag + 1` days after a delete has
  nothing left of the row, or his cursor has passed it (`TombstonesSeen`), since a copy taken up in between would have come from a change
  not older than that; what was pruned has thus gone everywhere (`PrunedSeen`); a row the server never had still waits
  on its device, its creation before its delete (`UnlandedWaits`); a request that found no row meets none that was
  deleted long ago (`FreshInv`); and, but for the exceptions, the row is no older than the newest delete that was
  written (`DeadInv`). `NoOlderChangeLeft` says what a window of `Purge +
  Skew + Lag + 1` is good for, from the dates alone (`DatesInv`) and with no exception: a tombstone expires only when no
  device in use and no request under way has, or may still make, an older change of
  its row.

Every invariant, action property and refinement of the runs has its theorem, under the names of the
exceptions that the property itself states. Only model-checked: `Converges` and
both `Settles`, for liveness under fairness is out of the prover's reach; and the two sentences that are false, `LwwOrder`
and `AdvancesPastCursors`, in whose place `LwwButForRaces` and `AdvancesOrWasPassed` say what is true.

Only the theorems on retention restrict constants, and the default configuration (30 days against 7) meets
them: `WindowSuffices` while skew and lag come to 15 days at most, the assumption of `NoOlderChangeLeft`
while they come to 22. No theorem assumes that requests do not overlap.

## Findings

Two places where the code and a sentence beside it differ, each with a run that shows it.

1. `push_lww`: "an equal-or-newer server row wins" (`sync.service.ts:120`). The test
   is made on the row read; the UPDATE names only the primary key. Of two
   overlapping requests the older mutation may land last.
2. `pull_gap`: "advances past every existing cursor" (`schema/_helpers.ts:41`). A version
   is drawn before its row is visible; a pull in between may pass it.

What is true instead: `LwwUnlessRaced` and `PushIsLww`; `LostOnlyWhenOvertaken` and `AdvancesOrWasPassed`.

Other things the models brought up, each the exception some property names, or the value of a constant:

- The idempotency key is written after the mutation took effect and is not reserved (`sync.service.ts:86`): a
  retry that reads the row before its first request writes it is applied and notified again: `disturbed`.
- A photo comment notifies a member as often as it mentions him (`notification.service.ts:140-150`); a task comment
  once. `AtMostOnce` says so (`Copies`).
- The assignee's right to update a task is tested on the row read; a manager may reassign it before the
  write (`sync.service.ts:239`). `Authorised` speaks of the row read.
- The tables of a pull are read one by one, each at its own moment (`sync.service.ts:391`): `overtaken`.
- A rotation that is past its checks inserts its token after its family was revoked (`token.service.ts:22`, `113`):
  the `raced` exception of `DeadUnlessRaced`.
- A rotation whose answer is lost cannot be repeated (`token.service.ts:89`): the client's retry burns its session: `lost`.
- A commit of a second upload while the job runs loses its raw key (`media-process.worker.ts:117`): `crossed`.
- A commit that is merely repeated while its job runs stamps the row anew; the job publishes the old
  watermark and clears the raw key, the new job skips, and the watermark stays wrong for good although nobody edited anything: `restamped`.
- A reprocess whose UPDATE (`media.service.ts:223-231`) comes after the running job has published leaves a finished
  photo `queued`: the new job finds no raw key and skips (`media-process.worker.ts:41`), and a further reprocess is refused, for there is no raw media: `outrun`.
- A duplicate job that read the row before the raw object was freed marks the finished photo `failed` (`media-process.worker.ts:124`).
- The commit that inserts a photo's row dates it by the server's clock: edits made before it are stale: `insertedAt`.
- A phone shows the alert of the account that had it before until its own register call is served: `early`. A call of an
  earlier sign-in that is served last takes it away again: `overtaken`.
- Two overlapping redemptions of one code both answer success (`invites.service.ts:65`, `71`), the second
  takes the row: `raced`. Two overlapping issues hand out two codes, of which one opens: `reissued`.
- Two overlapping subscriptions stamp twice (`organizations.service.ts:116`): `overlapped`.
- A delete that overlaps an older upsert may be undone by it, tombstone and all: `raced` in `Retention`, the consequence
  of finding 1. A tombstone that a cursor has passed (finding 2) leaves a copy for good once it is pruned, and so does
  a live child that goes with its parent, for which there never is a tombstone (`cleanup.service.ts:89`): `vanished`.
- A retention window that "must exceed the 7-day device purge" (`cleanup.service.ts:81-82`) is not enough. With Retention 3,
  Purge 2, Skew 0, Lag 0 a device that pulled just before another's late delete keeps the row for good (TLC: `NoGhost`
  is violated). With Retention 1, Purge 1, Skew 0, Lag 1 and three devices an older edit brings a deleted row back (TLC:
  `NoResurrection`). What is enough is `WindowSuffices`.

## What the models leave out

- Column mapping of the seventeen entities: a row's columns are one value. `attachMemberProjects`
  adds a field to answers. Realtime signals carry no data.
- A foreign key set to null by a delete (`onDelete: 'set null'`, as an assignee whose
  membership row is pruned): the row changes without a new version.
- Accounts: sign-up's uniqueness rests on a unique index, whose error answers a race; sign-in has no state beyond its session.
- Notifications: `markRead`, `markAllRead` and the unread count are single statements on one recipient's rows;
  the badge is a count read before the sends.
- Organizations: profile columns; plan limits and storage quotas are compared nowhere in the code but in what clients are told.
- Invites: `preview` reads only; the alphabet of the codes.
- Capture verification: a pure verdict on one request's fields; when it is computed, and over which columns, is in `MediaPipeline`.
- Clock skew between clients beyond arbitrary timestamps: `updatedAt` is any number (in `Retention` it is bounded, `Skew`).
- Retention: requests that outlast a second midnight; that the sixteen tables are pruned one after another.
- Postgres itself: statements are atomic, committed rows are durable, `nextval` is unique
  and grows. Redis loses records only by expiry or a failing call.
- Media: a photo row deleted while it is processed; the media type, which changes the keys of the
  derivatives; partial files of the local storage driver; a worker that was
  taken for stalled and works on (BullMQ's locks); back-off times; upload tokens, signed URLs, usage.
- argon2, JWT, HTTP.

## What could come next

- Set-null foreign keys with `SyncPull`: a device that never learns of the change.
- The composition of `PushDelivery` with `Membership`: a recipient removed while his job waits.
- Accounts: deletion by the code, if it comes, against sessions, memberships and devices.
- Capture verification as an operator, checked against the rules its comments state.
