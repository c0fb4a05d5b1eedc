---- MODULE SyncPush ----
(* SyncService.push (sync/sync.service.ts): requests that apply batches of
   mutations to the shared rows. A request is a process; each of its steps ends
   at the next await, where every other request, replica and administrator may
   run. Statements autocommit one by one: no transaction spans two of them.

   An element of Ids stands for an (entity, uuid) pair: Entity[i] is its entity.
   A mutation stands for one client-unique idempotency key; its fields are the
   DTO's, with the payload abstracted to the columns the code branches on. *)
EXTENDS Naturals, Sequences, FiniteSets, Permissions

CONSTANTS
    Handlers,        \* the requests that may be in flight at a time
    Accounts,        \* accounts; within an organization an account is a member
    Orgs,
    Ids,
    Entity,          \* Entity[i]: the entity the client names for i
    Mutations,
    Batches,         \* the request bodies clients may send
    InitRoles,       \* InitRoles[o][a]: role of a in o at the start, or None
    CleanupEnabled,  \* env CLEANUP_ENABLED
    MaxSends,        \* bound: requests sent in a behaviour
    MaxMishaps,      \* bound: failures, crashes, expiries, role changes, prunings
    None,
    Unread

Op == {"upsert", "delete"}

MutationType ==
    [account   : Accounts,
     org       : Orgs,
     id        : Ids,
     op        : Op,
     at        : Nat,                    \* updatedAt, the client's clock
     deletedAt : Nat \cup {None},        \* payload.deletedAt
     assignee  : Accounts \cup {None},   \* payload.assigneeMemberId
     parent    : Ids \cup {None},        \* payload.projectId, taskId, checklistId...
     mentions  : Seq(Accounts)]          \* payload.mentionIds

ASSUME NoneAssumption ==
    /\ None \notin Nat \cup Accounts \cup Ids \cup Roles
    /\ Unread \notin Roles \cup {None}
ASSUME MutationsAssumption == Mutations \subseteq MutationType
ASSUME BatchesAssumption ==
    /\ Batches \subseteq Seq(Mutations) \ {<<>>}
    /\ \A b \in Batches : \A k \in DOMAIN b : b[k].account = Head(b).account
ASSUME EntityAssumption == Entity \in [Ids -> STRING]
ASSUME RolesAssumption == InitRoles \in [Orgs -> [Accounts -> Roles \cup {None}]]
ASSUME BoundAssumption == MaxSends \in Nat /\ MaxMishaps \in Nat /\ CleanupEnabled \in BOOLEAN

(* A database row. cols is the payload last written, named by its mutation. *)
Row == [org : Orgs, cols : Mutations, at : Nat, deletedAt : Nat \cup {None}, ver : Nat]

(* What of a row its clients may rely on: LwwRegister's value. *)
Register == [cols : Mutations, at : Nat, deletedAt : Nat \cup {None}]

Ack == [status : {"applied", "stale"}, ver : Nat \cup {None}]

ASSUME RowAssumption == None \notin Row \cup Ack \cup Register

AwaitPoints ==
    {"idle", "lookup", "member", "read", "enforce", "write", "commit", "fanout", "remember"}

VARIABLES
    rows,       \* rows[i]: the committed row, or None
    seq,        \* row_version_seq: the last value drawn
    idem,       \* Redis sync:idem:<key>: the cached ack, or None
    roles,      \* roles[o][a]: the active membership's role, or None
    sends,      \* requests sent so far
    mishaps,    \* failures, crashes, expiries, role changes and prunings so far
    pc,         \* pc[h]: the call the request awaits
    batch,      \* batch[h]: mutations left, the current one first
    roleCache,  \* roleCache[h][o]: the request's membershipCache
    existing,   \* existing[h]: the row read for the current mutation
    ack,        \* ack[h]: the ack about to be cached and returned; at "commit", its version
                \* is the one the statement under way has drawn
    applied,    \* history: how many times m changed a row
    notified,   \* history: notifications a received because of m
    answered,   \* history: mutations answered with a row version
    disturbed,  \* history: rows written by a request that had read another row, or removed
    held        \* history: roles h's account held during the request

store   == <<rows, seq>>
local   == <<pc, batch, roleCache, existing, ack>>
history == <<applied, notified, answered, disturbed, held>>
bounds  == <<sends, mishaps>>
vars    == <<store, idem, roles, bounds, local, history>>

TypeOK ==
    /\ rows \in [Ids -> Row \cup {None}]
    /\ seq \in Nat
    /\ idem \in [Mutations -> Ack \cup {None}]
    /\ roles \in [Orgs -> [Accounts -> Roles \cup {None}]]
    /\ sends \in Nat
    /\ mishaps \in Nat
    /\ pc \in [Handlers -> AwaitPoints]
    /\ batch \in [Handlers -> Seq(Mutations)]
    /\ \A h \in Handlers : pc[h] # "idle" => batch[h] # <<>>
    /\ roleCache \in [Handlers -> [Orgs -> Roles \cup {None, Unread}]]
    /\ existing \in [Handlers -> Row \cup {None}]
    /\ ack \in [Handlers -> Ack \cup {None}]
    /\ applied \in [Mutations -> Nat]
    /\ notified \in [Mutations -> [Accounts -> Nat]]
    /\ answered \subseteq Mutations
    /\ disturbed \subseteq Ids
    /\ held \in [Handlers -> [Orgs -> SUBSET (Roles \cup {None})]]

NoCache == [o \in Orgs |-> Unread]
NoRoles == [o \in Orgs |-> {}]

Init ==
    /\ rows = [i \in Ids |-> None]
    /\ seq = 0
    /\ idem = [m \in Mutations |-> None]
    /\ roles = InitRoles
    /\ sends = 0
    /\ mishaps = 0
    /\ pc = [h \in Handlers |-> "idle"]
    /\ batch = [h \in Handlers |-> <<>>]
    /\ roleCache = [h \in Handlers |-> NoCache]
    /\ existing = [h \in Handlers |-> None]
    /\ ack = [h \in Handlers |-> None]
    /\ applied = [m \in Mutations |-> 0]
    /\ notified = [m \in Mutations |-> [a \in Accounts |-> 0]]
    /\ answered = {}
    /\ disturbed = {}
    /\ held = [h \in Handlers |-> NoRoles]

Cur(h) == Head(batch[h])

----------------------------------------------------------------------------
(* The steps of a request. *)

Goto(h, point) == pc' = [pc EXCEPT ![h] = point]

(* What goes wrong, or changes, beside the requests; counted to bound it. *)
Mishap ==
    /\ mishaps < MaxMishaps
    /\ mishaps' = mishaps + 1
    /\ UNCHANGED sends

(* The current mutation is the last of its batch. *)
LastOneLate(h) == batch[h] = <<>>          \* mutant: one turn too many

LastOne(h) == Tail(batch[h]) = <<>>

(* The current mutation has its entry in results: take the next one. The
   request's locals, cache included, die with its last mutation. *)
NextMutation(h, cache) ==
    /\ batch' = [batch EXCEPT ![h] = Tail(@)]
    /\ Goto(h, IF LastOne(h) THEN "idle" ELSE "lookup")
    /\ roleCache' = [roleCache EXCEPT ![h] = IF LastOne(h) THEN NoCache ELSE cache]
    /\ held' = IF LastOne(h) THEN [held EXCEPT ![h] = NoRoles] ELSE held
    /\ existing' = [existing EXCEPT ![h] = None]
    /\ ack' = [ack EXCEPT ![h] = None]

(* applyMutation threw: push records 'rejected' and goes on. *)
Rejected(h) ==
    /\ NextMutation(h, roleCache[h])
    /\ UNCHANGED <<idem, roles, applied, notified, answered, disturbed>>

(* The client learns a's verdict on the current mutation. *)
Answer(h, a) ==
    /\ answered' = IF a.ver = None THEN answered ELSE answered \cup {Cur(h)}
    /\ NextMutation(h, roleCache[h])

Send(h, b) ==
    /\ pc[h] = "idle"
    /\ sends < MaxSends
    /\ sends' = sends + 1
    /\ batch' = [batch EXCEPT ![h] = b]
    /\ roleCache' = [roleCache EXCEPT ![h] = NoCache]
    /\ held' = [held EXCEPT ![h] = [o \in Orgs |-> {roles[o][Head(b).account]}]]
    /\ Goto(h, "lookup")
    /\ UNCHANGED <<store, idem, roles, mishaps, existing, ack,
                   applied, notified, answered, disturbed>>

(* The entity is not in the registry. *)
UnknownEntity(h) ==
    /\ pc[h] = "lookup"
    /\ Entity[Cur(h).id] \notin PushEntities
    /\ Rejected(h)
    /\ UNCHANGED <<store, bounds>>

KnownEntity(h) == Entity[Cur(h).id] \in PushEntities

(* The key was seen: return the cached ack. *)
Replay(h) ==
    /\ pc[h] = "lookup"
    /\ KnownEntity(h)
    /\ idem[Cur(h)] # None
    /\ Answer(h, idem[Cur(h)])
    /\ UNCHANGED <<store, idem, roles, bounds, applied, notified, disturbed>>

FirstSeen(h) ==
    /\ pc[h] = "lookup"
    /\ KnownEntity(h)
    /\ idem[Cur(h)] = None
    /\ Goto(h, "member")
    /\ UNCHANGED <<store, idem, roles, bounds, batch, roleCache, existing, ack, history>>

(* The membership: the request's cache first, else the active member row. *)
Membership(h, m) ==
    IF roleCache[h][m.org] = Unread THEN roles[m.org][m.account] ELSE roleCache[h][m.org]

ResolveMembership(h) ==
    /\ pc[h] = "member"
    /\ Membership(h, Cur(h)) # None
    /\ roleCache' = [roleCache EXCEPT ![h][Cur(h).org] = Membership(h, Cur(h))]
    /\ Goto(h, "read")
    /\ UNCHANGED <<store, idem, roles, bounds, batch, existing, ack, history>>

(* The cached null outlives the refusal: the rest of the batch sees it too. *)
NotMember(h) ==
    /\ pc[h] = "member"
    /\ Membership(h, Cur(h)) = None
    /\ NextMutation(h, [roleCache[h] EXCEPT ![Cur(h).org] = None])
    /\ UNCHANGED <<store, idem, roles, bounds, applied, notified, answered, disturbed>>

ForeignUnchecked(r, m) == FALSE                                   \* mutant

Foreign(r, m) == r # None /\ r.org # m.org

(* An equal or newer server row wins. *)
StaleIfNewer(r, m) == r # None /\ r.at > m.at                     \* mutant
StaleUnlessDeleted(r, m) ==                                       \* mutant
    r # None /\ r.deletedAt = None /\ r.at >= m.at

Stale(r, m) == r # None /\ r.at >= m.at

ReadForeign(h) ==
    /\ pc[h] = "read"
    /\ Foreign(rows[Cur(h).id], Cur(h))
    /\ Rejected(h)
    /\ UNCHANGED <<store, bounds>>

ReadStale(h) ==
    /\ pc[h] = "read"
    /\ ~ Foreign(rows[Cur(h).id], Cur(h))
    /\ Stale(rows[Cur(h).id], Cur(h))
    /\ ack' = [ack EXCEPT ![h] = [status |-> "stale", ver |-> rows[Cur(h).id].ver]]
    /\ Goto(h, "remember")
    /\ UNCHANGED <<store, idem, roles, bounds, batch, roleCache, existing, history>>

ReadFresh(h) ==
    /\ pc[h] = "read"
    /\ ~ Foreign(rows[Cur(h).id], Cur(h))
    /\ ~ Stale(rows[Cur(h).id], Cur(h))
    /\ existing' = [existing EXCEPT ![h] = rows[Cur(h).id]]
    /\ Goto(h, "enforce")
    /\ UNCHANGED <<store, idem, roles, bounds, batch, roleCache, ack, history>>

(* A standard member may update, not create or delete, work assigned to him. *)
WorkerAnyOp(m, r) == r # None                                     \* mutant

Worker(m, r) == m.op = "upsert" /\ r # None

AssignedTo(r, a) == r # None /\ r.cols.assignee = a

ParentOf(r) ==
    IF r = None \/ r.cols.parent = None THEN None ELSE rows[r.cols.parent]

(* enforce: what role, policy, operation and assignment allow. *)
Allowed(role, m, r) ==
    LET policy == Policy[Entity[m.id]]
    IN CASE policy = "member" -> TRUE
         [] policy = "taxonomy" -> Can(role, "manageTaxonomy")
         [] policy = "project" -> m.op = "upsert" \/ Can(role, "deleteProject")
         [] policy \in {"task", "checklist"} ->
              Can(role, "manageTasks") \/ (Worker(m, r) /\ AssignedTo(r, m.account))
         [] policy = "checklistItem" ->
              Can(role, "manageTasks") \/ (Worker(m, r) /\ AssignedTo(ParentOf(r), m.account))

Enforce(h) ==
    /\ pc[h] = "enforce"
    /\ Allowed(roleCache[h][Cur(h).org], Cur(h), existing[h])
    /\ Goto(h, "write")
    /\ UNCHANGED <<store, idem, roles, bounds, batch, roleCache, existing, ack, history>>

Deny(h) ==
    /\ pc[h] = "enforce"
    /\ ~ Allowed(roleCache[h][Cur(h).org], Cur(h), existing[h])
    /\ Rejected(h)
    /\ UNCHANGED <<store, bounds>>

----------------------------------------------------------------------------
(* write: one UPDATE or INSERT by primary key. The statement draws its version
   (nextRowVersion) once it has the row to itself, and the row is seen when it
   commits; versions drawn by others, and their commits, may fall in between. *)

ReplacedUnversioned(r, m, v) ==                                   \* mutant
    [r EXCEPT !.cols = m, !.deletedAt = m.deletedAt, !.at = m.at]

Replaced(r, m, v) ==
    [r EXCEPT !.cols = m, !.deletedAt = m.deletedAt, !.at = m.at, !.ver = v]

Tombstoned(r, m, v) == [r EXCEPT !.deletedAt = m.at, !.at = m.at, !.ver = v]

Created(m, v) ==
    [org |-> m.org, cols |-> m, at |-> m.at, deletedAt |-> m.deletedAt, ver |-> v]

LockedNever(i) == FALSE                                           \* mutant

(* A statement on row i is under way: PostgreSQL makes the next one wait. *)
Locked(i) == \E h \in Handlers : pc[h] = "commit" /\ Cur(h).id = i

(* A foreign key of an upsert names a row that is not there. *)
ParentMissing(m) == m.op = "upsert" /\ m.parent # None /\ rows[m.parent] = None

(* The statement finds what its request read: a row to update, or none yet. *)
Fits(h) ==
    LET m == Cur(h)
    IN IF m.op = "delete" THEN existing[h] # None /\ rows[m.id] # None
       ELSE (existing[h] = None <=> rows[m.id] = None) /\ ~ ParentMissing(m)

BeginWrite(h) ==
    /\ pc[h] = "write"
    /\ Fits(h)
    /\ ~ Locked(Cur(h).id)
    /\ seq' = seq + 1
    /\ ack' = [ack EXCEPT ![h] = [status |-> "applied", ver |-> seq + 1]]
    /\ Goto(h, "commit")
    /\ UNCHANGED <<rows, idem, roles, bounds, batch, roleCache, existing, history>>

(* The statement commits. Its request has overwritten a row it did not read
   when that row is no longer the one of its SELECT. *)
Committed(h, row) ==
    /\ rows' = [rows EXCEPT ![Cur(h).id] = row]
    /\ applied' = [applied EXCEPT ![Cur(h)] = @ + 1]
    /\ disturbed' = IF rows[Cur(h).id] = existing[h] THEN disturbed
                    ELSE disturbed \cup {Cur(h).id}
    /\ Goto(h, IF Cur(h).op = "upsert" THEN "fanout" ELSE "remember")
    /\ UNCHANGED <<seq, idem, roles, bounds, batch, roleCache, existing, ack,
                   notified, answered, held>>

CommitTombstone(h) ==
    /\ pc[h] = "commit"
    /\ Cur(h).op = "delete"
    /\ Committed(h, Tombstoned(rows[Cur(h).id], Cur(h), ack[h].ver))

CommitUpdate(h) ==
    /\ pc[h] = "commit"
    /\ Cur(h).op = "upsert"
    /\ existing[h] # None
    /\ Committed(h, Replaced(rows[Cur(h).id], Cur(h), ack[h].ver))

CommitInsert(h) ==
    /\ pc[h] = "commit"
    /\ Cur(h).op = "upsert"
    /\ existing[h] = None
    /\ Committed(h, Created(Cur(h), ack[h].ver))

(* Never reached the server: nothing to tombstone. *)
DeleteNothing(h) ==
    /\ pc[h] = "write"
    /\ Cur(h).op = "delete"
    /\ existing[h] = None
    /\ ack' = [ack EXCEPT ![h] = [status |-> "applied", ver |-> None]]
    /\ Goto(h, "remember")
    /\ UNCHANGED <<store, idem, roles, bounds, batch, roleCache, existing, history>>

(* The UPDATE matched no row: row.rowVersion of undefined throws. *)
WriteGone(h) ==
    /\ pc[h] = "write"
    /\ existing[h] # None
    /\ rows[Cur(h).id] = None
    /\ Rejected(h)
    /\ UNCHANGED <<store, bounds>>

(* A primary or foreign key refuses the statement; nextval is spent. *)
WriteRefused(h) ==
    /\ pc[h] = "write"
    /\ Cur(h).op = "upsert"
    /\ \/ existing[h] = None /\ rows[Cur(h).id] # None
       \/ (existing[h] = None \/ rows[Cur(h).id] # None) /\ ParentMissing(Cur(h))
    /\ seq' = seq + 1
    /\ Rejected(h)
    /\ UNCHANGED <<rows, bounds>>

----------------------------------------------------------------------------
(* After the write: notifications, the idempotency record, the answer. *)

NewAssignee(m, r) ==
    IF r # None /\ r.cols.assignee = m.assignee THEN {} ELSE {m.assignee} \ {None}

Mentioned(m, a) == Cardinality({k \in DOMAIN m.mentions : m.mentions[k] = a})

DueOfEachReason(m, r, a) ==                                       \* mutant
    IF a = m.account \/ r # None THEN 0
    ELSE Mentioned(m, a) + (IF m.parent # None /\ rows[m.parent] # None
                               /\ rows[m.parent].cols.assignee = a THEN 1 ELSE 0)

(* How many notifications a is due. taskComment collects its recipients in a
   Map; photoComment goes through mentionIds as they come, repeats included. *)
Due(m, r, a) ==
    LET entity == Entity[m.id]
        parent == IF m.parent = None THEN None ELSE rows[m.parent]
        once   == CASE entity \in {"task", "checklist"} -> NewAssignee(m, r)
                    [] entity = "taskComment" /\ r = None /\ parent # None ->
                         {b \in Accounts : Mentioned(m, b) > 0 \/ parent.cols.assignee = b}
                    [] OTHER -> {}
    IN IF a = m.account THEN 0
       ELSE IF entity = "photoComment" /\ r = None THEN Mentioned(m, a)
       ELSE IF a \in once THEN 1 ELSE 0

(* fanOut is best-effort: any call of it may fail, and some are then missing. *)
FanOut(h) ==
    /\ pc[h] = "fanout"
    /\ \E made \in [Accounts -> 0..(Len(Cur(h).mentions) + 1)] :
         /\ \A a \in Accounts : made[a] <= Due(Cur(h), existing[h], a)
         /\ notified' = [notified EXCEPT
              ![Cur(h)] = [a \in Accounts |-> notified[Cur(h)][a] + made[a]]]
    /\ Goto(h, "remember")
    /\ UNCHANGED <<store, idem, roles, bounds, batch, roleCache, existing, ack,
                   applied, answered, disturbed, held>>

Remember(h) ==
    /\ pc[h] = "remember"
    /\ idem' = [idem EXCEPT ![Cur(h)] = ack[h]]
    /\ Answer(h, ack[h])
    /\ UNCHANGED <<store, roles, bounds, applied, notified, disturbed>>

(* An awaited Redis or database call throws. At "commit" the statement is rolled
   back; at "fanout" the error is its own too: it committed and the reply was lost. *)
Fail(h) ==
    /\ \/ pc[h] \in {"lookup", "member", "read", "write", "commit", "fanout", "remember"}
       \/ pc[h] = "enforce" /\ Policy[Entity[Cur(h).id]] = "checklistItem"
    /\ Mishap
    /\ Rejected(h)
    /\ UNCHANGED store

(* The process dies, or the client's connection does: no answer arrives. *)
Crash(h) ==
    /\ pc[h] # "idle"
    /\ Mishap
    /\ Goto(h, "idle")
    /\ batch' = [batch EXCEPT ![h] = <<>>]
    /\ roleCache' = [roleCache EXCEPT ![h] = NoCache]
    /\ existing' = [existing EXCEPT ![h] = None]
    /\ ack' = [ack EXCEPT ![h] = None]
    /\ held' = [held EXCEPT ![h] = NoRoles]
    /\ UNCHANGED <<store, idem, roles, applied, notified, answered, disturbed>>

----------------------------------------------------------------------------
(* The rest of the system. *)

(* The seven days of an idempotency record are over. *)
Expire(m) ==
    /\ idem[m] # None
    /\ Mishap
    /\ idem' = [idem EXCEPT ![m] = None]
    /\ UNCHANGED <<store, roles, local, history>>

(* members.setRole and members.remove, whose account keeps its open requests. *)
RoleChange(o, a, r) ==
    /\ roles[o][a] \notin {"owner", None, r}
    /\ Mishap
    /\ roles' = [roles EXCEPT ![o][a] = r]
    /\ held' = [h \in Handlers |->
         IF batch[h] # <<>> /\ Cur(h).account = a
         THEN [held[h] EXCEPT ![o] = @ \cup {r}] ELSE held[h]]
    /\ UNCHANGED <<store, idem, local, applied, notified, answered, disturbed>>

(* Rows deleted with i by ON DELETE CASCADE: the schema's longest chains are two
   foreign keys long, as project, checklist, item. *)
Children(i) == {j \in Ids : rows[j] # None /\ rows[j].cols.parent = i}

Under(i) == Children(i) \cup UNION {Children(j) : j \in Children(i)}

(* A statement under way holds its row and, by the foreign key, its parent. *)
Held(i) ==
    \E h \in Handlers :
      /\ pc[h] = "commit"
      /\ \/ Cur(h).id = i
         \/ Cur(h).op = "upsert" /\ Cur(h).parent = i

(* cleanup.pruneTombstones: any tombstone may be older than the cutoff, for
   deletedAt is the client's clock. The DELETE waits for the rows it takes. *)
Prune(i) ==
    /\ CleanupEnabled
    /\ rows[i] # None
    /\ rows[i].deletedAt # None
    /\ \A j \in {i} \cup Under(i) : ~ Held(j)
    /\ Mishap
    /\ rows' = [j \in Ids |-> IF j = i \/ j \in Under(i) THEN None ELSE rows[j]]
    /\ disturbed' = disturbed \cup {i} \cup Under(i)
    /\ UNCHANGED <<seq, idem, roles, local, applied, notified, answered, held>>

Step(h) ==
    \/ UnknownEntity(h) \/ Replay(h) \/ FirstSeen(h)
    \/ ResolveMembership(h) \/ NotMember(h)
    \/ ReadForeign(h) \/ ReadStale(h) \/ ReadFresh(h)
    \/ Enforce(h) \/ Deny(h)
    \/ DeleteNothing(h) \/ WriteGone(h) \/ WriteRefused(h) \/ BeginWrite(h)
    \/ CommitTombstone(h) \/ CommitUpdate(h) \/ CommitInsert(h)
    \/ FanOut(h) \/ Remember(h) \/ Fail(h) \/ Crash(h)

Next ==
    \/ \E h \in Handlers : Step(h) \/ \E b \in Batches : Send(h, b)
    \/ \E m \in Mutations : Expire(m)
    \/ \E o \in Orgs, a \in Accounts, r \in AssignableRoles \cup {None} : RoleChange(o, a, r)
    \/ \E i \in Ids : Prune(i)

Spec == Init /\ [][Next]_vars

----------------------------------------------------------------------------
(* Properties. *)

Writing(h, i) == pc[h] = "commit" /\ Cur(h).id = i /\ pc'[h] # "commit"

Rewritten(i) == rows'[i] # rows[i] /\ rows'[i] # None

(* The version of a row grows with every write of it, although versions are drawn
   at one moment and committed at another, with several statements under way at
   a time: by its version, no older write of a row passes for a newer one
   (nextRowVersion in write). Between rows there is no such order. *)
VersionsGrow ==
    [][\A i \in Ids : Rewritten(i) /\ rows[i] # None => rows'[i].ver > rows[i].ver]_vars

(* An applied ack's version names what its mutation wrote: while the row still
   has that version, it holds that mutation's data, whatever else was pushed,
   replayed or pruned in between (the RETURNING of write, cached in Redis). *)
Describes(r, m) ==
    /\ r.at = m.at
    /\ IF m.op = "delete" THEN r.deletedAt = m.at
       ELSE r.cols = m /\ r.deletedAt = m.deletedAt

VersionOf(a, m) ==
    /\ a # None
    /\ a.status = "applied"
    /\ rows[m.id] # None
    /\ rows[m.id].ver = a.ver

VersionIdentifies ==
    \A m \in Mutations : VersionOf(idem[m], m) => Describes(rows[m.id], m)

(* A row's timestamp fails to grow only in a write whose request read another
   row than the one it overwrote, or none: between its SELECT and its UPDATE
   somebody else wrote (applyMutation's LWW test and write's UPDATE). *)
LwwUnlessRaced ==
    [][\A i \in Ids : Rewritten(i) /\ rows[i] # None /\ rows'[i].at <= rows[i].at
         => \E h \in Handlers : Writing(h, i) /\ existing[h] # rows[i]]_vars

(* A mutation lands in a row of its own organization; the one way around the
   orgMismatch test is a row pruned and created anew, in another organization,
   after the request read it. *)
TenantIsolation ==
    [][\A i \in Ids : Rewritten(i) =>
         \E h \in Handlers :
           /\ Writing(h, i)
           /\ \/ rows'[i].org = Cur(h).org
              \/ existing[h] # None /\ existing[h].org # rows[i].org]_vars

(* Every change of a row rests on a role the account held at some time since
   its request began: a manager's for taxonomy, deletion of projects, and tasks
   and checklists, with the exception for the assignee who updates existing
   work (enforce, membershipCache). *)
ManagerRoles == {"owner", "admin", "manager"}

Entitled(role, m, r) ==
    LET entity == Entity[m.id]
        update == m.op = "upsert" /\ r # None
    IN /\ role # None
       /\ entity \in {"projectLabel", "tag", "checklistTemplate"} => role \in ManagerRoles
       /\ entity = "project" /\ m.op = "delete" => role \in ManagerRoles
       /\ entity \in {"task", "checklist"} =>
            role \in ManagerRoles \/ (update /\ r.cols.assignee = m.account)
       /\ entity = "checklistItem" => role \in ManagerRoles \/ update

Authorised ==
    [][\A i \in Ids : Rewritten(i) =>
         \E h \in Handlers :
           /\ Writing(h, i)
           /\ \E role \in held[h][Cur(h).org] :
                Entitled(role, Cur(h), existing[h])]_vars

(* However often a client repeats a mutation, whatever overlaps, fails or expires
   meanwhile, it changes its row at most once and notifies each member once, or
   as often as a photo comment names him (the idempotency key, then LWW). The
   exception is a row disturbed: overwritten by a request that had read another
   row, or removed by retention. *)
Copies(m, a) == IF Entity[m.id] = "photoComment" THEN Mentioned(m, a) ELSE 1

AtMostOnce ==
    \A m \in Mutations : m.id \notin disturbed =>
      /\ applied[m] <= 1
      /\ \A a \in Accounts : notified[m][a] <= Copies(m, a)

(* Last-Write-Wins as the comment in applyMutation states it: an equal-or-newer
   server row wins, so a write always raises its row's timestamp. *)
LwwOrder ==
    [][\A i \in Ids : Rewritten(i) /\ rows[i] # None => rows'[i].at > rows[i].at]_vars

(* The registers the clients see: however many requests overlap, fail and are
   repeated, push implements LwwRegister, which loses a register only when its
   row is disturbed: overwritten by a request that had read another row, or
   removed by retention (applyMutation, write, pruneTombstones). *)
RegisterOf(i) ==
    IF rows[i] = None \/ i \in disturbed THEN None
    ELSE [cols |-> rows[i].cols, at |-> rows[i].at, deletedAt |-> rows[i].deletedAt]

Lww == INSTANCE LwwRegister
         WITH value    <- [i \in Ids |-> RegisterOf(i)],
              promised <- {m \in answered : m.id \notin disturbed},
              lost     <- disturbed

ImplementsLww == Lww!Spec
====
