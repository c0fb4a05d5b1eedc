---- MODULE Retention ----
(* How long a tombstone lives: CleanupService.pruneTombstones
   (cleanup/cleanup.service.ts) against the devices that still have to see the
   delete, and the writes of SyncService.push that come late
   (sync/sync.service.ts). Time is in days; deletedAt and updatedAt are the
   clocks of the devices. A push reads the row and writes it later; a cursor may
   pass a change that commits during the pull (SyncPull), which is then hidden
   from the device until the row changes again. Whether the caller may write is
   left out (SyncPush): any push may be rejected.

   The devices are not part of the repository. What is assumed of them is the
   "device purge" that the retention window is set against: a device that has not
   synced for more than Purge days drops its copies and its unsent mutations; it
   pulls once its mutations are answered 'applied' or 'stale', and the deletedAt
   it sends is at most Lag days older than the updatedAt. *)
EXTENDS Integers, FiniteSets

CONSTANTS
    Rows, Devices,
    Retention,   \* TOMBSTONE_RETENTION_DAYS
    Purge,       \* days without a sync after which a device starts afresh
    Skew,        \* how many days a device's clock may be off
    Lag,         \* how many days a deletedAt may be older than its updatedAt
    MaxTime,     \* bound: days in a behaviour
    MaxChanges,  \* bound: changes that devices make
    MaxRequests, \* bound: pushes of a device at once
    None

ASSUME DaysAssumption ==
    /\ Retention \in Nat /\ Purge \in Nat \ {0} /\ Skew \in Nat /\ Lag \in Nat
    /\ MaxTime \in Nat

VARIABLES
    now,
    row,        \* row[r]: the server's row, or None
    copy,       \* copy[d][r]: the device's copy, or None
    pending,    \* pending[d]: mutations d has no answer to
    synced,     \* synced[d]: the day of d's last pull
    requests,   \* pushes between their SELECT and their write
    hidden,     \* <<d, r>>: d's cursor has passed the present state of r
    changes,
    created,    \* history: rows some device created
    landed,     \* history: rows the server ever had
    deadAt,     \* history: deadAt[r]: updatedAt of the newest delete answered 'applied'
    skipped,    \* history: rows whose mutations came out of order
    raced,      \* history: rows that changed between the SELECT and the write of a push
    vanished    \* history: rows pruned with a parent, or hidden from a device

history == <<created, landed, deadAt, skipped, raced, vanished>>
vars    == <<now, row, copy, pending, synced, requests, hidden, changes, history>>

Day      == Int \cup {None}
Row      == [updatedAt : Int, deletedAt : Day]
Mutation == [row : Rows, op : {"upsert", "delete"}, updatedAt : Int, deletedAt : Day]
Request  == [device : Devices, m : Mutation, seen : Row \cup {None}, since : Nat,
             passed : SUBSET Devices]

ASSUME NoneAssumption == None \notin Row \cup Int

TypeOK ==
    /\ now \in Nat
    /\ row \in [Rows -> Row \cup {None}]
    /\ copy \in [Devices -> [Rows -> Row \cup {None}]]
    /\ pending \in [Devices -> SUBSET Mutation]
    /\ synced \in [Devices -> Nat]
    /\ requests \subseteq Request
    /\ hidden \subseteq Devices \X Rows
    /\ changes \in Nat
    /\ created \subseteq Rows /\ landed \subseteq Rows
    /\ deadAt \in [Rows -> Day]
    /\ skipped \cup raced \cup vanished \subseteq Rows

NoRows == [r \in Rows |-> None]

Init ==
    /\ now = 0
    /\ row = NoRows
    /\ copy = [d \in Devices |-> NoRows]
    /\ pending = [d \in Devices |-> {}]
    /\ synced = [d \in Devices |-> 0]
    /\ requests = {} /\ hidden = {} /\ changes = 0
    /\ created = {} /\ landed = {}
    /\ deadAt = [r \in Rows |-> None]
    /\ skipped = {} /\ raced = {} /\ vanished = {}

Overdue(d) == now - synced[d] > Purge

Live(x) == x # None /\ x.deletedAt = None

----------------------------------------------------------------------------
(* No request outlasts two days. *)
Tick ==
    /\ now < MaxTime
    /\ \A q \in requests : q.since = now
    /\ now' = now + 1
    /\ UNCHANGED <<row, copy, pending, synced, requests, hidden, changes, history>>

(* A device changes its copy and notes the mutation, under its own clock. *)
Change(d, r, op, at, dead) ==
    /\ changes < MaxChanges
    /\ changes' = changes + 1
    /\ ~ Overdue(d)
    /\ copy' = [copy EXCEPT ![d][r] = [updatedAt |-> at, deletedAt |-> dead]]
    /\ pending' = [pending EXCEPT ![d] =
            @ \cup {[row |-> r, op |-> op, updatedAt |-> at, deletedAt |-> dead]}]
    /\ UNCHANGED <<now, row, synced, requests, hidden, landed, deadAt, skipped, raced, vanished>>

Clock(at) == at \in now - Skew .. now + Skew

Create(d, r, at) ==
    /\ r \notin created
    /\ created' = created \cup {r}
    /\ Clock(at)
    /\ Change(d, r, "upsert", at, None)

(* A device dates a change after the state of the row that it changes. *)
Modify(d, r, op, at, dead) ==
    /\ Live(copy[d][r])
    /\ Clock(at)
    /\ at > copy[d][r].updatedAt
    /\ Change(d, r, op, at, dead)
    /\ UNCHANGED created

StaleIfLive(m) == Live(row[m.row]) /\ row[m.row].updatedAt >= m.updatedAt  \* mutant

(* Last-Write-Wins: an equal-or-newer server row wins. *)
Stale(m) == row[m.row] # None /\ row[m.row].updatedAt >= m.updatedAt

(* The SELECT of applyMutation and the answer 'stale', for a device's oldest
   mutation of the row or, when the older one was answered 'rejected', a newer. *)
Read(d, m) ==
    /\ Cardinality({q \in requests : q.device = d}) < MaxRequests
    /\ ~ Overdue(d)
    /\ m \in pending[d]
    /\ skipped' = IF \E k \in pending[d] : k.row = m.row /\ k.updatedAt < m.updatedAt
                  THEN skipped \cup {m.row} ELSE skipped
    /\ IF Stale(m)
       THEN pending' = [pending EXCEPT ![d] = @ \ {m}] /\ UNCHANGED requests
       ELSE /\ requests' = requests \cup {[device |-> d, m |-> m, seen |-> row[m.row],
                                            since |-> now, passed |-> {}]}
            /\ UNCHANGED pending
    /\ UNCHANGED <<now, row, copy, synced, hidden, changes, created, landed, deadAt, raced, vanished>>

Later(m, at) == IF at = None \/ m.updatedAt > at THEN m.updatedAt ELSE at

(* A delete of what the SELECT did not find writes nothing. *)
Void(q) == q.m.op = "delete" /\ q.seen = None

(* The INSERT meets a row, or the UPDATE does not. *)
Conflict(q) == ~ Void(q) /\ (q.seen = None <=> row[q.m.row] # None)

(* write, on the row of that moment. The commit may be hidden from devices that
   pulled since the SELECT. The answer may get or the process may die before
   the ack is cached: the device sends the mutation again. (A retry that finds the
   cached ack writes nothing: it is this answer, come late.) *)
Write(q, answered, unseen) ==
    LET m == q.m
        r == q.m.row
    IN  /\ ~ Conflict(q)
        /\ requests' = requests \ {q}
        /\ IF Void(q) THEN UNCHANGED <<row, hidden>>
           ELSE /\ row' = [row EXCEPT ![r] = [updatedAt |-> m.updatedAt, deletedAt |-> m.deletedAt]]
                /\ hidden' = (hidden \ (Devices \X {r})) \cup (unseen \X {r})
        /\ landed' = IF Void(q) THEN landed ELSE landed \cup {r}
        /\ raced' = IF row[r] # q.seen THEN raced \cup {r} ELSE raced
        /\ deadAt' = IF m.deletedAt = None THEN deadAt ELSE [deadAt EXCEPT ![r] = Later(m, @)]
        /\ IF answered
           THEN pending' = [pending EXCEPT ![q.device] = @ \ {m}]
           ELSE UNCHANGED pending
        /\ UNCHANGED <<now, copy, synced, changes, created, skipped, vanished>>

(* 'rejected', by a policy, a conflict or an error: the device will try again. *)
Reject(q) ==
    /\ requests' = requests \ {q}
    /\ UNCHANGED <<now, row, copy, pending, synced, hidden, changes, history>>

Passed(d) == requests' = {[q EXCEPT !.passed = @ \cup {d}] : q \in requests}

(* A pull, after the pushes: what the server has and the cursor has not passed; a
   pruned row is not there. *)
Pull(d) ==
    /\ ~ Overdue(d)
    /\ pending[d] = {}
    /\ copy' = [copy EXCEPT ![d] = [r \in Rows |->
            IF row[r] # None /\ <<d, r>> \notin hidden THEN row[r] ELSE copy[d][r]]]
    /\ synced' = [synced EXCEPT ![d] = now]
    /\ Passed(d)
    /\ UNCHANGED <<now, row, pending, hidden, changes, history>>

(* The device purge: copies, unsent mutations and cursor are dropped; a full pull. *)
StartAfresh(d) ==
    /\ Overdue(d)
    /\ copy' = [copy EXCEPT ![d] = row]
    /\ pending' = [pending EXCEPT ![d] = {}]
    /\ synced' = [synced EXCEPT ![d] = now]
    /\ hidden' = hidden \ ({d} \X Rows)
    /\ Passed(d)
    /\ UNCHANGED <<now, row, changes, history>>

ExpiresAtOnce(x) == x # None /\ x.deletedAt # None                 \* mutant

(* isNotNull(deletedAt) and lt(deletedAt, cutoff). *)
Expired(x) == x # None /\ x.deletedAt # None /\ x.deletedAt < now - Retention

(* The DELETE of a parent that has expired takes its children with it, live or
   not: the foreign keys cascade. *)
pruneTombstones(orphans) ==
    LET pruned == {r \in Rows : r \in orphans \/ Expired(row[r])}
    IN  /\ orphans # {} => now - Retention > 0 - Skew - Lag
        /\ row' = [r \in Rows |-> IF r \in pruned THEN None ELSE row[r]]
        /\ vanished' = vanished \cup
                {r \in pruned : ~ Expired(row[r]) \/ \E d \in Devices : <<d, r>> \in hidden}
        /\ UNCHANGED <<now, copy, pending, synced, requests, hidden, changes,
                       created, landed, deadAt, skipped, raced>>

Next ==
    \/ Tick
    \/ \E d \in Devices, r \in Rows, at \in now - Skew .. now + Skew :
        \/ Create(d, r, at)
        \/ Modify(d, r, "delete", at, at)
        \/ \E dead \in {None} \cup (at - Lag .. at) : Modify(d, r, "upsert", at, dead)
    \/ \E d \in Devices : \E m \in pending[d] : Read(d, m)
    \/ \E q \in requests :
        \/ Reject(q)
        \/ \E answered \in BOOLEAN, unseen \in SUBSET q.passed : Write(q, answered, unseen)
    \/ \E d \in Devices : Pull(d) \/ StartAfresh(d)
    \/ \E orphans \in SUBSET {r \in Rows : row[r] # None} : pruneTombstones(orphans)

Spec == Init /\ [][Next]_vars

----------------------------------------------------------------------------
(* A row deleted on the server does not come back by a change older than its
   delete, tombstone or not. Three things can bring it back, and are named: the
   mutations of a device came out of order, a push wrote over a row other than the
   one it had read, or the tombstone went before every device could see it, with
   its parent or behind a cursor. *)
NoResurrection ==
    \A r \in Rows \ (skipped \cup raced \cup vanished) :
        Live(row[r]) /\ deadAt[r] # None => row[r].updatedAt > deadAt[r]

(* A device that is in use keeps no live copy of a row whose tombstone is gone:
   "every device has synced the delete first" (cleanup/cleanup.service.ts), but
   for a tombstone that went with its parent or that a cursor had passed. A row
   the device has still to push is not one. *)
NoGhost ==
    \A d \in Devices, r \in Rows \ vanished :
        ~ Overdue(d) /\ Live(copy[d][r]) /\ row[r] = None =>
            \E m \in pending[d] : m.row = r
====
