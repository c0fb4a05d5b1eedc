---- MODULE RetentionProofs ----
(* What pruning promises for any number of rows, devices and requests, and any
   clocks, when the window is long enough. *)
EXTENDS Retention, TLAPS

USE DaysAssumption, NoneAssumption

----------------------------------------------------------------------------
(* The inductive invariants. *)

(* Rows, copies and mutations are of rows that were created. *)
CreatedInv ==
    /\ \A r \in Rows : row[r] # None => r \in landed
    /\ landed \subseteq created
    /\ \A d \in Devices, r \in Rows : copy[d][r] # None => r \in created
    /\ \A d \in Devices : \A m \in pending[d] : m.row \in created
    /\ \A q \in requests : q.m.row \in created

(* A deletedAt is not too old for its updatedAt. *)
Dated(x) == x.deletedAt # None => x.deletedAt >= x.updatedAt - Lag

DatesInv ==
    /\ \A r \in Rows : row[r] # None => Dated(row[r])
    /\ \A d \in Devices :
        /\ synced[d] <= now
        /\ \A m \in pending[d] : Dated(m) /\ m.updatedAt >= synced[d] - Skew
    /\ \A q \in requests :
        /\ q.since <= now /\ now <= q.since + 1
        /\ Dated(q.m) /\ q.m.updatedAt >= q.since - Purge - Skew
        /\ q.seen # None => q.seen.updatedAt < q.m.updatedAt

(* The device has nothing left of the row. *)
Clear(d, r) == ~ Live(copy[d][r]) /\ \A m \in pending[d] : m.row # r

(* Who synced so long after a delete has seen it, or his cursor has passed it. *)
TombstonesSeen ==
    \A d \in Devices, r \in Rows :
        /\ row[r] # None /\ row[r].deletedAt # None /\ <<d, r>> \notin hidden
        /\ synced[d] > row[r].deletedAt + Purge + Skew + Lag + 1
        => Clear(d, r)

PrunedSeen ==
    \A d \in Devices, r \in landed \ vanished :
        row[r] = None /\ ~ Overdue(d) => Clear(d, r)

(* A row the server never had waits on its device, its creation before its delete. *)
UnlandedWaits ==
    \A d \in Devices, r \in Rows \ landed :
        /\ Live(copy[d][r]) =>
              \E k \in pending[d] : /\ k.row = r /\ k.op = "upsert"
                                    /\ k.updatedAt <= copy[d][r].updatedAt
        /\ \A m \in pending[d] : m.row = r /\ m.op = "delete" =>
              \E k \in pending[d] : /\ k.row = r /\ k.op = "upsert"
                                    /\ k.updatedAt < m.updatedAt

(* What a request that found no row may meet: a delete is out of order or after
   an early pruning; a row that came in the meantime is too young to go. *)
FreshInv ==
    \A q \in requests : q.seen = None =>
        /\ q.m.op = "delete" => q.m.row \in skipped \cup vanished
        /\ q.m.row \in landed \ vanished =>
            /\ row[q.m.row] # None
            /\ row[q.m.row].deletedAt # None =>
                row[q.m.row].deletedAt >= q.since - 1 - Purge - Skew - Lag

DeadInv ==
    \A r \in Rows \ (skipped \cup raced \cup vanished) : deadAt[r] # None =>
        /\ r \in landed
        /\ row[r] # None => row[r].updatedAt >= deadAt[r]
        /\ Live(row[r]) => row[r].updatedAt > deadAt[r]

RetentionInv ==
    /\ CreatedInv /\ DatesInv /\ TombstonesSeen /\ PrunedSeen /\ UnlandedWaits
    /\ FreshInv /\ DeadInv

----------------------------------------------------------------------------
(* The longest a delete may have waited: a purge on its device, the clock's error,
   the lag of its deletedAt and a night in the request that brings it; and a purge
   more on the device that is to see it. *)
WindowSuffices == Retention >= 2 * Purge + Skew + Lag + 1

----------------------------------------------------------------------------
(* What the steps do, in the terms of the invariants. *)

(* A pull leaves the requests under way but for the note that it passed them. *)
LEMMA PassedRequests ==
    ASSUME TypeOK, NEW d \in Devices, Passed(d)
    PROVE  \A p \in requests' :
            /\ p \in Request
            /\ \E q \in requests : /\ q.m = p.m /\ q.seen = p.seen
                                   /\ q.since = p.since /\ q.device = p.device
<1> SUFFICES ASSUME NEW p \in requests'
             PROVE  /\ p \in Request
                    /\ \E q \in requests : /\ q.m = p.m /\ q.seen = p.seen
                                           /\ q.since = p.since /\ q.device = p.device
    OBVIOUS
<1>1. PICK q \in requests : p = [q EXCEPT !.passed = q.passed \cup {d}]
    BY DEF Passed
<1>2. q \in Request
    BY DEF TypeOK
<1>3. p \in Request /\ p.m = q.m /\ p.seen = q.seen /\ p.since = q.since /\ p.device = q.device
    BY <1>1, <1>2 DEF Request
<1> QED
    BY <1>3

LEMMA ChangeStep ==
    ASSUME TypeOK, NEW d \in Devices, NEW r \in Rows, NEW op \in {"upsert", "delete"},
           NEW at \in Int, NEW dead \in Day, Change(d, r, op, at, dead)
    PROVE  /\ pending' \in [Devices -> SUBSET Mutation]
           /\ copy' \in [Devices -> [Rows -> Row \cup {None}]]
           /\ copy'[d][r] \in Row /\ copy'[d][r].updatedAt = at /\ copy'[d][r].deletedAt = dead
           /\ \A e \in Devices, s \in Rows : <<e, s>> # <<d, r>> => copy'[e][s] = copy[e][s]
           /\ \E k \in Mutation :
                /\ k.row = r /\ k.op = op /\ k.updatedAt = at /\ k.deletedAt = dead
                /\ pending' = [pending EXCEPT ![d] = pending[d] \cup {k}]
<1> DEFINE k == [row |-> r, op |-> op, updatedAt |-> at, deletedAt |-> dead]
<1>1. PICK x : x = [updatedAt |-> at, deletedAt |-> dead]
    OBVIOUS
<1>2. x \in Row /\ x.updatedAt = at /\ x.deletedAt = dead
    BY <1>1 DEF Row
<1>3. copy' = [copy EXCEPT ![d][r] = x]
    BY <1>1 DEF Change
<1>4. /\ copy' \in [Devices -> [Rows -> Row \cup {None}]]
      /\ copy'[d][r] = x
      /\ \A e \in Devices, s \in Rows : <<e, s>> # <<d, r>> => copy'[e][s] = copy[e][s]
    BY <1>2, <1>3 DEF TypeOK
<1>5. k \in Mutation /\ k.row = r /\ k.op = op /\ k.updatedAt = at /\ k.deletedAt = dead
    BY DEF Mutation
<1>6. pending' = [pending EXCEPT ![d] = pending[d] \cup {k}]
    BY DEF Change
<1>7. pending' \in [Devices -> SUBSET Mutation]
    BY <1>5, <1>6 DEF TypeOK
<1> HIDE DEF k
<1> QED
    BY <1>2, <1>4, <1>5, <1>6, <1>7

LEMMA ReadStep ==
    ASSUME TypeOK, NEW d \in Devices, NEW m \in pending[d], Read(d, m)
    PROVE  /\ m \in Mutation /\ ~ Overdue(d)
           /\ skipped \subseteq skipped' /\ skipped' \subseteq Rows
           /\ (\E k \in pending[d] : k.row = m.row /\ k.updatedAt < m.updatedAt)
                => m.row \in skipped'
           /\ \/ Stale(m) /\ pending' = [pending EXCEPT ![d] = pending[d] \ {m}]
                 /\ requests' = requests
              \/ ~ Stale(m) /\ pending' = pending
                 /\ \E q \in Request :
                        /\ q.device = d /\ q.m = m /\ q.seen = row[m.row] /\ q.since = now
                        /\ requests' = requests \cup {q}
<1>1. m \in Mutation /\ ~ Overdue(d)
    BY DEF Read, TypeOK
<1>2. /\ skipped \subseteq skipped' /\ skipped' \subseteq Rows
      /\ (\E k \in pending[d] : k.row = m.row /\ k.updatedAt < m.updatedAt)
            => m.row \in skipped'
    BY <1>1 DEF Read, TypeOK, Mutation
<1> DEFINE q == [device |-> d, m |-> m, seen |-> row[m.row], since |-> now, passed |-> {}]
<1>3. /\ q \in Request /\ q.device = d /\ q.m = m /\ q.seen = row[m.row] /\ q.since = now
    BY <1>1 DEF Request, TypeOK, Mutation
<1>4. \/ Stale(m) /\ pending' = [pending EXCEPT ![d] = pending[d] \ {m}] /\ requests' = requests
      \/ ~ Stale(m) /\ pending' = pending /\ requests' = requests \cup {q}
    BY DEF Read
<1> QED
    BY <1>1, <1>2, <1>3, <1>4

LEMMA WriteStep ==
    ASSUME TypeOK, NEW q \in requests, NEW answered \in BOOLEAN, NEW unseen \in SUBSET q.passed,
           Write(q, answered, unseen)
    PROVE  /\ q \in Request /\ q.m \in Mutation /\ q.m.row \in Rows
           /\ row' \in [Rows -> Row \cup {None}]
           /\ \A r \in Rows : r # q.m.row => row'[r] = row[r]
           /\ Void(q) => row' = row /\ landed' = landed
           /\ ~ Void(q) =>
                /\ row'[q.m.row] \in Row
                /\ row'[q.m.row].updatedAt = q.m.updatedAt
                /\ row'[q.m.row].deletedAt = q.m.deletedAt
                /\ q.seen = None <=> row[q.m.row] = None
                /\ landed' = landed \cup {q.m.row}
           /\ hidden' \subseteq Devices \X Rows
           /\ \A d \in Devices, r \in Rows : Void(q) \/ r # q.m.row =>
                (<<d, r>> \in hidden' <=> <<d, r>> \in hidden)
           /\ pending' \in [Devices -> SUBSET Mutation]
           /\ \A d \in Devices : /\ pending'[d] \subseteq pending[d]
                                 /\ \A k \in pending[d] \ pending'[d] : k = q.m
<1>1. q \in Request /\ q.m \in Mutation /\ q.m.row \in Rows
      /\ q.passed \subseteq Devices /\ q.device \in Devices
    BY DEF TypeOK, Request, Mutation
<1>2. PICK x : x = [updatedAt |-> q.m.updatedAt, deletedAt |-> q.m.deletedAt]
    OBVIOUS
<1>3. x \in Row /\ x.updatedAt = q.m.updatedAt /\ x.deletedAt = q.m.deletedAt
    BY <1>1, <1>2 DEF Row, Mutation
<1>4. IF Void(q) THEN row' = row /\ hidden' = hidden
      ELSE /\ row' = [row EXCEPT ![q.m.row] = x]
           /\ hidden' = (hidden \ (Devices \X {q.m.row})) \cup (unseen \X {q.m.row})
    BY <1>2 DEF Write
<1>5. landed' = IF Void(q) THEN landed ELSE landed \cup {q.m.row}
    BY DEF Write
<1>6. ~ Void(q) => (q.seen = None <=> row[q.m.row] = None)
    BY DEF Write, Conflict
<1>7. /\ row' \in [Rows -> Row \cup {None}]
      /\ \A r \in Rows : r # q.m.row => row'[r] = row[r]
      /\ ~ Void(q) => row'[q.m.row] = x
    BY <1>1, <1>3, <1>4 DEF TypeOK
<1>8. /\ hidden' \subseteq Devices \X Rows
      /\ \A d \in Devices, r \in Rows : Void(q) \/ r # q.m.row =>
                (<<d, r>> \in hidden' <=> <<d, r>> \in hidden)
    BY <1>1, <1>4 DEF TypeOK
<1>9. pending' = IF answered THEN [pending EXCEPT ![q.device] = pending[q.device] \ {q.m}]
                 ELSE pending
    BY DEF Write
<1>10. /\ pending' \in [Devices -> SUBSET Mutation]
       /\ \A d \in Devices : /\ pending'[d] \subseteq pending[d]
                             /\ \A k \in pending[d] \ pending'[d] : k = q.m
    BY <1>1, <1>9 DEF TypeOK
<1> QED
    BY <1>1, <1>3, <1>4, <1>5, <1>6, <1>7, <1>8, <1>10

LEMMA PruneStep ==
    ASSUME TypeOK, NEW orphans \in SUBSET {r \in Rows : row[r] # None}, pruneTombstones(orphans)
    PROVE  /\ row' \in [Rows -> Row \cup {None}]
           /\ vanished \subseteq vanished' /\ vanished' \subseteq Rows
           /\ \A r \in Rows :
                \/ row'[r] = row[r]
                \/ row'[r] = None /\ r \in orphans
                \/ row'[r] = None /\ Expired(row[r])
           /\ \A r \in Rows \ vanished' : row'[r] # row[r] =>
                Expired(row[r]) /\ \A d \in Devices : <<d, r>> \notin hidden
<1> DEFINE pruned == {r \in Rows : r \in orphans \/ Expired(row[r])}
<1>1. /\ row' = [r \in Rows |-> IF r \in pruned THEN None ELSE row[r]]
      /\ vanished' = vanished \cup
            {r \in pruned : ~ Expired(row[r]) \/ \E d \in Devices : <<d, r>> \in hidden}
    BY DEF pruneTombstones
<1> QED
    BY <1>1 DEF TypeOK

LEMMA TypeStep ==
    ASSUME TypeOK, [Next]_vars
    PROVE  TypeOK'
<1>1. ASSUME Tick PROVE TypeOK'
    BY <1>1 DEF Tick, history, TypeOK
<1>2. ASSUME NEW d \in Devices, NEW r \in Rows, NEW at \in Int, Create(d, r, at)
      PROVE  TypeOK'
    <2>1. Change(d, r, "upsert", at, None)
        BY <1>2 DEF Create
    <2>2. pending' \in [Devices -> SUBSET Mutation] /\ copy' \in [Devices -> [Rows -> Row \cup {None}]]
        BY <2>1, ChangeStep DEF Day
    <2> QED
        BY <1>2, <2>2 DEF Create, Change, TypeOK
<1>3. ASSUME NEW d \in Devices, NEW r \in Rows, NEW op \in {"upsert", "delete"}, NEW at \in Int,
             NEW dead \in Day, Modify(d, r, op, at, dead)
      PROVE  TypeOK'
    <2>1. Change(d, r, op, at, dead)
        BY <1>3 DEF Modify
    <2>2. pending' \in [Devices -> SUBSET Mutation] /\ copy' \in [Devices -> [Rows -> Row \cup {None}]]
        BY <2>1, ChangeStep
    <2> QED
        BY <1>3, <2>2 DEF Modify, Change, TypeOK
<1>4. ASSUME NEW d \in Devices, NEW m \in pending[d], Read(d, m) PROVE TypeOK'
    <2>1. /\ pending' \in [Devices -> SUBSET Mutation] /\ requests' \subseteq Request
          /\ skipped' \subseteq Rows
        BY <1>4, ReadStep DEF TypeOK
    <2> QED
        BY <1>4, <2>1 DEF Read, TypeOK
<1>5. ASSUME NEW q \in requests, NEW answered \in BOOLEAN, NEW unseen \in SUBSET q.passed,
             Write(q, answered, unseen)
      PROVE  TypeOK'
    <2>1. /\ q.m \in Mutation /\ q.m.row \in Rows
          /\ row' \in [Rows -> Row \cup {None}]
          /\ hidden' \subseteq Devices \X Rows
          /\ pending' \in [Devices -> SUBSET Mutation]
        BY <1>5, WriteStep
    <2>2. landed' \subseteq Rows /\ raced' \subseteq Rows /\ requests' \subseteq Request
        BY <1>5, <2>1 DEF Write, TypeOK
    <2>3. deadAt' \in [Rows -> Day]
        BY <1>5, <2>1 DEF Write, Later, TypeOK, Mutation, Day
    <2> QED
        BY <1>5, <2>1, <2>2, <2>3 DEF Write, TypeOK
<1>6. ASSUME NEW q \in requests, Reject(q) PROVE TypeOK'
    BY <1>6 DEF Reject, history, TypeOK
<1>7. ASSUME NEW d \in Devices, Pull(d) PROVE TypeOK'
    <2>1. requests' \subseteq Request
        BY <1>7, PassedRequests DEF Pull
    <2> QED
        BY <1>7, <2>1 DEF Pull, history, TypeOK
<1>8. ASSUME NEW d \in Devices, StartAfresh(d) PROVE TypeOK'
    <2>1. requests' \subseteq Request
        BY <1>8, PassedRequests DEF StartAfresh
    <2> QED
        BY <1>8, <2>1 DEF StartAfresh, history, TypeOK
<1>9. ASSUME NEW orphans \in SUBSET {r \in Rows : row[r] # None}, pruneTombstones(orphans)
      PROVE  TypeOK'
    <2>1. row' \in [Rows -> Row \cup {None}] /\ vanished' \subseteq Rows
        BY <1>9, PruneStep
    <2> QED
        BY <1>9, <2>1 DEF pruneTombstones, TypeOK
<1>10. ASSUME UNCHANGED vars PROVE TypeOK'
    BY <1>10 DEF vars, history, TypeOK
<1> QED
    <2>1. \A at \in now - Skew .. now + Skew : at \in Int
        BY DEF TypeOK
    <2>2. \A at \in Int : \A dead \in {None} \cup (at - Lag .. at) : dead \in Day
        BY DEF Day
    <2>3. \A at \in Int : at \in Day
        BY DEF Day
    <2> QED
        BY <1>1, <1>2, <1>3, <1>4, <1>5, <1>6, <1>7, <1>8, <1>9, <1>10, <2>1, <2>2, <2>3 DEF Next

----------------------------------------------------------------------------
(* Every step keeps the invariants. *)

(* The three kinds of change a device makes. *)
LEMMA Changes ==
    ASSUME TypeOK, NEW d \in Devices, NEW r \in Rows, NEW at \in now - Skew .. now + Skew,
           \/ Create(d, r, at)
           \/ Modify(d, r, "delete", at, at)
           \/ \E dead \in {None} \cup (at - Lag .. at) : Modify(d, r, "upsert", at, dead)
    PROVE  \E k \in Mutation :
            /\ k.row = r /\ k.updatedAt >= now - Skew /\ Dated(k)
            /\ pending' = [pending EXCEPT ![d] = pending[d] \cup {k}]
            /\ copy'[d][r] \in Row /\ copy'[d][r].updatedAt = k.updatedAt
            /\ \A e \in Devices, s \in Rows : <<e, s>> # <<d, r>> => copy'[e][s] = copy[e][s]
            /\ \/ r \notin created /\ created' = created \cup {r} /\ k.op = "upsert"
               \/ Live(copy[d][r]) /\ k.updatedAt > copy[d][r].updatedAt /\ created' = created
            /\ ~ Overdue(d)
            /\ UNCHANGED <<now, row, synced, requests, hidden, landed, deadAt, skipped, raced, vanished>>
<1>1. at \in Int /\ at >= now - Skew
    BY DEF TypeOK
<1>2. ASSUME NEW op \in {"upsert", "delete"}, NEW dead \in Day, Change(d, r, op, at, dead),
             dead # None => dead \in Int /\ dead >= at - Lag,
             \/ r \notin created /\ created' = created \cup {r} /\ op = "upsert"
             \/ Live(copy[d][r]) /\ at > copy[d][r].updatedAt /\ created' = created
      PROVE  \E k \in Mutation :
                /\ k.row = r /\ k.updatedAt >= now - Skew /\ Dated(k)
                /\ pending' = [pending EXCEPT ![d] = pending[d] \cup {k}]
                /\ copy'[d][r] \in Row /\ copy'[d][r].updatedAt = k.updatedAt
                /\ \A e \in Devices, s \in Rows : <<e, s>> # <<d, r>> => copy'[e][s] = copy[e][s]
                /\ \/ r \notin created /\ created' = created \cup {r} /\ k.op = "upsert"
                   \/ Live(copy[d][r]) /\ k.updatedAt > copy[d][r].updatedAt /\ created' = created
                /\ ~ Overdue(d)
                /\ UNCHANGED <<now, row, synced, requests, hidden, landed, deadAt, skipped, raced,
                               vanished>>
    <2>1. PICK k \in Mutation :
            /\ k.row = r /\ k.op = op /\ k.updatedAt = at /\ k.deletedAt = dead
            /\ pending' = [pending EXCEPT ![d] = pending[d] \cup {k}]
        BY <1>1, <1>2, ChangeStep
    <2>2. /\ copy'[d][r] \in Row /\ copy'[d][r].updatedAt = at
          /\ \A e \in Devices, s \in Rows : <<e, s>> # <<d, r>> => copy'[e][s] = copy[e][s]
        BY <1>1, <1>2, ChangeStep
    <2>3. Dated(k) /\ k.updatedAt >= now - Skew
        BY <1>1, <1>2, <2>1 DEF Dated
    <2>4. /\ ~ Overdue(d)
          /\ UNCHANGED <<now, row, synced, requests, hidden, landed, deadAt, skipped, raced, vanished>>
        BY <1>2 DEF Change
    <2> QED
        BY <1>2, <2>1, <2>2, <2>3, <2>4
<1>3. CASE Create(d, r, at)
    BY <1>2, <1>3 DEF Create, Day
<1>4. CASE Modify(d, r, "delete", at, at)
    <2>1. at >= at - Lag /\ at \in Day
        BY <1>1 DEF Day
    <2> QED
        BY <1>1, <1>2, <1>4, <2>1 DEF Modify
<1>5. CASE \E dead \in {None} \cup (at - Lag .. at) : Modify(d, r, "upsert", at, dead)
    <2>1. PICK dead \in {None} \cup (at - Lag .. at) : Modify(d, r, "upsert", at, dead)
        BY <1>5
    <2>2. dead \in Day /\ (dead # None => dead \in Int /\ dead >= at - Lag)
        BY <1>1 DEF Day
    <2> QED
        BY <1>2, <2>1, <2>2 DEF Modify
<1> QED
    BY <1>3, <1>4, <1>5

LEMMA CreatedStep ==
    ASSUME TypeOK, CreatedInv, [Next]_vars
    PROVE  CreatedInv'
<1>1. ASSUME NEW d \in Devices, NEW r \in Rows, NEW at \in now - Skew .. now + Skew,
             \/ Create(d, r, at)
             \/ Modify(d, r, "delete", at, at)
             \/ \E dead \in {None} \cup (at - Lag .. at) : Modify(d, r, "upsert", at, dead)
      PROVE  CreatedInv'
    <2>1. PICK k \in Mutation :
            /\ k.row = r
            /\ pending' = [pending EXCEPT ![d] = pending[d] \cup {k}]
            /\ \A e \in Devices, s \in Rows : <<e, s>> # <<d, r>> => copy'[e][s] = copy[e][s]
            /\ created' = created \cup {r} \/ (Live(copy[d][r]) /\ created' = created)
            /\ UNCHANGED <<row, landed, requests>>
        BY <1>1, Changes
    <2>2. created' = created \cup {r}
        BY <2>1 DEF Live, CreatedInv
    <2>3. \A e \in Devices : \A m \in pending'[e] : m.row \in created'
        BY <2>1, <2>2 DEF CreatedInv, TypeOK
    <2>4. \A e \in Devices, s \in Rows : copy'[e][s] # None => s \in created'
        BY <2>1, <2>2 DEF CreatedInv
    <2> QED
        BY <2>1, <2>2, <2>3, <2>4 DEF CreatedInv
<1>2. ASSUME NEW d \in Devices, NEW m \in pending[d], Read(d, m) PROVE CreatedInv'
    <2>1. /\ \A e \in Devices : pending'[e] \subseteq pending[e]
          /\ \A q \in requests' : q \in requests \/ q.m = m
        BY <1>2, ReadStep DEF TypeOK
    <2> QED
        BY <1>2, <2>1 DEF Read, CreatedInv
<1>3. ASSUME NEW q \in requests, NEW answered \in BOOLEAN, NEW unseen \in SUBSET q.passed,
             Write(q, answered, unseen)
      PROVE  CreatedInv'
    <2>1. /\ \A e \in Devices : pending'[e] \subseteq pending[e]
          /\ UNCHANGED <<copy, created>> /\ requests' \subseteq requests
        BY <1>3, WriteStep DEF Write
    <2>2. \A r \in Rows : row'[r] # None => r \in landed'
        BY <1>3, WriteStep DEF CreatedInv
    <2>3. landed' \subseteq created'
        BY <1>3, <2>1, WriteStep DEF CreatedInv
    <2> QED
        BY <2>1, <2>2, <2>3 DEF CreatedInv
<1>4. ASSUME NEW d \in Devices, Pull(d) PROVE CreatedInv'
    <2>1. /\ \A p \in requests' : \E q \in requests : q.m = p.m
          /\ UNCHANGED <<row, landed, created, pending>>
        BY <1>4, PassedRequests DEF Pull, history
    <2>2. \A e \in Devices, s \in Rows : copy'[e][s] # None => s \in created
        BY <1>4 DEF Pull, CreatedInv, TypeOK
    <2> QED
        BY <2>1, <2>2 DEF CreatedInv
<1>5. ASSUME NEW d \in Devices, StartAfresh(d) PROVE CreatedInv'
    <2>1. /\ \A p \in requests' : \E q \in requests : q.m = p.m
          /\ UNCHANGED <<row, landed, created>>
        BY <1>5, PassedRequests DEF StartAfresh, history
    <2>2. /\ \A e \in Devices, s \in Rows : copy'[e][s] # None => s \in created
          /\ \A e \in Devices : pending'[e] \subseteq pending[e]
        BY <1>5 DEF StartAfresh, CreatedInv, TypeOK
    <2> QED
        BY <2>1, <2>2 DEF CreatedInv
<1>6. ASSUME NEW orphans \in SUBSET {r \in Rows : row[r] # None}, pruneTombstones(orphans)
      PROVE  CreatedInv'
    <2>1. UNCHANGED <<landed, created, copy, pending, requests>>
        BY <1>6 DEF pruneTombstones
    <2>2. \A r \in Rows : row'[r] # None => row[r] # None
        BY <1>6, PruneStep
    <2> QED
        BY <2>1, <2>2 DEF CreatedInv
<1>7. ASSUME UNCHANGED <<row, landed, created, copy, pending>>, requests' \subseteq requests
      PROVE  CreatedInv'
    BY <1>7 DEF CreatedInv
<1>8. CASE Tick \/ UNCHANGED vars \/ \E q \in requests : Reject(q)
    BY <1>7, <1>8 DEF Tick, Reject, vars, history
<1> QED
    BY <1>1, <1>2, <1>3, <1>4, <1>5, <1>6, <1>8 DEF Next

LEMMA DatesStep ==
    ASSUME TypeOK, DatesInv, [Next]_vars
    PROVE  DatesInv'
<1>1. ASSUME Tick PROVE DatesInv'
    BY <1>1 DEF Tick, history, Dated, DatesInv, TypeOK, Request
<1>2. ASSUME NEW d \in Devices, NEW r \in Rows, NEW at \in now - Skew .. now + Skew,
             \/ Create(d, r, at)
             \/ Modify(d, r, "delete", at, at)
             \/ \E dead \in {None} \cup (at - Lag .. at) : Modify(d, r, "upsert", at, dead)
      PROVE  DatesInv'
    <2>1. PICK k \in Mutation :
            /\ k.updatedAt >= now - Skew /\ Dated(k)
            /\ pending' = [pending EXCEPT ![d] = pending[d] \cup {k}]
            /\ UNCHANGED <<now, row, synced, requests>>
        BY <1>2, Changes
    <2>2. k.updatedAt >= synced[d] - Skew
        BY <2>1 DEF DatesInv, TypeOK, Mutation
    <2>3. \A e \in Devices : \A m \in pending'[e] : Dated(m) /\ m.updatedAt >= synced[e] - Skew
        BY <2>1, <2>2 DEF DatesInv, TypeOK
    <2> QED
        BY <2>1, <2>3 DEF DatesInv
<1>3. ASSUME NEW d \in Devices, NEW m \in pending[d], Read(d, m) PROVE DatesInv'
    <2>1. /\ m \in Mutation /\ m.updatedAt \in Int /\ m.row \in Rows
          /\ Dated(m) /\ m.updatedAt >= synced[d] - Skew
        BY <1>3, ReadStep DEF DatesInv, Mutation
    <2>2. now <= synced[d] + Purge
        BY <1>3 DEF Read, Overdue, TypeOK
    <2>3. m.updatedAt >= now - Purge - Skew
        BY <2>1, <2>2 DEF TypeOK
    <2>4. ~ Stale(m) /\ row[m.row] # None => row[m.row].updatedAt < m.updatedAt
        BY <2>1 DEF Stale, TypeOK, Row
    <2>5. /\ \A e \in Devices : pending'[e] \subseteq pending[e]
          /\ \A q \in requests' :
                \/ q \in requests
                \/ ~ Stale(m) /\ q.m = m /\ q.since = now /\ q.seen = row[m.row]
        BY <1>3, ReadStep DEF TypeOK
    <2>6. UNCHANGED <<now, row, synced>>
        BY <1>3 DEF Read
    <2>7. \A q \in requests' :
            /\ q.since <= now /\ now <= q.since + 1
            /\ Dated(q.m) /\ q.m.updatedAt >= q.since - Purge - Skew
            /\ q.seen # None => q.seen.updatedAt < q.m.updatedAt
        BY <2>1, <2>3, <2>4, <2>5 DEF DatesInv, TypeOK
    <2> QED
        BY <2>5, <2>6, <2>7 DEF DatesInv
<1>4. ASSUME NEW q \in requests, NEW answered \in BOOLEAN, NEW unseen \in SUBSET q.passed,
             Write(q, answered, unseen)
      PROVE  DatesInv'
    <2>1. /\ \A e \in Devices : pending'[e] \subseteq pending[e]
          /\ UNCHANGED <<now, synced>> /\ requests' \subseteq requests
        BY <1>4, WriteStep DEF Write
    <2>2. \A r \in Rows : row'[r] # None => Dated(row'[r])
        BY <1>4, WriteStep DEF DatesInv, Dated
    <2> QED
        BY <2>1, <2>2 DEF DatesInv
<1>5. ASSUME NEW d \in Devices, Pull(d) PROVE DatesInv'
    <2>1. /\ \A p \in requests' : \E q \in requests : /\ q.m = p.m /\ q.since = p.since
                                                      /\ q.seen = p.seen
          /\ UNCHANGED <<now, row, pending>>
        BY <1>5, PassedRequests DEF Pull, history
    <2>2. \A e \in Devices : /\ synced'[e] <= now
                             /\ \A m \in pending[e] : m.updatedAt >= synced'[e] - Skew
        BY <1>5 DEF Pull, DatesInv, TypeOK
    <2> QED
        BY <2>1, <2>2 DEF DatesInv
<1>6. ASSUME NEW d \in Devices, StartAfresh(d) PROVE DatesInv'
    <2>1. /\ \A p \in requests' : \E q \in requests : /\ q.m = p.m /\ q.since = p.since
                                                      /\ q.seen = p.seen
          /\ UNCHANGED <<now, row>>
        BY <1>6, PassedRequests DEF StartAfresh, history
    <2>2. \A e \in Devices : /\ synced'[e] <= now
                             /\ \A m \in pending'[e] : /\ m \in pending[e]
                                                       /\ m.updatedAt >= synced'[e] - Skew
        BY <1>6 DEF StartAfresh, DatesInv, TypeOK
    <2> QED
        BY <2>1, <2>2 DEF DatesInv
<1>7. ASSUME NEW orphans \in SUBSET {r \in Rows : row[r] # None}, pruneTombstones(orphans)
      PROVE  DatesInv'
    <2>1. UNCHANGED <<now, synced, pending, requests>>
        BY <1>7 DEF pruneTombstones
    <2>2. \A r \in Rows : row'[r] # None => row'[r] = row[r]
        BY <1>7, PruneStep
    <2> QED
        BY <2>1, <2>2 DEF DatesInv
<1>8. CASE UNCHANGED vars \/ \E q \in requests : Reject(q)
    <2>1. UNCHANGED <<now, row, synced, pending>> /\ requests' \subseteq requests
        BY <1>8 DEF Reject, vars
    <2> QED
        BY <2>1 DEF DatesInv
<1> QED
    BY <1>1, <1>2, <1>3, <1>4, <1>5, <1>6, <1>7, <1>8 DEF Next

(* A device makes no change to a row it has nothing left of. *)
LEMMA ChangesElsewhere ==
    ASSUME TypeOK, CreatedInv, NEW d \in Devices, NEW r \in Rows,
           NEW at \in now - Skew .. now + Skew,
           \/ Create(d, r, at)
           \/ Modify(d, r, "delete", at, at)
           \/ \E dead \in {None} \cup (at - Lag .. at) : Modify(d, r, "upsert", at, dead)
    PROVE  /\ UNCHANGED <<now, row, synced, requests, hidden, landed, deadAt, skipped, raced, vanished>>
           /\ ~ Overdue(d)
           /\ \A e \in Devices, s \in landed : Clear(e, s) => Clear(e, s)'
<1>1. PICK k \in Mutation :
        /\ k.row = r
        /\ pending' = [pending EXCEPT ![d] = pending[d] \cup {k}]
        /\ \A e \in Devices, s \in Rows : <<e, s>> # <<d, r>> => copy'[e][s] = copy[e][s]
        /\ r \notin created \/ Live(copy[d][r])
        /\ ~ Overdue(d)
        /\ UNCHANGED <<now, row, synced, requests, hidden, landed, deadAt, skipped, raced, vanished>>
    BY Changes
<1>2. ASSUME NEW e \in Devices, NEW s \in landed, Clear(e, s) PROVE Clear(e, s)'
    <2>1. s \in created /\ s \in Rows
        BY <1>2 DEF CreatedInv, TypeOK
    <2>2. <<e, s>> # <<d, r>>
        BY <1>1, <1>2, <2>1 DEF Clear
    <2>3. copy'[e][s] = copy[e][s]
        BY <1>1, <2>1, <2>2
    <2>4. \A m \in pending'[e] : m.row = s => m \in pending[e]
        BY <1>1, <2>2 DEF TypeOK
    <2> QED
        BY <1>2, <2>3, <2>4 DEF Clear
<1> QED
    BY <1>1, <1>2

LEMMA TombstonesStep ==
    ASSUME TypeOK, RetentionInv, [Next]_vars
    PROVE  TombstonesSeen'
<1> USE DEF RetentionInv
<1>1. ASSUME NEW d \in Devices, NEW r \in Rows, NEW at \in now - Skew .. now + Skew,
             \/ Create(d, r, at)
             \/ Modify(d, r, "delete", at, at)
             \/ \E dead \in {None} \cup (at - Lag .. at) : Modify(d, r, "upsert", at, dead)
      PROVE  TombstonesSeen'
    BY <1>1, ChangesElsewhere DEF TombstonesSeen, CreatedInv
<1>2. ASSUME NEW d \in Devices, NEW m \in pending[d], Read(d, m) PROVE TombstonesSeen'
    <2>1. \A e \in Devices : pending'[e] \subseteq pending[e]
        BY <1>2, ReadStep DEF TypeOK
    <2>2. UNCHANGED <<row, copy, synced, hidden>>
        BY <1>2 DEF Read
    <2> QED
        BY <2>1, <2>2 DEF TombstonesSeen, Clear
<1>3. ASSUME NEW q \in requests, NEW answered \in BOOLEAN, NEW unseen \in SUBSET q.passed,
             Write(q, answered, unseen)
      PROVE  TombstonesSeen'
    <2>1. /\ \A e \in Devices : pending'[e] \subseteq pending[e]
          /\ UNCHANGED <<copy, synced>>
        BY <1>3, WriteStep DEF Write
    <2> SUFFICES ASSUME NEW e \in Devices, NEW r \in Rows,
                        row'[r] # None, row'[r].deletedAt # None, <<e, r>> \notin hidden',
                        synced[e] > row'[r].deletedAt + Purge + Skew + Lag + 1
                 PROVE  Clear(e, r)
        BY <2>1 DEF TombstonesSeen, Clear
    <2>2. CASE Void(q) \/ r # q.m.row
        BY <1>3, <2>2, WriteStep DEF TombstonesSeen
    <2>3. CASE ~ Void(q) /\ r = q.m.row
        <3>1. /\ q.m \in Mutation /\ q \in Request
              /\ row'[r].deletedAt = q.m.deletedAt
            BY <1>3, <2>3, WriteStep
        <3>2. /\ q.m.deletedAt \in Int /\ q.m.deletedAt >= q.m.updatedAt - Lag
              /\ q.m.updatedAt \in Int /\ q.m.updatedAt >= q.since - Purge - Skew
              /\ q.since \in Nat /\ now <= q.since + 1 /\ synced[e] <= now /\ synced[e] \in Nat
            BY <3>1 DEF DatesInv, Dated, Mutation, Request, Day, TypeOK
        <3> QED
            BY <3>1, <3>2 DEF TypeOK
    <2> QED
        BY <2>2, <2>3
<1>4. ASSUME NEW d \in Devices, Pull(d) PROVE TombstonesSeen'
    <2> SUFFICES ASSUME NEW e \in Devices, NEW r \in Rows,
                        row[r] # None, row[r].deletedAt # None, <<e, r>> \notin hidden,
                        synced'[e] > row[r].deletedAt + Purge + Skew + Lag + 1
                 PROVE  Clear(e, r)'
        BY <1>4 DEF Pull, TombstonesSeen
    <2>1. CASE e = d
        <3>1. copy'[d][r] = row[r] /\ pending'[d] = {}
            BY <1>4, <2>1 DEF Pull, TypeOK
        <3> QED
            BY <2>1, <3>1 DEF Clear, Live
    <2>2. CASE e # d
        <3>1. copy'[e] = copy[e] /\ synced'[e] = synced[e] /\ pending' = pending
            BY <1>4, <2>2 DEF Pull, TypeOK
        <3> QED
            BY <3>1 DEF TombstonesSeen, Clear
    <2> QED
        BY <2>1, <2>2
<1>5. ASSUME NEW d \in Devices, StartAfresh(d) PROVE TombstonesSeen'
    <2> SUFFICES ASSUME NEW e \in Devices, NEW r \in Rows,
                        row[r] # None, row[r].deletedAt # None, <<e, r>> \notin hidden',
                        synced'[e] > row[r].deletedAt + Purge + Skew + Lag + 1
                 PROVE  Clear(e, r)'
        BY <1>5 DEF StartAfresh, TombstonesSeen
    <2>1. CASE e = d
        <3>1. copy'[d] = row /\ pending'[d] = {}
            BY <1>5, <2>1 DEF StartAfresh, TypeOK
        <3> QED
            BY <2>1, <3>1 DEF Clear, Live
    <2>2. CASE e # d
        <3>1. /\ copy'[e] = copy[e] /\ synced'[e] = synced[e] /\ pending'[e] = pending[e]
              /\ <<e, r>> \notin hidden
            BY <1>5, <2>2 DEF StartAfresh, TypeOK
        <3> QED
            BY <3>1 DEF TombstonesSeen, Clear
    <2> QED
        BY <2>1, <2>2
<1>6. ASSUME NEW orphans \in SUBSET {r \in Rows : row[r] # None}, pruneTombstones(orphans)
      PROVE  TombstonesSeen'
    <2>1. UNCHANGED <<synced, copy, pending, hidden>>
        BY <1>6 DEF pruneTombstones
    <2>2. \A r \in Rows : row'[r] # None => row'[r] = row[r]
        BY <1>6, PruneStep
    <2> QED
        BY <2>1, <2>2 DEF TombstonesSeen, Clear
<1>7. CASE Tick \/ UNCHANGED vars \/ \E q \in requests : Reject(q)
    <2>1. UNCHANGED <<row, synced, copy, pending, hidden>>
        BY <1>7 DEF Tick, Reject, vars
    <2> QED
        BY <2>1 DEF TombstonesSeen, Clear
<1> QED
    BY <1>1, <1>2, <1>3, <1>4, <1>5, <1>6, <1>7 DEF Next

LEMMA PrunedStep ==
    ASSUME TypeOK, RetentionInv, WindowSuffices, [Next]_vars
    PROVE  PrunedSeen'
<1> USE DEF RetentionInv
<1>1. ASSUME NEW d \in Devices, NEW r \in Rows, NEW at \in now - Skew .. now + Skew,
             \/ Create(d, r, at)
             \/ Modify(d, r, "delete", at, at)
             \/ \E dead \in {None} \cup (at - Lag .. at) : Modify(d, r, "upsert", at, dead)
      PROVE  PrunedSeen'
    BY <1>1, ChangesElsewhere DEF PrunedSeen, Overdue
<1>2. ASSUME NEW d \in Devices, NEW m \in pending[d], Read(d, m) PROVE PrunedSeen'
    <2>1. \A e \in Devices : pending'[e] \subseteq pending[e]
        BY <1>2, ReadStep DEF TypeOK
    <2>2. UNCHANGED <<now, row, copy, synced, landed, vanished>>
        BY <1>2 DEF Read
    <2> QED
        BY <2>1, <2>2 DEF PrunedSeen, Clear, Overdue
<1>3. ASSUME NEW q \in requests, NEW answered \in BOOLEAN, NEW unseen \in SUBSET q.passed,
             Write(q, answered, unseen)
      PROVE  PrunedSeen'
    <2>1. /\ \A e \in Devices : pending'[e] \subseteq pending[e]
          /\ UNCHANGED <<now, copy, synced, vanished>>
        BY <1>3, WriteStep DEF Write
    <2>2. \A r \in Rows : r \in landed' /\ row'[r] = None => r \in landed /\ row[r] = None
        BY <1>3, WriteStep
    <2>3. landed' \subseteq Rows
        BY <1>3, WriteStep DEF TypeOK
    <2> QED
        BY <2>1, <2>2, <2>3 DEF PrunedSeen, Clear, Overdue
<1>4. ASSUME NEW d \in Devices, Pull(d) PROVE PrunedSeen'
    <2>1. UNCHANGED <<now, row, pending, landed, vanished>> /\ ~ Overdue(d)
        BY <1>4 DEF Pull, history
    <2>2. \A e \in Devices : ~ Overdue(e)' => ~ Overdue(e)
        BY <1>4 DEF Pull, Overdue, TypeOK
    <2>3. \A e \in Devices, r \in Rows : row[r] = None => copy'[e][r] = copy[e][r]
        BY <1>4 DEF Pull, TypeOK
    <2>4. landed \subseteq Rows
        BY DEF TypeOK
    <2> QED
        BY <2>1, <2>2, <2>3, <2>4 DEF PrunedSeen, Clear
<1>5. ASSUME NEW d \in Devices, StartAfresh(d) PROVE PrunedSeen'
    <2>1. UNCHANGED <<now, row, landed, vanished>>
        BY <1>5 DEF StartAfresh, history
    <2> SUFFICES ASSUME NEW e \in Devices, NEW r \in landed \ vanished, row[r] = None, ~ Overdue(e)'
                 PROVE  Clear(e, r)'
        BY <2>1 DEF PrunedSeen
    <2>2. CASE e = d
        BY <1>5, <2>2 DEF StartAfresh, Clear, Live, TypeOK
    <2>3. CASE e # d
        <3>1. copy'[e] = copy[e] /\ synced'[e] = synced[e] /\ pending'[e] = pending[e]
            BY <1>5, <2>3 DEF StartAfresh, TypeOK
        <3> QED
            BY <2>1, <3>1 DEF PrunedSeen, Clear, Overdue
    <2> QED
        BY <2>2, <2>3
<1>6. ASSUME NEW orphans \in SUBSET {r \in Rows : row[r] # None}, pruneTombstones(orphans)
      PROVE  PrunedSeen'
    <2>1. UNCHANGED <<now, copy, pending, synced, landed>>
        BY <1>6 DEF pruneTombstones
    <2>2. vanished \subseteq vanished'
        BY <1>6, PruneStep
    <2> SUFFICES ASSUME NEW d \in Devices, NEW r \in landed \ vanished', row'[r] = None, ~ Overdue(d)
                 PROVE  Clear(d, r)
        BY <2>1 DEF PrunedSeen, Clear, Overdue
    <2>3. CASE row[r] = None
        BY <2>2, <2>3 DEF PrunedSeen
    <2>4. CASE row[r] # None
        <3>1. r \in Rows /\ row[r] \in Row /\ Expired(row[r]) /\ <<d, r>> \notin hidden
            BY <1>6, <2>4, PruneStep DEF TypeOK
        <3>2. synced[d] > row[r].deletedAt + Purge + Skew + Lag + 1
            BY <3>1 DEF Expired, Overdue, WindowSuffices, Row, Day, TypeOK
        <3> QED
            BY <2>4, <3>1, <3>2 DEF TombstonesSeen, Expired
    <2> QED
        BY <2>3, <2>4
<1>7. CASE Tick
    <2>1. UNCHANGED <<row, copy, pending, synced, landed, vanished>> /\ now' = now + 1
        BY <1>7 DEF Tick, history
    <2>2. \A e \in Devices : ~ Overdue(e)' => ~ Overdue(e)
        BY <2>1 DEF Overdue, TypeOK
    <2> QED
        BY <2>1, <2>2 DEF PrunedSeen, Clear
<1>8. CASE UNCHANGED vars \/ \E q \in requests : Reject(q)
    <2>1. UNCHANGED <<now, row, copy, pending, synced, landed, vanished>>
        BY <1>8 DEF Reject, vars, history
    <2> QED
        BY <2>1 DEF PrunedSeen, Clear, Overdue
<1> QED
    BY <1>1, <1>2, <1>3, <1>4, <1>5, <1>6, <1>7, <1>8 DEF Next

LEMMA UnlandedStep ==
    ASSUME TypeOK, RetentionInv, [Next]_vars
    PROVE  UnlandedWaits'
<1> USE DEF RetentionInv
<1>1. ASSUME NEW d \in Devices, NEW r \in Rows, NEW at \in now - Skew .. now + Skew,
             \/ Create(d, r, at)
             \/ Modify(d, r, "delete", at, at)
             \/ \E dead \in {None} \cup (at - Lag .. at) : Modify(d, r, "upsert", at, dead)
      PROVE  UnlandedWaits'
    <2>1. PICK k \in Mutation :
            /\ k.row = r
            /\ pending' = [pending EXCEPT ![d] = pending[d] \cup {k}]
            /\ copy'[d][r] \in Row /\ copy'[d][r].updatedAt = k.updatedAt
            /\ \A e \in Devices, s \in Rows : <<e, s>> # <<d, r>> => copy'[e][s] = copy[e][s]
            /\ \/ r \notin created /\ k.op = "upsert"
               \/ Live(copy[d][r]) /\ k.updatedAt > copy[d][r].updatedAt
            /\ UNCHANGED landed
        BY <1>1, Changes
    <2>2. /\ pending'[d] = pending[d] \cup {k}
          /\ \A e \in Devices : e # d => pending'[e] = pending[e]
        BY <2>1 DEF TypeOK
    <2>3. ASSUME NEW e \in Devices, NEW s \in Rows \ landed, <<e, s>> # <<d, r>>
          PROVE  /\ Live(copy'[e][s]) =>
                      \E n \in pending'[e] : /\ n.row = s /\ n.op = "upsert"
                                             /\ n.updatedAt <= copy'[e][s].updatedAt
                 /\ \A m \in pending'[e] : m.row = s /\ m.op = "delete" =>
                      \E n \in pending'[e] : /\ n.row = s /\ n.op = "upsert"
                                             /\ n.updatedAt < m.updatedAt
        <3>1. copy'[e][s] = copy[e][s] /\ pending[e] \subseteq pending'[e]
            BY <2>1, <2>2, <2>3
        <3>2. \A m \in pending'[e] : m.row = s => m \in pending[e]
            BY <2>1, <2>2, <2>3
        <3> QED
            BY <3>1, <3>2 DEF UnlandedWaits
    <2>4. ASSUME r \notin landed, r \notin created, k.op = "upsert"
          PROVE  /\ \E n \in pending'[d] : /\ n.row = r /\ n.op = "upsert"
                                           /\ n.updatedAt <= copy'[d][r].updatedAt
                 /\ \A m \in pending'[d] : m.row = r => m.op # "delete"
        <3>1. k.updatedAt <= copy'[d][r].updatedAt
            BY <2>1 DEF Mutation
        <3>2. \A m \in pending[d] : m.row # r
            BY <2>4 DEF CreatedInv
        <3> QED
            BY <2>1, <2>2, <2>4, <3>1, <3>2
    <2>5. ASSUME r \notin landed, Live(copy[d][r]), k.updatedAt > copy[d][r].updatedAt
          PROVE  /\ \E n \in pending'[d] : /\ n.row = r /\ n.op = "upsert"
                                           /\ n.updatedAt <= copy'[d][r].updatedAt
                 /\ \A m \in pending'[d] : m.row = r /\ m.op = "delete" =>
                      \E n \in pending'[d] : /\ n.row = r /\ n.op = "upsert"
                                             /\ n.updatedAt < m.updatedAt
        <3>1. PICK n \in pending[d] : /\ n.row = r /\ n.op = "upsert"
                                      /\ n.updatedAt <= copy[d][r].updatedAt
            BY <2>5 DEF UnlandedWaits
        <3>2. n.updatedAt < k.updatedAt /\ n.updatedAt <= copy'[d][r].updatedAt
            BY <2>1, <2>5, <3>1 DEF TypeOK, Mutation, Row, Live
        <3> QED
            BY <2>1, <2>2, <2>5, <3>1, <3>2 DEF UnlandedWaits
    <2>6. ASSUME r \notin landed
          PROVE  /\ Live(copy'[d][r]) =>
                      \E n \in pending'[d] : /\ n.row = r /\ n.op = "upsert"
                                             /\ n.updatedAt <= copy'[d][r].updatedAt
                 /\ \A m \in pending'[d] : m.row = r /\ m.op = "delete" =>
                      \E n \in pending'[d] : /\ n.row = r /\ n.op = "upsert"
                                             /\ n.updatedAt < m.updatedAt
        BY <2>1, <2>4, <2>5, <2>6
    <2> QED
        BY <2>1, <2>3, <2>6 DEF UnlandedWaits
<1>2. ASSUME NEW d \in Devices, NEW m \in pending[d], Read(d, m) PROVE UnlandedWaits'
    <2>1. UNCHANGED <<copy, landed>>
        BY <1>2 DEF Read
    <2>2. CASE pending' = pending
        BY <2>1, <2>2 DEF UnlandedWaits
    <2>3. CASE Stale(m) /\ pending' = [pending EXCEPT ![d] = pending[d] \ {m}]
        <3>1. m.row \in landed
            BY <1>2, <2>3, ReadStep DEF Stale, CreatedInv, Mutation
        <3>2. \A e \in Devices : /\ pending'[e] \subseteq pending[e]
                                 /\ \A k \in pending[e] : k.row \notin landed => k \in pending'[e]
            BY <2>3, <3>1 DEF TypeOK
        <3> QED
            BY <2>1, <3>2 DEF UnlandedWaits
    <2> QED
        BY <1>2, <2>2, <2>3, ReadStep
<1>3. ASSUME NEW q \in requests, NEW answered \in BOOLEAN, NEW unseen \in SUBSET q.passed,
             Write(q, answered, unseen)
      PROVE  UnlandedWaits'
    <2>1. /\ q.m \in Mutation /\ landed \subseteq landed' /\ copy' = copy
          /\ ~ Void(q) => q.m.row \in landed'
        BY <1>3, WriteStep DEF Write
    <2>2. \A e \in Devices : \A k \in pending[e] :
            k.row \notin landed' /\ k.op = "upsert" => k \in pending'[e]
        <3>1. \A e \in Devices : \A k \in pending[e] \ pending'[e] : k = q.m
            BY <1>3, WriteStep
        <3> QED
            BY <2>1, <3>1 DEF Void
    <2>3. \A e \in Devices : pending'[e] \subseteq pending[e]
        BY <1>3, WriteStep
    <2> QED
        BY <2>1, <2>2, <2>3 DEF UnlandedWaits
<1>4. ASSUME NEW d \in Devices, Pull(d) PROVE UnlandedWaits'
    <2>1. \A e \in Devices, r \in Rows \ landed : copy'[e][r] = copy[e][r]
        BY <1>4 DEF Pull, TypeOK, CreatedInv
    <2> QED
        BY <1>4, <2>1 DEF Pull, history, UnlandedWaits
<1>5. ASSUME NEW d \in Devices, StartAfresh(d) PROVE UnlandedWaits'
    <2>1. copy'[d] = row /\ pending'[d] = {}
        BY <1>5 DEF StartAfresh, TypeOK
    <2>2. \A e \in Devices : e # d => copy'[e] = copy[e] /\ pending'[e] = pending[e]
        BY <1>5 DEF StartAfresh, TypeOK
    <2>3. landed' = landed /\ \A r \in Rows \ landed : row[r] = None
        BY <1>5 DEF StartAfresh, history, CreatedInv
    <2> SUFFICES ASSUME NEW e \in Devices, NEW r \in Rows \ landed
                 PROVE  (/\ Live(copy[e][r]) =>
                             \E k \in pending[e] : /\ k.row = r /\ k.op = "upsert"
                                                   /\ k.updatedAt <= copy[e][r].updatedAt
                         /\ \A n \in pending[e] : n.row = r /\ n.op = "delete" =>
                             \E k \in pending[e] : /\ k.row = r /\ k.op = "upsert"
                                                   /\ k.updatedAt < n.updatedAt)'
        BY <2>3 DEF UnlandedWaits
    <2>4. CASE e = d
        BY <2>1, <2>3, <2>4 DEF Live
    <2>5. CASE e # d
        BY <2>2, <2>5 DEF UnlandedWaits
    <2> QED
        BY <2>4, <2>5
<1>6. CASE \/ Tick \/ UNCHANGED vars \/ \E q \in requests : Reject(q)
           \/ \E orphans \in SUBSET {r \in Rows : row[r] # None} : pruneTombstones(orphans)
    <2>1. UNCHANGED <<copy, pending, landed>>
        BY <1>6 DEF Tick, Reject, pruneTombstones, vars, history
    <2> QED
        BY <2>1 DEF UnlandedWaits
<1> QED
    BY <1>1, <1>2, <1>3, <1>4, <1>5, <1>6 DEF Next

(* A device in use has mutations only of rows that are there, that the server
   never had, or that were pruned early. *)
LEMMA PendingMeets ==
    ASSUME TypeOK, PrunedSeen, NEW d \in Devices, NEW m \in pending[d], ~ Overdue(d),
           m.row \in landed \ vanished
    PROVE  row[m.row] # None
BY DEF PrunedSeen, Clear

LEMMA FreshStep ==
    ASSUME TypeOK, RetentionInv, WindowSuffices, [Next]_vars
    PROVE  FreshInv'
<1> USE DEF RetentionInv
<1>1. ASSUME NEW d \in Devices, NEW m \in pending[d], Read(d, m) PROVE FreshInv'
    <2>4. UNCHANGED <<row, landed, vanished>>
        BY <1>1 DEF Read
    <2>5. /\ m \in Mutation /\ ~ Overdue(d) /\ skipped \subseteq skipped'
          /\ \A q \in requests' : q \in requests \/ (q.m = m /\ q.seen = row[m.row])
        BY <1>1, ReadStep
    <2>1. /\ m \in Mutation /\ ~ Overdue(d) /\ skipped \subseteq skipped'
          /\ UNCHANGED <<row, landed, vanished>>
          /\ \A q \in requests' : q \in requests \/ (q.m = m /\ q.seen = row[m.row])
        BY <2>4, <2>5
    <2> SUFFICES ASSUME NEW q \in requests', q.m = m, row[m.row] = None
                 PROVE  /\ m.op = "delete" => m.row \in skipped' \cup vanished
                        /\ m.row \notin landed \ vanished
        BY <2>1 DEF FreshInv
    <2>2. m.row \notin landed \ vanished
        BY <2>1, PendingMeets
    <2>3. ASSUME m.op = "delete", m.row \notin landed PROVE m.row \in skipped'
        <3>1. m.row \in Rows
            BY <2>1 DEF Mutation
        <3>2. \E k \in pending[d] : k.row = m.row /\ k.updatedAt < m.updatedAt
            BY <2>3, <3>1 DEF UnlandedWaits
        <3> QED
            BY <1>1, <3>2, ReadStep
    <2> QED
        BY <2>2, <2>3
<1>2. ASSUME NEW q \in requests, NEW answered \in BOOLEAN, NEW unseen \in SUBSET q.passed,
             Write(q, answered, unseen)
      PROVE  FreshInv'
    <2>1. /\ requests' \subseteq requests /\ UNCHANGED <<now, skipped, vanished>>
          /\ q \in Request /\ q.m \in Mutation
        BY <1>2, WriteStep DEF Write
    <2> SUFFICES ASSUME NEW p \in requests, p.seen = None, p.m.row \in landed' \ vanished
                 PROVE  /\ row'[p.m.row] # None
                        /\ row'[p.m.row].deletedAt # None =>
                            row'[p.m.row].deletedAt >= p.since - 1 - Purge - Skew - Lag
        BY <2>1 DEF FreshInv
    <2>2. CASE Void(q) \/ p.m.row # q.m.row
        <3>1. p.m.row \in Rows
            BY DEF TypeOK, Request, Mutation
        <3>2. row'[p.m.row] = row[p.m.row] /\ p.m.row \in landed
            BY <1>2, <2>2, <3>1, WriteStep
        <3> QED
            BY <3>2 DEF FreshInv
    <2>3. CASE ~ Void(q) /\ p.m.row = q.m.row
        <3>1. row'[p.m.row] \in Row /\ row'[p.m.row].deletedAt = q.m.deletedAt
            BY <1>2, <2>3, WriteStep
        <3>2. /\ q.m.deletedAt # None =>
                    q.m.deletedAt \in Int /\ q.m.deletedAt >= q.m.updatedAt - Lag
              /\ q.m.updatedAt \in Int /\ q.m.updatedAt >= q.since - Purge - Skew
              /\ q.since \in Nat /\ now <= q.since + 1 /\ p.since <= now /\ p.since \in Nat
            BY <2>1 DEF DatesInv, Dated, Mutation, Request, Day, TypeOK
        <3> QED
            BY <3>1, <3>2 DEF TypeOK
    <2> QED
        BY <2>2, <2>3
<1>3. ASSUME NEW orphans \in SUBSET {r \in Rows : row[r] # None}, pruneTombstones(orphans)
      PROVE  FreshInv'
    <2>1. UNCHANGED <<requests, skipped, landed>> /\ vanished \subseteq vanished'
        BY <1>3, PruneStep DEF pruneTombstones
    <2> SUFFICES ASSUME NEW p \in requests, p.seen = None, p.m.row \in landed \ vanished'
                 PROVE  row'[p.m.row] = row[p.m.row]
        BY <2>1 DEF FreshInv
    <2> DEFINE r == p.m.row
    <2>2. r \in Rows /\ r \in landed \ vanished /\ p.since \in Nat
        BY <2>1 DEF TypeOK, Request, Mutation
    <2>3. row[r] \in Row /\ (row[r].deletedAt # None => row[r].deletedAt \in Int
                                /\ row[r].deletedAt >= p.since - 1 - Purge - Skew - Lag)
        BY <2>2 DEF FreshInv, TypeOK, Row, Day
    <2>4. now <= p.since + 1
        BY DEF DatesInv
    <2>5. ~ Expired(row[r])
        <3> SUFFICES ASSUME row[r].deletedAt # None, row[r].deletedAt < now - Retention
                     PROVE  FALSE
            BY DEF Expired
        <3>1. row[r].deletedAt \in Int /\ row[r].deletedAt >= p.since - 1 - Purge - Skew - Lag
            BY <2>3
        <3>2. Retention \in Nat /\ Retention >= 2 * Purge + Skew + Lag + 1 /\ now \in Nat
            BY DEF WindowSuffices, TypeOK
        <3> QED
            BY <2>2, <2>4, <3>1, <3>2
    <2> QED
        BY <1>3, <2>2, <2>5, PruneStep
<1>4. CASE \E d \in Devices : Pull(d) \/ StartAfresh(d)
    <2>1. PICK d \in Devices : Pull(d) \/ StartAfresh(d)
        BY <1>4
    <2>2. Passed(d) /\ UNCHANGED <<row, skipped, landed, vanished>>
        BY <2>1 DEF Pull, StartAfresh, history
    <2>3. \A p \in requests' : \E q \in requests : q.m = p.m /\ q.seen = p.seen /\ q.since = p.since
        BY <2>2, PassedRequests
    <2> QED
        BY <2>2, <2>3 DEF FreshInv
<1>5. ASSUME NEW d \in Devices, NEW r \in Rows, NEW at \in now - Skew .. now + Skew,
             \/ Create(d, r, at)
             \/ Modify(d, r, "delete", at, at)
             \/ \E dead \in {None} \cup (at - Lag .. at) : Modify(d, r, "upsert", at, dead)
      PROVE  FreshInv'
    BY <1>5, ChangesElsewhere DEF FreshInv
<1>6. CASE Tick \/ UNCHANGED vars \/ \E q \in requests : Reject(q)
    <2>1. UNCHANGED <<row, skipped, landed, vanished>> /\ requests' \subseteq requests
        BY <1>6 DEF Tick, Reject, vars, history
    <2> QED
        BY <2>1 DEF FreshInv
<1> QED
    BY <1>1, <1>2, <1>3, <1>4, <1>5, <1>6 DEF Next

LEMMA DeadStep ==
    ASSUME TypeOK, RetentionInv, [Next]_vars
    PROVE  DeadInv'
<1> USE DEF RetentionInv
<1>1. ASSUME NEW q \in requests, NEW answered \in BOOLEAN, NEW unseen \in SUBSET q.passed,
             Write(q, answered, unseen)
      PROVE  DeadInv'
    <2>1. /\ q \in Request /\ q.m \in Mutation /\ q.m.row \in Rows /\ q.m.updatedAt \in Int
          /\ UNCHANGED <<skipped, vanished>> /\ raced \subseteq raced'
          /\ row[q.m.row] # q.seen => q.m.row \in raced'
          /\ landed \subseteq landed'
        BY <1>1, WriteStep DEF Write, Mutation
    <2>2. deadAt' = IF q.m.deletedAt = None THEN deadAt
                    ELSE [deadAt EXCEPT ![q.m.row] = Later(q.m, deadAt[q.m.row])]
        BY <1>1 DEF Write
    <2> SUFFICES ASSUME NEW r \in Rows \ (skipped \cup raced' \cup vanished), deadAt'[r] # None
                 PROVE  /\ r \in landed'
                        /\ row'[r] # None => row'[r].updatedAt >= deadAt'[r]
                        /\ Live(row'[r]) => row'[r].updatedAt > deadAt'[r]
        BY <2>1 DEF DeadInv
    <2>3. CASE r # q.m.row
        <3>1. deadAt'[r] = deadAt[r] /\ row'[r] = row[r]
            BY <1>1, <2>1, <2>2, <2>3, WriteStep DEF TypeOK
        <3> QED
            BY <2>1, <3>1 DEF DeadInv
    <2>4. CASE r = q.m.row
        <3>1. row[r] = q.seen
            BY <2>1, <2>4
        <3>2. ~ Void(q)
            BY <2>4 DEF Void, FreshInv
        <3>3. /\ row'[r] \in Row /\ row'[r].updatedAt = q.m.updatedAt
              /\ row'[r].deletedAt = q.m.deletedAt /\ r \in landed'
            BY <1>1, <2>4, <3>2, WriteStep
        <3>4. deadAt[r] # None => deadAt[r] \in Int /\ deadAt[r] < q.m.updatedAt
            <4>1. CASE row[r] = None
                BY <2>1, <2>4, <3>1, <4>1 DEF FreshInv, DeadInv
            <4>2. CASE row[r] # None
                <5>1. row[r].updatedAt \in Int /\ row[r].updatedAt < q.m.updatedAt
                    BY <2>4, <3>1, <4>2 DEF DatesInv, TypeOK, Row
                <5>2. deadAt[r] # None => deadAt[r] \in Int /\ row[r].updatedAt >= deadAt[r]
                    BY <2>1, <4>2 DEF DeadInv, TypeOK, Day
                <5> QED
                    BY <2>1, <5>1, <5>2
            <4> QED
                BY <4>1, <4>2
        <3>5. CASE q.m.deletedAt = None
            BY <2>1, <2>2, <3>3, <3>4, <3>5
        <3>6. CASE q.m.deletedAt # None
            <4>1. deadAt'[r] = q.m.updatedAt
                BY <2>1, <2>2, <2>4, <3>4, <3>6 DEF Later, TypeOK
            <4> QED
                BY <2>1, <3>3, <3>6, <4>1 DEF Live
        <3> QED
            BY <3>5, <3>6
    <2> QED
        BY <2>3, <2>4
<1>2. ASSUME NEW orphans \in SUBSET {r \in Rows : row[r] # None}, pruneTombstones(orphans)
      PROVE  DeadInv'
    <2>1. UNCHANGED <<skipped, raced, landed, deadAt>> /\ vanished \subseteq vanished'
        BY <1>2, PruneStep DEF pruneTombstones
    <2>2. \A r \in Rows : row'[r] # None => row'[r] = row[r]
        BY <1>2, PruneStep
    <2> QED
        BY <2>1, <2>2 DEF DeadInv, Live
<1>3. ASSUME UNCHANGED <<row, landed, deadAt, raced, vanished>>, skipped \subseteq skipped'
      PROVE  DeadInv'
    BY <1>3 DEF DeadInv
<1>4. ASSUME NEW d \in Devices, NEW m \in pending[d], Read(d, m) PROVE DeadInv'
    BY <1>3, <1>4, ReadStep DEF Read
<1>5. CASE \/ Tick \/ UNCHANGED vars \/ \E q \in requests : Reject(q)
           \/ \E d \in Devices : Pull(d) \/ StartAfresh(d)
    BY <1>3, <1>5 DEF Tick, Reject, Pull, StartAfresh, vars, history
<1>6. ASSUME NEW d \in Devices, NEW r \in Rows, NEW at \in now - Skew .. now + Skew,
             \/ Create(d, r, at)
             \/ Modify(d, r, "delete", at, at)
             \/ \E dead \in {None} \cup (at - Lag .. at) : Modify(d, r, "upsert", at, dead)
      PROVE  DeadInv'
    BY <1>3, <1>6, ChangesElsewhere
<1> QED
    BY <1>1, <1>2, <1>4, <1>5, <1>6 DEF Next

LEMMA InvInit == Init => TypeOK /\ RetentionInv
<1> SUFFICES ASSUME Init PROVE TypeOK /\ RetentionInv
    OBVIOUS
<1>1. TypeOK
    BY DEF Init, NoRows, TypeOK, Day
<1>2. RetentionInv
    BY DEF Init, NoRows, RetentionInv, CreatedInv, DatesInv, TombstonesSeen, PrunedSeen,
           UnlandedWaits, FreshInv, DeadInv, Live
<1> QED
    BY <1>1, <1>2

(* Every reachable state is well typed, whatever the window. *)
THEOREM TypeCorrect == Spec => []TypeOK
<1>1. Init => TypeOK
    BY InvInit
<1>2. TypeOK /\ [Next]_vars => TypeOK'
    BY TypeStep
<1> QED
    BY <1>1, <1>2, PTL DEF Spec

LEMMA InvAlways == ASSUME WindowSuffices PROVE Spec => [](TypeOK /\ RetentionInv)
<1>1. TypeOK /\ RetentionInv /\ [Next]_vars => (TypeOK /\ RetentionInv)'
    <2> SUFFICES ASSUME TypeOK, RetentionInv, [Next]_vars PROVE (TypeOK /\ RetentionInv)'
        OBVIOUS
    <2>1. TypeOK' /\ CreatedInv' /\ DatesInv'
        BY TypeStep, CreatedStep, DatesStep DEF RetentionInv
    <2>2. TombstonesSeen' /\ PrunedSeen' /\ UnlandedWaits' /\ FreshInv' /\ DeadInv'
        BY TombstonesStep, PrunedStep, UnlandedStep, FreshStep, DeadStep
    <2> QED
        BY <2>1, <2>2 DEF RetentionInv
<1> QED
    BY InvInit, <1>1, PTL DEF Spec

(* "Every device has synced the delete first" (pruneTombstones) holds when the
   window suffices, but for a tombstone that went with its parent or that a
   device's cursor had passed unseen (vanished): the delete may have waited a whole
   purge on its device and a night in its request, and another device a whole purge
   for its next pull. *)
THEOREM DeletesReachEveryone == ASSUME WindowSuffices PROVE Spec => []NoGhost
<1>1. TypeOK /\ RetentionInv => NoGhost
    <2> SUFFICES ASSUME TypeOK, RetentionInv, NEW d \in Devices, NEW r \in Rows \ vanished,
                        ~ Overdue(d), Live(copy[d][r]), row[r] = None
                 PROVE  \E m \in pending[d] : m.row = r
        BY DEF NoGhost
    <2>1. r \notin landed
        BY DEF RetentionInv, PrunedSeen, Clear
    <2> QED
        BY <2>1 DEF RetentionInv, UnlandedWaits
<1> QED
    BY InvAlways, <1>1, PTL

(* A delete that was answered is not undone by an older change, with its tombstone
   or after it, whatever requests overlap, unless a request wrote over another row
   than it had read (raced), a device's mutations came out of order (skipped) or
   the tombstone went early (vanished): SyncService.push against pruneTombstones. *)
THEOREM DeletesStand == ASSUME WindowSuffices PROVE Spec => []NoResurrection
<1>1. RetentionInv => NoResurrection
    BY DEF RetentionInv, DeadInv, NoResurrection
<1> QED
    BY InvAlways, <1>1, PTL

----------------------------------------------------------------------------
(* What a shorter window is good for. *)

(* An expired tombstone goes only when no device in use, whatever it did offline,
   has an older change of its row to push, under way, or still to make. *)
PrunedLast ==
    [][\A r \in Rows : Expired(row[r]) /\ row'[r] = None =>
        /\ \A d \in Devices : ~ Overdue(d) =>
            /\ \A m \in pending[d] : m.row = r => m.updatedAt > row[r].updatedAt
            /\ synced[d] - Skew > row[r].updatedAt
        /\ \A q \in requests : q.m.row = r => q.m.updatedAt > row[r].updatedAt]_vars

(* A window of one device purge, the clocks' skew, the lag of a deletedAt and a
   night is long enough for this, for every tombstone: no change older than the
   delete meets its absence, so what brings a row back after such a window is a
   copy that outlived it, and never a write from before the delete
   (pruneTombstones). *)
THEOREM NoOlderChangeLeft ==
    ASSUME Retention >= Purge + Skew + Lag + 1
    PROVE  Spec => PrunedLast
<1>1. Init => TypeOK /\ DatesInv
    BY InvInit DEF RetentionInv
<1>2. TypeOK /\ DatesInv /\ [Next]_vars => (TypeOK /\ DatesInv)'
    BY TypeStep, DatesStep
<1> DEFINE Kept(r) == /\ \A d \in Devices : ~ Overdue(d) =>
                            /\ \A m \in pending[d] : m.row = r => m.updatedAt > row[r].updatedAt
                            /\ synced[d] - Skew > row[r].updatedAt
                      /\ \A q \in requests : q.m.row = r => q.m.updatedAt > row[r].updatedAt
<1>3. ASSUME TypeOK, DatesInv, NEW r \in Rows, Expired(row[r]) PROVE Kept(r)
    <2>1. /\ row[r].updatedAt \in Int /\ row[r].deletedAt \in Int
          /\ row[r].deletedAt >= row[r].updatedAt - Lag
          /\ row[r].deletedAt < now - Retention
        BY <1>3 DEF Expired, DatesInv, Dated, TypeOK, Row, Day
    <2>2. row[r].updatedAt < now - Purge - Skew - 1 /\ now \in Nat
        BY <1>3, <2>1 DEF TypeOK
    <2>3. ASSUME NEW d \in Devices, ~ Overdue(d)
          PROVE  /\ \A m \in pending[d] : m.row = r => m.updatedAt > row[r].updatedAt
                 /\ synced[d] - Skew > row[r].updatedAt
        <3>1. synced[d] - Skew > row[r].updatedAt /\ synced[d] \in Nat
            BY <1>3, <2>1, <2>2, <2>3 DEF Overdue, TypeOK
        <3>2. \A m \in pending[d] : m.updatedAt \in Int /\ m.updatedAt >= synced[d] - Skew
            BY <1>3 DEF DatesInv, TypeOK, Mutation
        <3> QED
            BY <2>1, <3>1, <3>2
    <2>4. ASSUME NEW q \in requests PROVE q.m.updatedAt > row[r].updatedAt
        <3>1. /\ q.since \in Nat /\ q.m.updatedAt \in Int
              /\ now <= q.since + 1 /\ q.m.updatedAt >= q.since - Purge - Skew
            BY <1>3 DEF DatesInv, TypeOK, Request, Mutation
        <3> QED
            BY <2>1, <2>2, <3>1
    <2> QED
        BY <2>3, <2>4
<1>4. TypeOK /\ DatesInv => \A r \in Rows : Expired(row[r]) => Kept(r)
    BY <1>3
<1>5. TypeOK /\ DatesInv /\ [Next]_vars =>
        \A r \in Rows : Expired(row[r]) /\ row'[r] = None => Kept(r)
    BY <1>4
<1> QED
    BY <1>1, <1>2, <1>5, PTL DEF Spec, PrunedLast
====
