---- MODULE SyncPushProofs ----
(* Theorems about SyncPush, for every value of its constants. *)
EXTENDS SyncPush, FiniteSetTheorems, TLAPS

USE NoneAssumption, MutationsAssumption

----------------------------------------------------------------------------
(* The inductive invariants. *)

(* What a statement under way holds: its row, which no other statement is at,
   which is there exactly when its request had read one, and a version of its own. *)
LockInv ==
    /\ \A h \in Handlers : pc[h] = "commit" =>
         /\ ack[h] \in Ack
         /\ ack[h].status = "applied"
         /\ ack[h].ver \in Nat
         /\ existing[h] = None <=> rows[Cur(h).id] = None
         /\ Cur(h).op = "delete" => existing[h] # None
    /\ \A g, h \in Handlers :
         pc[g] = "commit" /\ pc[h] = "commit" /\ Cur(g).id = Cur(h).id => g = h

(* Behind VersionIdentifies: versions in use were drawn, no two rows
   share one, and the same holds of an ack still in the request's hands. *)
Drawn(a) == a # None /\ a.ver # None => a.ver <= seq

VersionsDistinct ==
    /\ \A i \in Ids : rows[i] # None => rows[i].ver <= seq
    /\ \A i, j \in Ids :
         rows[i] # None /\ rows[j] # None /\ rows[i].ver = rows[j].ver => i = j

VersionInv ==
    /\ VersionsDistinct
    /\ VersionIdentifies
    /\ \A m \in Mutations : Drawn(idem[m])
    /\ \A h \in Handlers :
         /\ Drawn(ack[h])
         /\ ack[h] # None => pc[h] \in {"commit", "fanout", "remember"}
         /\ VersionOf(ack[h], Cur(h)) => Describes(rows[Cur(h).id], Cur(h))

(* Behind both, and behind VersionsGrow: the version of a statement under way is
   nobody else's, and above the version of the row it is about to overwrite. *)
FreshInv ==
    \A h \in Handlers : pc[h] = "commit" =>
      /\ \A i \in Ids : rows[i] # None => rows[i].ver # ack[h].ver
      /\ rows[Cur(h).id] # None => rows[Cur(h).id].ver < ack[h].ver
      /\ \A m \in Mutations : idem[m] # None => idem[m].ver # ack[h].ver
      /\ \A g \in Handlers : g # h /\ ack[g] # None => ack[g].ver # ack[h].ver

(* Behind LwwUnlessRaced and TenantIsolation: a request
   on its way to the write passed the orgMismatch and LWW tests against the row
   it read, which need no longer be the row it overwrites. *)
Passed(h) == ~ Foreign(existing[h], Cur(h)) /\ ~ Stale(existing[h], Cur(h))

ReadInv == \A h \in Handlers : pc[h] \in {"enforce", "write", "commit"} => Passed(h)

(* Behind Authorised: a batch has one account; what the cache
   has of its memberships was true while the request ran, and a mutation on its
   way to the write was let through for the cached role. *)
HeldInv ==
    \A h \in Handlers : pc[h] # "idle" =>
      /\ \A k \in DOMAIN batch[h] : batch[h][k].account = Cur(h).account
      /\ \A o \in Orgs :
           /\ roles[o][Cur(h).account] \in held[h][o]
           /\ roleCache[h][o] \in held[h][o] \cup {Unread}
      /\ pc[h] # "lookup" => KnownEntity(h)
      /\ pc[h] \in {"read", "enforce", "write", "commit"} =>
           roleCache[h][Cur(h).org] \notin {None, Unread}
      /\ pc[h] \in {"write", "commit"} => Entitled(roleCache[h][Cur(h).org], Cur(h), existing[h])

(* Behind AtMostOnce: a mutation that changed its row is no newer than the row,
   unless the row was disturbed, so the LWW test stops it when it comes again. *)
Once(m) ==
    /\ applied[m] <= 1
    /\ applied[m] = 1 => rows[m.id] # None /\ rows[m.id].at >= m.at
    /\ applied[m] = 0 => \A a \in Accounts : notified[m][a] = 0
    /\ \A a \in Accounts : notified[m][a] <= Copies(m, a)

Notifying(h) == pc[h] = "fanout" /\ Cur(h).id \notin disturbed

OnceInv ==
    /\ \A m \in Mutations : m.id \notin disturbed => Once(m)
    /\ \A h \in Handlers : Notifying(h) =>
         applied[Cur(h)] = 1 /\ \A a \in Accounts : notified[Cur(h)][a] = 0
    /\ \A g, h \in Handlers : Notifying(g) /\ Notifying(h) /\ Cur(g) = Cur(h) => g = h

(* Behind ImplementsLww: unless the row was disturbed, what an answer says of it
   stays true, whether the answer is cached or about to be given. *)
Kept(a, m) ==
    a # None /\ a.ver # None => rows[m.id] # None /\ rows[m.id].at >= m.at

Answered(h) == pc[h] \in {"fanout", "remember"}

AnswerInv ==
    /\ \A m \in Mutations : m.id \notin disturbed => Kept(idem[m], m)
    /\ \A h \in Handlers : Answered(h) =>
         ack[h] # None /\ (Cur(h).id \notin disturbed => Kept(ack[h], Cur(h)))

----------------------------------------------------------------------------
(* The current mutation of a busy request, and what is left after it. *)
LEMMA CurType ==
    ASSUME TypeOK, NEW h \in Handlers, pc[h] # "idle"
    PROVE  /\ batch[h] # <<>>
           /\ Cur(h) \in Mutations
           /\ Cur(h) \in MutationType
           /\ Tail(batch[h]) \in Seq(Mutations)
BY DEF TypeOK, Cur

LEMMA InitType == Init => TypeOK
<1> SUFFICES ASSUME Init PROVE TypeOK
    OBVIOUS
<1>1. NoCache \in [Orgs -> Roles \cup {None, Unread}]
    BY DEF NoCache
<1>2. NoRoles \in [Orgs -> SUBSET (Roles \cup {None})]
    BY DEF NoRoles
<1> QED
    BY <1>1, <1>2, RolesAssumption DEF Init, TypeOK, AwaitPoints

(* Ending a mutation leaves the request's locals well-typed. *)
LEMMA NextMutationType ==
    ASSUME TypeOK, NEW h \in Handlers, pc[h] # "idle",
           NEW cache \in [Orgs -> Roles \cup {None, Unread}],
           NextMutation(h, cache)
    PROVE  /\ pc' \in [Handlers -> AwaitPoints]
           /\ batch' \in [Handlers -> Seq(Mutations)]
           /\ \A g \in Handlers : pc'[g] # "idle" => batch'[g] # <<>>
           /\ roleCache' \in [Handlers -> [Orgs -> Roles \cup {None, Unread}]]
           /\ existing' \in [Handlers -> Row \cup {None}]
           /\ ack' \in [Handlers -> Ack \cup {None}]
           /\ held' \in [Handlers -> [Orgs -> SUBSET (Roles \cup {None})]]
<1>1. Tail(batch[h]) \in Seq(Mutations)
    BY CurType
<1>2. NoCache \in [Orgs -> Roles \cup {None, Unread}]
    BY DEF NoCache
<1>3. NoRoles \in [Orgs -> SUBSET (Roles \cup {None})]
    BY DEF NoRoles
<1> QED
    BY <1>1, <1>2, <1>3 DEF NextMutation, LastOne, Goto, TypeOK, AwaitPoints

(* Answering a mutation with a well-typed ack does too. *)
LEMMA AnswerType ==
    ASSUME TypeOK, NEW h \in Handlers, pc[h] # "idle", NEW a, Answer(h, a)
    PROVE  /\ answered' \in SUBSET Mutations
           /\ NextMutation(h, roleCache[h])
           /\ roleCache[h] \in [Orgs -> Roles \cup {None, Unread}]
BY CurType DEF Answer, TypeOK

(* A statement that commits a well-typed row does too. *)
LEMMA CommittedType ==
    ASSUME TypeOK, NEW h \in Handlers, pc[h] # "idle", NEW row \in Row, Committed(h, row)
    PROVE  TypeOK'
<1>1. Cur(h) \in Mutations /\ Cur(h).id \in Ids
    BY CurType DEF MutationType
<1>2. rows' \in [Ids -> Row \cup {None}] /\ disturbed' \subseteq Ids
    BY <1>1 DEF Committed, TypeOK
<1>3. applied' \in [Mutations -> Nat]
    BY <1>1 DEF Committed, TypeOK
<1>4. /\ pc' \in [Handlers -> AwaitPoints]
      /\ \A g \in Handlers : pc'[g] # "idle" => batch'[g] # <<>>
    BY DEF Committed, TypeOK, Goto, AwaitPoints
<1> QED
    BY <1>2, <1>3, <1>4 DEF Committed, TypeOK, bounds

(* The rows the three statements write are rows. *)
LEMMA RowType ==
    ASSUME NEW m \in Mutations, NEW v \in Nat
    PROVE  /\ Created(m, v) \in Row
           /\ \A r \in Row : Replaced(r, m, v) \in Row /\ Tombstoned(r, m, v) \in Row
BY DEF Row, MutationType, Created, Replaced, Tombstoned

(* A request ends its statement in one of three ways, and the row it leaves has
   its mutation's data and timestamp and the version drawn for it. *)
Commits(h) == CommitTombstone(h) \/ CommitUpdate(h) \/ CommitInsert(h)

LEMMA CommitsRow ==
    ASSUME TypeOK, LockInv, NEW h \in Handlers, Commits(h)
    PROVE  /\ pc[h] = "commit" /\ Cur(h) \in Mutations /\ Cur(h).id \in Ids
           /\ ack[h] # None /\ ack[h].ver \in Nat
           /\ \E row \in Row :
                /\ Committed(h, row)
                /\ row.ver = ack[h].ver
                /\ row.at = Cur(h).at
                /\ row.org = IF existing[h] = None THEN Cur(h).org ELSE rows[Cur(h).id].org
                /\ Describes(row, Cur(h))
<1> DEFINE m == Cur(h)
           v == ack[h].ver
<1>1. pc[h] = "commit"
    BY DEF Commits, CommitTombstone, CommitUpdate, CommitInsert
<1>2. /\ m \in Mutations /\ m \in MutationType /\ m.id \in Ids
      /\ rows[m.id] \in Row \cup {None}
    BY <1>1, CurType DEF MutationType, TypeOK
<1>3. v \in Nat /\ ack[h] # None
    BY <1>1, RowAssumption DEF LockInv
<1>4. existing[h] # None => rows[m.id] \in Row
    BY <1>1, <1>2 DEF LockInv
<1>5. CASE CommitTombstone(h)
    <2> DEFINE row == Tombstoned(rows[m.id], m, v)
    <2>1. existing[h] # None /\ m.op = "delete" /\ Committed(h, row)
        BY <1>1, <1>5 DEF CommitTombstone, LockInv
    <2>2. row \in Row
        BY <1>2, <1>3, <1>4, <2>1, RowType
    <2>3. row.ver = v /\ row.at = m.at /\ row.org = rows[m.id].org /\ Describes(row, m)
        BY <1>4, <2>1 DEF Tombstoned, Describes, Row
    <2> QED
        BY <1>1, <1>2, <1>3, <2>1, <2>2, <2>3
<1>6. CASE CommitUpdate(h)
    <2> DEFINE row == Replaced(rows[m.id], m, v)
    <2>1. existing[h] # None /\ m.op = "upsert" /\ Committed(h, row)
        BY <1>6 DEF CommitUpdate
    <2>2. row \in Row
        BY <1>2, <1>3, <1>4, <2>1, RowType
    <2>3. row.ver = v /\ row.at = m.at /\ row.org = rows[m.id].org /\ Describes(row, m)
        BY <1>4, <2>1 DEF Replaced, Describes, Row
    <2> QED
        BY <1>1, <1>2, <1>3, <2>1, <2>2, <2>3
<1>7. CASE CommitInsert(h)
    <2> DEFINE row == Created(m, v)
    <2>1. existing[h] = None /\ m.op = "upsert" /\ Committed(h, row)
        BY <1>7 DEF CommitInsert
    <2>2. row \in Row
        BY <1>2, <1>3, RowType
    <2>3. row.ver = v /\ row.at = m.at /\ row.org = m.org /\ Describes(row, m)
        BY <2>1 DEF Created, Describes
    <2> QED
        BY <1>1, <1>2, <1>3, <2>1, <2>2, <2>3
<1> QED
    BY <1>5, <1>6, <1>7 DEF Commits

(* Every step of a request preserves the types. *)
LEMMA StepType ==
    ASSUME TypeOK, LockInv, NEW h \in Handlers, Step(h)
    PROVE  TypeOK'
<1>0. pc[h] # "idle"
    BY DEF Step, UnknownEntity, Replay, FirstSeen, ResolveMembership, NotMember, ReadForeign, ReadStale, ReadFresh, Enforce, Deny, DeleteNothing, WriteGone, WriteRefused, BeginWrite, CommitTombstone, CommitUpdate, CommitInsert, FanOut, Remember, Fail, Crash
<1> DEFINE m == Cur(h)
<1>1. m \in Mutations /\ m \in MutationType
    BY <1>0, CurType
<1>2. /\ roleCache[h] \in [Orgs -> Roles \cup {None, Unread}]
      /\ rows[m.id] \in Row \cup {None}
      /\ Membership(h, m) \in Roles \cup {None, Unread}
    BY <1>1 DEF TypeOK, Membership, MutationType
<1>3. seq \in Nat /\ seq + 1 \in Nat
    BY DEF TypeOK
<1>4. CASE UnknownEntity(h)
    BY <1>0, <1>2, <1>3, <1>4, NextMutationType DEF UnknownEntity, Rejected, TypeOK, store, bounds
<1>5. CASE Replay(h)
    BY <1>0, <1>5, NextMutationType, AnswerType DEF Replay, TypeOK, store, bounds
<1>6. CASE FirstSeen(h)
    BY <1>0, <1>1, <1>2, <1>6 DEF FirstSeen, TypeOK, store, bounds, local, history, Goto, AwaitPoints
<1>7. CASE ResolveMembership(h)
    BY <1>0, <1>1, <1>2, <1>7, NextMutationType DEF ResolveMembership, MutationType, TypeOK, store, bounds, local, history, Goto, AwaitPoints
<1>8. CASE NotMember(h)
    BY <1>0, <1>1, <1>2, <1>8, NextMutationType DEF NotMember, MutationType, TypeOK, store, bounds, local, history, Goto, AwaitPoints
<1>9. CASE ReadForeign(h)
    BY <1>0, <1>2, <1>3, <1>9, NextMutationType DEF ReadForeign, Rejected, TypeOK, store, bounds
<1>10. CASE ReadStale(h)
    <2>1. [status |-> "stale", ver |-> rows[m.id].ver] \in Ack
        BY <1>2, <1>10 DEF ReadStale, Stale, Ack, Row
    <2>2. ack' \in [Handlers -> Ack \cup {None}]
        BY <1>10, <2>1 DEF ReadStale, TypeOK
    <2> QED
        BY <1>10, <2>2 DEF ReadStale, TypeOK, store, bounds, local, history, Goto, AwaitPoints
<1>11. CASE ReadFresh(h)
    BY <1>0, <1>1, <1>2, <1>11 DEF ReadFresh, TypeOK, store, bounds, local, history, Goto, AwaitPoints
<1>12. CASE Enforce(h)
    BY <1>0, <1>1, <1>2, <1>12 DEF Enforce, TypeOK, store, bounds, local, history, Goto, AwaitPoints
<1>13. CASE Deny(h)
    BY <1>0, <1>2, <1>3, <1>13, NextMutationType DEF Deny, Rejected, TypeOK, store, bounds
<1>14. CASE DeleteNothing(h)
    <2>1. [status |-> "applied", ver |-> None] \in Ack
        BY DEF Ack
    <2>2. ack' \in [Handlers -> Ack \cup {None}]
        BY <1>14, <2>1 DEF DeleteNothing, TypeOK
    <2> QED
        BY <1>14, <2>2 DEF DeleteNothing, TypeOK, store, bounds, local, history, Goto, AwaitPoints
<1>15. CASE Commits(h)
    BY <1>0, <1>15, CommitsRow, CommittedType
<1>16. CASE BeginWrite(h)
    <2>1. [status |-> "applied", ver |-> seq + 1] \in Ack
        BY <1>3 DEF Ack
    <2>2. ack' \in [Handlers -> Ack \cup {None}]
        BY <1>16, <2>1 DEF BeginWrite, TypeOK
    <2> QED
        BY <1>3, <1>16, <2>2 DEF BeginWrite, TypeOK, bounds, history, Goto, AwaitPoints
<1>18. CASE WriteGone(h)
    BY <1>0, <1>2, <1>3, <1>18, NextMutationType DEF WriteGone, Rejected, TypeOK, store, bounds
<1>19. CASE WriteRefused(h)
    BY <1>0, <1>2, <1>3, <1>19, NextMutationType DEF WriteRefused, Rejected, TypeOK, store, bounds
<1>20. CASE FanOut(h)
    <2>1. PICK made \in [Accounts -> 0..(Len(m.mentions) + 1)] :
             notified' = [notified EXCEPT ![m] = [a \in Accounts |-> notified[m][a] + made[a]]]
        BY <1>20 DEF FanOut
    <2>2. \A a \in Accounts : made[a] \in Nat
        BY <1>1, <2>1 DEF MutationType
    <2>3. \A a \in Accounts : notified[m][a] \in Nat
        BY <1>1 DEF TypeOK
    <2>4. [a \in Accounts |-> notified[m][a] + made[a]] \in [Accounts -> Nat]
        BY <2>2, <2>3
    <2>5. notified' \in [Mutations -> [Accounts -> Nat]]
        BY <1>1, <2>1, <2>4 DEF TypeOK
    <2>6. /\ pc' \in [Handlers -> AwaitPoints]
          /\ \A g \in Handlers : pc'[g] # "idle" => batch'[g] # <<>>
        BY <1>20 DEF FanOut, Goto, TypeOK, AwaitPoints
    <2> QED
        BY <1>20, <2>5, <2>6 DEF FanOut, TypeOK, store, bounds
<1>21. CASE Remember(h)
    <2>1. idem' \in [Mutations -> Ack \cup {None}]
        BY <1>1, <1>21 DEF Remember, TypeOK
    <2> QED
        BY <1>0, <1>21, <2>1, NextMutationType, AnswerType DEF Remember, TypeOK, store, bounds
<1>22. CASE Fail(h)
    BY <1>0, <1>2, <1>22, NextMutationType DEF Fail, Mishap, Rejected, TypeOK, store
<1>23. CASE Crash(h)
    BY <1>23 DEF Crash, Mishap, NoCache, NoRoles, TypeOK, store, bounds, local, history, Goto, AwaitPoints
<1> QED
    BY <1>4, <1>5, <1>6, <1>7, <1>8, <1>9, <1>10, <1>11, <1>12, <1>13, <1>14, <1>15, <1>16, <1>18, <1>19, <1>20, <1>21, <1>22, <1>23 DEF Step, Commits

(* And so does the rest of the system. *)
LEMMA NextType ==
    ASSUME TypeOK, LockInv, [Next]_vars
    PROVE  TypeOK'
<1>1. CASE \E h \in Handlers : Step(h)
    BY <1>1, StepType
<1>2. ASSUME NEW h \in Handlers, NEW b \in Batches, Send(h, b)
      PROVE  TypeOK'
    <2>1. b \in Seq(Mutations) /\ b # <<>> /\ Head(b).account \in Accounts
        BY BatchesAssumption DEF MutationType
    <2>2. NoCache \in [Orgs -> Roles \cup {None, Unread}]
        BY DEF NoCache
    <2>3. [o \in Orgs |-> {roles[o][Head(b).account]}] \in [Orgs -> SUBSET (Roles \cup {None})]
        BY <2>1 DEF TypeOK
    <2> QED
        BY <1>2, <2>1, <2>2, <2>3 DEF Send, TypeOK, AwaitPoints, Goto, store
<1>3. ASSUME NEW m \in Mutations, Expire(m)
      PROVE  TypeOK'
    BY <1>3 DEF Expire, Mishap, TypeOK, store, local, history
<1>4. ASSUME NEW o \in Orgs, NEW a \in Accounts, NEW r \in AssignableRoles \cup {None},
             RoleChange(o, a, r)
      PROVE  TypeOK'
    <2>1. r \in Roles \cup {None}
        BY DEF AssignableRoles, Roles
    <2>2. roles' \in [Orgs -> [Accounts -> Roles \cup {None}]]
        BY <1>4, <2>1 DEF RoleChange, TypeOK
    <2>3. held' \in [Handlers -> [Orgs -> SUBSET (Roles \cup {None})]]
        BY <1>4, <2>1 DEF RoleChange, TypeOK
    <2> QED
        BY <1>4, <2>2, <2>3 DEF RoleChange, Mishap, TypeOK, store, local
<1>5. ASSUME NEW i \in Ids, Prune(i)
      PROVE  TypeOK'
    <2>1. Under(i) \subseteq Ids
        BY DEF Under, Children
    <2> QED
        BY <1>5, <2>1 DEF Prune, Mishap, TypeOK, local, history
<1>6. CASE UNCHANGED vars
    BY <1>6 DEF vars, TypeOK, store, bounds, local, history
<1> QED
    BY <1>1, <1>2, <1>3, <1>4, <1>5, <1>6 DEF Next

----------------------------------------------------------------------------
(* Who moves, and what a statement under way holds. *)

(* A step moves one request; only ReadFresh and Enforce take it on to
   the write, and only BeginWrite begins it. *)
LEMMA OneMoves ==
    ASSUME TypeOK, NEW h \in Handlers, Step(h)
    PROVE  /\ \A g \in Handlers \ {h} :
                /\ pc'[g] = pc[g]
                /\ batch'[g] = batch[g]
                /\ existing'[g] = existing[g]
                /\ roleCache'[g] = roleCache[g]
                /\ ack'[g] = ack[g]
                /\ held'[g] = held[g]
           /\ pc'[h] \in {"enforce", "write"} => ReadFresh(h) \/ Enforce(h)
           /\ pc'[h] = "commit" => BeginWrite(h)
<1>1. CASE UnknownEntity(h)
    BY <1>1 DEF UnknownEntity, Rejected, NextMutation, LastOne, Goto, TypeOK
<1>2. CASE Replay(h)
    BY <1>2 DEF Replay, Answer, NextMutation, LastOne, Goto, TypeOK
<1>3. CASE FirstSeen(h)
    BY <1>3 DEF FirstSeen, Goto, TypeOK, history
<1>4. CASE ResolveMembership(h)
    BY <1>4 DEF ResolveMembership, Goto, TypeOK, history
<1>5. CASE NotMember(h)
    BY <1>5 DEF NotMember, NextMutation, LastOne, Goto, TypeOK
<1>6. CASE ReadForeign(h)
    BY <1>6 DEF ReadForeign, Rejected, NextMutation, LastOne, Goto, TypeOK
<1>7. CASE ReadStale(h)
    BY <1>7 DEF ReadStale, Goto, TypeOK, history
<1>8. CASE ReadFresh(h)
    BY <1>8 DEF ReadFresh, Goto, TypeOK, history
<1>9. CASE Enforce(h)
    BY <1>9 DEF Enforce, Goto, TypeOK, history
<1>10. CASE Deny(h)
    BY <1>10 DEF Deny, Rejected, NextMutation, LastOne, Goto, TypeOK
<1>11. CASE DeleteNothing(h)
    BY <1>11 DEF DeleteNothing, Goto, TypeOK, history
<1>12. CASE Commits(h)
    BY <1>12 DEF Commits, CommitTombstone, CommitUpdate, CommitInsert, Committed, Goto, TypeOK
<1>13. CASE BeginWrite(h)
    BY <1>13 DEF BeginWrite, Goto, TypeOK, history
<1>15. CASE WriteGone(h)
    BY <1>15 DEF WriteGone, Rejected, NextMutation, LastOne, Goto, TypeOK
<1>16. CASE WriteRefused(h)
    BY <1>16 DEF WriteRefused, Rejected, NextMutation, LastOne, Goto, TypeOK
<1>17. CASE FanOut(h)
    BY <1>17 DEF FanOut, Goto, TypeOK
<1>18. CASE Remember(h)
    BY <1>18 DEF Remember, Answer, NextMutation, LastOne, Goto, TypeOK
<1>19. CASE Fail(h)
    BY <1>19 DEF Fail, Rejected, NextMutation, LastOne, Goto, TypeOK
<1>20. CASE Crash(h)
    BY <1>20 DEF Crash, Goto, TypeOK
<1> QED
    BY <1>1, <1>2, <1>3, <1>4, <1>5, <1>6, <1>7, <1>8, <1>9, <1>10, <1>11, <1>12, <1>13, <1>15, <1>16, <1>17, <1>18, <1>19, <1>20 DEF Step, Commits

(* A step of a request changes its own row alone, and only when it commits. *)
LEMMA RowsOfStep ==
    ASSUME TypeOK, LockInv, NEW h \in Handlers, Step(h)
    PROVE  \/ rows' = rows
           \/ /\ Commits(h)
              /\ \A i \in Ids : i # Cur(h).id => rows'[i] = rows[i]
<1>1. CASE Commits(h)
    <2>1. PICK row \in Row : Committed(h, row)
        BY <1>1, CommitsRow
    <2> QED
        BY <1>1, <2>1 DEF Committed, TypeOK
<1>2. CASE ~ Commits(h)
    BY <1>2 DEF Step, Commits, UnknownEntity, Replay, FirstSeen, ResolveMembership, NotMember, ReadForeign, ReadStale, ReadFresh, Enforce, Deny, DeleteNothing, WriteGone, WriteRefused, BeginWrite, FanOut, Remember, Fail, Crash, Rejected, store
<1> QED
    BY <1>1, <1>2

LEMMA LockStep ==
    ASSUME TypeOK, LockInv, [Next]_vars
    PROVE  LockInv'
<1>1. ASSUME NEW h \in Handlers, Step(h)
      PROVE  LockInv'
    <2>1. \A g \in Handlers \ {h} :
             /\ pc'[g] = pc[g] /\ batch'[g] = batch[g] /\ Cur(g)' = Cur(g)
             /\ existing'[g] = existing[g] /\ ack'[g] = ack[g]
        BY <1>1, OneMoves DEF Cur
    <2>2. ASSUME pc'[h] = "commit"
          PROVE  /\ BeginWrite(h) /\ rows' = rows
                 /\ ack'[h] = [status |-> "applied", ver |-> seq + 1]
                 /\ existing'[h] = existing[h] /\ Cur(h)' = Cur(h)
                 /\ Fits(h) /\ ~ Locked(Cur(h).id)
                 /\ seq + 1 \in Nat
        BY <1>1, <2>2, OneMoves DEF BeginWrite, Cur, TypeOK
    <2>3. ASSUME NEW g \in Handlers, pc'[g] = "commit"
          PROVE  /\ ack'[g] \in Ack
                 /\ ack'[g].status = "applied"
                 /\ ack'[g].ver \in Nat
                 /\ existing'[g] = None <=> rows'[Cur(g)'.id] = None
                 /\ Cur(g)'.op = "delete" => existing'[g] # None
        <3>1. CASE g = h
            <4>1. Cur(h) \in MutationType
                BY <2>2, <2>3, <3>1, CurType DEF BeginWrite
            <4>2. Cur(h).op \in {"upsert", "delete"}
                BY <4>1 DEF MutationType, Op
            <4> QED
                BY <2>2, <2>3, <3>1, <4>2 DEF Fits, Ack
        <3>2. CASE g # h
            <4>1. /\ ack[g] \in Ack /\ ack[g].status = "applied" /\ ack[g].ver \in Nat
                  /\ existing[g] = None <=> rows[Cur(g).id] = None
                  /\ Cur(g).op = "delete" => existing[g] # None
                  /\ pc[g] = "commit"
                BY <2>1, <2>3, <3>2 DEF LockInv
            <4>2. Cur(g).id \in Ids
                BY <4>1, CurType DEF MutationType
            <4>3. rows'[Cur(g).id] = rows[Cur(g).id]
                <5>1. Commits(h) => pc[h] = "commit"
                    BY CommitsRow
                <5>2. Commits(h) => Cur(g).id # Cur(h).id
                    BY <3>2, <4>1, <5>1 DEF LockInv
                <5> QED
                    BY <1>1, <4>2, <5>2, RowsOfStep
            <4> QED
                BY <2>1, <3>2, <4>1, <4>3
        <3> QED
            BY <3>1, <3>2
    <2>4. ASSUME NEW f \in Handlers, NEW g \in Handlers,
                 pc'[f] = "commit", pc'[g] = "commit", Cur(f)'.id = Cur(g)'.id
          PROVE  f = g
        BY <2>1, <2>2, <2>4 DEF LockInv, Locked
    <2> QED
        BY <2>3, <2>4 DEF LockInv
<1>2. ASSUME NEW h \in Handlers, NEW b \in Batches, Send(h, b)
      PROVE  LockInv'
    BY <1>2 DEF Send, Goto, LockInv, Cur, TypeOK, store
<1>3. ASSUME NEW i \in Ids, Prune(i)
      PROVE  LockInv'
    <2>1. ASSUME NEW g \in Handlers, pc[g] = "commit"
          PROVE  rows'[Cur(g).id] = rows[Cur(g).id]
        <3>1. Cur(g).id \in Ids
            BY <2>1, CurType DEF MutationType
        <3>2. Cur(g).id \notin {i} \cup Under(i)
            BY <1>3, <2>1 DEF Prune, Held
        <3> QED
            BY <1>3, <3>1, <3>2 DEF Prune
    <2> QED
        BY <1>3, <2>1 DEF Prune, local, LockInv, Cur
<1>4. CASE UNCHANGED <<rows, local>>
    BY <1>4 DEF local, LockInv, Cur
<1> QED
    BY <1>1, <1>2, <1>3, <1>4 DEF Next, Expire, RoleChange, vars, store

(* Every variable keeps to its type, whatever requests, failures, role changes
   and prunings interleave. *)
THEOREM TypeCorrect == Spec => []TypeOK
<1>1. Init => TypeOK /\ LockInv
    BY InitType DEF Init, LockInv
<1>2. TypeOK /\ LockInv /\ [Next]_vars => (TypeOK /\ LockInv)'
    BY NextType, LockStep
<1> QED
    BY <1>1, <1>2, PTL DEF Spec

----------------------------------------------------------------------------
(* Row versions. *)

(* A step that writes no row keeps the invariant if it at most prunes rows,
   expires idempotency records, draws versions and drops acks in hand. *)
LEMMA VersionsKept ==
    ASSUME TypeOK, VersionInv, TypeOK',
           seq' >= seq,
           \A i \in Ids : rows'[i] \in {rows[i], None},
           \A m \in Mutations : idem'[m] \in {idem[m], None},
           \A g \in Handlers :
             \/ ack'[g] = None
             \/ /\ ack'[g] = ack[g]
                /\ batch'[g] = batch[g]
                /\ pc'[g] \in {"commit", "fanout", "remember"}
    PROVE  VersionInv'
<1>1. VersionsDistinct'
    BY DEF VersionInv, VersionsDistinct, TypeOK, Row
<1>2. VersionIdentifies'
    <2> SUFFICES ASSUME NEW m \in Mutations, VersionOf(idem[m], m)'
                 PROVE  Describes(rows[m.id], m)'
        BY DEF VersionIdentifies
    <2>1. m.id \in Ids
        BY DEF MutationType
    <2>2. idem'[m] = idem[m] /\ rows'[m.id] = rows[m.id]
        BY <2>1 DEF VersionOf
    <2> QED
        BY <2>2 DEF VersionInv, VersionIdentifies, VersionOf, Describes
<1>3. ASSUME NEW m \in Mutations PROVE Drawn(idem[m])'
    BY DEF VersionInv, Drawn, TypeOK, Ack
<1>4. ASSUME NEW g \in Handlers, ack'[g] # None
      PROVE  /\ Drawn(ack[g])'
             /\ VersionOf(ack[g], Cur(g))' => Describes(rows[Cur(g).id], Cur(g))'
    <2>1. /\ ack'[g] = ack[g]
          /\ Cur(g)' = Cur(g)
          /\ Cur(g) \in Mutations
          /\ Cur(g).id \in Ids
        BY <1>4, CurType DEF Cur, VersionInv, MutationType
    <2>2. Drawn(ack[g])'
        BY <2>1 DEF VersionInv, Drawn, TypeOK, Ack
    <2>3. ASSUME VersionOf(ack[g], Cur(g))' PROVE Describes(rows[Cur(g).id], Cur(g))'
        BY <2>1, <2>3 DEF VersionInv, VersionOf, Describes
    <2> QED
        BY <2>2, <2>3
<1>5. ASSUME NEW g \in Handlers, ack'[g] = None
      PROVE  Drawn(ack[g])' /\ ~ VersionOf(ack[g], Cur(g))'
    BY <1>5 DEF Drawn, VersionOf
<1> QED
    BY <1>1, <1>2, <1>3, <1>4, <1>5 DEF VersionInv

(* Ending a mutation drops the ack in hand and leaves the others alone. *)
LEMMA NextMutationAcks ==
    ASSUME TypeOK, VersionInv, NEW h \in Handlers, NEW cache, NextMutation(h, cache)
    PROVE  \A g \in Handlers :
             \/ ack'[g] = None
             \/ /\ ack'[g] = ack[g]
                /\ batch'[g] = batch[g]
                /\ pc'[g] \in {"commit", "fanout", "remember"}
BY DEF NextMutation, LastOne, Goto, TypeOK, VersionInv

(* A statement commits, with its own version. *)
LEMMA VersionsWritten ==
    ASSUME TypeOK, LockInv, VersionInv, FreshInv, TypeOK', NEW h \in Handlers, Commits(h)
    PROVE  VersionInv'
<1> DEFINE m == Cur(h)
           v == ack[h].ver
<1>1. /\ pc[h] = "commit" /\ m \in Mutations /\ m.id \in Ids
      /\ ack[h] # None /\ v \in Nat
    BY CommitsRow
<1>2. PICK row \in Row : Committed(h, row) /\ row.ver = v /\ Describes(row, m)
    BY CommitsRow
<1>3. /\ seq \in Nat /\ seq' = seq /\ idem' = idem /\ ack' = ack /\ batch' = batch
      /\ \A i \in Ids : rows'[i] = IF i = m.id THEN row ELSE rows[i]
      /\ pc'[h] \in {"fanout", "remember"}
      /\ \A g \in Handlers \ {h} : pc'[g] = pc[g]
    BY <1>1, <1>2 DEF Committed, Goto, TypeOK
<1>4. v <= seq
    BY <1>1 DEF VersionInv, Drawn
<1>5. \A i \in Ids : rows[i] # None => rows[i].ver # v
    BY <1>1 DEF FreshInv
<1>6. VersionsDistinct'
    BY <1>2, <1>3, <1>4, <1>5 DEF VersionInv, VersionsDistinct
<1>7. VersionIdentifies'
    <2> SUFFICES ASSUME NEW n \in Mutations, VersionOf(idem[n], n)'
                 PROVE  Describes(rows[n.id], n)'
        BY DEF VersionIdentifies
    <2>1. n.id \in Ids /\ idem[n] # None /\ rows'[n.id].ver = idem[n].ver
        BY <1>3 DEF VersionOf, MutationType
    <2>2. n.id # m.id
        BY <1>1, <1>2, <1>3, <2>1 DEF FreshInv
    <2> QED
        BY <1>3, <2>1, <2>2 DEF VersionInv, VersionIdentifies, VersionOf, Describes
<1>8. \A g \in Handlers : Cur(g)' = Cur(g)
    BY <1>3 DEF Cur
<1>9. ASSUME NEW g \in Handlers, VersionOf(ack[g], Cur(g))'
      PROVE  Describes(rows[Cur(g).id], Cur(g))'
    <2>1. CASE g = h
        BY <1>1, <1>2, <1>3, <1>8, <2>1 DEF Describes
    <2>2. CASE g # h
        <3>1. ack[g] # None /\ pc[g] # "idle"
            BY <1>3, <1>9 DEF VersionOf, VersionInv
        <3>2. Cur(g).id \in Ids
            BY <3>1, CurType DEF MutationType
        <3>3. Cur(g).id # m.id
            BY <1>1, <1>2, <1>3, <1>8, <1>9, <2>2, <3>1 DEF FreshInv, VersionOf
        <3> QED
            BY <1>3, <1>8, <1>9, <3>2, <3>3 DEF VersionInv, VersionOf, Describes
    <2> QED
        BY <2>1, <2>2
<1>10. /\ \A n \in Mutations : Drawn(idem[n])'
       /\ \A g \in Handlers :
            Drawn(ack[g])' /\ (ack'[g] # None => pc'[g] \in {"commit", "fanout", "remember"})
    BY <1>3 DEF VersionInv, Drawn
<1> QED
    BY <1>6, <1>7, <1>9, <1>10 DEF VersionInv

LEMMA VersionStep ==
    ASSUME TypeOK, LockInv, VersionInv, FreshInv, TypeOK', NEW h \in Handlers, Step(h)
    PROVE  VersionInv'
<1>1. seq \in Nat /\ seq + 1 \in Nat
    BY DEF TypeOK
<1>2. ASSUME pc[h] # "idle"
      PROVE  Cur(h) \in Mutations /\ Cur(h).id \in Ids /\ rows[Cur(h).id] \in Row \cup {None}
    BY <1>2, CurType DEF MutationType, TypeOK
<1>3. CASE UnknownEntity(h)
    BY <1>1, <1>3, VersionsKept, NextMutationAcks DEF UnknownEntity, Rejected, TypeOK, store
<1>4. CASE Replay(h)
    BY <1>1, <1>4, VersionsKept, NextMutationAcks DEF Replay, Answer, TypeOK, store
<1>5. CASE FirstSeen(h)
    <2>1. /\ rows' = rows /\ seq' = seq /\ idem' = idem /\ batch' = batch /\ ack' = ack
          /\ pc[h] = "lookup" /\ \A g \in Handlers \ {h} : pc'[g] = pc[g]
        BY <1>5 DEF FirstSeen, Goto, TypeOK, store
    <2>2. ASSUME NEW g \in Handlers
          PROVE  ack'[g] = None \/ (ack'[g] = ack[g] /\ batch'[g] = batch[g]
                                     /\ pc'[g] \in {"commit", "fanout", "remember"})
        BY <2>1 DEF VersionInv
    <2> QED
        BY <1>1, <2>1, <2>2, VersionsKept
<1>6. CASE ResolveMembership(h)
    BY <1>1, <1>6, VersionsKept DEF ResolveMembership, VersionInv, TypeOK, Goto, store
<1>7. CASE NotMember(h)
    BY <1>1, <1>7, VersionsKept, NextMutationAcks DEF NotMember, TypeOK, store
<1>8. CASE ReadForeign(h)
    BY <1>1, <1>8, VersionsKept, NextMutationAcks DEF ReadForeign, Rejected, TypeOK, store
<1>9. CASE ReadFresh(h)
    BY <1>1, <1>9, VersionsKept DEF ReadFresh, VersionInv, TypeOK, Goto, store
<1>10. CASE Enforce(h)
    BY <1>1, <1>10, VersionsKept DEF Enforce, VersionInv, TypeOK, Goto, store
<1>11. CASE Deny(h)
    BY <1>1, <1>11, VersionsKept, NextMutationAcks DEF Deny, Rejected, TypeOK, store
<1>12. CASE WriteGone(h)
    BY <1>1, <1>12, VersionsKept, NextMutationAcks DEF WriteGone, Rejected, TypeOK, store
<1>13. CASE WriteRefused(h)
    BY <1>1, <1>13, VersionsKept, NextMutationAcks DEF WriteRefused, Rejected, TypeOK, store
<1>14. CASE FanOut(h)
    BY <1>1, <1>14, VersionsKept DEF FanOut, VersionInv, TypeOK, Goto, store
<1>15. CASE Fail(h)
    BY <1>1, <1>15, VersionsKept, NextMutationAcks DEF Fail, Mishap, Rejected, TypeOK, store
<1>16. CASE Crash(h)
    BY <1>1, <1>16, VersionsKept DEF Crash, Mishap, VersionInv, TypeOK, Goto, store
<1>17. CASE ReadStale(h)
    <2>1. /\ rows' = rows /\ seq' = seq /\ idem' = idem /\ batch' = batch
          /\ pc' = [pc EXCEPT ![h] = "remember"]
          /\ ack' = [ack EXCEPT ![h] = [status |-> "stale", ver |-> rows[Cur(h).id].ver]]
          /\ pc[h] # "idle" /\ rows[Cur(h).id] # None
        BY <1>17 DEF ReadStale, Stale, Goto, store
    <2>2. ~ VersionOf(ack[h], Cur(h))' /\ Drawn(ack[h])'
        BY <1>2, <2>1 DEF VersionOf, Drawn, VersionInv, VersionsDistinct, TypeOK
    <2>3. VersionsDistinct' /\ VersionIdentifies' /\ \A m \in Mutations : Drawn(idem[m])'
        BY <2>1 DEF VersionInv, VersionsDistinct, VersionIdentifies, VersionOf, Describes, Drawn
    <2>4. ASSUME NEW g \in Handlers, g # h
          PROVE  /\ Drawn(ack[g])'
                 /\ ack'[g] # None => pc'[g] \in {"commit", "fanout", "remember"}
                 /\ VersionOf(ack[g], Cur(g))' => Describes(rows[Cur(g).id], Cur(g))'
        BY <2>1, <2>4 DEF VersionInv, VersionOf, Describes, Drawn, Cur, TypeOK
    <2> QED
        BY <2>1, <2>2, <2>3, <2>4 DEF VersionInv, TypeOK
<1>18. CASE DeleteNothing(h)
    <2>1. /\ rows' = rows /\ seq' = seq /\ idem' = idem /\ batch' = batch
          /\ pc' = [pc EXCEPT ![h] = "remember"]
          /\ ack' = [ack EXCEPT ![h] = [status |-> "applied", ver |-> None]]
        BY <1>18 DEF DeleteNothing, Goto, store
    <2>2. Drawn(ack[h])' /\ (VersionOf(ack[h], Cur(h))' => Describes(rows[Cur(h).id], Cur(h))')
        <3>1. ack'[h].ver = None /\ pc[h] = "write"
            BY <1>18, <2>1 DEF DeleteNothing, TypeOK
        <3>2. rows[Cur(h).id] # None => rows[Cur(h).id].ver # None
            BY <1>2, <3>1, NoneAssumption DEF Row
        <3> QED
            BY <2>1, <3>1, <3>2 DEF Drawn, VersionOf, Cur
    <2>3. VersionsDistinct' /\ VersionIdentifies' /\ \A m \in Mutations : Drawn(idem[m])'
        BY <2>1 DEF VersionInv, VersionsDistinct, VersionIdentifies, VersionOf, Describes, Drawn
    <2>4. ASSUME NEW g \in Handlers, g # h
          PROVE  /\ Drawn(ack[g])'
                 /\ ack'[g] # None => pc'[g] \in {"commit", "fanout", "remember"}
                 /\ VersionOf(ack[g], Cur(g))' => Describes(rows[Cur(g).id], Cur(g))'
        BY <2>1, <2>4 DEF VersionInv, VersionOf, Describes, Drawn, Cur, TypeOK
    <2> QED
        BY <2>1, <2>2, <2>3, <2>4 DEF VersionInv, TypeOK
<1>19. CASE Commits(h)
    BY <1>19, VersionsWritten
<1>20. CASE BeginWrite(h)
    <2>1. /\ rows' = rows /\ seq' = seq + 1 /\ idem' = idem /\ batch' = batch
          /\ pc' = [pc EXCEPT ![h] = "commit"]
          /\ ack' = [ack EXCEPT ![h] = [status |-> "applied", ver |-> seq + 1]]
        BY <1>20 DEF BeginWrite, Goto
    <2>2. Drawn(ack[h])' /\ ~ VersionOf(ack[h], Cur(h))'
        <3>1. ack'[h].ver = seq + 1 /\ pc[h] = "write"
            BY <1>20, <2>1 DEF BeginWrite, TypeOK
        <3>2. rows[Cur(h).id] # None => rows[Cur(h).id].ver \in Nat /\ rows[Cur(h).id].ver <= seq
            BY <1>2, <3>1 DEF VersionInv, VersionsDistinct, Row
        <3> QED
            BY <1>1, <2>1, <3>1, <3>2 DEF Drawn, VersionOf, Cur
    <2>3. VersionsDistinct' /\ VersionIdentifies' /\ \A m \in Mutations : Drawn(idem[m])'
        <3>1. \A i \in Ids : rows[i] # None => rows[i].ver \in Nat
            BY DEF TypeOK, Row
        <3>2. \A m \in Mutations : idem[m] # None /\ idem[m].ver # None => idem[m].ver \in Nat
            BY DEF TypeOK, Ack
        <3> QED
            BY <1>1, <2>1, <3>1, <3>2 DEF VersionInv, VersionsDistinct, VersionIdentifies, VersionOf, Describes, Drawn
    <2>4. ASSUME NEW g \in Handlers, g # h
          PROVE  /\ Drawn(ack[g])'
                 /\ ack'[g] # None => pc'[g] \in {"commit", "fanout", "remember"}
                 /\ VersionOf(ack[g], Cur(g))' => Describes(rows[Cur(g).id], Cur(g))'
        <3>1. ack[g] # None /\ ack[g].ver # None => ack[g].ver \in Nat
            BY DEF TypeOK, Ack
        <3>2. ack'[g] = ack[g] /\ pc'[g] = pc[g] /\ Cur(g)' = Cur(g)
            BY <2>1, <2>4 DEF Cur, TypeOK
        <3>3. Drawn(ack[g])'
            BY <1>1, <2>1, <3>1, <3>2 DEF VersionInv, Drawn
        <3>4. VersionOf(ack[g], Cur(g))' => Describes(rows[Cur(g).id], Cur(g))'
            BY <2>1, <3>2 DEF VersionInv, VersionOf, Describes
        <3> QED
            BY <3>2, <3>3, <3>4 DEF VersionInv
    <2> QED
        BY <2>1, <2>2, <2>3, <2>4 DEF VersionInv, TypeOK
<1>22. CASE Remember(h)
    <2>1. /\ rows' = rows /\ seq' = seq
          /\ idem' = [idem EXCEPT ![Cur(h)] = ack[h]]
          /\ NextMutation(h, roleCache[h])
          /\ pc[h] # "idle"
        BY <1>22 DEF Remember, Answer, store
    <2>2. VersionsDistinct'
        BY <2>1 DEF VersionInv, VersionsDistinct
    <2>3. ASSUME NEW m \in Mutations
          PROVE  Drawn(idem[m])' /\ (VersionOf(idem[m], m)' => Describes(rows[m.id], m)')
        <3>1. CASE m = Cur(h)
            BY <2>1, <3>1 DEF VersionInv, Drawn, VersionOf, Describes, TypeOK
        <3>2. CASE m # Cur(h)
            BY <2>1, <3>2 DEF VersionInv, VersionIdentifies, Drawn, VersionOf, Describes, TypeOK
        <3> QED
            BY <3>1, <3>2
    <2>4. ASSUME NEW g \in Handlers
          PROVE  /\ Drawn(ack[g])'
                 /\ ack'[g] # None => pc'[g] \in {"commit", "fanout", "remember"}
                 /\ VersionOf(ack[g], Cur(g))' => Describes(rows[Cur(g).id], Cur(g))'
        BY <2>1, NextMutationAcks DEF VersionInv, VersionOf, Describes, Drawn, Cur
    <2> QED
        BY <2>2, <2>3, <2>4 DEF VersionInv, VersionIdentifies
<1> QED
    BY <1>3, <1>4, <1>5, <1>6, <1>7, <1>8, <1>9, <1>10, <1>11, <1>12, <1>13, <1>14, <1>15, <1>16, <1>17, <1>18, <1>19, <1>20, <1>22 DEF Step, Commits

LEMMA VersionNext ==
    ASSUME TypeOK, LockInv, VersionInv, FreshInv, [Next]_vars
    PROVE  VersionInv'
<1>0. TypeOK'
    BY NextType
<1>1. CASE \E h \in Handlers : Step(h)
    BY <1>0, <1>1, VersionStep
<1>2. ASSUME NEW h \in Handlers, NEW b \in Batches, Send(h, b)
      PROVE  VersionInv'
    <2>1. rows' = rows /\ seq' = seq /\ idem' = idem /\ ack' = ack /\ ack[h] = None
        BY <1>2 DEF Send, VersionInv, store
    <2>2. \A g \in Handlers \ {h} : pc'[g] = pc[g] /\ batch'[g] = batch[g]
        BY <1>2 DEF Send, Goto, TypeOK
    <2>3. seq \in Nat
        BY DEF TypeOK
    <2>4. \A g \in Handlers :
             \/ ack'[g] = None
             \/ /\ ack'[g] = ack[g]
                /\ batch'[g] = batch[g]
                /\ pc'[g] \in {"commit", "fanout", "remember"}
        BY <2>1, <2>2 DEF VersionInv
    <2> QED
        BY <1>0, <2>1, <2>3, <2>4, VersionsKept
<1>3. ASSUME NEW m \in Mutations, Expire(m)
      PROVE  VersionInv'
    BY <1>0, <1>3, VersionsKept DEF Expire, Mishap, VersionInv, TypeOK, store, local
<1>4. ASSUME NEW o \in Orgs, NEW a \in Accounts, NEW r, RoleChange(o, a, r)
      PROVE  VersionInv'
    BY <1>0, <1>4, VersionsKept DEF RoleChange, VersionInv, TypeOK, store, local
<1>5. ASSUME NEW i \in Ids, Prune(i)
      PROVE  VersionInv'
    BY <1>0, <1>5, VersionsKept DEF Prune, VersionInv, TypeOK, local
<1>6. CASE UNCHANGED vars
    BY <1>0, <1>6, VersionsKept DEF vars, VersionInv, TypeOK, store, local
<1> QED
    BY <1>1, <1>2, <1>3, <1>4, <1>5, <1>6 DEF Next

(* A version drawn stays its statement's own until it commits. *)
LEMMA FreshKept ==
    ASSUME TypeOK, LockInv, FreshInv, [Next]_vars,
           NEW h \in Handlers, pc[h] = "commit", pc'[h] = "commit",
           ack'[h] = ack[h], Cur(h)' = Cur(h),
           \A i \in Ids : rows'[i] # None => rows'[i] = rows[i] \/ rows'[i].ver # ack[h].ver,
           rows'[Cur(h).id] = rows[Cur(h).id],
           \A m \in Mutations : idem'[m] # None => idem'[m] = idem[m] \/ idem'[m].ver # ack[h].ver,
           \A g \in Handlers \ {h} :
             ack'[g] # None => ack'[g] = ack[g] \/ ack'[g].ver # ack[h].ver
    PROVE  /\ \A i \in Ids : rows'[i] # None => rows'[i].ver # ack'[h].ver
           /\ rows'[Cur(h)'.id] # None => rows'[Cur(h)'.id].ver < ack'[h].ver
           /\ \A m \in Mutations : idem'[m] # None => idem'[m].ver # ack'[h].ver
           /\ \A g \in Handlers : g # h /\ ack'[g] # None => ack'[g].ver # ack'[h].ver
BY DEF FreshInv

LEMMA FreshStep ==
    ASSUME TypeOK, LockInv, VersionInv, FreshInv, TypeOK', LockInv', NEW h \in Handlers, Step(h)
    PROVE  FreshInv'
<1> SUFFICES ASSUME NEW f \in Handlers, pc'[f] = "commit"
             PROVE  /\ \A i \in Ids : rows'[i] # None => rows'[i].ver # ack'[f].ver
                    /\ rows'[Cur(f)'.id] # None => rows'[Cur(f)'.id].ver < ack'[f].ver
                    /\ \A m \in Mutations : idem'[m] # None => idem'[m].ver # ack'[f].ver
                    /\ \A g \in Handlers : g # f /\ ack'[g] # None => ack'[g].ver # ack'[f].ver
    BY DEF FreshInv
<1>t. /\ \A i \in Ids : rows[i] # None => rows[i].ver \in Nat /\ rows[i].ver <= seq
      /\ \A m \in Mutations : idem[m] # None =>
           idem[m].ver = None \/ (idem[m].ver \in Nat /\ idem[m].ver <= seq)
      /\ \A g \in Handlers : ack[g] # None =>
           ack[g].ver = None \/ (ack[g].ver \in Nat /\ ack[g].ver <= seq)
      /\ seq \in Nat /\ seq + 1 # None
    BY NoneAssumption DEF VersionInv, VersionsDistinct, Drawn, TypeOK, Row, Ack
<1>1. CASE f = h
    <2>1. /\ BeginWrite(h) /\ rows' = rows /\ idem' = idem /\ batch' = batch
          /\ ack' = [ack EXCEPT ![h] = [status |-> "applied", ver |-> seq + 1]]
          /\ pc[h] = "write"
        BY <1>1, OneMoves DEF BeginWrite
    <2>2. Cur(h)' = Cur(h) /\ Cur(h).id \in Ids
        BY <2>1, CurType DEF Cur, MutationType
    <2>3. ack'[h].ver = seq + 1 /\ \A g \in Handlers : g # h => ack'[g] = ack[g]
        BY <2>1 DEF TypeOK
    <2> QED
        BY <1>1, <1>t, <2>1, <2>2, <2>3
<1>2. CASE f # h
    <2>1. /\ pc[f] = "commit" /\ ack'[f] = ack[f] /\ Cur(f)' = Cur(f)
          /\ \A g \in Handlers \ {h} : ack'[g] = ack[g]
        BY <1>2, OneMoves DEF Cur
    <2>2. ack[f] # None /\ ack[f].ver \in Nat /\ ack[f].ver <= seq /\ Cur(f).id \in Ids
        <3>1. ack[f] \in Ack /\ ack[f].ver \in Nat
            BY <2>1 DEF LockInv
        <3>2. ack[f] # None /\ ack[f].ver # None
            BY <3>1, RowAssumption, NoneAssumption
        <3>3. Cur(f).id \in Ids
            BY <2>1, CurType DEF MutationType
        <3> QED
            BY <1>t, <3>1, <3>2, <3>3
    <2>3. Commits(h) => Cur(f).id # Cur(h).id
        BY <1>2, <2>1, CommitsRow DEF LockInv
    <2>4. rows'[Cur(f).id] = rows[Cur(f).id]
        BY <2>2, <2>3, RowsOfStep
    <2>5. ASSUME NEW i \in Ids, rows'[i] # None
          PROVE  rows'[i] = rows[i] \/ rows'[i].ver # ack[f].ver
        <3>1. CASE Commits(h)
            <4>1. PICK row \in Row : Committed(h, row) /\ row.ver = ack[h].ver
                BY <3>1, CommitsRow
            <4>2. ack[h] # None
                BY <3>1, CommitsRow
            <4>3. ack[h].ver # ack[f].ver
                BY <1>2, <2>1, <4>2 DEF FreshInv
            <4>4. rows'[i] = row \/ rows'[i] = rows[i]
                BY <4>1 DEF Committed, TypeOK
            <4> QED
                BY <4>1, <4>3, <4>4
        <3>2. CASE ~ Commits(h)
            BY <3>2, RowsOfStep
        <3> QED
            BY <3>1, <3>2
    <2>6. ASSUME NEW m \in Mutations, idem'[m] # None
          PROVE  idem'[m] = idem[m] \/ idem'[m].ver # ack[f].ver
        <3>1. CASE Remember(h)
            <4>1. idem'[m] = idem[m] \/ idem'[m] = ack[h]
                BY <3>1 DEF Remember, TypeOK
            <4>2. ack[h] # None => ack[h].ver # ack[f].ver
                BY <1>2, <2>1 DEF FreshInv
            <4> QED
                BY <2>6, <4>1, <4>2
        <3>2. CASE ~ Remember(h)
            BY <3>2 DEF Step, UnknownEntity, Replay, FirstSeen, ResolveMembership, NotMember, ReadForeign, ReadStale, ReadFresh, Enforce, Deny, DeleteNothing, WriteGone, WriteRefused, BeginWrite, CommitTombstone, CommitUpdate, CommitInsert, FanOut, Fail, Crash, Committed, Rejected
        <3> QED
            BY <3>1, <3>2
    <2>7. ack'[h] # None => ack'[h] = ack[h] \/ ack'[h].ver # ack[f].ver
        <3>1. CASE ReadStale(h)
            <4>1. /\ ack'[h] = [status |-> "stale", ver |-> rows[Cur(h).id].ver]
                  /\ rows[Cur(h).id] # None /\ Cur(h).id \in Ids
                BY <3>1, CurType DEF ReadStale, Stale, MutationType, TypeOK
            <4> QED
                BY <2>1, <4>1 DEF FreshInv
        <3>2. CASE DeleteNothing(h)
            BY <2>2, <3>2, NoneAssumption DEF DeleteNothing, TypeOK
        <3>3. CASE BeginWrite(h)
            BY <1>t, <2>2, <3>3 DEF BeginWrite, TypeOK
        <3>4. CASE \/ FirstSeen(h) \/ ResolveMembership(h) \/ ReadFresh(h) \/ Enforce(h)
                   \/ CommitTombstone(h) \/ CommitUpdate(h) \/ CommitInsert(h) \/ FanOut(h)
            <4>1. ack' = ack
                BY <3>4 DEF FirstSeen, ResolveMembership, ReadFresh, Enforce, CommitTombstone, CommitUpdate, CommitInsert, Committed, FanOut
            <4> QED
                BY <4>1
        <3>5. CASE \/ UnknownEntity(h) \/ Replay(h) \/ NotMember(h) \/ ReadForeign(h) \/ Deny(h)
                   \/ WriteGone(h) \/ WriteRefused(h) \/ Remember(h) \/ Fail(h) \/ Crash(h)
            <4>1. ack' = [ack EXCEPT ![h] = None]
                BY <3>5 DEF UnknownEntity, Replay, NotMember, ReadForeign, Deny, WriteGone, WriteRefused, Remember, Fail, Crash, Rejected, Answer, NextMutation
            <4> QED
                BY <4>1 DEF TypeOK
        <3> QED
            BY <3>1, <3>2, <3>3, <3>4, <3>5 DEF Step
    <2>8. \A g \in Handlers \ {f} :
             ack'[g] # None => ack'[g] = ack[g] \/ ack'[g].ver # ack[f].ver
        BY <2>1, <2>7
    <2>9. [Next]_vars /\ pc'[f] = "commit"
        BY DEF Next
    <2> QED
        BY <2>1, <2>4, <2>5, <2>6, <2>8, <2>9, FreshKept
<1> QED
    BY <1>1, <1>2

LEMMA FreshNext ==
    ASSUME TypeOK, LockInv, VersionInv, FreshInv, [Next]_vars
    PROVE  FreshInv'
<1>0. TypeOK' /\ LockInv'
    BY NextType, LockStep
<1>1. CASE \E h \in Handlers : Step(h)
    BY <1>0, <1>1, FreshStep
<1>2. ASSUME NEW h \in Handlers, NEW b \in Batches, Send(h, b)
      PROVE  FreshInv'
    BY <1>2 DEF Send, FreshInv, TypeOK, Goto, store, Cur
<1>3. ASSUME NEW m \in Mutations, Expire(m)
      PROVE  FreshInv'
    BY <1>3 DEF Expire, FreshInv, TypeOK, store, local, Cur
<1>4. ASSUME NEW i \in Ids, Prune(i)
      PROVE  FreshInv'
    <2>1. \A h \in Handlers : pc[h] = "commit" => Cur(h).id \in Ids
        BY CurType DEF MutationType
    <2> QED
        BY <1>4, <2>1 DEF Prune, FreshInv, local, Cur
<1>5. CASE UNCHANGED <<rows, idem, local>>
    BY <1>5 DEF FreshInv, local, Cur
<1> QED
    BY <1>1, <1>2, <1>3, <1>4, <1>5 DEF Next, RoleChange, vars, store

LEMMA VersionInit == Init => VersionInv /\ FreshInv
BY DEF Init, VersionInv, FreshInv, VersionsDistinct, VersionIdentifies, VersionOf, Drawn

(* Together, from the first state on. *)
StatementInv == TypeOK /\ LockInv /\ VersionInv /\ FreshInv

LEMMA StatementInit == Init => StatementInv
BY InitType, VersionInit DEF Init, LockInv, StatementInv

LEMMA StatementNext == StatementInv /\ [Next]_vars => StatementInv'
BY NextType, LockStep, VersionNext, FreshNext DEF StatementInv

(* An applied ack's version identifies what its mutation wrote. *)
THEOREM VersionsSound == Spec => []VersionIdentifies
<1>1. StatementInv => VersionIdentifies
    BY DEF StatementInv, VersionInv
<1> QED
    BY <1>1, StatementInit, StatementNext, PTL DEF Spec

----------------------------------------------------------------------------
(* Who writes a row, and what. *)

(* A row changes, unless it is pruned, in a statement that commits alone. *)
LEMMA RowsChange ==
    ASSUME TypeOK, LockInv, [Next]_vars, NEW i \in Ids, Rewritten(i)
    PROVE  \E h \in Handlers :
             /\ Writing(h, i) /\ Commits(h)
             /\ Cur(h) \in Mutations
             /\ \E row \in Row :
                  /\ rows' = [rows EXCEPT ![i] = row] /\ rows'[i] = row
                  /\ row.ver = ack[h].ver
                  /\ row.at = Cur(h).at
                  /\ row.org = IF existing[h] = None THEN Cur(h).org ELSE rows[i].org
             /\ disturbed' = IF rows[i] = existing[h] THEN disturbed ELSE disturbed \cup {i}
<1>1. PICK h \in Handlers : Step(h) /\ rows'[i] # rows[i]
    BY DEF Next, Rewritten, Send, Expire, RoleChange, Prune, vars, store
<1>2. Commits(h) /\ Cur(h).id = i
    BY <1>1, RowsOfStep
<1>3. pc[h] = "commit" /\ Cur(h) \in Mutations
    BY <1>2, CommitsRow
<1>4. PICK row \in Row :
         /\ Committed(h, row)
         /\ row.ver = ack[h].ver
         /\ row.at = Cur(h).at
         /\ row.org = IF existing[h] = None THEN Cur(h).org ELSE rows[Cur(h).id].org
    BY <1>2, CommitsRow
<1>5. rows' = [rows EXCEPT ![i] = row] /\ rows'[i] = row
    BY <1>2, <1>4 DEF Committed, TypeOK
<1>6. pc'[h] # "commit"
    BY <1>3, <1>4 DEF Committed, Goto, TypeOK
<1> QED
    BY <1>2, <1>3, <1>4, <1>5, <1>6 DEF Writing, Committed

(* The versions of a row only grow, however its statements overlap with others. *)
THEOREM VersionsAlwaysGrow == Spec => VersionsGrow
<1>1. ASSUME StatementInv, [Next]_vars, NEW i \in Ids, Rewritten(i), rows[i] # None
      PROVE  rows'[i].ver > rows[i].ver
    <2>1. PICK h \in Handlers : Writing(h, i) /\ rows'[i].ver = ack[h].ver
        BY <1>1, RowsChange DEF StatementInv
    <2>2. rows[i].ver \in Nat /\ ack[h].ver \in Nat
        BY <1>1, <2>1 DEF StatementInv, TypeOK, Row, LockInv, Writing
    <2> QED
        BY <1>1, <2>1, <2>2 DEF StatementInv, FreshInv, Writing
<1>2. StatementInv /\ [Next]_vars
        => [\A i \in Ids : Rewritten(i) /\ rows[i] # None => rows'[i].ver > rows[i].ver]_vars
    BY <1>1
<1> QED
    BY <1>2, StatementInit, StatementNext, PTL DEF Spec, VersionsGrow

----------------------------------------------------------------------------
(* What a request read before it writes. *)

LEMMA ReadStep ==
    ASSUME TypeOK, ReadInv, [Next]_vars
    PROVE  ReadInv'
<1>1. ASSUME NEW h \in Handlers, Step(h)
      PROVE  ReadInv'
    <2> SUFFICES ASSUME NEW g \in Handlers, pc'[g] \in {"enforce", "write", "commit"}
                 PROVE  Passed(g)'
        BY DEF ReadInv
    <2>1. CASE g # h
        BY <1>1, <2>1, OneMoves DEF ReadInv, Passed, Cur, Foreign, Stale
    <2>2. CASE g = h /\ ReadFresh(h)
        BY <2>2 DEF ReadFresh, Passed, Cur, Foreign, Stale, TypeOK
    <2>3. CASE g = h /\ (Enforce(h) \/ BeginWrite(h))
        BY <2>3 DEF Enforce, BeginWrite, ReadInv, Passed, Cur, Foreign, Stale
    <2> QED
        BY <1>1, <2>1, <2>2, <2>3, OneMoves
<1>2. ASSUME NEW h \in Handlers, NEW b \in Batches, Send(h, b)
      PROVE  ReadInv'
    BY <1>2 DEF Send, Goto, ReadInv, Passed, Cur, Foreign, Stale, TypeOK
<1>3. CASE UNCHANGED local
    BY <1>3 DEF local, ReadInv, Passed, Cur, Foreign, Stale
<1> QED
    BY <1>1, <1>2, <1>3 DEF Next, Expire, RoleChange, Prune, vars

LEMMA ReadInit == Init => ReadInv
BY DEF Init, ReadInv

(* Only a lost race between two requests takes a row back in time. *)
THEOREM LwwButForRaces == Spec => LwwUnlessRaced
<1>1. ASSUME StatementInv, ReadInv, [Next]_vars, NEW i \in Ids,
             Rewritten(i), rows[i] # None, rows'[i].at <= rows[i].at
      PROVE  \E h \in Handlers : Writing(h, i) /\ existing[h] # rows[i]
    <2>1. PICK h \in Handlers :
             Writing(h, i) /\ Cur(h) \in Mutations /\ rows'[i].at = Cur(h).at
        BY <1>1, RowsChange DEF StatementInv
    <2>2. Cur(h).at \in Nat /\ rows[i].at \in Nat
        BY <1>1, <2>1 DEF StatementInv, TypeOK, Row, MutationType
    <2>3. ~ Stale(existing[h], Cur(h))
        BY <1>1, <2>1 DEF ReadInv, Passed, Writing
    <2> QED
        BY <1>1, <2>1, <2>2, <2>3 DEF Stale
<1>2. StatementInv /\ ReadInv /\ [Next]_vars
        => [\A i \in Ids : Rewritten(i) /\ rows[i] # None /\ rows'[i].at <= rows[i].at
              => \E h \in Handlers : Writing(h, i) /\ existing[h] # rows[i]]_vars
    BY <1>1
<1>3. StatementInv /\ ReadInv /\ [Next]_vars => ReadInv'
    BY ReadStep DEF StatementInv
<1> QED
    BY <1>2, <1>3, StatementInit, StatementNext, ReadInit, PTL DEF Spec, LwwUnlessRaced

(* A mutation lands in its own organization, or in a row made anew after it read. *)
THEOREM TenantsIsolated == Spec => TenantIsolation
<1>1. ASSUME StatementInv, ReadInv, [Next]_vars, NEW i \in Ids, Rewritten(i)
      PROVE  \E h \in Handlers :
               /\ Writing(h, i)
               /\ \/ rows'[i].org = Cur(h).org
                  \/ existing[h] # None /\ existing[h].org # rows[i].org
    <2>1. PICK h \in Handlers :
             /\ Writing(h, i)
             /\ rows'[i].org = IF existing[h] = None THEN Cur(h).org ELSE rows[i].org
        BY <1>1, RowsChange DEF StatementInv
    <2>2. existing[h] # None => existing[h].org = Cur(h).org
        BY <1>1, <2>1 DEF ReadInv, Passed, Foreign, Writing
    <2> QED
        BY <2>1, <2>2
<1>2. StatementInv /\ ReadInv /\ [Next]_vars
        => [\A i \in Ids : Rewritten(i) =>
              \E h \in Handlers :
                /\ Writing(h, i)
                /\ \/ rows'[i].org = Cur(h).org
                   \/ existing[h] # None /\ existing[h].org # rows[i].org]_vars
    BY <1>1
<1>3. StatementInv /\ ReadInv /\ [Next]_vars => ReadInv'
    BY ReadStep DEF StatementInv
<1> QED
    BY <1>2, <1>3, StatementInit, StatementNext, ReadInit, PTL DEF Spec, TenantIsolation

----------------------------------------------------------------------------
(* Who may write. *)

(* What enforce lets through, its role is entitled to. *)
LEMMA AllowedEntitles ==
    ASSUME NEW role \in Roles, NEW m \in MutationType, NEW r,
           Entity[m.id] \in PushEntities, Allowed(role, m, r)
    PROVE  Entitled(role, m, r)
<1> DEFINE entity == Entity[m.id]
<1>1. role # None
    BY NoneAssumption
<1>2. ASSUME Can(role, "manageTaxonomy") \/ Can(role, "deleteProject") \/ Can(role, "manageTasks")
      PROVE  role \in ManagerRoles
    BY <1>2 DEF Can, Roles, ManagerRoles
<1>3. CASE entity \in {"projectLabel", "tag", "checklistTemplate"}
    <2>1. Policy[entity] = "taxonomy"
        BY <1>3 DEF Policy
    <2> QED
        BY <1>1, <1>2, <1>3, <2>1 DEF Allowed, Entitled
<1>4. CASE entity = "project"
    <2>1. Policy[entity] = "project"
        BY <1>4 DEF Policy
    <2> QED
        BY <1>1, <1>2, <1>4, <2>1 DEF Allowed, Entitled
<1>5. CASE entity \in {"task", "checklist"}
    <2>1. Policy[entity] \in {"task", "checklist"}
        BY <1>5 DEF Policy
    <2> QED
        BY <1>1, <1>2, <1>5, <2>1 DEF Allowed, Entitled, Worker, AssignedTo
<1>6. CASE entity = "checklistItem"
    <2>1. Policy[entity] = "checklistItem"
        BY <1>6 DEF Policy
    <2> QED
        BY <1>1, <1>2, <1>6, <2>1 DEF Allowed, Entitled, Worker
<1> QED
    BY <1>1, <1>3, <1>4, <1>5, <1>6 DEF Entitled

(* A step takes a request on within its mutation, or ends the mutation, with a
   cache the account's roles account for, or ends the request. *)
GoesOn(h) ==
    \/ FirstSeen(h) \/ ResolveMembership(h) \/ ReadStale(h) \/ ReadFresh(h)
    \/ Enforce(h) \/ DeleteNothing(h) \/ BeginWrite(h) \/ Commits(h) \/ FanOut(h)

Backed(h, cache) ==
    /\ cache \in [Orgs -> Roles \cup {None, Unread}]
    /\ \A o \in Orgs : cache[o] \in held[h][o] \cup {Unread}

LEMMA EndsOrGoesOn ==
    ASSUME TypeOK, HeldInv, NEW h \in Handlers, Step(h)
    PROVE  \/ pc'[h] = "idle"
           \/ \E cache : NextMutation(h, cache) /\ Backed(h, cache)
           \/ GoesOn(h)
<1>0. pc[h] # "idle"
    BY DEF Step, UnknownEntity, Replay, FirstSeen, ResolveMembership, NotMember, ReadForeign, ReadStale, ReadFresh, Enforce, Deny, DeleteNothing, WriteGone, WriteRefused, BeginWrite, CommitTombstone, CommitUpdate, CommitInsert, FanOut, Remember, Fail, Crash
<1>1. Backed(h, roleCache[h])
    BY <1>0 DEF HeldInv, Backed, TypeOK
<1>2. CASE NotMember(h)
    <2> DEFINE cache == [roleCache[h] EXCEPT ![Cur(h).org] = None]
    <2>1. Cur(h).org \in Orgs
        BY <1>0, CurType DEF MutationType
    <2>2. None \in held[h][Cur(h).org]
        BY <1>0, <1>2, <2>1, NoneAssumption DEF NotMember, Membership, HeldInv
    <2>3. Backed(h, cache)
        BY <1>1, <2>1, <2>2 DEF Backed
    <2> QED
        BY <1>2, <2>3 DEF NotMember
<1>3. CASE Crash(h)
    BY <1>3 DEF Crash, Goto, TypeOK
<1>4. CASE UnknownEntity(h) \/ Replay(h) \/ ReadForeign(h) \/ Deny(h) \/ WriteGone(h)
             \/ WriteRefused(h) \/ Remember(h) \/ Fail(h)
    <2>1. NextMutation(h, roleCache[h])
        BY <1>4 DEF UnknownEntity, Replay, ReadForeign, Deny, WriteGone, WriteRefused, Remember, Fail, Rejected, Answer
    <2> QED
        BY <1>1, <2>1
<1> QED
    BY <1>2, <1>3, <1>4 DEF Step, GoesOn, Commits

(* The roles a request goes by were held while it ran: its own steps. *)
LEMMA HeldStep ==
    ASSUME TypeOK, HeldInv, TypeOK', NEW h \in Handlers, Step(h)
    PROVE  HeldInv'
<1> SUFFICES ASSUME NEW g \in Handlers, pc'[g] # "idle"
             PROVE  /\ \A k \in DOMAIN batch'[g] : batch'[g][k].account = Cur(g)'.account
                    /\ \A o \in Orgs :
                         /\ roles'[o][Cur(g)'.account] \in held'[g][o]
                         /\ roleCache'[g][o] \in held'[g][o] \cup {Unread}
                    /\ pc'[g] # "lookup" => KnownEntity(g)'
                    /\ pc'[g] \in {"read", "enforce", "write", "commit"} =>
                         roleCache'[g][Cur(g)'.org] \notin {None, Unread}
                    /\ pc'[g] \in {"write", "commit"} =>
                         Entitled(roleCache'[g][Cur(g)'.org], Cur(g)', existing'[g])
    BY DEF HeldInv
<1>1. pc[h] # "idle" /\ roles' = roles
    BY DEF Step, UnknownEntity, Replay, FirstSeen, ResolveMembership, NotMember, ReadForeign, ReadStale, ReadFresh, Enforce, Deny, DeleteNothing, WriteGone, WriteRefused, BeginWrite, CommitTombstone, CommitUpdate, CommitInsert, FanOut, Remember, Fail, Crash, Rejected, Answer, Committed
<1>2. CASE g # h
    <2>1. /\ pc'[g] = pc[g]
          /\ batch'[g] = batch[g]
          /\ existing'[g] = existing[g]
          /\ roleCache'[g] = roleCache[g]
          /\ held'[g] = held[g]
        BY <1>2, OneMoves
    <2> QED
        BY <1>1, <2>1 DEF HeldInv, Cur, KnownEntity
<1>3. CASE g = h /\ \E cache : NextMutation(h, cache) /\ Backed(h, cache)
    <2>1. PICK cache : NextMutation(h, cache) /\ Backed(h, cache)
        BY <1>3
    <2>2. /\ pc'[h] = "lookup"
          /\ batch'[h] = Tail(batch[h])
          /\ Tail(batch[h]) # <<>>
          /\ roleCache'[h] = cache
          /\ held'[h] = held[h]
        BY <1>3, <2>1 DEF NextMutation, LastOne, Goto, TypeOK
    <2>3. /\ batch[h] \in Seq(Mutations)
          /\ batch[h] # <<>>
        BY <1>1 DEF TypeOK
    <2>4. /\ \A k \in DOMAIN batch'[h] : k + 1 \in DOMAIN batch[h] /\ batch'[h][k] = batch[h][k + 1]
          /\ 1 \in DOMAIN batch'[h]
          /\ Cur(h)' = batch'[h][1]
        BY <2>2, <2>3 DEF Cur
    <2>5. \A k \in DOMAIN batch'[h] : batch'[h][k].account = Cur(h).account
        BY <1>1, <2>4 DEF HeldInv
    <2>6. Cur(h)'.account = Cur(h).account
        BY <2>4, <2>5
    <2> QED
        BY <1>1, <1>3, <2>1, <2>2, <2>5, <2>6 DEF HeldInv, Backed
<1>4. CASE g = h /\ GoesOn(h)
    <2>1. UNCHANGED <<batch, held>>
        BY <1>4 DEF GoesOn, FirstSeen, ResolveMembership, ReadStale, ReadFresh, Enforce, DeleteNothing, BeginWrite, Commits, CommitTombstone, CommitUpdate, CommitInsert, Committed, FanOut, history
    <2>2. Cur(h)' = Cur(h) /\ KnownEntity(h)' = KnownEntity(h)
        BY <2>1 DEF Cur, KnownEntity
    <2>3. Cur(h) \in MutationType /\ Cur(h).org \in Orgs /\ Cur(h).account \in Accounts
        BY <1>1, CurType DEF MutationType
    <2>4. CASE FirstSeen(h)
        <3>1. pc'[h] = "member" /\ roleCache' = roleCache /\ KnownEntity(h)
            BY <2>4 DEF FirstSeen, Goto, TypeOK
        <3> QED
            BY <1>1, <1>4, <2>1, <2>2, <3>1 DEF HeldInv
    <2>5. CASE ResolveMembership(h)
        <3>1. roles[Cur(h).org][Cur(h).account] \in Roles \cup {None}
            <4>1. roles \in [Orgs -> [Accounts -> Roles \cup {None}]]
                BY DEF TypeOK
            <4> QED
                BY <2>3, <4>1
        <3>2. \A o \in Orgs :
                 /\ roles[o][Cur(h).account] \in held[h][o]
                 /\ roleCache[h][o] \in held[h][o] \cup {Unread}
            BY <1>1 DEF HeldInv
        <3>3. Membership(h, Cur(h)) \in held[h][Cur(h).org] /\ Membership(h, Cur(h)) \notin {None, Unread}
            BY <2>3, <2>5, <3>1, <3>2, NoneAssumption DEF ResolveMembership, Membership
        <3>4. roleCache'[h] = [roleCache[h] EXCEPT ![Cur(h).org] = Membership(h, Cur(h))]
            BY <2>5 DEF ResolveMembership, TypeOK
        <3>5. pc'[h] = "read" /\ KnownEntity(h)
            BY <1>1, <2>5 DEF ResolveMembership, Goto, TypeOK, HeldInv
        <3>6. \A o \in Orgs : roleCache'[h][o] \in held[h][o] \cup {Unread}
            <4>1. \A o \in Orgs : roleCache[h][o] \in held[h][o] \cup {Unread}
                BY <1>1 DEF HeldInv
            <4> QED
                BY <3>3, <3>4, <4>1 DEF TypeOK
        <3>7. roleCache'[h][Cur(h).org] \notin {None, Unread}
            BY <2>3, <3>3, <3>4 DEF TypeOK
        <3> QED
            BY <1>1, <1>4, <2>1, <2>2, <3>5, <3>6, <3>7 DEF HeldInv
    <2>6. CASE ReadStale(h)
        <3>1. pc[h] = "read" /\ pc'[h] = "remember" /\ roleCache' = roleCache
            BY <2>6 DEF ReadStale, Goto, TypeOK
        <3> QED
            BY <1>1, <1>4, <2>1, <2>2, <3>1 DEF HeldInv
    <2>7. CASE ReadFresh(h)
        <3>1. pc[h] = "read" /\ pc'[h] = "enforce" /\ roleCache' = roleCache
            BY <2>7 DEF ReadFresh, Goto, TypeOK
        <3> QED
            BY <1>1, <1>4, <2>1, <2>2, <3>1 DEF HeldInv
    <2>8. CASE Enforce(h)
        <3> DEFINE role == roleCache[h][Cur(h).org]
        <3>1. pc[h] = "enforce" /\ role \in Roles \cup {None, Unread}
            BY <2>3, <2>8 DEF Enforce, TypeOK
        <3>2. role \in Roles /\ KnownEntity(h)
            BY <3>1 DEF HeldInv
        <3>3. Entitled(role, Cur(h), existing[h])
            BY <2>3, <2>8, <3>2, AllowedEntitles DEF Enforce, KnownEntity
        <3>4. pc'[h] = "write" /\ roleCache' = roleCache /\ existing' = existing
            BY <2>8 DEF Enforce, Goto, TypeOK
        <3>5. role \notin {None, Unread}
            BY <3>2, NoneAssumption
        <3> QED
            BY <1>1, <1>4, <2>1, <2>2, <3>2, <3>3, <3>4, <3>5 DEF HeldInv
    <2>9. CASE DeleteNothing(h)
        <3>1. pc[h] = "write" /\ pc'[h] = "remember" /\ roleCache' = roleCache
            BY <2>9 DEF DeleteNothing, Goto, TypeOK
        <3> QED
            BY <1>1, <1>4, <2>1, <2>2, <3>1 DEF HeldInv
    <2>10. CASE Commits(h)
        BY <1>1, <1>4, <2>1, <2>2, <2>10 DEF Commits, CommitTombstone, CommitUpdate, CommitInsert, Committed, HeldInv, Goto, TypeOK
    <2>12. CASE BeginWrite(h)
        <3>1. /\ pc[h] = "write" /\ pc'[h] = "commit"
              /\ roleCache' = roleCache /\ existing' = existing
            BY <2>12 DEF BeginWrite, Goto, TypeOK
        <3> QED
            BY <1>1, <1>4, <2>1, <2>2, <3>1 DEF HeldInv
    <2>11. CASE FanOut(h)
        <3>1. pc[h] = "fanout" /\ pc'[h] = "remember" /\ roleCache' = roleCache
            BY <2>11 DEF FanOut, Goto, TypeOK
        <3> QED
            BY <1>1, <1>4, <2>1, <2>2, <3>1 DEF HeldInv
    <2> QED
        BY <1>4, <2>4, <2>5, <2>6, <2>7, <2>8, <2>9, <2>10, <2>11, <2>12 DEF GoesOn
<1> QED
    BY <1>1, <1>2, <1>3, <1>4, EndsOrGoesOn

(* So do the other steps of the system leave it so. *)
LEMMA HeldNext ==
    ASSUME TypeOK, HeldInv, TypeOK', [Next]_vars
    PROVE  HeldInv'
<1>1. ASSUME NEW h \in Handlers, Step(h)
      PROVE  HeldInv'
    BY <1>1, HeldStep
<1>2. ASSUME NEW h \in Handlers, NEW b \in Batches, Send(h, b)
      PROVE  HeldInv'
    <2>1. /\ b \in Seq(Mutations) /\ b # <<>> /\ Head(b).account \in Accounts
          /\ \A k \in DOMAIN b : b[k].account = Head(b).account
        BY BatchesAssumption DEF MutationType
    <2>2. /\ pc'[h] = "lookup"
          /\ batch'[h] = b
          /\ roleCache'[h] = NoCache
          /\ held'[h] = [o \in Orgs |-> {roles[o][Head(b).account]}]
          /\ roles' = roles
        BY <1>2 DEF Send, Goto, TypeOK
    <2>3. \A g \in Handlers \ {h} :
             /\ pc'[g] = pc[g]
             /\ batch'[g] = batch[g]
             /\ existing'[g] = existing[g]
             /\ roleCache'[g] = roleCache[g]
             /\ held'[g] = held[g]
        BY <1>2 DEF Send, Goto, TypeOK
    <2> SUFFICES ASSUME NEW g \in Handlers, pc'[g] # "idle"
                 PROVE  /\ \A k \in DOMAIN batch'[g] : batch'[g][k].account = Cur(g)'.account
                        /\ \A o \in Orgs :
                             /\ roles'[o][Cur(g)'.account] \in held'[g][o]
                             /\ roleCache'[g][o] \in held'[g][o] \cup {Unread}
                        /\ pc'[g] # "lookup" => KnownEntity(g)'
                        /\ pc'[g] \in {"read", "enforce", "write", "commit"} =>
                             roleCache'[g][Cur(g)'.org] \notin {None, Unread}
                        /\ pc'[g] \in {"write", "commit"} =>
                             Entitled(roleCache'[g][Cur(g)'.org], Cur(g)', existing'[g])
        BY DEF HeldInv
    <2>4. CASE g = h
        BY <2>1, <2>2, <2>4 DEF Cur, NoCache
    <2>5. CASE g # h
        BY <2>2, <2>3, <2>5 DEF HeldInv, Cur, KnownEntity
    <2> QED
        BY <2>4, <2>5
<1>3. ASSUME NEW o \in Orgs, NEW a \in Accounts, NEW r \in AssignableRoles \cup {None},
             RoleChange(o, a, r)
      PROVE  HeldInv'
    <2>1. /\ \A g \in Handlers, q \in Orgs : held[g][q] \subseteq held'[g][q]
          /\ \A g \in Handlers :
               pc[g] # "idle" /\ Cur(g).account = a => r \in held'[g][o]
        BY <1>3 DEF RoleChange, TypeOK
    <2>2. \A q \in Orgs, b \in Accounts :
             roles'[q][b] = IF q = o /\ b = a THEN r ELSE roles[q][b]
        BY <1>3 DEF RoleChange, TypeOK
    <2>3. \A g \in Handlers : pc[g] # "idle" => Cur(g).account \in Accounts
        BY CurType DEF MutationType
    <2>4. UNCHANGED local
        BY <1>3 DEF RoleChange
    <2> QED
        BY <2>1, <2>2, <2>3, <2>4 DEF HeldInv, Cur, KnownEntity, local
<1>4. CASE UNCHANGED <<local, roles, held>>
    BY <1>4 DEF local, HeldInv, Cur, KnownEntity
<1> QED
    BY <1>1, <1>2, <1>3, <1>4 DEF Next, Expire, Prune, vars, history

LEMMA HeldInit == Init => HeldInv
BY DEF Init, HeldInv

(* Whatever roles change, and whatever else of a batch went before, a row changes
   only by the right of a role its writer held while his request ran. *)
THEOREM WritersEntitled == Spec => Authorised
<1>1. ASSUME StatementInv, HeldInv, [Next]_vars, NEW i \in Ids, Rewritten(i)
      PROVE  \E h \in Handlers :
               /\ Writing(h, i)
               /\ \E role \in held[h][Cur(h).org] : Entitled(role, Cur(h), existing[h])
    <2>1. PICK h \in Handlers : Writing(h, i) /\ Cur(h) \in Mutations
        BY <1>1, RowsChange DEF StatementInv
    <2>2. pc[h] = "commit" /\ Cur(h).org \in Orgs
        BY <2>1 DEF Writing, MutationType
    <2>3. roleCache[h][Cur(h).org] \in held[h][Cur(h).org]
        BY <1>1, <2>2 DEF HeldInv
    <2> QED
        BY <1>1, <2>1, <2>2, <2>3 DEF HeldInv
<1>2. StatementInv /\ HeldInv /\ [Next]_vars
        => [\A i \in Ids : Rewritten(i) =>
              \E h \in Handlers :
                /\ Writing(h, i)
                /\ \E role \in held[h][Cur(h).org] :
                     Entitled(role, Cur(h), existing[h])]_vars
    BY <1>1
<1>3. StatementInv /\ HeldInv /\ [Next]_vars => HeldInv'
    BY NextType, HeldNext DEF StatementInv
<1> QED
    BY <1>2, <1>3, StatementInit, StatementNext, HeldInit, PTL DEF Spec, Authorised

----------------------------------------------------------------------------
(* What an undisturbed row keeps, and with it what answers say of the row. *)

LEMMA DisturbedGrows ==
    ASSUME TypeOK, LockInv, [Next]_vars
    PROVE  /\ disturbed \subseteq disturbed'
           /\ \A h \in Handlers : Step(h) /\ ~ Commits(h) => disturbed' = disturbed
<1>1. ASSUME NEW h \in Handlers, Step(h), ~ Commits(h)
      PROVE  disturbed' = disturbed
    <2>1. CASE UnknownEntity(h) \/ Replay(h) \/ NotMember(h) \/ ReadForeign(h) \/ Deny(h)
               \/ WriteGone(h) \/ WriteRefused(h) \/ Remember(h) \/ Fail(h)
        BY <2>1 DEF UnknownEntity, Replay, NotMember, ReadForeign, Deny, WriteGone, WriteRefused, Remember, Fail, Rejected
    <2>2. CASE FirstSeen(h) \/ ResolveMembership(h) \/ ReadStale(h) \/ ReadFresh(h) \/ Enforce(h)
               \/ DeleteNothing(h) \/ BeginWrite(h) \/ FanOut(h) \/ Crash(h)
        BY <2>2 DEF FirstSeen, ResolveMembership, ReadStale, ReadFresh, Enforce, DeleteNothing, BeginWrite, FanOut, Crash, history
    <2> QED
        BY <1>1, <2>1, <2>2 DEF Step, Commits
<1>2. ASSUME NEW h \in Handlers, Commits(h)
      PROVE  disturbed \subseteq disturbed'
    BY <1>2, CommitsRow DEF Committed
<1>3. CASE \E h \in Handlers : Step(h)
    BY <1>1, <1>2, <1>3
<1>4. CASE ~ \E h \in Handlers : Step(h)
    BY <1>4 DEF Next, Send, Expire, RoleChange, Prune, vars, history
<1> QED
    BY <1>1, <1>3, <1>4

(* Until it is disturbed, no row goes away or back in time. *)
LEMMA Advance ==
    ASSUME TypeOK, LockInv, ReadInv, TypeOK', [Next]_vars,
           NEW i \in Ids, rows[i] # None, i \notin disturbed'
    PROVE  /\ rows'[i] # None /\ rows'[i].at >= rows[i].at
           /\ rows[i].at \in Nat /\ rows'[i].at \in Nat
<1>1. rows[i].at \in Nat
    BY DEF TypeOK, Row
<1>2. rows'[i] # None
    <2>1. ASSUME NEW h \in Handlers, Step(h)
          PROVE  rows'[i] # None
        <3>1. CASE rows' = rows
            BY <3>1
        <3>2. CASE Commits(h)
            <4>1. PICK row \in Row : Committed(h, row)
                BY <3>2, CommitsRow
            <4>2. rows'[i] = row \/ rows'[i] = rows[i]
                BY <4>1 DEF Committed, TypeOK
            <4> QED
                BY <4>2, RowAssumption
        <3> QED
            BY <2>1, <3>1, <3>2, RowsOfStep
    <2>2. ASSUME NEW j \in Ids, Prune(j)
          PROVE  rows'[i] # None
        BY <2>2 DEF Prune
    <2> QED
        BY <2>1, <2>2 DEF Next, Send, Expire, RoleChange, vars, store
<1>3. CASE rows'[i] = rows[i]
    BY <1>1, <1>2, <1>3
<1>4. CASE rows'[i] # rows[i]
    <2>1. PICK h \in Handlers :
             /\ Writing(h, i) /\ Cur(h) \in Mutations
             /\ rows'[i].at = Cur(h).at
             /\ disturbed' = IF rows[i] = existing[h] THEN disturbed ELSE disturbed \cup {i}
        BY <1>2, <1>4, RowsChange DEF Rewritten
    <2>2. existing[h] = rows[i] /\ ~ Stale(existing[h], Cur(h)) /\ Cur(h).at \in Nat
        BY <2>1 DEF ReadInv, Passed, Writing, MutationType
    <2> QED
        BY <1>1, <1>2, <2>1, <2>2 DEF Stale
<1> QED
    BY <1>3, <1>4

LEMMA StillKept ==
    ASSUME TypeOK, LockInv, ReadInv, TypeOK', [Next]_vars, NEW m \in Mutations,
           rows[m.id] # None, rows[m.id].at >= m.at, m.id \notin disturbed'
    PROVE  rows'[m.id] # None /\ rows'[m.id].at >= m.at
<1>1. m.id \in Ids /\ m.at \in Nat
    BY DEF MutationType
<1>2. /\ rows'[m.id] # None /\ rows'[m.id].at >= rows[m.id].at
      /\ rows[m.id].at \in Nat /\ rows'[m.id].at \in Nat
    BY <1>1, Advance
<1> QED
    BY <1>1, <1>2

(* A commit on a row that it does not disturb is on the row its request read. *)
LEMMA Undisturbed ==
    ASSUME TypeOK, LockInv, ReadInv, NEW h \in Handlers, Commits(h),
           Cur(h).id \notin disturbed'
    PROVE  /\ existing[h] = rows[Cur(h).id]
           /\ disturbed' = disturbed
           /\ Cur(h).at \in Nat
           /\ rows[Cur(h).id] # None => rows[Cur(h).id].at \in Nat /\ rows[Cur(h).id].at < Cur(h).at
<1>1. pc[h] = "commit" /\ Cur(h) \in Mutations /\ Cur(h).id \in Ids
    BY CommitsRow
<1>2. existing[h] = rows[Cur(h).id] /\ disturbed' = disturbed
    BY CommitsRow DEF Committed
<1>3. ~ Stale(existing[h], Cur(h)) /\ Cur(h).at \in Nat
    BY <1>1 DEF ReadInv, Passed, MutationType
<1>4. rows[Cur(h).id] # None => rows[Cur(h).id].at \in Nat
    BY <1>1 DEF TypeOK, Row
<1> QED
    BY <1>2, <1>3, <1>4 DEF Stale

(* How a request comes to have an answer in hand. *)
LEMMA AnsweredMoves ==
    ASSUME TypeOK, LockInv, [Next]_vars, NEW h \in Handlers, Answered(h)'
    PROVE  \/ Answered(h) /\ ack'[h] = ack[h] /\ batch'[h] = batch[h]
           \/ ReadStale(h) \/ DeleteNothing(h) \/ Commits(h)
<1>1. CASE Step(h)
    <2>1. ASSUME \/ UnknownEntity(h) \/ Replay(h) \/ NotMember(h) \/ ReadForeign(h)
                 \/ Deny(h) \/ WriteGone(h) \/ WriteRefused(h) \/ Remember(h) \/ Fail(h)
          PROVE  pc'[h] \notin {"fanout", "remember"}
        <3>1. PICK point \in {"idle", "lookup"} : pc' = [pc EXCEPT ![h] = point]
            BY <2>1 DEF UnknownEntity, Replay, NotMember, ReadForeign, Deny, WriteGone,
               WriteRefused, Remember, Fail, Rejected, Answer, NextMutation, Goto
        <3> QED
            BY <3>1 DEF TypeOK
    <2>2. ASSUME FirstSeen(h) \/ ResolveMembership(h) \/ ReadFresh(h) \/ Enforce(h)
                 \/ BeginWrite(h) \/ Crash(h)
          PROVE  pc'[h] \notin {"fanout", "remember"}
        BY <2>2 DEF FirstSeen, ResolveMembership, ReadFresh, Enforce, BeginWrite, Crash, Goto, TypeOK
    <2>3. ASSUME FanOut(h)
          PROVE  Answered(h) /\ ack'[h] = ack[h] /\ batch'[h] = batch[h]
        BY <2>3 DEF FanOut, Answered
    <2> QED
        BY <1>1, <2>1, <2>2, <2>3 DEF Step, Commits, Answered
<1>2. ASSUME NEW g \in Handlers, g # h, Step(g)
      PROVE  Answered(h) /\ ack'[h] = ack[h] /\ batch'[h] = batch[h]
    BY <1>2, OneMoves DEF Answered
<1>3. ASSUME NEW g \in Handlers, NEW b \in Batches, Send(g, b)
      PROVE  Answered(h) /\ ack'[h] = ack[h] /\ batch'[h] = batch[h]
    BY <1>3 DEF Send, Goto, Answered, TypeOK
<1>4. CASE UNCHANGED local
    BY <1>4 DEF local, Answered
<1> QED
    BY <1>1, <1>2, <1>3, <1>4 DEF Next, Expire, RoleChange, Prune, vars

LEMMA AnswerStep ==
    ASSUME TypeOK, LockInv, VersionInv, ReadInv, AnswerInv, TypeOK', [Next]_vars
    PROVE  AnswerInv'
<1>0. disturbed \subseteq disturbed'
    BY DisturbedGrows
<1>1. ASSUME NEW m \in Mutations, m.id \notin disturbed'
      PROVE  Kept(idem[m], m)'
    <2> SUFFICES ASSUME idem'[m] # None, idem'[m].ver # None
                 PROVE  rows'[m.id] # None /\ rows'[m.id].at >= m.at
        BY DEF Kept
    <2>1. CASE idem'[m] = idem[m]
        BY <1>0, <1>1, <2>1, StillKept DEF AnswerInv, Kept
    <2>2. CASE \E h \in Handlers : Remember(h) /\ m = Cur(h) /\ idem'[m] = ack[h]
        BY <1>0, <1>1, <2>2, StillKept DEF AnswerInv, Answered, Kept, Remember
    <2>3. \/ idem'[m] = idem[m]
          \/ idem'[m] = None
          \/ \E h \in Handlers : Remember(h) /\ m = Cur(h) /\ idem'[m] = ack[h]
        <3>1. ASSUME NEW h \in Handlers, Remember(h)
              PROVE  idem'[m] = idem[m] \/ (m = Cur(h) /\ idem'[m] = ack[h])
            BY <3>1 DEF Remember, TypeOK
        <3>2. ASSUME NEW n \in Mutations, Expire(n)
              PROVE  idem'[m] = idem[m] \/ idem'[m] = None
            BY <3>2 DEF Expire, TypeOK
        <3>3. ASSUME NEW h \in Handlers, Step(h), ~ Remember(h)
              PROVE  idem' = idem
            BY <3>3 DEF Step, UnknownEntity, Replay, FirstSeen, ResolveMembership, NotMember, ReadForeign, ReadStale, ReadFresh, Enforce, Deny, DeleteNothing, WriteGone, WriteRefused, BeginWrite, CommitTombstone, CommitUpdate, CommitInsert, FanOut, Fail, Crash, Committed, Rejected
        <3> QED
            BY <3>1, <3>2, <3>3 DEF Next, Send, RoleChange, Prune, vars
    <2> QED
        BY <2>1, <2>2, <2>3
<1>2. ASSUME NEW h \in Handlers, Answered(h)'
      PROVE  ack'[h] # None /\ (Cur(h)'.id \notin disturbed' => Kept(ack[h], Cur(h))')
    <2>1. CASE Answered(h) /\ ack'[h] = ack[h] /\ batch'[h] = batch[h]
        <3>1. Cur(h) \in Mutations /\ Cur(h)' = Cur(h) /\ ack[h] # None
            BY <2>1, CurType DEF Answered, AnswerInv, Cur
        <3> QED
            BY <1>0, <2>1, <3>1, StillKept DEF AnswerInv, Kept
    <2>2. CASE ReadStale(h)
        <3>1. /\ Cur(h)' = Cur(h)
              /\ rows' = rows
              /\ Stale(rows[Cur(h).id], Cur(h))
              /\ Cur(h).id \in Ids
              /\ ack'[h] = [status |-> "stale", ver |-> rows[Cur(h).id].ver]
            BY <2>2, CurType DEF ReadStale, Cur, store, MutationType, TypeOK
        <3>2. rows[Cur(h).id].ver \in Nat
            BY <3>1 DEF TypeOK, Row, Stale
        <3>3. [status |-> "stale", ver |-> rows[Cur(h).id].ver] \in Ack
            BY <3>2 DEF Ack
        <3> QED
            BY <3>1, <3>3, RowAssumption DEF Stale, Kept
    <2>3. CASE DeleteNothing(h)
        <3>1. [status |-> "applied", ver |-> None] \in Ack
            BY DEF Ack
        <3> QED
            BY <2>3, <3>1, RowAssumption DEF DeleteNothing, TypeOK, Kept
    <2>4. CASE Commits(h)
        <3>1. PICK row \in Row : Committed(h, row) /\ row.at = Cur(h).at
            BY <2>4, CommitsRow
        <3>2. ack'[h] = ack[h] /\ ack[h] # None /\ Cur(h)' = Cur(h) /\ rows'[Cur(h).id] = row
            BY <2>4, <3>1, CommitsRow DEF Committed, Cur, TypeOK
        <3>3. Cur(h).at \in Nat
            BY <2>4, CommitsRow DEF MutationType
        <3> QED
            BY <3>1, <3>2, <3>3, RowAssumption DEF Kept
    <2> QED
        BY <1>2, <2>1, <2>2, <2>3, <2>4, AnsweredMoves
<1> QED
    BY <1>1, <1>2 DEF AnswerInv

LEMMA AnswerInit == Init => AnswerInv
BY DEF Init, AnswerInv, Answered, Kept

----------------------------------------------------------------------------
(* The refinement: SyncPush implements LwwRegister. *)

Reg == [i \in Ids |-> RegisterOf(i)]
Promised == {m \in answered : m.id \notin disturbed}

LEMMA ImplementsInit == Init => Lww!Init
BY DEF Init, Lww!Init, RegisterOf

(* Rows that are disturbed, and no others that change, are registers lost. *)
LEMMA ImplementsLoss ==
    ASSUME NEW S \in SUBSET Ids, disturbed' = disturbed \cup S, answered' = answered,
           \A i \in Ids \ S : rows'[i] = rows[i]
    PROVE  Lww!Next
<1>1. \A i \in Ids : RegisterOf(i)' = IF i \in S THEN None ELSE RegisterOf(i)
    BY DEF RegisterOf
<1>2. Reg' = [i \in Ids |-> IF i \in S THEN None ELSE Reg[i]]
    BY <1>1 DEF Reg
<1>3. Promised' = {m \in Promised : m.id \notin S}
    BY DEF Promised
<1> QED
    BY <1>2, <1>3 DEF Lww!Next, Lww!Lose, Reg, Promised

(* A write of a row that stays undisturbed is the register's Upsert or Delete. *)
LEMMA ImplementsWrite ==
    ASSUME TypeOK, LockInv, ReadInv, NEW h \in Handlers, Commits(h)
    PROVE  Lww!Next
<1> DEFINE m == Cur(h)
           v == ack[h].ver
<1>1. /\ pc[h] = "commit" /\ m \in Mutations /\ m \in MutationType /\ m.id \in Ids
      /\ rows[m.id] \in Row \cup {None}
    BY CommitsRow DEF TypeOK
<1>2. CASE m.id \in disturbed'
    <2>1. disturbed' = disturbed \cup {m.id}
        BY <1>2, CommitsRow DEF Committed
    <2>2. answered' = answered /\ \A i \in Ids \ {m.id} : rows'[i] = rows[i]
        BY CommitsRow DEF Committed, TypeOK
    <2>3. PICK S \in SUBSET Ids : S = {m.id}
        BY <1>1
    <2> QED
        BY <2>1, <2>2, <2>3, ImplementsLoss
<1>3. CASE m.id \notin disturbed'
    <2>1. /\ existing[h] = rows[m.id] /\ disturbed' = disturbed
          /\ rows[m.id] # None => rows[m.id].at < m.at
        BY <1>3, Undisturbed
    <2>2. Lww!Newer(m)
        BY <1>1, <1>3, <2>1 DEF Lww!Newer, RegisterOf
    <2>3. ASSUME NEW row \in Row, Committed(h, row)
          PROVE  /\ Reg' = [Reg EXCEPT ![m.id] =
                      [cols |-> row.cols, at |-> row.at, deletedAt |-> row.deletedAt]]
                 /\ Promised' = Promised
        <3>1. \A i \in Ids : rows'[i] = IF i = m.id THEN row ELSE rows[i]
            BY <1>1, <2>3 DEF Committed, TypeOK
        <3>2. row # None
            BY RowAssumption
        <3>3. \A i \in Ids : i = m.id =>
                 RegisterOf(i)' = [cols |-> row.cols, at |-> row.at, deletedAt |-> row.deletedAt]
            BY <1>1, <1>3, <3>1, <3>2 DEF RegisterOf
        <3>4. \A i \in Ids : i # m.id => RegisterOf(i)' = RegisterOf(i)
            BY <2>1, <3>1 DEF RegisterOf
        <3>5. answered' = answered
            BY <2>3 DEF Committed
        <3> QED
            BY <1>1, <2>1, <3>3, <3>4, <3>5 DEF Reg, Promised
    <2>4. CASE CommitTombstone(h)
        <3> DEFINE row == Tombstoned(rows[m.id], m, v)
        <3>1. /\ Committed(h, row) /\ m.op = "delete" /\ rows[m.id] # None /\ v \in Nat
            BY <1>1, <2>4 DEF CommitTombstone, LockInv
        <3>2. row \in Row
            BY <1>1, <3>1, RowType
        <3>3. row.cols = rows[m.id].cols /\ row.at = m.at /\ row.deletedAt = m.at
            BY <1>1, <3>1 DEF Tombstoned, Row
        <3>4. /\ Reg[m.id] = [cols |-> rows[m.id].cols, at |-> rows[m.id].at,
                              deletedAt |-> rows[m.id].deletedAt]
              /\ Reg[m.id] \in Register
            BY <1>1, <1>3, <2>1, <3>1 DEF Reg, RegisterOf, Register, Row
        <3>5. Reg[m.id] # None /\ Reg[m.id].cols = rows[m.id].cols
            BY <3>4, RowAssumption
        <3>6. /\ Reg' = [Reg EXCEPT ![m.id] =
                    [cols |-> Reg[m.id].cols, at |-> m.at, deletedAt |-> m.at]]
              /\ Promised' = Promised
            <4> HIDE DEF row
            <4> QED
                BY <2>3, <3>1, <3>2, <3>3, <3>5
        <3> QED
            BY <1>1, <2>1, <2>2, <3>1, <3>5, <3>6 DEF Lww!Next, Lww!Delete, Reg, Promised
    <2>5. CASE CommitUpdate(h)
        <3> DEFINE row == Replaced(rows[m.id], m, v)
        <3>1. Committed(h, row) /\ m.op = "upsert" /\ rows[m.id] \in Row /\ v \in Nat
            BY <1>1, <2>5 DEF CommitUpdate, LockInv
        <3>2. row \in Row
            BY <1>1, <3>1, RowType
        <3>3. row.cols = m /\ row.at = m.at /\ row.deletedAt = m.deletedAt
            BY <3>1 DEF Replaced, Row
        <3>4. /\ Reg' = [Reg EXCEPT ![m.id] =
                    [cols |-> m, at |-> m.at, deletedAt |-> m.deletedAt]]
              /\ Promised' = Promised
            <4> HIDE DEF row
            <4> QED
                BY <2>3, <3>1, <3>2, <3>3
        <3> QED
            BY <1>1, <2>1, <2>2, <3>1, <3>4 DEF Lww!Next, Lww!Upsert, Reg, Promised
    <2>6. CASE CommitInsert(h)
        <3> DEFINE row == Created(m, v)
        <3>1. Committed(h, row) /\ m.op = "upsert" /\ v \in Nat
            BY <1>1, <2>6 DEF CommitInsert, LockInv
        <3>2. row \in Row
            BY <1>1, <3>1, RowType
        <3>3. row.cols = m /\ row.at = m.at /\ row.deletedAt = m.deletedAt
            BY DEF Created
        <3>4. /\ Reg' = [Reg EXCEPT ![m.id] =
                    [cols |-> m, at |-> m.at, deletedAt |-> m.deletedAt]]
              /\ Promised' = Promised
            <4> HIDE DEF row
            <4> QED
                BY <2>3, <3>1, <3>2, <3>3
        <3> QED
            BY <1>1, <2>1, <2>2, <3>1, <3>4 DEF Lww!Next, Lww!Upsert, Reg, Promised
    <2> QED
        BY <2>4, <2>5, <2>6 DEF Commits
<1> QED
    BY <1>2, <1>3

(* An answer with a version is the register's Promise, unless it is lost. *)
LEMMA ImplementsAnswer ==
    ASSUME TypeOK, NEW h \in Handlers, pc[h] # "idle", NEW a, a # None,
           Cur(h).id \notin disturbed => Kept(a, Cur(h)),
           Answer(h, a), UNCHANGED <<store, disturbed>>
    PROVE  [Lww!Next]_(Lww!vars)
<1> DEFINE m == Cur(h)
<1>1. m \in Mutations /\ m.id \in Ids /\ rows[m.id] \in Row \cup {None}
    BY CurType DEF MutationType, TypeOK
<1>2. Reg' = Reg
    BY DEF store, Reg, RegisterOf
<1>3. CASE a.ver = None \/ m.id \in disturbed
    <2>1. Promised' = Promised
        BY <1>3 DEF Answer, Promised
    <2> QED
        BY <1>2, <2>1 DEF Lww!vars, Reg, Promised
<1>4. CASE a.ver # None /\ m.id \notin disturbed
    <2>1. rows[m.id] # None /\ rows[m.id].at >= m.at /\ answered' = answered \cup {m}
        BY <1>4 DEF Kept, Answer
    <2>2. /\ Reg[m.id] = [cols |-> rows[m.id].cols, at |-> rows[m.id].at,
                          deletedAt |-> rows[m.id].deletedAt]
          /\ Reg[m.id] \in Register
        BY <1>1, <1>4, <2>1 DEF Reg, RegisterOf, Register, Row
    <2>3. Reg[m.id] # None /\ Reg[m.id].at >= m.at
        BY <2>1, <2>2, RowAssumption
    <2>4. Promised' = Promised \cup {m}
        BY <1>4, <2>1 DEF Promised
    <2> QED
        BY <1>1, <1>2, <2>3, <2>4 DEF Lww!Next, Lww!Promise, Reg, Promised
<1> QED
    BY <1>3, <1>4

LEMMA ImplementsNext ==
    ASSUME TypeOK, LockInv, ReadInv, AnswerInv, [Next]_vars
    PROVE  [Lww!Next]_(Lww!vars)
<1>0. ASSUME UNCHANGED <<rows, answered, disturbed>>
      PROVE  UNCHANGED Lww!vars
    BY <1>0 DEF Lww!vars, RegisterOf
<1>1. ASSUME NEW h \in Handlers, Step(h)
      PROVE  [Lww!Next]_(Lww!vars)
    <2>1. CASE Commits(h)
        BY <2>1, ImplementsWrite
    <2>2. CASE Replay(h)
        <3>1. pc[h] # "idle" /\ Cur(h) \in Mutations
            BY <2>2, CurType DEF Replay
        <3>2. Cur(h).id \notin disturbed => Kept(idem[Cur(h)], Cur(h))
            BY <3>1 DEF AnswerInv
        <3> QED
            BY <2>2, <3>1, <3>2, ImplementsAnswer DEF Replay
    <2>3. CASE Remember(h)
        <3>1. ack[h] # None /\ (Cur(h).id \notin disturbed => Kept(ack[h], Cur(h)))
            BY <2>3 DEF Remember, AnswerInv, Answered
        <3> QED
            BY <2>3, <3>1, ImplementsAnswer DEF Remember
    <2>4. CASE ~ Commits(h) /\ ~ Replay(h) /\ ~ Remember(h)
        <3>1. rows' = rows /\ disturbed' = disturbed
            BY <1>1, <2>4, RowsOfStep, DisturbedGrows DEF Next
        <3>2. answered' = answered
            BY <1>1, <2>4 DEF Step, Commits, UnknownEntity, FirstSeen, ResolveMembership, NotMember, ReadForeign, ReadStale, ReadFresh, Enforce, Deny, DeleteNothing, WriteGone, WriteRefused, BeginWrite, FanOut, Fail, Crash, Rejected, history
        <3> QED
            BY <1>0, <3>1, <3>2
    <2> QED
        BY <2>1, <2>2, <2>3, <2>4
<1>2. ASSUME NEW i \in Ids, Prune(i)
      PROVE  Lww!Next
    <2>1. {i} \cup Under(i) \subseteq Ids
        BY DEF Under, Children
    <2>2. /\ disturbed' = disturbed \cup ({i} \cup Under(i))
          /\ answered' = answered
          /\ \A j \in Ids \ ({i} \cup Under(i)) : rows'[j] = rows[j]
        BY <1>2 DEF Prune
    <2>3. PICK S \in SUBSET Ids : S = {i} \cup Under(i)
        BY <2>1
    <2> QED
        BY <2>2, <2>3, ImplementsLoss
<1>3. CASE UNCHANGED <<rows, answered, disturbed>>
    BY <1>0, <1>3
<1> QED
    BY <1>1, <1>2, <1>3 DEF Next, Send, Expire, RoleChange, vars, store, history

(* However requests overlap, crash and are repeated, and whatever retention and
   role changes do meanwhile, push is a last-writer-wins register per row that
   keeps what it answered, until the row is disturbed. *)
THEOREM PushIsLww == Spec => ImplementsLww
<1> DEFINE Inv == StatementInv /\ ReadInv /\ AnswerInv
<1>1. Init => Inv /\ Lww!Init
    BY StatementInit, ReadInit, AnswerInit, ImplementsInit
<1>2. Inv /\ [Next]_vars => Inv'
    BY StatementNext, ReadStep, AnswerStep DEF StatementInv
<1>3. Inv /\ [Next]_vars => [Lww!Next]_(Lww!vars)
    BY ImplementsNext DEF StatementInv
<1> QED
    BY <1>1, <1>2, <1>3, PTL DEF Spec, ImplementsLww, Lww!Spec

----------------------------------------------------------------------------
(* Repeating a mutation does nothing twice. *)

LEMMA DueBounded ==
    ASSUME NEW m \in Mutations, NEW a \in Accounts, NEW r
    PROVE  /\ Copies(m, a) \in Nat
           /\ Due(m, r, a) \in Nat
           /\ Due(m, r, a) <= Copies(m, a)
<1> DEFINE S == {k \in DOMAIN m.mentions : m.mentions[k] = a}
<1>1. Mentioned(m, a) \in Nat
    <2>1. m.mentions \in Seq(Accounts)
        BY DEF MutationType
    <2>0. Len(m.mentions) \in Nat /\ DOMAIN m.mentions = 1..Len(m.mentions)
        BY <2>1
    <2>2. IsFiniteSet(1..Len(m.mentions)) /\ S \subseteq 1..Len(m.mentions)
        BY <2>0, FS_Interval
    <2>3. IsFiniteSet(S)
        BY <2>2, FS_Subset
    <2> QED
        BY <2>3, FS_CardinalityType DEF Mentioned
<1> QED
    BY <1>1 DEF Copies, Due

(* The counters move in the commits and in fanOut alone. *)
LEMMA OnceStep ==
    ASSUME TypeOK, LockInv, ReadInv, OnceInv, TypeOK', [Next]_vars
    PROVE  OnceInv'
<1>0. disturbed \subseteq disturbed'
    BY DisturbedGrows
<1>1. ASSUME NEW m \in Mutations, m.id \notin disturbed', applied[m] = 1
      PROVE  rows'[m.id] # None /\ rows'[m.id].at >= m.at
    BY <1>0, <1>1, StillKept DEF OnceInv, Once
<1>2. \A m \in Mutations : applied[m] \in Nat /\ \A a \in Accounts : notified[m][a] \in Nat
    BY DEF TypeOK
<1>3. ASSUME NEW h \in Handlers, Commits(h)
      PROVE  OnceInv'
    <2> DEFINE c == Cur(h)
    <2>1. pc[h] = "commit" /\ c \in Mutations /\ c.id \in Ids
        BY <1>3, CommitsRow
    <2>2. PICK row \in Row : Committed(h, row) /\ row.at = c.at
        BY <1>3, CommitsRow
    <2>3. /\ applied' = [applied EXCEPT ![c] = @ + 1]
          /\ notified' = notified /\ batch' = batch
          /\ \A g \in Handlers : Cur(g)' = Cur(g)
          /\ \A g \in Handlers \ {h} : pc'[g] = pc[g]
        BY <2>2 DEF Committed, Cur, Goto, TypeOK
    <2>4. ASSUME c.id \notin disturbed'
          PROVE  /\ applied[c] = 0 /\ applied'[c] = 1
                 /\ \A a \in Accounts : notified[c][a] = 0
                 /\ rows'[c.id] # None /\ rows'[c.id].at >= c.at
        <3>1. /\ c.at \in Nat
              /\ rows[c.id] # None => rows[c.id].at \in Nat /\ rows[c.id].at < c.at
            BY <1>3, <2>4, Undisturbed
        <3>2. Once(c)
            BY <1>0, <2>1, <2>4 DEF OnceInv
        <3>3. applied[c] = 0
            BY <1>2, <2>1, <3>1, <3>2 DEF Once
        <3>4. rows'[c.id] = row
            BY <2>1, <2>2 DEF Committed, TypeOK
        <3> QED
            BY <2>1, <2>2, <2>3, <3>1, <3>2, <3>3, <3>4, RowAssumption DEF Once, TypeOK
    <2>5. ASSUME NEW m \in Mutations, m.id \notin disturbed'
          PROVE  Once(m)'
        <3>1. CASE m = c
            BY <2>3, <2>4, <2>5, <3>1, DueBounded DEF Once, Copies, Mentioned
        <3>2. CASE m # c
            BY <1>0, <1>1, <2>3, <2>5, <3>2 DEF OnceInv, Once, Copies, Mentioned, TypeOK
        <3> QED
            BY <3>1, <3>2
    <2>6. ASSUME NEW g \in Handlers, Notifying(g)'
          PROVE  g = h \/ (Notifying(g) /\ Cur(g) # c /\ Cur(g) \in Mutations)
        <3>1. CASE g # h
            <4>1. Notifying(g)
                BY <1>0, <2>3, <2>6, <3>1 DEF Notifying
            <4>2. Cur(g) \in Mutations
                BY <4>1, CurType DEF Notifying
            <4>3. Cur(g) = c => applied[c] = 0
                BY <2>3, <2>4, <2>6 DEF Notifying
            <4> QED
                BY <4>1, <4>2, <4>3 DEF OnceInv
        <3> QED
            BY <3>1
    <2>7. ASSUME NEW g \in Handlers, Notifying(g)'
          PROVE  applied'[Cur(g)'] = 1 /\ \A a \in Accounts : notified'[Cur(g)'][a] = 0
        <3>1. CASE g = h
            BY <2>3, <2>4, <2>7, <3>1 DEF Notifying
        <3>2. CASE g # h
            BY <2>3, <2>6, <2>7, <3>2 DEF OnceInv, TypeOK
        <3> QED
            BY <3>1, <3>2
    <2>8. ASSUME NEW f \in Handlers, NEW g \in Handlers,
                 Notifying(f)', Notifying(g)', Cur(f)' = Cur(g)'
          PROVE  f = g
        BY <2>3, <2>6, <2>8 DEF OnceInv
    <2> QED
        BY <2>5, <2>7, <2>8 DEF OnceInv
<1>4. ASSUME NEW h \in Handlers, FanOut(h)
      PROVE  OnceInv'
    <2> DEFINE c == Cur(h)
    <2>1. pc[h] = "fanout" /\ c \in Mutations /\ c \in MutationType
        BY <1>4, CurType DEF FanOut
    <2>2. PICK made \in [Accounts -> 0..(Len(c.mentions) + 1)] :
             /\ \A a \in Accounts : made[a] <= Due(c, existing[h], a)
             /\ notified' = [notified EXCEPT ![c] = [a \in Accounts |-> notified[c][a] + made[a]]]
        BY <1>4 DEF FanOut
    <2>3. /\ applied' = applied /\ disturbed' = disturbed /\ batch' = batch
          /\ pc' = [pc EXCEPT ![h] = "remember"]
          /\ \A g \in Handlers : Cur(g)' = Cur(g)
        BY <1>4 DEF FanOut, Goto, Cur
    <2>4. ASSUME c.id \notin disturbed
          PROVE  /\ applied[c] = 1
                 /\ \A a \in Accounts : notified'[c][a] <= Copies(c, a)
        <3>1. applied[c] = 1 /\ \A a \in Accounts : notified[c][a] = 0
            BY <2>1, <2>4 DEF OnceInv, Notifying
        <3>2. ASSUME NEW a \in Accounts
              PROVE  notified'[c][a] <= Copies(c, a)
            <4>1. notified'[c][a] = notified[c][a] + made[a]
                BY <2>1, <2>2 DEF TypeOK
            <4>2. made[a] \in Nat
                BY <2>1, <2>2 DEF MutationType
            <4>3. /\ Copies(c, a) \in Nat
                  /\ Due(c, existing[h], a) \in Nat
                  /\ Due(c, existing[h], a) <= Copies(c, a)
                BY <2>1, DueBounded
            <4>4. made[a] <= Due(c, existing[h], a)
                BY <2>2
            <4> QED
                BY <3>1, <4>1, <4>2, <4>3, <4>4
        <3> QED
            BY <3>1, <3>2
    <2>5. ASSUME NEW m \in Mutations, m.id \notin disturbed'
          PROVE  Once(m)'
        <3>1. CASE m = c
            <4>1. /\ applied'[m] = 1
                  /\ \A a \in Accounts : notified'[m][a] <= Copies(m, a)
                BY <2>3, <2>4, <2>5, <3>1
            <4>2. rows'[m.id] # None /\ rows'[m.id].at >= m.at
                BY <1>1, <2>3, <2>5, <4>1
            <4> QED
                BY <4>1, <4>2 DEF Once, Copies, Mentioned
        <3>2. CASE m # c
            BY <1>1, <2>2, <2>3, <2>5, <3>2 DEF OnceInv, Once, Copies, Mentioned, TypeOK
        <3> QED
            BY <3>1, <3>2
    <2>6. ASSUME NEW g \in Handlers, Notifying(g)'
          PROVE  Notifying(g) /\ Cur(g) # c /\ Cur(g) \in Mutations
        <3>1. g # h /\ Notifying(g)
            BY <2>3, <2>6 DEF Notifying, TypeOK
        <3>2. Cur(g) = c => Notifying(h)
            BY <2>1, <3>1 DEF Notifying
        <3>3. Cur(g) \in Mutations
            BY <3>1, CurType DEF Notifying
        <3> QED
            BY <3>1, <3>2, <3>3 DEF OnceInv
    <2>7. ASSUME NEW g \in Handlers, Notifying(g)'
          PROVE  applied'[Cur(g)'] = 1 /\ \A a \in Accounts : notified'[Cur(g)'][a] = 0
        BY <2>2, <2>3, <2>6, <2>7 DEF OnceInv, TypeOK
    <2>8. ASSUME NEW f \in Handlers, NEW g \in Handlers,
                 Notifying(f)', Notifying(g)', Cur(f)' = Cur(g)'
          PROVE  f = g
        BY <2>3, <2>6, <2>8 DEF OnceInv
    <2> QED
        BY <2>5, <2>7, <2>8 DEF OnceInv
<1>5. ASSUME UNCHANGED <<applied, notified>>,
             \A h \in Handlers : pc'[h] = "fanout" => pc[h] = "fanout" /\ batch'[h] = batch[h]
      PROVE  OnceInv'
    <2>1. \A h \in Handlers : Notifying(h)' => Notifying(h) /\ Cur(h)' = Cur(h)
        BY <1>0, <1>5 DEF Notifying, Cur
    <2>2. ASSUME NEW m \in Mutations, m.id \notin disturbed'
          PROVE  Once(m)'
        BY <1>0, <1>1, <1>5, <2>2 DEF OnceInv, Once, Copies, Mentioned
    <2> QED
        BY <1>5, <2>1, <2>2 DEF OnceInv
<1>6. ASSUME NEW h \in Handlers, Step(h), ~ FanOut(h), ~ Commits(h)
      PROVE  /\ UNCHANGED <<applied, notified>>
             /\ \A g \in Handlers : pc'[g] = "fanout" => pc[g] = "fanout" /\ batch'[g] = batch[g]
    <2>1. ASSUME \/ UnknownEntity(h) \/ Replay(h) \/ NotMember(h) \/ ReadForeign(h)
                 \/ Deny(h) \/ WriteGone(h) \/ WriteRefused(h) \/ Remember(h) \/ Fail(h)
          PROVE  UNCHANGED <<applied, notified>> /\ pc'[h] # "fanout"
        BY <2>1 DEF UnknownEntity, Replay, NotMember, ReadForeign, Deny, WriteGone,
           WriteRefused, Remember, Fail, Rejected, Answer, NextMutation, Goto, TypeOK
    <2>2. ASSUME \/ FirstSeen(h) \/ ResolveMembership(h) \/ ReadStale(h) \/ ReadFresh(h)
                 \/ Enforce(h) \/ DeleteNothing(h) \/ BeginWrite(h) \/ Crash(h)
          PROVE  UNCHANGED <<applied, notified>> /\ pc'[h] # "fanout"
        BY <2>2 DEF FirstSeen, ResolveMembership, ReadStale, ReadFresh, Enforce,
           DeleteNothing, BeginWrite, Crash, Goto, history, TypeOK
    <2>3. UNCHANGED <<applied, notified>> /\ pc'[h] # "fanout"
        BY <1>6, <2>1, <2>2 DEF Step, Commits
    <2> QED
        BY <1>6, <2>3, OneMoves
<1>7. ASSUME NEW h \in Handlers, NEW b \in Batches, Send(h, b)
      PROVE  /\ UNCHANGED <<applied, notified>>
             /\ \A g \in Handlers : pc'[g] = "fanout" => pc[g] = "fanout" /\ batch'[g] = batch[g]
    BY <1>7 DEF Send, Goto, TypeOK
<1>8. ASSUME NEW h \in Handlers, Step(h)
      PROVE  OnceInv'
    BY <1>3, <1>4, <1>5, <1>6, <1>8
<1>9. CASE UNCHANGED <<local, applied, notified>>
    BY <1>5, <1>9 DEF local
<1> QED
    BY <1>5, <1>7, <1>8, <1>9 DEF Next, Expire, RoleChange, Prune, vars, history

LEMMA OnceInit == Init => OnceInv
<1>1. \A m \in Mutations, a \in Accounts : Copies(m, a) \in Nat
    BY DueBounded
<1> QED
    BY <1>1 DEF Init, OnceInv, Once, Notifying

(* However often, in whatever pieces and with whatever overlap a mutation is
   repeated, it changes its row at most once and notifies each member as often
   as it should, until the row is disturbed; the idempotency record may be lost
   or expire meanwhile. *)
THEOREM NothingTwice == Spec => []AtMostOnce
<1> DEFINE Inv == StatementInv /\ ReadInv /\ OnceInv
<1>1. Init => Inv
    BY StatementInit, ReadInit, OnceInit
<1>2. Inv /\ [Next]_vars => Inv'
    BY StatementNext, ReadStep, OnceStep DEF StatementInv
<1>3. Inv => AtMostOnce
    BY DEF OnceInv, Once, AtMostOnce
<1> QED
    BY <1>1, <1>2, <1>3, PTL DEF Spec
====
