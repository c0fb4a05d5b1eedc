---- MODULE SyncPull ----
(* SyncService.pull (sync/sync.service.ts) against concurrent writers, and the
   replicas it keeps on the clients' devices. row_version_seq is not
   transactional: a statement draws its version first and its row becomes
   visible when it commits, maybe after a later draw. A pull reads one table
   after another, each SELECT with a snapshot of its own.

   A device keeps one pull open at a time and applies a page as a whole: the
   client is not part of the repository. *)
EXTENDS Naturals, FiniteSets

CONSTANTS
    Rows,        \* rows of all the tables of PULL_ENTITIES
    NumTables,   \* how many tables there are
    TableOf,     \* TableOf[r]: the place of r's table in PULL_ENTITIES
    Writers,     \* statements that may be in flight at a time
    Devices,
    Visible,     \* Visible[d]: the rows pullScope lets d's member read
    Limit,       \* the page size
    MaxVersion,  \* bound: versions drawn in a behaviour
    MaxLost,     \* bound: pulls whose answer never arrives
    None

ASSUME TablesAssumption ==
    /\ NumTables \in Nat \ {0}
    /\ TableOf \in [Rows -> 1..NumTables]
    /\ IsFiniteSet(Rows)
ASSUME ScopeAssumption == Visible \in [Devices -> SUBSET Rows]
ASSUME LimitAssumption == Limit \in Nat \ {0}
ASSUME BoundsAssumption == MaxVersion \in Nat /\ MaxLost \in Nat

VARIABLES
    seq,         \* row_version_seq: the last value drawn
    version,     \* version[r]: row_version of the committed row, 0 if none
    writing,     \* writing[w]: the row and version of an open statement, or None
    pc,          \* pc[d]: what d's pull does
    cursor,      \* cursor[d]: the last nextCursor, sent as since
    copy,        \* copy[d][r]: the version of d's copy, 0 if none
    table,       \* table[d]: the table d's pull reads next
    candidates,  \* candidates[d]: the rows read so far
    capped,      \* capped[d]: some SELECT returned limit rows
    lost,        \* answers lost so far
    seen,        \* history: seen[d][r]: r's version when its table was read
    overtaken    \* history: versions that became visible behind d's back

database == <<seq, version, writing>>
pull     == <<pc, table, candidates, capped, seen>>
replica  == <<cursor, copy>>
vars     == <<database, pull, replica, lost, overtaken>>

Entry == [row : Rows, ver : Nat]

ASSUME EntryAssumption == None \notin Entry

TypeOK ==
    /\ seq \in Nat
    /\ version \in [Rows -> Nat]
    /\ writing \in [Writers -> Entry \cup {None}]
    /\ pc \in [Devices -> {"idle", "reading", "answering"}]
    /\ cursor \in [Devices -> Nat]
    /\ copy \in [Devices -> [Rows -> Nat]]
    /\ table \in [Devices -> 1..NumTables + 1]
    /\ candidates \in [Devices -> SUBSET Entry]
    /\ capped \in [Devices -> BOOLEAN]
    /\ lost \in Nat
    /\ seen \in [Devices -> [Rows -> Nat]]
    /\ overtaken \in [Devices -> SUBSET Nat]

Nothing == [r \in Rows |-> 0]

Init ==
    /\ seq = 0
    /\ version = Nothing
    /\ writing = [w \in Writers |-> None]
    /\ pc = [d \in Devices |-> "idle"]
    /\ cursor = [d \in Devices |-> 0]
    /\ copy = [d \in Devices |-> Nothing]
    /\ table = [d \in Devices |-> 1]
    /\ candidates = [d \in Devices |-> {}]
    /\ capped = [d \in Devices |-> FALSE]
    /\ lost = 0
    /\ seen = [d \in Devices |-> Nothing]
    /\ overtaken = [d \in Devices |-> {}]

----------------------------------------------------------------------------
(* Writers: an INSERT or UPDATE with rowVersion: nextRowVersion(). *)

Locked(r) == \E w \in Writers : writing[w] # None /\ writing[w].row = r

(* The statement takes the row's lock and evaluates nextval. *)
Draw(w, r) ==
    /\ writing[w] = None
    /\ ~ Locked(r)
    /\ seq < MaxVersion
    /\ seq' = seq + 1
    /\ writing' = [writing EXCEPT ![w] = [row |-> r, ver |-> seq + 1]]
    /\ UNCHANGED <<version, pull, replica, lost, overtaken>>

(* d has passed the version by: its cursor is there, or its pull has read the
   table already. *)
Passed(d, e) ==
    \/ e.ver <= cursor[d]
    \/ pc[d] # "idle" /\ TableOf[e.row] < table[d]

Commit(w) ==
    /\ writing[w] # None
    /\ version' = [version EXCEPT ![writing[w].row] = writing[w].ver]
    /\ writing' = [writing EXCEPT ![w] = None]
    /\ overtaken' = [d \in Devices |->
         overtaken[d] \cup (IF Passed(d, writing[w]) THEN {writing[w].ver} ELSE {})]
    /\ UNCHANGED <<seq, pull, replica, lost>>

Rollback(w) ==
    /\ writing[w] # None
    /\ writing' = [writing EXCEPT ![w] = None]
    /\ UNCHANGED <<seq, version, pull, replica, lost, overtaken>>

----------------------------------------------------------------------------
(* A pull. *)

(* ORDER BY row_version LIMIT n of a set of rows. *)
IsSome(rows, from, n) ==               \* mutant: no ORDER BY
    /\ rows \subseteq from
    /\ Cardinality(rows) = IF Cardinality(from) <= n THEN Cardinality(from) ELSE n

IsLowest(rows, from, n) ==
    /\ rows \subseteq from
    /\ Cardinality(rows) = IF Cardinality(from) <= n THEN Cardinality(from) ELSE n
    /\ \A x \in rows, y \in from \ rows : x.ver < y.ver

StartPull(d) ==
    /\ pc[d] = "idle"
    /\ pc' = [pc EXCEPT ![d] = "reading"]
    /\ UNCHANGED <<database, table, candidates, capped, seen, replica, lost, overtaken>>

(* The request is over, and its locals with it. *)
EndPullMidway(d) ==                    \* mutant: the loop does not start afresh
    /\ pc' = [pc EXCEPT ![d] = "idle"]
    /\ candidates' = [candidates EXCEPT ![d] = {}]
    /\ capped' = [capped EXCEPT ![d] = FALSE]
    /\ seen' = [seen EXCEPT ![d] = Nothing]
    /\ UNCHANGED table

EndPull(d) ==
    /\ pc' = [pc EXCEPT ![d] = "idle"]
    /\ table' = [table EXCEPT ![d] = 1]
    /\ candidates' = [candidates EXCEPT ![d] = {}]
    /\ capped' = [capped EXCEPT ![d] = FALSE]
    /\ seen' = [seen EXCEPT ![d] = Nothing]

(* The committed rows of the table in scope with rowVersion > since. *)
MatchingLater(d) ==                    \* mutant: off by one
    {[row |-> r, ver |-> version[r]] :
        r \in {r \in Visible[d] : TableOf[r] = table[d] /\ version[r] > cursor[d] + 1}}

Matching(d) ==
    {[row |-> r, ver |-> version[r]] :
        r \in {r \in Visible[d] : TableOf[r] = table[d] /\ version[r] > cursor[d]}}

ReadTable(d) ==
    /\ pc[d] = "reading"
    /\ \E rows \in SUBSET Matching(d) :
         /\ IsLowest(rows, Matching(d), Limit)
         /\ candidates' = [candidates EXCEPT ![d] = @ \cup rows]
         /\ capped' = [capped EXCEPT ![d] = @ \/ Cardinality(rows) = Limit]
    /\ table' = [table EXCEPT ![d] = @ + 1]
    /\ pc' = [pc EXCEPT ![d] = IF table[d] = NumTables THEN "answering" ELSE "reading"]
    /\ seen' = [seen EXCEPT ![d] =
         [r \in Rows |-> IF TableOf[r] = table[d] THEN version[r] ELSE @[r]]]
    /\ UNCHANGED <<database, replica, lost, overtaken>>

HasMoreUncapped(d) == Cardinality(candidates[d]) > Limit  \* mutant

HasMore(d) == capped[d] \/ Cardinality(candidates[d]) > Limit

(* page[page.length - 1].rowVersion, or since. *)
NextCursorAhead(d, page, next) ==      \* mutant: of all candidates
    IF page = {} THEN next = cursor[d]
    ELSE \E last \in candidates[d] :
           next = last.ver /\ \A c \in candidates[d] : c.ver <= last.ver
NextCursorReset(d, page, next) ==      \* mutant: an empty page starts over
    IF page = {} THEN next = 0
    ELSE \E last \in page : next = last.ver /\ \A c \in page : c.ver <= last.ver

NextCursor(d, page, next) ==
    IF page = {} THEN next = cursor[d]
    ELSE \E last \in page : next = last.ver /\ \A c \in page : c.ver <= last.ver

Apply(d, page) ==
    [r \in Rows |-> IF \E c \in page : c.row = r
                    THEN (CHOOSE c \in page : c.row = r).ver ELSE copy[d][r]]

(* The answer reaches the device. *)
Answer(d) ==
    /\ pc[d] = "answering"
    /\ \E page \in SUBSET candidates[d] :
         /\ IsLowest(page, candidates[d], Limit)
         /\ \E next \in 0..MaxVersion :
              /\ NextCursor(d, page, next)
              /\ cursor' = [cursor EXCEPT ![d] = next]
         /\ copy' = [copy EXCEPT ![d] = Apply(d, page)]
    /\ EndPull(d)
    /\ UNCHANGED <<database, lost, overtaken>>

(* The request dies on the way, or its answer does; the device pulls again. *)
LosePull(d) ==
    /\ pc[d] # "idle"
    /\ lost < MaxLost
    /\ lost' = lost + 1
    /\ EndPull(d)
    /\ UNCHANGED <<database, replica, overtaken>>

Next ==
    \/ \E w \in Writers : Commit(w) \/ Rollback(w) \/ \E r \in Rows : Draw(w, r)
    \/ \E d \in Devices : StartPull(d) \/ ReadTable(d) \/ Answer(d) \/ LosePull(d)

Spec == Init /\ [][Next]_vars

(* The device pulls again and again, on signals and between them, and a request
   that is not lost is served. *)
Fairness ==
    \A d \in Devices : WF_vars(StartPull(d)) /\ WF_vars(ReadTable(d)) /\ WF_vars(Answer(d))

FairSpec == Spec /\ Fairness

----------------------------------------------------------------------------
(* Properties. *)

(* A page leaves no hole: whatever version a row had when its table was read,
   if the new cursor passes it then the page delivered it, however the rows are
   spread over tables, SELECTs cut off at the limit and pages (the per-table
   limit, the merge and the slice of pull). *)
Answers(d) == pc[d] = "answering" /\ pc'[d] = "idle" /\ lost' = lost

PagesHaveNoHoles ==
    [][\A d \in Devices : Answers(d) =>
         \A r \in Visible[d] :
           cursor[d] < seen[d][r] /\ seen[d][r] <= cursor'[d] => copy'[d][r] = seen[d][r]]_vars

(* hasMore tells the client when to stop: without it everything read was
   delivered, and with it the cursor moved, so that asking again gets further. *)
HasMoreIsRight ==
    [][\A d \in Devices : Answers(d) =>
         IF HasMore(d) THEN cursor'[d] > cursor[d]
         ELSE \A r \in Visible[d] : cursor[d] < seen[d][r] => copy'[d][r] = seen[d][r]]_vars

(* A page never takes a copy back, nor the cursor. *)
CopiesAdvance ==
    [][\A d \in Devices :
         cursor'[d] >= cursor[d] /\ \A r \in Rows : copy'[d][r] >= copy[d][r]]_vars

(* A change the cursor has passed is on the device, unless it became visible
   behind the device's back: after a later version was handed out, or after
   the pull had read its table. Nothing else loses a change. *)
LostOnlyWhenOvertaken ==
    \A d \in Devices, r \in Rows :
      r \in Visible[d] /\ version[r] # 0 /\ version[r] <= cursor[d]
        => copy[d][r] = version[r] \/ version[r] \in overtaken[d]

(* Once the writers pause every device ends up with every row, or was overtaken. *)
Converges ==
    \A d \in Devices : \A r \in Rows :
      r \in Visible[d] =>
        <>[](copy[d][r] = version[r] \/ version[r] \in overtaken[d])

(* What schema/_helpers.ts says of nextRowVersion: a mutated row advances past
   every existing cursor. *)
AdvancesPastCursors ==
    [][\A r \in Rows : version'[r] # version[r] =>
         \A d \in Devices : version'[r] > cursor[d]]_vars
====
