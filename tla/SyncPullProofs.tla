---- MODULE SyncPullProofs ----
(* What SyncPull promises for every number of rows, tables, writers and devices
   and every page size. *)
EXTENDS SyncPull, FiniteSetTheorems, TLAPS

USE TablesAssumption, ScopeAssumption, LimitAssumption, BoundsAssumption, EntryAssumption

----------------------------------------------------------------------------
(* The inductive invariants. *)

(* Versions grow along each row, for an
   open statement holds the row's lock. *)
GrowInv ==
    /\ \A r \in Rows : version[r] <= seq
    /\ \A w \in Writers : writing[w] # None =>
         writing[w].ver <= seq /\ version[writing[w].row] < writing[w].ver
    /\ \A v, w \in Writers :
         writing[v] # None /\ writing[w] # None /\ writing[v].row = writing[w].row => v = w

(* The tables the pull has read, and the rows it was cut off from: limit
   candidates with smaller versions came before them. *)
HasRead(d, r) == pc[d] # "idle" /\ TableOf[r] < table[d]

CutOff(d, v) ==
    \E before \in SUBSET candidates[d] :
      Cardinality(before) = Limit /\ \A c \in before : c.ver < v

LoopInv(d) ==
    CASE pc[d] = "idle" -> table[d] = 1 /\ candidates[d] = {} /\ ~ capped[d]
      [] pc[d] = "reading" -> table[d] <= NumTables
      [] pc[d] = "answering" -> table[d] = NumTables + 1

CandidatesInv(d) ==
    /\ IsFiniteSet(candidates[d])
    /\ capped[d] => candidates[d] # {}
    /\ \A c \in candidates[d] :
         /\ c.row \in Visible[d] /\ HasRead(d, c.row)
         /\ c.ver = seen[d][c.row] /\ c.ver > cursor[d]
    /\ \A r \in Visible[d] : HasRead(d, r) /\ seen[d][r] > cursor[d] =>
         \/ [row |-> r, ver |-> seen[d][r]] \in candidates[d]
         \/ capped[d] /\ CutOff(d, seen[d][r])

SeenInv(d) ==
    \A r \in Rows :
      /\ copy[d][r] <= cursor[d]
      /\ seen[d][r] <= version[r]
      /\ HasRead(d, r) => seen[d][r] = version[r] \/ version[r] \in overtaken[d]

PullInv ==
    /\ GrowInv
    /\ \A d \in Devices : LoopInv(d) /\ CandidatesInv(d) /\ SeenInv(d)

----------------------------------------------------------------------------
(* ORDER BY row_version LIMIT n. *)

(* A limit either leaves the set whole or fills the page. *)
LEMMA LowestSize ==
    ASSUME NEW from, IsFiniteSet(from), NEW n \in Nat, NEW rows, IsLowest(rows, from, n)
    PROVE  /\ IsFiniteSet(rows)
           /\ Cardinality(rows) \in Nat
           /\ Cardinality(rows) <= n
           /\ rows = from \/ Cardinality(rows) = n
           /\ Cardinality(from) <= n => rows = from
<1>1. rows \in SUBSET from
    BY DEF IsLowest
<1>2. Cardinality(from) \in Nat /\ IsFiniteSet(rows)
    BY <1>1, FS_CardinalityType, FS_Subset
<1>3. Cardinality(rows) \in Nat
    BY <1>2, FS_CardinalityType
<1>4. Cardinality(from) = Cardinality(rows) => from = rows
    BY <1>1, FS_Subset
<1> QED
    BY <1>2, <1>3, <1>4 DEF IsLowest

(* What it leaves out lies above everything it returns. *)
LEMMA LowestFirst ==
    ASSUME NEW from, IsFiniteSet(from), NEW n \in Nat, NEW rows, IsLowest(rows, from, n),
           NEW x \in from \ rows
    PROVE  Cardinality(rows) = n /\ \A y \in rows : y.ver < x.ver
BY LowestSize DEF IsLowest

(* The rows of one table are finitely many. *)
LEMMA MatchingFinite ==
    ASSUME NEW d \in Devices
    PROVE  IsFiniteSet(Matching(d))
<1> DEFINE scope == {r \in Visible[d] : TableOf[r] = table[d] /\ version[r] > cursor[d]}
           f == [r \in scope |-> [row |-> r, ver |-> version[r]]]
<1>1. scope \in SUBSET Rows
    OBVIOUS
<1>2. IsFiniteSet(scope)
    BY <1>1, FS_Subset
<1>3. f \in Surjection(scope, Matching(d))
    BY DEF Surjection, Matching
<1> QED
    BY <1>2, <1>3, FS_Surjection

----------------------------------------------------------------------------
(* Types. *)

LEMMA MatchingType ==
    ASSUME TypeOK, NEW d \in Devices
    PROVE  Matching(d) \subseteq Entry
BY DEF TypeOK, Matching, Entry

LEMMA ApplyType ==
    ASSUME TypeOK, NEW d \in Devices, NEW page \in SUBSET candidates[d]
    PROVE  Apply(d, page) \in [Rows -> Nat]
<1>1. ASSUME NEW r \in Rows, \E c \in page : c.row = r
      PROVE  (CHOOSE c \in page : c.row = r).ver \in Nat
    <2>1. (CHOOSE c \in page : c.row = r) \in page
        BY <1>1
    <2> QED
        BY <2>1 DEF TypeOK, Entry
<1> QED
    BY <1>1 DEF Apply, TypeOK

LEMMA TypeInit == Init => TypeOK
BY DEF Init, TypeOK, Nothing

LEMMA EndPullType ==
    ASSUME TypeOK, NEW d \in Devices, EndPull(d)
    PROVE  /\ pc' \in [Devices -> {"idle", "reading", "answering"}]
           /\ table' \in [Devices -> 1..NumTables + 1]
           /\ candidates' \in [Devices -> SUBSET Entry]
           /\ capped' \in [Devices -> BOOLEAN]
           /\ seen' \in [Devices -> [Rows -> Nat]]
BY DEF TypeOK, EndPull, Nothing

LEMMA TypeStep ==
    ASSUME TypeOK, PullInv, [Next]_vars
    PROVE  TypeOK'
<1>1. ASSUME NEW w \in Writers, NEW r \in Rows, Draw(w, r) PROVE TypeOK'
    BY <1>1 DEF TypeOK, Draw, Entry, pull, replica
<1>2. ASSUME NEW w \in Writers, Commit(w) PROVE TypeOK'
    <2>1. writing[w] \in Entry
        BY <1>2 DEF TypeOK, Commit
    <2>2. version' \in [Rows -> Nat] /\ writing' \in [Writers -> Entry \cup {None}]
        BY <1>2, <2>1 DEF TypeOK, Commit, Entry
    <2>3. overtaken' \in [Devices -> SUBSET Nat]
        BY <1>2, <2>1 DEF TypeOK, Commit, Entry
    <2> QED
        BY <1>2, <2>2, <2>3 DEF TypeOK, Commit, pull, replica
<1>3. ASSUME NEW w \in Writers, Rollback(w) PROVE TypeOK'
    BY <1>3 DEF TypeOK, Rollback, pull, replica
<1>4. ASSUME NEW d \in Devices, StartPull(d) PROVE TypeOK'
    BY <1>4 DEF TypeOK, StartPull, database, replica
<1>5. ASSUME NEW d \in Devices, ReadTable(d) PROVE TypeOK'
    <2>1. candidates' \in [Devices -> SUBSET Entry]
        BY <1>5, MatchingType DEF TypeOK, ReadTable
    <2>2. capped' \in [Devices -> BOOLEAN]
        BY <1>5 DEF TypeOK, ReadTable
    <2>3. table' \in [Devices -> 1..NumTables + 1]
        <3>1. pc[d] = "reading" /\ LoopInv(d)
            BY <1>5 DEF ReadTable, PullInv
        <3>2. table[d] <= NumTables
            BY <3>1 DEF LoopInv
        <3> QED
            BY <1>5, <3>2 DEF TypeOK, ReadTable
    <2>4. seen' \in [Devices -> [Rows -> Nat]]
        BY <1>5 DEF TypeOK, ReadTable
    <2>5. pc' \in [Devices -> {"idle", "reading", "answering"}]
        BY <1>5 DEF TypeOK, ReadTable
    <2> QED
        BY <1>5, <2>1, <2>2, <2>3, <2>4, <2>5 DEF TypeOK, ReadTable, database, replica
<1>6. ASSUME NEW d \in Devices, Answer(d) PROVE TypeOK'
    <2>1. EndPull(d)
        BY <1>6 DEF Answer
    <2>2. cursor' \in [Devices -> Nat]
        BY <1>6 DEF TypeOK, Answer
    <2>3. copy' \in [Devices -> [Rows -> Nat]]
        BY <1>6, ApplyType DEF TypeOK, Answer
    <2> QED
        BY <1>6, <2>1, <2>2, <2>3, EndPullType DEF TypeOK, Answer, database
<1>7. ASSUME NEW d \in Devices, LosePull(d) PROVE TypeOK'
    <2>1. EndPull(d)
        BY <1>7 DEF LosePull
    <2> QED
        BY <1>7, <2>1, EndPullType DEF TypeOK, LosePull, database, replica
<1>8. ASSUME UNCHANGED vars PROVE TypeOK'
    BY <1>8 DEF TypeOK, vars, database, pull, replica
<1> QED
    BY <1>1, <1>2, <1>3, <1>4, <1>5, <1>6, <1>7, <1>8 DEF Next

----------------------------------------------------------------------------
(* The invariant PullInv: initially, and along each step. *)

LEMMA PullInit == Init => PullInv
<1> SUFFICES ASSUME Init PROVE PullInv
    OBVIOUS
<1>1. GrowInv
    BY DEF Init, GrowInv, Nothing
<1>2. ASSUME NEW d \in Devices PROVE LoopInv(d) /\ CandidatesInv(d) /\ SeenInv(d)
    BY FS_EmptySet DEF Init, LoopInv, CandidatesInv, SeenInv, HasRead, Nothing
<1> QED
    BY <1>1, <1>2 DEF PullInv

LEMMA GrowStep ==
    ASSUME TypeOK, PullInv, [Next]_vars
    PROVE  GrowInv'
<1> USE DEF PullInv, GrowInv
<1>1. ASSUME NEW w \in Writers, NEW r \in Rows, Draw(w, r) PROVE GrowInv'
    BY <1>1 DEF Draw, Locked, TypeOK, Entry
<1>2. ASSUME NEW w \in Writers, Commit(w) PROVE GrowInv'
    <2>1. writing[w] \in Entry
        BY <1>2 DEF TypeOK, Commit
    <2> QED
        BY <1>2, <2>1 DEF Commit, TypeOK, Entry
<1>3. ASSUME NEW w \in Writers, Rollback(w) PROVE GrowInv'
    BY <1>3 DEF Rollback, TypeOK
<1>4. ASSUME UNCHANGED database PROVE GrowInv'
    BY <1>4 DEF database
<1>5. ASSUME NEW d \in Devices, StartPull(d) \/ ReadTable(d) \/ Answer(d) \/ LosePull(d)
      PROVE  UNCHANGED database
    BY <1>5 DEF StartPull, ReadTable, Answer, LosePull
<1> QED
    BY <1>1, <1>2, <1>3, <1>4, <1>5 DEF Next, vars

(* A step of another device, of a writer, or none leaves a pull as it is. *)
Resting(d) ==
    /\ pc'[d] = pc[d] /\ table'[d] = table[d] /\ candidates'[d] = candidates[d]
    /\ capped'[d] = capped[d] /\ seen'[d] = seen[d]
    /\ cursor'[d] = cursor[d] /\ copy'[d] = copy[d]

LEMMA RestingKeeps ==
    ASSUME TypeOK, NEW d \in Devices, LoopInv(d), CandidatesInv(d), Resting(d)
    PROVE  LoopInv(d)' /\ CandidatesInv(d)'
BY DEF Resting, LoopInv, CandidatesInv, HasRead, CutOff

LEMMA CommitSeen ==
    ASSUME TypeOK, GrowInv, NEW d \in Devices, SeenInv(d), NEW w \in Writers, Commit(w)
    PROVE  SeenInv(d)'
<1>1. writing[w] \in Entry
    BY DEF TypeOK, Commit
<1>2. ASSUME NEW r \in Rows
      PROVE /\ copy'[d][r] <= cursor'[d]
            /\ seen'[d][r] <= version'[r]
            /\ HasRead(d, r)' => seen'[d][r] = version'[r] \/ version'[r] \in overtaken'[d]
    <2>1. copy'[d][r] <= cursor'[d]
        BY DEF Commit, replica, SeenInv
    <2>2. CASE r # writing[w].row
        BY <2>1, <2>2, <1>1 DEF Commit, SeenInv, HasRead, pull, replica, TypeOK, Entry
    <2>3. CASE r = writing[w].row
        <3>1. version'[r] = writing[w].ver /\ version[r] < writing[w].ver
            BY <2>3, <1>1 DEF Commit, GrowInv, TypeOK, Entry
        <3>2. seen'[d][r] <= version'[r]
            BY <3>1, <1>1 DEF Commit, SeenInv, pull, TypeOK, Entry
        <3>3. HasRead(d, r)' => version'[r] \in overtaken'[d]
            BY <3>1, <2>3 DEF Commit, HasRead, Passed, pull, TypeOK
        <3> QED
            BY <2>1, <3>2, <3>3
    <2> QED
        BY <2>2, <2>3
<1> QED
    BY <1>2 DEF SeenInv

LEMMA ReadKeeps ==
    ASSUME TypeOK, NEW d \in Devices, LoopInv(d), CandidatesInv(d), SeenInv(d), ReadTable(d)
    PROVE  LoopInv(d)' /\ CandidatesInv(d)' /\ SeenInv(d)'
<1>1. pc[d] = "reading" /\ table[d] \in 1..NumTables
    <2>1. pc[d] = "reading"
        BY DEF ReadTable
    <2> QED
        BY <2>1 DEF LoopInv, TypeOK
<1>2. table'[d] = table[d] + 1
    BY DEF ReadTable, TypeOK
<1>3. pc'[d] = IF table[d] = NumTables THEN "answering" ELSE "reading"
    BY DEF ReadTable, TypeOK
<1>4. PICK rows \in SUBSET Matching(d) :
         /\ IsLowest(rows, Matching(d), Limit)
         /\ candidates'[d] = candidates[d] \cup rows
         /\ capped'[d] <=> capped[d] \/ Cardinality(rows) = Limit
    BY DEF ReadTable, TypeOK
<1>5. \A r \in Rows :
         seen'[d][r] = IF TableOf[r] = table[d] THEN version[r] ELSE seen[d][r]
    BY DEF ReadTable, TypeOK
<1>6. version' = version /\ cursor' = cursor /\ copy' = copy /\ overtaken' = overtaken
    BY DEF ReadTable, database, replica
<1>7. IsFiniteSet(Matching(d)) /\ IsFiniteSet(rows)
    BY <1>4, MatchingFinite, LowestSize
<1>8. LoopInv(d)'
    <2>1. CASE table[d] = NumTables
        BY <2>1, <1>2, <1>3 DEF LoopInv
    <2>2. CASE table[d] # NumTables
        BY <2>2, <1>1, <1>2, <1>3 DEF LoopInv
    <2> QED
        BY <2>1, <2>2
<1>9. \A r \in Rows : HasRead(d, r)' <=> TableOf[r] <= table[d]
    BY <1>1, <1>2, <1>3 DEF HasRead
<1>10. SeenInv(d)'
    <2>1. ASSUME NEW r \in Rows
          PROVE /\ copy'[d][r] <= cursor'[d]
                /\ seen'[d][r] <= version'[r]
                /\ HasRead(d, r)' => seen'[d][r] = version'[r] \/ version'[r] \in overtaken'[d]
        <3>1. copy[d][r] <= cursor[d] /\ seen[d][r] <= version[r]
            BY DEF SeenInv
        <3>2. copy'[d][r] <= cursor'[d] /\ seen'[d][r] <= version'[r]
            <4>1. version[r] \in Nat
                BY DEF TypeOK
            <4>2. seen'[d][r] = IF TableOf[r] = table[d] THEN version[r] ELSE seen[d][r]
                BY <1>5
            <4> QED
                BY <3>1, <4>1, <4>2, <1>6
        <3>3. CASE TableOf[r] = table[d]
            BY <3>2, <3>3, <1>5, <1>6
        <3>4. CASE TableOf[r] # table[d]
            <4>1. HasRead(d, r)' => HasRead(d, r)
                BY <3>4, <1>1, <1>9 DEF HasRead
            <4> QED
                BY <3>2, <3>4, <4>1, <1>5, <1>6 DEF SeenInv
        <3> QED
            BY <3>3, <3>4
    <2> QED
        BY <2>1 DEF SeenInv
<1>11. IsFiniteSet(candidates'[d])
    <2>1. IsFiniteSet(candidates[d])
        BY DEF CandidatesInv
    <2>2. IsFiniteSet(candidates[d] \cup rows)
        BY <2>1, <1>7, FS_Union
    <2> QED
        BY <2>2, <1>4
<1>12. capped'[d] => candidates'[d] # {}
    <2>1. rows = {} => Cardinality(rows) # Limit
        BY FS_EmptySet
    <2> QED
        BY <2>1, <1>4 DEF CandidatesInv
<1>13. ASSUME NEW c \in candidates'[d]
       PROVE /\ c.row \in Visible[d] /\ HasRead(d, c.row)'
             /\ c.ver = seen'[d][c.row] /\ c.ver > cursor'[d]
    <2>1. CASE c \in candidates[d]
        <3>1. /\ c.row \in Visible[d] /\ HasRead(d, c.row)
              /\ c.ver = seen[d][c.row] /\ c.ver > cursor[d]
            BY <2>1 DEF CandidatesInv
        <3>2. c.row \in Rows
            BY <3>1
        <3>3. TableOf[c.row] < table[d] /\ TableOf[c.row] \in Nat /\ table[d] \in Nat
            BY <3>1, <3>2 DEF HasRead, TypeOK
        <3>4. HasRead(d, c.row)' /\ seen'[d][c.row] = seen[d][c.row]
            BY <3>2, <3>3, <1>5, <1>9
        <3> QED
            BY <3>1, <3>4, <1>6
    <2>2. CASE c \in rows
        <3>1. c \in Matching(d)
            BY <2>2, <1>4
        <3> QED
            BY <3>1, <1>5, <1>6, <1>9, <1>1 DEF Matching
    <2> QED
        BY <2>1, <2>2, <1>4
<1>14. ASSUME NEW r \in Visible[d], HasRead(d, r)', seen'[d][r] > cursor'[d]
       PROVE  \/ [row |-> r, ver |-> seen'[d][r]] \in candidates'[d]
              \/ capped'[d] /\ CutOff(d, seen[d][r])'
    <2> DEFINE e == [row |-> r, ver |-> seen'[d][r]]
    <2>1. CASE TableOf[r] = table[d]
        <3>1. e \in Matching(d)
            BY <2>1, <1>5, <1>6, <1>14 DEF Matching
        <3>2. CASE e \in rows
            BY <3>2, <1>4
        <3>3. CASE e \notin rows
            <4>1. Cardinality(rows) = Limit /\ \A y \in rows : y.ver < e.ver
                BY <3>1, <3>3, <1>4, <1>7, LowestFirst
            <4>2. rows \in SUBSET candidates'[d]
                BY <1>4
            <4> QED
                BY <4>1, <4>2, <1>4 DEF CutOff
        <3> QED
            BY <3>2, <3>3
    <2>2. CASE TableOf[r] # table[d]
        <3>1. HasRead(d, r) /\ seen'[d][r] = seen[d][r] /\ seen[d][r] > cursor[d]
            BY <2>2, <1>1, <1>5, <1>6, <1>9, <1>14 DEF HasRead
        <3>2. \/ [row |-> r, ver |-> seen[d][r]] \in candidates[d]
              \/ capped[d] /\ CutOff(d, seen[d][r])
            BY <3>1 DEF CandidatesInv
        <3>3. CutOff(d, seen[d][r]) => CutOff(d, seen[d][r])'
            BY <3>1, <1>4 DEF CutOff
        <3> QED
            BY <3>1, <3>2, <3>3, <1>4
    <2> QED
        BY <2>1, <2>2
<1>15. CandidatesInv(d)'
    BY <1>11, <1>12, <1>13, <1>14 DEF CandidatesInv
<1> QED
    BY <1>8, <1>10, <1>15

LEMMA StartKeeps ==
    ASSUME TypeOK, NEW d \in Devices, LoopInv(d), CandidatesInv(d), SeenInv(d), StartPull(d)
    PROVE  LoopInv(d)' /\ CandidatesInv(d)' /\ SeenInv(d)'
<1>1. pc[d] = "idle" /\ table[d] = 1 /\ candidates[d] = {} /\ ~ capped[d]
    BY DEF StartPull, LoopInv
<1>2. \A r \in Rows : ~ HasRead(d, r)'
    BY <1>1 DEF HasRead, StartPull, TypeOK
<1> QED
    BY <1>1, <1>2, FS_EmptySet
    DEF StartPull, LoopInv, CandidatesInv, SeenInv, TypeOK, database, replica

(* A finished pull leaves nothing behind. *)
LEMMA EndKeeps ==
    ASSUME TypeOK, NEW d \in Devices, EndPull(d), UNCHANGED database,
           \A r \in Rows : copy'[d][r] <= cursor'[d]
    PROVE  LoopInv(d)' /\ CandidatesInv(d)' /\ SeenInv(d)'
<1>1. pc'[d] = "idle" /\ table'[d] = 1 /\ candidates'[d] = {} /\ capped'[d] = FALSE
      /\ seen'[d] = Nothing
    BY DEF EndPull, TypeOK
<1>2. \A r \in Rows : ~ HasRead(d, r)' /\ seen'[d][r] <= version'[r]
    BY <1>1 DEF HasRead, Nothing, TypeOK, database
<1> QED
    BY <1>1, <1>2, FS_EmptySet DEF LoopInv, CandidatesInv, SeenInv

----------------------------------------------------------------------------
(* The page of an answer. *)

(* The cursor never goes back, and moves whenever something was read. *)
LEMMA PageAdvances ==
    ASSUME TypeOK, NEW d \in Devices, CandidatesInv(d), NEW page \in SUBSET candidates[d],
           NEW next \in Nat, NextCursor(d, page, next)
    PROVE  /\ next >= cursor[d]
           /\ page # {} => next > cursor[d]
           /\ \A c \in page : c.ver <= next
BY DEF NextCursor, CandidatesInv, TypeOK

LEMMA PageFilled ==
    ASSUME TypeOK, NEW d \in Devices, CandidatesInv(d), NEW page \in SUBSET candidates[d],
           IsLowest(page, candidates[d], Limit), candidates[d] # {}
    PROVE  page # {}
<1>1. IsFiniteSet(candidates[d])
    BY DEF CandidatesInv
<1>2. Cardinality({}) = 0
    BY FS_EmptySet
<1>3. page = candidates[d] \/ Cardinality(page) = Limit
    BY <1>1, LowestSize
<1> QED
    BY <1>2, <1>3

(* A candidate that is in the page is copied, for it is the row's only one. *)
LEMMA PageCopied ==
    ASSUME TypeOK, NEW d \in Devices, CandidatesInv(d), NEW page \in SUBSET candidates[d],
           NEW r \in Rows, NEW c \in page, c.row = r
    PROVE  Apply(d, page)[r] = seen[d][r]
<1> DEFINE e == CHOOSE x \in page : x.row = r
<1>1. e \in page /\ e.row = r
    OBVIOUS
<1>2. e.ver = seen[d][r]
    BY <1>1 DEF CandidatesInv
<1> QED
    BY <1>2 DEF Apply

(* What the page leaves out, or a SELECT cut off, is above the new cursor. *)
LEMMA PageDelivers ==
    ASSUME TypeOK, NEW d \in Devices, CandidatesInv(d), NEW page \in SUBSET candidates[d],
           IsLowest(page, candidates[d], Limit), NEW next \in Nat, NextCursor(d, page, next),
           NEW r \in Visible[d], HasRead(d, r), cursor[d] < seen[d][r], seen[d][r] <= next
    PROVE  Apply(d, page)[r] = seen[d][r]
<1> DEFINE e == [row |-> r, ver |-> seen[d][r]]
<1>1. IsFiniteSet(candidates[d]) /\ seen[d][r] \in Nat /\ cursor[d] \in Nat
    BY DEF CandidatesInv, TypeOK
<1>2. PICK last \in page : next = last.ver
    BY <1>1 DEF NextCursor
<1>3. e \in page \/ e \notin candidates[d]
    <2>1. ASSUME e \in candidates[d] \ page
          PROVE  FALSE
        <3>1. last.ver < e.ver
            BY <2>1, <1>1, <1>2, LowestFirst
        <3> QED
            BY <3>1, <1>1, <1>2
    <2> QED
        BY <2>1
<1>4. e \in candidates[d]
    <2>1. ASSUME NEW before \in SUBSET candidates[d], Cardinality(before) = Limit,
                 \A c \in before : c.ver < seen[d][r]
          PROVE  FALSE
        <3>1. CASE before \subseteq page
            <4>1. IsFiniteSet(page) /\ Cardinality(page) \in Nat /\ Cardinality(page) <= Limit
                BY <1>1, LowestSize
            <4>2. Cardinality(before) <= Cardinality(page)
                BY <3>1, <4>1, FS_Subset
            <4>3. before = page
                BY <2>1, <3>1, <4>1, <4>2, FS_Subset
            <4> QED
                BY <2>1, <4>3, <1>1, <1>2
        <3>2. CASE \E b \in before : b \notin page
            <4>1. PICK b \in before : b \notin page
                BY <3>2
            <4>2. last.ver < b.ver
                BY <4>1, <1>1, <1>2, LowestFirst
            <4>3. b \in Entry /\ last \in Entry
                BY <4>1, <1>2 DEF TypeOK
            <4> QED
                BY <2>1, <4>1, <4>2, <4>3, <1>1, <1>2 DEF Entry
        <3> QED
            BY <3>1, <3>2
    <2> QED
        BY <2>1 DEF CandidatesInv, CutOff
<1> QED
    BY <1>3, <1>4, PageCopied

(* What an answer does, with its page named. *)
LEMMA AnswerPage ==
    ASSUME TypeOK, PullInv, NEW d \in Devices, Answer(d)
    PROVE  \E page \in SUBSET candidates[d], next \in Nat :
             /\ IsLowest(page, candidates[d], Limit)
             /\ NextCursor(d, page, next)
             /\ cursor' = [cursor EXCEPT ![d] = next]
             /\ copy' = [copy EXCEPT ![d] = Apply(d, page)]
<1>1. PICK page \in SUBSET candidates[d] :
         /\ IsLowest(page, candidates[d], Limit)
         /\ \E next \in 0..MaxVersion :
              /\ NextCursor(d, page, next)
              /\ cursor' = [cursor EXCEPT ![d] = next]
         /\ copy' = [copy EXCEPT ![d] = Apply(d, page)]
    BY DEF Answer
<1>2. PICK next \in 0..MaxVersion :
         NextCursor(d, page, next) /\ cursor' = [cursor EXCEPT ![d] = next]
    BY <1>1
<1>3. next \in Nat
    OBVIOUS
<1>4. /\ IsLowest(page, candidates[d], Limit)
      /\ NextCursor(d, page, next)
      /\ cursor' = [cursor EXCEPT ![d] = next]
      /\ copy' = [copy EXCEPT ![d] = Apply(d, page)]
    BY <1>1, <1>2
<1> WITNESS page \in SUBSET candidates[d], next \in Nat
<1> QED
    BY <1>4

(* Every table was read before the answer. *)
LEMMA AllRead ==
    ASSUME TypeOK, NEW d \in Devices, LoopInv(d), pc[d] = "answering", NEW r \in Rows
    PROVE  HasRead(d, r)
<1>1. table[d] = NumTables + 1
    BY DEF LoopInv
<1> QED
    BY <1>1 DEF HasRead

LEMMA AnswerKeeps ==
    ASSUME TypeOK, PullInv, NEW d \in Devices, Answer(d)
    PROVE  LoopInv(d)' /\ CandidatesInv(d)' /\ SeenInv(d)'
<1>1. CandidatesInv(d) /\ SeenInv(d) /\ LoopInv(d)
    BY DEF PullInv
<1>2. PICK page \in SUBSET candidates[d], next \in Nat :
         /\ NextCursor(d, page, next)
         /\ cursor' = [cursor EXCEPT ![d] = next]
         /\ copy' = [copy EXCEPT ![d] = Apply(d, page)]
    BY AnswerPage
<1>3. cursor'[d] = next /\ copy'[d] = Apply(d, page)
    BY <1>2 DEF TypeOK
<1>4. next >= cursor[d] /\ \A c \in page : c.ver <= next
    BY <1>1, <1>2, PageAdvances
<1>5. ASSUME NEW r \in Rows PROVE copy'[d][r] <= cursor'[d]
    <2>1. copy[d][r] <= cursor[d] /\ copy[d][r] \in Nat /\ cursor[d] \in Nat
        BY <1>1 DEF SeenInv, TypeOK
    <2>2. CASE \E c \in page : c.row = r
        <3>1. PICK c \in page : c.row = r
            BY <2>2
        <3>2. Apply(d, page)[r] = c.ver
            BY <1>1, <3>1, PageCopied DEF CandidatesInv
        <3> QED
            BY <1>3, <1>4, <3>1, <3>2
    <2>3. CASE ~ \E c \in page : c.row = r
        BY <2>1, <2>3, <1>3, <1>4 DEF Apply
    <2> QED
        BY <2>2, <2>3
<1>6. EndPull(d) /\ UNCHANGED database
    BY DEF Answer
<1> QED
    BY <1>5, <1>6, EndKeeps

LEMMA LoseKeeps ==
    ASSUME TypeOK, PullInv, NEW d \in Devices, LosePull(d)
    PROVE  LoopInv(d)' /\ CandidatesInv(d)' /\ SeenInv(d)'
<1>1. EndPull(d) /\ UNCHANGED database /\ UNCHANGED replica
    BY DEF LosePull
<1>2. \A r \in Rows : copy'[d][r] <= cursor'[d]
    BY <1>1 DEF PullInv, SeenInv, replica
<1> QED
    BY <1>1, <1>2, EndKeeps

(* A step of some device, seen from another one. *)
LEMMA OtherRests ==
    ASSUME TypeOK, NEW e \in Devices, NEW d \in Devices \ {e},
           StartPull(e) \/ ReadTable(e) \/ Answer(e) \/ LosePull(e)
    PROVE  Resting(d) /\ UNCHANGED database /\ UNCHANGED overtaken
BY DEF Resting, StartPull, ReadTable, Answer, LosePull, EndPull, TypeOK, replica

LEMMA RestingSeen ==
    ASSUME NEW d \in Devices, SeenInv(d), Resting(d), UNCHANGED version, UNCHANGED overtaken
    PROVE  SeenInv(d)'
BY DEF Resting, SeenInv, HasRead

LEMMA PullStep ==
    ASSUME TypeOK, PullInv, [Next]_vars
    PROVE  PullInv'
<1>1. ASSUME NEW d \in Devices
      PROVE  LoopInv(d)' /\ CandidatesInv(d)' /\ SeenInv(d)'
    <2>0. LoopInv(d) /\ CandidatesInv(d) /\ SeenInv(d) /\ GrowInv
        BY DEF PullInv
    <2>1. ASSUME Resting(d), UNCHANGED version, UNCHANGED overtaken
          PROVE  LoopInv(d)' /\ CandidatesInv(d)' /\ SeenInv(d)'
        BY <2>0, <2>1, RestingKeeps, RestingSeen
    <2>2. CASE \E w \in Writers : Rollback(w) \/ \E r \in Rows : Draw(w, r)
        <3>1. Resting(d) /\ UNCHANGED version /\ UNCHANGED overtaken
            BY <2>2 DEF Rollback, Draw, Resting, pull, replica
        <3> QED
            BY <2>1, <3>1
    <2>3. ASSUME NEW w \in Writers, Commit(w)
          PROVE  LoopInv(d)' /\ CandidatesInv(d)' /\ SeenInv(d)'
        <3>1. Resting(d)
            BY <2>3 DEF Commit, Resting, pull, replica
        <3> QED
            BY <2>0, <2>3, <3>1, RestingKeeps, CommitSeen
    <2>4. ASSUME NEW e \in Devices, StartPull(e) \/ ReadTable(e) \/ Answer(e) \/ LosePull(e)
          PROVE  LoopInv(d)' /\ CandidatesInv(d)' /\ SeenInv(d)'
        <3>1. CASE e = d
            BY <2>0, <2>4, <3>1, StartKeeps, ReadKeeps, AnswerKeeps, LoseKeeps
        <3>2. CASE e # d
            <4>1. Resting(d) /\ UNCHANGED database /\ UNCHANGED overtaken
                BY <2>4, <3>2, OtherRests
            <4> QED
                BY <2>1, <4>1 DEF database
        <3> QED
            BY <3>1, <3>2
    <2>5. CASE UNCHANGED vars
        <3>1. Resting(d) /\ UNCHANGED version /\ UNCHANGED overtaken
            BY <2>5 DEF vars, database, pull, replica, Resting
        <3> QED
            BY <2>1, <3>1
    <2> QED
        BY <2>2, <2>3, <2>4, <2>5 DEF Next
<1> QED
    BY <1>1, GrowStep DEF PullInv

LEMMA PullInductive == Spec => [](TypeOK /\ PullInv)
<1>1. Init => TypeOK /\ PullInv
    BY TypeInit, PullInit
<1>2. TypeOK /\ PullInv /\ [Next]_vars => (TypeOK /\ PullInv)'
    BY TypeStep, PullStep
<1> QED
    BY <1>1, <1>2, PTL DEF Spec

----------------------------------------------------------------------------
(* What the steps do to the cursors and copies. *)

LEMMA OnlyAnswer ==
    ASSUME TypeOK, [Next]_vars, NEW d \in Devices, Answers(d)
    PROVE  Answer(d)
<1>1. pc[d] = "answering" /\ pc'[d] = "idle" /\ lost' = lost /\ lost \in Nat
    BY DEF Answers, TypeOK
<1>2. ASSUME pc' = pc PROVE FALSE
    BY <1>1, <1>2
<1>3. CASE \E w \in Writers : Commit(w) \/ Rollback(w) \/ \E r \in Rows : Draw(w, r)
    BY <1>2, <1>3 DEF Commit, Rollback, Draw, pull
<1>4. ASSUME NEW e \in Devices, StartPull(e) \/ ReadTable(e) \/ Answer(e) \/ LosePull(e)
      PROVE  Answer(d)
    <2>1. ASSUME e # d PROVE FALSE
        <3>1. Resting(d)
            BY <1>4, <2>1, OtherRests
        <3> QED
            BY <1>1, <3>1 DEF Resting
    <2>2. ~ StartPull(d) /\ ~ ReadTable(d) /\ ~ LosePull(d)
        BY <1>1 DEF StartPull, ReadTable, LosePull
    <2> QED
        BY <1>4, <2>1, <2>2
<1>5. CASE UNCHANGED vars
    BY <1>2, <1>5 DEF vars, pull
<1> QED
    BY <1>3, <1>4, <1>5 DEF Next

(* Cursors and copies move only with an answer to their device. *)
LEMMA ReplicaRests ==
    ASSUME TypeOK, [Next]_vars, NEW d \in Devices, ~ Answer(d)
    PROVE  cursor'[d] = cursor[d] /\ copy'[d] = copy[d]
<1>1. CASE \E w \in Writers : Commit(w) \/ Rollback(w) \/ \E r \in Rows : Draw(w, r)
    BY <1>1 DEF Commit, Rollback, Draw, replica
<1>2. ASSUME NEW e \in Devices, StartPull(e) \/ ReadTable(e) \/ Answer(e) \/ LosePull(e)
      PROVE  cursor'[d] = cursor[d] /\ copy'[d] = copy[d]
    <2>1. CASE e # d
        <3>1. Resting(d)
            BY <1>2, <2>1, OtherRests
        <3> QED
            BY <3>1 DEF Resting
    <2>2. CASE e = d
        BY <1>2, <2>2 DEF StartPull, ReadTable, LosePull, replica
    <2> QED
        BY <2>1, <2>2
<1>3. CASE UNCHANGED vars
    BY <1>3 DEF vars, replica
<1> QED
    BY <1>1, <1>2, <1>3 DEF Next

LEMMA AnswerDelivers ==
    ASSUME TypeOK, PullInv, NEW d \in Devices, Answer(d), NEW r \in Visible[d],
           cursor[d] < seen[d][r], seen[d][r] <= cursor'[d]
    PROVE  copy'[d][r] = seen[d][r]
<1>1. CandidatesInv(d) /\ LoopInv(d) /\ pc[d] = "answering"
    BY DEF PullInv, Answer
<1>2. PICK page \in SUBSET candidates[d], next \in Nat :
         /\ IsLowest(page, candidates[d], Limit)
         /\ NextCursor(d, page, next)
         /\ cursor' = [cursor EXCEPT ![d] = next]
         /\ copy' = [copy EXCEPT ![d] = Apply(d, page)]
    BY AnswerPage
<1>3. cursor'[d] = next /\ copy'[d] = Apply(d, page)
    BY <1>2 DEF TypeOK
<1>4. HasRead(d, r)
    BY <1>1, AllRead
<1> QED
    BY <1>1, <1>2, <1>3, <1>4, PageDelivers

LEMMA AnswerHasMore ==
    ASSUME TypeOK, PullInv, NEW d \in Devices, Answer(d)
    PROVE  IF HasMore(d) THEN cursor'[d] > cursor[d]
           ELSE \A r \in Visible[d] : cursor[d] < seen[d][r] => copy'[d][r] = seen[d][r]
<1>1. CandidatesInv(d) /\ LoopInv(d) /\ pc[d] = "answering" /\ IsFiniteSet(candidates[d])
    BY DEF PullInv, Answer, CandidatesInv
<1>2. PICK page \in SUBSET candidates[d], next \in Nat :
         /\ IsLowest(page, candidates[d], Limit)
         /\ NextCursor(d, page, next)
         /\ cursor' = [cursor EXCEPT ![d] = next]
         /\ copy' = [copy EXCEPT ![d] = Apply(d, page)]
    BY AnswerPage
<1>3. cursor'[d] = next /\ copy'[d] = Apply(d, page)
    BY <1>2 DEF TypeOK
<1>4. Cardinality({}) = 0 /\ Cardinality(candidates[d]) \in Nat
    BY <1>1, FS_EmptySet, FS_CardinalityType
<1>5. CASE HasMore(d)
    <2>1. candidates[d] # {}
        <3>1. capped[d] => candidates[d] # {}
            BY <1>1 DEF CandidatesInv
        <3>2. Cardinality(candidates[d]) > Limit => candidates[d] # {}
            BY <1>4
        <3> QED
            BY <1>5, <3>1, <3>2 DEF HasMore
    <2>2. page # {}
        BY <1>1, <1>2, <2>1, PageFilled
    <2>3. next > cursor[d]
        BY <1>1, <1>2, <2>2, PageAdvances
    <2> QED
        BY <1>3, <1>5, <2>3
<1>6. CASE ~ HasMore(d)
    <2>1. page = candidates[d] /\ ~ capped[d]
        BY <1>1, <1>2, <1>4, <1>6, LowestSize DEF HasMore
    <2>2. ASSUME NEW r \in Visible[d], cursor[d] < seen[d][r]
          PROVE  copy'[d][r] = seen[d][r]
        <3>1. HasRead(d, r) /\ seen[d][r] > cursor[d]
            BY <1>1, <2>2, AllRead DEF TypeOK
        <3>2. [row |-> r, ver |-> seen[d][r]] \in page
            BY <1>1, <2>1, <3>1 DEF CandidatesInv
        <3> QED
            BY <1>1, <1>3, <3>2, PageCopied
    <2> QED
        BY <1>6, <2>2
<1> QED
    BY <1>5, <1>6

LEMMA ReplicaAdvances ==
    ASSUME TypeOK, PullInv, [Next]_vars, NEW d \in Devices
    PROVE  cursor'[d] >= cursor[d] /\ \A r \in Rows : copy'[d][r] >= copy[d][r]
<1>1. CASE ~ Answer(d)
    BY <1>1, ReplicaRests DEF TypeOK
<1>2. CASE Answer(d)
    <2>1. CandidatesInv(d) /\ SeenInv(d)
        BY DEF PullInv
    <2>2. PICK page \in SUBSET candidates[d], next \in Nat :
             /\ NextCursor(d, page, next)
             /\ cursor' = [cursor EXCEPT ![d] = next]
             /\ copy' = [copy EXCEPT ![d] = Apply(d, page)]
        BY <1>2, AnswerPage
    <2>3. cursor'[d] = next /\ copy'[d] = Apply(d, page) /\ next >= cursor[d]
        BY <2>1, <2>2, PageAdvances DEF TypeOK
    <2>4. ASSUME NEW r \in Rows PROVE copy'[d][r] >= copy[d][r]
        <3>1. copy[d][r] <= cursor[d] /\ copy[d][r] \in Nat /\ cursor[d] \in Nat
              /\ seen[d][r] \in Nat
            BY <2>1 DEF SeenInv, TypeOK
        <3>2. CASE \E c \in page : c.row = r
            <4>1. PICK c \in page : c.row = r
                BY <3>2
            <4>2. seen[d][r] > cursor[d] /\ Apply(d, page)[r] = seen[d][r]
                BY <2>1, <4>1, PageCopied DEF CandidatesInv
            <4> QED
                BY <2>3, <3>1, <4>2
        <3>3. CASE ~ \E c \in page : c.row = r
            BY <3>3, <3>1, <2>3 DEF Apply
        <3> QED
            BY <3>2, <3>3
    <2> QED
        BY <2>3, <2>4
<1> QED
    BY <1>1, <1>2

LEMMA LostStep ==
    ASSUME TypeOK, PullInv, LostOnlyWhenOvertaken, [Next]_vars
    PROVE  LostOnlyWhenOvertaken'
<1> SUFFICES ASSUME NEW d \in Devices, NEW r \in Rows, r \in Visible[d],
                    version'[r] # 0, version'[r] <= cursor'[d]
             PROVE  copy'[d][r] = version'[r] \/ version'[r] \in overtaken'[d]
    BY DEF LostOnlyWhenOvertaken
<1>1. SeenInv(d) /\ CandidatesInv(d) /\ LoopInv(d)
    BY DEF PullInv
<1>2. version[r] \in Nat /\ cursor[d] \in Nat /\ seen[d][r] \in Nat /\ seen[d][r] <= version[r]
    BY <1>1 DEF TypeOK, SeenInv
<1>3. CASE Answer(d)
    <2>1. version' = version /\ overtaken' = overtaken
        BY <1>3 DEF Answer, database
    <2>2. seen[d][r] = version[r] \/ version[r] \in overtaken[d]
        BY <1>1, <1>3, AllRead DEF SeenInv, Answer
    <2>3. CASE version[r] > cursor[d] /\ seen[d][r] = version[r]
        BY <1>2, <1>3, <2>1, <2>3, AnswerDelivers
    <2>4. CASE version[r] <= cursor[d]
        <3>1. copy[d][r] = version[r] \/ version[r] \in overtaken[d]
            BY <2>1, <2>4 DEF LostOnlyWhenOvertaken
        <3>2. PICK page \in SUBSET candidates[d], next \in Nat :
                 copy' = [copy EXCEPT ![d] = Apply(d, page)]
            BY <1>3, AnswerPage
        <3>3. ~ \E c \in page : c.row = r
            BY <1>1, <1>2, <2>4 DEF CandidatesInv
        <3>4. copy'[d][r] = copy[d][r]
            BY <3>2, <3>3 DEF Apply, TypeOK
        <3> QED
            BY <2>1, <3>1, <3>4
    <2> QED
        BY <1>2, <2>1, <2>2, <2>3, <2>4
<1>4. CASE ~ Answer(d)
    <2>1. cursor'[d] = cursor[d] /\ copy'[d] = copy[d]
        BY <1>4, ReplicaRests
    <2>2. CASE UNCHANGED version /\ UNCHANGED overtaken
        BY <2>1, <2>2 DEF LostOnlyWhenOvertaken
    <2>3. ASSUME NEW w \in Writers, Commit(w)
          PROVE  copy'[d][r] = version'[r] \/ version'[r] \in overtaken'[d]
        <3>1. writing[w] \in Entry
            BY <2>3 DEF TypeOK, Commit
        <3>2. overtaken[d] \subseteq overtaken'[d]
            BY <2>3 DEF Commit
        <3>3. CASE r # writing[w].row
            <4>1. version'[r] = version[r]
                BY <2>3, <3>1, <3>3 DEF Commit, TypeOK
            <4> QED
                BY <2>1, <3>2, <4>1 DEF LostOnlyWhenOvertaken
        <3>4. CASE r = writing[w].row
            <4>1. version'[r] = writing[w].ver
                BY <2>3, <3>4 DEF Commit, TypeOK
            <4>2. Passed(d, writing[w])
                BY <2>1, <4>1 DEF Passed
            <4> QED
                BY <2>3, <4>1, <4>2 DEF Commit
        <3> QED
            BY <3>3, <3>4
    <2>4. (\E w \in Writers : Commit(w)) \/ (UNCHANGED version /\ UNCHANGED overtaken)
        BY DEF Next, Rollback, Draw, StartPull, ReadTable, Answer, LosePull, vars, database
    <2> QED
        BY <2>2, <2>3, <2>4
<1> QED
    BY <1>3, <1>4

----------------------------------------------------------------------------
(* Theorems. *)

(* Every reachable state of SyncPull is well typed; the loop over the tables
   never runs past the last one (the for loop of pull). *)
THEOREM TypeCorrect == Spec => []TypeOK
BY PullInductive, PTL

(* No page leaves a hole, whatever the tables, the page size and the writers
   (the limit of each SELECT, the merge and the slice of pull). *)
THEOREM NoHoles == Spec => PagesHaveNoHoles
<1>1. TypeOK /\ PullInv /\ [Next]_vars =>
        [\A d \in Devices : Answers(d) =>
           \A r \in Visible[d] :
             cursor[d] < seen[d][r] /\ seen[d][r] <= cursor'[d] =>
               copy'[d][r] = seen[d][r]]_vars
    BY OnlyAnswer, AnswerDelivers
<1> QED
    BY <1>1, PullInductive, PTL DEF Spec, PagesHaveNoHoles

(* hasMore is a true answer: false only if everything read was delivered, true
   only if asking again gets further. *)
THEOREM HasMoreSound == Spec => HasMoreIsRight
<1>1. TypeOK /\ PullInv /\ [Next]_vars =>
        [\A d \in Devices : Answers(d) =>
           IF HasMore(d) THEN cursor'[d] > cursor[d]
           ELSE \A r \in Visible[d] :
                  cursor[d] < seen[d][r] => copy'[d][r] = seen[d][r]]_vars
    BY OnlyAnswer, AnswerHasMore
<1> QED
    BY <1>1, PullInductive, PTL DEF Spec, HasMoreIsRight

(* No answer, lost, late or empty, takes a copy or a cursor back. *)
THEOREM NeverBack == Spec => CopiesAdvance
<1>1. TypeOK /\ PullInv /\ [Next]_vars =>
        [\A d \in Devices :
           cursor'[d] >= cursor[d] /\ \A r \in Rows : copy'[d][r] >= copy[d][r]]_vars
    BY ReplicaAdvances
<1> QED
    BY <1>1, PullInductive, PTL DEF Spec, CopiesAdvance

(* The only changes a device misses for good are those that became visible
   behind its back: pull itself loses nothing. *)
THEOREM OnlyOvertakenLost == Spec => []LostOnlyWhenOvertaken
<1>1. Init => LostOnlyWhenOvertaken
    BY DEF Init, LostOnlyWhenOvertaken, Nothing
<1>2. TypeOK /\ PullInv /\ LostOnlyWhenOvertaken /\ [Next]_vars => LostOnlyWhenOvertaken'
    BY LostStep
<1> QED
    BY <1>1, <1>2, PullInductive, PTL DEF Spec

(* The safety half of Converges. *)
CatchesUp ==
    [][\A d \in Devices : Answers(d) /\ ~ HasMore(d) =>
         \A r \in Visible[d] : version[r] # 0 =>
           copy'[d][r] = version[r] \/ version[r] \in overtaken[d]]_vars

LEMMA CaughtUp ==
    ASSUME TypeOK, PullInv, LostOnlyWhenOvertaken, [Next]_vars,
           NEW d \in Devices, Answers(d), ~ HasMore(d),
           NEW r \in Visible[d], version[r] # 0
    PROVE  copy'[d][r] = version[r] \/ version[r] \in overtaken[d]
<1>1. Answer(d)
    BY OnlyAnswer
<1>2. SeenInv(d) /\ LoopInv(d) /\ pc[d] = "answering" /\ r \in Rows
    BY <1>1 DEF PullInv, Answer
<1>3. seen[d][r] = version[r] \/ version[r] \in overtaken[d]
    BY <1>2, AllRead DEF SeenInv
<1>4. version[r] \in Nat /\ cursor[d] \in Nat /\ cursor'[d] >= cursor[d]
    BY <1>2, ReplicaAdvances DEF TypeOK
<1>5. CASE cursor[d] < version[r] /\ seen[d][r] = version[r]
    BY <1>1, <1>5, AnswerHasMore
<1>6. CASE version[r] <= cursor[d]
    <2>1. version' = version /\ overtaken' = overtaken
        BY <1>1 DEF Answer, database
    <2>2. cursor'[d] \in Nat
        BY TypeStep DEF TypeOK
    <2>3. version'[r] <= cursor'[d]
        BY <1>4, <1>6, <2>1, <2>2
    <2>4. LostOnlyWhenOvertaken'
        BY LostStep
    <2> QED
        BY <1>2, <2>1, <2>3, <2>4 DEF LostOnlyWhenOvertaken
<1> QED
    BY <1>3, <1>4, <1>5, <1>6

(* A page that says there is no more leaves the device with every row in its
   scope as it is in the database at that moment, over any tables, pages and
   writers, but for what was overtaken; a page that says there is more has moved
   the cursor (HasMoreSound), and there are only so many versions (pull). *)
THEOREM LastPageCatchesUp == Spec => CatchesUp
<1>1. TypeOK /\ PullInv /\ LostOnlyWhenOvertaken /\ [Next]_vars =>
        [\A d \in Devices : Answers(d) /\ ~ HasMore(d) =>
           \A r \in Visible[d] : version[r] # 0 =>
             copy'[d][r] = version[r] \/ version[r] \in overtaken[d]]_vars
    BY CaughtUp
<1> QED
    BY <1>1, PullInductive, OnlyOvertakenLost, PTL DEF Spec, CatchesUp

----------------------------------------------------------------------------
(* What schema/_helpers.ts says of nextRowVersion is false of statements that
   overlap (AdvancesPastCursors); this is what it comes to. *)

(* No version is drawn twice, and no cursor is ahead of every row. *)
DrawnOnce ==
    \A w \in Writers : writing[w] # None =>
      /\ \A r \in Rows : version[r] # writing[w].ver
      /\ \A v \in Writers : writing[v] # None /\ writing[v].ver = writing[w].ver => v = w

CursorReal == \A d \in Devices : cursor[d] = 0 \/ \E r \in Rows : cursor[d] <= version[r]

(* A row passes every cursor, or another row has passed it already. *)
AdvancesUnlessPassed ==
    [][\A r \in Rows : version'[r] # version[r] =>
         \/ \A d \in Devices : version'[r] > cursor[d]
         \/ \E s \in Rows \ {r} : version[s] > version'[r]]_vars

(* The step is of one of four kinds. *)
LEMMA Kinds ==
    ASSUME TypeOK, [Next]_vars
    PROVE  \/ \E w \in Writers, r \in Rows : Draw(w, r)
           \/ \E w \in Writers : Commit(w)
           \/ \E d \in Devices : Answer(d)
           \/ /\ UNCHANGED <<seq, version, cursor>>
              /\ \A w \in Writers : writing'[w] \in {None, writing[w]}
    BY DEF Next, Rollback, StartPull, ReadTable, LosePull, vars, database, replica, TypeOK

LEMMA DrawnOnceStep ==
    ASSUME TypeOK, PullInv, DrawnOnce, [Next]_vars
    PROVE  DrawnOnce'
<1>1. seq \in Nat /\ \A w \in Writers : writing[w] # None => writing[w].ver \in Nat
    BY DEF TypeOK, Entry
<1>2. ASSUME NEW w \in Writers, NEW r \in Rows, Draw(w, r) PROVE DrawnOnce'
    <2>1. version' = version /\ \A q \in Rows : version[q] \in Nat /\ version[q] <= seq
        BY <1>2 DEF Draw, PullInv, GrowInv, TypeOK
    <2>2. writing'[w].ver = seq + 1 /\ \A v \in Writers \ {w} : writing'[v] = writing[v]
        BY <1>2 DEF Draw, TypeOK
    <2>3. \A v \in Writers : writing[v] # None => writing[v].ver <= seq
        BY DEF PullInv, GrowInv
    <2> QED
        BY <1>1, <2>1, <2>2, <2>3 DEF DrawnOnce
<1>3. ASSUME NEW w \in Writers, Commit(w) PROVE DrawnOnce'
    <2>1. \A r \in Rows : version'[r] \in {version[r], writing[w].ver}
        BY <1>3 DEF Commit, TypeOK
    <2>2. writing[w] # None /\ writing'[w] = None
          /\ \A v \in Writers \ {w} : writing'[v] = writing[v]
        BY <1>3 DEF Commit, TypeOK
    <2> QED
        BY <2>1, <2>2 DEF DrawnOnce
<1>4. CASE UNCHANGED <<seq, version>> /\ \A w \in Writers : writing'[w] \in {None, writing[w]}
    BY <1>4 DEF DrawnOnce
<1>5. ASSUME NEW d \in Devices, Answer(d) PROVE DrawnOnce'
    BY <1>5 DEF Answer, database, DrawnOnce
<1> QED
    BY <1>2, <1>3, <1>4, <1>5, Kinds

LEMMA CursorRealStep ==
    ASSUME TypeOK, PullInv, CursorReal, [Next]_vars
    PROVE  CursorReal'
<1> SUFFICES ASSUME NEW d \in Devices, cursor'[d] # 0
             PROVE  \E r \in Rows : cursor'[d] <= version'[r]
    BY DEF CursorReal
<1>1. cursor[d] \in Nat /\ \A r \in Rows : version[r] \in Nat
    BY DEF TypeOK
<1>2. CASE cursor'[d] = cursor[d]
    <2>1. PICK r \in Rows : cursor[d] <= version[r]
        BY <1>2 DEF CursorReal
    <2>2. version'[r] \in Nat /\ version'[r] >= version[r]
        <3>1. ASSUME NEW w \in Writers, Commit(w) PROVE version'[r] = version[r] \/ version'[r] > version[r]
            <4>1. writing[w] # None /\ writing[w].ver \in Nat
                  /\ version[writing[w].row] < writing[w].ver
                BY <3>1 DEF Commit, PullInv, GrowInv, TypeOK, Entry
            <4> QED
                BY <1>1, <3>1, <4>1 DEF Commit, TypeOK
        <3>2. version' = version \/ \E w \in Writers : Commit(w)
            BY Kinds DEF Draw, Answer, database
        <3>3. version'[r] \in Nat
            BY TypeStep DEF TypeOK
        <3> QED
            BY <1>1, <3>1, <3>2, <3>3
    <2> QED
        BY <1>1, <1>2, <2>1, <2>2
<1>3. CASE cursor'[d] # cursor[d]
    <2>1. Answer(d)
        BY <1>3, ReplicaRests
    <2>2. PICK page \in SUBSET candidates[d], next \in Nat :
             NextCursor(d, page, next) /\ cursor' = [cursor EXCEPT ![d] = next]
        BY <2>1, AnswerPage
    <2>3. cursor'[d] = next /\ next # cursor[d]
        BY <1>3, <2>2 DEF TypeOK
    <2>4. PICK c \in page : next = c.ver
        BY <2>2, <2>3 DEF NextCursor
    <2>5. c.row \in Rows /\ c.ver = seen[d][c.row] /\ seen[d][c.row] <= version[c.row]
        BY <2>2, <2>4 DEF PullInv, CandidatesInv, SeenInv, TypeOK, Entry
    <2>6. version' = version
        BY <2>1 DEF Answer, database
    <2> QED
        BY <2>3, <2>4, <2>5, <2>6
<1> QED
    BY <1>2, <1>3

(* A mutated row advances past every existing cursor, whatever statements
   overlap, unless another row had already become visible with a later version. *)
THEOREM AdvancesOrWasPassed == Spec => AdvancesUnlessPassed
<1>1. Init => DrawnOnce /\ CursorReal
    BY DEF Init, DrawnOnce, CursorReal
<1>2. TypeOK /\ PullInv /\ DrawnOnce /\ CursorReal /\ [Next]_vars => (DrawnOnce /\ CursorReal)'
    BY DrawnOnceStep, CursorRealStep
<1>3. ASSUME TypeOK, PullInv, DrawnOnce, CursorReal, [Next]_vars,
             NEW r \in Rows, version'[r] # version[r],
             NEW d \in Devices, ~ (version'[r] > cursor[d])
      PROVE  \E s \in Rows \ {r} : version[s] > version'[r]
    <2>1. ASSUME NEW e \in Devices, Answer(e) PROVE FALSE
        BY <1>3, <2>1 DEF Answer, database
    <2>2. ASSUME NEW w \in Writers, NEW q \in Rows, Draw(w, q) PROVE FALSE
        BY <1>3, <2>2 DEF Draw
    <2>3. PICK w \in Writers : Commit(w)
        BY <1>3, <2>1, <2>2, Kinds
    <2>4. /\ writing[w] # None /\ writing[w].row = r /\ writing[w].ver \in Nat
          /\ version'[r] = writing[w].ver
        BY <1>3, <2>3 DEF Commit, TypeOK, Entry
    <2>5. version[r] < writing[w].ver
        BY <1>3, <2>4 DEF PullInv, GrowInv
    <2>6. cursor[d] \in Nat /\ \A s \in Rows : version[s] \in Nat
        BY <1>3 DEF TypeOK
    <2>7. PICK s \in Rows : cursor[d] <= version[s]
        BY <1>3, <2>4, <2>5, <2>6 DEF CursorReal
    <2>8. version[s] # writing[w].ver
        BY <1>3, <2>4 DEF DrawnOnce
    <2> QED
        BY <1>3, <2>4, <2>5, <2>6, <2>7, <2>8
<1>4. TypeOK /\ PullInv /\ DrawnOnce /\ CursorReal /\ [Next]_vars =>
        [\A r \in Rows : version'[r] # version[r] =>
           \/ \A d \in Devices : version'[r] > cursor[d]
           \/ \E s \in Rows \ {r} : version[s] > version'[r]]_vars
    BY <1>3
<1> QED
    BY <1>1, <1>2, <1>4, PullInductive, PTL DEF Spec, AdvancesUnlessPassed
====
