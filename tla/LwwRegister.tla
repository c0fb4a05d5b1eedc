---- MODULE LwwRegister ----
(* What a client is promised by POST /sync/push, one last-writer-wins register
   per entity row: a mutation takes effect only over a strictly older value,
   and a mutation that was answered with a version is kept, or beaten by a
   newer one, for as long as the register is not lost. *)
EXTENDS Naturals

CONSTANTS Ids,        \* the rows, keyed by entity and uuid
          Mutations,  \* records with at least id, op, at, deletedAt
          None

VARIABLES value,      \* value[i]: None, or what the register holds
          promised,   \* the mutations answered with a row version
          lost        \* the registers nothing is promised of any more

vars == <<value, promised, lost>>

Value == [cols : Mutations, at : Nat, deletedAt : Nat \cup {None}]

TypeOK ==
    /\ value \in [Ids -> Value \cup {None}]
    /\ promised \subseteq Mutations
    /\ lost \subseteq Ids

Init ==
    /\ value = [i \in Ids |-> None]
    /\ promised = {}
    /\ lost = {}

Newer(m) == m.id \notin lost /\ (value[m.id] = None \/ value[m.id].at < m.at)

Upsert(m) ==
    /\ m.op = "upsert"
    /\ Newer(m)
    /\ value' = [value EXCEPT
         ![m.id] = [cols |-> m, at |-> m.at, deletedAt |-> m.deletedAt]]
    /\ UNCHANGED <<promised, lost>>

Delete(m) ==
    /\ m.op = "delete"
    /\ value[m.id] # None
    /\ Newer(m)
    /\ value' = [value EXCEPT
         ![m.id] = [cols |-> value[m.id].cols, at |-> m.at, deletedAt |-> m.at]]
    /\ UNCHANGED <<promised, lost>>

Promise(m) ==
    /\ value[m.id] # None
    /\ value[m.id].at >= m.at
    /\ promised' = promised \cup {m}
    /\ UNCHANGED <<value, lost>>

(* The registers of S are given up, what was promised of them too. *)
Lose(S) ==
    /\ lost' = lost \cup S
    /\ value' = [i \in Ids |-> IF i \in S THEN None ELSE value[i]]
    /\ promised' = {m \in promised : m.id \notin S}

Next ==
    \/ \E m \in Mutations : Upsert(m) \/ Delete(m) \/ Promise(m)
    \/ \E S \in SUBSET Ids : Lose(S)

Spec == Init /\ [][Next]_vars
====
