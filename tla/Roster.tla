---- MODULE Roster ----
(* What the calls on organizations, members and invites promise, each as one
   step on the rows as they are when it takes effect (organizations.service.ts,
   members.service.ts, invites.service.ts). A call may find that its row was
   removed, or its organization deleted, meanwhile. *)
EXTENDS Permissions

CONSTANTS Accounts, Orgs, Members, Codes, None

VARIABLES
    orgs,       \* orgs[o]: owner, deleted; or None
    rows,       \* rows[m]: org, account, role, active, code, deleted; or None
    joined,     \* <<account, member>>: told that it had joined
    handed,     \* <<member, code>>: told that this is the member's code
    contested,  \* members whose redemptions crossed
    crowded,    \* <<account, org>> whose redemptions crossed
    recoded     \* members whose invites were issued twice at once

crossings == <<contested, crowded, recoded>>
vars      == <<orgs, rows, joined, handed, crossings>>

Init ==
    /\ orgs = [o \in Orgs |-> None]
    /\ rows = [m \in Members |-> None]
    /\ joined = {} /\ handed = {}
    /\ contested = {} /\ crowded = {} /\ recoded = {}

Found(a, o, m) ==
    /\ orgs[o] = None
    /\ rows[m] = None
    /\ orgs' = [orgs EXCEPT ![o] = [owner |-> a, deleted |-> FALSE]]
    /\ rows' = [rows EXCEPT ![m] =
            [org |-> o, account |-> a, role |-> "owner", active |-> TRUE,
             code |-> None, deleted |-> FALSE]]
    /\ UNCHANGED <<joined, handed>>

Dissolve(o) ==
    /\ orgs[o] # None
    /\ orgs' = [orgs EXCEPT ![o].deleted = TRUE]
    /\ UNCHANGED <<rows, joined, handed>>

Invite(o, m, role) ==
    /\ orgs[o] # None
    /\ rows[m] = None
    /\ rows' = [rows EXCEPT ![m] =
            [org |-> o, account |-> None, role |-> role, active |-> FALSE,
             code |-> None, deleted |-> FALSE]]
    /\ UNCHANGED <<orgs, joined, handed>>

(* Nobody's role becomes the owner's, and the owner's row stays as it is. *)
SetRole(m, role) ==
    /\ rows[m] # None /\ rows[m].role # "owner"
    /\ rows' = [rows EXCEPT ![m].role = role]
    /\ UNCHANGED <<orgs, joined, handed>>

Remove(m) ==
    /\ rows[m] # None /\ rows[m].role # "owner"
    /\ rows' = [rows EXCEPT ![m].deleted = TRUE]
    /\ UNCHANGED <<orgs, joined, handed>>

(* A code opens one row, and a row that has one keeps it. *)
IssueCode(m, c) ==
    /\ rows[m] # None
    /\ rows[m].code = None \/ m \in recoded
    /\ \A n \in Members \ {m} : rows[n] # None => rows[n].code # c
    /\ rows' = [rows EXCEPT ![m].code = c]
    /\ handed' = handed \cup {<<m, c>>}
    /\ UNCHANGED <<orgs, joined>>

RepeatCode(m) ==
    /\ rows[m] # None /\ rows[m].code # None
    /\ handed' = handed \cup {<<m, rows[m].code>>}
    /\ UNCHANGED <<orgs, rows, joined>>

(* The row is still free, and the account is not yet a member. *)
Join(a, m) ==
    /\ rows[m] # None /\ rows[m].role # "owner"
    /\ rows[m].account = None \/ m \in contested
    /\ \A n \in Members \ {m} :
         /\ rows[n] # None /\ ~ rows[n].deleted
         /\ rows[n].org = rows[m].org /\ rows[n].account = a
         => <<a, rows[m].org>> \in crowded
    /\ rows' = [rows EXCEPT ![m].account = a, ![m].active = TRUE]
    /\ joined' = joined \cup {<<a, m>>}
    /\ UNCHANGED <<orgs, handed>>

JoinAgain(a, m) ==
    /\ rows[m] # None
    /\ \/ rows[m].account = a /\ rows[m].active
       \/ m \in contested
    /\ joined' = joined \cup {<<a, m>>}
    /\ UNCHANGED <<orgs, rows, handed>>

Call ==
    \/ \E a \in Accounts, m \in Members :
         Join(a, m) \/ JoinAgain(a, m) \/ \E o \in Orgs : Found(a, o, m)
    \/ \E o \in Orgs : Dissolve(o)
    \/ \E m \in Members, role \in AssignableRoles :
         SetRole(m, role) \/ \E o \in Orgs : Invite(o, m, role)
    \/ \E m \in Members : Remove(m) \/ RepeatCode(m) \/ \E c \in Codes : IssueCode(m, c)

Next ==
    /\ Call
    /\ contested \subseteq contested' /\ crowded \subseteq crowded' /\ recoded \subseteq recoded'

Spec == Init /\ [][Next]_vars
====
