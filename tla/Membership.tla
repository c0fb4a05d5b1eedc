---- MODULE Membership ----
(* Organizations and the people in them: organizations.service.ts (create,
   softDelete), members.service.ts, invites.service.ts and the guards before
   them (common/guards). A request is a process; each of its steps ends at the
   next database call, so it acts on rows it read before. What the update of a
   profile writes (name, phone, title) is not kept. *)
EXTENDS Naturals, Permissions

CONSTANTS
    Accounts, Orgs,
    Members,      \* ids of org_members rows
    Codes,        \* invite codes generateCode draws from
    Requests,     \* requests that may be in flight at a time
    PickedRoles,  \* roles the clients choose
    Assigning,    \* whether they assign projects with an invitation
    MaxCalls,     \* bound: requests in a behaviour
    None

ASSUME InputsAssumption == PickedRoles \subseteq AssignableRoles /\ Assigning \subseteq BOOLEAN
ASSUME NoneIsNoId == None \notin Accounts \cup Orgs \cup Members \cup Codes

VARIABLES
    organizations,   \* organizations[o]: the row, or None
    orgMembers,      \* orgMembers[m]: the row, or None
    projectMembers,  \* members with project assignments
    req,             \* req[r]: the request in flight, or None
    calls,
    joined,          \* history: <<account, member>>: redeem answered success
    handed,          \* history: <<member, code>>: issue answered the code
    raced,           \* history: members linked while another redeem of theirs ran
    doubled,         \* history: <<account, org>> of two redeems past their checks
    reissued,        \* history: members given a code while another issue ran
    shaken           \* history: requests whose permission changed in flight

tables  == <<organizations, orgMembers, projectMembers>>
answers == <<joined, handed>>
races   == <<raced, doubled, reissued, shaken>>
vars    == <<tables, req, calls, answers, races>>

OrgRow == [owner : Accounts, deleted : BOOLEAN]

MemberRow ==
    [org : Orgs, account : Accounts \cup {None}, role : Roles, active : BOOLEAN,
     code : Codes \cup {None}, deleted : BOOLEAN]

ASSUME NoneIsNoRow == None \notin OrgRow \cup MemberRow

(* @RequirePermission of each organization-scoped route. *)
Required ==
    [invite |-> "manageTeam", update |-> "manageTeam", remove |-> "manageTeam",
     issue |-> "manageTeam", setRole |-> "changeRoles",
     deleteOrg |-> "deleteOrganization"]

ScopedOps == DOMAIN Required
Ops       == ScopedOps \cup {"redeem"}

(* The database call a request awaits. *)
GuardedPoints == {"service", "write", "draw", "save"}
RedeemPoints  == {"confirm", "relink", "liveOrg", "existing", "activate"}
AwaitPoints   == {"membership"} \cup GuardedPoints \cup RedeemPoints

Request ==
    [at : AwaitPoints, op : Ops, account : Accounts, org : Orgs,
     member : Members \cup {None}, code : Codes \cup {None}]

ASSUME NoneIsNoRequest == None \notin Request

TypeOK ==
    /\ organizations \in [Orgs -> OrgRow \cup {None}]
    /\ orgMembers \in [Members -> MemberRow \cup {None}]
    /\ projectMembers \subseteq Members
    /\ req \in [Requests -> Request \cup {None}]
    /\ calls \in Nat
    /\ joined \subseteq Accounts \X Members
    /\ handed \subseteq Members \X Codes
    /\ raced \cup reissued \subseteq Members
    /\ doubled \subseteq Accounts \X Orgs
    /\ shaken \subseteq Requests

Init ==
    /\ organizations = [o \in Orgs |-> None]
    /\ orgMembers = [m \in Members |-> None]
    /\ projectMembers = {}
    /\ req = [r \in Requests |-> None]
    /\ calls = 0
    /\ joined = {} /\ handed = {}
    /\ raced = {} /\ doubled = {} /\ reissued = {} /\ shaken = {}

LiveOrg(o)    == organizations[o] # None /\ ~ organizations[o].deleted
LiveMember(m) == orgMembers[m] # None /\ ~ orgMembers[m].deleted

(* A live row of the account in the organization. *)
MembershipIn(m, a, o) ==
    LiveMember(m) /\ orgMembers[m].org = o /\ orgMembers[m].account = a

At(r, point) == req[r] # None /\ req[r].at = point

Goto(r, point) == req' = [req EXCEPT ![r].at = point]
End(r)         == req' = [req EXCEPT ![r] = None]

Call == calls < MaxCalls /\ calls' = calls + 1

Leave(r) == shaken' = shaken \ {r}

(* Requests past their guards whose caller the row m let in. *)
LetInBy(m) ==
    {s \in Requests : /\ req[s] # None /\ req[s].at \in GuardedPoints
                      /\ req[s].account = orgMembers[m].account}

----------------------------------------------------------------------------
(* create: one transaction. *)
Create(a, o, m) ==
    /\ Call
    /\ organizations[o] = None
    /\ orgMembers[m] = None
    /\ organizations' = [organizations EXCEPT ![o] = [owner |-> a, deleted |-> FALSE]]
    /\ orgMembers' = [orgMembers EXCEPT ![m] =
            [org |-> o, account |-> a, role |-> "owner", active |-> TRUE,
             code |-> None, deleted |-> FALSE]]
    /\ UNCHANGED <<projectMembers, req, answers, races>>

(* OrgScopeGuard: the organization is live, ... *)
Arrive(r, op, a, o) ==
    /\ Call
    /\ req[r] = None
    /\ LiveOrg(o)
    /\ req' = [req EXCEPT ![r] = [at |-> "membership", op |-> op, account |-> a,
                                  org |-> o, member |-> None, code |-> None]]
    /\ UNCHANGED <<tables, answers, races>>

(* ... and then the caller's membership, of which PermissionsGuard asks the role. *)
MayPass(m, q) ==
    /\ MembershipIn(m, q.account, q.org)
    /\ orgMembers[m].active
    /\ Can(orgMembers[m].role, Required[q.op])

Guard(r) ==
    /\ At(r, "membership")
    /\ \E m \in Members : MayPass(m, req[r])
    /\ Goto(r, "service")
    /\ UNCHANGED <<tables, calls, answers, races>>

(* findFirst returns one of the caller's rows, any of them. *)
Forbid(r) ==
    /\ At(r, "membership")
    /\ \/ \A m \in Members : ~ MembershipIn(m, req[r].account, req[r].org)
       \/ \E m \in Members : MembershipIn(m, req[r].account, req[r].org) /\ ~ MayPass(m, req[r])
    /\ End(r) /\ Leave(r)
    /\ UNCHANGED <<tables, calls, answers, raced, doubled, reissued>>

(* invite: the row and its assignments in one transaction. *)
Invite(r) ==
    /\ At(r, "service") /\ req[r].op = "invite"
    /\ \E m \in Members, role \in PickedRoles, projects \in Assigning :
        /\ orgMembers[m] = None
        /\ orgMembers' = [orgMembers EXCEPT ![m] =
                [org |-> req[r].org, account |-> None, role |-> role, active |-> FALSE,
                 code |-> None, deleted |-> FALSE]]
        /\ projectMembers' = IF projects THEN projectMembers \cup {m} ELSE projectMembers
    /\ End(r) /\ Leave(r)
    /\ UNCHANGED <<organizations, calls, answers, raced, doubled, reissued>>

(* A client-chosen id that is taken: the insert fails. *)
InviteTaken(r) ==
    /\ At(r, "service") /\ req[r].op = "invite"
    /\ \E m \in Members : orgMembers[m] # None
    /\ End(r) /\ Leave(r)
    /\ UNCHANGED <<tables, calls, answers, raced, doubled, reissued>>

DeleteOrg(r) ==
    /\ At(r, "service") /\ req[r].op = "deleteOrg"
    /\ organizations' = [organizations EXCEPT ![req[r].org].deleted = TRUE]
    /\ shaken' = (shaken \cup {s \in Requests : req[s] # None /\ req[s].org = req[r].org}) \ {r}
    /\ End(r)
    /\ UNCHANGED <<orgMembers, projectMembers, calls, answers, raced, doubled, reissued>>

(* requireMember, and the refusals on the owner's row. *)
RequireAnywhere(m, o) == LiveMember(m)                             \* mutant

RequireMember(m, o) == LiveMember(m) /\ orgMembers[m].org = o

MayTouchAny(op, m) == TRUE                                         \* mutant

MayTouch(op, m) == op \in {"setRole", "remove"} => orgMembers[m].role # "owner"

Find(r, m) ==
    /\ At(r, "service") /\ req[r].op \in {"update", "setRole", "remove"}
    /\ RequireMember(m, req[r].org)
    /\ MayTouch(req[r].op, m)
    /\ req' = [req EXCEPT ![r].at = "write", ![r].member = m]
    /\ UNCHANGED <<tables, calls, answers, races>>

(* Not found, or the owner's row; also of issue. *)
Refuse(r) ==
    /\ At(r, "service") /\ req[r].op \in {"update", "setRole", "remove", "issue"}
    /\ End(r) /\ Leave(r)
    /\ UNCHANGED <<tables, calls, answers, raced, doubled, reissued>>

(* UPDATE by id: columns that are not kept here. *)
Update(r) ==
    /\ At(r, "write") /\ req[r].op = "update"
    /\ End(r) /\ Leave(r)
    /\ UNCHANGED <<tables, calls, answers, raced, doubled, reissued>>

(* UPDATE by id: also of a row removed meanwhile. *)
SetRole(r) ==
    /\ At(r, "write") /\ req[r].op = "setRole"
    /\ \E role \in PickedRoles :
        orgMembers' = [orgMembers EXCEPT ![req[r].member].role = role]
    /\ shaken' = (shaken \cup LetInBy(req[r].member)) \ {r}
    /\ End(r)
    /\ UNCHANGED <<organizations, projectMembers, calls, answers, raced, doubled, reissued>>

Unassign(m) == projectMembers \ {m}

(* One transaction: the tombstone and the assignments. *)
Remove(r) ==
    /\ At(r, "write") /\ req[r].op = "remove"
    /\ orgMembers' = [orgMembers EXCEPT ![req[r].member].deleted = TRUE]
    /\ projectMembers' = Unassign(req[r].member)
    /\ shaken' = (shaken \cup LetInBy(req[r].member)) \ {r}
    /\ End(r)
    /\ UNCHANGED <<organizations, calls, answers, raced, doubled, reissued>>

----------------------------------------------------------------------------
(* issue: the code the row has, or ... *)
Reissue(r, m) ==
    /\ At(r, "service") /\ req[r].op = "issue"
    /\ RequireMember(m, req[r].org)
    /\ orgMembers[m].code # None
    /\ handed' = handed \cup {<<m, orgMembers[m].code>>}
    /\ End(r) /\ Leave(r)
    /\ UNCHANGED <<tables, calls, joined, raced, doubled, reissued>>

HasNoCodeAlways(m) == TRUE                                         \* mutant

HasNoCode(m) == orgMembers[m].code = None

IssueFresh(r, m) ==
    /\ At(r, "service") /\ req[r].op = "issue"
    /\ RequireMember(m, req[r].org)
    /\ HasNoCode(m)
    /\ req' = [req EXCEPT ![r].at = "draw", ![r].member = m]
    /\ UNCHANGED <<tables, calls, answers, races>>

(* ... one drawn until no live row has it, ... *)
FindByCode(c) == {m \in Members : LiveMember(m) /\ orgMembers[m].code = c}

Draw(r, c) ==
    /\ At(r, "draw")
    /\ FindByCode(c) = {}
    /\ req' = [req EXCEPT ![r].at = "save", ![r].code = c]
    /\ UNCHANGED <<tables, calls, answers, races>>

(* ... written by id. The unique index holds removed rows as well. *)
CodeFree(m, c) ==
    \A n \in Members \ {m} : orgMembers[n] # None => orgMembers[n].code # c

SaveCode(r) ==
    /\ At(r, "save")
    /\ CodeFree(req[r].member, req[r].code)
    /\ orgMembers' = [orgMembers EXCEPT ![req[r].member].code = req[r].code]
    /\ handed' = handed \cup {<<req[r].member, req[r].code>>}
    /\ reissued' = IF \E s \in Requests \ {r} : /\ req[s] # None /\ req[s].at \in {"draw", "save"}
                                               /\ req[s].member = req[r].member
                   THEN reissued \cup {req[r].member} ELSE reissued
    /\ End(r) /\ Leave(r)
    /\ UNCHANGED <<organizations, projectMembers, calls, joined, raced, doubled>>

CodeTaken(r) ==
    /\ At(r, "save")
    /\ ~ CodeFree(req[r].member, req[r].code)
    /\ End(r) /\ Leave(r)
    /\ UNCHANGED <<tables, calls, answers, raced, doubled, reissued>>

----------------------------------------------------------------------------
(* redeem: liveMemberByCode; a row of another account ends in the conflict. *)
RedeemableByAll(m, a) == TRUE                                      \* mutant

Redeemable(m, a) == orgMembers[m].account \in {None, a}

OpenAs(a, row) ==
    IF row.account = None THEN "liveOrg" ELSE IF row.active THEN "confirm" ELSE "relink"

Redeem(r, a, c) ==
    /\ Call
    /\ req[r] = None
    /\ \E m \in FindByCode(c) :
        /\ Redeemable(m, a)
        /\ req' = [req EXCEPT ![r] =
                [at |-> OpenAs(a, orgMembers[m]), op |-> "redeem", account |-> a,
                 org |-> orgMembers[m].org, member |-> m, code |-> c]]
    /\ UNCHANGED <<tables, answers, races>>

OrgUnavailable(r) ==
    /\ req[r] # None /\ req[r].at \in {"confirm", "relink", "liveOrg"}
    /\ ~ LiveOrg(req[r].org)
    /\ End(r) /\ Leave(r)
    /\ UNCHANGED <<tables, calls, answers, raced, doubled, reissued>>

(* One's own redeemed invite just succeeds. *)
Confirm(r) ==
    /\ At(r, "confirm")
    /\ LiveOrg(req[r].org)
    /\ joined' = joined \cup {<<req[r].account, req[r].member>>}
    /\ End(r) /\ Leave(r)
    /\ UNCHANGED <<tables, calls, handed, raced, doubled, reissued>>

FindOrg(r) ==
    /\ req[r] # None /\ req[r].at \in {"relink", "liveOrg"}
    /\ LiveOrg(req[r].org)
    /\ Goto(r, IF req[r].at = "relink" THEN "activate" ELSE "existing")
    /\ UNCHANGED <<tables, calls, answers, races>>

ExistingIgnored(a, o) == {}                                        \* mutant

Existing(a, o) == {m \in Members : MembershipIn(m, a, o)}

AlreadyMember(r) ==
    /\ At(r, "existing")
    /\ Existing(req[r].account, req[r].org) # {}
    /\ End(r) /\ Leave(r)
    /\ UNCHANGED <<tables, calls, answers, raced, doubled, reissued>>

NotYetMember(r) ==
    /\ At(r, "existing")
    /\ Existing(req[r].account, req[r].org) = {}
    /\ Goto(r, "activate")
    /\ UNCHANGED <<tables, calls, answers, races>>

(* Another redeem of the member has read its row. *)
RedeemedBy(s, m) == req[s] # None /\ req[s].op = "redeem" /\ req[s].member = m

(* UPDATE by id: whatever the row says by now. *)
Activate(r) ==
    LET m == req[r].member
        a == req[r].account
        o == req[r].org
    IN  /\ At(r, "activate")
        /\ orgMembers' = [orgMembers EXCEPT ![m].account = a, ![m].active = TRUE]
        /\ joined' = joined \cup {<<a, m>>}
        /\ raced' = IF \E s \in Requests \ {r} : RedeemedBy(s, m) THEN raced \cup {m} ELSE raced
        /\ doubled' = IF \E s \in Requests \ {r} : /\ At(s, "activate") /\ req[s].account = a
                                                  /\ req[s].org = o /\ req[s].member # m
                      THEN doubled \cup {<<a, o>>} ELSE doubled
        /\ shaken' = (shaken \cup LetInBy(m)) \ {r}
        /\ End(r)
        /\ UNCHANGED <<organizations, projectMembers, calls, handed, reissued>>

----------------------------------------------------------------------------
Step(r) ==
    \/ \E op \in ScopedOps, a \in Accounts, o \in Orgs : Arrive(r, op, a, o)
    \/ Guard(r) \/ Forbid(r)
    \/ Invite(r) \/ InviteTaken(r) \/ DeleteOrg(r)
    \/ \E m \in Members : Find(r, m) \/ Reissue(r, m) \/ IssueFresh(r, m)
    \/ Refuse(r) \/ Update(r) \/ SetRole(r) \/ Remove(r)
    \/ \E c \in Codes : Draw(r, c)
    \/ SaveCode(r) \/ CodeTaken(r)
    \/ \E a \in Accounts, c \in Codes : Redeem(r, a, c)
    \/ OrgUnavailable(r) \/ Confirm(r) \/ FindOrg(r)
    \/ AlreadyMember(r) \/ NotYetMember(r) \/ Activate(r)

Next ==
    \/ \E a \in Accounts, o \in Orgs, m \in Members : Create(a, o, m)
    \/ \E r \in Requests : Step(r)

Spec == Init /\ [][Next]_vars

----------------------------------------------------------------------------
(* Every organization has exactly one owner row, of the account that created
   it, live and active, whatever role changes, removals and redemptions run at
   once: "never 'owner' (exactly one per org)" (organizations/permissions.ts). *)
OneOwner ==
    \A o \in Orgs : organizations[o] # None =>
        \E m \in Members :
            /\ orgMembers[m] # None
            /\ orgMembers[m].account = organizations[o].owner
            /\ orgMembers[m].active /\ ~ orgMembers[m].deleted
            /\ \A n \in Members : orgMembers[n] # None =>
                    (orgMembers[n].org = o /\ orgMembers[n].role = "owner" <=> n = m)

(* An account that redeem told it had joined is linked to the row, unless
   another redemption of the same invite had read the row before. *)
JoinedIsLinked ==
    \A j \in joined : j[2] \notin raced =>
        orgMembers[j[2]].account = j[1] /\ orgMembers[j[2]].active

(* An account holds one live membership in an organization (redeem answers
   'alreadyMember'), unless two of its redemptions were past their checks. *)
OneMembership ==
    \A m, n \in Members, a \in Accounts, o \in Orgs :
        MembershipIn(m, a, o) /\ MembershipIn(n, a, o) /\ m # n => <<a, o>> \in doubled

(* A code that issue answered stays the member's, unless two issues overlapped. *)
HandedOpens ==
    \A h \in handed : h[1] \notin reissued => orgMembers[h[1]].code = h[2]

(* A request past its guards is one its caller may make now, and the row it is
   about to write is of the organization it may make it in, unless the caller's
   role or membership, or the organization, changed since. *)
Authorised ==
    \A r \in Requests : req[r] # None /\ req[r].at \in GuardedPoints =>
        /\ req[r].member # None => orgMembers[req[r].member].org = req[r].org
        /\ r \notin shaken =>
            /\ LiveOrg(req[r].org)
            /\ \E m \in Members : /\ MembershipIn(m, req[r].account, req[r].org)
                                  /\ Can(orgMembers[m].role, Required[req[r].op])

(* Seen from outside, every call takes effect in one step, on the rows as they
   are by then: but for the calls that crossed, membership implements Roster. *)
OneStepRoster == INSTANCE Roster
    WITH orgs <- organizations, rows <- orgMembers,
         contested <- raced, crowded <- doubled, recoded <- reissued

ImplementsRoster == OneStepRoster!Spec
====
