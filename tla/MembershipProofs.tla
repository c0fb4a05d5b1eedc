---- MODULE MembershipProofs ----
(* What Membership promises for any number of accounts, organizations, members,
   codes and overlapping requests. *)
EXTENDS Membership, TLAPS

USE InputsAssumption, NoneIsNoId, NoneIsNoRow, NoneIsNoRequest

----------------------------------------------------------------------------
(* The inductive invariants. *)

(* A removed member has no project assignments. *)
AssignmentsAreLive == \A m \in projectMembers : LiveMember(m)

(* Requests and the rows they hold. *)
RowsInv ==
    \A m \in Members : orgMembers[m] # None =>
        /\ organizations[orgMembers[m].org] # None
        /\ orgMembers[m].active <=> orgMembers[m].account # None

RequestsInv ==
    \A r \in Requests : req[r] # None =>
        /\ organizations[req[r].org] # None
        /\ req[r].at \in {"membership"} \cup GuardedPoints => req[r].op \in ScopedOps
        /\ req[r].at \in RedeemPoints => req[r].op = "redeem" /\ req[r].at # "relink"
        /\ req[r].at \in {"membership", "service"} => req[r].member = None
        /\ req[r].at = "write" => req[r].op \in {"update", "setRole", "remove"}
        /\ req[r].at = "save" => req[r].code # None
        /\ req[r].at \in {"write", "draw", "save"} \cup RedeemPoints =>
                /\ req[r].member # None
                /\ orgMembers[req[r].member] # None
                /\ orgMembers[req[r].member].org = req[r].org

(* No request that writes a role, a tombstone or an account holds an owner's row. *)
OwnersLeftAlone ==
    \A r \in Requests :
        /\ req[r] # None
        /\ req[r].at \in {"write", "liveOrg", "existing", "activate"} /\ req[r].op # "update"
        => orgMembers[req[r].member].role # "owner"

LinkInv ==
    /\ \A j \in joined : orgMembers[j[2]] # None
    /\ \A r \in Requests : req[r] # None /\ req[r].member \notin raced =>
          /\ req[r].at \in {"liveOrg", "existing", "activate"} =>
                orgMembers[req[r].member].account = None
          /\ req[r].at = "confirm" =>
                /\ orgMembers[req[r].member].account = req[r].account
                /\ orgMembers[req[r].member].active

CheckedInv ==
    \A r \in Requests, n \in Members :
        /\ At(r, "activate") /\ n # req[r].member
        /\ MembershipIn(n, req[r].account, req[r].org)
        => <<req[r].account, req[r].org>> \in doubled

CodesInv ==
    /\ \A h \in handed : orgMembers[h[1]] # None
    /\ \A r \in Requests :
          /\ req[r] # None
          /\ req[r].at \in {"draw", "save"} /\ req[r].member \notin reissued
          => orgMembers[req[r].member].code = None

ArrivedInv ==
    \A r \in Requests : At(r, "membership") /\ r \notin shaken => LiveOrg(req[r].org)

MembershipInv ==
    /\ RowsInv /\ RequestsInv /\ OwnersLeftAlone
    /\ LinkInv /\ CheckedInv /\ CodesInv /\ ArrivedInv

----------------------------------------------------------------------------
LEMMA ScopedOpsAre ==
    ScopedOps = {"invite", "update", "remove", "issue", "setRole", "deleteOrg"}
BY DEF ScopedOps, Required

LEMMA PickedAreRoles == "owner" \notin PickedRoles /\ PickedRoles \subseteq Roles
BY DEF AssignableRoles, Roles

(* The request ends and nothing else changes. *)
Quits(r) ==
    /\ req[r] # None
    /\ End(r) /\ Leave(r)
    /\ UNCHANGED <<tables, calls, answers, raced, doubled, reissued>>

LEMMA Quitting ==
    ASSUME NEW r \in Requests,
           \/ Forbid(r) \/ InviteTaken(r) \/ Refuse(r) \/ Update(r)
           \/ CodeTaken(r) \/ OrgUnavailable(r) \/ AlreadyMember(r)
    PROVE  Quits(r)
BY DEF Quits, Forbid, InviteTaken, Refuse, Update, CodeTaken, OrgUnavailable, AlreadyMember, At

LEMMA TypeStep ==
    ASSUME TypeOK, MembershipInv, [Next]_vars
    PROVE  TypeOK'
<1> USE ScopedOpsAre, PickedAreRoles
<1>1. ASSUME NEW a \in Accounts, NEW o \in Orgs, NEW m \in Members, Create(a, o, m)
      PROVE  TypeOK'
    <2>1. [owner |-> a, deleted |-> FALSE] \in OrgRow
        BY DEF OrgRow
    <2>2. [org |-> o, account |-> a, role |-> "owner", active |-> TRUE, code |-> None,
           deleted |-> FALSE] \in MemberRow
        BY DEF MemberRow, Roles
    <2> QED
        BY <1>1, <2>1, <2>2 DEF Create, Call, answers, races, TypeOK
<1>2. ASSUME NEW r \in Requests, NEW op \in ScopedOps, NEW a \in Accounts, NEW o \in Orgs, Arrive(r, op, a, o)
      PROVE  TypeOK'
    BY <1>2 DEF Arrive, Call, LiveOrg, tables, answers, races, TypeOK, Request, MemberRow,
       OrgRow, AwaitPoints, GuardedPoints, RedeemPoints, Ops, MembershipInv, RequestsInv
<1>3. ASSUME NEW r \in Requests, Guard(r) PROVE TypeOK'
    BY <1>3 DEF Guard, At, Goto, MayPass, tables, answers, races, TypeOK, Request, MemberRow,
       OrgRow, AwaitPoints, GuardedPoints, RedeemPoints, Ops, MembershipInv, RequestsInv
<1>4. ASSUME NEW r \in Requests, Quits(r) PROVE TypeOK'
    BY <1>4 DEF Quits, End, Leave, tables, answers, races, TypeOK, Request, MemberRow, OrgRow,
       AwaitPoints, GuardedPoints, RedeemPoints, Ops, MembershipInv, RequestsInv
<1>5. ASSUME NEW r \in Requests, Invite(r) PROVE TypeOK'
    BY <1>5 DEF Invite, At, End, Leave, tables, answers, races, TypeOK, Request, MemberRow,
       OrgRow, AwaitPoints, GuardedPoints, RedeemPoints, Ops, MembershipInv, RequestsInv
<1>6. ASSUME NEW r \in Requests, DeleteOrg(r) PROVE TypeOK'
    <2>0. req[r] \in Request /\ organizations[req[r].org] # None
        BY <1>6 DEF DeleteOrg, At, TypeOK, MembershipInv, RequestsInv
    <2>1. req[r].org \in Orgs /\ organizations[req[r].org] \in OrgRow
        BY <2>0 DEF TypeOK, Request
    <2>2. [organizations[req[r].org] EXCEPT !.deleted = TRUE] \in OrgRow
        BY <2>1 DEF OrgRow
    <2>3. organizations' \in [Orgs -> OrgRow \cup {None}]
        BY <1>6, <2>1, <2>2 DEF DeleteOrg, TypeOK
    <2> QED
        BY <1>6, <2>3 DEF DeleteOrg, End, answers, TypeOK
<1>7. ASSUME NEW r \in Requests, NEW m \in Members, Find(r, m) PROVE TypeOK'
    BY <1>7 DEF Find, At, RequireMember, LiveMember, tables, answers, races, TypeOK, Request,
       MemberRow, OrgRow, AwaitPoints, GuardedPoints, RedeemPoints, Ops, MembershipInv,
       RequestsInv
<1>8. ASSUME NEW r \in Requests, SetRole(r) PROVE TypeOK'
    <2>1. /\ req[r].member \in Members /\ req[r].account \in Accounts /\ req[r].org \in Orgs
          /\ orgMembers[req[r].member] \in MemberRow
        BY <1>8 DEF SetRole, At, TypeOK, Request, MembershipInv, RequestsInv, RedeemPoints
    <2>2. orgMembers' \in [Members -> MemberRow \cup {None}]
        BY <1>8, <2>1, PickedAreRoles DEF SetRole, At, TypeOK, MemberRow
    <2> QED
        BY <1>8, <2>2 DEF SetRole, At, End, LetInBy, tables, answers, races, TypeOK, Request
<1>9. ASSUME NEW r \in Requests, Remove(r) PROVE TypeOK'
    <2>1. /\ req[r].member \in Members /\ req[r].account \in Accounts /\ req[r].org \in Orgs
          /\ orgMembers[req[r].member] \in MemberRow
        BY <1>9 DEF Remove, At, TypeOK, Request, MembershipInv, RequestsInv, RedeemPoints
    <2>2. orgMembers' \in [Members -> MemberRow \cup {None}]
        BY <1>9, <2>1, PickedAreRoles DEF Remove, At, TypeOK, MemberRow
    <2> QED
        BY <1>9, <2>2 DEF Remove, At, End, LetInBy, Unassign, tables, answers, races, TypeOK,
           Request
<1>10. ASSUME NEW r \in Requests, NEW m \in Members, Reissue(r, m) PROVE TypeOK'
    BY <1>10 DEF Reissue, At, RequireMember, LiveMember, End, Leave, tables, answers, races,
       TypeOK, Request, MemberRow, OrgRow, AwaitPoints, GuardedPoints, RedeemPoints, Ops,
       MembershipInv, RequestsInv
<1>11. ASSUME NEW r \in Requests, NEW m \in Members, IssueFresh(r, m) PROVE TypeOK'
    BY <1>11 DEF IssueFresh, At, RequireMember, LiveMember, HasNoCode, tables, answers, races,
       TypeOK, Request, MemberRow, OrgRow, AwaitPoints, GuardedPoints, RedeemPoints, Ops,
       MembershipInv, RequestsInv
<1>12. ASSUME NEW r \in Requests, NEW c \in Codes, Draw(r, c) PROVE TypeOK'
    <2>0. req[r] \in Request
        BY <1>12 DEF Draw, At, TypeOK
    <2>1. [req[r] EXCEPT !.at = "save", !.code = c] \in Request
        BY <2>0 DEF Request, AwaitPoints, GuardedPoints
    <2> QED
        BY <1>12, <2>1 DEF Draw, At, tables, answers, races, TypeOK
<1>13. ASSUME NEW r \in Requests, SaveCode(r) PROVE TypeOK'
    BY <1>13 DEF SaveCode, At, End, Leave, tables, answers, races, TypeOK, Request, MemberRow,
       OrgRow, AwaitPoints, GuardedPoints, RedeemPoints, Ops, MembershipInv, RequestsInv
<1>14. ASSUME NEW r \in Requests, NEW a \in Accounts, NEW c \in Codes, Redeem(r, a, c)
      PROVE  TypeOK'
    BY <1>14 DEF Redeem, Call, FindByCode, LiveMember, Redeemable, OpenAs, tables, answers,
       races, TypeOK, Request, MemberRow, OrgRow, AwaitPoints, GuardedPoints, RedeemPoints,
       Ops, MembershipInv, RequestsInv
<1>15. ASSUME NEW r \in Requests, Confirm(r) PROVE TypeOK'
    BY <1>15 DEF Confirm, At, End, Leave, tables, answers, races, TypeOK, Request, MemberRow,
       OrgRow, AwaitPoints, GuardedPoints, RedeemPoints, Ops, MembershipInv, RequestsInv
<1>16. ASSUME NEW r \in Requests, FindOrg(r) PROVE TypeOK'
    BY <1>16 DEF FindOrg, Goto, tables, answers, races, TypeOK, Request, MemberRow, OrgRow,
       AwaitPoints, GuardedPoints, RedeemPoints, Ops, MembershipInv, RequestsInv
<1>17. ASSUME NEW r \in Requests, NotYetMember(r) PROVE TypeOK'
    BY <1>17 DEF NotYetMember, At, Goto, tables, answers, races, TypeOK, Request, MemberRow,
       OrgRow, AwaitPoints, GuardedPoints, RedeemPoints, Ops, MembershipInv, RequestsInv
<1>18. ASSUME NEW r \in Requests, Activate(r) PROVE TypeOK'
    <2>1. /\ req[r].member \in Members /\ req[r].account \in Accounts /\ req[r].org \in Orgs
          /\ orgMembers[req[r].member] \in MemberRow
        BY <1>18 DEF Activate, At, TypeOK, Request, MembershipInv, RequestsInv, RedeemPoints
    <2>2. orgMembers' \in [Members -> MemberRow \cup {None}]
        BY <1>18, <2>1, PickedAreRoles DEF Activate, At, TypeOK, MemberRow
    <2> QED
        BY <1>18, <2>2 DEF Activate, At, End, LetInBy, tables, answers, races, TypeOK, Request
<1>19. ASSUME UNCHANGED vars PROVE TypeOK'
    BY <1>19 DEF vars, tables, answers, races, TypeOK, Request, MemberRow, OrgRow,
       AwaitPoints, GuardedPoints, RedeemPoints, Ops, MembershipInv, RequestsInv
<1> QED
    BY Quitting, <1>1, <1>2, <1>3, <1>4, <1>5, <1>6, <1>7, <1>8, <1>9, <1>10, <1>11, <1>12,
       <1>13, <1>14, <1>15, <1>16, <1>17, <1>18, <1>19 DEF Next, Step

(* The row a redemption writes. *)
LEMMA ActivatedRow ==
    ASSUME TypeOK, RequestsInv, NEW r \in Requests, Activate(r)
    PROVE  /\ req[r].member \in Members /\ req[r].account \in Accounts /\ req[r].org \in Orgs
           /\ orgMembers[req[r].member] # None /\ orgMembers'[req[r].member] # None
           /\ orgMembers'[req[r].member].account = req[r].account
           /\ orgMembers'[req[r].member].active
           /\ orgMembers'[req[r].member].org = orgMembers[req[r].member].org
           /\ orgMembers'[req[r].member].role = orgMembers[req[r].member].role
           /\ orgMembers'[req[r].member].code = orgMembers[req[r].member].code
           /\ orgMembers'[req[r].member].deleted = orgMembers[req[r].member].deleted
           /\ \A n \in Members : n # req[r].member => orgMembers'[n] = orgMembers[n]
           /\ req' = [req EXCEPT ![r] = None] /\ organizations' = organizations
<1>1. /\ req[r].member \in Members /\ req[r].account \in Accounts /\ req[r].org \in Orgs
      /\ orgMembers[req[r].member] \in MemberRow
    BY DEF Activate, At, TypeOK, Request, RequestsInv, RedeemPoints
<1> DEFINE new == [orgMembers[req[r].member] EXCEPT !.account = req[r].account, !.active = TRUE]
<1>2. new \in MemberRow
    BY <1>1 DEF MemberRow
<1>3. /\ new # None /\ new.account = req[r].account /\ new.active
      /\ new.org = orgMembers[req[r].member].org /\ new.role = orgMembers[req[r].member].role
      /\ new.code = orgMembers[req[r].member].code
      /\ new.deleted = orgMembers[req[r].member].deleted
    BY <1>1, <1>2 DEF MemberRow
<1>4. orgMembers' = [orgMembers EXCEPT ![req[r].member] = new]
    BY DEF Activate
<1> HIDE DEF new
<1>5. /\ orgMembers'[req[r].member] = new
      /\ \A n \in Members : n # req[r].member => orgMembers'[n] = orgMembers[n]
    BY <1>1, <1>4 DEF TypeOK
<1>6. req' = [req EXCEPT ![r] = None] /\ organizations' = organizations
    BY DEF Activate, End
<1> QED
    BY <1>1, <1>3, <1>5, <1>6

(* The row a removal writes. *)
LEMMA RemovedRow ==
    ASSUME TypeOK, RequestsInv, NEW r \in Requests, Remove(r)
    PROVE  /\ req[r].member \in Members
           /\ orgMembers[req[r].member] # None /\ orgMembers'[req[r].member] # None
           /\ orgMembers'[req[r].member].deleted
           /\ orgMembers'[req[r].member].org = orgMembers[req[r].member].org
           /\ orgMembers'[req[r].member].account = orgMembers[req[r].member].account
           /\ orgMembers'[req[r].member].role = orgMembers[req[r].member].role
           /\ orgMembers'[req[r].member].active = orgMembers[req[r].member].active
           /\ orgMembers'[req[r].member].code = orgMembers[req[r].member].code
           /\ \A n \in Members : n # req[r].member => orgMembers'[n] = orgMembers[n]
           /\ req' = [req EXCEPT ![r] = None] /\ organizations' = organizations
<1>1. /\ req[r].member \in Members
      /\ orgMembers[req[r].member] \in MemberRow
    BY DEF Remove, At, TypeOK, Request, RequestsInv, RedeemPoints
<1> DEFINE new == [orgMembers[req[r].member] EXCEPT !.deleted = TRUE]
<1>2. new \in MemberRow
    BY <1>1 DEF MemberRow
<1>3. /\ new # None /\ new.deleted
      /\ new.org = orgMembers[req[r].member].org
      /\ new.account = orgMembers[req[r].member].account
      /\ new.role = orgMembers[req[r].member].role
      /\ new.active = orgMembers[req[r].member].active
      /\ new.code = orgMembers[req[r].member].code
    BY <1>1, <1>2 DEF MemberRow
<1>4. orgMembers' = [orgMembers EXCEPT ![req[r].member] = new]
    BY DEF Remove
<1> HIDE DEF new
<1>5. /\ orgMembers'[req[r].member] = new
      /\ \A n \in Members : n # req[r].member => orgMembers'[n] = orgMembers[n]
    BY <1>1, <1>4 DEF TypeOK
<1>6. req' = [req EXCEPT ![r] = None] /\ organizations' = organizations
    BY DEF Remove, End
<1> QED
    BY <1>1, <1>3, <1>5, <1>6

(* What else a redemption and a removal change. *)
LEMMA ActivatedHistory ==
    ASSUME NEW r \in Requests, Activate(r)
    PROVE  /\ req[r] # None /\ req[r].at = "activate"
           /\ joined' = joined \cup {<<req[r].account, req[r].member>>}
           /\ handed' = handed /\ reissued' = reissued
           /\ raced \subseteq raced' /\ doubled \subseteq doubled'
           /\ \A s \in Requests : s # r /\ RedeemedBy(s, req[r].member) => req[r].member \in raced'
           /\ \A s \in Requests :
                 /\ s # r /\ At(s, "activate") /\ req[s].member # req[r].member
                 /\ req[s].account = req[r].account /\ req[s].org = req[r].org
                 => <<req[r].account, req[r].org>> \in doubled'
           /\ shaken' = (shaken \cup LetInBy(req[r].member)) \ {r}
<1>1. /\ req[r] # None /\ req[r].at = "activate"
      /\ joined' = joined \cup {<<req[r].account, req[r].member>>}
      /\ handed' = handed /\ reissued' = reissued
      /\ shaken' = (shaken \cup LetInBy(req[r].member)) \ {r}
    BY DEF Activate, At
<1>2. raced' = IF \E s \in Requests \ {r} : RedeemedBy(s, req[r].member)
               THEN raced \cup {req[r].member} ELSE raced
    BY DEF Activate
<1>3. doubled' = IF \E s \in Requests \ {r} :
                        /\ At(s, "activate") /\ req[s].account = req[r].account
                        /\ req[s].org = req[r].org /\ req[s].member # req[r].member
                 THEN doubled \cup {<<req[r].account, req[r].org>>} ELSE doubled
    BY DEF Activate
<1> QED
    BY <1>1, <1>2, <1>3

LEMMA RemovedHistory ==
    ASSUME NEW r \in Requests, Remove(r)
    PROVE  /\ UNCHANGED <<joined, handed, raced, doubled, reissued>>
           /\ projectMembers' = projectMembers \ {req[r].member}
           /\ shaken' = (shaken \cup LetInBy(req[r].member)) \ {r}
BY DEF Remove, Unassign, answers

LEMMA SavedRow ==
    ASSUME TypeOK, RequestsInv, NEW r \in Requests, SaveCode(r)
    PROVE  /\ req[r].member \in Members
           /\ orgMembers[req[r].member] # None /\ orgMembers'[req[r].member] # None
           /\ orgMembers'[req[r].member].org = orgMembers[req[r].member].org
           /\ orgMembers'[req[r].member].account = orgMembers[req[r].member].account
           /\ orgMembers'[req[r].member].role = orgMembers[req[r].member].role
           /\ orgMembers'[req[r].member].active = orgMembers[req[r].member].active
           /\ orgMembers'[req[r].member].deleted = orgMembers[req[r].member].deleted
           /\ \A n \in Members : n # req[r].member => orgMembers'[n] = orgMembers[n]
           /\ req' = [req EXCEPT ![r] = None] /\ organizations' = organizations
<1>1. /\ req[r].member \in Members /\ req[r].code \in Codes \cup {None}
      /\ orgMembers[req[r].member] \in MemberRow
    BY DEF SaveCode, At, TypeOK, Request, RequestsInv
<1> DEFINE new == [orgMembers[req[r].member] EXCEPT !.code = req[r].code]
<1>2. new \in MemberRow
    BY <1>1 DEF MemberRow
<1>3. /\ new.org = orgMembers[req[r].member].org
      /\ new.account = orgMembers[req[r].member].account
      /\ new.role = orgMembers[req[r].member].role
      /\ new.active = orgMembers[req[r].member].active
      /\ new.deleted = orgMembers[req[r].member].deleted
    BY <1>1 DEF MemberRow
<1>4. orgMembers' = [orgMembers EXCEPT ![req[r].member] = new]
    BY DEF SaveCode
<1> HIDE DEF new
<1> QED
    BY <1>1, <1>2, <1>3, <1>4 DEF SaveCode, End, TypeOK

LEMMA RowsStep ==
    ASSUME TypeOK, MembershipInv, [Next]_vars
    PROVE  RowsInv'
<1> USE ScopedOpsAre, PickedAreRoles DEF MembershipInv
<1>1. ASSUME NEW a \in Accounts, NEW o \in Orgs, NEW m \in Members, Create(a, o, m)
      PROVE  RowsInv'
    <2>1. /\ [owner |-> a, deleted |-> FALSE] \in OrgRow
          /\ [org |-> o, account |-> a, role |-> "owner", active |-> TRUE, code |-> None,
              deleted |-> FALSE] \in MemberRow
        BY DEF OrgRow, MemberRow, Roles
    <2>2. /\ [owner |-> a, deleted |-> FALSE] # None
          /\ [org |-> o, account |-> a, role |-> "owner", active |-> TRUE, code |-> None,
              deleted |-> FALSE] # None
        BY <2>1
    <2> QED
        BY <1>1, <2>1, <2>2 DEF Create, Call, tables, answers, races, TypeOK, Request,
           MemberRow, OrgRow, GuardedPoints, RedeemPoints, RowsInv, RequestsInv
<1>2. ASSUME NEW r \in Requests, NEW op \in ScopedOps, NEW a \in Accounts, NEW o \in Orgs, Arrive(r, op, a, o)
      PROVE  RowsInv'
    BY <1>2 DEF Arrive, Call, LiveOrg, tables, answers, races, TypeOK, Request, MemberRow,
       OrgRow, GuardedPoints, RedeemPoints, RowsInv, RequestsInv
<1>3. ASSUME NEW r \in Requests, Guard(r) PROVE RowsInv'
    BY <1>3 DEF Guard, At, Goto, MayPass, tables, answers, races, TypeOK, Request, MemberRow,
       OrgRow, GuardedPoints, RedeemPoints, RowsInv, RequestsInv
<1>4. ASSUME NEW r \in Requests, Quits(r) PROVE RowsInv'
    BY <1>4 DEF Quits, End, Leave, tables, answers, races, TypeOK, Request, MemberRow, OrgRow,
       GuardedPoints, RedeemPoints, RowsInv, RequestsInv
<1>5. ASSUME NEW r \in Requests, Invite(r) PROVE RowsInv'
    BY <1>5 DEF Invite, At, End, Leave, tables, answers, races, TypeOK, Request, MemberRow,
       OrgRow, GuardedPoints, RedeemPoints, RowsInv, RequestsInv
<1>6. ASSUME NEW r \in Requests, DeleteOrg(r) PROVE RowsInv'
    <2>0. req[r] \in Request /\ organizations[req[r].org] # None
        BY <1>6 DEF DeleteOrg, At, TypeOK, MembershipInv, RequestsInv
    <2>1. req[r].org \in Orgs /\ organizations[req[r].org] \in OrgRow
        BY <2>0 DEF TypeOK, Request
    <2>2. [organizations[req[r].org] EXCEPT !.deleted = TRUE] # None
        BY <2>1 DEF OrgRow
    <2> QED
        BY <1>6, <2>1, <2>2 DEF DeleteOrg, At, End, tables, answers, races, TypeOK, Request,
           MemberRow, OrgRow, GuardedPoints, RedeemPoints, RowsInv, RequestsInv
<1>7. ASSUME NEW r \in Requests, NEW m \in Members, Find(r, m) PROVE RowsInv'
    BY <1>7 DEF Find, At, RequireMember, LiveMember, tables, answers, races, TypeOK, Request,
       MemberRow, OrgRow, GuardedPoints, RedeemPoints, RowsInv, RequestsInv
<1>8. ASSUME NEW r \in Requests, SetRole(r) PROVE RowsInv'
    BY <1>8 DEF SetRole, At, End, tables, answers, races, TypeOK, Request, MemberRow, OrgRow,
       GuardedPoints, RedeemPoints, RowsInv, RequestsInv
<1>9. ASSUME NEW r \in Requests, Remove(r) PROVE RowsInv'
    BY <1>9 DEF Remove, At, End, Unassign, tables, answers, races, TypeOK, Request, MemberRow,
       OrgRow, GuardedPoints, RedeemPoints, RowsInv, RequestsInv
<1>10. ASSUME NEW r \in Requests, NEW m \in Members, Reissue(r, m) PROVE RowsInv'
    BY <1>10 DEF Reissue, At, RequireMember, LiveMember, End, Leave, tables, answers, races,
       TypeOK, Request, MemberRow, OrgRow, GuardedPoints, RedeemPoints, RowsInv, RequestsInv
<1>11. ASSUME NEW r \in Requests, NEW m \in Members, IssueFresh(r, m) PROVE RowsInv'
    BY <1>11 DEF IssueFresh, At, RequireMember, LiveMember, HasNoCode, tables, answers, races,
       TypeOK, Request, MemberRow, OrgRow, GuardedPoints, RedeemPoints, RowsInv, RequestsInv
<1>12. ASSUME NEW r \in Requests, NEW c \in Codes, Draw(r, c) PROVE RowsInv'
    BY <1>12 DEF Draw, At, tables, answers, races, TypeOK, Request, MemberRow, OrgRow,
       GuardedPoints, RedeemPoints, RowsInv, RequestsInv
<1>13. ASSUME NEW r \in Requests, SaveCode(r) PROVE RowsInv'
    BY <1>13 DEF SaveCode, At, End, Leave, tables, answers, races, TypeOK, Request, MemberRow,
       OrgRow, GuardedPoints, RedeemPoints, RowsInv, RequestsInv
<1>14. ASSUME NEW r \in Requests, NEW a \in Accounts, NEW c \in Codes, Redeem(r, a, c)
      PROVE  RowsInv'
    BY <1>14 DEF Redeem, Call, FindByCode, LiveMember, Redeemable, OpenAs, tables, answers,
       races, TypeOK, Request, MemberRow, OrgRow, GuardedPoints, RedeemPoints, RowsInv,
       RequestsInv
<1>15. ASSUME NEW r \in Requests, Confirm(r) PROVE RowsInv'
    BY <1>15 DEF Confirm, At, End, Leave, tables, answers, races, TypeOK, Request, MemberRow,
       OrgRow, GuardedPoints, RedeemPoints, RowsInv, RequestsInv
<1>16. ASSUME NEW r \in Requests, FindOrg(r) PROVE RowsInv'
    BY <1>16 DEF FindOrg, Goto, tables, answers, races, TypeOK, Request, MemberRow, OrgRow,
       GuardedPoints, RedeemPoints, RowsInv, RequestsInv
<1>17. ASSUME NEW r \in Requests, NotYetMember(r) PROVE RowsInv'
    BY <1>17 DEF NotYetMember, At, Goto, tables, answers, races, TypeOK, Request, MemberRow,
       OrgRow, GuardedPoints, RedeemPoints, RowsInv, RequestsInv
<1>18. ASSUME NEW r \in Requests, Activate(r) PROVE RowsInv'
    BY <1>18 DEF Activate, At, End, tables, answers, races, TypeOK, Request, MemberRow,
       OrgRow, GuardedPoints, RedeemPoints, RowsInv, RequestsInv
<1>19. ASSUME UNCHANGED vars PROVE RowsInv'
    BY <1>19 DEF vars, tables, answers, races, TypeOK, Request, MemberRow, OrgRow,
       GuardedPoints, RedeemPoints, RowsInv, RequestsInv
<1> QED
    BY Quitting, <1>1, <1>2, <1>3, <1>4, <1>5, <1>6, <1>7, <1>8, <1>9, <1>10, <1>11, <1>12,
       <1>13, <1>14, <1>15, <1>16, <1>17, <1>18, <1>19 DEF Next, Step

LEMMA RequestsStep ==
    ASSUME TypeOK, MembershipInv, [Next]_vars
    PROVE  RequestsInv'
<1> USE ScopedOpsAre, PickedAreRoles DEF MembershipInv
<1>1. ASSUME NEW a \in Accounts, NEW o \in Orgs, NEW m \in Members, Create(a, o, m)
      PROVE  RequestsInv'
    <2>1. /\ [owner |-> a, deleted |-> FALSE] \in OrgRow
          /\ [org |-> o, account |-> a, role |-> "owner", active |-> TRUE, code |-> None,
              deleted |-> FALSE] \in MemberRow
        BY DEF OrgRow, MemberRow, Roles
    <2>2. /\ [owner |-> a, deleted |-> FALSE] # None
          /\ [org |-> o, account |-> a, role |-> "owner", active |-> TRUE, code |-> None,
              deleted |-> FALSE] # None
        BY <2>1
    <2> QED
        BY <1>1, <2>1, <2>2 DEF Create, Call, tables, answers, races, TypeOK, Request,
           MemberRow, OrgRow, GuardedPoints, RedeemPoints, Ops, RowsInv, RequestsInv
<1>2. ASSUME NEW r \in Requests, NEW op \in ScopedOps, NEW a \in Accounts, NEW o \in Orgs, Arrive(r, op, a, o)
      PROVE  RequestsInv'
    BY <1>2 DEF Arrive, Call, LiveOrg, tables, answers, races, TypeOK, Request, MemberRow,
       OrgRow, GuardedPoints, RedeemPoints, Ops, RowsInv, RequestsInv
<1>3. ASSUME NEW r \in Requests, Guard(r) PROVE RequestsInv'
    BY <1>3 DEF Guard, At, Goto, MayPass, tables, answers, races, TypeOK, Request, MemberRow,
       OrgRow, GuardedPoints, RedeemPoints, Ops, RowsInv, RequestsInv
<1>4. ASSUME NEW r \in Requests, Quits(r) PROVE RequestsInv'
    BY <1>4 DEF Quits, End, Leave, tables, answers, races, TypeOK, Request, MemberRow, OrgRow,
       GuardedPoints, RedeemPoints, Ops, RowsInv, RequestsInv
<1>5. ASSUME NEW r \in Requests, Invite(r) PROVE RequestsInv'
    BY <1>5 DEF Invite, At, End, Leave, tables, answers, races, TypeOK, Request, MemberRow,
       OrgRow, GuardedPoints, RedeemPoints, Ops, RowsInv, RequestsInv
<1>6. ASSUME NEW r \in Requests, DeleteOrg(r) PROVE RequestsInv'
    <2>0. req[r] \in Request /\ organizations[req[r].org] # None
        BY <1>6 DEF DeleteOrg, At, TypeOK, MembershipInv, RequestsInv
    <2>1. req[r].org \in Orgs /\ organizations[req[r].org] \in OrgRow
        BY <2>0 DEF TypeOK, Request
    <2>2. [organizations[req[r].org] EXCEPT !.deleted = TRUE] # None
        BY <2>1 DEF OrgRow
    <2> QED
        BY <1>6, <2>1, <2>2 DEF DeleteOrg, At, End, tables, answers, races, TypeOK, Request,
           MemberRow, OrgRow, GuardedPoints, RedeemPoints, Ops, RowsInv, RequestsInv
<1>7. ASSUME NEW r \in Requests, NEW m \in Members, Find(r, m) PROVE RequestsInv'
    BY <1>7 DEF Find, At, RequireMember, LiveMember, tables, answers, races, TypeOK, Request,
       MemberRow, OrgRow, GuardedPoints, RedeemPoints, Ops, RowsInv, RequestsInv
<1>8. ASSUME NEW r \in Requests, SetRole(r) PROVE RequestsInv'
    <2>1. /\ req[r].member \in Members /\ req[r].account \in Accounts
          /\ orgMembers[req[r].member] \in MemberRow
        BY <1>8 DEF SetRole, At, TypeOK, Request, RequestsInv, RedeemPoints
    <2>2. /\ orgMembers'[req[r].member] # None
          /\ orgMembers'[req[r].member].org = orgMembers[req[r].member].org
        BY <1>8, <2>1 DEF SetRole, TypeOK, MemberRow
    <2>3. \A n \in Members : n # req[r].member => orgMembers'[n] = orgMembers[n]
        BY <1>8, <2>1 DEF SetRole, TypeOK
    <2>4. req' = [req EXCEPT ![r] = None] /\ organizations' = organizations
        BY <1>8 DEF SetRole, End
    <2> QED
        BY <2>1, <2>2, <2>3, <2>4 DEF TypeOK, Request, GuardedPoints, RedeemPoints, RequestsInv
<1>9. ASSUME NEW r \in Requests, Remove(r) PROVE RequestsInv'
    BY <1>9, RemovedRow DEF TypeOK, Request, GuardedPoints, RedeemPoints, RequestsInv
<1>10. ASSUME NEW r \in Requests, NEW m \in Members, Reissue(r, m) PROVE RequestsInv'
    BY <1>10 DEF Reissue, At, RequireMember, LiveMember, End, Leave, tables, answers, races,
       TypeOK, Request, MemberRow, OrgRow, GuardedPoints, RedeemPoints, Ops, RowsInv,
       RequestsInv
<1>11. ASSUME NEW r \in Requests, NEW m \in Members, IssueFresh(r, m) PROVE RequestsInv'
    BY <1>11 DEF IssueFresh, At, RequireMember, LiveMember, HasNoCode, tables, answers, races,
       TypeOK, Request, MemberRow, OrgRow, GuardedPoints, RedeemPoints, Ops, RowsInv,
       RequestsInv
<1>12. ASSUME NEW r \in Requests, NEW c \in Codes, Draw(r, c) PROVE RequestsInv'
    BY <1>12 DEF Draw, At, tables, answers, races, TypeOK, Request, MemberRow, OrgRow,
       GuardedPoints, RedeemPoints, Ops, RowsInv, RequestsInv
<1>13. ASSUME NEW r \in Requests, SaveCode(r) PROVE RequestsInv'
    BY <1>13 DEF SaveCode, At, End, Leave, tables, answers, races, TypeOK, Request, MemberRow,
       OrgRow, GuardedPoints, RedeemPoints, Ops, RowsInv, RequestsInv
<1>14. ASSUME NEW r \in Requests, NEW a \in Accounts, NEW c \in Codes, Redeem(r, a, c)
      PROVE  RequestsInv'
    BY <1>14 DEF Redeem, Call, FindByCode, LiveMember, Redeemable, OpenAs, tables, answers,
       races, LinkInv, TypeOK, Request, MemberRow, OrgRow, GuardedPoints, RedeemPoints, Ops,
       RowsInv, RequestsInv
<1>15. ASSUME NEW r \in Requests, Confirm(r) PROVE RequestsInv'
    BY <1>15 DEF Confirm, At, End, Leave, tables, answers, races, TypeOK, Request, MemberRow,
       OrgRow, GuardedPoints, RedeemPoints, Ops, RowsInv, RequestsInv
<1>16. ASSUME NEW r \in Requests, FindOrg(r) PROVE RequestsInv'
    BY <1>16 DEF FindOrg, Goto, tables, answers, races, TypeOK, Request, MemberRow, OrgRow,
       GuardedPoints, RedeemPoints, Ops, RowsInv, RequestsInv
<1>17. ASSUME NEW r \in Requests, NotYetMember(r) PROVE RequestsInv'
    BY <1>17 DEF NotYetMember, At, Goto, tables, answers, races, TypeOK, Request, MemberRow,
       OrgRow, GuardedPoints, RedeemPoints, Ops, RowsInv, RequestsInv
<1>18. ASSUME NEW r \in Requests, Activate(r) PROVE RequestsInv'
    BY <1>18, ActivatedRow DEF TypeOK, Request, GuardedPoints, RedeemPoints, RequestsInv
<1>19. ASSUME UNCHANGED vars PROVE RequestsInv'
    BY <1>19 DEF vars, tables, answers, races, TypeOK, Request, MemberRow, OrgRow,
       GuardedPoints, RedeemPoints, Ops, RowsInv, RequestsInv
<1> QED
    BY Quitting, <1>1, <1>2, <1>3, <1>4, <1>5, <1>6, <1>7, <1>8, <1>9, <1>10, <1>11, <1>12,
       <1>13, <1>14, <1>15, <1>16, <1>17, <1>18, <1>19 DEF Next, Step

LEMMA OwnersLeftAloneStep ==
    ASSUME TypeOK, MembershipInv, OneOwner, [Next]_vars
    PROVE  OwnersLeftAlone'
<1> USE ScopedOpsAre, PickedAreRoles DEF MembershipInv
<1>1. ASSUME NEW a \in Accounts, NEW o \in Orgs, NEW m \in Members, Create(a, o, m)
      PROVE  OwnersLeftAlone'
    BY <1>1 DEF Create, Call, tables, answers, races, TypeOK, Request, MemberRow, OrgRow,
       GuardedPoints, RedeemPoints, RequestsInv, OwnersLeftAlone
<1>2. ASSUME NEW r \in Requests, NEW op \in ScopedOps, NEW a \in Accounts, NEW o \in Orgs, Arrive(r, op, a, o)
      PROVE  OwnersLeftAlone'
    BY <1>2 DEF Arrive, Call, LiveOrg, tables, answers, races, TypeOK, Request, MemberRow,
       OrgRow, GuardedPoints, RedeemPoints, RequestsInv, OwnersLeftAlone
<1>3. ASSUME NEW r \in Requests, Guard(r) PROVE OwnersLeftAlone'
    BY <1>3 DEF Guard, At, Goto, MayPass, tables, answers, races, TypeOK, Request, MemberRow,
       OrgRow, GuardedPoints, RedeemPoints, RequestsInv, OwnersLeftAlone
<1>4. ASSUME NEW r \in Requests, Quits(r) PROVE OwnersLeftAlone'
    BY <1>4 DEF Quits, End, Leave, tables, answers, races, TypeOK, Request, MemberRow, OrgRow,
       GuardedPoints, RedeemPoints, RequestsInv, OwnersLeftAlone
<1>5. ASSUME NEW r \in Requests, Invite(r) PROVE OwnersLeftAlone'
    BY <1>5 DEF Invite, At, End, Leave, tables, answers, races, TypeOK, Request, MemberRow,
       OrgRow, GuardedPoints, RedeemPoints, RequestsInv, OwnersLeftAlone
<1>6. ASSUME NEW r \in Requests, DeleteOrg(r) PROVE OwnersLeftAlone'
    BY <1>6 DEF DeleteOrg, At, End, tables, answers, races, TypeOK, Request, MemberRow,
       OrgRow, GuardedPoints, RedeemPoints, RequestsInv, OwnersLeftAlone
<1>7. ASSUME NEW r \in Requests, NEW m \in Members, Find(r, m) PROVE OwnersLeftAlone'
    BY <1>7 DEF Find, At, RequireMember, LiveMember, tables, answers, races, MayTouch, TypeOK,
       Request, MemberRow, OrgRow, GuardedPoints, RedeemPoints, RequestsInv, OwnersLeftAlone
<1>8. ASSUME NEW r \in Requests, SetRole(r) PROVE OwnersLeftAlone'
    BY <1>8 DEF SetRole, At, End, tables, answers, races, TypeOK, Request, MemberRow, OrgRow,
       GuardedPoints, RedeemPoints, RequestsInv, OwnersLeftAlone
<1>9. ASSUME NEW r \in Requests, Remove(r) PROVE OwnersLeftAlone'
    BY <1>9 DEF Remove, At, End, Unassign, tables, answers, races, TypeOK, Request, MemberRow,
       OrgRow, GuardedPoints, RedeemPoints, RequestsInv, OwnersLeftAlone
<1>10. ASSUME NEW r \in Requests, NEW m \in Members, Reissue(r, m) PROVE OwnersLeftAlone'
    BY <1>10 DEF Reissue, At, RequireMember, LiveMember, End, Leave, tables, answers, races,
       TypeOK, Request, MemberRow, OrgRow, GuardedPoints, RedeemPoints, RequestsInv,
       OwnersLeftAlone
<1>11. ASSUME NEW r \in Requests, NEW m \in Members, IssueFresh(r, m)
      PROVE  OwnersLeftAlone'
    BY <1>11 DEF IssueFresh, At, RequireMember, LiveMember, HasNoCode, tables, answers, races,
       TypeOK, Request, MemberRow, OrgRow, GuardedPoints, RedeemPoints, RequestsInv,
       OwnersLeftAlone
<1>12. ASSUME NEW r \in Requests, NEW c \in Codes, Draw(r, c) PROVE OwnersLeftAlone'
    BY <1>12 DEF Draw, At, tables, answers, races, TypeOK, Request, MemberRow, OrgRow,
       GuardedPoints, RedeemPoints, RequestsInv, OwnersLeftAlone
<1>13. ASSUME NEW r \in Requests, SaveCode(r) PROVE OwnersLeftAlone'
    BY <1>13 DEF SaveCode, At, End, Leave, tables, answers, races, TypeOK, Request, MemberRow,
       OrgRow, GuardedPoints, RedeemPoints, RequestsInv, OwnersLeftAlone
<1>14. ASSUME NEW r \in Requests, NEW a \in Accounts, NEW c \in Codes, Redeem(r, a, c)
      PROVE  OwnersLeftAlone'
    BY <1>14 DEF Redeem, Call, FindByCode, LiveMember, Redeemable, OpenAs, tables, answers,
       races, OneOwner, RowsInv, TypeOK, Request, MemberRow, OrgRow, GuardedPoints,
       RedeemPoints, RequestsInv, OwnersLeftAlone
<1>15. ASSUME NEW r \in Requests, Confirm(r) PROVE OwnersLeftAlone'
    BY <1>15 DEF Confirm, At, End, Leave, tables, answers, races, TypeOK, Request, MemberRow,
       OrgRow, GuardedPoints, RedeemPoints, RequestsInv, OwnersLeftAlone
<1>16. ASSUME NEW r \in Requests, FindOrg(r) PROVE OwnersLeftAlone'
    BY <1>16 DEF FindOrg, Goto, tables, answers, races, TypeOK, Request, MemberRow, OrgRow,
       GuardedPoints, RedeemPoints, RequestsInv, OwnersLeftAlone
<1>17. ASSUME NEW r \in Requests, NotYetMember(r) PROVE OwnersLeftAlone'
    BY <1>17 DEF NotYetMember, At, Goto, tables, answers, races, TypeOK, Request, MemberRow,
       OrgRow, GuardedPoints, RedeemPoints, RequestsInv, OwnersLeftAlone
<1>18. ASSUME NEW r \in Requests, Activate(r) PROVE OwnersLeftAlone'
    BY <1>18 DEF Activate, At, End, tables, answers, races, TypeOK, Request, MemberRow,
       OrgRow, GuardedPoints, RedeemPoints, RequestsInv, OwnersLeftAlone
<1>19. ASSUME UNCHANGED vars PROVE OwnersLeftAlone'
    BY <1>19 DEF vars, tables, answers, races, TypeOK, Request, MemberRow, OrgRow,
       GuardedPoints, RedeemPoints, RequestsInv, OwnersLeftAlone
<1> QED
    BY Quitting, <1>1, <1>2, <1>3, <1>4, <1>5, <1>6, <1>7, <1>8, <1>9, <1>10, <1>11, <1>12,
       <1>13, <1>14, <1>15, <1>16, <1>17, <1>18, <1>19 DEF Next, Step

LEMMA OneOwnerStep ==
    ASSUME TypeOK, MembershipInv, OneOwner, [Next]_vars
    PROVE  OneOwner'
<1> USE ScopedOpsAre, PickedAreRoles DEF MembershipInv
<1>1. ASSUME NEW a \in Accounts, NEW o \in Orgs, NEW m \in Members, Create(a, o, m)
      PROVE  OneOwner'
    <2>1. /\ [owner |-> a, deleted |-> FALSE] \in OrgRow
          /\ [org |-> o, account |-> a, role |-> "owner", active |-> TRUE, code |-> None,
              deleted |-> FALSE] \in MemberRow
        BY DEF OrgRow, MemberRow, Roles
    <2>2. /\ [owner |-> a, deleted |-> FALSE] # None
          /\ [org |-> o, account |-> a, role |-> "owner", active |-> TRUE, code |-> None,
              deleted |-> FALSE] # None
        BY <2>1
    <2> QED
        BY <1>1, <2>1, <2>2 DEF Create, Call, tables, answers, races, TypeOK, Request,
           MemberRow, OrgRow, GuardedPoints, RedeemPoints, RowsInv, RequestsInv,
           OwnersLeftAlone, OneOwner
<1>2. ASSUME NEW r \in Requests, NEW op \in ScopedOps, NEW a \in Accounts, NEW o \in Orgs, Arrive(r, op, a, o)
      PROVE  OneOwner'
    BY <1>2 DEF Arrive, Call, LiveOrg, tables, answers, races, TypeOK, Request, MemberRow,
       OrgRow, GuardedPoints, RedeemPoints, RowsInv, RequestsInv, OwnersLeftAlone, OneOwner
<1>3. ASSUME NEW r \in Requests, Guard(r) PROVE OneOwner'
    BY <1>3 DEF Guard, At, Goto, MayPass, tables, answers, races, TypeOK, Request, MemberRow,
       OrgRow, GuardedPoints, RedeemPoints, RowsInv, RequestsInv, OwnersLeftAlone, OneOwner
<1>4. ASSUME NEW r \in Requests, Quits(r) PROVE OneOwner'
    BY <1>4 DEF Quits, End, Leave, tables, answers, races, TypeOK, Request, MemberRow, OrgRow,
       GuardedPoints, RedeemPoints, RowsInv, RequestsInv, OwnersLeftAlone, OneOwner
<1>5. ASSUME NEW r \in Requests, Invite(r) PROVE OneOwner'
    BY <1>5 DEF Invite, At, End, Leave, tables, answers, races, TypeOK, Request, MemberRow,
       OrgRow, GuardedPoints, RedeemPoints, RowsInv, RequestsInv, OwnersLeftAlone, OneOwner
<1>6. ASSUME NEW r \in Requests, DeleteOrg(r) PROVE OneOwner'
    BY <1>6 DEF DeleteOrg, At, End, tables, answers, races, TypeOK, Request, MemberRow,
       OrgRow, GuardedPoints, RedeemPoints, RowsInv, RequestsInv, OwnersLeftAlone, OneOwner
<1>7. ASSUME NEW r \in Requests, NEW m \in Members, Find(r, m) PROVE OneOwner'
    BY <1>7 DEF Find, At, RequireMember, LiveMember, tables, answers, races, TypeOK, Request,
       MemberRow, OrgRow, GuardedPoints, RedeemPoints, RowsInv, RequestsInv, OwnersLeftAlone,
       OneOwner
<1>8. ASSUME NEW r \in Requests, SetRole(r) PROVE OneOwner'
    BY <1>8 DEF SetRole, At, End, tables, answers, races, TypeOK, Request, MemberRow, OrgRow,
       GuardedPoints, RedeemPoints, RowsInv, RequestsInv, OwnersLeftAlone, OneOwner
<1>9. ASSUME NEW r \in Requests, Remove(r) PROVE OneOwner'
    BY <1>9 DEF Remove, At, End, Unassign, tables, answers, races, TypeOK, Request, MemberRow,
       OrgRow, GuardedPoints, RedeemPoints, RowsInv, RequestsInv, OwnersLeftAlone, OneOwner
<1>10. ASSUME NEW r \in Requests, NEW m \in Members, Reissue(r, m) PROVE OneOwner'
    BY <1>10 DEF Reissue, At, RequireMember, LiveMember, End, Leave, tables, answers, races,
       TypeOK, Request, MemberRow, OrgRow, GuardedPoints, RedeemPoints, RowsInv, RequestsInv,
       OwnersLeftAlone, OneOwner
<1>11. ASSUME NEW r \in Requests, NEW m \in Members, IssueFresh(r, m) PROVE OneOwner'
    BY <1>11 DEF IssueFresh, At, RequireMember, LiveMember, HasNoCode, tables, answers, races,
       TypeOK, Request, MemberRow, OrgRow, GuardedPoints, RedeemPoints, RowsInv, RequestsInv,
       OwnersLeftAlone, OneOwner
<1>12. ASSUME NEW r \in Requests, NEW c \in Codes, Draw(r, c) PROVE OneOwner'
    BY <1>12 DEF Draw, At, tables, answers, races, TypeOK, Request, MemberRow, OrgRow,
       GuardedPoints, RedeemPoints, RowsInv, RequestsInv, OwnersLeftAlone, OneOwner
<1>13. ASSUME NEW r \in Requests, SaveCode(r) PROVE OneOwner'
    BY <1>13 DEF SaveCode, At, End, Leave, tables, answers, races, TypeOK, Request, MemberRow,
       OrgRow, GuardedPoints, RedeemPoints, RowsInv, RequestsInv, OwnersLeftAlone, OneOwner
<1>14. ASSUME NEW r \in Requests, NEW a \in Accounts, NEW c \in Codes, Redeem(r, a, c)
      PROVE  OneOwner'
    BY <1>14 DEF Redeem, Call, FindByCode, LiveMember, Redeemable, OpenAs, tables, answers,
       races, TypeOK, Request, MemberRow, OrgRow, GuardedPoints, RedeemPoints, RowsInv,
       RequestsInv, OwnersLeftAlone, OneOwner
<1>15. ASSUME NEW r \in Requests, Confirm(r) PROVE OneOwner'
    BY <1>15 DEF Confirm, At, End, Leave, tables, answers, races, TypeOK, Request, MemberRow,
       OrgRow, GuardedPoints, RedeemPoints, RowsInv, RequestsInv, OwnersLeftAlone, OneOwner
<1>16. ASSUME NEW r \in Requests, FindOrg(r) PROVE OneOwner'
    BY <1>16 DEF FindOrg, Goto, tables, answers, races, TypeOK, Request, MemberRow, OrgRow,
       GuardedPoints, RedeemPoints, RowsInv, RequestsInv, OwnersLeftAlone, OneOwner
<1>17. ASSUME NEW r \in Requests, NotYetMember(r) PROVE OneOwner'
    BY <1>17 DEF NotYetMember, At, Goto, tables, answers, races, TypeOK, Request, MemberRow,
       OrgRow, GuardedPoints, RedeemPoints, RowsInv, RequestsInv, OwnersLeftAlone, OneOwner
<1>18. ASSUME NEW r \in Requests, Activate(r) PROVE OneOwner'
    <2>1. orgMembers[req[r].member].role # "owner"
        BY <1>18, ActivatedHistory DEF OwnersLeftAlone, RequestsInv, RedeemPoints
    <2>2. /\ \A n \in Members : n # req[r].member => orgMembers'[n] = orgMembers[n]
          /\ orgMembers'[req[r].member] # None /\ req[r].member \in Members
          /\ orgMembers[req[r].member] # None
          /\ orgMembers'[req[r].member].role = orgMembers[req[r].member].role
          /\ organizations' = organizations
        BY <1>18, ActivatedRow
    <2> QED
        BY <2>1, <2>2 DEF OneOwner
<1>19. ASSUME UNCHANGED vars PROVE OneOwner'
    BY <1>19 DEF vars, tables, answers, races, TypeOK, Request, MemberRow, OrgRow,
       GuardedPoints, RedeemPoints, RowsInv, RequestsInv, OwnersLeftAlone, OneOwner
<1> QED
    BY Quitting, <1>1, <1>2, <1>3, <1>4, <1>5, <1>6, <1>7, <1>8, <1>9, <1>10, <1>11, <1>12,
       <1>13, <1>14, <1>15, <1>16, <1>17, <1>18, <1>19 DEF Next, Step

LEMMA LinkStep ==
    ASSUME TypeOK, MembershipInv, JoinedIsLinked, [Next]_vars
    PROVE  (LinkInv /\ JoinedIsLinked)'
<1> USE ScopedOpsAre, PickedAreRoles DEF MembershipInv
<1>1. ASSUME NEW a \in Accounts, NEW o \in Orgs, NEW m \in Members, Create(a, o, m)
      PROVE  (LinkInv /\ JoinedIsLinked)'
    BY <1>1 DEF Create, Call, tables, answers, races, TypeOK, Request, MemberRow, OrgRow,
       GuardedPoints, RedeemPoints, RowsInv, RequestsInv, LinkInv, JoinedIsLinked, RedeemedBy,
       At
<1>2. ASSUME NEW r \in Requests, NEW op \in ScopedOps, NEW a \in Accounts, NEW o \in Orgs, Arrive(r, op, a, o)
      PROVE  (LinkInv /\ JoinedIsLinked)'
    BY <1>2 DEF Arrive, Call, LiveOrg, tables, answers, races, TypeOK, Request, MemberRow,
       OrgRow, GuardedPoints, RedeemPoints, RowsInv, RequestsInv, LinkInv, JoinedIsLinked,
       RedeemedBy, At
<1>3. ASSUME NEW r \in Requests, Guard(r) PROVE (LinkInv /\ JoinedIsLinked)'
    BY <1>3 DEF Guard, At, Goto, MayPass, tables, answers, races, TypeOK, Request, MemberRow,
       OrgRow, GuardedPoints, RedeemPoints, RowsInv, RequestsInv, LinkInv, JoinedIsLinked,
       RedeemedBy
<1>4. ASSUME NEW r \in Requests, Quits(r) PROVE (LinkInv /\ JoinedIsLinked)'
    BY <1>4 DEF Quits, End, Leave, tables, answers, races, TypeOK, Request, MemberRow, OrgRow,
       GuardedPoints, RedeemPoints, RowsInv, RequestsInv, LinkInv, JoinedIsLinked, RedeemedBy,
       At
<1>5. ASSUME NEW r \in Requests, Invite(r) PROVE (LinkInv /\ JoinedIsLinked)'
    BY <1>5 DEF Invite, At, End, Leave, tables, answers, races, TypeOK, Request, MemberRow,
       OrgRow, GuardedPoints, RedeemPoints, RowsInv, RequestsInv, LinkInv, JoinedIsLinked,
       RedeemedBy
<1>6. ASSUME NEW r \in Requests, DeleteOrg(r) PROVE (LinkInv /\ JoinedIsLinked)'
    BY <1>6 DEF DeleteOrg, At, End, tables, answers, races, TypeOK, Request, MemberRow,
       OrgRow, GuardedPoints, RedeemPoints, RowsInv, RequestsInv, LinkInv, JoinedIsLinked,
       RedeemedBy
<1>7. ASSUME NEW r \in Requests, NEW m \in Members, Find(r, m)
      PROVE  (LinkInv /\ JoinedIsLinked)'
    BY <1>7 DEF Find, At, RequireMember, LiveMember, tables, answers, races, TypeOK, Request,
       MemberRow, OrgRow, GuardedPoints, RedeemPoints, RowsInv, RequestsInv, LinkInv,
       JoinedIsLinked, RedeemedBy
<1>8. ASSUME NEW r \in Requests, SetRole(r) PROVE (LinkInv /\ JoinedIsLinked)'
    BY <1>8 DEF SetRole, At, End, tables, answers, races, TypeOK, Request, MemberRow, OrgRow,
       GuardedPoints, RedeemPoints, RowsInv, RequestsInv, LinkInv, JoinedIsLinked, RedeemedBy
<1>9. ASSUME NEW r \in Requests, Remove(r) PROVE (LinkInv /\ JoinedIsLinked)'
    BY <1>9, RemovedRow, RemovedHistory DEF TypeOK, Request, GuardedPoints, RedeemPoints,
       RequestsInv, LinkInv, JoinedIsLinked, RedeemedBy
<1>10. ASSUME NEW r \in Requests, NEW m \in Members, Reissue(r, m)
      PROVE  (LinkInv /\ JoinedIsLinked)'
    BY <1>10 DEF Reissue, At, RequireMember, LiveMember, End, Leave, tables, answers, races,
       TypeOK, Request, MemberRow, OrgRow, GuardedPoints, RedeemPoints, RowsInv, RequestsInv,
       LinkInv, JoinedIsLinked, RedeemedBy
<1>11. ASSUME NEW r \in Requests, NEW m \in Members, IssueFresh(r, m)
      PROVE  (LinkInv /\ JoinedIsLinked)'
    BY <1>11 DEF IssueFresh, At, RequireMember, LiveMember, HasNoCode, tables, answers, races,
       TypeOK, Request, MemberRow, OrgRow, GuardedPoints, RedeemPoints, RowsInv, RequestsInv,
       LinkInv, JoinedIsLinked, RedeemedBy
<1>12. ASSUME NEW r \in Requests, NEW c \in Codes, Draw(r, c)
      PROVE  (LinkInv /\ JoinedIsLinked)'
    BY <1>12 DEF Draw, At, tables, answers, races, TypeOK, Request, MemberRow, OrgRow,
       GuardedPoints, RedeemPoints, RowsInv, RequestsInv, LinkInv, JoinedIsLinked, RedeemedBy
<1>13. ASSUME NEW r \in Requests, SaveCode(r) PROVE (LinkInv /\ JoinedIsLinked)'
    <2>1. \A n \in Members : orgMembers[n] # None =>
            /\ orgMembers'[n] # None /\ orgMembers'[n].account = orgMembers[n].account
            /\ orgMembers'[n].active = orgMembers[n].active
        BY <1>13, SavedRow
    <2>2. joined' = joined /\ raced' = raced
        BY <1>13 DEF SaveCode
    <2>3. ASSUME NEW s \in Requests, req'[s] # None PROVE req'[s] = req[s] /\ req[s] \in Request
        BY <1>13, <2>3, SavedRow DEF TypeOK
    <2>4. LinkInv'
        BY <2>1, <2>2, <2>3 DEF LinkInv, RequestsInv, RedeemPoints, TypeOK, Request
    <2> QED
        BY <2>1, <2>2, <2>4 DEF LinkInv, JoinedIsLinked, TypeOK
<1>14. ASSUME NEW r \in Requests, NEW a \in Accounts, NEW c \in Codes, Redeem(r, a, c)
      PROVE  (LinkInv /\ JoinedIsLinked)'
    BY <1>14 DEF Redeem, Call, FindByCode, LiveMember, Redeemable, OpenAs, tables, answers,
       races, TypeOK, Request, MemberRow, OrgRow, GuardedPoints, RedeemPoints, RowsInv,
       RequestsInv, LinkInv, JoinedIsLinked, RedeemedBy, At
<1>15. ASSUME NEW r \in Requests, Confirm(r) PROVE (LinkInv /\ JoinedIsLinked)'
    BY <1>15 DEF Confirm, At, End, Leave, tables, answers, races, TypeOK, Request, MemberRow,
       OrgRow, GuardedPoints, RedeemPoints, RowsInv, RequestsInv, LinkInv, JoinedIsLinked,
       RedeemedBy
<1>16. ASSUME NEW r \in Requests, FindOrg(r) PROVE (LinkInv /\ JoinedIsLinked)'
    BY <1>16 DEF FindOrg, Goto, tables, answers, races, TypeOK, Request, MemberRow, OrgRow,
       GuardedPoints, RedeemPoints, RowsInv, RequestsInv, LinkInv, JoinedIsLinked, RedeemedBy,
       At
<1>17. ASSUME NEW r \in Requests, NotYetMember(r) PROVE (LinkInv /\ JoinedIsLinked)'
    BY <1>17 DEF NotYetMember, At, Goto, tables, answers, races, TypeOK, Request, MemberRow,
       OrgRow, GuardedPoints, RedeemPoints, RowsInv, RequestsInv, LinkInv, JoinedIsLinked,
       RedeemedBy
<1>18. ASSUME NEW r \in Requests, Activate(r) PROVE (LinkInv /\ JoinedIsLinked)'
    <2>1. ASSUME NEW s \in Requests, req'[s] # None
          PROVE  s # r /\ req'[s] = req[s] /\ req[s] \in Request
        BY <1>18, <2>1, ActivatedRow DEF TypeOK
    <2>0. /\ joined' = joined \cup {<<req[r].account, req[r].member>>}
          /\ raced \subseteq raced'
        BY <1>18, ActivatedHistory
    <2>2. ASSUME NEW j \in joined'
          PROVE  \/ j \in joined
                 \/ j[1] = req[r].account /\ j[2] = req[r].member
        BY <2>0, <2>2
    <2>3. ASSUME NEW s \in Requests, req'[s] # None, req[s].at \in RedeemPoints,
                 req[s].member \notin raced'
          PROVE  /\ req[s].member \in Members /\ req[s].member \notin raced
                 /\ orgMembers'[req[s].member] = orgMembers[req[s].member]
        <3>1. req[s] # None /\ s # r /\ req[s].member \in Members /\ req[s].op = "redeem"
            BY <2>1, <2>3 DEF Request, RequestsInv, RedeemPoints
        <3>2. req[s].member # req[r].member
            BY <1>18, <2>3, <3>1, ActivatedHistory DEF RedeemedBy
        <3> QED
            BY <1>18, <2>0, <2>3, <3>1, <3>2, ActivatedRow
    <2>4. ASSUME NEW j \in joined PROVE orgMembers'[j[2]] # None
        BY <1>18, <2>4, ActivatedRow DEF LinkInv, TypeOK
    <2>5. LinkInv'
        BY <1>18, <2>1, <2>2, <2>3, <2>4, ActivatedRow DEF LinkInv, RedeemPoints
    <2>6. req[r].member \notin raced => orgMembers[req[r].member].account = None
        BY <1>18, ActivatedHistory DEF LinkInv
    <2>7. ASSUME NEW j \in joined, j[2] \notin raced'
          PROVE  orgMembers'[j[2]].account = j[1] /\ orgMembers'[j[2]].active
        <3>1. j[1] \in Accounts /\ j[2] \in Members /\ j[2] \notin raced
            BY <1>18, <2>7, ActivatedHistory DEF TypeOK
        <3>2. orgMembers[j[2]].account = j[1] /\ orgMembers[j[2]].active
            BY <3>1 DEF JoinedIsLinked
        <3> QED
            BY <1>18, <2>6, <3>1, <3>2, ActivatedRow
    <2>8. JoinedIsLinked'
        BY <1>18, <2>2, <2>7, ActivatedRow DEF JoinedIsLinked
    <2> QED
        BY <2>5, <2>8
<1>19. ASSUME UNCHANGED vars PROVE (LinkInv /\ JoinedIsLinked)'
    BY <1>19 DEF vars, tables, answers, races, TypeOK, Request, MemberRow, OrgRow,
       GuardedPoints, RedeemPoints, RowsInv, RequestsInv, LinkInv, JoinedIsLinked, RedeemedBy,
       At
<1> QED
    BY Quitting, <1>1, <1>2, <1>3, <1>4, <1>5, <1>6, <1>7, <1>8, <1>9, <1>10, <1>11, <1>12,
       <1>13, <1>14, <1>15, <1>16, <1>17, <1>18, <1>19 DEF Next, Step

LEMMA CheckedStep ==
    ASSUME TypeOK, MembershipInv, OneMembership, [Next]_vars
    PROVE  (CheckedInv /\ OneMembership)'
<1> USE ScopedOpsAre, PickedAreRoles DEF MembershipInv
<1>1. ASSUME NEW a \in Accounts, NEW o \in Orgs, NEW m \in Members, Create(a, o, m)
      PROVE  (CheckedInv /\ OneMembership)'
    BY <1>1 DEF Create, Call, tables, answers, races, TypeOK, Request, MemberRow, OrgRow,
       GuardedPoints, RedeemPoints, RowsInv, RequestsInv, CheckedInv, OneMembership,
       MembershipIn, LiveMember, At
<1>2. ASSUME NEW r \in Requests, NEW op \in ScopedOps, NEW a \in Accounts, NEW o \in Orgs, Arrive(r, op, a, o)
      PROVE  (CheckedInv /\ OneMembership)'
    BY <1>2 DEF Arrive, Call, LiveOrg, tables, answers, races, TypeOK, Request, MemberRow,
       OrgRow, GuardedPoints, RedeemPoints, RowsInv, RequestsInv, CheckedInv, OneMembership,
       MembershipIn, LiveMember, At
<1>3. ASSUME NEW r \in Requests, Guard(r) PROVE (CheckedInv /\ OneMembership)'
    BY <1>3 DEF Guard, At, Goto, MayPass, tables, answers, races, TypeOK, Request, MemberRow,
       OrgRow, GuardedPoints, RedeemPoints, RowsInv, RequestsInv, CheckedInv, OneMembership,
       MembershipIn, LiveMember
<1>4. ASSUME NEW r \in Requests, Quits(r) PROVE (CheckedInv /\ OneMembership)'
    BY <1>4 DEF Quits, End, Leave, tables, answers, races, TypeOK, Request, MemberRow, OrgRow,
       GuardedPoints, RedeemPoints, RowsInv, RequestsInv, CheckedInv, OneMembership,
       MembershipIn, LiveMember, At
<1>5. ASSUME NEW r \in Requests, Invite(r) PROVE (CheckedInv /\ OneMembership)'
    BY <1>5 DEF Invite, At, End, Leave, tables, answers, races, TypeOK, Request, MemberRow,
       OrgRow, GuardedPoints, RedeemPoints, RowsInv, RequestsInv, CheckedInv, OneMembership,
       MembershipIn, LiveMember
<1>6. ASSUME NEW r \in Requests, DeleteOrg(r) PROVE (CheckedInv /\ OneMembership)'
    BY <1>6 DEF DeleteOrg, At, End, tables, answers, races, TypeOK, Request, MemberRow,
       OrgRow, GuardedPoints, RedeemPoints, RowsInv, RequestsInv, CheckedInv, OneMembership,
       MembershipIn, LiveMember
<1>7. ASSUME NEW r \in Requests, NEW m \in Members, Find(r, m)
      PROVE  (CheckedInv /\ OneMembership)'
    BY <1>7 DEF Find, At, RequireMember, LiveMember, tables, answers, races, TypeOK, Request,
       MemberRow, OrgRow, GuardedPoints, RedeemPoints, RowsInv, RequestsInv, CheckedInv,
       OneMembership, MembershipIn
<1>8. ASSUME NEW r \in Requests, SetRole(r) PROVE (CheckedInv /\ OneMembership)'
    BY <1>8 DEF SetRole, At, End, tables, answers, races, TypeOK, Request, MemberRow, OrgRow,
       GuardedPoints, RedeemPoints, RowsInv, RequestsInv, CheckedInv, OneMembership,
       MembershipIn, LiveMember
<1>9. ASSUME NEW r \in Requests, Remove(r) PROVE (CheckedInv /\ OneMembership)'
    <2>1. ASSUME NEW n \in Members, NEW a \in Accounts, NEW o \in Orgs, MembershipIn(n, a, o)'
          PROVE  MembershipIn(n, a, o)
        BY <1>9, <2>1, RemovedRow DEF MembershipIn, LiveMember
    <2>2. UNCHANGED doubled /\ req' = [req EXCEPT ![r] = None]
        BY <1>9, RemovedRow, RemovedHistory
    <2>3. ASSUME NEW s \in Requests, NEW n \in Members,
                 At(s, "activate")', n # req'[s].member,
                 MembershipIn(n, req[s].account, req[s].org)'
          PROVE  (<<req[s].account, req[s].org>> \in doubled)'
        <3>1. /\ req'[s] = req[s] /\ At(s, "activate")
              /\ req[s].account \in Accounts /\ req[s].org \in Orgs
            BY <2>2, <2>3 DEF At, Request, TypeOK
        <3>2. PICK a \in Accounts, o \in Orgs : a = req[s].account /\ o = req[s].org
            BY <3>1
        <3>3. MembershipIn(n, a, o)'
            BY <2>3, <3>1, <3>2 DEF MembershipIn, LiveMember
        <3> QED
            BY <2>1, <2>2, <2>3, <3>1, <3>2, <3>3 DEF CheckedInv
    <2>4. CheckedInv'
        BY <2>3 DEF CheckedInv
    <2>5. OneMembership'
        BY <2>1, <2>2 DEF OneMembership
    <2> QED
        BY <2>4, <2>5
<1>10. ASSUME NEW r \in Requests, NEW m \in Members, Reissue(r, m)
      PROVE  (CheckedInv /\ OneMembership)'
    BY <1>10 DEF Reissue, At, RequireMember, LiveMember, End, Leave, tables, answers, races,
       TypeOK, Request, MemberRow, OrgRow, GuardedPoints, RedeemPoints, RowsInv, RequestsInv,
       CheckedInv, OneMembership, MembershipIn
<1>11. ASSUME NEW r \in Requests, NEW m \in Members, IssueFresh(r, m)
      PROVE  (CheckedInv /\ OneMembership)'
    BY <1>11 DEF IssueFresh, At, RequireMember, LiveMember, HasNoCode, tables, answers, races,
       TypeOK, Request, MemberRow, OrgRow, GuardedPoints, RedeemPoints, RowsInv, RequestsInv,
       CheckedInv, OneMembership, MembershipIn
<1>12. ASSUME NEW r \in Requests, NEW c \in Codes, Draw(r, c)
      PROVE  (CheckedInv /\ OneMembership)'
    BY <1>12 DEF Draw, At, tables, answers, races, TypeOK, Request, MemberRow, OrgRow,
       GuardedPoints, RedeemPoints, RowsInv, RequestsInv, CheckedInv, OneMembership,
       MembershipIn, LiveMember
<1>13. ASSUME NEW r \in Requests, SaveCode(r) PROVE (CheckedInv /\ OneMembership)'
    <2>1. \A n \in Members : /\ orgMembers[n] # None <=> orgMembers'[n] # None
                             /\ orgMembers[n] # None => /\ orgMembers'[n].org = orgMembers[n].org
                                                        /\ orgMembers'[n].account = orgMembers[n].account
                                                        /\ orgMembers'[n].deleted = orgMembers[n].deleted
        BY <1>13, SavedRow
    <2>2. ASSUME NEW n \in Members, NEW a, NEW o, MembershipIn(n, a, o)'
          PROVE  MembershipIn(n, a, o)
        BY <2>1, <2>2 DEF MembershipIn, LiveMember
    <2>3. doubled' = doubled
        BY <1>13 DEF SaveCode
    <2>4. ASSUME NEW s \in Requests, req'[s] # None PROVE req'[s] = req[s]
        BY <1>13, <2>4, SavedRow DEF TypeOK
    <2>5. CheckedInv'
        BY <2>2, <2>3, <2>4 DEF CheckedInv, At
    <2> QED
        BY <2>2, <2>3, <2>5 DEF OneMembership
<1>14. ASSUME NEW r \in Requests, NEW a \in Accounts, NEW c \in Codes, Redeem(r, a, c)
      PROVE  (CheckedInv /\ OneMembership)'
    BY <1>14 DEF Redeem, Call, FindByCode, LiveMember, Redeemable, OpenAs, tables, answers,
       races, TypeOK, Request, MemberRow, OrgRow, GuardedPoints, RedeemPoints, RowsInv,
       RequestsInv, CheckedInv, OneMembership, MembershipIn, At
<1>15. ASSUME NEW r \in Requests, Confirm(r) PROVE (CheckedInv /\ OneMembership)'
    BY <1>15 DEF Confirm, At, End, Leave, tables, answers, races, TypeOK, Request, MemberRow,
       OrgRow, GuardedPoints, RedeemPoints, RowsInv, RequestsInv, CheckedInv, OneMembership,
       MembershipIn, LiveMember
<1>16. ASSUME NEW r \in Requests, FindOrg(r) PROVE (CheckedInv /\ OneMembership)'
    BY <1>16 DEF FindOrg, Goto, tables, answers, races, TypeOK, Request, MemberRow, OrgRow,
       GuardedPoints, RedeemPoints, RowsInv, RequestsInv, CheckedInv, OneMembership,
       MembershipIn, LiveMember, At
<1>17. ASSUME NEW r \in Requests, NotYetMember(r) PROVE (CheckedInv /\ OneMembership)'
    BY <1>17 DEF NotYetMember, At, Goto, tables, answers, races, Existing, TypeOK, Request,
       MemberRow, OrgRow, GuardedPoints, RedeemPoints, RowsInv, RequestsInv, CheckedInv,
       OneMembership, MembershipIn, LiveMember
<1>18. ASSUME NEW r \in Requests, Activate(r) PROVE (CheckedInv /\ OneMembership)'
    <2>1. ASSUME NEW s \in Requests, req'[s] # None
          PROVE  s # r /\ req'[s] = req[s] /\ req[s] \in Request
        BY <1>18, <2>1, ActivatedRow DEF TypeOK
    <2>2. ASSUME NEW n \in Members, NEW a \in Accounts, NEW o \in Orgs, MembershipIn(n, a, o)'
          PROVE  \/ n # req[r].member /\ MembershipIn(n, a, o)
                 \/ n = req[r].member /\ a = req[r].account /\ o = req[r].org
        <3>1. CASE n # req[r].member
            <4>1. orgMembers'[n] = orgMembers[n]
                BY <1>18, <3>1, ActivatedRow
            <4> QED
                BY <2>2, <3>1, <4>1 DEF MembershipIn, LiveMember
        <3>2. CASE n = req[r].member
            <4>1. /\ orgMembers'[n].account = req[r].account
                  /\ orgMembers'[n].org = orgMembers[n].org
                BY <1>18, <3>2, ActivatedRow
            <4>2. orgMembers[n].org = req[r].org
                BY <1>18, <3>2, ActivatedHistory DEF RequestsInv, RedeemPoints
            <4> QED
                BY <2>2, <3>2, <4>1, <4>2 DEF MembershipIn
        <3> QED
            BY <3>1, <3>2
    <2>3. ASSUME NEW s \in Requests, NEW n \in Members,
                 At(s, "activate")', n # req'[s].member,
                 MembershipIn(n, req[s].account, req[s].org)'
          PROVE  (<<req[s].account, req[s].org>> \in doubled)'
        <3>1. req'[s] # None /\ req[s] = req'[s] /\ s # r
              /\ req[s].account \in Accounts /\ req[s].org \in Orgs /\ At(s, "activate")
            BY <2>1, <2>3 DEF At, Request
        <3>2. PICK a \in Accounts, o \in Orgs : a = req[s].account /\ o = req[s].org
            BY <3>1
        <3>3. MembershipIn(n, a, o)'
            BY <2>3, <3>1, <3>2 DEF MembershipIn, LiveMember
        <3>4. CASE n # req[r].member /\ MembershipIn(n, a, o)
            <4>1. <<a, o>> \in doubled
                BY <2>3, <3>1, <3>2, <3>4 DEF CheckedInv
            <4> QED
                BY <1>18, <3>1, <3>2, <4>1, ActivatedHistory
        <3>5. CASE n = req[r].member /\ a = req[r].account /\ o = req[r].org
            BY <1>18, <2>3, <3>1, <3>2, <3>5, ActivatedHistory
        <3> QED
            BY <2>2, <3>3, <3>4, <3>5
    <2>4. ASSUME NEW m \in Members, NEW n \in Members, NEW a \in Accounts, NEW o \in Orgs,
                 MembershipIn(m, a, o)', MembershipIn(n, a, o)', m # n
          PROVE  <<a, o>> \in doubled'
        <3>1. CASE MembershipIn(m, a, o) /\ MembershipIn(n, a, o)
            BY <1>18, <2>4, <3>1, ActivatedHistory DEF OneMembership
        <3>2. ASSUME NEW k \in Members, k # req[r].member,
                     MembershipIn(k, req[r].account, req[r].org)
              PROVE  <<req[r].account, req[r].org>> \in doubled'
            BY <1>18, <3>2, ActivatedHistory DEF CheckedInv, At
        <3> QED
            BY <2>2, <2>4, <3>1, <3>2
    <2>5. CheckedInv'
        BY <2>3 DEF CheckedInv
    <2>6. OneMembership'
        BY <2>4 DEF OneMembership
    <2> QED
        BY <2>5, <2>6
<1>19. ASSUME UNCHANGED vars PROVE (CheckedInv /\ OneMembership)'
    BY <1>19 DEF vars, tables, answers, races, TypeOK, Request, MemberRow, OrgRow,
       GuardedPoints, RedeemPoints, RowsInv, RequestsInv, CheckedInv, OneMembership,
       MembershipIn, LiveMember, At
<1> QED
    BY Quitting, <1>1, <1>2, <1>3, <1>4, <1>5, <1>6, <1>7, <1>8, <1>9, <1>10, <1>11, <1>12,
       <1>13, <1>14, <1>15, <1>16, <1>17, <1>18, <1>19 DEF Next, Step

LEMMA CodesStep ==
    ASSUME TypeOK, MembershipInv, HandedOpens, [Next]_vars
    PROVE  (CodesInv /\ HandedOpens)'
<1> USE ScopedOpsAre, PickedAreRoles DEF MembershipInv
<1>1. ASSUME NEW a \in Accounts, NEW o \in Orgs, NEW m \in Members, Create(a, o, m)
      PROVE  (CodesInv /\ HandedOpens)'
    BY <1>1 DEF Create, Call, tables, answers, races, TypeOK, Request, MemberRow, OrgRow,
       GuardedPoints, RedeemPoints, RowsInv, RequestsInv, CodesInv, HandedOpens, At
<1>2. ASSUME NEW r \in Requests, NEW op \in ScopedOps, NEW a \in Accounts, NEW o \in Orgs, Arrive(r, op, a, o)
      PROVE  (CodesInv /\ HandedOpens)'
    BY <1>2 DEF Arrive, Call, LiveOrg, tables, answers, races, TypeOK, Request, MemberRow,
       OrgRow, GuardedPoints, RedeemPoints, RowsInv, RequestsInv, CodesInv, HandedOpens, At
<1>3. ASSUME NEW r \in Requests, Guard(r) PROVE (CodesInv /\ HandedOpens)'
    BY <1>3 DEF Guard, At, Goto, MayPass, tables, answers, races, TypeOK, Request, MemberRow,
       OrgRow, GuardedPoints, RedeemPoints, RowsInv, RequestsInv, CodesInv, HandedOpens
<1>4. ASSUME NEW r \in Requests, Quits(r) PROVE (CodesInv /\ HandedOpens)'
    BY <1>4 DEF Quits, End, Leave, tables, answers, races, TypeOK, Request, MemberRow, OrgRow,
       GuardedPoints, RedeemPoints, RowsInv, RequestsInv, CodesInv, HandedOpens, At
<1>5. ASSUME NEW r \in Requests, Invite(r) PROVE (CodesInv /\ HandedOpens)'
    BY <1>5 DEF Invite, At, End, Leave, tables, answers, races, TypeOK, Request, MemberRow,
       OrgRow, GuardedPoints, RedeemPoints, RowsInv, RequestsInv, CodesInv, HandedOpens
<1>6. ASSUME NEW r \in Requests, DeleteOrg(r) PROVE (CodesInv /\ HandedOpens)'
    BY <1>6 DEF DeleteOrg, At, End, tables, answers, races, TypeOK, Request, MemberRow,
       OrgRow, GuardedPoints, RedeemPoints, RowsInv, RequestsInv, CodesInv, HandedOpens
<1>7. ASSUME NEW r \in Requests, NEW m \in Members, Find(r, m)
      PROVE  (CodesInv /\ HandedOpens)'
    BY <1>7 DEF Find, At, RequireMember, LiveMember, tables, answers, races, TypeOK, Request,
       MemberRow, OrgRow, GuardedPoints, RedeemPoints, RowsInv, RequestsInv, CodesInv,
       HandedOpens
<1>8. ASSUME NEW r \in Requests, SetRole(r) PROVE (CodesInv /\ HandedOpens)'
    BY <1>8 DEF SetRole, At, End, tables, answers, races, TypeOK, Request, MemberRow, OrgRow,
       GuardedPoints, RedeemPoints, RowsInv, RequestsInv, CodesInv, HandedOpens
<1>9. ASSUME NEW r \in Requests, Remove(r) PROVE (CodesInv /\ HandedOpens)'
    BY <1>9, RemovedRow, RemovedHistory DEF TypeOK, Request, GuardedPoints, RedeemPoints,
       RequestsInv, CodesInv, HandedOpens
<1>10. ASSUME NEW r \in Requests, NEW m \in Members, Reissue(r, m)
      PROVE  (CodesInv /\ HandedOpens)'
    BY <1>10 DEF Reissue, At, RequireMember, LiveMember, End, Leave, tables, answers, races,
       TypeOK, Request, MemberRow, OrgRow, GuardedPoints, RedeemPoints, RowsInv, RequestsInv,
       CodesInv, HandedOpens
<1>11. ASSUME NEW r \in Requests, NEW m \in Members, IssueFresh(r, m)
      PROVE  (CodesInv /\ HandedOpens)'
    BY <1>11 DEF IssueFresh, At, RequireMember, LiveMember, HasNoCode, tables, answers, races,
       TypeOK, Request, MemberRow, OrgRow, GuardedPoints, RedeemPoints, RowsInv, RequestsInv,
       CodesInv, HandedOpens
<1>12. ASSUME NEW r \in Requests, NEW c \in Codes, Draw(r, c)
      PROVE  (CodesInv /\ HandedOpens)'
    BY <1>12 DEF Draw, At, tables, answers, races, TypeOK, Request, MemberRow, OrgRow,
       GuardedPoints, RedeemPoints, RowsInv, RequestsInv, CodesInv, HandedOpens
<1>13. ASSUME NEW r \in Requests, SaveCode(r) PROVE (CodesInv /\ HandedOpens)'
    BY <1>13 DEF SaveCode, At, End, Leave, tables, answers, races, TypeOK, Request, MemberRow,
       OrgRow, GuardedPoints, RedeemPoints, RowsInv, RequestsInv, CodesInv, HandedOpens
<1>14. ASSUME NEW r \in Requests, NEW a \in Accounts, NEW c \in Codes, Redeem(r, a, c)
      PROVE  (CodesInv /\ HandedOpens)'
    BY <1>14 DEF Redeem, Call, FindByCode, LiveMember, Redeemable, OpenAs, tables, answers,
       races, TypeOK, Request, MemberRow, OrgRow, GuardedPoints, RedeemPoints, RowsInv,
       RequestsInv, CodesInv, HandedOpens, At
<1>15. ASSUME NEW r \in Requests, Confirm(r) PROVE (CodesInv /\ HandedOpens)'
    BY <1>15 DEF Confirm, At, End, Leave, tables, answers, races, TypeOK, Request, MemberRow,
       OrgRow, GuardedPoints, RedeemPoints, RowsInv, RequestsInv, CodesInv, HandedOpens
<1>16. ASSUME NEW r \in Requests, FindOrg(r) PROVE (CodesInv /\ HandedOpens)'
    BY <1>16 DEF FindOrg, Goto, tables, answers, races, TypeOK, Request, MemberRow, OrgRow,
       GuardedPoints, RedeemPoints, RowsInv, RequestsInv, CodesInv, HandedOpens, At
<1>17. ASSUME NEW r \in Requests, NotYetMember(r) PROVE (CodesInv /\ HandedOpens)'
    BY <1>17 DEF NotYetMember, At, Goto, tables, answers, races, TypeOK, Request, MemberRow,
       OrgRow, GuardedPoints, RedeemPoints, RowsInv, RequestsInv, CodesInv, HandedOpens
<1>18. ASSUME NEW r \in Requests, Activate(r) PROVE (CodesInv /\ HandedOpens)'
    <2>1. ASSUME NEW s \in Requests, req'[s] # None
          PROVE  s # r /\ req'[s] = req[s] /\ req[s] \in Request
        BY <1>18, <2>1, ActivatedRow DEF TypeOK
    <2>2. \A n \in Members : /\ orgMembers[n] # None => orgMembers'[n] # None
                             /\ orgMembers[n] # None => orgMembers'[n].code = orgMembers[n].code
        BY <1>18, ActivatedRow
    <2>3. \A h \in handed : h[1] \in Members
        BY DEF TypeOK
    <2>4. ASSUME NEW s \in Requests, req'[s] # None, req[s].at \in {"draw", "save"}
          PROVE  req[s].member \in Members /\ orgMembers[req[s].member] # None
        BY <2>1, <2>4 DEF Request, RequestsInv
    <2>5. handed' = handed /\ reissued' = reissued
        BY <1>18, ActivatedHistory
    <2>6. CodesInv'
        BY <2>1, <2>2, <2>3, <2>4, <2>5 DEF CodesInv
    <2>7. HandedOpens'
        BY <2>2, <2>3, <2>5 DEF CodesInv, HandedOpens
    <2> QED
        BY <2>6, <2>7
<1>19. ASSUME UNCHANGED vars PROVE (CodesInv /\ HandedOpens)'
    BY <1>19 DEF vars, tables, answers, races, TypeOK, Request, MemberRow, OrgRow,
       GuardedPoints, RedeemPoints, RowsInv, RequestsInv, CodesInv, HandedOpens, At
<1> QED
    BY Quitting, <1>1, <1>2, <1>3, <1>4, <1>5, <1>6, <1>7, <1>8, <1>9, <1>10, <1>11, <1>12,
       <1>13, <1>14, <1>15, <1>16, <1>17, <1>18, <1>19 DEF Next, Step

(* The rows let in and reached whom they did before. *)
SameStanding(n) ==
    orgMembers[n] # None =>
        /\ orgMembers'[n] # None
        /\ orgMembers'[n].org = orgMembers[n].org
        /\ orgMembers'[n].account = orgMembers[n].account
        /\ orgMembers'[n].role = orgMembers[n].role
        /\ orgMembers'[n].deleted = orgMembers[n].deleted

(* A request that is past a guard was so before, for the same caller and call;
   it may have found its row meanwhile. *)
GoesOn(s) ==
    /\ req[s] # None
    /\ req'[s].org = req[s].org /\ req'[s].account = req[s].account /\ req'[s].op = req[s].op
    /\ IF req'[s].at = "membership" THEN req[s].at = "membership" ELSE req[s].at \in GuardedPoints
    /\ \/ req'[s].member = None
       \/ req'[s].member = req[s].member
       \/ /\ req'[s].member \in Members
          /\ orgMembers[req'[s].member] # None
          /\ orgMembers[req'[s].member].org = req[s].org

LEMMA StaysAuthorised ==
    ASSUME TypeOK, RequestsInv, ArrivedInv, Authorised,
           organizations' = organizations,
           \A n \in Members : SameStanding(n),
           \A s \in Requests : req'[s] # None /\ s \in shaken => s \in shaken',
           \A s \in Requests :
               req'[s] # None /\ req'[s].at \in {"membership"} \cup GuardedPoints => GoesOn(s)
    PROVE  (ArrivedInv /\ Authorised)'
<1>1. ArrivedInv'
    <2> SUFFICES ASSUME NEW s \in Requests, req'[s] # None, req'[s].at = "membership",
                        s \notin shaken'
                 PROVE  LiveOrg(req[s].org)'
        BY DEF ArrivedInv, At
    <2>1. s \notin shaken /\ GoesOn(s)
        OBVIOUS
    <2> QED
        BY <2>1 DEF GoesOn, ArrivedInv, At, LiveOrg
<1>2. Authorised'
    <2> SUFFICES ASSUME NEW s \in Requests, req'[s] # None, req'[s].at \in GuardedPoints
                 PROVE  (/\ req[s].member # None => orgMembers[req[s].member].org = req[s].org
                         /\ s \notin shaken =>
                              /\ LiveOrg(req[s].org)
                              /\ \E n \in Members :
                                    /\ MembershipIn(n, req[s].account, req[s].org)
                                    /\ Can(orgMembers[n].role, Required[req[s].op]))'
        BY DEF Authorised
    <2>1. GoesOn(s) /\ req'[s].at # "membership"
        BY DEF GuardedPoints
    <2>2. /\ req[s] \in Request /\ req[s].at \in GuardedPoints
          /\ req[s].member # None => /\ req[s].member \in Members
                                     /\ orgMembers[req[s].member] # None
        BY <2>1 DEF GoesOn, TypeOK, Request, RequestsInv, GuardedPoints
    <2>3. req'[s].member # None => orgMembers'[req'[s].member].org = req'[s].org
        BY <2>1, <2>2 DEF GoesOn, Authorised, SameStanding
    <2>4. ASSUME s \notin shaken'
          PROVE  (/\ LiveOrg(req[s].org)
                  /\ \E n \in Members : /\ MembershipIn(n, req[s].account, req[s].org)
                                        /\ Can(orgMembers[n].role, Required[req[s].op]))'
        <3>1. s \notin shaken /\ req[s] # None
            BY <2>1, <2>4 DEF GoesOn
        <3>2. LiveOrg(req[s].org)
            BY <2>2, <3>1 DEF Authorised
        <3>3. PICK n \in Members : /\ MembershipIn(n, req[s].account, req[s].org)
                                   /\ Can(orgMembers[n].role, Required[req[s].op])
            BY <2>2, <3>1 DEF Authorised
        <3>4. SameStanding(n) /\ orgMembers[n] # None
            BY <3>3 DEF MembershipIn, LiveMember
        <3>5. MembershipIn(n, req[s].account, req[s].org)' /\ orgMembers'[n].role = orgMembers[n].role
            BY <2>1, <3>3, <3>4 DEF GoesOn, SameStanding, MembershipIn, LiveMember
        <3> QED
            BY <2>1, <3>2, <3>3, <3>5 DEF GoesOn, LiveOrg
    <2> QED
        BY <2>3, <2>4
<1> QED
    BY <1>1, <1>2

(* A request writes the row m, and whom m let in is noted as shaken. *)
LEMMA WriterLeavesAuthorised ==
    ASSUME TypeOK, RequestsInv, ArrivedInv, Authorised,
           NEW r \in Requests, NEW m \in Members,
           organizations' = organizations,
           orgMembers'[m].org = orgMembers[m].org,
           \A n \in Members : n # m => orgMembers'[n] = orgMembers[n],
           req' = [req EXCEPT ![r] = None],
           shaken' = (shaken \cup LetInBy(m)) \ {r}
    PROVE  (ArrivedInv /\ Authorised)'
<1>1. ASSUME NEW s \in Requests, req'[s] # None
      PROVE  /\ s # r /\ req'[s] = req[s] /\ req[s] \in Request /\ req[s] # None
             /\ s \notin shaken' => s \notin shaken /\ s \notin LetInBy(m)
    BY <1>1 DEF TypeOK
<1>2. ArrivedInv'
    BY <1>1 DEF ArrivedInv, At, LiveOrg
<1>3. Authorised'
    <2> SUFFICES ASSUME NEW s \in Requests, req'[s] # None, req'[s].at \in GuardedPoints
                 PROVE  (/\ req[s].member # None => orgMembers[req[s].member].org = req[s].org
                         /\ s \notin shaken =>
                              /\ LiveOrg(req[s].org)
                              /\ \E n \in Members :
                                    /\ MembershipIn(n, req[s].account, req[s].org)
                                    /\ Can(orgMembers[n].role, Required[req[s].op]))'
        BY DEF Authorised
    <2>1. req'[s] = req[s] /\ req[s].member \in Members \cup {None} /\ req[s].at \in GuardedPoints
        BY <1>1 DEF Request
    <2>2. req'[s].member # None => orgMembers'[req'[s].member].org = req'[s].org
        BY <1>1, <2>1 DEF Authorised
    <2>3. ASSUME s \notin shaken'
          PROVE  (/\ LiveOrg(req[s].org)
                  /\ \E n \in Members : /\ MembershipIn(n, req[s].account, req[s].org)
                                        /\ Can(orgMembers[n].role, Required[req[s].op]))'
        <3>1. s \notin shaken /\ s \notin LetInBy(m) /\ req[s] # None
            BY <1>1, <2>3
        <3>2. LiveOrg(req[s].org)
            BY <2>1, <3>1 DEF Authorised
        <3>3. PICK n \in Members : /\ MembershipIn(n, req[s].account, req[s].org)
                                   /\ Can(orgMembers[n].role, Required[req[s].op])
            BY <2>1, <3>1 DEF Authorised
        <3>4. n # m
            BY <2>1, <3>1, <3>3 DEF LetInBy, MembershipIn
        <3>5. orgMembers'[n] = orgMembers[n]
            BY <3>4
        <3>6. MembershipIn(n, req[s].account, req[s].org)'
            BY <2>1, <3>3, <3>5 DEF MembershipIn, LiveMember
        <3> QED
            BY <2>1, <3>2, <3>3, <3>5, <3>6 DEF LiveOrg
    <2> QED
        BY <2>2, <2>3
<1> QED
    BY <1>2, <1>3

LEMMA AuthorisedStep ==
    ASSUME TypeOK, MembershipInv, Authorised, [Next]_vars
    PROVE  (ArrivedInv /\ Authorised)'
<1> USE ScopedOpsAre, PickedAreRoles DEF MembershipInv
<1>1. ASSUME NEW a \in Accounts, NEW o \in Orgs, NEW m \in Members, Create(a, o, m)
      PROVE  (ArrivedInv /\ Authorised)'
    BY <1>1 DEF Create, Call, tables, answers, races, TypeOK, Request, MemberRow, OrgRow,
       GuardedPoints, RedeemPoints, RowsInv, RequestsInv, ArrivedInv, Authorised, LiveOrg,
       MembershipIn, LiveMember, LetInBy, At
<1>2. ASSUME NEW r \in Requests, NEW op \in ScopedOps, NEW a \in Accounts, NEW o \in Orgs, Arrive(r, op, a, o)
      PROVE  (ArrivedInv /\ Authorised)'
    BY <1>2 DEF Arrive, Call, LiveOrg, tables, answers, races, TypeOK, Request, MemberRow,
       OrgRow, GuardedPoints, RedeemPoints, RowsInv, RequestsInv, ArrivedInv, Authorised,
       MembershipIn, LiveMember, LetInBy, At
<1>3. ASSUME NEW r \in Requests, Guard(r) PROVE (ArrivedInv /\ Authorised)'
    <2>1. /\ organizations' = organizations /\ orgMembers' = orgMembers /\ shaken' = shaken
          /\ req[r] # None /\ req[r] \in Request /\ req[r].at = "membership"
          /\ req' = [req EXCEPT ![r].at = "service"]
        BY <1>3 DEF Guard, At, Goto, tables, races, TypeOK
    <2>2. PICK m \in Members : MayPass(m, req[r])
        BY <1>3 DEF Guard
    <2>3. /\ req'[r].member = None /\ req'[r].org = req[r].org
          /\ req'[r].account = req[r].account /\ req'[r].op = req[r].op
          /\ \A s \in Requests : s # r => req'[s] = req[s]
        BY <2>1 DEF TypeOK, Request, RequestsInv
    <2>4. ArrivedInv'
        BY <2>1, <2>3 DEF ArrivedInv, At, LiveOrg, TypeOK, Request
    <2>5. r \notin shaken => LiveOrg(req[r].org)
        BY <2>1 DEF ArrivedInv, At
    <2>6. MembershipIn(m, req[r].account, req[r].org) /\ Can(orgMembers[m].role, Required[req[r].op])
        BY <2>2 DEF MayPass
    <2>7. Authorised'
        BY <2>1, <2>3, <2>5, <2>6 DEF Authorised, LiveOrg, MembershipIn, LiveMember
    <2> QED
        BY <2>4, <2>7
<1>4. ASSUME NEW r \in Requests, Quits(r) PROVE (ArrivedInv /\ Authorised)'
    BY <1>4, StaysAuthorised DEF Quits, End, Leave, tables, SameStanding, GoesOn, TypeOK
<1>5. ASSUME NEW r \in Requests, Invite(r) PROVE (ArrivedInv /\ Authorised)'
    <2>1. \A n \in Members : SameStanding(n)
        BY <1>5 DEF Invite, SameStanding, TypeOK
    <2> QED
        BY <1>5, <2>1, StaysAuthorised DEF Invite, End, Leave, GoesOn, TypeOK
<1>6. ASSUME NEW r \in Requests, DeleteOrg(r) PROVE (ArrivedInv /\ Authorised)'
    BY <1>6 DEF DeleteOrg, At, End, tables, answers, races, TypeOK, Request, MemberRow,
       OrgRow, GuardedPoints, RedeemPoints, RowsInv, RequestsInv, ArrivedInv, Authorised,
       LiveOrg, MembershipIn, LiveMember, LetInBy
<1>7. ASSUME NEW r \in Requests, NEW m \in Members, Find(r, m)
      PROVE  (ArrivedInv /\ Authorised)'
    <2>1. \A n \in Members : SameStanding(n)
        BY <1>7 DEF Find, tables, SameStanding
    <2>2. \A s \in Requests :
            req'[s] # None /\ req'[s].at \in {"membership"} \cup GuardedPoints => GoesOn(s)
        BY <1>7 DEF Find, At, RequireMember, LiveMember, GuardedPoints, GoesOn, TypeOK, Request
    <2> QED
        BY <1>7, <2>1, <2>2, StaysAuthorised DEF Find, tables, races
<1>8. ASSUME NEW r \in Requests, SetRole(r) PROVE (ArrivedInv /\ Authorised)'
    <2>1. req[r].member \in Members /\ orgMembers[req[r].member] \in MemberRow
        BY <1>8 DEF SetRole, At, TypeOK, Request, RequestsInv
    <2>2. /\ orgMembers'[req[r].member].org = orgMembers[req[r].member].org
          /\ \A n \in Members : n # req[r].member => orgMembers'[n] = orgMembers[n]
        BY <1>8, <2>1 DEF SetRole, TypeOK, MemberRow
    <2> QED
        BY <1>8, <2>1, <2>2, WriterLeavesAuthorised DEF SetRole, End
<1>9. ASSUME NEW r \in Requests, Remove(r) PROVE (ArrivedInv /\ Authorised)'
    <2>1. /\ req[r].member \in Members /\ organizations' = organizations
          /\ orgMembers'[req[r].member].org = orgMembers[req[r].member].org
          /\ \A n \in Members : n # req[r].member => orgMembers'[n] = orgMembers[n]
          /\ req' = [req EXCEPT ![r] = None]
        BY <1>9, RemovedRow
    <2>2. shaken' = (shaken \cup LetInBy(req[r].member)) \ {r}
        BY <1>9, RemovedHistory
    <2> QED
        BY <2>1, <2>2, WriterLeavesAuthorised
<1>10. ASSUME NEW r \in Requests, NEW m \in Members, Reissue(r, m)
      PROVE  (ArrivedInv /\ Authorised)'
    BY <1>10, StaysAuthorised DEF Reissue, End, Leave, tables, SameStanding, GoesOn, TypeOK
<1>11. ASSUME NEW r \in Requests, NEW m \in Members, IssueFresh(r, m)
      PROVE  (ArrivedInv /\ Authorised)'
    <2>1. \A n \in Members : SameStanding(n)
        BY <1>11 DEF IssueFresh, tables, SameStanding
    <2>2. \A s \in Requests :
            req'[s] # None /\ req'[s].at \in {"membership"} \cup GuardedPoints => GoesOn(s)
        BY <1>11 DEF IssueFresh, At, RequireMember, LiveMember, GuardedPoints, GoesOn, TypeOK, Request
    <2> QED
        BY <1>11, <2>1, <2>2, StaysAuthorised DEF IssueFresh, tables, races
<1>12. ASSUME NEW r \in Requests, NEW c \in Codes, Draw(r, c)
      PROVE  (ArrivedInv /\ Authorised)'
    <2>1. \A n \in Members : SameStanding(n)
        BY <1>12 DEF Draw, tables, SameStanding
    <2>2. \A s \in Requests :
            req'[s] # None /\ req'[s].at \in {"membership"} \cup GuardedPoints => GoesOn(s)
        BY <1>12 DEF Draw, At, GuardedPoints, GoesOn, TypeOK, Request
    <2> QED
        BY <1>12, <2>1, <2>2, StaysAuthorised DEF Draw, tables, races
<1>13. ASSUME NEW r \in Requests, SaveCode(r) PROVE (ArrivedInv /\ Authorised)'
    <2>1. \A n \in Members : SameStanding(n)
        BY <1>13, SavedRow DEF SameStanding
    <2> QED
        BY <1>13, <2>1, StaysAuthorised DEF SaveCode, End, Leave, GoesOn, TypeOK
<1>14. ASSUME NEW r \in Requests, NEW a \in Accounts, NEW c \in Codes, Redeem(r, a, c)
      PROVE  (ArrivedInv /\ Authorised)'
    <2>1. \A n \in Members : SameStanding(n)
        BY <1>14 DEF Redeem, tables, SameStanding
    <2>2. \A s \in Requests :
            req'[s] # None /\ req'[s].at \in {"membership"} \cup GuardedPoints => GoesOn(s)
        BY <1>14 DEF Redeem, OpenAs, GuardedPoints, GoesOn, TypeOK
    <2> QED
        BY <1>14, <2>1, <2>2, StaysAuthorised DEF Redeem, tables, races
<1>15. ASSUME NEW r \in Requests, Confirm(r) PROVE (ArrivedInv /\ Authorised)'
    BY <1>15, StaysAuthorised DEF Confirm, End, Leave, tables, SameStanding, GoesOn, TypeOK
<1>16. ASSUME NEW r \in Requests, FindOrg(r) PROVE (ArrivedInv /\ Authorised)'
    BY <1>16, StaysAuthorised DEF FindOrg, Goto, GuardedPoints, tables, races, SameStanding,
       GoesOn, TypeOK, Request
<1>17. ASSUME NEW r \in Requests, NotYetMember(r) PROVE (ArrivedInv /\ Authorised)'
    BY <1>17, StaysAuthorised DEF NotYetMember, Goto, GuardedPoints, tables, races,
       SameStanding, GoesOn, TypeOK, Request
<1>18. ASSUME NEW r \in Requests, Activate(r) PROVE (ArrivedInv /\ Authorised)'
    <2>1. /\ req[r].member \in Members /\ organizations' = organizations
          /\ orgMembers'[req[r].member].org = orgMembers[req[r].member].org
          /\ \A n \in Members : n # req[r].member => orgMembers'[n] = orgMembers[n]
          /\ req' = [req EXCEPT ![r] = None]
        BY <1>18, ActivatedRow
    <2>2. shaken' = (shaken \cup LetInBy(req[r].member)) \ {r}
        BY <1>18, ActivatedHistory
    <2> QED
        BY <2>1, <2>2, WriterLeavesAuthorised
<1>19. ASSUME UNCHANGED vars PROVE (ArrivedInv /\ Authorised)'
    BY <1>19, StaysAuthorised DEF vars, tables, races, SameStanding, GoesOn, TypeOK
<1> QED
    BY Quitting, <1>1, <1>2, <1>3, <1>4, <1>5, <1>6, <1>7, <1>8, <1>9, <1>10, <1>11, <1>12,
       <1>13, <1>14, <1>15, <1>16, <1>17, <1>18, <1>19 DEF Next, Step

LEMMA AssignmentsStep ==
    ASSUME TypeOK, MembershipInv, AssignmentsAreLive, [Next]_vars
    PROVE  AssignmentsAreLive'
<1> USE ScopedOpsAre, PickedAreRoles DEF MembershipInv
<1>1. ASSUME NEW a \in Accounts, NEW o \in Orgs, NEW m \in Members, Create(a, o, m)
      PROVE  AssignmentsAreLive'
    BY <1>1 DEF Create, Call, tables, answers, races, TypeOK, Request, MemberRow, OrgRow,
       GuardedPoints, RedeemPoints, RequestsInv, AssignmentsAreLive, LiveMember
<1>2. ASSUME NEW r \in Requests, NEW op \in ScopedOps, NEW a \in Accounts, NEW o \in Orgs, Arrive(r, op, a, o)
      PROVE  AssignmentsAreLive'
    BY <1>2 DEF Arrive, Call, LiveOrg, tables, answers, races, TypeOK, Request, MemberRow,
       OrgRow, GuardedPoints, RedeemPoints, RequestsInv, AssignmentsAreLive, LiveMember
<1>3. ASSUME NEW r \in Requests, Guard(r) PROVE AssignmentsAreLive'
    BY <1>3 DEF Guard, At, Goto, MayPass, tables, answers, races, TypeOK, Request, MemberRow,
       OrgRow, GuardedPoints, RedeemPoints, RequestsInv, AssignmentsAreLive, LiveMember
<1>4. ASSUME NEW r \in Requests, Quits(r) PROVE AssignmentsAreLive'
    BY <1>4 DEF Quits, End, Leave, tables, answers, races, TypeOK, Request, MemberRow, OrgRow,
       GuardedPoints, RedeemPoints, RequestsInv, AssignmentsAreLive, LiveMember
<1>5. ASSUME NEW r \in Requests, Invite(r) PROVE AssignmentsAreLive'
    <2>1. PICK m \in Members, role \in PickedRoles, projects \in BOOLEAN :
            /\ orgMembers' = [orgMembers EXCEPT ![m] =
                 [org |-> req[r].org, account |-> None, role |-> role, active |-> FALSE,
                  code |-> None, deleted |-> FALSE]]
            /\ projectMembers' = IF projects THEN projectMembers \cup {m} ELSE projectMembers
        BY <1>5 DEF Invite
    <2>2. [org |-> req[r].org, account |-> None, role |-> role, active |-> FALSE,
           code |-> None, deleted |-> FALSE] \in MemberRow
        BY <1>5 DEF Invite, At, TypeOK, Request, MemberRow
    <2>3. orgMembers'[m] \in MemberRow /\ ~ orgMembers'[m].deleted
        BY <2>1, <2>2 DEF TypeOK
    <2>4. \A n \in Members : n # m => orgMembers'[n] = orgMembers[n]
        BY <2>1 DEF TypeOK
    <2>5. projectMembers' \subseteq projectMembers \cup {m}
        BY <2>1
    <2> QED
        BY <2>3, <2>4, <2>5 DEF AssignmentsAreLive, LiveMember, TypeOK
<1>6. ASSUME NEW r \in Requests, DeleteOrg(r) PROVE AssignmentsAreLive'
    BY <1>6 DEF DeleteOrg, At, End, tables, answers, races, TypeOK, Request, MemberRow,
       OrgRow, GuardedPoints, RedeemPoints, RequestsInv, AssignmentsAreLive, LiveMember
<1>7. ASSUME NEW r \in Requests, NEW m \in Members, Find(r, m) PROVE AssignmentsAreLive'
    BY <1>7 DEF Find, At, RequireMember, LiveMember, tables, answers, races, TypeOK, Request,
       MemberRow, OrgRow, GuardedPoints, RedeemPoints, RequestsInv, AssignmentsAreLive
<1>8. ASSUME NEW r \in Requests, SetRole(r) PROVE AssignmentsAreLive'
    BY <1>8 DEF SetRole, At, End, tables, answers, races, TypeOK, Request, MemberRow, OrgRow,
       GuardedPoints, RedeemPoints, RequestsInv, AssignmentsAreLive, LiveMember
<1>9. ASSUME NEW r \in Requests, Remove(r) PROVE AssignmentsAreLive'
    BY <1>9 DEF Remove, At, End, Unassign, tables, answers, races, TypeOK, Request, MemberRow,
       OrgRow, GuardedPoints, RedeemPoints, RequestsInv, AssignmentsAreLive, LiveMember
<1>10. ASSUME NEW r \in Requests, NEW m \in Members, Reissue(r, m)
      PROVE  AssignmentsAreLive'
    BY <1>10 DEF Reissue, At, RequireMember, LiveMember, End, Leave, tables, answers, races,
       TypeOK, Request, MemberRow, OrgRow, GuardedPoints, RedeemPoints, RequestsInv,
       AssignmentsAreLive
<1>11. ASSUME NEW r \in Requests, NEW m \in Members, IssueFresh(r, m)
      PROVE  AssignmentsAreLive'
    BY <1>11 DEF IssueFresh, At, RequireMember, LiveMember, HasNoCode, tables, answers, races,
       TypeOK, Request, MemberRow, OrgRow, GuardedPoints, RedeemPoints, RequestsInv,
       AssignmentsAreLive
<1>12. ASSUME NEW r \in Requests, NEW c \in Codes, Draw(r, c) PROVE AssignmentsAreLive'
    BY <1>12 DEF Draw, At, tables, answers, races, TypeOK, Request, MemberRow, OrgRow,
       GuardedPoints, RedeemPoints, RequestsInv, AssignmentsAreLive, LiveMember
<1>13. ASSUME NEW r \in Requests, SaveCode(r) PROVE AssignmentsAreLive'
    BY <1>13 DEF SaveCode, At, End, Leave, tables, answers, races, TypeOK, Request, MemberRow,
       OrgRow, GuardedPoints, RedeemPoints, RequestsInv, AssignmentsAreLive, LiveMember
<1>14. ASSUME NEW r \in Requests, NEW a \in Accounts, NEW c \in Codes, Redeem(r, a, c)
      PROVE  AssignmentsAreLive'
    BY <1>14 DEF Redeem, Call, FindByCode, LiveMember, Redeemable, OpenAs, tables, answers,
       races, TypeOK, Request, MemberRow, OrgRow, GuardedPoints, RedeemPoints, RequestsInv,
       AssignmentsAreLive
<1>15. ASSUME NEW r \in Requests, Confirm(r) PROVE AssignmentsAreLive'
    BY <1>15 DEF Confirm, At, End, Leave, tables, answers, races, TypeOK, Request, MemberRow,
       OrgRow, GuardedPoints, RedeemPoints, RequestsInv, AssignmentsAreLive, LiveMember
<1>16. ASSUME NEW r \in Requests, FindOrg(r) PROVE AssignmentsAreLive'
    BY <1>16 DEF FindOrg, Goto, tables, answers, races, TypeOK, Request, MemberRow, OrgRow,
       GuardedPoints, RedeemPoints, RequestsInv, AssignmentsAreLive, LiveMember
<1>17. ASSUME NEW r \in Requests, NotYetMember(r) PROVE AssignmentsAreLive'
    BY <1>17 DEF NotYetMember, At, Goto, tables, answers, races, TypeOK, Request, MemberRow,
       OrgRow, GuardedPoints, RedeemPoints, RequestsInv, AssignmentsAreLive, LiveMember
<1>18. ASSUME NEW r \in Requests, Activate(r) PROVE AssignmentsAreLive'
    <2>1. projectMembers' = projectMembers
        BY <1>18 DEF Activate
    <2>2. /\ \A n \in Members : n # req[r].member => orgMembers'[n] = orgMembers[n]
          /\ orgMembers'[req[r].member] # None
          /\ orgMembers'[req[r].member].deleted = orgMembers[req[r].member].deleted
        BY <1>18, ActivatedRow
    <2> QED
        BY <2>1, <2>2 DEF AssignmentsAreLive, LiveMember, TypeOK
<1>19. ASSUME UNCHANGED vars PROVE AssignmentsAreLive'
    BY <1>19 DEF vars, tables, answers, races, TypeOK, Request, MemberRow, OrgRow,
       GuardedPoints, RedeemPoints, RequestsInv, AssignmentsAreLive, LiveMember
<1> QED
    BY Quitting, <1>1, <1>2, <1>3, <1>4, <1>5, <1>6, <1>7, <1>8, <1>9, <1>10, <1>11, <1>12,
       <1>13, <1>14, <1>15, <1>16, <1>17, <1>18, <1>19 DEF Next, Step

(* The invariant every theorem rests on. *)
IndInv ==
    /\ TypeOK /\ MembershipInv
    /\ OneOwner /\ JoinedIsLinked /\ OneMembership /\ HandedOpens
    /\ Authorised /\ AssignmentsAreLive

LEMMA InvInit == Init => IndInv
<1> SUFFICES ASSUME Init PROVE IndInv
    OBVIOUS
<1>1. TypeOK
    BY DEF Init, TypeOK
<1>2. MembershipInv
    BY DEF Init, MembershipInv, RowsInv, RequestsInv, OwnersLeftAlone, LinkInv, CheckedInv,
           CodesInv, ArrivedInv, At
<1>3. OneOwner /\ JoinedIsLinked /\ HandedOpens /\ AssignmentsAreLive
    BY DEF Init, OneOwner, JoinedIsLinked, HandedOpens, AssignmentsAreLive
<1>4. OneMembership /\ Authorised
    BY DEF Init, OneMembership, Authorised, MembershipIn, LiveMember
<1> QED
    BY <1>1, <1>2, <1>3, <1>4 DEF IndInv

LEMMA InvStep == IndInv /\ [Next]_vars => IndInv'
<1> SUFFICES ASSUME IndInv, [Next]_vars PROVE IndInv'
    OBVIOUS
<1>1. /\ TypeOK /\ MembershipInv
      /\ OneOwner /\ JoinedIsLinked /\ OneMembership /\ HandedOpens
      /\ Authorised /\ AssignmentsAreLive
    BY DEF IndInv
<1>2. TypeOK'
    BY <1>1, TypeStep
<1>3. RowsInv' /\ RequestsInv'
    BY <1>1, RowsStep, RequestsStep
<1>4. OwnersLeftAlone' /\ OneOwner'
    BY <1>1, OwnersLeftAloneStep, OneOwnerStep
<1>5. LinkInv' /\ JoinedIsLinked'
    BY <1>1, LinkStep
<1>6. CheckedInv' /\ OneMembership'
    BY <1>1, CheckedStep
<1>7. CodesInv' /\ HandedOpens'
    BY <1>1, CodesStep
<1>8. ArrivedInv' /\ Authorised'
    BY <1>1, AuthorisedStep
<1>9. AssignmentsAreLive'
    BY <1>1, AssignmentsStep
<1> QED
    BY <1>2, <1>3, <1>4, <1>5, <1>6, <1>7, <1>8, <1>9 DEF IndInv, MembershipInv

LEMMA InvAlways == Spec => []IndInv
BY InvInit, InvStep, PTL DEF Spec

(* Every reachable state is well typed. *)
THEOREM TypeCorrect == Spec => []TypeOK
<1>1. IndInv => TypeOK
    BY DEF IndInv
<1> QED
    BY InvAlways, <1>1, PTL

(* Role changes, removals and redemptions in any order leave every organization
   its one owner row, of the account that created it. *)
THEOREM OneOwnerAlways == Spec => []OneOwner
<1>1. IndInv => OneOwner
    BY DEF IndInv
<1> QED
    BY InvAlways, <1>1, PTL

(* Who was told they joined is linked to the row, but for overlapping redemptions
   of one invite. *)
THEOREM JoinedLinked == Spec => []JoinedIsLinked
<1>1. IndInv => JoinedIsLinked
    BY DEF IndInv
<1> QED
    BY InvAlways, <1>1, PTL

(* An account has one live membership in an organization, but for two of its own
   redemptions that overlap. *)
THEOREM OneMembershipButForRaces == Spec => []OneMembership
<1>1. IndInv => OneMembership
    BY DEF IndInv
<1> QED
    BY InvAlways, <1>1, PTL

(* A code that was answered stays the one of its member, but for overlapping
   issues. *)
THEOREM HandedCodesOpen == Spec => []HandedOpens
<1>1. IndInv => HandedOpens
    BY DEF IndInv
<1> QED
    BY InvAlways, <1>1, PTL

(* A request past its guards is one its caller may make, until the role, the
   membership or the organization changes, and writes in its own organization only. *)
THEOREM RequestsAuthorised == Spec => []Authorised
<1>1. IndInv => Authorised
    BY DEF IndInv
<1> QED
    BY InvAlways, <1>1, PTL

(* No assignment to a project outlives the membership. *)
THEOREM AssignmentsLive == Spec => []AssignmentsAreLive
<1>1. IndInv => AssignmentsAreLive
    BY DEF IndInv
<1> QED
    BY InvAlways, <1>1, PTL

----------------------------------------------------------------------------
(* The roster: each call as one step. *)

(* A call that takes effect, without another it crossed. *)
LEMMA OneCall ==
    ASSUME OneStepRoster!Call, UNCHANGED <<raced, doubled, reissued>>
    PROVE  OneStepRoster!Next
BY DEF OneStepRoster!Next

(* The row a request is about to write. *)
LEMMA RowInHand ==
    ASSUME TypeOK, MembershipInv, NEW r \in Requests, req[r] # None,
           req[r].at \in {"write", "draw", "save"} \cup RedeemPoints
    PROVE  /\ req[r] \in Request /\ req[r].account \in Accounts /\ req[r].org \in Orgs
           /\ req[r].member \in Members
           /\ orgMembers[req[r].member] # None /\ orgMembers[req[r].member] \in MemberRow
           /\ orgMembers[req[r].member].org = req[r].org
BY DEF TypeOK, MembershipInv, RequestsInv, Request

LEMMA RosterOrgs ==
    ASSUME TypeOK, MembershipInv
    PROVE  /\ \A a \in Accounts, o \in Orgs, m \in Members :
                 Create(a, o, m) => OneStepRoster!Next
           /\ \A r \in Requests : DeleteOrg(r) \/ Invite(r) => OneStepRoster!Next
<1>1. ASSUME NEW a \in Accounts, NEW o \in Orgs, NEW m \in Members, Create(a, o, m)
      PROVE  OneStepRoster!Next
    <2>1. OneStepRoster!Found(a, o, m) /\ UNCHANGED <<raced, doubled, reissued>>
        BY <1>1 DEF Create, OneStepRoster!Found, answers, races
    <2> QED
        BY <2>1, OneCall DEF OneStepRoster!Call
<1>2. ASSUME NEW r \in Requests, DeleteOrg(r) PROVE OneStepRoster!Next
    <2>1. req[r] \in Request /\ req[r].org \in Orgs /\ organizations[req[r].org] # None
        BY <1>2 DEF DeleteOrg, At, TypeOK, MembershipInv, RequestsInv, Request
    <2>2. OneStepRoster!Dissolve(req[r].org) /\ UNCHANGED <<raced, doubled, reissued>>
        BY <1>2, <2>1 DEF DeleteOrg, OneStepRoster!Dissolve, answers
    <2> QED
        BY <2>1, <2>2, OneCall DEF OneStepRoster!Call
<1>3. ASSUME NEW r \in Requests, Invite(r) PROVE OneStepRoster!Next
    <2>1. req[r] \in Request /\ req[r].org \in Orgs /\ organizations[req[r].org] # None
        BY <1>3 DEF Invite, At, TypeOK, MembershipInv, RequestsInv, Request
    <2>2. PICK m \in Members, role \in PickedRoles : OneStepRoster!Invite(req[r].org, m, role)
        BY <1>3, <2>1 DEF Invite, OneStepRoster!Invite, answers
    <2>3. UNCHANGED <<raced, doubled, reissued>>
        BY <1>3 DEF Invite
    <2>4. role \in OneStepRoster!AssignableRoles
        BY InputsAssumption DEF AssignableRoles, OneStepRoster!AssignableRoles
    <2> QED
        BY <2>1, <2>2, <2>3, <2>4, OneCall DEF OneStepRoster!Call
<1> QED
    BY <1>1, <1>2, <1>3

LEMMA RosterMembers ==
    ASSUME TypeOK, MembershipInv, NEW r \in Requests, SetRole(r) \/ Remove(r)
    PROVE  OneStepRoster!Next
<1> DEFINE m == req[r].member
<1>1. /\ m \in Members /\ orgMembers[m] # None /\ orgMembers[m].role # "owner"
    BY RowInHand DEF SetRole, Remove, At, MembershipInv, OwnersLeftAlone
<1>2. UNCHANGED <<organizations, joined, handed, raced, doubled, reissued>>
    BY DEF SetRole, Remove, answers
<1>3. CASE SetRole(r)
    <2>1. PICK role \in PickedRoles : orgMembers' = [orgMembers EXCEPT ![m].role = role]
        BY <1>3 DEF SetRole
    <2>2. OneStepRoster!SetRole(m, role)
        BY <1>1, <1>2, <2>1 DEF OneStepRoster!SetRole
    <2>3. role \in OneStepRoster!AssignableRoles
        BY InputsAssumption DEF AssignableRoles, OneStepRoster!AssignableRoles
    <2> QED
        BY <1>1, <1>2, <2>2, <2>3, OneCall DEF OneStepRoster!Call
<1>4. CASE Remove(r)
    <2>1. OneStepRoster!Remove(m)
        BY <1>1, <1>2, <1>4 DEF Remove, OneStepRoster!Remove
    <2> QED
        BY <1>1, <1>2, <2>1, OneCall DEF OneStepRoster!Call
<1> QED
    BY <1>3, <1>4

LEMMA RosterCodes ==
    ASSUME TypeOK, MembershipInv, NEW r \in Requests
    PROVE  /\ SaveCode(r) => OneStepRoster!Next
           /\ \A m \in Members : Reissue(r, m) => OneStepRoster!Next
<1>1. ASSUME SaveCode(r) PROVE OneStepRoster!Next
    <2> DEFINE m == req[r].member
               c == req[r].code
    <2>1. m \in Members /\ orgMembers[m] # None /\ req[r] \in Request
        BY <1>1, RowInHand DEF SaveCode, At
    <2>2. c \in Codes
        BY <1>1, <2>1 DEF SaveCode, At, MembershipInv, RequestsInv, Request
    <2>3. orgMembers[m].code = None \/ m \in reissued
        BY <1>1 DEF SaveCode, At, MembershipInv, CodesInv
    <2>4. OneStepRoster!IssueCode(m, c)
        BY <1>1, <2>1, <2>3 DEF SaveCode, CodeFree, OneStepRoster!IssueCode
    <2>5. raced' = raced /\ doubled' = doubled /\ reissued \subseteq reissued'
        BY <1>1 DEF SaveCode
    <2> QED
        BY <2>1, <2>2, <2>4, <2>5 DEF OneStepRoster!Call, OneStepRoster!Next
<1>2. ASSUME NEW m \in Members, Reissue(r, m) PROVE OneStepRoster!Next
    <2>1. OneStepRoster!RepeatCode(m) /\ UNCHANGED <<raced, doubled, reissued>>
        BY <1>2 DEF Reissue, RequireMember, LiveMember, tables, OneStepRoster!RepeatCode
    <2> QED
        BY <2>1, OneCall DEF OneStepRoster!Call
<1> QED
    BY <1>1, <1>2

LEMMA RosterJoins ==
    ASSUME TypeOK, MembershipInv, NEW r \in Requests, Activate(r) \/ Confirm(r)
    PROVE  OneStepRoster!Next
<1> DEFINE m == req[r].member
           a == req[r].account
<1>1. /\ req[r] # None /\ req[r].at \in {"activate", "confirm"}
      /\ m \in Members /\ a \in Accounts /\ orgMembers[m] # None
      /\ orgMembers[m].org = req[r].org
    BY RowInHand DEF Activate, Confirm, At, RedeemPoints
<1>2. CASE Activate(r)
    <2>1. req[r].at = "activate"
        BY <1>2 DEF Activate, At
    <2>2. orgMembers[m].role # "owner"
        BY <1>1, <2>1 DEF MembershipInv, OwnersLeftAlone, RequestsInv, RedeemPoints
    <2>3. orgMembers[m].account = None \/ m \in raced
        BY <1>1, <2>1 DEF MembershipInv, LinkInv
    <2>4. \A n \in Members \ {m} :
             /\ orgMembers[n] # None /\ ~ orgMembers[n].deleted
             /\ orgMembers[n].org = orgMembers[m].org /\ orgMembers[n].account = a
             => <<a, orgMembers[m].org>> \in doubled
        BY <1>1, <2>1 DEF MembershipInv, CheckedInv, At, MembershipIn, LiveMember
    <2>5. /\ orgMembers' = [orgMembers EXCEPT ![m].account = a, ![m].active = TRUE]
          /\ joined' = joined \cup {<<a, m>>} /\ UNCHANGED <<organizations, handed>>
          /\ raced \subseteq raced' /\ doubled \subseteq doubled' /\ reissued' = reissued
        BY <1>2 DEF Activate
    <2>6. OneStepRoster!Join(a, m)
        BY <1>1, <2>2, <2>3, <2>4, <2>5 DEF OneStepRoster!Join
    <2> QED
        BY <1>1, <2>5, <2>6 DEF OneStepRoster!Call, OneStepRoster!Next
<1>3. CASE Confirm(r)
    <2>1. \/ orgMembers[m].account = a /\ orgMembers[m].active
          \/ m \in raced
        BY <1>1, <1>3 DEF Confirm, At, MembershipInv, LinkInv
    <2>2. OneStepRoster!JoinAgain(a, m) /\ UNCHANGED <<raced, doubled, reissued>>
        BY <1>1, <1>3, <2>1 DEF Confirm, tables, OneStepRoster!JoinAgain
    <2> QED
        BY <1>1, <2>2, OneCall DEF OneStepRoster!Call
<1> QED
    BY <1>2, <1>3

LEMMA RosterStep ==
    ASSUME TypeOK, MembershipInv, [Next]_vars
    PROVE  [OneStepRoster!Next]_(OneStepRoster!vars)
<1>1. ASSUME UNCHANGED <<organizations, orgMembers, joined, handed, raced, doubled, reissued>>
      PROVE  UNCHANGED OneStepRoster!vars
    BY <1>1 DEF OneStepRoster!vars, OneStepRoster!crossings
<1>2. ASSUME NEW r \in Requests, Quits(r) PROVE UNCHANGED OneStepRoster!vars
    BY <1>1, <1>2 DEF Quits, tables, answers
<1>3. ASSUME NEW r \in Requests, NEW op \in ScopedOps, NEW a \in Accounts, NEW o \in Orgs,
             Arrive(r, op, a, o)
      PROVE  UNCHANGED OneStepRoster!vars
    BY <1>1, <1>3 DEF Arrive, tables, answers, races
<1>4. ASSUME NEW r \in Requests, Guard(r) \/ FindOrg(r) \/ NotYetMember(r)
      PROVE  UNCHANGED OneStepRoster!vars
    BY <1>1, <1>4 DEF Guard, FindOrg, NotYetMember, tables, answers, races
<1>5. ASSUME NEW r \in Requests, NEW m \in Members, Find(r, m) \/ IssueFresh(r, m)
      PROVE  UNCHANGED OneStepRoster!vars
    BY <1>1, <1>5 DEF Find, IssueFresh, tables, answers, races
<1>6. ASSUME NEW r \in Requests, NEW c \in Codes,
             Draw(r, c) \/ \E a \in Accounts : Redeem(r, a, c)
      PROVE  UNCHANGED OneStepRoster!vars
    BY <1>1, <1>6 DEF Draw, Redeem, tables, answers, races
<1>7. CASE UNCHANGED vars
    BY <1>1, <1>7 DEF vars, tables, answers, races
<1> QED
    BY Quitting, RosterOrgs, RosterMembers, RosterCodes, RosterJoins,
       <1>2, <1>3, <1>4, <1>5, <1>6, <1>7 DEF Next, Step

(* Each call of create, invite, setRole, remove, issue, redeem and softDelete is
   as good as one step on the rows as they are at its last write, whatever runs
   between its reads and that write; redeem and issue but for the calls of theirs
   that crossed (organizations.service.ts, members.service.ts, invites.service.ts). *)
THEOREM CallsTakeEffectAtOnce == Spec => ImplementsRoster
<1>1. Init => OneStepRoster!Init
    BY DEF Init, OneStepRoster!Init
<1>2. IndInv /\ [Next]_vars => [OneStepRoster!Next]_(OneStepRoster!vars)
    BY RosterStep DEF IndInv
<1> QED
    BY InvAlways, <1>1, <1>2, PTL DEF Spec, ImplementsRoster, OneStepRoster!Spec
====
