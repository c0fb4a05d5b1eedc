---- MODULE MCSyncPush ----
(* Small instances of SyncPush for TLC. *)
EXTENDS SyncPush, TLC

CONSTANTS ann, bob,              \* accounts
          acme, bolt,            \* organizations
          proj, task, note,      \* rows: a project, a task, a comment on it
          list, item,            \* rows: a checklist and its item
          pin,                   \* a row: a comment on a photo
          tag, alien             \* rows: a tag, an entity no registry knows

MCEntity ==
    [i \in Ids |-> CASE i = proj -> "project" [] i = task -> "task"
                     [] i = note -> "taskComment" [] i = list -> "checklist"
                     [] i = item -> "checklistItem" [] i = tag -> "tag"
                     [] i = pin -> "photoComment"
                     [] OTHER -> "widget"]

Upsert(a, o, i, t) ==
    [account |-> a, org |-> o, id |-> i, op |-> "upsert", at |-> t,
     deletedAt |-> None, assignee |-> None, parent |-> None, mentions |-> <<>>]

Delete(a, o, i, t) == [Upsert(a, o, i, t) EXCEPT !.op = "delete"]

Assigned(m, a) == [m EXCEPT !.assignee = a]
Below(m, i) == [m EXCEPT !.parent = i]

(* ann owns acme and manages bolt; bob works for acme. *)
Company(role) == [o \in Orgs |-> [a \in Accounts |->
    CASE o = acme /\ a = ann -> "owner"
      [] o = acme /\ a = bob -> role
      [] o = bolt /\ a = ann -> "manager"
      [] OTHER -> None]]

(* Requests are interchangeable. *)
Interchangeable == Permutations(Handlers)

ManagerBob == Company("manager")
MemberBob == Company("member")

(* Overlapping requests: one task created, assigned, moved on, deleted, and
   claimed by another organization. *)
Create  == Assigned(Upsert(bob, acme, task, 1), bob)
Change  == Upsert(ann, acme, task, 2)
Remove  == Delete(bob, acme, task, 3)
Claim   == Upsert(ann, bolt, task, 3)

RaceMutations == {Create, Change, Remove, Claim}
RaceBatches == {<<Create>>, <<Change>>, <<Remove>>, <<Claim>>, <<Create, Remove>>}

(* Whole batches: a project with an assigned task, a comment and an
   assigned checklist, edited offline by the assignee, who also mentions ann
   twice in a photo comment, and deleted by the owner. *)
Site      == Upsert(ann, acme, proj, 1)
Job       == Below(Assigned(Upsert(ann, acme, task, 1), bob), proj)
Checks    == Below(Assigned(Upsert(ann, acme, list, 1), bob), proj)
Check     == Below(Upsert(ann, acme, item, 1), list)
JobDone   == Below(Assigned(Upsert(bob, acme, task, 2), bob), proj)
Remark    == [Below(Upsert(bob, acme, note, 2), task) EXCEPT !.mentions = <<ann, bob, ann>>]
Shot      == [Upsert(bob, acme, pin, 2) EXCEPT !.mentions = <<ann, bob, ann>>]
CheckDone == Below(Upsert(bob, acme, item, 2), list)
Label     == Upsert(bob, acme, tag, 2)
Scrap     == Delete(bob, acme, task, 3)
Widget    == Upsert(bob, acme, alien, 2)
Demolish  == Delete(ann, acme, proj, 3)
Hand      == Below(Assigned(Upsert(ann, acme, task, 2), ann), proj)
Foreigner == Upsert(ann, bolt, proj, 4)

Plan     == <<Site, Job, Checks, Check>>
Offline  == <<JobDone, Remark, CheckDone, Label, Scrap, Widget>>
Handover == <<Hand, Foreigner>>
BatchMutations == {Site, Job, Checks, Check, JobDone, Remark, Shot, CheckDone,
                   Label, Scrap, Widget, Demolish, Hand, Foreigner}
WholeBatches == {Plan, Offline, Handover, <<Shot>>, <<Demolish>>}
====
