---- MODULE Organizations ----
(* The billing life of an organization (organizations.service.ts) under the
   derivations of plan.ts. A subscribe reads the row before it writes it; the
   other calls are one UPDATE of a live row. The guards are those of Membership;
   the profile columns that update writes are not kept. *)
EXTENDS Plans

CONSTANTS
    Orgs,
    Requests,   \* subscribe calls that may be in flight at a time
    MaxTime     \* bound: ticks in a behaviour

ASSUME BoundAssumption == MaxTime \in Nat

VARIABLES
    now,
    organizations,   \* organizations[o]: the row, or None
    subscribing,     \* subscribing[r]: the organization, plan and stamp read, or None
    paidSince,       \* history: paidSince[o]: the stamp that the first subscribe answered, or None
    overlapped       \* history: organizations stamped while another subscribe ran

vars == <<now, organizations, subscribing, paidSince, overlapped>>

Time == Nat \cup {None}

Row == [planTier : PlanTiers, storageAddOn : StorageAddOns, trialStartedAt : Time,
        subscriptionStartedAt : Time, deleted : BOOLEAN]

Call == [org : Orgs, planTier : PlanTiers, stamp : Time]

ASSUME NoneAssumption == None \notin Row \cup Call \cup Nat

TypeOK ==
    /\ now \in Nat
    /\ organizations \in [Orgs -> Row \cup {None}]
    /\ subscribing \in [Requests -> Call \cup {None}]
    /\ paidSince \in [Orgs -> Time]
    /\ overlapped \subseteq Orgs

(* A row from before there were trials has no trialStartedAt. *)
Grandfathered ==
    [planTier |-> "basic", storageAddOn |-> "none", trialStartedAt |-> None,
     subscriptionStartedAt |-> None, deleted |-> FALSE]

Init ==
    /\ now = 0
    /\ organizations \in [Orgs -> {None, Grandfathered}]
    /\ subscribing = [r \in Requests |-> None]
    /\ paidSince = [o \in Orgs |-> None]
    /\ overlapped = {}

Live(o) == organizations[o] # None /\ ~ organizations[o].deleted

----------------------------------------------------------------------------
Tick ==
    /\ now < MaxTime
    /\ now' = now + 1
    /\ UNCHANGED <<organizations, subscribing, paidSince, overlapped>>

(* create: the trial starts. *)
Create(o) ==
    /\ organizations[o] = None
    /\ organizations' = [organizations EXCEPT ![o] = [Grandfathered EXCEPT !.trialStartedAt = now]]
    /\ UNCHANGED <<now, subscribing, paidSince, overlapped>>

WithPlan(row, plan) == [row EXCEPT !.planTier = plan]

setPlan(o, plan) ==
    /\ Live(o)
    /\ organizations' = [organizations EXCEPT ![o] = WithPlan(@, plan)]
    /\ UNCHANGED <<now, subscribing, paidSince, overlapped>>

setStorageAddOn(o, addOn) ==
    /\ Live(o)
    /\ organizations' = [organizations EXCEPT ![o].storageAddOn = addOn]
    /\ UNCHANGED <<now, subscribing, paidSince, overlapped>>

softDelete(o) ==
    /\ Live(o)
    /\ organizations' = [organizations EXCEPT ![o].deleted = TRUE]
    /\ UNCHANGED <<now, subscribing, paidSince, overlapped>>

(* subscribe: load, ... *)
Load(r, o, plan) ==
    /\ subscribing[r] = None
    /\ Live(o)
    /\ subscribing' = [subscribing EXCEPT ![r] =
            [org |-> o, planTier |-> plan, stamp |-> organizations[o].subscriptionStartedAt]]
    /\ UNCHANGED <<now, organizations, paidSince, overlapped>>

StampAnew(stamp) == now                                            \* mutant

Stamp(stamp) == IF stamp = None THEN now ELSE stamp

(* ... and an UPDATE by id, with the stamp as it was read; the row may have been
   stamped, or deleted, meanwhile. *)
Subscribe(r) ==
    LET call == subscribing[r]
    IN  /\ call # None
        /\ organizations' = [organizations EXCEPT
                ![call.org].planTier = call.planTier,
                ![call.org].subscriptionStartedAt = Stamp(call.stamp)]
        /\ subscribing' = [subscribing EXCEPT ![r] = None]
        /\ paidSince' = [paidSince EXCEPT ![call.org] = IF @ = None THEN Stamp(call.stamp) ELSE @]
        /\ overlapped' = IF \E s \in Requests \ {r} : /\ subscribing[s] # None
                                                     /\ subscribing[s].org = call.org
                         THEN overlapped \cup {call.org} ELSE overlapped
        /\ UNCHANGED now

Next ==
    \/ Tick
    \/ \E o \in Orgs :
        \/ Create(o) \/ softDelete(o)
        \/ \E plan \in PlanTiers : setPlan(o, plan) \/ \E r \in Requests : Load(r, o, plan)
        \/ \E addOn \in StorageAddOns : setStorageAddOn(o, addOn)
    \/ \E r \in Requests : Subscribe(r)

Spec == Init /\ [][Next]_vars

----------------------------------------------------------------------------
Status(o) == SubscriptionStatus(organizations[o], now)

(* What a subscriber paid for holds from the first answer on, whatever plan
   changes, deletions and further subscriptions follow, and however late it gets:
   the organization is active, has the plan of its row, and has had it since the
   day that answer gave, unless two subscribe calls overlapped. *)
NeverLockedOut ==
    \A o \in Orgs : paidSince[o] # None =>
        /\ Status(o) = "active"
        /\ EffectivePlan(organizations[o], now) = organizations[o].planTier
        /\ o \notin overlapped => organizations[o].subscriptionStartedAt = paidSince[o]

(* A trial ends once, on its day, and never runs again, and it lasts exactly as
   long as it has days left. *)
TrialRunsOnce ==
    [][\A o \in Orgs : organizations[o] # None =>
        /\ Status(o) # "trialing" => Status(o)' # "trialing"
        /\ Status(o) = "active" \/
               (Status(o) = "trialing" <=> TrialDaysRemaining(organizations[o], now) > 0)]_vars
====
