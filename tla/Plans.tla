---- MODULE Plans ----
(* organizations/plan.ts: what an organization is entitled to, derived from its
   row and the clock, which runs in ticks. The storage of each plan is not kept. *)
EXTENDS Naturals

CONSTANTS
    DayLength,    \* ticks in a day
    TrialDays,    \* TRIAL_LENGTH_MS, in days
    None

ASSUME TrialAssumption == DayLength \in Nat \ {0} /\ TrialDays \in Nat \ {0}

PlanTiers     == {"basic", "pro", "premium"}
StorageAddOns == {"none", "plus50", "plus250", "plus1tb"}

TrialEndsAt(org) == org.trialStartedAt + TrialDays * DayLength

InTrial(org, now) == org.trialStartedAt # None /\ now < TrialEndsAt(org)

(* No trial start (a grandfathered row): never locked out. *)
SubscriptionStatus(org, now) ==
    IF org.subscriptionStartedAt # None \/ org.trialStartedAt = None THEN "active"
    ELSE IF InTrial(org, now) THEN "trialing" ELSE "expired"

EffectivePlan(org, now) ==
    IF SubscriptionStatus(org, now) = "trialing" THEN "premium" ELSE org.planTier

RoundDown(ticks) == ticks \div DayLength                           \* mutant

RoundUp(ticks) == (ticks + DayLength - 1) \div DayLength

TrialDaysRemaining(org, now) ==
    IF InTrial(org, now) THEN RoundUp(TrialEndsAt(org) - now) ELSE 0
====
