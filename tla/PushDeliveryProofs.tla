---- MODULE PushDeliveryProofs ----
(* What push delivery promises for any number of phones, members, notifications
   and mishaps. *)
EXTENDS PushDelivery, FiniteSetTheorems, TLAPS

USE NumberAssumption, NoneAssumption, IdsAssumption

----------------------------------------------------------------------------
(* The inductive invariants. *)

(* A job that works has targets of the recipient's account. *)
JobsInv ==
    \A n \in Notifications :
        /\ recipient[n] = None => job[n] = NoJob /\ steady[n] = {}
        /\ recipient[n] \in gone => n \in gone
        /\ job[n].at \in {"targets", "send", "prune"} =>
              job[n].account = accountOf[recipient[n]] /\ job[n].account # None
        /\ job[n].at \notin {"send", "prune"} => job[n].left = {}
        /\ job[n].at = "prune" <=> job[n].token # None
        /\ Working(n) => job[n].tries < Attempts

(* A target that has not changed since is the recipient's. *)
TargetsInv ==
    /\ \A n \in Notifications, t \in Tokens : Holds(n, t) /\ <<t, n>> \notin moved =>
          devices[t] = accountOf[recipient[n]] /\ devices[t] # None
    /\ \A s \in seen : recipient[s[2]] # None

SteadyInv ==
    \A n \in Notifications : \A t \in steady[n] :
        /\ devices[t] = accountOf[recipient[n]] /\ devices[t] # None
        /\ job[n].at \in {"send", "prune"} => t \in job[n].left \/ <<t, n>> \in tried

(* Nothing that undoes it is under way for a phone whose registration is sure. *)
Sure(t) == SignedIn(t) /\ t \notin overtaken

PhonesInv ==
    /\ \A c \in signingIn :
          /\ c.nr <= switches
          /\ Own(c) => c.account = phone[c.token]
    /\ \A t \in Tokens :
          /\ signIn[t] <= switches
          /\ phone[t] # None => t \in installed
          /\ Sure(t) =>
                /\ devices[t] = phone[t]
                /\ <<phone[t], t>> \notin signingOut
                /\ \A c \in signingIn : c.token = t => c.account = phone[t]
                /\ \A n \in Notifications : job[n].at = "prune" => job[n].token # t

DeliveryInv == JobsInv /\ TargetsInv /\ SteadyInv /\ PhonesInv

(* A job that is to send has somewhere to send to. *)
SendInv == \A n \in Notifications : job[n].at = "send" => job[n].left # {}

----------------------------------------------------------------------------
(* What is left of a job that ends or goes on. *)
LEMMA EndJob ==
    ASSUME TypeOK, NEW n \in Notifications, NEW point \in JobPoints, End(n, point)
    PROVE  /\ job' \in [Notifications -> Job]
           /\ \A k \in Notifications : k # n => job'[k] = job[k]
           /\ job'[n].at = point /\ job'[n].tries = job[n].tries
           /\ job'[n].left = {} /\ job'[n].token = None
<1> DEFINE new == [NoJob EXCEPT !.at = point, !.tries = job[n].tries]
<1>1. job[n].tries \in 0 .. Attempts
    BY DEF TypeOK, Job
<1>2. /\ new \in Job
      /\ new.at = point /\ new.tries = job[n].tries /\ new.left = {} /\ new.token = None
    BY <1>1 DEF NoJob, Job
<1>3. job' = [job EXCEPT ![n] = new]
    BY DEF End
<1> HIDE DEF new
<1> QED
    BY <1>2, <1>3 DEF TypeOK

LEMMA GoOnJob ==
    ASSUME TypeOK, NEW n \in Notifications, NEW rest \in SUBSET Tokens, GoOn(n, rest)
    PROVE  /\ job' \in [Notifications -> Job]
           /\ \A k \in Notifications : k # n => job'[k] = job[k]
           /\ job'[n].left = rest /\ job'[n].token = None /\ job'[n].tries = job[n].tries
           /\ job'[n].at = IF rest = {} THEN "done" ELSE "send"
           /\ rest # {} => job'[n].account = job[n].account
<1>1. CASE rest = {}
    <2>1. End(n, "done") /\ "done" \in JobPoints
        BY <1>1 DEF GoOn, JobPoints
    <2> QED
        BY <1>1, <2>1, EndJob
<1>2. CASE rest # {}
    <2> DEFINE new == [job[n] EXCEPT !.at = "send", !.left = rest, !.token = None]
    <2>1. job[n] \in Job
        BY DEF TypeOK
    <2>2. /\ new \in Job
          /\ new.at = "send" /\ new.left = rest /\ new.token = None
          /\ new.tries = job[n].tries /\ new.account = job[n].account
        BY <2>1 DEF Job, JobPoints
    <2>3. job' = [job EXCEPT ![n] = new]
        BY <1>2 DEF GoOn
    <2> HIDE DEF new
    <2> QED
        BY <1>2, <2>2, <2>3 DEF TypeOK
<1> QED
    BY <1>1, <1>2

(* What a step of a job does to it. *)
LEMMA StoppedOnce ==
    ASSUME TypeOK, DeliveryInv, NEW n \in Notifications, Throw(n) \/ Crash(n)
    PROVE  /\ job' \in [Notifications -> Job]
           /\ \A k \in Notifications : k # n => job'[k] = job[k]
           /\ job'[n].at \in {"waiting", "failed"} /\ (job'[n].at = "waiting" => job'[n].tries < Attempts)
           /\ job'[n].left = {} /\ job'[n].token = None
           /\ recipient[n] # None
<1> job[n] \in Job /\ Working(n)
    BY DEF TypeOK, Throw, Crash
<1>1. /\ job[n].tries \in 0 .. Attempts /\ job[n].tries < Attempts /\ job[n].stalled \in BOOLEAN
      /\ recipient[n] # None
    BY DEF Job, DeliveryInv, JobsInv, Working, NoJob
<1>2. ASSUME NEW last \in BOOLEAN, NEW tries \in 0 .. Attempts, NEW stalled \in BOOLEAN,
             Again(n, last, tries, stalled), ~ last => tries < Attempts
      PROVE  /\ job' \in [Notifications -> Job]
             /\ \A k \in Notifications : k # n => job'[k] = job[k]
             /\ job'[n].at \in {"waiting", "failed"} /\ (job'[n].at = "waiting" => job'[n].tries < Attempts)
             /\ job'[n].left = {} /\ job'[n].token = None
    <2> DEFINE point == IF last THEN "failed" ELSE "waiting"
               new == [NoJob EXCEPT !.at = point, !.tries = tries, !.stalled = stalled]
    <2>1. /\ point \in {"waiting", "failed"} /\ (point = "waiting" => tries < Attempts)
        BY <1>2
    <2>2. job' = [job EXCEPT ![n] = new]
        BY <1>2 DEF Again
    <2> HIDE DEF point
    <2>3. /\ new \in Job /\ new.at = point /\ new.tries = tries
          /\ new.left = {} /\ new.token = None
        BY <2>1 DEF NoJob, Job, JobPoints
    <2> HIDE DEF new
    <2> QED
        BY <2>1, <2>2, <2>3 DEF TypeOK
<1>3. CASE Throw(n)
    <2> DEFINE tries == job[n].tries + 1
               last == tries = Attempts
    <2>1. Again(n, last, tries, job[n].stalled)
        BY <1>3 DEF Throw
    <2>2. last \in BOOLEAN /\ tries \in 0 .. Attempts /\ (~ last => tries < Attempts)
        BY <1>1
    <2> HIDE DEF last, tries
    <2> QED
        BY <1>1, <1>2, <2>1, <2>2
<1>4. CASE Crash(n)
    <2>1. Again(n, job[n].stalled, job[n].tries, TRUE)
        BY <1>4 DEF Crash
    <2> QED
        BY <1>1, <1>2, <2>1
<1> QED
    BY <1>3, <1>4

LEMMA NotificationFound ==
    ASSUME TypeOK, DeliveryInv, NEW n \in Notifications, FindNotification(n)
    PROVE  /\ job' \in [Notifications -> Job] /\ recipient[n] # None
           /\ \A k \in Notifications : k # n => job'[k] = job[k]
           /\ job'[n].left = {} /\ job'[n].token = None /\ job'[n].tries = job[n].tries
           /\ \/ job'[n].at = "done" /\ (~ configured \/ n \in gone)
              \/ job'[n].at = "recipient"
<1>1. /\ job[n] \in Job /\ recipient[n] # None /\ job[n].at = "waiting"
      /\ job[n].left = {} /\ job[n].token = None
    BY DEF FindNotification, TypeOK, DeliveryInv, JobsInv, NoJob
<1>2. CASE ~ (configured /\ n \notin gone)
    <2>1. End(n, "done") /\ "done" \in JobPoints
        BY <1>2 DEF FindNotification, JobPoints
    <2> QED
        BY <1>1, <1>2, <2>1, EndJob
<1>3. CASE configured /\ n \notin gone
    <2> DEFINE new == [job[n] EXCEPT !.at = "recipient"]
    <2>1. /\ new \in Job /\ new.at = "recipient"
          /\ new.left = {} /\ new.token = None /\ new.tries = job[n].tries
        BY <1>1 DEF Job, JobPoints
    <2>2. job' = [job EXCEPT ![n] = new]
        BY <1>3 DEF FindNotification
    <2> HIDE DEF new
    <2> QED
        BY <1>1, <2>1, <2>2 DEF TypeOK
<1> QED
    BY <1>2, <1>3

LEMMA RecipientFound ==
    ASSUME TypeOK, DeliveryInv, NEW n \in Notifications, FindRecipient(n)
    PROVE  /\ job' \in [Notifications -> Job] /\ recipient[n] # None
           /\ \A k \in Notifications : k # n => job'[k] = job[k]
           /\ job'[n].left = {} /\ job'[n].token = None /\ job'[n].tries = job[n].tries
           /\ \/ job'[n].at = "done" /\ (n \in gone \/ accountOf[recipient[n]] = None)
              \/ /\ job'[n].at = "targets" /\ accountOf[recipient[n]] # None
                 /\ job'[n].account = accountOf[recipient[n]]
<1>1. /\ job[n] \in Job /\ recipient[n] \in Members /\ job[n].at = "recipient"
      /\ job[n].left = {} /\ job[n].token = None
    BY DEF FindRecipient, TypeOK, DeliveryInv, JobsInv, NoJob
<1>2. CASE recipient[n] \in gone \/ accountOf[recipient[n]] = None
    <2>1. End(n, "done") /\ "done" \in JobPoints
        BY <1>2 DEF FindRecipient, JobPoints
    <2>2. n \in gone \/ accountOf[recipient[n]] = None
        BY <1>2 DEF DeliveryInv, JobsInv
    <2> QED
        BY <1>1, <2>1, <2>2, EndJob
<1>3. CASE ~ (recipient[n] \in gone \/ accountOf[recipient[n]] = None)
    <2> DEFINE new == [job[n] EXCEPT !.at = "targets", !.account = accountOf[recipient[n]]]
    <2>1. accountOf[recipient[n]] \in Accounts
        BY <1>1, <1>3 DEF TypeOK
    <2>2. /\ new \in Job /\ new.at = "targets" /\ new.account = accountOf[recipient[n]]
          /\ new.left = {} /\ new.token = None /\ new.tries = job[n].tries
        BY <1>1, <2>1 DEF Job, JobPoints
    <2>3. job' = [job EXCEPT ![n] = new]
        BY <1>3 DEF FindRecipient
    <2> HIDE DEF new
    <2> QED
        BY <1>1, <1>3, <2>2, <2>3 DEF TypeOK
<1> QED
    BY <1>2, <1>3

LEMMA TargetsFound ==
    ASSUME TypeOK, DeliveryInv, NEW n \in Notifications, FindTargets(n)
    PROVE  /\ job' \in [Notifications -> Job] /\ recipient[n] # None
           /\ \A k \in Notifications : k # n => job'[k] = job[k]
           /\ job'[n].left = RegisteredTo(accountOf[recipient[n]]) /\ job'[n].token = None
           /\ job'[n].tries = job[n].tries
           /\ \/ job'[n].at = "done" /\ job'[n].left = {}
              \/ /\ job'[n].at = "send" /\ job'[n].account = job[n].account
                 /\ job[n].account = accountOf[recipient[n]] /\ job[n].account # None
<1>1. /\ job[n] \in Job /\ recipient[n] # None /\ job[n].at = "targets" /\ job[n].token = None
      /\ job[n].account = accountOf[recipient[n]] /\ job[n].account # None
    BY DEF FindTargets, TypeOK, DeliveryInv, JobsInv, NoJob
<1> DEFINE targets == RegisteredTo(job[n].account)
<1>2. targets \subseteq Tokens
    BY DEF RegisteredTo
<1>3. CASE targets = {}
    <2>1. End(n, "done") /\ "done" \in JobPoints
        BY <1>3 DEF FindTargets, JobPoints
    <2> QED
        BY <1>1, <1>3, <2>1, EndJob
<1>4. CASE targets # {}
    <2> DEFINE new == [job[n] EXCEPT !.at = "send", !.left = targets]
    <2>1. /\ new \in Job /\ new.at = "send" /\ new.account = job[n].account
          /\ new.left = targets /\ new.token = None /\ new.tries = job[n].tries
        BY <1>1, <1>2 DEF Job, JobPoints
    <2>2. job' = [job EXCEPT ![n] = new]
        BY <1>4 DEF FindTargets
    <2> HIDE DEF new
    <2> QED
        BY <1>1, <1>4, <2>1, <2>2 DEF TypeOK
<1> QED
    BY <1>3, <1>4

(* Where a job is after a step of its own. *)
JobMoves(n) ==
    /\ job' \in [Notifications -> Job]
    /\ \A k \in Notifications : k # n => job'[k] = job[k]
    /\ recipient[n] # None
    /\ job'[n].at \in {"targets", "send", "prune"} =>
          job'[n].account = accountOf[recipient[n]] /\ job'[n].account # None
    /\ job'[n].at \notin {"send", "prune"} => job'[n].left = {}
    /\ job'[n].at = "prune" <=> job'[n].token # None
    /\ job'[n].at \in {"waiting", "recipient", "targets", "send", "prune"} =>
          job'[n].tries < Attempts
    /\ \A t \in Tokens : t \in job'[n].left \/ job'[n].token = t =>
          Holds(n, t) \/ (devices[t] = accountOf[recipient[n]] /\ devices[t] # None)
    /\ job'[n].at \in {"send", "prune"} \/ (job'[n].at = "done" /\ configured /\ n \notin gone) =>
          \A t \in steady[n] : t \in job'[n].left \/ <<t, n>> \in tried'
    /\ job'[n].token # None => job'[n].token \notin installed

(* What a step of n's job that is not a prune leaves alone. *)
Leaves(n) ==
    /\ UNCHANGED <<configured, devices, accountOf, recipient, gone, switches>>
    /\ UNCHANGED <<phone, signIn, installed, signingIn, signingOut>>
    /\ UNCHANGED <<steady, moved, overtaken>>
    /\ mishaps' \in Nat
    /\ tried \subseteq tried' /\ tried' \subseteq Tokens \X Notifications
    /\ \/ seen' = seen /\ early' = early
       \/ \E t \in job[n].left :
             /\ t \in Tokens
             /\ seen' = seen \cup {<<t, n, phone[t]>>}
             /\ early' = IF Sure(t) THEN early ELSE early \cup {<<t, n>>}

LEMMA JobFacts ==
    ASSUME TypeOK, DeliveryInv, NEW n \in Notifications, Working(n)
    PROVE  /\ job[n] \in Job /\ recipient[n] # None /\ recipient[n] \in Members
           /\ job[n].tries < Attempts /\ job[n].left \subseteq Tokens
           /\ job[n].at \notin {"waiting", "recipient"} =>
                 job[n].account = accountOf[recipient[n]] /\ job[n].account # None
           /\ job[n].at \notin {"send", "prune"} => job[n].left = {}
           /\ job[n].at = "prune" <=> job[n].token # None
           /\ \A t \in steady[n] : /\ t \in Tokens
                                   /\ devices[t] = accountOf[recipient[n]] /\ devices[t] # None
                                   /\ job[n].at \in {"send", "prune"} =>
                                         t \in job[n].left \/ <<t, n>> \in tried
<1>1. job[n] \in Job /\ recipient[n] \in Members \cup {None} /\ steady[n] \subseteq Tokens
    BY DEF TypeOK
<1>2. recipient[n] # None
    BY DEF DeliveryInv, JobsInv, Working, NoJob
<1> QED
    BY <1>1, <1>2 DEF DeliveryInv, JobsInv, SteadyInv, Working, Job

LEMMA WentOn ==
    ASSUME TypeOK, DeliveryInv, NEW n \in Notifications, Working(n),
           NEW rest \in SUBSET job[n].left, GoOn(n, rest),
           job[n].at \in {"send", "prune"},
           \A t \in job[n].left : t \in rest \/ <<t, n>> \in tried',
           tried \subseteq tried'
    PROVE  JobMoves(n)
<1>1. rest \in SUBSET Tokens
    BY JobFacts
<1>2. \A t \in rest : Holds(n, t)
    BY DEF Holds
<1>3. /\ job' \in [Notifications -> Job]
      /\ \A k \in Notifications : k # n => job'[k] = job[k]
      /\ job'[n].left = rest /\ job'[n].token = None /\ job'[n].tries = job[n].tries
      /\ job'[n].at = IF rest = {} THEN "done" ELSE "send"
      /\ rest # {} => job'[n].account = job[n].account
    BY <1>1, GoOnJob
<1>4. \A t \in steady[n] : t \in rest \/ <<t, n>> \in tried'
    BY JobFacts
<1> QED
    BY <1>1, <1>2, <1>3, <1>4, JobFacts DEF JobMoves

LEMMA SentJob ==
    ASSUME TypeOK, DeliveryInv, NEW n \in Notifications, NEW t \in Tokens,
           Accept(n, t) \/ Refuse(n, t)
    PROVE  JobMoves(n) /\ Leaves(n)
<1>1. /\ Working(n) /\ job[n].at = "send" /\ t \in job[n].left
      /\ GoOn(n, job[n].left \ {t}) /\ tried' = tried \cup {<<t, n>>}
    BY DEF Accept, Refuse, StillLeft, Working
<1>2. JobMoves(n)
    <2> DEFINE rest == job[n].left \ {t}
    <2>1. rest \in SUBSET job[n].left /\ GoOn(n, rest)
        BY <1>1
    <2>2. \A s \in job[n].left : s \in rest \/ <<s, n>> \in tried'
        BY <1>1
    <2>3. tried \subseteq tried'
        BY <1>1
    <2> HIDE DEF rest
    <2> QED
        BY <1>1, <2>1, <2>2, <2>3, WentOn
<1>3. Leaves(n)
    <2>1. CASE Accept(n, t)
        <3>1. /\ UNCHANGED <<configured, devices, rows, phones, mishaps, switches>>
              /\ UNCHANGED <<steady, moved, overtaken>>
              /\ seen' = seen \cup {<<t, n, phone[t]>>}
              /\ early' = IF Sure(t) THEN early ELSE early \cup {<<t, n>>}
            BY <2>1 DEF Accept, Sure, Around
        <3>2. \E s \in job[n].left :
                 /\ s \in Tokens
                 /\ seen' = seen \cup {<<s, n, phone[s]>>}
                 /\ early' = IF Sure(s) THEN early ELSE early \cup {<<s, n>>}
            BY <1>1, <3>1, Zenon
        <3>3. /\ tried \subseteq tried' /\ tried' \subseteq Tokens \X Notifications
              /\ mishaps' \in Nat
            BY <1>1, <3>1 DEF TypeOK
        <3>4. /\ UNCHANGED <<configured, devices, accountOf, recipient, gone, switches>>
              /\ UNCHANGED <<phone, signIn, installed, signingIn, signingOut>>
            BY <3>1 DEF rows, phones, calls
        <3> QED
            BY <3>1, <3>2, <3>3, <3>4, Zenon DEF Leaves
    <2>2. CASE Refuse(n, t)
        BY <1>1, <2>2 DEF Leaves, Refuse, Mishap, TypeOK, rows, phones, calls
    <2> QED
        BY <2>1, <2>2
<1> QED
    BY <1>2, <1>3

LEMMA InvalidJob ==
    ASSUME TypeOK, DeliveryInv, NEW n \in Notifications, NEW t \in Tokens, Invalid(n, t)
    PROVE  JobMoves(n) /\ Leaves(n)
<1>1. /\ Working(n) /\ job[n].at = "send" /\ t \in job[n].left /\ t \notin installed
      /\ tried' = tried \cup {<<t, n>>}
    BY DEF Invalid, Working
<1> DEFINE new == [job[n] EXCEPT !.at = "prune", !.left = job[n].left \ {t}, !.token = t]
<1>2. job' = [job EXCEPT ![n] = new]
    BY DEF Invalid, StillLeft
<1>10. job[n] \in Job
    BY DEF TypeOK
<1>3. /\ new \in Job /\ new.at = "prune" /\ new.left = job[n].left \ {t} /\ new.token = t
      /\ new.account = job[n].account /\ new.tries = job[n].tries
    BY <1>10 DEF Job, JobPoints
<1> HIDE DEF new
<1>4. job' \in [Notifications -> Job] /\ job'[n] = new
    BY <1>2, <1>3 DEF TypeOK
<1>5. t # None
    BY NoneAssumption
<1>6. \A s \in Tokens : s \in job'[n].left \/ job'[n].token = s => Holds(n, s)
    BY <1>1, <1>3, <1>4 DEF Holds
<1>7. \A s \in steady[n] : s \in job'[n].left \/ <<s, n>> \in tried'
    BY <1>1, <1>3, <1>4, JobFacts
<1>8. JobMoves(n)
    BY <1>1, <1>2, <1>3, <1>4, <1>5, <1>6, <1>7, JobFacts DEF JobMoves
<1>9. Leaves(n)
    BY <1>1 DEF Leaves, Invalid, Around, TypeOK, rows, phones, calls
<1> QED
    BY <1>8, <1>9

LEMMA FoundJob ==
    ASSUME TypeOK, DeliveryInv, NEW n \in Notifications,
           FindNotification(n) \/ FindRecipient(n) \/ FindTargets(n)
    PROVE  JobMoves(n) /\ Leaves(n)
<1>1. Leaves(n)
    BY DEF Leaves, FindNotification, FindRecipient, FindTargets, Around, TypeOK, rows, phones,
       calls, history
<1> SUFFICES JobMoves(n)
    BY <1>1
<1>2. Working(n) /\ job[n].at \in {"waiting", "recipient", "targets"} /\ tried' = tried
    BY DEF FindNotification, FindRecipient, FindTargets, Working, history
<1>5. CASE FindNotification(n)
    <2>1. /\ job' \in [Notifications -> Job] /\ recipient[n] # None
          /\ \A k \in Notifications : k # n => job'[k] = job[k]
          /\ job'[n].left = {} /\ job'[n].token = None /\ job'[n].tries = job[n].tries
          /\ \/ job'[n].at = "done" /\ (~ configured \/ n \in gone)
             \/ job'[n].at = "recipient"
        BY <1>5, NotificationFound
    <2>2. job[n].tries < Attempts
        BY <1>2, JobFacts
    <2>3. \A t \in Tokens : t # None
        BY NoneAssumption
    <2> QED
        BY <2>1, <2>2, <2>3 DEF JobMoves
<1>3. CASE FindRecipient(n)
    <2>1. /\ job' \in [Notifications -> Job] /\ recipient[n] # None
          /\ \A k \in Notifications : k # n => job'[k] = job[k]
          /\ job'[n].left = {} /\ job'[n].token = None /\ job'[n].tries = job[n].tries
          /\ \/ job'[n].at = "done" /\ (n \in gone \/ accountOf[recipient[n]] = None)
             \/ /\ job'[n].at = "targets" /\ accountOf[recipient[n]] # None
                /\ job'[n].account = accountOf[recipient[n]]
        BY <1>3, RecipientFound
    <2>2. job[n].tries < Attempts /\ \A t \in steady[n] : accountOf[recipient[n]] # None
        BY <1>2, JobFacts
    <2>3. \A t \in Tokens : t # None
        BY NoneAssumption
    <2> QED
        BY <2>1, <2>2, <2>3 DEF JobMoves
<1>4. CASE FindTargets(n)
    <2>1. \A t \in Tokens : t \in RegisteredTo(accountOf[recipient[n]]) <=>
             accountOf[recipient[n]] # None /\ devices[t] = accountOf[recipient[n]]
        BY DEF RegisteredTo
    <2>2. \A t \in steady[n] : t \in RegisteredTo(accountOf[recipient[n]])
        BY <1>2, <2>1, JobFacts
    <2>3. /\ job' \in [Notifications -> Job] /\ recipient[n] # None
          /\ \A k \in Notifications : k # n => job'[k] = job[k]
          /\ job'[n].left = RegisteredTo(accountOf[recipient[n]]) /\ job'[n].token = None
          /\ job'[n].tries = job[n].tries
          /\ \/ job'[n].at = "done" /\ job'[n].left = {}
             \/ /\ job'[n].at = "send" /\ job'[n].account = job[n].account
                /\ job[n].account = accountOf[recipient[n]] /\ job[n].account # None
        BY <1>4, TargetsFound
    <2>4. job[n].tries < Attempts
        BY <1>2, JobFacts
    <2>5. \A t \in Tokens : t # None
        BY NoneAssumption
    <2> QED
        BY <2>1, <2>2, <2>3, <2>4, <2>5 DEF JobMoves
<1> QED
    BY <1>3, <1>4, <1>5

LEMMA StoppedJob ==
    ASSUME TypeOK, DeliveryInv, NEW n \in Notifications, Throw(n) \/ Crash(n)
    PROVE  JobMoves(n) /\ Leaves(n)
<1>1. Leaves(n)
    <2>1. UNCHANGED <<configured, devices, rows, phones, switches, history>> /\ Mishap
        BY DEF Throw, Crash
    <2> QED
        BY <2>1 DEF Leaves, Mishap, TypeOK, rows, phones, calls, history
<1>2. \A t \in Tokens : t # None
    BY NoneAssumption
<1>3. JobMoves(n)
    BY <1>2, StoppedOnce DEF JobMoves
<1> QED
    BY <1>1, <1>3

(* The row that a prune deletes. *)
LEMMA PrunedJob ==
    ASSUME TypeOK, DeliveryInv, NEW n \in Notifications, Prune(n)
    PROVE  /\ JobMoves(n)
           /\ job[n].token \in Tokens
           /\ ~ Sure(job[n].token)
           /\ devices' = [devices EXCEPT ![job[n].token] = None]
           /\ \/ devices' = devices /\ moved' = moved /\ steady' = steady
              \/ RowChanges(job[n].token)
           /\ UNCHANGED <<configured, accountOf, recipient, gone, mishaps, switches>>
           /\ UNCHANGED <<phone, signIn, installed, signingIn, signingOut>>
           /\ UNCHANGED <<seen, tried, overtaken, early>>
<1>1. Working(n) /\ job[n].at = "prune" /\ tried' = tried
    BY DEF Prune, Working
<1>2. job[n].token \in Tokens
    BY <1>1, JobFacts DEF Job
<1>3. JobMoves(n)
    <2>1. GoOn(n, job[n].left) /\ job[n].left \in SUBSET job[n].left
        BY DEF Prune
    <2> QED
        BY <1>1, <2>1, WentOn
<1>4. devices' = [devices EXCEPT ![job[n].token] = None]
    BY DEF Prune
<1>5. CASE devices[job[n].token] = None
    <2>1. devices' = devices
        BY <1>2, <1>4, <1>5 DEF TypeOK
    <2> QED
        BY <1>1, <1>2, <1>3, <1>4, <1>5, <2>1 DEF Prune, rows, phones, calls, DeliveryInv, PhonesInv
<1>6. CASE devices[job[n].token] # None
    BY <1>1, <1>2, <1>3, <1>4, <1>6 DEF Prune, rows, phones, calls, DeliveryInv, PhonesInv
<1> QED
    BY <1>5, <1>6

(* The steps of the system, as the lemmas below go through them. *)
LEMMA Steps ==
    ASSUME TypeOK, DeliveryInv, [Next]_vars
    PROVE  \/ \E a \in Accounts, t \in Tokens : SignIn(a, t) \/ Unregister(a, t)
           \/ \E c \in signingIn : Register(c)
           \/ \E x \in Notifications \cup Members : Forget(x)
           \/ \E t \in Tokens : SignOut(t) \/ Uninstall(t)
           \/ \E m \in Members, a \in Accounts : Link(m, a)
           \/ \E n \in Notifications, m \in Members : Create(n, m) \/ CreateUnqueued(n, m)
           \/ \E n \in Notifications : JobMoves(n) /\ Leaves(n)
           \/ \E n \in Notifications : Prune(n)
           \/ UNCHANGED vars
<1>1. ASSUME NEW n \in Notifications, JobStep(n), ~ Prune(n)
      PROVE  JobMoves(n) /\ Leaves(n)
    BY <1>1, FoundJob, SentJob, InvalidJob DEF JobStep
<1>2. ASSUME NEW n \in Notifications, Throw(n) \/ Crash(n)
      PROVE  JobMoves(n) /\ Leaves(n)
    BY <1>2, StoppedJob
<1>3. ASSUME NEW n \in Notifications, NEW t \in Tokens, Refuse(n, t)
      PROVE  JobMoves(n) /\ Leaves(n)
    BY <1>3, SentJob
<1> QED
    BY <1>1, <1>2, <1>3 DEF Next

----------------------------------------------------------------------------
LEMMA TypeStep ==
    ASSUME TypeOK, DeliveryInv, [Next]_vars
    PROVE  TypeOK'
<1>1. ASSUME NEW c \in signingIn, Register(c) PROVE TypeOK'
    <2> c \in Call /\ c.account \in Accounts /\ c.token \in Tokens
        BY DEF TypeOK, Call
    <2> QED
        BY <1>1 DEF Register, Upsert, RowChanges, history, rows, phones, calls, TypeOK
<1>2. ASSUME NEW t \in Tokens, SignOut(t) PROVE TypeOK'
    BY <1>2 DEF SignOut, history, rows, phones, calls, TypeOK
<1>3. ASSUME NEW a \in Accounts, NEW t \in Tokens, Unregister(a, t) PROVE TypeOK'
    BY <1>3 DEF Unregister, Owned, RowChanges, history, rows, phones, calls, TypeOK
<1>4. ASSUME NEW t \in Tokens, Uninstall(t) PROVE TypeOK'
    BY <1>4 DEF Uninstall, history, rows, phones, calls, TypeOK
<1>5. ASSUME NEW m \in Members, NEW a \in Accounts, Link(m, a) PROVE TypeOK'
    BY <1>5 DEF Link, history, rows, phones, calls, TypeOK
<1>6. ASSUME NEW n \in Notifications, NEW m \in Members, Create(n, m) PROVE TypeOK'
    <2> DEFINE new == [job[n] EXCEPT !.at = "waiting"]
    <2>1. job[n] \in Job
        BY DEF TypeOK
    <2>2. new \in Job
        BY <2>1 DEF Job, JobPoints
    <2>3. job' = [job EXCEPT ![n] = new]
        BY <1>6 DEF Create
    <2> HIDE DEF new
    <2>4. job' \in [Notifications -> Job]
        BY <2>2, <2>3 DEF TypeOK
    <2>5. recipient' \in [Notifications -> Members \cup {None}]
        BY <1>6 DEF Create, TypeOK
    <2>6. steady' \in [Notifications -> SUBSET Tokens]
        BY <1>6 DEF Create, RegisteredTo, TypeOK
    <2> QED
        BY <1>6, <2>4, <2>5, <2>6 DEF Create, rows, phones, calls, TypeOK
<1>7. ASSUME NEW n \in Notifications, NEW m \in Members, CreateUnqueued(n, m)
      PROVE  TypeOK'
    BY <1>7 DEF CreateUnqueued, Mishap, history, rows, phones, calls, TypeOK
<1>8. ASSUME NEW n \in Notifications, JobMoves(n), Leaves(n) PROVE TypeOK'
    BY <1>8 DEF JobMoves, Leaves, TypeOK
<1>9. ASSUME NEW n \in Notifications, Prune(n) PROVE TypeOK'
    BY <1>9, PrunedJob DEF RowChanges, JobMoves, TypeOK
<1>11. ASSUME NEW a \in Accounts, NEW t \in Tokens, SignIn(a, t) PROVE TypeOK'
    BY <1>11 DEF SignIn, history, rows, Call, TypeOK
<1>12. ASSUME NEW x \in Notifications \cup Members, Forget(x) PROVE TypeOK'
    BY <1>12 DEF Forget, history, phones, calls, TypeOK
<1>10. ASSUME UNCHANGED vars PROVE TypeOK'
    BY <1>10 DEF vars, history, rows, phones, calls, TypeOK
<1> QED
    BY <1>1, <1>2, <1>3, <1>4, <1>5, <1>6, <1>7, <1>8, <1>9, <1>10, <1>11, <1>12, Steps

LEMMA JobsStep ==
    ASSUME TypeOK, DeliveryInv, [Next]_vars
    PROVE  JobsInv'
<1>1. ASSUME NEW c \in signingIn, Register(c) PROVE JobsInv'
    BY <1>1 DEF Register, Upsert, RowChanges, history, rows, phones, calls, TypeOK, DeliveryInv, JobsInv, Working
<1>2. ASSUME NEW t \in Tokens, SignOut(t) PROVE JobsInv'
    BY <1>2 DEF SignOut, history, rows, phones, calls, TypeOK, DeliveryInv, JobsInv, Working
<1>3. ASSUME NEW a \in Accounts, NEW t \in Tokens, Unregister(a, t) PROVE JobsInv'
    BY <1>3 DEF Unregister, Owned, RowChanges, history, rows, phones, calls, TypeOK, DeliveryInv, JobsInv,
       Working
<1>4. ASSUME NEW t \in Tokens, Uninstall(t) PROVE JobsInv'
    BY <1>4 DEF Uninstall, history, rows, phones, calls, TypeOK, DeliveryInv, JobsInv, Working
<1>5. ASSUME NEW m \in Members, NEW a \in Accounts, Link(m, a) PROVE JobsInv'
    BY <1>5 DEF Link, history, rows, phones, calls, TypeOK, DeliveryInv, JobsInv, Working
<1>6. ASSUME NEW n \in Notifications, NEW m \in Members, Create(n, m) PROVE JobsInv'
    <2>1. job[n] = NoJob /\ steady[n] = {} /\ n \in Notifications
        BY <1>6 DEF Create, DeliveryInv, JobsInv
    <2> DEFINE new == [NoJob EXCEPT !.at = "waiting"]
    <2>2. /\ new.at = "waiting" /\ new.tries = 0 /\ new.left = {} /\ new.token = None
        BY DEF NoJob
    <2>3. job' = [job EXCEPT ![n] = new]
        BY <1>6, <2>1 DEF Create
    <2> HIDE DEF new
    <2>4. job'[n] = new /\ \A k \in Notifications : k # n => job'[k] = job[k]
        BY <2>3 DEF TypeOK
    <2>5. /\ recipient'[n] = m /\ m # None /\ accountOf' = accountOf
          /\ gone' = gone /\ m \notin gone
          /\ \A k \in Notifications : k # n => recipient'[k] = recipient[k] /\ steady'[k] = steady[k]
        BY <1>6 DEF Create, TypeOK
    <2>6. 0 < Attempts
        BY NumberAssumption
    <2> QED
        BY <2>2, <2>4, <2>5, <2>6 DEF DeliveryInv, JobsInv, Working
<1>7. ASSUME NEW n \in Notifications, NEW m \in Members, CreateUnqueued(n, m)
      PROVE  JobsInv'
    BY <1>7 DEF CreateUnqueued, Mishap, history, rows, phones, calls, NoJob, TypeOK, DeliveryInv, JobsInv,
       Working
<1>8. ASSUME NEW n \in Notifications, JobMoves(n), Leaves(n) PROVE JobsInv'
    BY <1>8 DEF JobMoves, Leaves, TypeOK, DeliveryInv, JobsInv, Working
<1>9. ASSUME NEW n \in Notifications, Prune(n) PROVE JobsInv'
    BY <1>9, PrunedJob DEF RowChanges, JobMoves, TypeOK, DeliveryInv, JobsInv, Working
<1>11. ASSUME NEW a \in Accounts, NEW t \in Tokens, SignIn(a, t) PROVE JobsInv'
    BY <1>11 DEF SignIn, history, rows, calls, TypeOK, DeliveryInv, JobsInv, Working
<1>12. ASSUME NEW x \in Notifications \cup Members, Forget(x) PROVE JobsInv'
    BY <1>12 DEF Forget, history, phones, calls, TypeOK, DeliveryInv, JobsInv, Working
<1>10. ASSUME UNCHANGED vars PROVE JobsInv'
    BY <1>10 DEF vars, history, rows, phones, calls, TypeOK, DeliveryInv, JobsInv, Working
<1> QED
    BY <1>1, <1>2, <1>3, <1>4, <1>5, <1>6, <1>7, <1>8, <1>9, <1>10, <1>11, <1>12, Steps

LEMMA TargetsStep ==
    ASSUME TypeOK, DeliveryInv, [Next]_vars
    PROVE  TargetsInv'
<1>1. ASSUME NEW c \in signingIn, Register(c) PROVE TargetsInv'
    BY <1>1 DEF Register, Upsert, RowChanges, history, rows, phones, calls, TypeOK, DeliveryInv, JobsInv,
       TargetsInv, Holds
<1>2. ASSUME NEW t \in Tokens, SignOut(t) PROVE TargetsInv'
    BY <1>2 DEF SignOut, history, rows, phones, calls, TypeOK, DeliveryInv, JobsInv, TargetsInv, Holds
<1>3. ASSUME NEW a \in Accounts, NEW t \in Tokens, Unregister(a, t) PROVE TargetsInv'
    BY <1>3 DEF Unregister, Owned, RowChanges, history, rows, phones, calls, TypeOK, DeliveryInv, JobsInv,
       TargetsInv, Holds
<1>4. ASSUME NEW t \in Tokens, Uninstall(t) PROVE TargetsInv'
    BY <1>4 DEF Uninstall, history, rows, phones, calls, TypeOK, DeliveryInv, JobsInv, TargetsInv, Holds
<1>5. ASSUME NEW m \in Members, NEW a \in Accounts, Link(m, a) PROVE TargetsInv'
    BY <1>5 DEF Link, history, rows, phones, calls, TypeOK, DeliveryInv, JobsInv, TargetsInv, Holds
<1>6. ASSUME NEW n \in Notifications, NEW m \in Members, Create(n, m) PROVE TargetsInv'
    BY <1>6 DEF Create, RegisteredTo, history, rows, phones, calls, NoJob, TypeOK, DeliveryInv, JobsInv,
       TargetsInv, Holds
<1>7. ASSUME NEW n \in Notifications, NEW m \in Members, CreateUnqueued(n, m)
      PROVE  TargetsInv'
    BY <1>7 DEF CreateUnqueued, Mishap, history, rows, phones, calls, NoJob, TypeOK, DeliveryInv, JobsInv,
       TargetsInv, Holds
<1>8. ASSUME NEW n \in Notifications, JobMoves(n), Leaves(n) PROVE TargetsInv'
    BY <1>8 DEF JobMoves, Leaves, TypeOK, DeliveryInv, JobsInv, TargetsInv, Holds
<1>9. ASSUME NEW n \in Notifications, Prune(n) PROVE TargetsInv'
    <2>1. /\ JobMoves(n) /\ job[n].token \in Tokens
          /\ devices' = [devices EXCEPT ![job[n].token] = None]
          /\ \/ devices' = devices /\ moved' = moved
             \/ RowChanges(job[n].token)
          /\ UNCHANGED <<accountOf, recipient, seen>>
        BY <1>9, PrunedJob
    <2>2. CASE devices' = devices /\ moved' = moved
        BY <2>1, <2>2 DEF JobMoves, TypeOK, DeliveryInv, JobsInv, TargetsInv, Holds
    <2>3. CASE RowChanges(job[n].token)
        BY <2>1, <2>3 DEF RowChanges, JobMoves, TypeOK, DeliveryInv, JobsInv, TargetsInv, Holds
    <2> QED
        BY <2>1, <2>2, <2>3
<1>11. ASSUME NEW a \in Accounts, NEW t \in Tokens, SignIn(a, t) PROVE TargetsInv'
    BY <1>11 DEF SignIn, history, rows, calls, TypeOK, DeliveryInv, TargetsInv, Holds
<1>12. ASSUME NEW x \in Notifications \cup Members, Forget(x) PROVE TargetsInv'
    BY <1>12 DEF Forget, history, phones, calls, TypeOK, DeliveryInv, TargetsInv, Holds
<1>10. ASSUME UNCHANGED vars PROVE TargetsInv'
    BY <1>10 DEF vars, history, rows, phones, calls, TypeOK, DeliveryInv, JobsInv, TargetsInv, Holds
<1> QED
    BY <1>1, <1>2, <1>3, <1>4, <1>5, <1>6, <1>7, <1>8, <1>9, <1>10, <1>11, <1>12, Steps

LEMMA SteadyStep ==
    ASSUME TypeOK, DeliveryInv, [Next]_vars
    PROVE  SteadyInv'
<1>1. ASSUME NEW c \in signingIn, Register(c) PROVE SteadyInv'
    <2>1. /\ \A k \in Notifications : \A s \in steady'[k] :
                s \in steady[k] /\ devices'[s] = devices[s]
          /\ UNCHANGED <<accountOf, recipient, job, tried>>
        BY <1>1 DEF Register, Upsert, RowChanges, TypeOK, rows
    <2> QED
        BY <2>1 DEF DeliveryInv, SteadyInv
<1>2. ASSUME NEW t \in Tokens, SignOut(t) PROVE SteadyInv'
    BY <1>2 DEF SignOut, history, rows, phones, calls, TypeOK, DeliveryInv, JobsInv, SteadyInv
<1>3. ASSUME NEW a \in Accounts, NEW t \in Tokens, Unregister(a, t) PROVE SteadyInv'
    <2>1. /\ \A k \in Notifications : \A s \in steady'[k] :
                s \in steady[k] /\ devices'[s] = devices[s]
          /\ UNCHANGED <<accountOf, recipient, job, tried>>
        BY <1>3 DEF Unregister, Owned, RowChanges, TypeOK, rows
    <2> QED
        BY <2>1 DEF DeliveryInv, SteadyInv
<1>4. ASSUME NEW t \in Tokens, Uninstall(t) PROVE SteadyInv'
    BY <1>4 DEF Uninstall, history, rows, phones, calls, TypeOK, DeliveryInv, JobsInv, SteadyInv
<1>5. ASSUME NEW m \in Members, NEW a \in Accounts, Link(m, a) PROVE SteadyInv'
    <2>1. ASSUME NEW k \in Notifications, NEW s \in steady[k]
          PROVE  accountOf'[recipient[k]] = accountOf[recipient[k]]
        <3>1. accountOf[recipient[k]] # None
            BY DEF DeliveryInv, SteadyInv
        <3>2. recipient[k] \in Members
            BY <2>1 DEF TypeOK, DeliveryInv, JobsInv
        <3> QED
            BY <1>5, <3>1, <3>2 DEF Link, TypeOK
    <2> QED
        BY <1>5, <2>1 DEF Link, history, DeliveryInv, SteadyInv
<1>6. ASSUME NEW n \in Notifications, NEW m \in Members, Create(n, m) PROVE SteadyInv'
    <2>1. job[n] = NoJob /\ steady[n] = {} /\ n \in Notifications
        BY <1>6 DEF Create, DeliveryInv, JobsInv
    <2> DEFINE new == [NoJob EXCEPT !.at = "waiting"]
    <2>2. /\ new.at = "waiting" /\ new.tries = 0 /\ new.left = {} /\ new.token = None
        BY DEF NoJob
    <2>3. job' = [job EXCEPT ![n] = new]
        BY <1>6, <2>1 DEF Create
    <2> HIDE DEF new
    <2>4. job'[n] = new /\ \A k \in Notifications : k # n => job'[k] = job[k]
        BY <2>3 DEF TypeOK
    <2>5. /\ recipient'[n] = m /\ steady'[n] = RegisteredTo(accountOf[m])
          /\ \A k \in Notifications : k # n => recipient'[k] = recipient[k] /\ steady'[k] = steady[k]
          /\ UNCHANGED <<accountOf, devices, tried>>
        BY <1>6 DEF Create, TypeOK
    <2>6. \A s \in RegisteredTo(accountOf[m]) : devices[s] = accountOf[m] /\ devices[s] # None
        BY DEF RegisteredTo
    <2>7. ASSUME NEW k \in Notifications, NEW s \in steady'[k]
          PROVE  /\ devices'[s] = accountOf'[recipient'[k]] /\ devices'[s] # None
                 /\ job'[k].at \in {"send", "prune"} => s \in job'[k].left \/ <<s, k>> \in tried'
        <3>1. CASE k = n
            BY <2>2, <2>4, <2>5, <2>6, <2>7, <3>1
        <3>2. CASE k # n
            BY <2>4, <2>5, <2>7, <3>2 DEF DeliveryInv, SteadyInv
        <3> QED
            BY <3>1, <3>2
    <2> QED
        BY <2>7 DEF SteadyInv
<1>7. ASSUME NEW n \in Notifications, NEW m \in Members, CreateUnqueued(n, m)
      PROVE  SteadyInv'
    <2>1. steady[n] = {} /\ \A k \in Notifications : k # n => recipient'[k] = recipient[k]
        BY <1>7 DEF CreateUnqueued, DeliveryInv, JobsInv, TypeOK
    <2>2. UNCHANGED <<devices, accountOf, job, steady, tried>>
        BY <1>7 DEF CreateUnqueued, history
    <2>3. \A k \in Notifications : \A s \in steady'[k] :
              s \in steady[k] /\ recipient'[k] = recipient[k]
        BY <2>1, <2>2
    <2>4. ASSUME NEW k \in Notifications, NEW s \in steady'[k]
          PROVE  /\ devices'[s] = accountOf'[recipient'[k]] /\ devices'[s] # None
                 /\ job'[k].at \in {"send", "prune"} => s \in job'[k].left \/ <<s, k>> \in tried'
        <3>1. s \in steady[k] /\ recipient'[k] = recipient[k]
            BY <2>3
        <3> QED
            BY <2>2, <3>1 DEF DeliveryInv, SteadyInv
    <2> QED
        BY <2>4 DEF SteadyInv
<1>8. ASSUME NEW n \in Notifications, JobMoves(n), Leaves(n) PROVE SteadyInv'
    <2>1. /\ job'[n].at \in {"send", "prune"} =>
                \A s \in steady[n] : s \in job'[n].left \/ <<s, n>> \in tried'
          /\ \A k \in Notifications : k # n => job'[k] = job[k]
        BY <1>8 DEF JobMoves
    <2>2. tried \subseteq tried' /\ UNCHANGED <<devices, accountOf, recipient, steady>>
        BY <1>8 DEF Leaves
    <2> QED
        BY <2>1, <2>2 DEF DeliveryInv, SteadyInv
<1>9. ASSUME NEW n \in Notifications, Prune(n) PROVE SteadyInv'
    <2>1. /\ job'[n].at \in {"send", "prune"} =>
                \A s \in steady[n] : s \in job'[n].left \/ <<s, n>> \in tried'
          /\ \A k \in Notifications : k # n => job'[k] = job[k]
        BY <1>9, PrunedJob DEF JobMoves
    <2>2. /\ \A k \in Notifications : \A s \in steady'[k] :
                s \in steady[k] /\ devices'[s] = devices[s]
          /\ UNCHANGED <<accountOf, recipient, tried>>
        BY <1>9, PrunedJob DEF RowChanges, TypeOK
    <2> QED
        BY <2>1, <2>2 DEF DeliveryInv, SteadyInv
<1>11. ASSUME NEW a \in Accounts, NEW t \in Tokens, SignIn(a, t) PROVE SteadyInv'
    BY <1>11 DEF SignIn, history, rows, calls, TypeOK, DeliveryInv, SteadyInv
<1>12. ASSUME NEW x \in Notifications \cup Members, Forget(x) PROVE SteadyInv'
    BY <1>12 DEF Forget, history, phones, calls, TypeOK, DeliveryInv, SteadyInv
<1>10. ASSUME UNCHANGED vars PROVE SteadyInv'
    BY <1>10 DEF vars, history, rows, phones, calls, TypeOK, DeliveryInv, JobsInv, SteadyInv
<1> QED
    BY <1>1, <1>2, <1>3, <1>4, <1>5, <1>6, <1>7, <1>8, <1>9, <1>10, <1>11, <1>12, Steps

(* A step that changes no phone, and no row of a phone whose registration is sure. *)
LEMMA PhonesKept ==
    ASSUME TypeOK, DeliveryInv,
           UNCHANGED <<phone, signIn, installed, signingIn, overtaken>>,
           switches' = switches, signingOut' \subseteq signingOut,
           \A t \in Tokens : Sure(t) => devices'[t] = devices[t],
           \A n \in Notifications : job'[n].at = "prune" =>
               \/ job[n].at = "prune" /\ job'[n].token = job[n].token
               \/ job'[n].token \notin installed
    PROVE  PhonesInv'
<1>1. ASSUME NEW c \in signingIn, Own(c)' PROVE c.account = phone'[c.token]
    BY <1>1 DEF Own, DeliveryInv, PhonesInv
<1>2. ASSUME NEW t \in Tokens, Sure(t)'
      PROVE  /\ devices'[t] = phone'[t]
             /\ <<phone'[t], t>> \notin signingOut'
             /\ \A c \in signingIn' : c.token = t => c.account = phone'[t]
             /\ \A n \in Notifications : job'[n].at = "prune" => job'[n].token # t
    <2>1. Sure(t) /\ phone[t] # None
        BY <1>2 DEF Sure, SignedIn, Own
    <2>2. t \in installed
        BY <2>1 DEF DeliveryInv, PhonesInv
    <2> QED
        BY <2>1, <2>2 DEF DeliveryInv, PhonesInv
<1>3. \A c \in signingIn' : c.nr <= switches'
    BY DEF DeliveryInv, PhonesInv
<1>4. \A t \in Tokens : signIn'[t] <= switches' /\ (phone'[t] # None => t \in installed')
    BY DEF DeliveryInv, PhonesInv
<1> QED
    BY <1>1, <1>2, <1>3, <1>4 DEF PhonesInv

LEMMA PhonesStep ==
    ASSUME TypeOK, DeliveryInv, [Next]_vars
    PROVE  PhonesInv'
<1>1. ASSUME NEW c \in signingIn, Register(c) PROVE PhonesInv'
    <2>1. /\ c \in Call /\ c.token \in Tokens /\ signingIn' = signingIn \ {c}
          /\ devices' = [devices EXCEPT ![c.token] = c.account]
          /\ overtaken' = IF ~ Own(c) THEN overtaken
                          ELSE IF Undoes(c) THEN overtaken \cup {c.token} ELSE overtaken \ {c.token}
          /\ UNCHANGED <<job, phone, signIn, installed, signingOut, switches>>
        BY <1>1 DEF Register, Upsert, TypeOK, Call
    <2>2. \A d \in signingIn : Own(d)' <=> Own(d)
        BY <2>1 DEF Own
    <2>3. ASSUME NEW t \in Tokens, Sure(t)'
          PROVE  /\ devices'[t] = phone'[t]
                 /\ <<phone'[t], t>> \notin signingOut'
                 /\ \A d \in signingIn' : d.token = t => d.account = phone'[t]
                 /\ \A n \in Notifications : job'[n].at = "prune" => job'[n].token # t
        <3>1. phone[t] # None /\ t \notin overtaken' /\ \A d \in signingIn \ {c} : d.token = t => ~ Own(d)
            BY <2>1, <2>2, <2>3 DEF Sure, SignedIn
        <3>2. CASE t = c.token /\ Own(c)
            <4>1. ~ Undoes(c) /\ c.account = phone[t]
                BY <2>1, <3>1, <3>2 DEF DeliveryInv, PhonesInv
            <4> QED
                BY <2>1, <3>2, <4>1 DEF Undoes, TypeOK
        <3>3. CASE t = c.token => ~ Own(c)
            <4>1. Sure(t)
                BY <2>1, <3>1, <3>3 DEF Sure, SignedIn
            <4>2. /\ devices[t] = phone[t]
                  /\ <<phone[t], t>> \notin signingOut
                  /\ \A d \in signingIn : d.token = t => d.account = phone[t]
                  /\ \A n \in Notifications : job[n].at = "prune" => job[n].token # t
                BY <4>1 DEF DeliveryInv, PhonesInv
            <4> QED
                BY <2>1, <4>2 DEF TypeOK
        <3> QED
            BY <3>2, <3>3
    <2>4. \A d \in signingIn' : d.nr <= switches' /\ (Own(d)' => d.account = phone'[d.token])
        BY <2>1, <2>2 DEF DeliveryInv, PhonesInv
    <2>5. \A t \in Tokens : signIn'[t] <= switches' /\ (phone'[t] # None => t \in installed')
        BY <2>1 DEF DeliveryInv, PhonesInv
    <2> QED
        BY <2>3, <2>4, <2>5 DEF PhonesInv
<1>2. ASSUME NEW t \in Tokens, SignOut(t) \/ Uninstall(t) PROVE PhonesInv'
    <2>1. /\ phone' = [phone EXCEPT ![t] = None]
          /\ UNCHANGED <<devices, job, signIn, signingIn, switches, overtaken>>
          /\ installed \ {t} \subseteq installed'
          /\ \A s \in Tokens, a \in Accounts : s # t /\ <<a, s>> \in signingOut' => <<a, s>> \in signingOut
        BY <1>2 DEF SignOut, Uninstall, calls, history
    <2>2. phone'[t] = None /\ \A s \in Tokens : s # t => phone'[s] = phone[s]
        BY <2>1 DEF TypeOK
    <2>3. \A c \in signingIn : c.token \in Tokens /\ (Own(c)' => c.token # t /\ Own(c))
        BY <2>1, <2>2 DEF Own, TypeOK, Call
    <2>4. \A c \in signingIn : c.token # t /\ Own(c) => Own(c)'
        BY <2>1, <2>2, <2>3 DEF Own
    <2>5. ASSUME NEW s \in Tokens, Sure(s)' PROVE s # t /\ Sure(s) /\ phone[s] \in Accounts
        <3>1. s # t /\ phone[s] # None
            BY <2>2, <2>5 DEF Sure, SignedIn
        <3> QED
            BY <2>1, <2>2, <2>4, <2>5, <3>1 DEF Sure, SignedIn, TypeOK
    <2>6. ASSUME NEW s \in Tokens, Sure(s)'
          PROVE  /\ devices'[s] = phone'[s]
                 /\ <<phone'[s], s>> \notin signingOut'
                 /\ \A c \in signingIn' : c.token = s => c.account = phone'[s]
                 /\ \A n \in Notifications : job'[n].at = "prune" => job'[n].token # s
        BY <2>1, <2>2, <2>5, <2>6 DEF DeliveryInv, PhonesInv
    <2>7. \A c \in signingIn' : c.nr <= switches' /\ (Own(c)' => c.account = phone'[c.token])
        BY <2>1, <2>2, <2>3 DEF DeliveryInv, PhonesInv
    <2>8. \A s \in Tokens : signIn'[s] <= switches' /\ (phone'[s] # None => s \in installed')
        BY <2>1, <2>2 DEF DeliveryInv, PhonesInv
    <2> QED
        BY <2>6, <2>7, <2>8 DEF PhonesInv
<1>3. ASSUME NEW a \in Accounts, NEW t \in Tokens, SignIn(a, t) PROVE PhonesInv'
    <2>0. PICK new : new = [account |-> a, token |-> t, nr |-> switches']
        OBVIOUS
    <2>1. /\ phone' = [phone EXCEPT ![t] = a] /\ signIn' = [signIn EXCEPT ![t] = switches']
          /\ switches' = switches + 1 /\ switches \in Nat
          /\ installed' = installed \cup {t} /\ signingIn' = signingIn \cup {new}
          /\ UNCHANGED <<devices, job, signingOut, overtaken>>
        BY <1>3, <2>0 DEF SignIn, history, TypeOK
    <2>2. new.account = a /\ new.token = t /\ new.nr = switches' /\ a # None
        BY <2>0, NoneAssumption
    <2>3. /\ phone'[t] = a /\ signIn'[t] = switches'
          /\ \A s \in Tokens : s # t => phone'[s] = phone[s] /\ signIn'[s] = signIn[s]
        BY <2>1 DEF TypeOK
    <2>4. Own(new)'
        BY <2>1, <2>2, <2>3 DEF Own
    <2>5. \A c \in signingIn : c.token \in Tokens /\ c.nr \in Nat /\ c.nr <= switches
        BY DEF TypeOK, Call, DeliveryInv, PhonesInv
    <2>6. \A c \in signingIn : c.token # t => (Own(c)' <=> Own(c))
        BY <2>3, <2>5 DEF Own
    <2>7. \A c \in signingIn : c.token = t => ~ Own(c)'
        BY <2>1, <2>3, <2>5 DEF Own
    <2>8. ASSUME NEW s \in Tokens, Sure(s)' PROVE s # t /\ Sure(s)
        <3>1. s # t
            BY <2>1, <2>2, <2>4, <2>8 DEF Sure, SignedIn
        <3> QED
            BY <2>1, <2>3, <2>6, <2>8, <3>1 DEF Sure, SignedIn
    <2>9. ASSUME NEW s \in Tokens, Sure(s)'
          PROVE  /\ devices'[s] = phone'[s]
                 /\ <<phone'[s], s>> \notin signingOut'
                 /\ \A c \in signingIn' : c.token = s => c.account = phone'[s]
                 /\ \A n \in Notifications : job'[n].at = "prune" => job'[n].token # s
        BY <2>1, <2>2, <2>3, <2>8, <2>9 DEF DeliveryInv, PhonesInv
    <2>10. \A c \in signingIn' : c.nr <= switches' /\ (Own(c)' => c.account = phone'[c.token])
        <3>1. \A c \in signingIn : c.nr <= switches' /\ (Own(c)' => c.account = phone'[c.token])
            BY <2>1, <2>3, <2>5, <2>6, <2>7 DEF DeliveryInv, PhonesInv
        <3> QED
            BY <2>1, <2>2, <2>3, <3>1
    <2>11. \A s \in Tokens : signIn'[s] <= switches' /\ (phone'[s] # None => s \in installed')
        <3>1. \A s \in Tokens : signIn[s] \in Nat /\ signIn[s] <= switches
            BY DEF TypeOK, DeliveryInv, PhonesInv
        <3>2. \A s \in Tokens : signIn'[s] <= switches'
            BY <2>1, <2>3, <3>1
        <3>3. \A s \in Tokens : phone'[s] # None => s \in installed'
            BY <2>1, <2>3 DEF DeliveryInv, PhonesInv
        <3> QED
            BY <3>2, <3>3
    <2> QED
        BY <2>9, <2>10, <2>11 DEF PhonesInv
<1>4. ASSUME NEW a \in Accounts, NEW t \in Tokens, Unregister(a, t) PROVE PhonesInv'
    <2>1. /\ UNCHANGED <<job, phone, signIn, installed, signingIn, overtaken, switches>>
          /\ signingOut' \subseteq signingOut /\ <<a, t>> \in signingOut
          /\ devices' = devices
             \/ (devices[t] = a /\ devices' = [devices EXCEPT ![t] = None])
        BY <1>4 DEF Unregister, Owned
    <2>2. \A s \in Tokens : Sure(s) => devices'[s] = devices[s]
        BY <2>1 DEF TypeOK, DeliveryInv, PhonesInv
    <2> QED
        BY <2>1, <2>2, PhonesKept
<1>5. ASSUME NEW m \in Members, NEW a \in Accounts, Link(m, a) PROVE PhonesInv'
    BY <1>5, PhonesKept DEF Link, history, phones, calls
<1>6. ASSUME NEW n \in Notifications, NEW m \in Members, Create(n, m) PROVE PhonesInv'
    <2>1. job' = [job EXCEPT ![n].at = "waiting"]
        BY <1>6 DEF Create
    <2>2. \A k \in Notifications : job'[k].at = "prune" => job'[k] = job[k]
        BY <2>1 DEF TypeOK, Job
    <2> QED
        BY <1>6, <2>2, PhonesKept DEF Create, phones, calls
<1>7. ASSUME NEW n \in Notifications, NEW m \in Members, CreateUnqueued(n, m)
      PROVE  PhonesInv'
    BY <1>7, PhonesKept DEF CreateUnqueued, history, phones, calls
<1>8. ASSUME NEW n \in Notifications, JobMoves(n), Leaves(n) PROVE PhonesInv'
    <2>1. \A k \in Notifications : job'[k].at = "prune" =>
               \/ job[k].at = "prune" /\ job'[k].token = job[k].token
               \/ job'[k].token \notin installed
        BY <1>8 DEF JobMoves
    <2> QED
        BY <1>8, <2>1, PhonesKept DEF Leaves
<1>9. ASSUME NEW n \in Notifications, Prune(n) PROVE PhonesInv'
    <2>1. \A k \in Notifications : job'[k].at = "prune" =>
               \/ job[k].at = "prune" /\ job'[k].token = job[k].token
               \/ job'[k].token \notin installed
        BY <1>9, PrunedJob DEF JobMoves
    <2>2. \A s \in Tokens : Sure(s) => devices'[s] = devices[s]
        BY <1>9, PrunedJob DEF TypeOK
    <2> QED
        BY <1>9, <2>1, <2>2, PrunedJob, PhonesKept
<1>10. ASSUME UNCHANGED vars PROVE PhonesInv'
    BY <1>10, PhonesKept DEF vars, history, phones, calls
<1>11. ASSUME NEW x \in Notifications \cup Members, Forget(x) PROVE PhonesInv'
    BY <1>11, PhonesKept DEF Forget, history, phones, calls
<1> QED
    BY <1>1, <1>2, <1>3, <1>4, <1>5, <1>6, <1>7, <1>8, <1>9, <1>10, <1>11, Steps

LEMMA AnotherStep ==
    ASSUME TypeOK, DeliveryInv, NeverToAnother, [Next]_vars
    PROVE  NeverToAnother'
<1>1. ASSUME seen' = seen, moved \cup early \subseteq moved' \cup early',
             \A k \in Notifications : recipient[k] # None =>
                 /\ recipient'[k] = recipient[k]
                 /\ accountOf[recipient[k]] # None =>
                       accountOf'[recipient[k]] = accountOf[recipient[k]]
      PROVE  NeverToAnother'
    <2> SUFFICES ASSUME NEW s \in seen, <<s[1], s[2]>> \notin moved \cup early
                 PROVE  s[3] \in {None, accountOf'[recipient'[s[2]]]}
        BY <1>1 DEF NeverToAnother
    <2>1. s[2] \in Notifications /\ recipient[s[2]] # None
        BY DEF TypeOK, DeliveryInv, TargetsInv
    <2> QED
        BY <1>1, <2>1 DEF NeverToAnother
<1>2. ASSUME NEW c \in signingIn, Register(c) PROVE NeverToAnother'
    BY <1>1, <1>2 DEF Register, RowChanges, rows
<1>3. ASSUME NEW t \in Tokens, SignOut(t) \/ Uninstall(t) PROVE NeverToAnother'
    BY <1>1, <1>3 DEF SignOut, Uninstall, rows, history
<1>4. ASSUME NEW a \in Accounts, NEW t \in Tokens, SignIn(a, t) \/ Unregister(a, t)
      PROVE  NeverToAnother'
    BY <1>1, <1>4 DEF SignIn, Unregister, RowChanges, rows, history
<1>5. ASSUME NEW m \in Members, NEW a \in Accounts, Link(m, a) PROVE NeverToAnother'
    BY <1>1, <1>5 DEF Link, history, TypeOK
<1>6. ASSUME NEW n \in Notifications, NEW m \in Members, Create(n, m) \/ CreateUnqueued(n, m)
      PROVE  NeverToAnother'
    BY <1>1, <1>6 DEF Create, CreateUnqueued, history, TypeOK
<1>7. ASSUME NEW x \in Notifications \cup Members, Forget(x) PROVE NeverToAnother'
    BY <1>1, <1>7 DEF Forget, history
<1>8. ASSUME NEW n \in Notifications, JobMoves(n), Leaves(n) PROVE NeverToAnother'
    <2>1. UNCHANGED <<accountOf, recipient, moved>>
        BY <1>8 DEF Leaves
    <2>2. CASE seen' = seen /\ early' = early
        BY <1>1, <2>1, <2>2
    <2>3. ASSUME NEW t \in Tokens, t \in job[n].left, seen' = seen \cup {<<t, n, phone[t]>>},
                 early' = IF Sure(t) THEN early ELSE early \cup {<<t, n>>}
          PROVE  NeverToAnother'
        <3>1. ASSUME <<t, n>> \notin moved \cup early'
              PROVE  phone[t] \in {None, accountOf[recipient[n]]}
            <4>1. devices[t] = accountOf[recipient[n]] /\ devices[t] # None
                BY <2>3, <3>1 DEF DeliveryInv, TargetsInv, Holds
            <4>2. Sure(t)
                BY <2>3, <3>1
            <4> QED
                BY <4>1, <4>2 DEF DeliveryInv, PhonesInv
        <3> DEFINE new == <<t, n, phone[t]>>
        <3>2. new[1] = t /\ new[2] = n /\ new[3] = phone[t]
            OBVIOUS
        <3>3. seen' = seen \cup {new} /\ early \subseteq early'
            BY <2>3
        <3> HIDE DEF new
        <3> QED
            BY <2>1, <3>1, <3>2, <3>3 DEF NeverToAnother
    <2> QED
        BY <1>8, <2>2, <2>3 DEF Leaves
<1>9. ASSUME NEW n \in Notifications, Prune(n) PROVE NeverToAnother'
    BY <1>1, <1>9, PrunedJob DEF RowChanges
<1>10. ASSUME UNCHANGED vars PROVE NeverToAnother'
    BY <1>1, <1>10 DEF vars, history, rows
<1> QED
    BY <1>2, <1>3, <1>4, <1>5, <1>6, <1>7, <1>8, <1>9, <1>10, Steps

LEMMA TriedStep ==
    ASSUME TypeOK, DeliveryInv, EveryDeviceTried, [Next]_vars
    PROVE  EveryDeviceTried'
<1>1. ASSUME configured' = configured, gone \subseteq gone', tried' = tried,
             \A k \in Notifications : job'[k].at = "done" =>
                 job[k].at = "done" /\ steady'[k] \subseteq steady[k]
      PROVE  EveryDeviceTried'
    BY <1>1 DEF EveryDeviceTried
<1>2. ASSUME NEW c \in signingIn, Register(c) PROVE EveryDeviceTried'
    BY <1>1, <1>2 DEF Register, RowChanges, rows, TypeOK
<1>3. ASSUME NEW t \in Tokens, SignOut(t) \/ Uninstall(t) PROVE EveryDeviceTried'
    BY <1>1, <1>3 DEF SignOut, Uninstall, rows, history
<1>4. ASSUME NEW a \in Accounts, NEW t \in Tokens, SignIn(a, t) \/ Unregister(a, t)
      PROVE  EveryDeviceTried'
    BY <1>1, <1>4 DEF SignIn, Unregister, RowChanges, rows, history, TypeOK
<1>5. ASSUME NEW m \in Members, NEW a \in Accounts, Link(m, a) PROVE EveryDeviceTried'
    BY <1>1, <1>5 DEF Link, history
<1>6. ASSUME NEW n \in Notifications, NEW m \in Members, Create(n, m) PROVE EveryDeviceTried'
    <2>1. job' = [job EXCEPT ![n].at = "waiting"] /\ \A k \in Notifications : k # n => steady'[k] = steady[k]
        BY <1>6 DEF Create, TypeOK
    <2>2. \A k \in Notifications : job'[k].at = "done" => k # n /\ job'[k] = job[k]
        BY <2>1 DEF TypeOK, Job
    <2> QED
        BY <1>1, <1>6, <2>1, <2>2 DEF Create
<1>7. ASSUME NEW n \in Notifications, NEW m \in Members, CreateUnqueued(n, m)
      PROVE  EveryDeviceTried'
    BY <1>1, <1>7 DEF CreateUnqueued, history
<1>8. ASSUME NEW n \in Notifications, JobMoves(n), Leaves(n) PROVE EveryDeviceTried'
    BY <1>8 DEF JobMoves, Leaves, EveryDeviceTried
<1>9. ASSUME NEW n \in Notifications, Prune(n) PROVE EveryDeviceTried'
    <2>1. /\ job'[n].at = "done" /\ configured /\ n \notin gone =>
                \A s \in steady[n] : s \in job'[n].left \/ <<s, n>> \in tried'
          /\ job'[n].at = "done" => job'[n].left = {}
          /\ \A k \in Notifications : k # n => job'[k] = job[k]
        BY <1>9, PrunedJob DEF JobMoves
    <2>2. /\ tried' = tried /\ configured' = configured /\ gone' = gone
          /\ \A k \in Notifications : steady'[k] \subseteq steady[k]
        BY <1>9, PrunedJob DEF RowChanges, TypeOK
    <2> QED
        BY <2>1, <2>2 DEF EveryDeviceTried
<1>10. ASSUME UNCHANGED vars PROVE EveryDeviceTried'
    BY <1>1, <1>10 DEF vars, history, rows
<1>11. ASSUME NEW x \in Notifications \cup Members, Forget(x) PROVE EveryDeviceTried'
    BY <1>1, <1>11 DEF Forget, history
<1> QED
    BY <1>2, <1>3, <1>4, <1>5, <1>6, <1>7, <1>8, <1>9, <1>10, <1>11, Steps

LEMMA InvInit ==
    ASSUME Init
    PROVE  TypeOK /\ DeliveryInv /\ NeverToAnother /\ EveryDeviceTried
<1>1. TypeOK
    BY DEF Init, TypeOK, Job, NoJob, JobPoints
<1>2. DeliveryInv
    BY DEF Init, DeliveryInv, JobsInv, TargetsInv, SteadyInv, PhonesInv, Holds, Working, NoJob, Sure,
       SignedIn
<1>3. NeverToAnother /\ EveryDeviceTried
    BY DEF Init, NeverToAnother, EveryDeviceTried, NoJob
<1> QED
    BY <1>1, <1>2, <1>3

LEMMA InvAlways == Spec => [](TypeOK /\ DeliveryInv)
<1>1. Init => TypeOK /\ DeliveryInv
    BY InvInit
<1>2. TypeOK /\ DeliveryInv /\ [Next]_vars => (TypeOK /\ DeliveryInv)'
    BY TypeStep, JobsStep, TargetsStep, SteadyStep, PhonesStep DEF DeliveryInv
<1> QED
    BY <1>1, <1>2, PTL DEF Spec

(* Devices, jobs, phones and what was sent keep their types. *)
THEOREM TypeCorrect == Spec => []TypeOK
    BY InvAlways, PTL

(* A notification is shown on a phone where another account is signed in only if
   the phone changed hands on the server after the job had read it, or before that
   account's own registration was there for sure: late register and unregister
   calls, prunes, retries and crashes change nothing about that. *)
THEOREM NeverShownToAnother == Spec => []NeverToAnother
<1>1. Init => NeverToAnother
    BY InvInit
<1>2. TypeOK /\ DeliveryInv /\ NeverToAnother /\ [Next]_vars => NeverToAnother'
    BY AnotherStep
<1> QED
    BY <1>1, <1>2, InvAlways, PTL DEF Spec

(* A phone whose register call was served stays registered to the account signed
   in on it, however late the calls of former sign-ins and prunes come, unless one
   that undoes the registration was under way just then. *)
THEOREM PhonesStayRegistered == Spec => []StaysRegistered
<1>1. TypeOK /\ DeliveryInv => StaysRegistered
    BY DEF DeliveryInv, PhonesInv, Sure, StaysRegistered
<1> QED
    BY <1>1, InvAlways, PTL

(* A job that ends, with APNs configured and its notification still there, has
   sent to every device that stayed its recipient's, over any number of failures,
   retries, crashes and prunes. *)
THEOREM EveryTargetTried == Spec => []EveryDeviceTried
<1>1. Init => EveryDeviceTried
    BY InvInit
<1>2. TypeOK /\ DeliveryInv /\ EveryDeviceTried /\ [Next]_vars => EveryDeviceTried'
    BY TriedStep
<1> QED
    BY <1>1, <1>2, InvAlways, PTL DEF Spec

----------------------------------------------------------------------------
(* The safety half of Settles: what the next call of a job needs is there, and
   every call brings the job nearer to its end. *)

(* What the next step of n's job asks for. *)
Ready(n) ==
    \/ job[n].at \in {"waiting", "recipient"} /\ recipient[n] \in Members
    \/ job[n].at = "targets" /\ job[n].account \in Accounts
    \/ job[n].at = "send" /\ \E t \in Tokens : t \in job[n].left
    \/ job[n].at = "prune" /\ job[n].token \in Tokens

NeverStuck == \A n \in Notifications : Working(n) => Ready(n)

(* The calls that n's job has before it at most, if none of them fails: one or
   two for every phone there is. *)
Effort(n) ==
    CASE job[n].at = "none"      -> 2 * Cardinality(Tokens) + 4
      [] job[n].at = "waiting"   -> 2 * Cardinality(Tokens) + 3
      [] job[n].at = "recipient" -> 2 * Cardinality(Tokens) + 2
      [] job[n].at = "targets"   -> 2 * Cardinality(Tokens) + 1
      [] job[n].at = "send"      -> 2 * Cardinality(job[n].left)
      [] job[n].at = "prune"     -> 2 * Cardinality(job[n].left) + 1
      [] OTHER -> 0

Progress(n) ==
    /\ JobStep(n) => Effort(n)' < Effort(n)
    /\ Throw(n) \/ Crash(n) \/ Effort(n)' <= Effort(n)

EffortShrinks == [][\A n \in Notifications : Progress(n)]_vars

Less(n) == Effort(n) \in Nat /\ Effort(n)' \in Nat /\ Effort(n)' < Effort(n)

(* The number of phones that are left. *)
LEMMA FewLeft ==
    ASSUME IsFiniteSet(Tokens), NEW S \in SUBSET Tokens
    PROVE  /\ IsFiniteSet(S) /\ Cardinality(S) \in Nat
           /\ Cardinality(Tokens) \in Nat /\ Cardinality(S) <= Cardinality(Tokens)
           /\ S # {} => Cardinality(S) > 0
           /\ \A t \in S : Cardinality(S \ {t}) = Cardinality(S) - 1
<1>1. IsFiniteSet(S) /\ Cardinality(S) <= Cardinality(Tokens)
    BY FS_Subset
<1>2. Cardinality(S) \in Nat /\ Cardinality(Tokens) \in Nat
    BY <1>1, FS_CardinalityType
<1>3. S # {} => Cardinality(S) # 0
    BY <1>1, FS_EmptySet
<1>4. \A t \in S : Cardinality(S \ {t}) = Cardinality(S) - 1
    BY <1>1, FS_RemoveElement
<1> QED
    BY <1>1, <1>2, <1>3, <1>4

(* A job that goes on has less to do. *)
LEMMA GoneOnEffort ==
    ASSUME TypeOK, IsFiniteSet(Tokens), NEW n \in Notifications,
           NEW rest \in SUBSET Tokens, GoOn(n, rest)
    PROVE  /\ Effort(n)' <= 2 * Cardinality(rest)
           /\ Effort(n)' \in Nat
<1>1. /\ job'[n].left = rest
      /\ job'[n].at = IF rest = {} THEN "done" ELSE "send"
    BY GoOnJob
<1>2. Cardinality(rest) \in Nat
    BY FewLeft
<1>3. CASE rest = {}
    <2>1. Effort(n)' = 0
        BY <1>1, <1>3 DEF Effort
    <2> QED
        BY <1>2, <2>1
<1>4. CASE rest # {}
    <2>1. Effort(n)' = 2 * Cardinality(rest)
        BY <1>1, <1>4 DEF Effort
    <2> QED
        BY <1>2, <2>1
<1> QED
    BY <1>3, <1>4

LEMMA SentEffort ==
    ASSUME TypeOK, IsFiniteSet(Tokens), NEW n \in Notifications, NEW t \in Tokens,
           Accept(n, t) \/ Refuse(n, t) \/ Invalid(n, t)
    PROVE  Less(n)
<1> DEFINE left == job[n].left
           rest == left \ {t}
<1>1. job[n] \in Job /\ job[n].at = "send" /\ t \in left /\ left \in SUBSET Tokens
    BY DEF TypeOK, Job, Accept, Refuse, Invalid
<1>2. /\ Cardinality(rest) = Cardinality(left) - 1
      /\ Cardinality(left) \in Nat /\ rest \in SUBSET Tokens
      /\ Cardinality(rest) \in Nat
    BY <1>1, FewLeft
<1>3. Effort(n) = 2 * Cardinality(left)
    BY <1>1 DEF Effort
<1>4. CASE Invalid(n, t)
    <2>1. job'[n].at = "prune" /\ job'[n].left = rest
        BY <1>1, <1>4 DEF Invalid, StillLeft, TypeOK, Job
    <2>2. Effort(n)' = 2 * Cardinality(rest) + 1
        BY <2>1 DEF Effort
    <2> HIDE DEF left, rest
    <2> QED
        BY <1>2, <1>3, <2>2 DEF Less
<1>5. CASE Accept(n, t) \/ Refuse(n, t)
    <2>1. GoOn(n, rest)
        BY <1>5 DEF Accept, Refuse, StillLeft
    <2>2. Effort(n)' <= 2 * Cardinality(rest) /\ Effort(n)' \in Nat
        BY <1>2, <2>1, GoneOnEffort
    <2> HIDE DEF left, rest
    <2> QED
        BY <1>2, <1>3, <2>2 DEF Less
<1> QED
    BY <1>4, <1>5

LEMMA PrunedEffort ==
    ASSUME TypeOK, IsFiniteSet(Tokens), NEW n \in Notifications, Prune(n)
    PROVE  Less(n)
<1>1. job[n].at = "prune" /\ GoOn(n, job[n].left) /\ job[n].left \in SUBSET Tokens
    BY DEF Prune, TypeOK, Job
<1>2. Effort(n)' <= 2 * Cardinality(job[n].left) /\ Effort(n)' \in Nat
    BY <1>1, GoneOnEffort
<1>3. Effort(n) = 2 * Cardinality(job[n].left) + 1 /\ Cardinality(job[n].left) \in Nat
    BY <1>1, FewLeft DEF Effort
<1> QED
    BY <1>2, <1>3 DEF Less

LEMMA FoundEffort ==
    ASSUME TypeOK, DeliveryInv, IsFiniteSet(Tokens), NEW n \in Notifications,
           FindNotification(n) \/ FindRecipient(n) \/ FindTargets(n)
    PROVE  Less(n)
<1>1. Cardinality(Tokens) \in Nat
    BY FewLeft
<1>4. CASE FindNotification(n)
    <2>1. job[n].at = "waiting" /\ job'[n].at \in {"done", "recipient"}
        BY <1>4, NotificationFound DEF FindNotification
    <2>2. /\ Effort(n) = 2 * Cardinality(Tokens) + 3
          /\ Effort(n)' \in {0, 2 * Cardinality(Tokens) + 2}
        BY <2>1 DEF Effort
    <2> QED
        BY <1>1, <2>2 DEF Less
<1>2. CASE FindRecipient(n)
    <2>1. job[n].at = "recipient" /\ job'[n].at \in {"done", "targets"}
        BY <1>2, RecipientFound DEF FindRecipient
    <2>2. /\ Effort(n) = 2 * Cardinality(Tokens) + 2
          /\ Effort(n)' \in {0, 2 * Cardinality(Tokens) + 1}
        BY <2>1 DEF Effort
    <2> QED
        BY <1>1, <2>2 DEF Less
<1>3. CASE FindTargets(n)
    <2>1. /\ job[n].at = "targets" /\ job'[n].at \in {"done", "send"}
          /\ job'[n].left \in SUBSET Tokens
        BY <1>3, TargetsFound DEF FindTargets, RegisteredTo
    <2>2. /\ Effort(n) = 2 * Cardinality(Tokens) + 1
          /\ Effort(n)' \in {0, 2 * Cardinality(job'[n].left)}
        BY <2>1 DEF Effort
    <2>3. /\ Cardinality(job'[n].left) \in Nat
          /\ Cardinality(job'[n].left) <= Cardinality(Tokens)
        BY <2>1, FewLeft
    <2> QED
        BY <1>1, <2>2, <2>3 DEF Less
<1> QED
    BY <1>2, <1>3, <1>4

LEMMA EffortType ==
    ASSUME TypeOK, IsFiniteSet(Tokens), NEW n \in Notifications
    PROVE  Effort(n) \in Nat
<1>1. job[n].left \in SUBSET Tokens
    BY DEF TypeOK, Job
<1>2. Cardinality(job[n].left) \in Nat /\ Cardinality(Tokens) \in Nat
    BY <1>1, FewLeft
<1> QED
    BY <1>2 DEF Effort

LEMMA SameEffort ==
    ASSUME TypeOK, IsFiniteSet(Tokens), NEW n \in Notifications, job'[n] = job[n]
    PROVE  Effort(n)' <= Effort(n)
<1>1. Effort(n)' = Effort(n)
    BY DEF Effort
<1> QED
    BY <1>1, EffortType

LEMMA JobStepEffort ==
    ASSUME TypeOK, DeliveryInv, IsFiniteSet(Tokens), NEW n \in Notifications, JobStep(n)
    PROVE  Less(n)
    BY FoundEffort, SentEffort, PrunedEffort DEF JobStep

LEMMA CreatedEffort ==
    ASSUME TypeOK, DeliveryInv, IsFiniteSet(Tokens),
           NEW n \in Notifications, NEW m \in Members, Create(n, m)
    PROVE  Less(n)
<1>1. job[n].at = "none" /\ job'[n].at = "waiting"
    BY DEF Create, NoJob, DeliveryInv, JobsInv, TypeOK, Job
<1>2. /\ Effort(n) = 2 * Cardinality(Tokens) + 4
      /\ Effort(n)' = 2 * Cardinality(Tokens) + 3
    BY <1>1 DEF Effort
<1>3. Cardinality(Tokens) \in Nat
    BY FewLeft
<1> QED
    BY <1>2, <1>3 DEF Less

(* Whose job a step is about. *)
LEMMA OwnSteps ==
    ASSUME TypeOK, DeliveryInv, [Next]_vars, NEW n \in Notifications
    PROVE  \/ job'[n] = job[n]
           \/ JobStep(n) \/ Throw(n) \/ Crash(n)
           \/ \E t \in Tokens : Refuse(n, t)
           \/ \E m \in Members : Create(n, m)
<1>1. ASSUME NEW k \in Notifications, k # n,
             \/ JobStep(k) \/ Throw(k) \/ Crash(k)
             \/ \E t \in Tokens : Refuse(k, t)
      PROVE  job'[n] = job[n]
    <2>1. JobMoves(k)
        BY <1>1, FoundJob, SentJob, InvalidJob, PrunedJob, StoppedJob DEF JobStep
    <2> QED
        BY <1>1, <2>1 DEF JobMoves
<1>2. ASSUME NEW k \in Notifications, NEW m \in Members, k # n, Create(k, m)
      PROVE  job'[n] = job[n]
    BY <1>2 DEF Create, TypeOK
<1>3. ASSUME NEW k \in Notifications, NEW m \in Members, CreateUnqueued(k, m)
      PROVE  job'[n] = job[n]
    BY <1>3 DEF CreateUnqueued
<1>4. ASSUME NEW a \in Accounts, NEW t \in Tokens, SignIn(a, t) \/ Unregister(a, t)
      PROVE  job'[n] = job[n]
    BY <1>4 DEF SignIn, Unregister
<1>8. ASSUME NEW c \in signingIn, Register(c) PROVE job'[n] = job[n]
    BY <1>8 DEF Register
<1>9. ASSUME NEW x \in Notifications \cup Members, Forget(x) PROVE job'[n] = job[n]
    BY <1>9 DEF Forget
<1>5. ASSUME NEW t \in Tokens, SignOut(t) \/ Uninstall(t)
      PROVE  job'[n] = job[n]
    BY <1>5 DEF SignOut, Uninstall
<1>6. ASSUME NEW m \in Members, NEW a \in Accounts, Link(m, a)
      PROVE  job'[n] = job[n]
    BY <1>6 DEF Link
<1>7. ASSUME UNCHANGED vars PROVE job'[n] = job[n]
    BY <1>7 DEF vars
<1> QED
    BY <1>1, <1>2, <1>3, <1>4, <1>5, <1>6, <1>7, <1>8, <1>9 DEF Next

LEMMA ProgressStep ==
    ASSUME TypeOK, DeliveryInv, IsFiniteSet(Tokens), [Next]_vars, NEW n \in Notifications
    PROVE  Progress(n)
<1>1. JobStep(n) => Less(n)
    BY JobStepEffort
<1>2. (\E t \in Tokens : Refuse(n, t)) \/ (\E m \in Members : Create(n, m)) => Less(n)
    BY SentEffort, CreatedEffort
<1>3. Less(n) \/ job'[n] = job[n] => Effort(n)' <= Effort(n)
    BY SameEffort DEF Less
<1> QED
    BY <1>1, <1>2, <1>3, OwnSteps DEF Progress, Less

(* Every step of a job that BullMQ runs (PushSendWorker.process) brings it nearer
   to its end, by calls that the number of phones bounds; nothing but a failure
   of its own sends it back. *)
THEOREM JobsWearOff ==
    ASSUME IsFiniteSet(Tokens)
    PROVE  Spec => EffortShrinks
<1>1. TypeOK /\ DeliveryInv /\ [Next]_vars => \A n \in Notifications : Progress(n)
    BY ProgressStep
<1> QED
    BY <1>1, InvAlways, PTL DEF Spec, EffortShrinks

LEMMA SendStep == ASSUME TypeOK, DeliveryInv, SendInv, [Next]_vars PROVE SendInv'
<1> SUFFICES ASSUME NEW n \in Notifications, job'[n].at = "send" PROVE job'[n].left # {}
    BY DEF SendInv
<1>1. CASE job'[n] = job[n]
    BY <1>1 DEF SendInv
<1>2. CASE FindRecipient(n)
    BY <1>2, RecipientFound
<1>3. CASE FindTargets(n)
    <2> DEFINE targets == RegisteredTo(job[n].account)
    <2>1. /\ job'[n].left = RegisteredTo(accountOf[recipient[n]])
          /\ job[n].account = accountOf[recipient[n]]
        BY <1>3, TargetsFound
    <2>2. ASSUME targets = {} PROVE FALSE
        <3>1. End(n, "done") /\ "done" \in JobPoints
            BY <1>3, <2>2 DEF FindTargets, JobPoints
        <3> QED
            BY <3>1, EndJob
    <2> QED
        BY <2>1, <2>2
<1>4. ASSUME NEW rest \in SUBSET Tokens, GoOn(n, rest) PROVE job'[n].left # {}
    BY <1>4, GoOnJob
<1>5. CASE Prune(n)
    BY <1>4, <1>5 DEF Prune, TypeOK, Job
<1>6. ASSUME NEW t \in Tokens, Accept(n, t) \/ Refuse(n, t) PROVE job'[n].left # {}
    BY <1>4, <1>6 DEF Accept, Refuse, StillLeft, TypeOK, Job
<1>7. ASSUME NEW t \in Tokens, Invalid(n, t) PROVE FALSE
    BY <1>7 DEF Invalid, TypeOK, Job
<1>8. CASE Throw(n) \/ Crash(n)
    BY <1>8, StoppedOnce
<1>9. CASE FindNotification(n)
    BY <1>9, NotificationFound
<1>10. ASSUME NEW m \in Members, Create(n, m) PROVE FALSE
    BY <1>10 DEF Create, TypeOK, Job
<1> QED
    BY <1>1, <1>2, <1>3, <1>5, <1>6, <1>7, <1>8, <1>9, <1>10, OwnSteps DEF JobStep

(* A job at work always has what its next call needs: a recipient, an account, a
   phone to send to, a token to delete. It waits for no one. *)
THEOREM JobsNeverStuck == Spec => []NeverStuck
<1>1. Init => SendInv
    BY DEF Init, SendInv, NoJob
<1>2. TypeOK /\ DeliveryInv /\ SendInv /\ [Next]_vars => SendInv'
    BY SendStep
<1>3. TypeOK /\ DeliveryInv /\ SendInv => NeverStuck
    <2> SUFFICES ASSUME TypeOK, DeliveryInv, SendInv, NEW n \in Notifications, Working(n)
                 PROVE  Ready(n)
        BY DEF NeverStuck
    <2>1. /\ job[n] \in Job /\ recipient[n] \in Members
          /\ job[n].at \notin {"waiting", "recipient"} => job[n].account # None
          /\ job[n].at = "prune" => job[n].token # None
        BY JobFacts
    <2> QED
        BY <2>1 DEF Working, Ready, SendInv, Job
<1> QED
    BY <1>1, <1>2, <1>3, InvAlways, PTL DEF Spec
====
