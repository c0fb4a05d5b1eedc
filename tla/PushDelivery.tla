---- MODULE PushDelivery ----
(* Push notifications: DevicesService (push/devices.service.ts), the create of
   NotificationService and PushSendWorker (push/push-send.worker.ts), with the
   phones and APNs around them. A phone's register and unregister calls reach the
   server late, out of order or never. A job's steps end at the next database
   call or APNs request; BullMQ runs several jobs at once and runs one again that
   threw or, once, whose worker died. Text, deep link and badge are not kept. *)
EXTENDS Naturals

CONSTANTS
    Accounts, Members,
    Tokens,         \* APNs tokens, one per phone
    Notifications,  \* ids of app_notifications rows
    Attempts,       \* defaultJobOptions.attempts
    MaxMishaps,     \* bound: failures of a call, of an enqueue or of a worker
    MaxSwitches,    \* bound: sign-ins in a behaviour
    None

ASSUME NumberAssumption == Attempts \in Nat \ {0} /\ MaxMishaps \in Nat /\ MaxSwitches \in Nat
ASSUME NoneAssumption == None \notin Accounts \cup Members \cup Tokens \cup Notifications
ASSUME IdsAssumption == Members \cap Notifications = {}

VARIABLES
    configured,     \* the APNS_* settings are there
    devices,        \* devices[t]: the account of the row, or None
    accountOf,      \* accountOf[m]: orgMembers.accountId, or None
    recipient,      \* recipient[n]: recipientMemberId of the row, or None
    gone,           \* pruned rows of app_notifications and org_members
    job,            \* job[n]: the push-send job of n
    phone,          \* phone[t]: the account signed in there, or None
    signIn,         \* signIn[t]: the number of the last sign-in there
    installed,      \* tokens that APNs accepts
    signingIn,      \* register calls under way
    signingOut,     \* <<account, token>>: unregister calls under way
    mishaps, switches,
    seen,           \* <<token, n, account>>: n was shown while account was signed in
    tried,          \* history: <<token, n>> sent, whatever the outcome
    steady,         \* history: steady[n]: registered to the recipient since n's job was queued
    moved,          \* history: <<token, n>>: the row changed after n's job had read it
    overtaken,      \* history: tokens registered while a call that undoes it was under way
    early           \* history: <<token, n>>: shown before the phone's own registration was sure

calls   == <<signingIn, signingOut>>
phones  == <<phone, signIn, installed, calls>>
rows    == <<accountOf, recipient, gone>>
history == <<seen, tried, steady, moved, overtaken, early>>
vars    == <<configured, devices, rows, job, phones, mishaps, switches, history>>

JobPoints == {"none", "waiting", "recipient", "targets", "send", "prune", "done", "failed"}

Job == [at : JobPoints, tries : 0 .. Attempts, account : Accounts \cup {None},
        left : SUBSET Tokens, token : Tokens \cup {None}, stalled : BOOLEAN]

NoJob == [at |-> "none", tries |-> 0, account |-> None, left |-> {}, token |-> None,
          stalled |-> FALSE]

Call == [account : Accounts, token : Tokens, nr : Nat]

TypeOK ==
    /\ configured \in BOOLEAN
    /\ devices \in [Tokens -> Accounts \cup {None}]
    /\ accountOf \in [Members -> Accounts \cup {None}]
    /\ recipient \in [Notifications -> Members \cup {None}]
    /\ gone \subseteq Notifications \cup Members
    /\ job \in [Notifications -> Job]
    /\ phone \in [Tokens -> Accounts \cup {None}]
    /\ signIn \in [Tokens -> Nat]
    /\ installed \subseteq Tokens
    /\ signingIn \subseteq Call
    /\ signingOut \subseteq Accounts \X Tokens
    /\ mishaps \in Nat /\ switches \in Nat
    /\ seen \subseteq Tokens \X Notifications \X (Accounts \cup {None})
    /\ tried \cup moved \cup early \subseteq Tokens \X Notifications
    /\ steady \in [Notifications -> SUBSET Tokens]
    /\ overtaken \subseteq Tokens

(* Members may have redeemed their invite already; no one is registered yet. *)
Init ==
    /\ configured \in BOOLEAN
    /\ devices = [t \in Tokens |-> None]
    /\ accountOf \in [Members -> Accounts \cup {None}]
    /\ \A m, n \in Members : accountOf[m] = accountOf[n] => m = n \/ accountOf[m] = None
    /\ recipient = [n \in Notifications |-> None] /\ gone = {}
    /\ job = [n \in Notifications |-> NoJob]
    /\ phone = [t \in Tokens |-> None]
    /\ signIn = [t \in Tokens |-> 0]
    /\ installed = {} /\ signingIn = {} /\ signingOut = {}
    /\ mishaps = 0 /\ switches = 0
    /\ seen = {} /\ tried = {} /\ moved = {} /\ overtaken = {} /\ early = {}
    /\ steady = [n \in Notifications |-> {}]

Mishap == mishaps < MaxMishaps /\ mishaps' = mishaps + 1

Holds(n, t) == t \in job[n].left \/ job[n].token = t

(* The row of t changes: the jobs that read it do not know. *)
RowChanges(t) ==
    /\ moved' = moved \cup {<<t, n>> : n \in {k \in Notifications : Holds(k, t)}}
    /\ steady' = [n \in Notifications |-> steady[n] \ {t}]

----------------------------------------------------------------------------
(* Someone signs in on a phone that no one is signed in on, and the app sends the
   register call. A new install may get its old token back. *)
SignIn(a, t) ==
    /\ switches < MaxSwitches
    /\ switches' = switches + 1
    /\ phone[t] = None
    /\ phone' = [phone EXCEPT ![t] = a]
    /\ signIn' = [signIn EXCEPT ![t] = switches']
    /\ installed' = installed \cup {t}
    /\ signingIn' = signingIn \cup {[account |-> a, token |-> t, nr |-> switches']}
    /\ UNCHANGED <<configured, devices, rows, job, signingOut, mishaps, history>>

(* The call of the sign-in that still stands. *)
Own(c) == phone[c.token] # None /\ c.nr = signIn[c.token]

(* Someone is signed in and the register call of that sign-in has been served. *)
SignedIn(t) == phone[t] # None /\ \A c \in signingIn : c.token = t => ~ Own(c)

(* What is under way may undo the registration that c makes. *)
Undoes(c) ==
    \/ <<c.account, c.token>> \in signingOut
    \/ \E d \in signingIn : d.token = c.token /\ d.account # c.account
    \/ \E n \in Notifications : job[n].at = "prune" /\ job[n].token = c.token

(* register: an upsert by token, which re-points it to the account. *)
KeepFirst(t, a) == IF devices[t] = None THEN a ELSE devices[t]     \* mutant

Upsert(t, a) == a

(* The server serves a register call, which may be one of an earlier sign-in. *)
Register(c) ==
    /\ signingIn' = signingIn \ {c}
    /\ devices' = [devices EXCEPT ![c.token] = Upsert(c.token, c.account)]
    /\ IF devices[c.token] = c.account THEN UNCHANGED <<moved, steady>> ELSE RowChanges(c.token)
    /\ overtaken' =
            IF ~ Own(c) THEN overtaken
            ELSE IF Undoes(c) THEN overtaken \cup {c.token} ELSE overtaken \ {c.token}
    /\ UNCHANGED <<configured, rows, job, phone, signIn, installed, signingOut, mishaps, switches,
                   seen, tried, early>>

(* The phone signs out; its unregister call comes late, or never. *)
SignOut(t) ==
    /\ phone[t] # None
    /\ signingOut' = signingOut \cup {<<phone[t], t>>}
    /\ phone' = [phone EXCEPT ![t] = None]
    /\ UNCHANGED <<configured, devices, rows, job, signIn, installed, signingIn, mishaps, switches,
                   history>>

OwnedByAnyone(a, t) == devices[t] # None                           \* mutant

Owned(a, t) == devices[t] = a

(* unregister: the token, if it is still the account's. *)
Unregister(a, t) ==
    /\ <<a, t>> \in signingOut
    /\ signingOut' = signingOut \ {<<a, t>>}
    /\ IF Owned(a, t)
       THEN devices' = [devices EXCEPT ![t] = None] /\ RowChanges(t)
       ELSE UNCHANGED <<devices, moved, steady>>
    /\ UNCHANGED <<configured, rows, job, phone, signIn, installed, signingIn, mishaps, switches,
                   seen, tried, overtaken, early>>

Uninstall(t) ==
    /\ t \in installed
    /\ installed' = installed \ {t}
    /\ phone' = [phone EXCEPT ![t] = None]
    /\ UNCHANGED <<configured, devices, rows, job, signIn, calls, mishaps, switches, history>>

(* redeem links a member that had no account. *)
Link(m, a) ==
    /\ accountOf[m] = None /\ m \notin gone
    /\ \A n \in Members : accountOf[n] # a
    /\ accountOf' = [accountOf EXCEPT ![m] = a]
    /\ UNCHANGED <<configured, devices, recipient, gone, job, phones, mishaps, switches, history>>

(* The retention job deletes an old notification, or a member removed long ago
   and with it, by the foreign key, the notifications to him. *)
Forget(x) ==
    /\ x \notin gone
    /\ x \in Notifications => recipient[x] # None
    /\ gone' = gone \cup {x} \cup {n \in Notifications : recipient[n] = x}
    /\ UNCHANGED <<configured, devices, accountOf, recipient, job, phones, mishaps, switches, history>>

----------------------------------------------------------------------------
RegisteredTo(a) == {t \in Tokens : a # None /\ devices[t] = a}

(* create: the row, and then the job. *)
Create(n, m) ==
    /\ recipient[n] = None /\ m \notin gone
    /\ recipient' = [recipient EXCEPT ![n] = m]
    /\ job' = [job EXCEPT ![n].at = "waiting"]
    /\ steady' = [steady EXCEPT ![n] = RegisteredTo(accountOf[m])]
    /\ UNCHANGED <<configured, devices, accountOf, gone, phones, mishaps, switches,
                   seen, tried, moved, overtaken, early>>

(* The queue refuses the job: the error is swallowed, the row stays. *)
CreateUnqueued(n, m) ==
    /\ Mishap
    /\ recipient[n] = None /\ m \notin gone
    /\ recipient' = [recipient EXCEPT ![n] = m]
    /\ UNCHANGED <<configured, devices, accountOf, gone, job, phones, switches, history>>

Around == <<configured, devices, rows, phones, mishaps, switches>>

End(n, point) == job' = [job EXCEPT ![n] = [NoJob EXCEPT !.at = point, !.tries = job[n].tries]]

(* Nothing is done without APNs, or for a notification that is not there. *)
FindNotification(n) ==
    /\ job[n].at = "waiting"
    /\ IF configured /\ n \notin gone
       THEN job' = [job EXCEPT ![n].at = "recipient"]
       ELSE End(n, "done")
    /\ UNCHANGED <<Around, history>>

(* Its recipient may be gone by now, or have no account yet. *)
FindRecipient(n) ==
    LET m == recipient[n]
    IN  /\ job[n].at = "recipient"
        /\ IF m \in gone \/ accountOf[m] = None
           THEN End(n, "done")
           ELSE job' = [job EXCEPT ![n].at = "targets", ![n].account = accountOf[m]]
        /\ UNCHANGED <<Around, history>>

FindTargets(n) ==
    LET targets == RegisteredTo(job[n].account)
    IN  /\ job[n].at = "targets"
        /\ IF targets = {}
           THEN End(n, "done")
           ELSE job' = [job EXCEPT ![n].at = "send", ![n].left = targets]
        /\ UNCHANGED <<Around, history>>

NothingSpent(n, t) == job[n].left                                  \* mutant

NoneLeft(n, t) == {}                                               \* mutant

StillLeft(n, t) == job[n].left \ {t}

(* To the next device, or out of the loop. *)
GoOn(n, rest) ==
    IF rest = {} THEN End(n, "done")
    ELSE job' = [job EXCEPT ![n].at = "send", ![n].left = rest, ![n].token = None]

(* APNs shows the alert, on top of an earlier one of this notification (its
   collapse id), whoever is signed in on the phone. *)
Accept(n, t) ==
    /\ job[n].at = "send" /\ t \in job[n].left
    /\ t \in installed
    /\ seen' = seen \cup {<<t, n, phone[t]>>}
    /\ tried' = tried \cup {<<t, n>>}
    /\ early' = IF SignedIn(t) /\ t \notin overtaken THEN early ELSE early \cup {<<t, n>>}
    /\ GoOn(n, StillLeft(n, t))
    /\ UNCHANGED <<Around, steady, moved, overtaken>>

(* A connection error or any other refusal is dropped. *)
Refuse(n, t) ==
    /\ job[n].at = "send" /\ t \in job[n].left
    /\ Mishap
    /\ tried' = tried \cup {<<t, n>>}
    /\ GoOn(n, StillLeft(n, t))
    /\ UNCHANGED <<configured, devices, rows, phones, switches, seen, steady, moved, overtaken, early>>

(* 410, BadDeviceToken, Unregistered: the row is deleted, by its token. *)
Invalid(n, t) ==
    /\ job[n].at = "send" /\ t \in job[n].left
    /\ t \notin installed
    /\ tried' = tried \cup {<<t, n>>}
    /\ job' = [job EXCEPT ![n].at = "prune", ![n].left = StillLeft(n, t), ![n].token = t]
    /\ UNCHANGED <<Around, seen, steady, moved, overtaken, early>>

Prune(n) ==
    /\ job[n].at = "prune"
    /\ devices' = [devices EXCEPT ![job[n].token] = None]
    /\ GoOn(n, job[n].left)
    /\ IF devices[job[n].token] = None THEN UNCHANGED <<moved, steady>> ELSE RowChanges(job[n].token)
    /\ UNCHANGED <<configured, rows, phones, mishaps, switches, seen, tried, overtaken, early>>

Working(n) == job[n].at \in {"waiting", "recipient", "targets", "send", "prune"}

(* BullMQ runs the job again from its start, or gives it up. *)
Again(n, last, tries, stalled) ==
    job' = [job EXCEPT ![n] = [NoJob EXCEPT !.at = IF last THEN "failed" ELSE "waiting",
                                            !.tries = tries, !.stalled = stalled]]

(* A database call throws. *)
Throw(n) ==
    /\ Working(n) /\ job[n].at # "send" /\ configured
    /\ Mishap
    /\ Again(n, job[n].tries + 1 = Attempts, job[n].tries + 1, job[n].stalled)
    /\ UNCHANGED <<configured, devices, rows, phones, switches, history>>

(* The worker dies: a stalled job is run again, once. *)
Crash(n) ==
    /\ Working(n)
    /\ Mishap
    /\ Again(n, job[n].stalled, job[n].tries, TRUE)
    /\ UNCHANGED <<configured, devices, rows, phones, switches, history>>

----------------------------------------------------------------------------
JobStep(n) ==
    \/ FindNotification(n) \/ FindRecipient(n) \/ FindTargets(n) \/ Prune(n)
    \/ \E t \in Tokens : Accept(n, t) \/ Invalid(n, t)

Next ==
    \/ \E a \in Accounts, t \in Tokens : SignIn(a, t) \/ Unregister(a, t)
    \/ \E c \in signingIn : Register(c)
    \/ \E t \in Tokens : SignOut(t) \/ Uninstall(t)
    \/ \E m \in Members, a \in Accounts : Link(m, a)
    \/ \E x \in Notifications \cup Members : Forget(x)
    \/ \E n \in Notifications, m \in Members : Create(n, m) \/ CreateUnqueued(n, m)
    \/ \E n \in Notifications : JobStep(n) \/ Throw(n) \/ Crash(n)
    \/ \E n \in Notifications, t \in Tokens : Refuse(n, t)

Spec == Init /\ [][Next]_vars

(* Workers go on and APNs answers; phones, their calls, failures and new
   notifications need not come. *)
FairSpec == Spec /\ \A n \in Notifications : WF_vars(JobStep(n))

----------------------------------------------------------------------------
(* A notification is shown on a phone where another account is signed in only if
   the phone changed hands on the server after the job had read it as a target,
   or if that account's own register call had not been served by then, or was
   served while a call that undoes it was under way. *)
NeverToAnother ==
    \A s \in seen : <<s[1], s[2]>> \notin moved \cup early =>
        s[3] \in {None, accountOf[recipient[s[2]]]}

(* Once its register call is served, a phone stays registered to the account
   signed in on it, however late the unregister and register calls of former
   sign-ins and the pruning of a dead token come, unless an unregister of the
   same account, a register of another one or a prune was under way just then. *)
StaysRegistered ==
    \A t \in Tokens : SignedIn(t) /\ t \notin overtaken => devices[t] = phone[t]

(* With APNs configured and the notification still there, a job that ends has
   sent to every device that was the recipient's from the notification on,
   whatever became of the other devices and of earlier attempts. *)
EveryDeviceTried ==
    \A n \in Notifications :
        job[n].at = "done" /\ configured /\ n \notin gone =>
            \A t \in steady[n] : <<t, n>> \in tried

(* Every job that was queued ends, provided that APNs answers each request. *)
Settles == \A n \in Notifications : Working(n) ~> job[n].at \in {"done", "failed"}
====
