---- MODULE TokenService ----
(* TokenService (auth/token.service.ts): rotating refresh tokens in families,
   with reuse detection, sign-out and the purge of old rows. A request is a
   process whose steps end at the next database call. A client may present any
   token it ever got, an old one when it retries or never saw the new one. *)
EXTENDS Naturals

CONSTANTS
    Tokens,      \* refresh tokens (row id and secret), drawn at random
    Families,    \* family ids, one per sign-in
    Requests,    \* requests that may be in flight at a time
    MaxMishaps,  \* bound: crashes, expiries and purges in a behaviour
    None

ASSUME NoneAssumption == None \notin Tokens \cup Families
ASSUME BoundAssumption == MaxMishaps \in Nat

VARIABLES
    refreshTokens,  \* refreshTokens[t]: the row, or None
    accountGone,    \* accounts.deletedAt of the families' account is set
    pc,             \* pc[r]: the call the request awaits
    token,          \* token[r]: the presented token, then the one issued
    family,         \* family[r]: the family the request works on
    delivered,      \* tokens that reached a client
    mishaps,
    issued,         \* history: the tokens ever inserted
    started,        \* history: the families ever begun
    burned,         \* history: the families revoked
    raced,          \* history: ... while a rotation of theirs was under way
    forked,         \* history: families with two rotations under way at once
    lost            \* history: families whose new token, or whose row, was lost

request == <<pc, token, family>>
history == <<issued, started, burned, raced, forked, lost>>
vars    == <<refreshTokens, accountGone, request, delivered, mishaps, history>>

TokenRow == [family : Families, rotated : BOOLEAN, revoked : BOOLEAN, expired : BOOLEAN]

ASSUME RowAssumption == None \notin TokenRow

AwaitPoints == {"idle", "read", "account", "mark", "insert", "answer", "signout", "revoke"}

TypeOK ==
    /\ refreshTokens \in [Tokens -> TokenRow \cup {None}]
    /\ accountGone \in BOOLEAN
    /\ pc \in [Requests -> AwaitPoints]
    /\ token \in [Requests -> Tokens \cup {None}]
    /\ family \in [Requests -> Families \cup {None}]
    /\ \A r \in Requests : pc[r] \in {"read", "account", "mark", "answer", "signout"} => token[r] # None
    /\ \A r \in Requests : pc[r] \in {"account", "mark", "insert", "answer", "revoke"} => family[r] # None
    /\ delivered \subseteq issued
    /\ mishaps \in Nat
    /\ issued \subseteq Tokens
    /\ {started, burned, raced, forked, lost} \subseteq SUBSET Families

Init ==
    /\ refreshTokens = [t \in Tokens |-> None]
    /\ accountGone = FALSE
    /\ pc = [r \in Requests |-> "idle"]
    /\ token = [r \in Requests |-> None]
    /\ family = [r \in Requests |-> None]
    /\ delivered = {}
    /\ mishaps = 0
    /\ issued = {}
    /\ started = {}
    /\ burned = {}
    /\ raced = {}
    /\ forked = {}
    /\ lost = {}

Row(t) == refreshTokens[t]

(* A rotation past its checks, or a sign-in, that will insert a token in f. *)
Rotating(r, f) == pc[r] \in {"account", "mark", "insert"} /\ family[r] = f

Goto(r, point) == pc' = [pc EXCEPT ![r] = point]

End(r) ==
    /\ Goto(r, "idle")
    /\ token' = [token EXCEPT ![r] = None]
    /\ family' = [family EXCEPT ![r] = None]

Mishap == mishaps < MaxMishaps /\ mishaps' = mishaps + 1

----------------------------------------------------------------------------
(* issue, without a family: a sign-up or sign-in that passed its own checks. *)
SignIn(r, f) ==
    /\ pc[r] = "idle"
    /\ ~ accountGone
    /\ f \notin started
    /\ started' = started \cup {f}
    /\ family' = [family EXCEPT ![r] = f]
    /\ Goto(r, "insert")
    /\ UNCHANGED <<refreshTokens, accountGone, token, delivered, mishaps,
                   issued, burned, raced, forked, lost>>

Rotate(r, t) ==
    /\ pc[r] = "idle"
    /\ t \in delivered
    /\ token' = [token EXCEPT ![r] = t]
    /\ Goto(r, "read")
    /\ UNCHANGED <<refreshTokens, accountGone, family, delivered, mishaps, history>>

ValidThoughRevoked(row) == row # None /\ ~ row.expired             \* mutant

Valid(row) == row # None /\ ~ row.revoked /\ ~ row.expired

Refuse(r) ==
    /\ pc[r] = "read"
    /\ ~ Valid(Row(token[r]))
    /\ End(r)
    /\ UNCHANGED <<refreshTokens, accountGone, delivered, mishaps, history>>

(* A token that was rotated before: burn the family. *)
DetectReuse(r) ==
    /\ pc[r] = "read"
    /\ Valid(Row(token[r]))
    /\ Row(token[r]).rotated
    /\ family' = [family EXCEPT ![r] = Row(token[r]).family]
    /\ Goto(r, "revoke")
    /\ UNCHANGED <<refreshTokens, accountGone, token, delivered, mishaps, history>>

Accept(r) ==
    /\ pc[r] = "read"
    /\ Valid(Row(token[r]))
    /\ ~ Row(token[r]).rotated
    /\ family' = [family EXCEPT ![r] = Row(token[r]).family]
    /\ forked' = IF \E s \in Requests : Rotating(s, Row(token[r]).family)
                 THEN forked \cup {Row(token[r]).family} ELSE forked
    /\ Goto(r, "account")
    /\ UNCHANGED <<refreshTokens, accountGone, token, delivered, mishaps,
                   issued, started, burned, raced, lost>>

FindAccount(r) ==
    /\ pc[r] = "account"
    /\ Goto(r, IF accountGone THEN "revoke" ELSE "mark")
    /\ UNCHANGED <<refreshTokens, accountGone, token, family, delivered, mishaps, history>>

(* UPDATE ... SET rotatedAt WHERE id: whatever the row says by now. *)
MarkNothing(r) ==                                                  \* mutant
    /\ pc[r] = "mark"
    /\ Goto(r, "insert")
    /\ UNCHANGED <<refreshTokens, accountGone, token, family, delivered, mishaps, history>>

MarkRotated(r) ==
    /\ pc[r] = "mark"
    /\ refreshTokens' = [refreshTokens EXCEPT ![token[r]].rotated = TRUE]
    /\ Goto(r, "insert")
    /\ UNCHANGED <<accountGone, token, family, delivered, mishaps, history>>

FreshAlone(f) ==                                                   \* mutant
    [family |-> None, rotated |-> FALSE, revoked |-> FALSE, expired |-> FALSE]

Fresh(f) == [family |-> f, rotated |-> FALSE, revoked |-> FALSE, expired |-> FALSE]

IssueRefresh(r, t) ==
    /\ pc[r] = "insert"
    /\ t \notin issued
    /\ issued' = issued \cup {t}
    /\ refreshTokens' = [refreshTokens EXCEPT ![t] = Fresh(family[r])]
    /\ token' = [token EXCEPT ![r] = t]
    /\ Goto(r, "answer")
    /\ UNCHANGED <<accountGone, family, delivered, mishaps,
                   started, burned, raced, forked, lost>>

Answer(r) ==
    /\ pc[r] = "answer"
    /\ delivered' = delivered \cup {token[r]}
    /\ End(r)
    /\ UNCHANGED <<refreshTokens, accountGone, mishaps, history>>

SignOut(r, t) ==
    /\ pc[r] = "idle"
    /\ t \in delivered
    /\ token' = [token EXCEPT ![r] = t]
    /\ Goto(r, "signout")
    /\ UNCHANGED <<refreshTokens, accountGone, family, delivered, mishaps, history>>

FindFamily(r) ==
    /\ pc[r] = "signout"
    /\ IF Row(token[r]) = None THEN End(r)
       ELSE /\ family' = [family EXCEPT ![r] = Row(token[r]).family]
            /\ Goto(r, "revoke")
            /\ UNCHANGED token
    /\ UNCHANGED <<refreshTokens, accountGone, delivered, mishaps, history>>

SpentRevoked(f) ==                                                 \* mutant
    [t \in Tokens |-> IF Row(t) # None /\ Row(t).family = f /\ Row(t).rotated
                      THEN [Row(t) EXCEPT !.revoked = TRUE] ELSE Row(t)]

(* revokeFamily: the rows there are; a token inserted later is not among them. *)
Revoked(f) ==
    [t \in Tokens |-> IF Row(t) # None /\ Row(t).family = f
                      THEN [Row(t) EXCEPT !.revoked = TRUE] ELSE Row(t)]

RevokeFamily(r) ==
    /\ pc[r] = "revoke"
    /\ refreshTokens' = Revoked(family[r])
    /\ burned' = burned \cup {family[r]}
    /\ raced' = IF \E s \in Requests : Rotating(s, family[r])
                THEN raced \cup {family[r]} ELSE raced \ {family[r]}
    /\ End(r)
    /\ UNCHANGED <<accountGone, delivered, mishaps, issued, started, forked, lost>>

(* A database call throws, the process dies or the connection breaks. *)
Crash(r) ==
    /\ pc[r] # "idle"
    /\ Mishap
    /\ lost' = IF pc[r] \in {"insert", "answer"} THEN lost \cup {family[r]} ELSE lost
    /\ End(r)
    /\ UNCHANGED <<refreshTokens, accountGone, delivered, issued, started, burned, raced, forked>>

(* JWT_REFRESH_TTL_DAYS are over. *)
Expire(t) ==
    /\ Row(t) # None
    /\ ~ Row(t).expired
    /\ Mishap
    /\ refreshTokens' = [refreshTokens EXCEPT ![t].expired = TRUE]
    /\ lost' = lost \cup {Row(t).family}
    /\ UNCHANGED <<accountGone, request, delivered, issued, started, burned, raced, forked>>

(* purgeRefreshTokens: days after the expiry or the revocation, so never under
   a request that read the row before it. *)
PurgeableEarly(row) == row.expired \/ ~ row.revoked                \* mutant

Purgeable(row) == row.expired \/ row.revoked

Purge(t) ==
    /\ Row(t) # None
    /\ Purgeable(Row(t))
    /\ \A r \in Requests : token[r] # t
    /\ Mishap
    /\ refreshTokens' = [refreshTokens EXCEPT ![t] = None]
    /\ UNCHANGED <<accountGone, request, delivered, history>>

(* The account is removed by hand: no operation of the API does it. *)
RemoveAccount ==
    /\ ~ accountGone
    /\ Mishap
    /\ accountGone' = TRUE
    /\ UNCHANGED <<refreshTokens, request, delivered, history>>

Next ==
    \/ \E r \in Requests :
         \/ \E f \in Families : SignIn(r, f)
         \/ \E t \in Tokens : Rotate(r, t) \/ IssueRefresh(r, t) \/ SignOut(r, t)
         \/ Refuse(r) \/ DetectReuse(r) \/ Accept(r) \/ FindAccount(r) \/ MarkRotated(r)
         \/ Answer(r) \/ FindFamily(r) \/ RevokeFamily(r) \/ Crash(r)
    \/ \E t \in Tokens : Expire(t) \/ Purge(t)
    \/ RemoveAccount

Spec == Init /\ [][Next]_vars

----------------------------------------------------------------------------
(* Properties. *)

Live(t, f) ==
    Row(t) # None /\ Row(t).family = f /\ ~ Row(t).rotated /\ ~ Row(t).revoked

(* A family that was revoked stays dead, unless a rotation of it was under way
   when it was revoked, past its checks and before its insert (revokeFamily
   after reuse or sign-out, against rotate). *)
DeadUnlessRaced ==
    \A f \in burned \ raced : \A t \in Tokens : ~ Live(t, f)

(* One token at a time: a family has two usable tokens only if two rotations of
   it overlapped (the rotatedAt test of rotate, against its UPDATE). *)
OneLiveUnlessForked ==
    \A f \in Families \ forked : \A s, t \in Tokens :
      Live(s, f) /\ Live(t, f) => s = t

(* A client is not signed out by accident: a session that nobody revoked, that
   has not expired and whose answers all arrived has a usable token which its
   client holds, or a request is about to hand it one. *)
SessionSurvives ==
    \A f \in started \ (burned \cup lost) :
      \/ \E t \in delivered : Live(t, f)
      \/ \E r \in Requests : pc[r] \in {"insert", "answer"} /\ family[r] = f

(* The sessions the clients see: without a family whose rotations overlapped
   each other or its revocation, refresh tokens implement Session. An exchange,
   several calls long, is as good as one step. *)
Dependable(f) == f \notin forked \cup raced

Sessions == INSTANCE Session
    WITH usable <- [f \in Families |-> {t \in Tokens : Dependable(f) /\ Live(t, f)}],
         closed <- burned, used <- issued

ImplementsSession == Sessions!Spec
====
