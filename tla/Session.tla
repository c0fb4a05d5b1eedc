---- MODULE Session ----
(* What the refresh tokens of an account promise (auth/token.service.ts), seen
   at once: a session has at most one token that can be exchanged; it gets a new
   one, never used before, only when it has none; a token that was exchanged, or
   whose session was closed, is of no use ever after. *)

CONSTANTS Tokens, Families

VARIABLES
    usable,  \* usable[f]: the tokens that session f can be continued with
    closed,  \* sessions signed out of, or burned
    used     \* tokens that were ever given out

vars == <<usable, closed, used>>

Init ==
    /\ usable = [f \in Families |-> {}]
    /\ closed = {}
    /\ used = {}

(* A sign-in, or the second half of an exchange. *)
Issue(f, t) ==
    /\ f \notin closed
    /\ usable[f] = {}
    /\ t \notin used
    /\ usable' = [usable EXCEPT ![f] = {t}]
    /\ used' = used \cup {t}
    /\ UNCHANGED closed

(* The first half of an exchange, or the end of its days. *)
Spend(f) ==
    /\ usable' = [usable EXCEPT ![f] = {}]
    /\ UNCHANGED <<closed, used>>

Close(f) ==
    /\ closed' = closed \cup {f}
    /\ usable' = [usable EXCEPT ![f] = {}]
    /\ UNCHANGED used

(* A token that no session can rely on. *)
Waste(t) ==
    /\ used' = used \cup {t}
    /\ UNCHANGED <<usable, closed>>

Next ==
    \/ \E f \in Families : Spend(f) \/ Close(f)
    \/ \E t \in Tokens : Waste(t) \/ \E f \in Families : Issue(f, t)

Spec == Init /\ [][Next]_vars
====
