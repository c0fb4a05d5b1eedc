---- MODULE TokenServiceProofs ----
(* What TokenService promises for any number of requests, tokens and families. *)
EXTENDS TokenService, TLAPS

USE NoneAssumption, BoundAssumption, RowAssumption

----------------------------------------------------------------------------
(* The inductive invariants. *)

(* What rows and requests say of each other, ... *)
RowsInv ==
    /\ \A t \in Tokens : Row(t) # None =>
         /\ t \in issued
         /\ Row(t).family \in started
         /\ Row(t).revoked => Row(t).family \in burned
         /\ Row(t).expired => Row(t).family \in lost
    /\ burned \subseteq started

RequestsInv ==
    \A r \in Requests :
      /\ family[r] # None => family[r] \in started
      /\ pc[r] \in {"account", "mark"} =>
           token[r] \in delivered /\ Row(token[r]) # None /\ Row(token[r]).family = family[r]
      /\ pc[r] \in {"read", "signout"} => token[r] \in delivered
      /\ token[r] # None => token[r] \in issued
      /\ pc[r] = "answer" =>
           /\ token[r] \in issued \ delivered
           /\ Row(token[r]) # None /\ Row(token[r]).family = family[r]
           /\ ~ Row(token[r]).rotated
           /\ \A s \in Requests : token[s] = token[r] => s = r

(* ... of a family that is dead, ... *)
DeadInv ==
    \A f \in burned \ raced :
      /\ \A t \in Tokens : Row(t) # None /\ Row(t).family = f => Row(t).revoked
      /\ \A r \in Requests : ~ Rotating(r, f)

(* ... and of one that never forked: whoever rotates it holds its one token. *)
ForkInv ==
    \A f \in Families \ forked :
      /\ \A s, t \in Tokens : Live(s, f) /\ Live(t, f) => s = t
      /\ \A r, s \in Requests : Rotating(r, f) /\ Rotating(s, f) => r = s
      /\ \A r \in Requests, t \in Tokens : Rotating(r, f) /\ Live(t, f) =>
           pc[r] # "insert" /\ t = token[r]

TokenInv == RowsInv /\ RequestsInv /\ DeadInv /\ ForkInv /\ SessionSurvives

----------------------------------------------------------------------------
LEMMA InvInit == Init => TypeOK /\ TokenInv
<1> SUFFICES ASSUME Init PROVE TypeOK /\ TokenInv
    OBVIOUS
<1>1. TypeOK
    BY DEF Init, TypeOK, AwaitPoints
<1>2. RowsInv
    BY DEF Init, RowsInv, Row
<1>3. RequestsInv
    BY DEF Init, RequestsInv, Row
<1>4. DeadInv
    BY DEF Init, DeadInv
<1>5. ForkInv
    BY DEF Init, ForkInv, Live, Row, Rotating
<1>6. SessionSurvives
    BY DEF Init, SessionSurvives
<1> QED
    BY <1>1, <1>2, <1>3, <1>4, <1>5, <1>6 DEF TokenInv

LEMMA TypeStep ==
    ASSUME TypeOK, TokenInv, [Next]_vars
    PROVE  TypeOK'
<1> USE DEF TokenInv, Row
<1>1. ASSUME NEW r \in Requests, NEW f \in Families, SignIn(r, f) PROVE TypeOK'
    BY <1>1 DEF SignIn, Goto, TypeOK, TokenRow, AwaitPoints, RequestsInv
<1>2. ASSUME NEW r \in Requests, NEW t \in Tokens, Rotate(r, t) PROVE TypeOK'
    BY <1>2 DEF Rotate, Goto, history, TypeOK, TokenRow, AwaitPoints, RequestsInv
<1>3. ASSUME NEW r \in Requests, Refuse(r) PROVE TypeOK'
    BY <1>3 DEF Refuse, End, Goto, history, TypeOK, TokenRow, AwaitPoints, RequestsInv
<1>4. ASSUME NEW r \in Requests, DetectReuse(r) PROVE TypeOK'
    BY <1>4 DEF DetectReuse, Valid, Goto, history, TypeOK, TokenRow, AwaitPoints, RequestsInv
<1>5. ASSUME NEW r \in Requests, Accept(r) PROVE TypeOK'
    BY <1>5 DEF Accept, Valid, Goto, TypeOK, TokenRow, AwaitPoints, RequestsInv
<1>6. ASSUME NEW r \in Requests, FindAccount(r) PROVE TypeOK'
    BY <1>6 DEF FindAccount, Goto, history, TypeOK, TokenRow, AwaitPoints, RequestsInv
<1>7. ASSUME NEW r \in Requests, MarkRotated(r) PROVE TypeOK'
    <2>1. token[r] \in Tokens /\ refreshTokens[token[r]] \in TokenRow
        BY <1>7 DEF MarkRotated, TypeOK, RequestsInv
    <2>2. [refreshTokens[token[r]] EXCEPT !.rotated = TRUE] \in TokenRow
        BY <2>1 DEF TokenRow
    <2>3. refreshTokens' \in [Tokens -> TokenRow \cup {None}]
        BY <1>7, <2>1, <2>2 DEF MarkRotated, TypeOK
    <2> QED
        BY <1>7, <2>3 DEF MarkRotated, Goto, history, TypeOK, AwaitPoints
<1>8. ASSUME NEW r \in Requests, NEW t \in Tokens, IssueRefresh(r, t) PROVE TypeOK'
    BY <1>8 DEF IssueRefresh, Fresh, Goto, TypeOK, TokenRow, AwaitPoints, RequestsInv
<1>9. ASSUME NEW r \in Requests, Answer(r) PROVE TypeOK'
    BY <1>9 DEF Answer, End, Goto, history, TypeOK, TokenRow, AwaitPoints, RequestsInv
<1>10. ASSUME NEW r \in Requests, NEW t \in Tokens, SignOut(r, t) PROVE TypeOK'
    BY <1>10 DEF SignOut, Goto, history, TypeOK, TokenRow, AwaitPoints, RequestsInv
<1>11. ASSUME NEW r \in Requests, FindFamily(r) PROVE TypeOK'
    BY <1>11 DEF FindFamily, End, Goto, history, TypeOK, TokenRow, AwaitPoints, RequestsInv
<1>12. ASSUME NEW r \in Requests, RevokeFamily(r) PROVE TypeOK'
    <2>1. ASSUME NEW t \in Tokens, refreshTokens[t] # None
          PROVE  [refreshTokens[t] EXCEPT !.revoked = TRUE] \in TokenRow
        <3>1. refreshTokens[t] \in TokenRow
            BY <2>1 DEF TypeOK
        <3> QED
            BY <3>1 DEF TokenRow
    <2>2. refreshTokens' \in [Tokens -> TokenRow \cup {None}]
        BY <1>12, <2>1 DEF RevokeFamily, Revoked, TypeOK
    <2> QED
        BY <1>12, <2>2 DEF RevokeFamily, End, Goto, TypeOK, AwaitPoints
<1>13. ASSUME NEW r \in Requests, Crash(r) PROVE TypeOK'
    BY <1>13 DEF Crash, Mishap, End, Goto, TypeOK, TokenRow, AwaitPoints, RequestsInv
<1>14. ASSUME NEW t \in Tokens, Expire(t) PROVE TypeOK'
    <2>1. [refreshTokens[t] EXCEPT !.expired = TRUE] \in TokenRow
        <3>1. refreshTokens[t] \in TokenRow
            BY <1>14 DEF Expire, TypeOK
        <3> QED
            BY <3>1 DEF TokenRow
    <2>2. refreshTokens' \in [Tokens -> TokenRow \cup {None}]
        BY <1>14, <2>1 DEF Expire, TypeOK
    <2>3. lost' \subseteq Families
        BY <1>14 DEF Expire, TypeOK, TokenRow
    <2> QED
        BY <1>14, <2>2, <2>3 DEF Expire, Mishap, request, TypeOK
<1>15. ASSUME NEW t \in Tokens, Purge(t) PROVE TypeOK'
    BY <1>15 DEF Purge, Purgeable, Mishap, request, history, TypeOK, TokenRow, AwaitPoints, RequestsInv
<1>16. ASSUME RemoveAccount PROVE TypeOK'
    BY <1>16 DEF RemoveAccount, Mishap, request, history, TypeOK, TokenRow, AwaitPoints, RequestsInv
<1>17. ASSUME UNCHANGED vars PROVE TypeOK'
    BY <1>17 DEF vars, request, history, TypeOK, TokenRow, AwaitPoints, RequestsInv
<1> QED
    BY <1>1, <1>2, <1>3, <1>4, <1>5, <1>6, <1>7, <1>8, <1>9, <1>10, <1>11, <1>12, <1>13, <1>14, <1>15, <1>16, <1>17 DEF Next

LEMMA RowsStep ==
    ASSUME TypeOK, TokenInv, [Next]_vars
    PROVE  RowsInv'
<1> USE DEF TokenInv, Row
<1>1. ASSUME NEW r \in Requests, NEW f \in Families, SignIn(r, f) PROVE RowsInv'
    BY <1>1 DEF SignIn, Goto, RowsInv, RequestsInv, TypeOK, TokenRow
<1>2. ASSUME NEW r \in Requests, NEW t \in Tokens, Rotate(r, t) PROVE RowsInv'
    BY <1>2 DEF Rotate, Goto, history, RowsInv, RequestsInv, TypeOK, TokenRow
<1>3. ASSUME NEW r \in Requests, Refuse(r) PROVE RowsInv'
    BY <1>3 DEF Refuse, End, Goto, history, RowsInv, RequestsInv, TypeOK, TokenRow
<1>4. ASSUME NEW r \in Requests, DetectReuse(r) PROVE RowsInv'
    BY <1>4 DEF DetectReuse, Valid, Goto, history, RowsInv, RequestsInv, TypeOK, TokenRow
<1>5. ASSUME NEW r \in Requests, Accept(r) PROVE RowsInv'
    BY <1>5 DEF Accept, Valid, Goto, RowsInv, RequestsInv, TypeOK, TokenRow
<1>6. ASSUME NEW r \in Requests, FindAccount(r) PROVE RowsInv'
    BY <1>6 DEF FindAccount, Goto, history, RowsInv, RequestsInv, TypeOK, TokenRow
<1>7. ASSUME NEW r \in Requests, MarkRotated(r) PROVE RowsInv'
    BY <1>7 DEF MarkRotated, Goto, history, RowsInv, RequestsInv, TypeOK, TokenRow
<1>8. ASSUME NEW r \in Requests, NEW t \in Tokens, IssueRefresh(r, t) PROVE RowsInv'
    BY <1>8 DEF IssueRefresh, Fresh, Goto, RowsInv, RequestsInv, TypeOK, TokenRow
<1>9. ASSUME NEW r \in Requests, Answer(r) PROVE RowsInv'
    BY <1>9 DEF Answer, End, Goto, history, RowsInv, RequestsInv, TypeOK, TokenRow
<1>10. ASSUME NEW r \in Requests, NEW t \in Tokens, SignOut(r, t) PROVE RowsInv'
    BY <1>10 DEF SignOut, Goto, history, RowsInv, RequestsInv, TypeOK, TokenRow
<1>11. ASSUME NEW r \in Requests, FindFamily(r) PROVE RowsInv'
    BY <1>11 DEF FindFamily, End, Goto, history, RowsInv, RequestsInv, TypeOK, TokenRow
<1>12. ASSUME NEW r \in Requests, RevokeFamily(r) PROVE RowsInv'
    BY <1>12 DEF RevokeFamily, Revoked, End, Goto, RowsInv, RequestsInv, TypeOK, TokenRow
<1>13. ASSUME NEW r \in Requests, Crash(r) PROVE RowsInv'
    BY <1>13 DEF Crash, Mishap, End, Goto, RowsInv, RequestsInv, TypeOK, TokenRow
<1>14. ASSUME NEW t \in Tokens, Expire(t) PROVE RowsInv'
    BY <1>14 DEF Expire, Mishap, request, RowsInv, RequestsInv, TypeOK, TokenRow
<1>15. ASSUME NEW t \in Tokens, Purge(t) PROVE RowsInv'
    BY <1>15 DEF Purge, Purgeable, Mishap, request, history, RowsInv, RequestsInv, TypeOK, TokenRow
<1>16. ASSUME RemoveAccount PROVE RowsInv'
    BY <1>16 DEF RemoveAccount, Mishap, request, history, RowsInv, RequestsInv, TypeOK, TokenRow
<1>17. ASSUME UNCHANGED vars PROVE RowsInv'
    BY <1>17 DEF vars, request, history, RowsInv, RequestsInv, TypeOK, TokenRow
<1> QED
    BY <1>1, <1>2, <1>3, <1>4, <1>5, <1>6, <1>7, <1>8, <1>9, <1>10, <1>11, <1>12, <1>13, <1>14, <1>15, <1>16, <1>17 DEF Next

LEMMA RequestsStep ==
    ASSUME TypeOK, TokenInv, [Next]_vars
    PROVE  RequestsInv'
<1> USE DEF TokenInv, Row
<1>1. ASSUME NEW r \in Requests, NEW f \in Families, SignIn(r, f) PROVE RequestsInv'
    BY <1>1 DEF SignIn, Goto, RequestsInv, RowsInv, TypeOK, TokenRow
<1>2. ASSUME NEW r \in Requests, NEW t \in Tokens, Rotate(r, t) PROVE RequestsInv'
    BY <1>2 DEF Rotate, Goto, history, RequestsInv, RowsInv, TypeOK, TokenRow
<1>3. ASSUME NEW r \in Requests, Refuse(r) PROVE RequestsInv'
    BY <1>3 DEF Refuse, End, Goto, history, RequestsInv, RowsInv, TypeOK, TokenRow
<1>4. ASSUME NEW r \in Requests, DetectReuse(r) PROVE RequestsInv'
    BY <1>4 DEF DetectReuse, Valid, Goto, history, RequestsInv, RowsInv, TypeOK, TokenRow
<1>5. ASSUME NEW r \in Requests, Accept(r) PROVE RequestsInv'
    BY <1>5 DEF Accept, Valid, Goto, RequestsInv, RowsInv, TypeOK, TokenRow
<1>6. ASSUME NEW r \in Requests, FindAccount(r) PROVE RequestsInv'
    BY <1>6 DEF FindAccount, Goto, history, RequestsInv, RowsInv, TypeOK, TokenRow
<1>7. ASSUME NEW r \in Requests, MarkRotated(r) PROVE RequestsInv'
    <2>1. \A u \in Tokens : refreshTokens[u] # None =>
             refreshTokens'[u] # None /\ refreshTokens'[u].family = refreshTokens[u].family
        <3> SUFFICES ASSUME NEW u \in Tokens, refreshTokens[u] # None
                     PROVE  refreshTokens'[u] \in TokenRow
                            /\ refreshTokens'[u].family = refreshTokens[u].family
            OBVIOUS
        <3>1. refreshTokens[u] \in TokenRow
            BY DEF TypeOK
        <3>2. refreshTokens'[u] = refreshTokens[u]
              \/ refreshTokens'[u] = [refreshTokens[u] EXCEPT !.rotated = TRUE]
            BY <1>7 DEF MarkRotated, TypeOK
        <3> QED
            BY <3>1, <3>2 DEF TokenRow
    <2>2. \A u \in Tokens : u # token[r] => refreshTokens'[u] = refreshTokens[u]
        BY <1>7 DEF MarkRotated, TypeOK
    <2>3. token[r] \in delivered
        BY <1>7 DEF MarkRotated, RequestsInv
    <2> QED
        BY <1>7, <2>1, <2>2, <2>3 DEF MarkRotated, Goto, history, RequestsInv, TypeOK
<1>8. ASSUME NEW r \in Requests, NEW t \in Tokens, IssueRefresh(r, t) PROVE RequestsInv'
    <2>1. refreshTokens[t] = None /\ t \notin delivered
        BY <1>8 DEF IssueRefresh, RowsInv, TypeOK
    <2>2. /\ refreshTokens'[t] # None /\ refreshTokens'[t].family = family[r]
          /\ ~ refreshTokens'[t].rotated
          /\ \A u \in Tokens : u # t => refreshTokens'[u] = refreshTokens[u]
        <3>1. refreshTokens' = [refreshTokens EXCEPT ![t] = Fresh(family[r])]
            BY <1>8 DEF IssueRefresh
        <3>2. Fresh(family[r]) \in TokenRow
            BY <1>8 DEF IssueRefresh, Fresh, TypeOK, TokenRow
        <3> QED
            BY <3>1, <3>2 DEF Fresh, TypeOK
    <2>3. /\ token'[r] = t /\ pc'[r] = "answer"
          /\ \A s \in Requests : s # r => token'[s] = token[s] /\ pc'[s] = pc[s]
          /\ UNCHANGED <<family, delivered, started>>
          /\ issued' = issued \cup {t}
        BY <1>8 DEF IssueRefresh, Goto, TypeOK
    <2>4. \A s \in Requests : s # r => token[s] # t
        BY <1>8, <2>1 DEF IssueRefresh, RequestsInv, TypeOK
    <2> QED
        BY <2>1, <2>2, <2>3, <2>4 DEF RequestsInv, TypeOK
<1>9. ASSUME NEW r \in Requests, Answer(r) PROVE RequestsInv'
    BY <1>9 DEF Answer, End, Goto, history, RequestsInv, RowsInv, TypeOK, TokenRow
<1>10. ASSUME NEW r \in Requests, NEW t \in Tokens, SignOut(r, t) PROVE RequestsInv'
    BY <1>10 DEF SignOut, Goto, history, RequestsInv, RowsInv, TypeOK, TokenRow
<1>11. ASSUME NEW r \in Requests, FindFamily(r) PROVE RequestsInv'
    BY <1>11 DEF FindFamily, End, Goto, history, RequestsInv, RowsInv, TypeOK, TokenRow
<1>12. ASSUME NEW r \in Requests, RevokeFamily(r) PROVE RequestsInv'
    <2>1. \A u \in Tokens : refreshTokens[u] # None =>
             /\ refreshTokens'[u] # None
             /\ refreshTokens'[u].family = refreshTokens[u].family
             /\ refreshTokens'[u].rotated = refreshTokens[u].rotated
        <3> SUFFICES ASSUME NEW u \in Tokens, refreshTokens[u] # None
                     PROVE  /\ refreshTokens'[u] \in TokenRow
                            /\ refreshTokens'[u].family = refreshTokens[u].family
                            /\ refreshTokens'[u].rotated = refreshTokens[u].rotated
            OBVIOUS
        <3>1. refreshTokens[u] \in TokenRow
            BY DEF TypeOK
        <3>2. refreshTokens'[u] = refreshTokens[u]
              \/ refreshTokens'[u] = [refreshTokens[u] EXCEPT !.revoked = TRUE]
            BY <1>12 DEF RevokeFamily, Revoked, TypeOK
        <3> QED
            BY <3>1, <3>2 DEF TokenRow
    <2> QED
        BY <1>12, <2>1 DEF RevokeFamily, End, Goto, RequestsInv, TypeOK
<1>13. ASSUME NEW r \in Requests, Crash(r) PROVE RequestsInv'
    BY <1>13 DEF Crash, Mishap, End, Goto, RequestsInv, RowsInv, TypeOK, TokenRow
<1>14. ASSUME NEW t \in Tokens, Expire(t) PROVE RequestsInv'
    <2>1. \A u \in Tokens : refreshTokens[u] # None =>
             /\ refreshTokens'[u] # None
             /\ refreshTokens'[u].family = refreshTokens[u].family
             /\ refreshTokens'[u].rotated = refreshTokens[u].rotated
        <3> SUFFICES ASSUME NEW u \in Tokens, refreshTokens[u] # None
                     PROVE  /\ refreshTokens'[u] \in TokenRow
                            /\ refreshTokens'[u].family = refreshTokens[u].family
                            /\ refreshTokens'[u].rotated = refreshTokens[u].rotated
            OBVIOUS
        <3>1. refreshTokens[u] \in TokenRow
            BY DEF TypeOK
        <3>2. refreshTokens'[u] = refreshTokens[u]
              \/ refreshTokens'[u] = [refreshTokens[u] EXCEPT !.expired = TRUE]
            BY <1>14 DEF Expire, TypeOK
        <3> QED
            BY <3>1, <3>2 DEF TokenRow
    <2> QED
        BY <1>14, <2>1 DEF Expire, request, RequestsInv, TypeOK
<1>15. ASSUME NEW t \in Tokens, Purge(t) PROVE RequestsInv'
    BY <1>15 DEF Purge, Purgeable, Mishap, request, history, RequestsInv, RowsInv, TypeOK, TokenRow
<1>16. ASSUME RemoveAccount PROVE RequestsInv'
    BY <1>16 DEF RemoveAccount, Mishap, request, history, RequestsInv, RowsInv, TypeOK, TokenRow
<1>17. ASSUME UNCHANGED vars PROVE RequestsInv'
    BY <1>17 DEF vars, request, history, RequestsInv, RowsInv, TypeOK, TokenRow
<1> QED
    BY <1>1, <1>2, <1>3, <1>4, <1>5, <1>6, <1>7, <1>8, <1>9, <1>10, <1>11, <1>12, <1>13, <1>14, <1>15, <1>16, <1>17 DEF Next

LEMMA DeadStep ==
    ASSUME TypeOK, TokenInv, [Next]_vars
    PROVE  DeadInv'
<1> USE DEF TokenInv, Row
<1>1. ASSUME NEW r \in Requests, NEW f \in Families, SignIn(r, f) PROVE DeadInv'
    BY <1>1 DEF SignIn, Goto, DeadInv, RowsInv, RequestsInv, Rotating, TypeOK, TokenRow
<1>2. ASSUME NEW r \in Requests, NEW t \in Tokens, Rotate(r, t) PROVE DeadInv'
    BY <1>2 DEF Rotate, Goto, history, DeadInv, RowsInv, RequestsInv, Rotating, TypeOK, TokenRow
<1>3. ASSUME NEW r \in Requests, Refuse(r) PROVE DeadInv'
    BY <1>3 DEF Refuse, End, Goto, history, DeadInv, RowsInv, RequestsInv, Rotating, TypeOK, TokenRow
<1>4. ASSUME NEW r \in Requests, DetectReuse(r) PROVE DeadInv'
    BY <1>4 DEF DetectReuse, Valid, Goto, history, DeadInv, RowsInv, RequestsInv, Rotating, TypeOK, TokenRow
<1>5. ASSUME NEW r \in Requests, Accept(r) PROVE DeadInv'
    BY <1>5 DEF Accept, Valid, Goto, DeadInv, RowsInv, RequestsInv, Rotating, TypeOK, TokenRow
<1>6. ASSUME NEW r \in Requests, FindAccount(r) PROVE DeadInv'
    BY <1>6 DEF FindAccount, Goto, history, DeadInv, RowsInv, RequestsInv, Rotating, TypeOK, TokenRow
<1>7. ASSUME NEW r \in Requests, MarkRotated(r) PROVE DeadInv'
    BY <1>7 DEF MarkRotated, Goto, history, DeadInv, RowsInv, RequestsInv, Rotating, TypeOK, TokenRow
<1>8. ASSUME NEW r \in Requests, NEW t \in Tokens, IssueRefresh(r, t) PROVE DeadInv'
    BY <1>8 DEF IssueRefresh, Fresh, Goto, DeadInv, RowsInv, RequestsInv, Rotating, TypeOK, TokenRow
<1>9. ASSUME NEW r \in Requests, Answer(r) PROVE DeadInv'
    BY <1>9 DEF Answer, End, Goto, history, DeadInv, RowsInv, RequestsInv, Rotating, TypeOK, TokenRow
<1>10. ASSUME NEW r \in Requests, NEW t \in Tokens, SignOut(r, t) PROVE DeadInv'
    BY <1>10 DEF SignOut, Goto, history, DeadInv, RowsInv, RequestsInv, Rotating, TypeOK, TokenRow
<1>11. ASSUME NEW r \in Requests, FindFamily(r) PROVE DeadInv'
    BY <1>11 DEF FindFamily, End, Goto, history, DeadInv, RowsInv, RequestsInv, Rotating, TypeOK, TokenRow
<1>12. ASSUME NEW r \in Requests, RevokeFamily(r) PROVE DeadInv'
    BY <1>12 DEF RevokeFamily, Revoked, End, Goto, DeadInv, RowsInv, RequestsInv, Rotating, TypeOK, TokenRow
<1>13. ASSUME NEW r \in Requests, Crash(r) PROVE DeadInv'
    BY <1>13 DEF Crash, Mishap, End, Goto, DeadInv, RowsInv, RequestsInv, Rotating, TypeOK, TokenRow
<1>14. ASSUME NEW t \in Tokens, Expire(t) PROVE DeadInv'
    BY <1>14 DEF Expire, Mishap, request, DeadInv, RowsInv, RequestsInv, Rotating, TypeOK, TokenRow
<1>15. ASSUME NEW t \in Tokens, Purge(t) PROVE DeadInv'
    BY <1>15 DEF Purge, Purgeable, Mishap, request, history, DeadInv, RowsInv, RequestsInv, Rotating, TypeOK, TokenRow
<1>16. ASSUME RemoveAccount PROVE DeadInv'
    BY <1>16 DEF RemoveAccount, Mishap, request, history, DeadInv, RowsInv, RequestsInv, Rotating, TypeOK, TokenRow
<1>17. ASSUME UNCHANGED vars PROVE DeadInv'
    BY <1>17 DEF vars, request, history, DeadInv, RowsInv, RequestsInv, Rotating, TypeOK, TokenRow
<1> QED
    BY <1>1, <1>2, <1>3, <1>4, <1>5, <1>6, <1>7, <1>8, <1>9, <1>10, <1>11, <1>12, <1>13, <1>14, <1>15, <1>16, <1>17 DEF Next

LEMMA ForkStep ==
    ASSUME TypeOK, TokenInv, [Next]_vars
    PROVE  ForkInv'
<1> USE DEF TokenInv, Row
<1>1. ASSUME NEW r \in Requests, NEW f \in Families, SignIn(r, f) PROVE ForkInv'
    BY <1>1 DEF SignIn, Goto, ForkInv, RowsInv, RequestsInv, Rotating, Live, TypeOK, TokenRow
<1>2. ASSUME NEW r \in Requests, NEW t \in Tokens, Rotate(r, t) PROVE ForkInv'
    BY <1>2 DEF Rotate, Goto, history, ForkInv, RowsInv, RequestsInv, Rotating, Live, TypeOK, TokenRow
<1>3. ASSUME NEW r \in Requests, Refuse(r) PROVE ForkInv'
    BY <1>3 DEF Refuse, End, Goto, history, ForkInv, RowsInv, RequestsInv, Rotating, Live, TypeOK, TokenRow
<1>4. ASSUME NEW r \in Requests, DetectReuse(r) PROVE ForkInv'
    BY <1>4 DEF DetectReuse, Valid, Goto, history, ForkInv, RowsInv, RequestsInv, Rotating, Live, TypeOK, TokenRow
<1>5. ASSUME NEW r \in Requests, Accept(r) PROVE ForkInv'
    BY <1>5 DEF Accept, Valid, Goto, ForkInv, RowsInv, RequestsInv, Rotating, Live, TypeOK, TokenRow
<1>6. ASSUME NEW r \in Requests, FindAccount(r) PROVE ForkInv'
    BY <1>6 DEF FindAccount, Goto, history, ForkInv, RowsInv, RequestsInv, Rotating, Live, TypeOK, TokenRow
<1>7. ASSUME NEW r \in Requests, MarkRotated(r) PROVE ForkInv'
    BY <1>7 DEF MarkRotated, Goto, history, ForkInv, RowsInv, RequestsInv, Rotating, Live, TypeOK, TokenRow
<1>8. ASSUME NEW r \in Requests, NEW t \in Tokens, IssueRefresh(r, t) PROVE ForkInv'
    BY <1>8 DEF IssueRefresh, Fresh, Goto, ForkInv, RowsInv, RequestsInv, Rotating, Live, TypeOK, TokenRow
<1>9. ASSUME NEW r \in Requests, Answer(r) PROVE ForkInv'
    BY <1>9 DEF Answer, End, Goto, history, ForkInv, RowsInv, RequestsInv, Rotating, Live, TypeOK, TokenRow
<1>10. ASSUME NEW r \in Requests, NEW t \in Tokens, SignOut(r, t) PROVE ForkInv'
    BY <1>10 DEF SignOut, Goto, history, ForkInv, RowsInv, RequestsInv, Rotating, Live, TypeOK, TokenRow
<1>11. ASSUME NEW r \in Requests, FindFamily(r) PROVE ForkInv'
    BY <1>11 DEF FindFamily, End, Goto, history, ForkInv, RowsInv, RequestsInv, Rotating, Live, TypeOK, TokenRow
<1>12. ASSUME NEW r \in Requests, RevokeFamily(r) PROVE ForkInv'
    BY <1>12 DEF RevokeFamily, Revoked, End, Goto, ForkInv, RowsInv, RequestsInv, Rotating, Live, TypeOK, TokenRow
<1>13. ASSUME NEW r \in Requests, Crash(r) PROVE ForkInv'
    BY <1>13 DEF Crash, Mishap, End, Goto, ForkInv, RowsInv, RequestsInv, Rotating, Live, TypeOK, TokenRow
<1>14. ASSUME NEW t \in Tokens, Expire(t) PROVE ForkInv'
    BY <1>14 DEF Expire, Mishap, request, ForkInv, RowsInv, RequestsInv, Rotating, Live, TypeOK, TokenRow
<1>15. ASSUME NEW t \in Tokens, Purge(t) PROVE ForkInv'
    BY <1>15 DEF Purge, Purgeable, Mishap, request, history, ForkInv, RowsInv, RequestsInv, Rotating, Live, TypeOK, TokenRow
<1>16. ASSUME RemoveAccount PROVE ForkInv'
    BY <1>16 DEF RemoveAccount, Mishap, request, history, ForkInv, RowsInv, RequestsInv, Rotating, Live, TypeOK, TokenRow
<1>17. ASSUME UNCHANGED vars PROVE ForkInv'
    BY <1>17 DEF vars, request, history, ForkInv, RowsInv, RequestsInv, Rotating, Live, TypeOK, TokenRow
<1> QED
    BY <1>1, <1>2, <1>3, <1>4, <1>5, <1>6, <1>7, <1>8, <1>9, <1>10, <1>11, <1>12, <1>13, <1>14, <1>15, <1>16, <1>17 DEF Next

LEMMA SurviveStep ==
    ASSUME TypeOK, TokenInv, [Next]_vars
    PROVE  SessionSurvives'
<1> USE DEF TokenInv, Row
<1>1. ASSUME NEW r \in Requests, NEW f \in Families, SignIn(r, f) PROVE SessionSurvives'
    BY <1>1 DEF SignIn, Goto, SessionSurvives, RowsInv, RequestsInv, Live, TypeOK, TokenRow
<1>2. ASSUME NEW r \in Requests, NEW t \in Tokens, Rotate(r, t) PROVE SessionSurvives'
    BY <1>2 DEF Rotate, Goto, history, SessionSurvives, RowsInv, RequestsInv, Live, TypeOK, TokenRow
<1>3. ASSUME NEW r \in Requests, Refuse(r) PROVE SessionSurvives'
    BY <1>3 DEF Refuse, End, Goto, history, SessionSurvives, RowsInv, RequestsInv, Live, TypeOK, TokenRow
<1>4. ASSUME NEW r \in Requests, DetectReuse(r) PROVE SessionSurvives'
    BY <1>4 DEF DetectReuse, Valid, Goto, history, SessionSurvives, RowsInv, RequestsInv, Live, TypeOK, TokenRow
<1>5. ASSUME NEW r \in Requests, Accept(r) PROVE SessionSurvives'
    BY <1>5 DEF Accept, Valid, Goto, SessionSurvives, RowsInv, RequestsInv, Live, TypeOK, TokenRow
<1>6. ASSUME NEW r \in Requests, FindAccount(r) PROVE SessionSurvives'
    BY <1>6 DEF FindAccount, Goto, history, SessionSurvives, RowsInv, RequestsInv, Live, TypeOK, TokenRow
<1>7. ASSUME NEW r \in Requests, MarkRotated(r) PROVE SessionSurvives'
    BY <1>7 DEF MarkRotated, Goto, history, SessionSurvives, RowsInv, RequestsInv, Live, TypeOK, TokenRow
<1>8. ASSUME NEW r \in Requests, NEW t \in Tokens, IssueRefresh(r, t) PROVE SessionSurvives'
    BY <1>8 DEF IssueRefresh, Fresh, Goto, SessionSurvives, RowsInv, RequestsInv, Live, TypeOK, TokenRow
<1>9. ASSUME NEW r \in Requests, Answer(r) PROVE SessionSurvives'
    BY <1>9 DEF Answer, End, Goto, history, SessionSurvives, RowsInv, RequestsInv, Live, TypeOK, TokenRow
<1>10. ASSUME NEW r \in Requests, NEW t \in Tokens, SignOut(r, t) PROVE SessionSurvives'
    BY <1>10 DEF SignOut, Goto, history, SessionSurvives, RowsInv, RequestsInv, Live, TypeOK, TokenRow
<1>11. ASSUME NEW r \in Requests, FindFamily(r) PROVE SessionSurvives'
    BY <1>11 DEF FindFamily, End, Goto, history, SessionSurvives, RowsInv, RequestsInv, Live, TypeOK, TokenRow
<1>12. ASSUME NEW r \in Requests, RevokeFamily(r) PROVE SessionSurvives'
    <2>1. SUFFICES ASSUME NEW f \in started' \ (burned' \cup lost')
                   PROVE  \/ \E t \in delivered' : Live(t, f)'
                          \/ \E s \in Requests : pc'[s] \in {"insert", "answer"} /\ family'[s] = f
        BY DEF SessionSurvives
    <2>2. /\ f \in started \ (burned \cup lost) /\ f # family[r]
          /\ delivered' = delivered /\ refreshTokens' = Revoked(family[r])
        BY <1>12, <2>1 DEF RevokeFamily
    <2>3. ASSUME NEW t \in delivered, Live(t, f)
          PROVE  Live(t, f)'
        BY <2>2, <2>3 DEF Live, Revoked, TypeOK
    <2>4. ASSUME NEW s \in Requests, pc[s] \in {"insert", "answer"}, family[s] = f
          PROVE  pc'[s] \in {"insert", "answer"} /\ family'[s] = f
        BY <1>12, <2>2, <2>4 DEF RevokeFamily, End, Goto, TypeOK
    <2> QED
        BY <2>2, <2>3, <2>4 DEF SessionSurvives
<1>13. ASSUME NEW r \in Requests, Crash(r) PROVE SessionSurvives'
    BY <1>13 DEF Crash, Mishap, End, Goto, SessionSurvives, RowsInv, RequestsInv, Live, TypeOK, TokenRow
<1>14. ASSUME NEW t \in Tokens, Expire(t) PROVE SessionSurvives'
    BY <1>14 DEF Expire, Mishap, request, SessionSurvives, RowsInv, RequestsInv, Live, TypeOK, TokenRow
<1>15. ASSUME NEW t \in Tokens, Purge(t) PROVE SessionSurvives'
    BY <1>15 DEF Purge, Purgeable, Mishap, request, history, SessionSurvives, RowsInv, RequestsInv, Live, TypeOK, TokenRow
<1>16. ASSUME RemoveAccount PROVE SessionSurvives'
    BY <1>16 DEF RemoveAccount, Mishap, request, history, SessionSurvives, RowsInv, RequestsInv, Live, TypeOK, TokenRow
<1>17. ASSUME UNCHANGED vars PROVE SessionSurvives'
    BY <1>17 DEF vars, request, history, SessionSurvives, RowsInv, RequestsInv, Live, TypeOK, TokenRow
<1> QED
    BY <1>1, <1>2, <1>3, <1>4, <1>5, <1>6, <1>7, <1>8, <1>9, <1>10, <1>11, <1>12, <1>13, <1>14, <1>15, <1>16, <1>17 DEF Next

LEMMA Inductive == Spec => [](TypeOK /\ TokenInv)
<1>1. TypeOK /\ TokenInv /\ [Next]_vars => (TypeOK /\ TokenInv)'
    BY TypeStep, RowsStep, RequestsStep, DeadStep, ForkStep, SurviveStep DEF TokenInv
<1> QED
    BY InvInit, <1>1, PTL DEF Spec

(* The state of the refresh_tokens table and of every request is well typed;
   a request past its reads has a token and a family to work on
   (rotate, issue and signOut of token.service.ts). *)
THEOREM TypeCorrect == Spec => []TypeOK
BY Inductive, PTL

(* A family that reuse detection or a sign-out revoked never has a usable token
   again, unless one of its rotations was between its checks and its insert
   (revokeFamily against rotate, token.service.ts). *)
THEOREM DeadStaysDead == Spec => []DeadUnlessRaced
<1>1. DeadInv => DeadUnlessRaced
    BY DEF DeadInv, DeadUnlessRaced, Live
<1> QED
    BY Inductive, <1>1, PTL DEF TokenInv

(* At most one token of a family is usable, unless two rotations of the family
   overlapped (the test of rotatedAt and its later UPDATE in rotate). *)
THEOREM OneLive == Spec => []OneLiveUnlessForked
<1>1. ForkInv => OneLiveUnlessForked
    BY DEF ForkInv, OneLiveUnlessForked
<1> QED
    BY Inductive, <1>1, PTL DEF TokenInv

(* A session that nobody revoked and whose answers arrived keeps a usable token
   in its client's hands, or about to be (rotate marks the old row before it
   inserts the new one). *)
THEOREM NoAccidentalSignOut == Spec => []SessionSurvives
BY Inductive, PTL DEF TokenInv

----------------------------------------------------------------------------
(* Sessions: the refinement. *)

(* The tokens that session f can be continued with, as Session sees them. *)
Usable(f) == {t \in Tokens : Dependable(f) /\ Live(t, f)}

LEMMA MapInit == Init => Sessions!Init
BY DEF Init, Sessions!Init, Live, Row

(* A step that leaves the rows, and what is said of families and tokens, as it is. *)
LEMMA MapQuiet ==
    ASSUME UNCHANGED <<refreshTokens, burned, raced, forked, issued>>
    PROVE  UNCHANGED Sessions!vars
BY DEF Sessions!vars, Dependable, Live, Row

(* A step after which every session is as usable as before, or not at all. *)
LEMMA MapSpend ==
    ASSUME NEW f \in Families, UNCHANGED <<burned, issued>>,
           Usable(f)' \in {Usable(f), {}},
           \A g \in Families : g # f => Usable(g)' = Usable(g)
    PROVE  [Sessions!Next]_(Sessions!vars)
<1> DEFINE usable == [g \in Families |-> Usable(g)]
<1>1. CASE Usable(f)' = Usable(f)
    <2>1. usable' = usable
        BY <1>1
    <2> QED
        BY <2>1 DEF Sessions!vars, Usable
<1>2. CASE Usable(f)' = {}
    <2>1. usable' = [usable EXCEPT ![f] = {}]
        BY <1>2
    <2>2. Sessions!Spend(f)
        BY <2>1 DEF Sessions!Spend, Usable
    <2> QED
        BY <2>2 DEF Sessions!Next
<1> QED
    BY <1>1, <1>2

LEMMA MapAccept ==
    ASSUME TypeOK, TokenInv, NEW r \in Requests, Accept(r)
    PROVE  [Sessions!Next]_(Sessions!vars)
<1>1. PICK f \in Families : f = Row(token[r]).family
    BY DEF Accept, Valid, TypeOK, Row, TokenRow
<1>2. /\ UNCHANGED <<refreshTokens, burned, issued, raced>>
      /\ forked' \in {forked, forked \cup {f}}
    BY <1>1 DEF Accept
<1>3. \A g \in Families : \A t \in Tokens : Live(t, g)' <=> Live(t, g)
    BY <1>2 DEF Live, Row
<1>4. Usable(f)' \in {Usable(f), {}}
    BY <1>1, <1>2, <1>3 DEF Usable, Dependable
<1>5. \A g \in Families : g # f => Usable(g)' = Usable(g)
    BY <1>2, <1>3 DEF Usable, Dependable
<1> QED
    BY <1>1, <1>2, <1>4, <1>5, MapSpend

(* A step that takes one row out of use and touches no other. *)
LEMMA MapRetire ==
    ASSUME TypeOK, TokenInv, NEW t \in Tokens, Row(t) # None,
           UNCHANGED <<burned, issued, raced, forked>>,
           \A u \in Tokens : u # t => Row(u)' = Row(u),
           \A g \in Families : Live(t, g)' => Live(t, g)
    PROVE  [Sessions!Next]_(Sessions!vars)
<1>1. PICK f \in Families : f = Row(t).family
    BY DEF TypeOK, Row, TokenRow
<1>2. \A g \in Families, u \in Tokens : u # t => (Live(u, g)' <=> Live(u, g))
    BY DEF Live
<1>3. \A g \in Families : Dependable(g)' <=> Dependable(g)
    BY DEF Dependable
<1>4. \A g \in Families : g # f => Usable(g)' = Usable(g)
    <2>1. \A g \in Families : g # f => ~ Live(t, g)
        BY <1>1 DEF Live
    <2> QED
        BY <1>2, <1>3, <2>1 DEF Usable
<1>5. Usable(f)' \in {Usable(f), {}}
    <2>1. CASE Live(t, f)'
        <3>1. \A u \in Tokens : Live(u, f)' <=> Live(u, f)
            BY <1>1, <1>2, <2>1
        <3> QED
            BY <1>1, <1>3, <3>1 DEF Usable
    <2>2. CASE ~ Live(t, f) /\ ~ Live(t, f)'
        <3>1. \A u \in Tokens : Live(u, f)' <=> Live(u, f)
            BY <1>1, <1>2, <2>2
        <3> QED
            BY <1>1, <1>3, <3>1 DEF Usable
    <2>3. CASE Live(t, f) /\ ~ Live(t, f)'
        <3>1. Dependable(f) => \A u \in Tokens : Live(u, f) => u = t
            BY <1>1, <2>3 DEF TokenInv, ForkInv, Dependable
        <3>2. Usable(f)' = {}
            BY <1>1, <1>2, <1>3, <2>3, <3>1 DEF Usable
        <3> QED
            BY <3>2
    <2> QED
        BY <2>1, <2>2, <2>3
<1> QED
    BY <1>1, <1>4, <1>5, MapSpend

(* A new token: the session has no other, unless it is one nobody relies on. *)
LEMMA MapIssue ==
    ASSUME TypeOK, TokenInv, NEW r \in Requests, NEW t \in Tokens, IssueRefresh(r, t)
    PROVE  Sessions!Next
<1> DEFINE usable == [g \in Families |-> Usable(g)]
<1>1. PICK f \in Families : f = family[r] /\ Rotating(r, f) /\ pc[r] = "insert"
    BY DEF IssueRefresh, TypeOK, Rotating
<1>2. /\ t \notin issued /\ issued' = issued \cup {t}
      /\ UNCHANGED <<burned, raced, forked>>
    BY DEF IssueRefresh
<1>3. /\ Row(t) = None
      /\ Row(t)' = Fresh(f)
      /\ \A u \in Tokens : u # t => Row(u)' = Row(u)
    BY <1>1, <1>2 DEF IssueRefresh, TypeOK, TokenInv, RowsInv, Row
<1>4. \A g \in Families : Live(t, g)' <=> g = f
    <2>1. Fresh(f) \in TokenRow
        BY <1>1 DEF Fresh, TokenRow
    <2>2. /\ Fresh(f) # None /\ Fresh(f).family = f
          /\ ~ Fresh(f).rotated /\ ~ Fresh(f).revoked
        BY <2>1 DEF Fresh
    <2> QED
        BY <1>3, <2>2 DEF Live
<1>5. \A g \in Families, u \in Tokens : u # t => (Live(u, g)' <=> Live(u, g))
    BY <1>3 DEF Live
<1>6. \A g \in Families : ~ Live(t, g)
    BY <1>3 DEF Live
<1>7. \A g \in Families : Dependable(g)' <=> Dependable(g)
    BY <1>2 DEF Dependable
<1>8. \A g \in Families : g # f => Usable(g)' = Usable(g)
    BY <1>4, <1>5, <1>6, <1>7 DEF Usable
<1>9. CASE Dependable(f)
    <2>1. f \notin burned
        BY <1>1, <1>9 DEF TokenInv, DeadInv, Dependable
    <2>2. Usable(f) = {}
        BY <1>1, <1>9 DEF TokenInv, ForkInv, Dependable, Usable
    <2>3. \A u \in Tokens : ~ Live(u, f)
        BY <1>9, <2>2 DEF Usable
    <2>4. Usable(f)' = {t}
        BY <1>1, <1>4, <1>5, <1>7, <1>9, <2>3 DEF Usable
    <2>5. usable' = [usable EXCEPT ![f] = {t}]
        BY <1>1, <1>8, <2>4
    <2>6. Sessions!Issue(f, t)
        BY <1>1, <1>2, <2>1, <2>2, <2>5 DEF Sessions!Issue, Usable
    <2> QED
        BY <1>1, <2>6 DEF Sessions!Next
<1>10. CASE ~ Dependable(f)
    <2>1. Usable(f)' = Usable(f)
        BY <1>1, <1>7, <1>10 DEF Usable
    <2>2. usable' = usable
        BY <1>8, <2>1
    <2>3. Sessions!Waste(t)
        BY <1>2, <2>2 DEF Sessions!Waste, Usable
    <2> QED
        BY <2>3 DEF Sessions!Next
<1> QED
    BY <1>9, <1>10

LEMMA MapRevoke ==
    ASSUME TypeOK, TokenInv, NEW r \in Requests, RevokeFamily(r)
    PROVE  Sessions!Next
<1> DEFINE usable == [g \in Families |-> Usable(g)]
<1>1. PICK f \in Families : f = family[r]
    BY DEF RevokeFamily, TypeOK
<1>2. /\ burned' = burned \cup {f} /\ UNCHANGED <<issued, forked>>
      /\ \A g \in Families : g # f => (g \in raced' <=> g \in raced)
    BY <1>1 DEF RevokeFamily
<1>3. \A u \in Tokens : Row(u)' = IF Row(u) # None /\ Row(u).family = f
                                  THEN [Row(u) EXCEPT !.revoked = TRUE] ELSE Row(u)
    BY <1>1 DEF RevokeFamily, Revoked, Row, TypeOK
<1>4. \A u \in Tokens : ~ Live(u, f)'
    <2> SUFFICES ASSUME NEW u \in Tokens, Live(u, f)' PROVE FALSE
        OBVIOUS
    <2>1. Row(u) # None => Row(u) \in TokenRow
        BY DEF Row, TypeOK
    <2>2. CASE Row(u) # None /\ Row(u).family = f
        BY <1>3, <2>1, <2>2 DEF Live, TokenRow
    <2>3. CASE ~ (Row(u) # None /\ Row(u).family = f)
        BY <1>3, <2>3 DEF Live
    <2> QED
        BY <2>2, <2>3
<1>5. \A g \in Families, u \in Tokens : g # f => (Live(u, g)' <=> Live(u, g))
    <2> SUFFICES ASSUME NEW g \in Families, NEW u \in Tokens, g # f
                 PROVE  Live(u, g)' <=> Live(u, g)
        OBVIOUS
    <2>1. Row(u) # None => Row(u) \in TokenRow
        BY DEF Row, TypeOK
    <2>2. CASE Row(u) # None /\ Row(u).family = f
        BY <1>3, <2>1, <2>2 DEF Live, TokenRow
    <2>3. CASE ~ (Row(u) # None /\ Row(u).family = f)
        BY <1>3, <2>3 DEF Live
    <2> QED
        BY <2>2, <2>3
<1>6. \A g \in Families : g # f => Usable(g)' = Usable(g)
    BY <1>2, <1>5 DEF Usable, Dependable
<1>7. Usable(f)' = {}
    BY <1>1, <1>4 DEF Usable
<1>8. usable' = [usable EXCEPT ![f] = {}]
    BY <1>1, <1>6, <1>7
<1>9. Sessions!Close(f)
    BY <1>2, <1>8 DEF Sessions!Close, Usable
<1> QED
    BY <1>1, <1>9 DEF Sessions!Next

LEMMA MapStep ==
    ASSUME TypeOK, TokenInv, [Next]_vars
    PROVE  [Sessions!Next]_(Sessions!vars)
<1>1. ASSUME UNCHANGED <<refreshTokens, burned, raced, forked, issued>>
      PROVE  [Sessions!Next]_(Sessions!vars)
    BY <1>1, MapQuiet
<1>2. ASSUME NEW r \in Requests, NEW f \in Families, SignIn(r, f)
      PROVE  [Sessions!Next]_(Sessions!vars)
    BY <1>1, <1>2 DEF SignIn
<1>3. ASSUME NEW r \in Requests, NEW t \in Tokens, Rotate(r, t) \/ SignOut(r, t)
      PROVE  [Sessions!Next]_(Sessions!vars)
    BY <1>1, <1>3 DEF Rotate, SignOut, history
<1>4. ASSUME NEW r \in Requests,
             Refuse(r) \/ DetectReuse(r) \/ FindAccount(r) \/ Answer(r) \/ FindFamily(r)
      PROVE  [Sessions!Next]_(Sessions!vars)
    BY <1>1, <1>4 DEF Refuse, DetectReuse, FindAccount, Answer, FindFamily, history
<1>5. ASSUME NEW r \in Requests, Crash(r) PROVE [Sessions!Next]_(Sessions!vars)
    BY <1>1, <1>5 DEF Crash
<1>6. ASSUME RemoveAccount PROVE [Sessions!Next]_(Sessions!vars)
    BY <1>1, <1>6 DEF RemoveAccount, history
<1>7. ASSUME NEW r \in Requests, MarkRotated(r) PROVE [Sessions!Next]_(Sessions!vars)
    <2>1. token[r] \in Tokens /\ Row(token[r]) # None /\ Row(token[r]) \in TokenRow
        BY <1>7 DEF MarkRotated, TypeOK, TokenInv, RequestsInv, Row
    <2>2. /\ Row(token[r])' = [Row(token[r]) EXCEPT !.rotated = TRUE]
          /\ \A u \in Tokens : u # token[r] => Row(u)' = Row(u)
        BY <1>7, <2>1 DEF MarkRotated, TypeOK, Row
    <2>3. \A g \in Families : ~ Live(token[r], g)'
        BY <2>1, <2>2 DEF Live, TokenRow, MarkRotated
    <2>4. UNCHANGED <<burned, issued, raced, forked>>
        BY <1>7 DEF MarkRotated, history
    <2>5. token' = token
        BY <1>7 DEF MarkRotated
    <2> QED
        BY <2>1, <2>2, <2>3, <2>4, <2>5, MapRetire
<1>8. ASSUME NEW t \in Tokens, Expire(t) PROVE [Sessions!Next]_(Sessions!vars)
    <2>1. Row(t) # None /\ Row(t) \in TokenRow
        BY <1>8 DEF Expire, TypeOK, Row
    <2>2. /\ Row(t)' = [Row(t) EXCEPT !.expired = TRUE]
          /\ \A u \in Tokens : u # t => Row(u)' = Row(u)
        BY <1>8, <2>1 DEF Expire, TypeOK, Row
    <2>3. \A g \in Families : Live(t, g)' => Live(t, g)
        BY <2>1, <2>2 DEF Live, TokenRow
    <2>4. UNCHANGED <<burned, issued, raced, forked>>
        BY <1>8 DEF Expire
    <2> QED
        BY <2>1, <2>2, <2>3, <2>4, MapRetire
<1>9. ASSUME NEW t \in Tokens, Purge(t) PROVE [Sessions!Next]_(Sessions!vars)
    <2>1. /\ Row(t) # None /\ Row(t)' = None
          /\ \A u \in Tokens : u # t => Row(u)' = Row(u)
        BY <1>9 DEF Purge, TypeOK, Row
    <2>2. \A g \in Families : Live(t, g)' => Live(t, g)
        BY <2>1 DEF Live
    <2>3. UNCHANGED <<burned, issued, raced, forked>>
        BY <1>9 DEF Purge, history
    <2> QED
        BY <2>1, <2>2, <2>3, MapRetire
<1>10. ASSUME UNCHANGED vars PROVE [Sessions!Next]_(Sessions!vars)
    BY <1>1, <1>10 DEF vars, history
<1> QED
    BY <1>2, <1>3, <1>4, <1>5, <1>6, <1>7, <1>8, <1>9, <1>10, MapAccept, MapIssue, MapRevoke DEF Next

(* An exchange of refresh tokens is as good as one step: leaving aside families
   whose rotations overlapped each other or their revocation, rotate, signOut,
   revokeFamily and the purge (token.service.ts, cleanup.service.ts) do nothing to
   sessions that Session does not allow. *)
THEOREM SessionsAsPromised == Spec => ImplementsSession
<1>1. Init => Sessions!Init
    BY MapInit
<1>2. TypeOK /\ TokenInv /\ [Next]_vars => [Sessions!Next]_(Sessions!vars)
    BY MapStep
<1> QED
    BY Inductive, <1>1, <1>2, PTL DEF Spec, ImplementsSession, Sessions!Spec

----------------------------------------------------------------------------
(* A token that was given out and is of no use now will never be of use again. *)
SpentForGood ==
    [][\A t \in issued, f \in Families : ~ Live(t, f) => ~ Live(t, f)']_vars

LEMMA SpentStep ==
    ASSUME TypeOK, TokenInv, [Next]_vars, NEW t \in issued, NEW f \in Families, Live(t, f)'
    PROVE  Live(t, f)
<1>1. t \in Tokens
    BY DEF TypeOK
<1>2. ASSUME Row(t)' = Row(t) PROVE Live(t, f)
    BY <1>2 DEF Live
<1>3. ASSUME NEW r \in Requests, MarkRotated(r) PROVE Live(t, f)
    <2>1. Row(token[r]) \in TokenRow /\ token[r] \in Tokens
        BY <1>3 DEF MarkRotated, TypeOK, TokenInv, RequestsInv, Row
    <2>2. CASE t = token[r]
        BY <1>3, <2>1, <2>2 DEF MarkRotated, TypeOK, Row, Live, TokenRow
    <2>3. CASE t # token[r]
        BY <1>1, <1>2, <1>3, <2>3 DEF MarkRotated, TypeOK, Row
    <2> QED
        BY <2>2, <2>3
<1>4. ASSUME NEW r \in Requests, NEW u \in Tokens, IssueRefresh(r, u) PROVE Live(t, f)
    BY <1>1, <1>2, <1>4 DEF IssueRefresh, TypeOK, Row
<1>5. ASSUME NEW r \in Requests, RevokeFamily(r) PROVE Live(t, f)
    <2>1. Row(t) # None => Row(t) \in TokenRow
        BY <1>1 DEF TypeOK, Row
    <2>2. \/ Row(t)' = Row(t)
          \/ Row(t) # None /\ Row(t)' = [Row(t) EXCEPT !.revoked = TRUE]
        BY <1>1, <1>5 DEF RevokeFamily, Revoked, TypeOK, Row
    <2> QED
        BY <1>2, <2>1, <2>2 DEF Live, TokenRow
<1>6. ASSUME NEW u \in Tokens, Expire(u) PROVE Live(t, f)
    <2>1. Row(u) # None /\ Row(u) \in TokenRow
        BY <1>6 DEF Expire, TypeOK, Row
    <2>2. CASE t = u
        BY <1>6, <2>1, <2>2 DEF Expire, TypeOK, Row, Live, TokenRow
    <2>3. CASE t # u
        BY <1>1, <1>2, <1>6, <2>3 DEF Expire, TypeOK, Row
    <2> QED
        BY <2>2, <2>3
<1>7. ASSUME NEW u \in Tokens, Purge(u) PROVE Live(t, f)
    BY <1>1, <1>2, <1>7 DEF Purge, TypeOK, Row, Live
<1>8. ASSUME UNCHANGED refreshTokens PROVE Live(t, f)
    BY <1>2, <1>8 DEF Row
<1> QED
    BY <1>3, <1>4, <1>5, <1>6, <1>7, <1>8
       DEF Next, SignIn, Rotate, SignOut, Refuse, DetectReuse, Accept, FindAccount, Answer,
           FindFamily, Crash, RemoveAccount, vars

(* Without exception: a refresh token that was exchanged, revoked or purged can
   never be exchanged again, however requests overlap (the UPDATEs of rotate and
   revokeFamily set rotatedAt and revokedAt, and nothing clears them). *)
THEOREM SpentStaysSpent == Spec => SpentForGood
<1>1. TypeOK /\ TokenInv /\ [Next]_vars
        => [\A t \in issued, f \in Families : ~ Live(t, f) => ~ Live(t, f)']_vars
    BY SpentStep
<1> QED
    BY Inductive, <1>1, PTL DEF Spec, SpentForGood
====
