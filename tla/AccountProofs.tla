--------------------------- MODULE AccountProofs ---------------------------
(***************************************************************************)
(* Theorems about the two sides of an account: the session of a browser    *)
(* (BrowserSession), for any number of calls, and the claims, closures and *)
(* credits of accounts (AccountClaims), for any numbers of accounts,       *)
(* purchases, references, pictures and calls.                              *)
(***************************************************************************)
EXTENDS BrowserSession, AccountClaims, Integers, FiniteSetTheorems, TLAPS

\* What a logout has loaded is an unrevoked row no newer than the family is now.
SeenIsOld ==
  /\ \A c \in Calls : ~call[c].seen.revoked /\ call[c].seen.version <= Len(token)
  /\ ~session.revoked => session.version <= Len(token)

Inv ==
  /\ TypeOK
  /\ OneLiveToken
  /\ SeenIsOld
  /\ LoggedOut => session.revoked

LEMMA Constants ==
  /\ Empty \in Jar /\ NoAnswer \in Answer /\ FirstSession \in SessionRow
  /\ NoAnswer.status = "none"
  /\ ~FirstSession.revoked /\ FirstSession.version = 1 /\ FirstSession.csrf = 1
BY DEF Empty, Jar, NoAnswer, Answer, FirstSession, SessionRow

\* What a reply makes of a call.
LEMMA ReplyRow ==
  ASSUME NEW r \in CallRow, NEW at \in {"answered", "refreshed"},
         NEW status \in {"ok", "401", "403", "500"}, NEW cookies \in Jar, NEW sets \in BOOLEAN
  PROVE  /\ [r EXCEPT !.at = at, !.answer = [status |-> status, cookies |-> cookies, sets |-> sets]] \in CallRow
         /\ [status |-> status, cookies |-> cookies, sets |-> sets] \in Answer
BY DEF CallRow, Answer

-----------------------------------------------------------------------------

LEMMA InitInv == Init => Inv
<1> SUFFICES ASSUME Init PROVE Inv
  OBVIOUS
<1> DEFINE row == [kind |-> "read", at |-> "idle", header |-> 0, sent |-> Empty, seen |-> FirstSession,
                   used |-> 0, again |-> FALSE, lost |-> FALSE, answer |-> NoAnswer]
<1>1. row \in CallRow
  BY Constants DEF CallRow
<1>2. call = [c \in Calls |-> row]
  BY DEF Init
<1>3. row.seen = FirstSession /\ row.at = "idle"
  OBVIOUS
<1> HIDE DEF row
<1>4. /\ session = FirstSession /\ token = <<"ACTIVE">> /\ stale = {}
      /\ jar = [access |-> 1, refresh |-> 1, csrf |-> 1]
  BY DEF Init
<1>5. Len(token) = 1 /\ token \in Seq({"ACTIVE", "USED", "REVOKED"}) /\ Active = {1}
  BY <1>4 DEF Active
<1>6. TypeOK
  <2>1. jar \in Jar
    BY <1>4 DEF Jar
  <2>2. call \in [Calls -> CallRow]
    BY <1>1, <1>2
  <2> QED
    BY <1>4, <1>5, <2>1, <2>2, Constants DEF TypeOK
<1>7. OneLiveToken
  BY <1>4, <1>5, Constants DEF OneLiveToken
<1>8. SeenIsOld
  BY <1>2, <1>3, <1>4, <1>5, Constants DEF SeenIsOld
<1>9. ~LoggedOut
  BY <1>2, <1>3 DEF LoggedOut
<1> QED
  BY <1>6, <1>7, <1>8, <1>9 DEF Inv

\* Steps of the browser leave the families alone.
LEMMA BrowserStep ==
  ASSUME Inv, NEW c \in Calls, UNCHANGED <<session, token, stale>>,
         call' \in [Calls -> CallRow], jar' \in Jar,
         \A d \in Calls : /\ d # c => call'[d] = call[d]
                          /\ call'[c].seen = call[c].seen
                          /\ call'[c].kind = call[c].kind \/ call'[c].at = "sent"
                          /\ call'[c].at \in {"answered", "done"} /\ call'[c].answer.status = "ok"
                             => call[c].at = "answered" /\ call[c].answer.status = "ok"
  PROVE  Inv'
<1>1. TypeOK'
  BY DEF Inv, TypeOK
<1>2. OneLiveToken'
  BY DEF Inv, OneLiveToken, Active
<1>3. SeenIsOld'
  BY DEF Inv, SeenIsOld
<1>4. (LoggedOut => session.revoked)'
  <2> SUFFICES ASSUME NEW e \in Calls, call'[e].kind = "logout",
                      call'[e].at \in {"answered", "done"}, call'[e].answer.status = "ok"
               PROVE  session'.revoked
    BY DEF LoggedOut
  <2>1. call[e].kind = "logout" /\ call[e].at \in {"answered", "done"} /\ call[e].answer.status = "ok"
    <3>1. CASE e = c
      <4>1. call[c].at = "answered" /\ call[c].answer.status = "ok"
        BY <3>1
      <4>2. call[c].kind = "logout"
        BY <3>1
      <4> QED
        BY <3>1, <4>1, <4>2
    <3>2. CASE e # c
      <4>1. call'[e] = call[e]
        BY <3>2
      <4> QED
        BY <4>1
    <3> QED
      BY <3>1, <3>2
  <2> QED
    BY <2>1 DEF Inv, LoggedOut
<1> QED
  BY <1>1, <1>2, <1>3, <1>4 DEF Inv

\* The fields of a call.
LEMMA Fields ==
  ASSUME NEW r \in CallRow
  PROVE  /\ r.kind \in {"read", "write", "logout"}
         /\ r.header \in Nat /\ r.sent \in Jar /\ r.seen \in SessionRow /\ r.used \in Nat
         /\ r.answer \in Answer
BY DEF CallRow

\* One call changes.
LEMMA OneCall ==
  ASSUME call \in [Calls -> CallRow], NEW c \in Calls, NEW row \in CallRow,
         call' = [call EXCEPT ![c] = row]
  PROVE  /\ call' \in [Calls -> CallRow]
         /\ call'[c] = row
         /\ \A d \in Calls : d # c => call'[d] = call[d]
OBVIOUS

LEMMA Types ==
  ASSUME Inv
  PROVE  /\ call \in [Calls -> CallRow] /\ jar \in Jar /\ session \in SessionRow
         /\ \A c \in Calls : call[c] \in CallRow
BY DEF Inv, TypeOK

LEMMA StartInv ==
  ASSUME Inv, NEW c \in Calls, NEW kind \in {"read", "write", "logout"}, Start(c, kind)
  PROVE  Inv'
<1> DEFINE header == IF kind = "read" THEN 0 ELSE jar.csrf
           row == [call[c] EXCEPT !.kind = kind, !.at = "sent", !.sent = jar, !.header = header]
<1>1. header \in Nat
  BY Types DEF Jar
<1> HIDE DEF header
<1>2. row \in CallRow /\ row.seen = call[c].seen /\ row.at = "sent"
  BY <1>1, Types DEF CallRow
<1>3. call' = [call EXCEPT ![c] = row] /\ UNCHANGED <<session, token, stale, jar>>
  BY DEF Start, header
<1> HIDE DEF row
<1> QED
  BY <1>2, <1>3, Types, OneCall, BrowserStep

LEMMA ReceiveInv ==
  ASSUME Inv, NEW c \in Calls, Receive(c)
  PROVE  Inv'
<1>1. jar' \in Jar /\ UNCHANGED <<session, token, stale>> /\ call[c].at = "answered"
  <2>1. call[c].answer.cookies \in Jar
    BY Types, Fields DEF Answer
  <2> QED
    BY <2>1, Types DEF Receive, JarAfter
<1> DEFINE asks == [call[c] EXCEPT !.at = "refreshing", !.sent = jar', !.answer = NoAnswer]
           ends == [call[c] EXCEPT !.at = "done"]
<1>2. /\ asks \in CallRow /\ asks.seen = call[c].seen /\ asks.kind = call[c].kind
      /\ asks.at = "refreshing"
  BY <1>1, Types, Constants DEF CallRow
<1>3. /\ ends \in CallRow /\ ends.seen = call[c].seen /\ ends.kind = call[c].kind
      /\ ends.answer = call[c].answer
  BY <1>1, Types DEF CallRow
<1>4. call' = [call EXCEPT ![c] = asks] \/ call' = [call EXCEPT ![c] = ends]
  BY DEF Receive
<1> HIDE DEF asks, ends
<1>5. CASE call' = [call EXCEPT ![c] = asks]
  BY <1>1, <1>2, <1>5, Types, OneCall, BrowserStep
<1>6. CASE call' = [call EXCEPT ![c] = ends]
  BY <1>1, <1>3, <1>6, Types, OneCall, BrowserStep
<1> QED
  BY <1>4, <1>5, <1>6

LEMMA ReceiveRefreshInv ==
  ASSUME Inv, NEW c \in Calls, ReceiveRefresh(c)
  PROVE  Inv'
<1>1. jar' \in Jar /\ UNCHANGED <<session, token, stale>> /\ call[c].at = "refreshed"
  <2>1. call[c].answer.cookies \in Jar
    BY Types, Fields DEF Answer
  <2> QED
    BY <2>1, Types DEF ReceiveRefresh, JarAfter
<1>2. HeaderAgain(c) \in Nat
  <2>1. call[c].header \in Nat /\ jar'.csrf \in Nat
    BY <1>1, Types, Fields DEF Jar
  <2> QED
    BY <2>1 DEF HeaderAgain
<1> DEFINE sends == [call[c] EXCEPT !.at = "sent", !.again = TRUE, !.sent = jar',
                                    !.answer = NoAnswer, !.header = HeaderAgain(c)]
           ends == [call[c] EXCEPT !.at = "done"]
<1>3. sends \in CallRow /\ sends.seen = call[c].seen /\ sends.at = "sent"
  BY <1>1, <1>2, Types, Constants DEF CallRow
<1>4. /\ ends \in CallRow /\ ends.seen = call[c].seen /\ ends.kind = call[c].kind
      /\ ends.answer = call[c].answer
  BY <1>1, Types DEF CallRow
<1>5. \/ call' = [call EXCEPT ![c] = sends]
      \/ call' = [call EXCEPT ![c] = ends] /\ call[c].answer.status # "ok"
  BY DEF ReceiveRefresh
<1> HIDE DEF sends, ends
<1>6. CASE call' = [call EXCEPT ![c] = sends]
  BY <1>1, <1>3, <1>6, Types, OneCall, BrowserStep
<1>7. CASE call' = [call EXCEPT ![c] = ends] /\ call[c].answer.status # "ok"
  BY <1>1, <1>4, <1>7, Types, OneCall, BrowserStep
<1> QED
  BY <1>5, <1>6, <1>7

LEMMA LoseAnswerInv ==
  ASSUME Inv, NEW c \in Calls, LoseAnswer(c)
  PROVE  Inv'
<1> DEFINE kept == IF call[c].at = "answered" THEN call[c].answer ELSE NoAnswer
           row == [call[c] EXCEPT !.at = "done", !.lost = TRUE, !.answer = kept]
<1>1. kept \in Answer /\ (kept.status = "ok" => call[c].at = "answered" /\ call[c].answer.status = "ok")
  BY Types, Fields, Constants
<1>2. call' = [call EXCEPT ![c] = row] /\ UNCHANGED <<session, token, stale, jar>>
  BY DEF LoseAnswer
<1> HIDE DEF kept
<1>3. row \in CallRow /\ row.seen = call[c].seen /\ row.kind = call[c].kind /\ row.answer = kept
  BY <1>1, Types DEF CallRow
<1> HIDE DEF row
<1> QED
  BY <1>1, <1>2, <1>3, Types, OneCall, BrowserStep

-----------------------------------------------------------------------------
(* Steps of the server *)

\* A reply that leaves the families alone and is no success of a logout.
LEMMA ReplyInv ==
  ASSUME Inv, NEW c \in Calls, NEW status \in {"ok", "401", "403", "500"},
         status = "ok" => call[c].kind # "logout",
         Reply(c, status), UNCHANGED <<session, token, stale, jar>>
  PROVE  Inv'
<1> DEFINE answer == [status |-> status, cookies |-> Empty, sets |-> FALSE]
           row == [call[c] EXCEPT !.at = "answered", !.answer = answer]
<1>1. answer \in Answer /\ answer.status = status
  BY Constants DEF Answer
<1>2. call' = [call EXCEPT ![c] = row]
  BY DEF Reply
<1> HIDE DEF answer
<1>3. row \in CallRow /\ row.seen = call[c].seen /\ row.kind = call[c].kind /\ row.answer = answer
  BY <1>1, Types DEF CallRow
<1> HIDE DEF row
<1>4. call' \in [Calls -> CallRow] /\ call'[c] = row /\ \A d \in Calls : d # c => call'[d] = call[d]
  BY <1>2, <1>3, Types, OneCall
<1>5. TypeOK' /\ OneLiveToken' /\ SeenIsOld'
  BY <1>3, <1>4 DEF Inv, TypeOK, OneLiveToken, Active, SeenIsOld
<1>6. (LoggedOut => session.revoked)'
  <2> SUFFICES ASSUME NEW e \in Calls, call'[e].kind = "logout",
                      call'[e].at \in {"answered", "done"}, call'[e].answer.status = "ok"
               PROVE  session'.revoked
    BY DEF LoggedOut
  <2>1. e # c
    BY <1>1, <1>3, <1>4
  <2> QED
    BY <1>4, <2>1 DEF Inv, LoggedOut
<1> QED
  BY <1>5, <1>6 DEF Inv

LEMMA AuthenticateInv ==
  ASSUME Inv, NEW c \in Calls, Authenticate(c)
  PROVE  Inv'
<1>1. UNCHANGED <<session, token, stale, jar>>
  BY DEF Authenticate
<1>2. CASE Reply(c, "401") \/ Reply(c, "403")
  BY <1>1, <1>2, ReplyInv
<1>3. CASE MayServe(c) /\ call' = [call EXCEPT ![c] = [@ EXCEPT !.at = "checked", !.seen = Loaded(c)]]
  <2> DEFINE row == [call[c] EXCEPT !.at = "checked", !.seen = Loaded(c)]
  <2>0. Loaded(c) \in SessionRow /\ Loaded(c) \in {call[c].seen, session}
    BY Types, Fields DEF Loaded
  <2>1. row \in CallRow /\ row.seen = Loaded(c) /\ row.kind = call[c].kind /\ row.at = "checked"
    BY <2>0, Types DEF CallRow
  <2>2. call' = [call EXCEPT ![c] = row]
    BY <1>3
  <2> HIDE DEF row
  <2>3. call' \in [Calls -> CallRow] /\ call'[c] = row /\ \A d \in Calls : d # c => call'[d] = call[d]
    BY <2>1, <2>2, Types, OneCall
  <2>4. ~session.revoked
    BY <1>3 DEF MayServe, AccessGood
  <2>5. TypeOK' /\ OneLiveToken'
    BY <1>1, <2>3 DEF Inv, TypeOK, OneLiveToken, Active
  <2>6. SeenIsOld'
    <3>1. \A d \in Calls : call'[d].seen = call[d].seen \/ call'[d].seen = session
      BY <2>0, <2>1, <2>3
    <3> QED
      BY <1>1, <2>4, <3>1 DEF Inv, SeenIsOld
  <2>7. (LoggedOut => session.revoked)'
    <3> SUFFICES ASSUME NEW e \in Calls, call'[e].kind = "logout",
                        call'[e].at \in {"answered", "done"}, call'[e].answer.status = "ok"
                 PROVE  session'.revoked
      BY DEF LoggedOut
    <3>1. call'[e] = call[e]
      BY <2>1, <2>3
    <3> QED
      BY <1>1, <3>1 DEF Inv, LoggedOut
  <2> QED
    BY <2>5, <2>6, <2>7 DEF Inv
<1> QED
  BY <1>2, <1>3 DEF Authenticate

LEMMA ServeInv ==
  ASSUME Inv, NEW c \in Calls, Serve(c)
  PROVE  Inv'
BY ReplyInv DEF Serve

\* A family that is revoked as a whole.
LEMMA RevokedStep ==
  ASSUME Inv, call' \in [Calls -> CallRow], \A d \in Calls : call'[d].seen = call[d].seen,
         session' \in SessionRow, session'.revoked, session'.csrf = session.csrf,
         session'.version <= Len(token) + 1,
         token' = AllRevoked(token), UNCHANGED <<stale, jar>>
  PROVE  Inv'
<1>1. token' \in Seq({"ACTIVE", "USED", "REVOKED"}) /\ Len(token') = Len(token) /\ Active' = {}
  BY DEF Inv, TypeOK, AllRevoked, Active
<1>2. TypeOK'
  BY <1>1 DEF Inv, TypeOK
<1>3. OneLiveToken'
  BY <1>1 DEF Inv, OneLiveToken
<1>4. SeenIsOld'
  BY <1>1 DEF Inv, SeenIsOld
<1> QED
  BY <1>2, <1>3, <1>4 DEF Inv

\* The numbers the rows are compared by.
LEMMA Numbers ==
  ASSUME Inv
  PROVE  /\ Len(token) \in Nat /\ token \in Seq({"ACTIVE", "USED", "REVOKED"})
         /\ session.version \in Nat /\ session.csrf \in Nat /\ session.over \in BOOLEAN
         /\ session.version <= Len(token) + 1
         /\ ~session.revoked => session.version <= Len(token)
         /\ \A c \in Calls : /\ call[c].seen.version \in Nat
                             /\ ~call[c].seen.revoked /\ call[c].seen.version <= Len(token)
<1>1. \A c \in Calls : call[c].seen.version \in Nat
  BY Types, Fields DEF SessionRow
<1>2. token \in Seq({"ACTIVE", "USED", "REVOKED"})
  BY DEF Inv, TypeOK
<1>3. Len(token) \in Nat
  BY <1>2
<1>4. session.version \in Nat /\ session.csrf \in Nat /\ session.over \in BOOLEAN
  BY Types DEF SessionRow
<1> QED
  BY <1>1, <1>2, <1>3, <1>4 DEF Inv, TypeOK, SeenIsOld

LEMMA LogoutInv ==
  ASSUME Inv, NEW c \in Calls, Logout(c)
  PROVE  Inv'
<1>1. UNCHANGED <<stale, jar>>
  BY DEF Logout
<1>2. CASE Reply(c, "500") /\ UNCHANGED <<session, token>>
  BY <1>1, <1>2, ReplyInv
<1>3. CASE /\ session' = [session EXCEPT !.revoked = TRUE, !.version = Revoked(call[c].seen).version]
           /\ token' = AllRevoked(token) /\ ReplyCleared(c)
  <2> DEFINE row == [call[c] EXCEPT !.at = "answered",
                       !.answer = [status |-> "ok", cookies |-> Empty, sets |-> TRUE]]
             version == Revoked(call[c].seen).version
  <2>1. row \in CallRow /\ row.seen = call[c].seen
    BY Types, Constants DEF CallRow, Answer
  <2>2. call' = [call EXCEPT ![c] = row]
    BY <1>3 DEF ReplyCleared
  <2> HIDE DEF row
  <2>3. call' \in [Calls -> CallRow] /\ \A d \in Calls : call'[d].seen = call[d].seen
    BY <2>1, <2>2, Types, OneCall
  <2>4. call[c].seen \in SessionRow /\ ~call[c].seen.revoked
    BY Types, Fields, Numbers
  <2>5. version = call[c].seen.version + 1
    BY <2>4 DEF Revoked, SessionRow
  <2>6. version \in Nat /\ version <= Len(token) + 1
    BY <2>5, Numbers
  <2>7. session' = [session EXCEPT !.revoked = TRUE, !.version = version]
    BY <1>3
  <2> HIDE DEF version
  <2>8. /\ session' \in SessionRow /\ session'.revoked /\ session'.csrf = session.csrf
        /\ session'.version = version
    BY <2>6, <2>7, Types DEF SessionRow
  <2> QED
    BY <1>1, <1>3, <2>3, <2>6, <2>8, RevokedStep
<1> QED
  BY <1>2, <1>3 DEF Logout

\* The answer of a refresh.
LEMMA RefreshReply ==
  ASSUME Inv, NEW c \in Calls, NEW status \in {"ok", "401"}, NEW cookies \in Jar,
         ReplyRefresh(c, status, cookies)
  PROVE  /\ call' \in [Calls -> CallRow]
         /\ \A d \in Calls : /\ d # c => call'[d] = call[d]
                             /\ call'[d].seen = call[d].seen
         /\ call'[c].kind = call[c].kind /\ call'[c].at = "refreshed"
<1> DEFINE answer == [status |-> status, cookies |-> cookies, sets |-> TRUE]
           used == call[c].sent.refresh
           row == [call[c] EXCEPT !.at = "refreshed", !.used = used, !.answer = answer]
<1>1. answer \in Answer
  BY DEF Answer
<1>2. used \in Nat
  BY Types, Fields DEF Jar
<1>3. call' = [call EXCEPT ![c] = row]
  BY DEF ReplyRefresh
<1> HIDE DEF answer, used
<1>4. row \in CallRow /\ row.seen = call[c].seen /\ row.kind = call[c].kind /\ row.at = "refreshed"
  BY <1>1, <1>2, Types DEF CallRow
<1> HIDE DEF row
<1> QED
  BY <1>3, <1>4, Types, OneCall

LEMMA RefuseInv ==
  ASSUME Inv, NEW c \in Calls, Refuse(c), UNCHANGED <<stale, jar>>
  PROVE  Inv'
<1>1. call' \in [Calls -> CallRow] /\ \A d \in Calls : call'[d].seen = call[d].seen
  BY RefreshReply, Constants DEF Refuse
<1>2. session' = Revoked(session) /\ token' = AllRevoked(token)
  BY DEF Refuse
<1>3. /\ session' \in SessionRow /\ session'.revoked /\ session'.csrf = session.csrf
      /\ session'.version <= Len(token) + 1
  <2>1. CASE session.revoked
    BY <1>2, <2>1, Types, Numbers DEF Revoked
  <2>2. CASE ~session.revoked
    <3>1. session' = [session EXCEPT !.revoked = TRUE, !.version = session.version + 1]
      BY <1>2, <2>2 DEF Revoked
    <3>2. session.version + 1 \in Nat /\ session.version + 1 <= Len(token) + 1
      BY <2>2, Numbers
    <3> QED
      BY <3>1, <3>2, Types DEF SessionRow
  <2> QED
    BY <2>1, <2>2
<1> QED
  BY <1>1, <1>2, <1>3, RevokedStep

LEMMA RotateInv ==
  ASSUME Inv, NEW c \in Calls, Rotates(call[c].sent.refresh), Rotate(c), UNCHANGED <<stale, jar>>
  PROVE  Inv'
<1> DEFINE n == Len(token)
           g == call[c].sent.refresh
<1>1. /\ g = n /\ n \in DOMAIN token /\ session.csrf = n /\ ~session.revoked
      /\ session.version \in Nat /\ session.version <= n /\ n \in Nat
      /\ token \in Seq({"ACTIVE", "USED", "REVOKED"})
  <2>1. g \in Active /\ ~session.revoked
    BY DEF Rotates
  <2>2. g = n /\ n \in DOMAIN token
    BY <2>1 DEF Inv, OneLiveToken, Active
  <2>3. session.csrf = n
    BY DEF Inv, OneLiveToken
  <2> QED
    BY <2>1, <2>2, <2>3, Numbers
<1>2. \A h \in DOMAIN token : h # n => token[h] # "ACTIVE"
  BY DEF Inv, OneLiveToken, Active
<1>3. session' = [session EXCEPT !.version = session.version + 1, !.csrf = n + 1]
  BY <1>1 DEF Rotate
<1>4. /\ session' \in SessionRow /\ session'.csrf = n + 1 /\ session'.revoked = session.revoked
      /\ session'.version = session.version + 1
  <2>1. session.version + 1 \in Nat /\ n + 1 \in Nat
    BY <1>1
  <2> QED
    BY <1>3, <2>1, Types DEF SessionRow
<1> DEFINE spent == [token EXCEPT ![n] = "USED"]
<1>5. token' = Append(spent, "ACTIVE")
  BY <1>1 DEF Rotate, Rotated
<1>6. spent \in Seq({"ACTIVE", "USED", "REVOKED"}) /\ Len(spent) = n
  BY <1>1
<1>7. \A h \in 1 .. n : spent[h] # "ACTIVE"
  <2>1. DOMAIN token = 1 .. n
    BY <1>1
  <2> QED
    BY <1>1, <1>2, <2>1
<1> HIDE DEF spent
<1>8. /\ token' \in Seq({"ACTIVE", "USED", "REVOKED"}) /\ Len(token') = n + 1
      /\ token'[n + 1] = "ACTIVE"
      /\ \A h \in 1 .. n : token'[h] = spent[h]
  BY <1>1, <1>5, <1>6
<1>9. Active' = {n + 1}
  <2>1. DOMAIN token' = 1 .. n + 1
    BY <1>1, <1>8
  <2>2. \A h \in 1 .. n + 1 : token'[h] = "ACTIVE" <=> h = n + 1
    <3> SUFFICES ASSUME NEW h \in 1 .. n + 1 PROVE token'[h] = "ACTIVE" <=> h = n + 1
      OBVIOUS
    <3>1. h = n + 1 \/ h \in 1 .. n
      BY <1>1
    <3>2. ~(n + 1 \in 1 .. n)
      BY <1>1
    <3> QED
      BY <1>7, <1>8, <3>1, <3>2
  <2>3. n + 1 \in 1 .. n + 1
    BY <1>1
  <2> QED
    BY <2>1, <2>2, <2>3 DEF Active
<1>10. /\ call' \in [Calls -> CallRow] /\ call'[c].at = "refreshed"
       /\ \A d \in Calls : (d # c => call'[d] = call[d]) /\ call'[d].seen = call[d].seen
  <2> DEFINE cookies == [access |-> session.version + 1, refresh |-> g + 1, csrf |-> g + 1]
  <2>1. cookies \in Jar
    BY <1>1 DEF Jar
  <2>2. ReplyRefresh(c, "ok", cookies)
    BY DEF Rotate
  <2> HIDE DEF cookies
  <2> QED
    BY <2>1, <2>2, RefreshReply
<1>11. TypeOK'
  <2>1. session'.version <= Len(token') + 1
    BY <1>1, <1>4, <1>8
  <2> QED
    BY <1>4, <1>8, <1>10, <2>1 DEF Inv, TypeOK
<1>12. OneLiveToken'
  BY <1>1, <1>4, <1>8, <1>9 DEF OneLiveToken
<1>13. SeenIsOld'
  <2>1. \A d \in Calls : ~call'[d].seen.revoked /\ call'[d].seen.version <= n + 1
    BY <1>1, <1>10, Numbers
  <2>2. session'.version <= n + 1
    BY <1>1, <1>4
  <2> QED
    BY <1>8, <2>1, <2>2 DEF SeenIsOld
<1>14. ~LoggedOut'
  <2> SUFFICES ASSUME NEW e \in Calls, call'[e].kind = "logout",
                      call'[e].at \in {"answered", "done"}, call'[e].answer.status = "ok"
               PROVE  FALSE
    BY DEF LoggedOut
  <2>1. call'[e] = call[e]
    BY <1>10
  <2> QED
    BY <1>1, <2>1 DEF Inv, LoggedOut
<1> QED
  BY <1>11, <1>12, <1>13, <1>14 DEF Inv

LEMMA RefreshInv ==
  ASSUME Inv, NEW c \in Calls, Refresh(c)
  PROVE  Inv'
<1>1. UNCHANGED <<stale, jar>>
  BY DEF Refresh
<1>2. CASE ReplyRefresh(c, "401", Empty) /\ UNCHANGED <<session, token>>
  <2>1. jar' \in Jar /\ UNCHANGED <<session, token, stale>>
    BY <1>1, <1>2, Types
  <2> QED
    BY <1>2, <2>1, RefreshReply, Constants, BrowserStep
<1>3. CASE Refuse(c)
  BY <1>1, <1>3, RefuseInv
<1>4. CASE Rotates(call[c].sent.refresh) /\ Rotate(c)
  BY <1>1, <1>4, RotateInv
<1> QED
  BY <1>2, <1>3, <1>4 DEF Refresh

-----------------------------------------------------------------------------

LEMMA ClockInv ==
  ASSUME Inv, AccessExpires \/ SessionExpires
  PROVE  Inv'
<1>1. /\ session' \in SessionRow /\ session'.csrf = session.csrf
      /\ session'.version = session.version /\ session'.revoked = session.revoked
      /\ UNCHANGED <<token, jar, call>> /\ stale' \subseteq Nat
  <2>1. CASE AccessExpires
    BY <2>1, Types, Numbers DEF AccessExpires, Inv, TypeOK
  <2>2. CASE SessionExpires
    BY <2>2, Types DEF SessionExpires, Inv, TypeOK, SessionRow
  <2> QED
    BY <2>1, <2>2
<1>2. TypeOK' /\ OneLiveToken'
  BY <1>1 DEF Inv, TypeOK, OneLiveToken, Active
<1>3. SeenIsOld' /\ (LoggedOut => session.revoked)'
  BY <1>1 DEF Inv, SeenIsOld, LoggedOut
<1> QED
  BY <1>2, <1>3 DEF Inv

LEMMA NextInv == Inv /\ [Next]_vars => Inv'
<1> SUFFICES ASSUME Inv, [Next]_vars PROVE Inv'
  OBVIOUS
<1>1. CASE UNCHANGED vars
  BY <1>1 DEF vars, Inv, TypeOK, OneLiveToken, Active, SeenIsOld, LoggedOut
<1>2. ASSUME NEW c \in Calls, NEW kind \in {"read", "write", "logout"}, Start(c, kind) PROVE Inv'
  BY <1>2, StartInv
<1>3. ASSUME NEW c \in Calls,
             \/ Receive(c) \/ ReceiveRefresh(c) \/ LoseAnswer(c)
             \/ Authenticate(c) \/ Serve(c) \/ Logout(c) \/ Refresh(c)
      PROVE  Inv'
  BY <1>3, ReceiveInv, ReceiveRefreshInv, LoseAnswerInv, AuthenticateInv, ServeInv,
     LogoutInv, RefreshInv
<1>4. CASE AccessExpires \/ SessionExpires
  BY <1>4, ClockInv
<1> QED
  BY <1>1, <1>2, <1>3, <1>4 DEF Next

\* A refusal is no success.
LEMMA RefusedReply ==
  ASSUME call \in [Calls -> CallRow], NEW d \in Calls,
         \/ Reply(d, "401") \/ Reply(d, "403") \/ Reply(d, "500") \/ ReplyRefresh(d, "401", Empty)
  PROVE  \A c \in Calls :
           /\ call'[c].at = "checked" => call[c].at = "checked"
           /\ call'[c].answer.status = "ok" => call[c].answer.status = "ok"
<1>1. \A c \in Calls : c # d => call'[c] = call[c]
  BY DEF Reply, ReplyRefresh
<1>2. call[d] \in CallRow
  OBVIOUS
<1>3. call'[d].answer.status # "ok" /\ call'[d].at # "checked"
  <2>1. ASSUME NEW status \in {"401", "403", "500"}, Reply(d, status)
        PROVE  call'[d].answer.status # "ok" /\ call'[d].at # "checked"
    <3> DEFINE row == [call[d] EXCEPT !.at = "answered",
                         !.answer = [status |-> status, cookies |-> Empty, sets |-> FALSE]]
    <3>1. row.answer.status = status /\ row.at = "answered"
      BY <1>2 DEF CallRow
    <3>2. call' = [call EXCEPT ![d] = row]
      BY <2>1 DEF Reply
    <3> HIDE DEF row
    <3> QED
      BY <3>1, <3>2
  <2>2. CASE ReplyRefresh(d, "401", Empty)
    <3> DEFINE row == [call[d] EXCEPT !.at = "refreshed", !.used = call[d].sent.refresh,
                         !.answer = [status |-> "401", cookies |-> Empty, sets |-> TRUE]]
    <3>1. row.answer.status = "401" /\ row.at = "refreshed"
      BY <1>2 DEF CallRow
    <3>2. call' = [call EXCEPT ![d] = row]
      BY <2>2 DEF ReplyRefresh
    <3> HIDE DEF row
    <3> QED
      BY <3>1, <3>2
  <2> QED
    BY <2>1, <2>2
<1> QED
  BY <1>1, <1>3

\* Whatever the pages do at once and whatever answers are lost, every row and every
\* cookie stays well-formed, and a family gains one version for each rotation and one for
\* its revocation.
THEOREM TypeCorrect == Spec => []TypeOK
<1>1. Inv => TypeOK
  BY DEF Inv
<1> QED
  BY <1>1, InitInv, NextInv, PTL DEF Spec

\* For any number of concurrent refreshes and logouts at most one refresh token of the
\* family is usable, the one whose secrets the session accepts, and none after revocation.
THEOREM OneTokenAlive == Spec => []OneLiveToken
<1>1. Inv => OneLiveToken
  BY DEF Inv
<1> QED
  BY <1>1, InitInv, NextInv, PTL DEF Spec

\* After a logout that succeeded no call is let through to its route and nothing is
\* refreshed; those that were let through before it was answered are served, but no other
\* logout is (get_session_user, logout_session).
THEOREM LogoutFinal == Spec => LogoutIsFinal
<1> DEFINE Good(c) ==
             /\ call'[c].at = "checked" => call[c].at = "checked"
             /\ call'[c].answer.status = "ok" =>
                  \/ call[c].answer.status = "ok"
                  \/ call[c].at = "checked" /\ call[c].kind # "logout"
<1>1. ASSUME Inv, [Next]_vars, LoggedOut, NEW c \in Calls PROVE Good(c)
  <2>1. session.revoked /\ \A d \in Calls : call[d] \in CallRow
    BY <1>1, Types DEF Inv
  <2>2. CASE UNCHANGED call
    BY <2>2
  <2>3. ASSUME NEW d \in Calls, NEW kind \in {"read", "write", "logout"}, Start(d, kind) PROVE Good(c)
    BY <1>1, <2>1, <2>3, Types DEF Start, CallRow
  <2>4. ASSUME NEW d \in Calls, Receive(d) \/ ReceiveRefresh(d) \/ LoseAnswer(d) PROVE Good(c)
    <3>1. call'[d].answer \in {call[d].answer, NoAnswer}
      BY <1>1, <2>1, <2>4, Types DEF Receive, ReceiveRefresh, LoseAnswer, CallRow
    <3>3. call'[d].at # "checked"
      <4>1. CASE Receive(d)
        BY <1>1, <2>1, <4>1, Types DEF Receive, CallRow
      <4>2. CASE ReceiveRefresh(d)
        BY <1>1, <2>1, <4>2, Types DEF ReceiveRefresh, CallRow
      <4>3. CASE LoseAnswer(d)
        BY <1>1, <2>1, <4>3, Types DEF LoseAnswer, CallRow
      <4> QED
        BY <2>4, <4>1, <4>2, <4>3
    <3>2. c # d => call'[c] = call[c]
      BY <1>1, <2>4, Types DEF Receive, ReceiveRefresh, LoseAnswer
    <3> QED
      BY <3>1, <3>2, <3>3, Constants
  <2>5. ASSUME NEW d \in Calls, Authenticate(d) PROVE Good(c)
    <3>1. ~MayServe(d)
      BY <2>1 DEF MayServe, AccessGood
    <3>2. Reply(d, "401") \/ Reply(d, "403")
      BY <2>5, <3>1 DEF Authenticate
    <3> QED
      BY <1>1, <3>2, Types, RefusedReply
  <2>6. ASSUME NEW d \in Calls, Serve(d) PROVE Good(c)
    <3>1. call[d].at = "checked" /\ call[d].kind # "logout"
      BY <2>6 DEF Serve
    <3>2. c # d => call'[c] = call[c]
      BY <1>1, <2>6, Types DEF Serve, Reply
    <3> QED
      BY <3>1, <3>2
  <2>7. ASSUME NEW d \in Calls, Logout(d) PROVE Good(c)
    <3>1. Reply(d, "500")
      BY <2>1, <2>7 DEF Logout
    <3> QED
      BY <1>1, <3>1, Types, RefusedReply
  <2>8. ASSUME NEW d \in Calls, Refresh(d) PROVE Good(c)
    <3>1. ReplyRefresh(d, "401", Empty)
      BY <2>1, <2>8 DEF Refresh, Rotates, Refuse
    <3> QED
      BY <1>1, <3>1, Types, RefusedReply
  <2>9. CASE AccessExpires \/ SessionExpires
    BY <2>9 DEF AccessExpires, SessionExpires
  <2> QED
    BY <1>1, <2>2, <2>3, <2>4, <2>5, <2>6, <2>7, <2>8, <2>9 DEF Next, vars
<1>2. Inv /\ [Next]_vars =>
        [LoggedOut =>
           \A c \in Calls :
             /\ call'[c].at = "checked" => call[c].at = "checked"
             /\ call'[c].answer.status = "ok" =>
                  \/ call[c].answer.status = "ok"
                  \/ call[c].at = "checked" /\ call[c].kind # "logout"]_vars
  BY <1>1
<1> QED
  BY <1>2, InitInv, NextInv, PTL DEF Spec, LogoutIsFinal

-----------------------------------------------------------------------------
(* Where the newest secrets are *)

\* The cookies that the session accepts.
Current == [access |-> session.version, refresh |-> Len(token), csrf |-> Len(token)]

\* An answer on its way that changes the jar.
Pending(c) == call[c].at \in {"answered", "refreshed"} /\ call[c].answer.sets

\* A call refreshes at most once.
CallsInOrder ==
  \A c \in Calls :
    /\ call[c].used # 0 => call[c].again \/ call[c].at \in {"refreshed", "done"}
    /\ call[c].at = "refreshing" => ~call[c].again

\* Every generation but the newest was rotated by a call.
SpentByCalls ==
  ~session.revoked => \A g \in 1 .. Len(token) - 1 : \E c \in Calls : call[c].used = g

\* The browser always presents a secret that was issued.
Presentable ==
  ~session.revoked =>
    /\ jar.refresh \in 1 .. Len(token)
    /\ \A c \in Calls : call[c].at = "refreshing" => call[c].sent.refresh \in 1 .. Len(token)

\* Until the answer to the last rotation has arrived nobody else has the newest secrets.
NewestHeldOnce ==
  ~session.revoked =>
    \A c \in Calls : Pending(c) =>
      /\ call[c].at = "refreshed" /\ call[c].answer.status = "ok" /\ call[c].answer.cookies = Current
      /\ jar.refresh # Len(token)
      /\ \A d \in Calls : /\ call[d].at = "refreshing" => call[d].sent.refresh # Len(token)
                          /\ Pending(d) => d = c

NewestReachable ==
  ~session.revoked => jar = Current \/ \E c \in Calls : Pending(c) \/ call[c].lost

CookieInv ==
  /\ CallsInOrder /\ SpentByCalls
  /\ Presentable /\ NewestHeldOnce /\ NewestReachable
  /\ RevokedForCause

LEMMA InitCookies == Init => CookieInv
<1> SUFFICES ASSUME Init PROVE CookieInv
  OBVIOUS
<1> DEFINE row == [kind |-> "read", at |-> "idle", header |-> 0, sent |-> Empty, seen |-> FirstSession,
                   used |-> 0, again |-> FALSE, lost |-> FALSE, answer |-> NoAnswer]
<1>1. call = [c \in Calls |-> row]
  BY DEF Init
<1>2. row.at = "idle" /\ row.used = 0
  OBVIOUS
<1> HIDE DEF row
<1>3. /\ Len(token) = 1 /\ session.version = 1 /\ ~session.revoked
      /\ jar = [access |-> 1, refresh |-> 1, csrf |-> 1]
  BY Constants DEF Init
<1>4. \A c \in Calls : ~Pending(c) /\ call[c].at = "idle" /\ call[c].used = 0
  <2> TAKE d \in Calls
  <2>1. call[d] = row
    BY <1>1
  <2> QED
    BY <1>2, <2>1 DEF Pending
<1>5. CallsInOrder /\ SpentByCalls /\ Presentable
  BY <1>3, <1>4 DEF CallsInOrder, SpentByCalls, Presentable
<1>6. NewestHeldOnce /\ NewestReachable /\ RevokedForCause
  BY <1>3, <1>4 DEF NewestHeldOnce, NewestReachable, RevokedForCause, Current
<1> QED
  BY <1>5, <1>6 DEF CookieInv

\* What every step of a call leaves in place: a success of a logout, a used generation.
LEMMA CausesStay ==
  ASSUME CookieInv, session'.revoked => session.revoked,
         session.over => session'.over, LoggedOut => LoggedOut',
         \A d \in Calls : call[d].used # 0 => call'[d].used = call[d].used
  PROVE  RevokedForCause'
<1> SUFFICES ASSUME session'.revoked PROVE RevokedForCause'
  BY DEF RevokedForCause
<1>1. CASE session.over \/ LoggedOut
  BY <1>1 DEF RevokedForCause
<1>2. CASE \E c, d \in Calls : c # d /\ call[c].used # 0 /\ call[c].used = call[d].used
  <2> PICK c \in Calls, d \in Calls : c # d /\ call[c].used # 0 /\ call[c].used = call[d].used
    BY <1>2
  <2>1. call'[c].used = call[c].used /\ call'[d].used = call[d].used
    OBVIOUS
  <2> QED
    BY <2>1 DEF RevokedForCause
<1> QED
  BY <1>1, <1>2 DEF CookieInv, RevokedForCause

\* A step of one call that rotates and revokes nothing.
LEMMA PlainCookies ==
  ASSUME CookieInv, NEW c \in Calls,
         UNCHANGED <<session, token>>,
         \A d \in Calls : d # c => call'[d] = call[d],
         call'[c].used = call[c].used,
         call'[c].used # 0 => call'[c].again \/ call'[c].at \in {"refreshed", "done"},
         call'[c].at = "refreshing" => ~call'[c].again,
         LoggedOut => LoggedOut',
         ~session.revoked =>
           /\ ~Pending(c)'
           /\ call'[c].at = "refreshing" => call'[c].sent.refresh = jar'.refresh
           /\ call[c].lost => call'[c].lost
           /\ \/ jar' = jar /\ (Pending(c) => call'[c].lost)
              \/ jar' = call[c].answer.cookies /\ Pending(c)
  PROVE  CookieInv'
<1>1. CallsInOrder'
  BY DEF CookieInv, CallsInOrder
<1>2. SpentByCalls'
  <2>1. \A d \in Calls : call'[d].used = call[d].used
    OBVIOUS
  <2> QED
    BY <2>1 DEF CookieInv, SpentByCalls
<1>3. RevokedForCause'
  BY CausesStay
<1>4. CASE session.revoked
  BY <1>1, <1>2, <1>3, <1>4 DEF CookieInv, Presentable, NewestHeldOnce, NewestReachable
<1>5. CASE ~session.revoked
  <2>1. \A d \in Calls : d # c => (Pending(d)' <=> Pending(d))
    BY DEF Pending
  <2>2. Current' = Current
    BY DEF Current
  <2>3. ~Pending(c)'
    BY <1>5
  <2>4. CASE jar' = jar /\ (Pending(c) => call'[c].lost)
    <3>1. Presentable'
      BY <1>5, <2>4 DEF CookieInv, Presentable
    <3>2. NewestHeldOnce'
      <4> SUFFICES ASSUME NEW d \in Calls, Pending(d)'
                   PROVE  /\ call'[d].at = "refreshed" /\ call'[d].answer.status = "ok"
                          /\ call'[d].answer.cookies = Current'
                          /\ jar'.refresh # Len(token')
                          /\ \A e \in Calls : /\ call'[e].at = "refreshing" => call'[e].sent.refresh # Len(token')
                                              /\ Pending(e)' => e = d
        BY DEF NewestHeldOnce
      <4>1. d # c /\ Pending(d) /\ call'[d] = call[d]
        BY <2>1, <2>3
      <4> QED
        BY <1>5, <2>1, <2>2, <2>3, <2>4, <4>1 DEF CookieInv, NewestHeldOnce
    <3>3. NewestReachable'
      BY <1>5, <2>1, <2>2, <2>4 DEF CookieInv, NewestReachable
    <3> QED
      BY <1>1, <1>2, <1>3, <3>1, <3>2, <3>3 DEF CookieInv
  <2>5. CASE jar' = call[c].answer.cookies /\ Pending(c)
    <3>1. jar' = Current /\ \A d \in Calls : ~Pending(d)'
      BY <1>5, <2>1, <2>3, <2>5 DEF CookieInv, NewestHeldOnce
    <3>2. jar'.refresh = Len(token)
      BY <3>1 DEF Current
    <3>3. Len(token) \in 1 .. Len(token)
      BY <1>5, <3>2 DEF CookieInv, Presentable
    <3>4. Presentable'
      BY <1>5, <3>2, <3>3 DEF CookieInv, Presentable
    <3> QED
      BY <1>1, <1>2, <1>3, <2>2, <3>1, <3>4 DEF CookieInv, NewestHeldOnce, NewestReachable
  <2> QED
    BY <1>5, <2>4, <2>5
<1> QED
  BY <1>4, <1>5

\* A success of a logout is kept.
LEMMA SuccessStays ==
  ASSUME NEW c \in Calls, \A d \in Calls : d # c => call'[d] = call[d],
         call[c].at \in {"answered", "done"} /\ call[c].answer.status = "ok" =>
           /\ call'[c].at \in {"answered", "done"}
           /\ call'[c].kind = call[c].kind /\ call'[c].answer.status = "ok"
  PROVE  LoggedOut => LoggedOut'
<1> SUFFICES ASSUME NEW e \in Calls, call[e].kind = "logout",
                    call[e].at \in {"answered", "done"}, call[e].answer.status = "ok"
             PROVE  LoggedOut'
  BY DEF LoggedOut
<1>1. /\ call'[e].kind = "logout" /\ call'[e].at \in {"answered", "done"}
      /\ call'[e].answer.status = "ok"
  OBVIOUS
<1> QED
  BY <1>1 DEF LoggedOut

LEMMA StartCookies ==
  ASSUME Inv, CookieInv, NEW c \in Calls, NEW kind \in {"read", "write", "logout"}, Start(c, kind)
  PROVE  CookieInv'
<1> DEFINE header == IF kind = "read" THEN 0 ELSE jar.csrf
           row == [call[c] EXCEPT !.kind = kind, !.at = "sent", !.sent = jar, !.header = header]
<1>1. header \in Nat
  BY Types DEF Jar
<1>2. call' = [call EXCEPT ![c] = row] /\ UNCHANGED <<session, token, stale, jar>> /\ call[c].at = "idle"
  BY DEF Start
<1> HIDE DEF header
<1>3. row \in CallRow /\ row.at = "sent" /\ row.used = call[c].used /\ row.again = call[c].again /\ row.lost = call[c].lost
  BY <1>1, Types DEF CallRow
<1> HIDE DEF row
<1>4. call'[c] = row /\ \A d \in Calls : d # c => call'[d] = call[d]
  BY <1>2, <1>3, Types, OneCall
<1>5. LoggedOut => LoggedOut'
  BY <1>2, <1>4, SuccessStays
<1>6. ~Pending(c) /\ ~Pending(c)'
  BY <1>2, <1>3, <1>4 DEF Pending
<1>7. call[c].used # 0 => call[c].again
  BY <1>2 DEF CookieInv, CallsInOrder
<1> QED
  BY <1>2, <1>3, <1>4, <1>5, <1>6, <1>7, PlainCookies

LEMMA ReceiveCookies ==
  ASSUME Inv, CookieInv, NEW c \in Calls, Receive(c)
  PROVE  CookieInv'
<1> DEFINE asks == [call[c] EXCEPT !.at = "refreshing", !.sent = jar', !.answer = NoAnswer]
           ends == [call[c] EXCEPT !.at = "done"]
<1>1. /\ jar' \in Jar /\ UNCHANGED <<session, token>> /\ call[c].at = "answered"
      /\ jar' = JarAfter(c)
      /\ \/ call' = [call EXCEPT ![c] = asks] /\ call[c].answer.status = "401" /\ ~call[c].again
         \/ call' = [call EXCEPT ![c] = ends]
  <2>1. call[c].answer.cookies \in Jar
    BY Types, Fields DEF Answer
  <2>2. jar' \in Jar
    BY <2>1, Types DEF Receive, JarAfter
  <2> QED
    BY <2>2 DEF Receive
<1>2. /\ asks \in CallRow /\ asks.at = "refreshing" /\ asks.sent = jar' /\ asks.used = call[c].used
      /\ asks.again = call[c].again /\ asks.lost = call[c].lost
  BY <1>1, Types, Constants DEF CallRow
<1>3. /\ ends \in CallRow /\ ends.at = "done" /\ ends.used = call[c].used /\ ends.answer = call[c].answer
      /\ ends.kind = call[c].kind /\ ends.lost = call[c].lost
  BY Types DEF CallRow
<1> HIDE DEF asks, ends
<1>4. ~session.revoked => jar' = jar /\ ~Pending(c)
  <2> SUFFICES ASSUME ~session.revoked PROVE jar' = jar /\ ~Pending(c)
    OBVIOUS
  <2>1. ~Pending(c)
    BY <1>1 DEF CookieInv, NewestHeldOnce
  <2>2. ~call[c].answer.sets
    BY <1>1, <2>1 DEF Pending
  <2> QED
    BY <1>1, <2>1, <2>2 DEF JarAfter
<1>5. call[c].used # 0 => call[c].again
  BY <1>1 DEF CookieInv, CallsInOrder
<1>6. CASE call' = [call EXCEPT ![c] = asks] /\ call[c].answer.status = "401" /\ ~call[c].again
  <2>1. call'[c] = asks /\ \A d \in Calls : d # c => call'[d] = call[d]
    BY <1>2, <1>6, Types, OneCall
  <2>2. LoggedOut => LoggedOut'
    BY <1>6, <2>1, SuccessStays
  <2>3. ~Pending(c)'
    BY <1>2, <2>1 DEF Pending
  <2> QED
    BY <1>1, <1>2, <1>4, <1>5, <1>6, <2>1, <2>2, <2>3, PlainCookies
<1>7. CASE call' = [call EXCEPT ![c] = ends]
  <2>1. call'[c] = ends /\ \A d \in Calls : d # c => call'[d] = call[d]
    BY <1>3, <1>7, Types, OneCall
  <2>2. LoggedOut => LoggedOut'
    BY <1>3, <2>1, SuccessStays
  <2>3. ~Pending(c)'
    BY <1>3, <2>1 DEF Pending
  <2> QED
    BY <1>1, <1>3, <1>4, <1>5, <2>1, <2>2, <2>3, PlainCookies
<1> QED
  BY <1>1, <1>6, <1>7

LEMMA ReceiveRefreshCookies ==
  ASSUME Inv, CookieInv, NEW c \in Calls, ReceiveRefresh(c)
  PROVE  CookieInv'
<1> DEFINE sends == [call[c] EXCEPT !.at = "sent", !.again = TRUE, !.sent = jar',
                                    !.answer = NoAnswer, !.header = HeaderAgain(c)]
           ends == [call[c] EXCEPT !.at = "done"]
<1>1. /\ jar' \in Jar /\ UNCHANGED <<session, token>> /\ call[c].at = "refreshed"
      /\ jar' = JarAfter(c)
      /\ call' = [call EXCEPT ![c] = sends] \/ call' = [call EXCEPT ![c] = ends]
  <2>1. call[c].answer.cookies \in Jar
    BY Types, Fields DEF Answer
  <2>2. jar' \in Jar
    BY <2>1, Types DEF ReceiveRefresh, JarAfter
  <2> QED
    BY <2>2 DEF ReceiveRefresh
<1>2. HeaderAgain(c) \in Nat
  <2>1. call[c].header \in Nat /\ jar'.csrf \in Nat
    BY <1>1, Types, Fields DEF Jar
  <2> QED
    BY <2>1 DEF HeaderAgain
<1>3. /\ sends \in CallRow /\ sends.at = "sent" /\ sends.used = call[c].used
      /\ sends.again /\ sends.lost = call[c].lost
  BY <1>1, <1>2, Types, Constants DEF CallRow
<1>4. ends \in CallRow /\ ends.at = "done" /\ ends.used = call[c].used /\ ends.lost = call[c].lost
  BY Types DEF CallRow
<1> HIDE DEF sends, ends
<1>5. PICK row \in CallRow : /\ call' = [call EXCEPT ![c] = row] /\ row.at \in {"sent", "done"}
                             /\ row.used = call[c].used /\ row.lost = call[c].lost
                             /\ row.at = "sent" => row.again
  BY <1>1, <1>3, <1>4
<1>6. call'[c] = row /\ \A d \in Calls : d # c => call'[d] = call[d]
  BY <1>5, Types, OneCall
<1>7. (jar' = jar /\ ~Pending(c)) \/ (jar' = call[c].answer.cookies /\ Pending(c))
  <2>1. CASE call[c].answer.sets
    <3>1. jar' = call[c].answer.cookies
      BY <1>1, <2>1 DEF JarAfter
    <3>2. Pending(c)
      BY <1>1, <2>1 DEF Pending
    <3> QED
      BY <3>1, <3>2
  <2>2. CASE ~call[c].answer.sets
    <3>1. jar' = jar
      BY <1>1, <2>2 DEF JarAfter
    <3>2. ~Pending(c)
      BY <2>2 DEF Pending
    <3> QED
      BY <3>1, <3>2
  <2> QED
    BY <2>1, <2>2
<1>8. LoggedOut => LoggedOut'
  BY <1>1, <1>6, SuccessStays
<1>9. ~Pending(c)'
  BY <1>5, <1>6 DEF Pending
<1> QED
  BY <1>1, <1>5, <1>6, <1>7, <1>8, <1>9, PlainCookies

LEMMA LoseAnswerCookies ==
  ASSUME Inv, CookieInv, NEW c \in Calls, LoseAnswer(c)
  PROVE  CookieInv'
<1> DEFINE kept == IF call[c].at = "answered" THEN call[c].answer ELSE NoAnswer
           row == [call[c] EXCEPT !.at = "done", !.lost = TRUE, !.answer = kept]
<1>1. kept \in Answer /\ (call[c].at = "answered" => kept = call[c].answer)
  BY Types, Fields, Constants
<1>2. /\ call' = [call EXCEPT ![c] = row] /\ UNCHANGED <<session, token, stale, jar>>
      /\ call[c].at \in {"answered", "refreshed"}
  BY DEF LoseAnswer
<1> HIDE DEF kept
<1>3. /\ row \in CallRow /\ row.at = "done" /\ row.lost /\ row.used = call[c].used
      /\ row.answer = kept /\ row.kind = call[c].kind
  BY <1>1, Types DEF CallRow
<1> HIDE DEF row
<1>4. call'[c] = row /\ \A d \in Calls : d # c => call'[d] = call[d]
  BY <1>2, <1>3, Types, OneCall
<1>5. LoggedOut => LoggedOut'
  BY <1>1, <1>2, <1>3, <1>4, SuccessStays
<1>6. ~Pending(c)'
  BY <1>3, <1>4 DEF Pending
<1> QED
  BY <1>2, <1>3, <1>4, <1>5, <1>6, PlainCookies

\* A reply that sets no cookie.
LEMMA ReplyCookies ==
  ASSUME Inv, CookieInv, NEW c \in Calls, NEW status \in {"ok", "401", "403", "500"},
         call[c].at \in {"sent", "checked"},
         Reply(c, status), UNCHANGED <<session, token, jar>>
  PROVE  CookieInv'
<1> DEFINE answer == [status |-> status, cookies |-> Empty, sets |-> FALSE]
           row == [call[c] EXCEPT !.at = "answered", !.answer = answer]
<1>1. answer \in Answer /\ ~answer.sets
  BY Constants DEF Answer
<1>2. call' = [call EXCEPT ![c] = row]
  BY DEF Reply
<1> HIDE DEF answer
<1>3. /\ row \in CallRow /\ row.at = "answered" /\ row.answer = answer /\ row.used = call[c].used
      /\ row.again = call[c].again /\ row.lost = call[c].lost
  BY <1>1, Types DEF CallRow
<1> HIDE DEF row
<1>4. call'[c] = row /\ \A d \in Calls : d # c => call'[d] = call[d]
  BY <1>2, <1>3, Types, OneCall
<1>5. LoggedOut => LoggedOut'
  BY <1>4, SuccessStays
<1>6. ~Pending(c) /\ ~Pending(c)'
  BY <1>1, <1>3, <1>4 DEF Pending
<1>7. call[c].used # 0 => call[c].again
  BY DEF CookieInv, CallsInOrder
<1> QED
  BY <1>3, <1>4, <1>5, <1>6, <1>7, PlainCookies

LEMMA AuthenticateCookies ==
  ASSUME Inv, CookieInv, NEW c \in Calls, Authenticate(c)
  PROVE  CookieInv'
<1>1. UNCHANGED <<session, token, jar>> /\ call[c].at = "sent"
  BY DEF Authenticate
<1>2. CASE Reply(c, "401") \/ Reply(c, "403")
  BY <1>1, <1>2, ReplyCookies
<1>3. CASE call' = [call EXCEPT ![c] = [@ EXCEPT !.at = "checked", !.seen = Loaded(c)]]
  <2> DEFINE row == [call[c] EXCEPT !.at = "checked", !.seen = Loaded(c)]
  <2>0. Loaded(c) \in SessionRow
    BY Types, Fields DEF Loaded
  <2>1. /\ row \in CallRow /\ row.at = "checked" /\ row.kind = call[c].kind /\ row.used = call[c].used
        /\ row.again = call[c].again /\ row.lost = call[c].lost
    BY <2>0, Types DEF CallRow
  <2>2. call' = [call EXCEPT ![c] = row]
    BY <1>3
  <2> HIDE DEF row
  <2>3. call'[c] = row /\ \A d \in Calls : d # c => call'[d] = call[d]
    BY <2>1, <2>2, Types, OneCall
  <2>4. LoggedOut => LoggedOut'
    BY <1>1, <2>3, SuccessStays
  <2>5. ~Pending(c) /\ ~Pending(c)'
    BY <1>1, <2>1, <2>3 DEF Pending
  <2>6. call[c].used # 0 => call[c].again
    BY <1>1 DEF CookieInv, CallsInOrder
  <2> QED
    BY <1>1, <1>3, <2>1, <2>3, <2>4, <2>5, <2>6, PlainCookies
<1> QED
  BY <1>2, <1>3 DEF Authenticate

LEMMA ServeCookies ==
  ASSUME Inv, CookieInv, NEW c \in Calls, Serve(c)
  PROVE  CookieInv'
BY ReplyCookies DEF Serve

\* Once the family is revoked only the cause of it matters.
LEMMA RevokedCookies ==
  ASSUME CookieInv, CallsInOrder', RevokedForCause', session'.revoked
  PROVE  CookieInv'
BY DEF CookieInv, SpentByCalls, Presentable, NewestHeldOnce, NewestReachable

LEMMA LogoutCookies ==
  ASSUME Inv, CookieInv, NEW c \in Calls, Logout(c)
  PROVE  CookieInv'
<1>1. UNCHANGED jar /\ call[c].at = "checked"
  BY DEF Logout
<1>2. CASE Reply(c, "500") /\ UNCHANGED <<session, token>>
  BY <1>1, <1>2, ReplyCookies
<1>3. CASE session' = [session EXCEPT !.revoked = TRUE, !.version = Revoked(call[c].seen).version] /\ ReplyCleared(c)
  <2> DEFINE row == [call[c] EXCEPT !.at = "answered",
                       !.answer = [status |-> "ok", cookies |-> Empty, sets |-> TRUE]]
  <2>1. /\ row \in CallRow /\ row.at = "answered" /\ row.answer.status = "ok" /\ row.kind = call[c].kind
        /\ row.used = call[c].used /\ row.again = call[c].again
    BY Types, Constants DEF CallRow, Answer
  <2>2. call' = [call EXCEPT ![c] = row]
    BY <1>3 DEF ReplyCleared
  <2> HIDE DEF row
  <2>3. call'[c] = row /\ \A d \in Calls : d # c => call'[d] = call[d]
    BY <2>1, <2>2, Types, OneCall
  <2>4. session'.revoked
    BY <1>3, Types DEF SessionRow
  <2>5. CallsInOrder'
    BY <1>1, <2>1, <2>3 DEF CookieInv, CallsInOrder
  <2>6. call[c].kind = "logout"
    BY DEF Logout
  <2>7. LoggedOut'
    BY <2>1, <2>3, <2>6 DEF LoggedOut
  <2> QED
    BY <2>4, <2>5, <2>7, RevokedCookies DEF RevokedForCause
<1> QED
  BY <1>2, <1>3 DEF Logout

\* What the answer of a refresh makes of the call, which has not refreshed before.
LEMMA RefreshRow ==
  ASSUME Inv, CookieInv, NEW c \in Calls, call[c].at = "refreshing",
         NEW status \in {"ok", "401"}, NEW cookies \in Jar, ReplyRefresh(c, status, cookies)
  PROVE  /\ call[c].used = 0 /\ call'[c].used = call[c].sent.refresh
         /\ call'[c].at = "refreshed" /\ call'[c].again = call[c].again /\ call'[c].lost = call[c].lost
         /\ call'[c].answer = [status |-> status, cookies |-> cookies, sets |-> TRUE]
         /\ \A d \in Calls : d # c => call'[d] = call[d]
         /\ LoggedOut => LoggedOut'
         /\ CallsInOrder'
<1> DEFINE answer == [status |-> status, cookies |-> cookies, sets |-> TRUE]
           used == call[c].sent.refresh
           row == [call[c] EXCEPT !.at = "refreshed", !.used = used, !.answer = answer]
<1>1. answer \in Answer
  BY DEF Answer
<1>2. used \in Nat
  BY Types, Fields DEF Jar
<1>3. call' = [call EXCEPT ![c] = row]
  BY DEF ReplyRefresh
<1> HIDE DEF answer, used
<1>4. /\ row \in CallRow /\ row.at = "refreshed" /\ row.used = used /\ row.answer = answer
      /\ row.again = call[c].again /\ row.lost = call[c].lost
  BY <1>1, <1>2, Types DEF CallRow
<1> HIDE DEF row
<1>5. call'[c] = row /\ \A d \in Calls : d # c => call'[d] = call[d]
  BY <1>3, <1>4, Types, OneCall
<1>6. LoggedOut => LoggedOut'
  BY <1>5, SuccessStays
<1>7. CallsInOrder'
  BY <1>4, <1>5 DEF CookieInv, CallsInOrder
<1>8. call[c].used = 0
  BY DEF CookieInv, CallsInOrder
<1> QED
  BY <1>4, <1>5, <1>6, <1>7, <1>8 DEF used, answer

LEMMA RefuseCookies ==
  ASSUME Inv, CookieInv, NEW c \in Calls, call[c].at = "refreshing",
         call[c].sent.refresh # 0, ~Rotates(call[c].sent.refresh), Refuse(c)
  PROVE  CookieInv'
<1> DEFINE g == call[c].sent.refresh
           n == Len(token)
<1>1. /\ call[c].used = 0 /\ call'[c].used = g
      /\ \A d \in Calls : d # c => call'[d] = call[d]
      /\ LoggedOut => LoggedOut'
      /\ CallsInOrder'
  BY Constants, RefreshRow DEF Refuse
<1>2. session'.revoked /\ session'.over = session.over
  BY Types DEF Refuse, Revoked, SessionRow
<1>3. RevokedForCause'
  <2>1. CASE session.revoked
    <3>1. \A d \in Calls : call[d].used # 0 => call'[d].used = call[d].used
      BY <1>1
    <3> QED
      BY <1>1, <1>2, <2>1, <3>1, CausesStay
  <2>2. CASE session.over
    BY <1>2, <2>2 DEF RevokedForCause
  <2>3. CASE ~session.revoked /\ ~session.over
    <3>1. g \in 1 .. n /\ n \in Nat /\ DOMAIN token = 1 .. n
      BY <2>3, Numbers DEF CookieInv, Presentable
    <3>2. g \notin Active
      BY <2>3 DEF Rotates
    <3>3. n \in Active
      BY <2>3 DEF Inv, OneLiveToken
    <3>4. g \in 1 .. n - 1
      BY <3>1, <3>2, <3>3
    <3>5. PICK d \in Calls : call[d].used = g
      BY <2>3, <3>4 DEF CookieInv, SpentByCalls
    <3>6. d # c /\ call'[d].used = g
      BY <1>1, <3>5
    <3> HIDE DEF g
    <3>7. g # 0
      BY DEF g
    <3> QED
      BY <1>1, <3>6, <3>7 DEF RevokedForCause
  <2> QED
    BY <2>1, <2>2, <2>3
<1> QED
  BY <1>1, <1>2, <1>3, RevokedCookies

LEMMA RotateCookies ==
  ASSUME Inv, CookieInv, NEW c \in Calls, call[c].at = "refreshing",
         Rotates(call[c].sent.refresh), Rotate(c), UNCHANGED jar
  PROVE  CookieInv'
<1> DEFINE n == Len(token)
           cookies == [access |-> session.version + 1, refresh |-> n + 1, csrf |-> n + 1]
<1>1. /\ call[c].sent.refresh = n /\ n \in Nat /\ ~session.revoked /\ n # 0
      /\ token \in Seq({"ACTIVE", "USED", "REVOKED"}) /\ session.version \in Nat
  <2>1. call[c].sent.refresh \in Active /\ ~session.revoked
    BY DEF Rotates
  <2>2. call[c].sent.refresh = n
    BY <2>1 DEF Inv, OneLiveToken
  <2>3. call[c].sent.refresh \in 1 .. n
    BY <2>1 DEF CookieInv, Presentable
  <2> QED
    BY <2>1, <2>2, <2>3, Numbers
<1>2. Len(token') = n + 1
  BY <1>1 DEF Rotate, Rotated
<1>3. session'.version = session.version + 1 /\ session'.revoked = session.revoked /\ session'.over = session.over
  BY Types DEF Rotate, SessionRow
<1>4. cookies \in Jar
  BY <1>1 DEF Jar
<1>5. ReplyRefresh(c, "ok", cookies)
  BY <1>1 DEF Rotate
<1>6. Current' = cookies
  BY <1>2, <1>3 DEF Current
<1> HIDE DEF cookies
<1>7. /\ call[c].used = 0 /\ call'[c].used = n
      /\ call'[c].at = "refreshed"
      /\ call'[c].answer = [status |-> "ok", cookies |-> cookies, sets |-> TRUE]
      /\ \A d \in Calls : d # c => call'[d] = call[d]
      /\ LoggedOut => LoggedOut'
      /\ CallsInOrder'
  BY <1>1, <1>4, <1>5, RefreshRow
<1>8. \A d \in Calls : Pending(d)' <=> d = c
  <2>1. ASSUME NEW d \in Calls, Pending(d) PROVE FALSE
    <3>1. call[c].sent.refresh # Len(token)
      BY <1>1, <2>1 DEF CookieInv, NewestHeldOnce
    <3> QED
      BY <1>1, <3>1
  <2> TAKE d \in Calls
  <2>2. CASE d # c
    BY <1>7, <2>1, <2>2 DEF Pending
  <2>3. CASE d = c
    BY <1>7, <2>3 DEF Pending
  <2> QED
    BY <2>2, <2>3
<1>9. SpentByCalls'
  <2> SUFFICES ASSUME NEW g \in 1 .. n PROVE \E d \in Calls : call'[d].used = g
    <3>1. Len(token') - 1 = n
      BY <1>1, <1>2
    <3> QED
      BY <3>1 DEF SpentByCalls
  <2>1. CASE g = n
    BY <1>7, <2>1
  <2>2. CASE g \in 1 .. n - 1
    <3>1. PICK d \in Calls : call[d].used = g
      BY <1>1, <2>2 DEF CookieInv, SpentByCalls
    <3>2. d # c
      BY <1>7, <2>2, <3>1
    <3> QED
      BY <1>7, <3>1, <3>2
  <2> QED
    BY <1>1, <2>1, <2>2
<1>10. /\ jar'.refresh \in 1 .. n
       /\ \A d \in Calls : call'[d].at = "refreshing" => call'[d].sent.refresh \in 1 .. n
  <2> SUFFICES ASSUME NEW d \in Calls, call'[d].at = "refreshing" PROVE call'[d].sent.refresh \in 1 .. n
    BY <1>1 DEF CookieInv, Presentable
  <2>1. call'[d] = call[d]
    BY <1>7
  <2> QED
    BY <1>1, <2>1 DEF CookieInv, Presentable
<1>11. Presentable'
  <2>1. \A g \in 1 .. n : g \in 1 .. Len(token')
    BY <1>1, <1>2
  <2> QED
    BY <1>10, <2>1 DEF Presentable
<1>12. NewestHeldOnce'
  <2>1. \A g \in 1 .. n : g # Len(token')
    BY <1>1, <1>2
  <2> QED
    BY <1>6, <1>7, <1>8, <1>10, <2>1 DEF NewestHeldOnce
<1>13. NewestReachable'
  BY <1>8 DEF NewestReachable
<1>14. RevokedForCause'
  BY <1>1, <1>3 DEF RevokedForCause
<1> QED
  BY <1>7, <1>9, <1>11, <1>12, <1>13, <1>14 DEF CookieInv

LEMMA RefreshCookies ==
  ASSUME Inv, CookieInv, NEW c \in Calls, Refresh(c)
  PROVE  CookieInv'
<1> DEFINE g == call[c].sent.refresh
<1>1. UNCHANGED jar /\ call[c].at = "refreshing"
  BY DEF Refresh
<1>2. CASE g = 0 /\ ReplyRefresh(c, "401", Empty) /\ UNCHANGED <<session, token>>
  <2>1. session.revoked
    <3>1. ~session.revoked => 0 \in 1 .. Len(token)
      BY <1>1, <1>2 DEF CookieInv, Presentable
    <3> QED
      BY <3>1, Numbers
  <2>2. /\ CallsInOrder' /\ (LoggedOut => LoggedOut')
        /\ \A d \in Calls : call[d].used # 0 => call'[d].used = call[d].used
    BY <1>1, <1>2, Constants, RefreshRow
  <2>3. RevokedForCause'
    BY <1>2, <2>1, <2>2, CausesStay
  <2> QED
    BY <1>2, <2>1, <2>2, <2>3, RevokedCookies
<1>3. CASE g # 0 /\ ~Rotates(g) /\ Refuse(c)
  BY <1>1, <1>3, RefuseCookies
<1>4. CASE Rotates(g) /\ Rotate(c)
  BY <1>1, <1>4, RotateCookies
<1> QED
  BY <1>2, <1>3, <1>4 DEF Refresh

LEMMA ClockCookies ==
  ASSUME Inv, CookieInv, AccessExpires \/ SessionExpires
  PROVE  CookieInv'
<1>1. /\ UNCHANGED <<token, jar, call>> /\ (session.over => session'.over)
      /\ session'.version = session.version /\ session'.revoked = session.revoked
  BY Types DEF AccessExpires, SessionExpires, SessionRow
<1>2. RevokedForCause'
  <2>1. LoggedOut => LoggedOut'
    BY <1>1 DEF LoggedOut
  <2> QED
    BY <1>1, <2>1, CausesStay
<1>3. \A c \in Calls : Pending(c)' <=> Pending(c)
  BY <1>1 DEF Pending
<1>4. CallsInOrder' /\ SpentByCalls' /\ Presentable'
  BY <1>1 DEF CookieInv, CallsInOrder, SpentByCalls, Presentable
<1>5. NewestHeldOnce' /\ NewestReachable'
  BY <1>1, <1>3 DEF CookieInv, NewestHeldOnce, NewestReachable, Current
<1> QED
  BY <1>2, <1>4, <1>5 DEF CookieInv

LEMMA NextCookies == Inv /\ CookieInv /\ [Next]_vars => CookieInv'
<1> SUFFICES ASSUME Inv, CookieInv, [Next]_vars PROVE CookieInv'
  OBVIOUS
<1>1. CASE UNCHANGED vars
  BY <1>1 DEF vars, CookieInv, CallsInOrder, SpentByCalls, Presentable, NewestHeldOnce,
              NewestReachable, Pending, Current, RevokedForCause, LoggedOut
<1>2. ASSUME NEW c \in Calls, NEW kind \in {"read", "write", "logout"}, Start(c, kind)
      PROVE  CookieInv'
  BY <1>2, StartCookies
<1>3. ASSUME NEW c \in Calls,
             \/ Receive(c) \/ ReceiveRefresh(c) \/ LoseAnswer(c)
             \/ Authenticate(c) \/ Serve(c) \/ Logout(c) \/ Refresh(c)
      PROVE  CookieInv'
  BY <1>3, ReceiveCookies, ReceiveRefreshCookies, LoseAnswerCookies, AuthenticateCookies,
     ServeCookies, LogoutCookies, RefreshCookies
<1>4. CASE AccessExpires \/ SessionExpires
  BY <1>4, ClockCookies
<1> QED
  BY <1>1, <1>2, <1>3, <1>4 DEF Next

\* However many calls refresh and sign out at once, and whichever answers are lost or
\* overtaken, the jar and the answers on their way never lose the newest secrets of a live
\* family unless an answer was lost.
THEOREM CookiesInvariant == Spec => [](Inv /\ CookieInv)
BY InitInv, NextInv, InitCookies, NextCookies, PTL DEF Spec

\* A family is revoked only because the customer signed out, its 30 days are over, or one
\* refresh secret was presented twice (rotate_session, revoke_session_family).
THEOREM RevokedOnlyForCause == Spec => []RevokedForCause
<1>1. CookieInv => RevokedForCause
  BY DEF CookieInv
<1> QED
  BY <1>1, CookiesInvariant, PTL

\* When all is quiet and no answer was lost, the browser can go on: its cookies are those
\* that the session accepts, in whatever order the answers came (services/http.ts).
THEOREM QuietBrowserCanGoOn == Spec => []QuietBrowserIsCurrent
<1>1. Inv /\ CookieInv => QuietBrowserIsCurrent
  <2> SUFFICES ASSUME Inv, CookieInv, ~session.revoked,
                      \A c \in Calls : call[c].at \in {"idle", "done"} /\ ~call[c].lost
               PROVE  jar = [access |-> session.version, refresh |-> session.csrf, csrf |-> session.csrf]
    BY DEF QuietBrowserIsCurrent
  <2>1. \A c \in Calls : ~Pending(c) /\ ~call[c].lost
    BY DEF Pending
  <2>2. jar = Current
    BY <2>1 DEF CookieInv, NewestReachable
  <2> QED
    BY <2>2 DEF Current, Inv, OneLiveToken
<1> QED
  BY <1>1, CookiesInvariant, PTL

-----------------------------------------------------------------------------
(* Accounts and their claims: what the ledger and the claims rest on        *)

\* Only a living account has an identity that can sign in.
IdentitiesLive == \A u \in Users : user[u].identity = "active" => user[u].status = "active"

\* A lot is granted by the capture of its purchase, once, and taken back by its refund.
LotsFollowPurchases ==
  \A p \in Purchases :
    /\ lot[p].granted => purchase[p].status \in {"PAID", "REFUNDED"}
    /\ lot[p].spent => lot[p].granted
    /\ lot[p].reversed => lot[p].granted /\ purchase[p].status = "REFUNDED"

\* The credit an open order has reserved is there, and its owner's.
ReservedIsThere ==
  \A u \in Users : order[u].status = "RESERVED" =>
    /\ order[u].lot \in Purchases /\ lot[order[u].lot].owner = u /\ Unspent(order[u].lot)

ClaimsInv ==
  /\ OneCanonical /\ BalanceFollowsLots
  /\ IdentitiesLive /\ LotsFollowPurchases /\ ReservedIsThere

\* A claimed account, and a closed one without its marker, have no call under way.
GoneIsQuiet ==
  \A u \in Users :
    user[u].status = "merged" \/ (user[u].status = "closed" /\ u \notin cleanup) =>
      \A k \in Requests : request[k].user # u

\* A claimed account has been claimed, and no checkout of it is open.
GoneIsClaimed ==
  \A u \in Users : user[u].status = "merged" =>
    /\ \E m \in merges : m.legacy = u
    /\ \A p \in Purchases : Buyer[p] = u => purchase[p].status # "PENDING"

GoneInv == GoneIsEmpty /\ GoneIsQuiet /\ GoneIsClaimed

\* The lots that count for an account in a table of lots: granted to it, spent, reversed.
GrantedTo(table, u) == {p \in Purchases : table[p].owner = u /\ table[p].granted}
SpentBy(table, u) == {p \in Purchases : table[p].owner = u /\ table[p].spent}
TakenFrom(table, u) == {p \in Purchases : table[p].owner = u /\ table[p].reversed}

Worth(table, u) ==
  Cardinality(GrantedTo(table, u)) - Cardinality(SpentBy(table, u))
    - Cardinality(TakenFrom(table, u))

-----------------------------------------------------------------------------
\* What the types say of single columns.
LEMMA ClaimColumns ==
  ASSUME WellConfigured, ACTypeOK
  PROVE  /\ \A u \in Users : /\ user[u] \in UserRow /\ order[u] \in OrderRow
                             /\ balance[u] \in Int /\ u # Nobody
                             /\ plan[u] \in {"none", "PENDING", "ACTIVE"}
         /\ \A k \in Requests : request[k] \in RequestRow
         /\ \A p \in Purchases :
             purchase[p] \in PurchaseRow /\ lot[p] \in LotRow /\ Buyer[p] \in Users
         /\ \A m \in Pictures : picture[m] \in PictureRow
         /\ \A r \in References : /\ proof[r] \in ProofRow /\ Proves[r] \in Purchases
                                  /\ Claimed(r) \in Users
         /\ IdleRequest \in RequestRow
<1>1. IdleRequest \in RequestRow
  BY DEF IdleRequest, RequestRow
<1> QED
  BY <1>1 DEF WellConfigured, ACTypeOK, Claimed

\* Every step keeps the types; settling an order finds the lot it has reserved.
LEMMA ClaimTypeInductive ==
  ASSUME WellConfigured, ACTypeOK, ReservedIsThere, [ACNext]_ACvars
  PROVE  ACTypeOK'
<1> USE ClaimColumns
<1>a. /\ user \in [Users -> UserRow] /\ signin \subseteq Users
      /\ request \in [Requests -> RequestRow]
      /\ purchase \in [Purchases -> PurchaseRow] /\ lot \in [Purchases -> LotRow]
      /\ balance \in [Users -> Int] /\ order \in [Users -> OrderRow]
      /\ plan \in [Users -> {"none", "PENDING", "ACTIVE"}]
      /\ picture \in [Pictures -> PictureRow] /\ cleanup \subseteq Users
      /\ proof \in [References -> ProofRow] /\ merges \subseteq MergeRow
  BY DEF ACTypeOK
<1>b. \A k \in Requests : Answered(k) => request' \in [Requests -> RequestRow]
  BY <1>a DEF Answered
<1>c. \A row \in LotRow :
        /\ \A u \in Users : [row EXCEPT !.owner = u] \in LotRow
        /\ \A u \in Users : [row EXCEPT !.granted = TRUE, !.owner = u] \in LotRow
        /\ [row EXCEPT !.spent = TRUE] \in LotRow
        /\ [row EXCEPT !.reversed = TRUE] \in LotRow
  BY DEF LotRow
<1>d. \A row \in PurchaseRow :
        /\ [row EXCEPT !.status = "PAID"] \in PurchaseRow
        /\ [row EXCEPT !.status = "REFUNDED"] \in PurchaseRow
        /\ [row EXCEPT !.review = TRUE] \in PurchaseRow
  BY DEF PurchaseRow
<1>e. \A row \in RequestRow :
        /\ [row EXCEPT !.at = "closing"] \in RequestRow
        /\ \A m : [row EXCEPT !.todo = @ \ {m}] \in RequestRow
        /\ \A T, B \in SUBSET Pictures :
             [row EXCEPT !.at = "deleting", !.todo = T, !.busy = B] \in RequestRow
  BY DEF RequestRow
<1>g. /\ \A u \in Users : /\ [balance EXCEPT ![u] = @ + 1] \in [Users -> Int]
                          /\ [balance EXCEPT ![u] = @ - 1] \in [Users -> Int]
      /\ \A c, l \in Users : [balance EXCEPT ![c] = @ + balance[l], ![l] = 0] \in [Users -> Int]
  BY <1>a
<1>h. /\ \A p \in Purchases : \A row \in LotRow :
          [lot EXCEPT ![p] = row] \in [Purchases -> LotRow]
      /\ \A p \in Purchases : \A row \in PurchaseRow :
           [purchase EXCEPT ![p] = row] \in [Purchases -> PurchaseRow]
      /\ \A u \in Users : \A row \in OrderRow :
          [order EXCEPT ![u] = row] \in [Users -> OrderRow]
  BY <1>a
<1> USE DEF accountVars, moneyVars, mediaVars, claimVars
<1>1. ASSUME NEW u \in Users, FirstSignIn(u) PROVE ACTypeOK'
  BY <1>1, <1>a DEF FirstSignIn, SetUser, ACTypeOK, UserRow
<1>2. ASSUME NEW u \in Users, LoadIdentity(u) PROVE ACTypeOK'
  BY <1>2, <1>a DEF LoadIdentity, ACTypeOK
<1>3. ASSUME NEW u \in Users, IssueSession(u) PROVE ACTypeOK'
  BY <1>3, <1>a DEF IssueSession, ACTypeOK, UserRow
<1>4. ASSUME NEW u \in Users, SignOut(u) PROVE ACTypeOK'
  BY <1>4, <1>a DEF SignOut, ACTypeOK, UserRow
<1>5. ASSUME NEW u \in Users, SettleOrder(u) PROVE ACTypeOK'
  <2>1. order' \in [Users -> OrderRow]
    <3>1. /\ [order[u] EXCEPT !.status = "CAPTURED"] \in OrderRow
          /\ [order[u] EXCEPT !.status = "FAILED"] \in OrderRow
      BY DEF OrderRow
    <3>2. \/ order' = [order EXCEPT ![u] = [order[u] EXCEPT !.status = "CAPTURED"]]
          \/ order' = [order EXCEPT ![u] = [order[u] EXCEPT !.status = "FAILED"]]
      BY <1>5 DEF SettleOrder
    <3> QED
      BY <3>1, <3>2, <1>h
  <2>2. lot' \in [Purchases -> LotRow] /\ balance' \in [Users -> Int]
    <3>1. order[u].lot \in Purchases
      BY <1>5 DEF SettleOrder, ReservedIsThere
    <3> DEFINE p == order[u].lot
    <3>2. lot' = lot \/ lot' = [lot EXCEPT ![p] = [lot[p] EXCEPT !.spent = TRUE]]
      BY <1>5 DEF SettleOrder
    <3>3. lot' \in [Purchases -> LotRow]
      <4>1. p \in Purchases /\ lot[p] \in LotRow
        BY <3>1
      <4> HIDE DEF p
      <4>2. [lot[p] EXCEPT !.spent = TRUE] \in LotRow
        BY <4>1, <1>c
      <4> QED
        BY <3>2, <4>1, <4>2, <1>a, <1>h
    <3>4. balance' = balance \/ balance' = [balance EXCEPT ![u] = @ - 1]
      BY <1>5 DEF SettleOrder
    <3> QED
      BY <3>3, <3>4, <1>a, <1>g
  <2> QED
    BY <1>5, <1>a, <2>1, <2>2 DEF SettleOrder, ACTypeOK
<1>6. ASSUME NEW u \in Users, PlanChanges(u) PROVE ACTypeOK'
  BY <1>6, <1>a DEF PlanChanges, ACTypeOK
<1>7. ASSUME NEW u \in Users, ClearMarker(u) PROVE ACTypeOK'
  BY <1>7, <1>a DEF ClearMarker, ACTypeOK
<1>8. ASSUME NEW p \in Purchases, Capture(p) PROVE ACTypeOK'
  <2>1. /\ purchase' = [purchase EXCEPT ![p] = [purchase[p] EXCEPT !.status = "PAID"]]
        /\ lot' = [lot EXCEPT ![p] = [lot[p] EXCEPT !.granted = TRUE, !.owner = Buyer[p]]]
        /\ balance' = [balance EXCEPT ![Buyer[p]] = @ + 1]
    BY <1>8 DEF Capture
  <2>2. purchase' \in [Purchases -> PurchaseRow] /\ lot' \in [Purchases -> LotRow]
    BY <2>1, <1>c, <1>d, <1>h
  <2>3. balance' \in [Users -> Int]
    BY <2>1, <1>g
  <2> QED
    BY <1>8, <1>a, <2>2, <2>3 DEF Capture, ACTypeOK
<1>9. ASSUME NEW p \in Purchases, Refund(p) PROVE ACTypeOK'
  <2>1. purchase' \in [Purchases -> PurchaseRow]
    <3>1. \/ purchase' = [purchase EXCEPT ![p] = [purchase[p] EXCEPT !.status = "REFUNDED"]]
          \/ purchase' = [purchase EXCEPT ![p] = [purchase[p] EXCEPT !.review = TRUE]]
      BY <1>9 DEF Refund, TakeBack, ReviewRefund
    <3>2. /\ [purchase[p] EXCEPT !.status = "REFUNDED"] \in PurchaseRow
          /\ [purchase[p] EXCEPT !.review = TRUE] \in PurchaseRow
      BY <1>d
    <3> QED
      BY <3>1, <3>2, <1>h
  <2>2. lot' \in [Purchases -> LotRow] /\ balance' \in [Users -> Int]
    <3>1. \/ lot' = lot /\ balance' = balance
          \/ /\ lot' = [lot EXCEPT ![p] = [lot[p] EXCEPT !.reversed = TRUE]]
             /\ balance' = [balance EXCEPT ![Buyer[p]] = @ - 1]
      BY <1>9 DEF Refund, TakeBack
    <3> DEFINE reversed == [lot[p] EXCEPT !.reversed = TRUE]
    <3>2. reversed \in LotRow
      BY <1>c
    <3>3. lot' \in [Purchases -> LotRow]
      <4>1. lot' = lot \/ lot' = [lot EXCEPT ![p] = reversed]
        BY <3>1
      <4> HIDE DEF reversed
      <4> QED
        BY <3>2, <4>1, <1>a, <1>h
    <3> QED
      BY <3>1, <3>3, <1>a, <1>g
  <2> QED
    BY <1>9, <1>a, <2>1, <2>2 DEF Refund, ACTypeOK
<1>10. ASSUME NEW m \in Pictures, DeletePicture(m) PROVE ACTypeOK'
  BY <1>10, <1>a DEF DeletePicture, ACTypeOK, PictureRow
<1>11. ASSUME NEW r \in References, ProofExpires(r) PROVE ACTypeOK'
  BY <1>11, <1>a DEF ProofExpires, ACTypeOK, ProofRow
<1>12. ASSUME NEW k \in Requests, Handle(k) PROVE ACTypeOK'
  <2>1. ASSUME NEW u \in Users, Admit(k, u) PROVE ACTypeOK'
    BY <2>1, <1>a DEF Admit, IdleRequest, RequestRow, ACTypeOK
  <2>2. ASSUME NEW u \in Users, Subscribe(k, u) PROVE ACTypeOK'
    BY <2>2, <1>a, <1>b DEF Subscribe, ACTypeOK
  <2>3. ASSUME NEW u \in Users, Close(k, u) PROVE ACTypeOK'
    <3>1. request' \in [Requests -> RequestRow]
      BY <2>3, <1>a, <1>e DEF Close
    <3>2. user' \in [Users -> UserRow]
      BY <2>3, <1>a DEF Close, SetUser, UserRow
    <3> QED
      BY <2>3, <1>a, <3>1, <3>2 DEF Close, ACTypeOK
  <2>4. ASSUME NEW u \in Users, NEW p \in Purchases, PlaceOrder(k, u, p) PROVE ACTypeOK'
    BY <2>4, <1>a, <1>b DEF PlaceOrder, ACTypeOK, OrderRow
  <2>5. ASSUME NEW u \in Users, NEW m \in Pictures, StageUpload(k, u, m) PROVE ACTypeOK'
    BY <2>5, <1>a DEF StageUpload, ACTypeOK, PictureRow
  <2>6. ASSUME NEW u \in Users, NEW r \in References, Prove(k, u, r) PROVE ACTypeOK'
    BY <2>6, <1>a, <1>b DEF Prove, ACTypeOK, ProofRow
  <2>7. ASSUME NEW u \in Users, NEW r \in References, Merge(k, u, r) PROVE ACTypeOK'
    <3>1. user' \in [Users -> UserRow] /\ balance' \in [Users -> Int]
      <4>1. balance' = [balance EXCEPT ![u] = @
                + balance[Claimed(r)], ![Claimed(r)] = 0]
        BY <2>7 DEF Merge
      <4>2. user' \in [Users -> UserRow]
        BY <2>7, <1>a DEF Merge, UserRow
      <4> HIDE DEF Claimed
      <4> QED
        BY <4>1, <4>2, <1>g
    <3>2. proof' \in [References -> ProofRow] /\ request' \in [Requests -> RequestRow]
      BY <2>7, <1>a, <1>b DEF Merge, ProofRow
    <3>5. lot' \in [Purchases -> LotRow]
      BY <2>7, <1>a, <1>c DEF Merge, MovesLots
    <3>6. picture' \in [Pictures -> PictureRow]
      BY <2>7, <1>a DEF Merge, MovesPictures, PictureRow
    <3>3. plan' \in [Users -> {"none", "PENDING", "ACTIVE"}]
      BY <2>7, <1>a DEF Merge
    <3>4. merges' \subseteq MergeRow
      BY <2>7, <1>a DEF Merge, MergeRow
    <3> QED
      BY <2>7, <1>a, <3>1, <3>2, <3>3, <3>4, <3>5, <3>6 DEF Merge, ACTypeOK
  <2>8. ASSUME NEW p \in Purchases, Checkout(k, p) PROVE ACTypeOK'
    BY <2>8, <1>a, <1>b DEF Checkout, ACTypeOK, PurchaseRow
  <2>9. ASSUME NEW m \in Pictures, ActivateUpload(k, m) PROVE ACTypeOK'
    BY <2>9, <1>a, <1>b DEF ActivateUpload, ACTypeOK, PictureRow
  <2>10. ASSUME NEW m \in Pictures, AskDeletion(k, m) PROVE ACTypeOK'
    <3>1. request' \in [Requests -> RequestRow]
      BY <2>10, <1>a, <1>e DEF AskDeletion
    <3>2. picture' \in [Pictures -> PictureRow]
      BY <2>10, <1>a DEF AskDeletion, PictureRow
    <3> QED
      BY <2>10, <1>a, <3>1, <3>2 DEF AskDeletion, ACTypeOK
  <2>11. CASE FindPictures(k)
    <3> DEFINE found == PicturesOf(request[k].user)
               busy == {m \in found : picture[m].status = "PENDING_UPLOAD"}
    <3>1. request' = [request EXCEPT ![k] =
                     [request[k] EXCEPT !.at = "deleting", !.todo = found, !.busy = busy]]
      BY <2>11, <1>a DEF FindPictures
    <3>2. found \in SUBSET Pictures /\ busy \in SUBSET Pictures
      BY DEF PicturesOf
    <3> HIDE DEF found, busy
    <3>3. request' \in [Requests -> RequestRow]
      BY <3>1, <3>2, <1>a, <1>e
    <3> QED
      BY <2>11, <1>a, <3>3 DEF FindPictures, ACTypeOK
  <2>12. CASE ClosureBreaksOff(k) \/ ClosureAnswers(k) \/ Die(k)
    BY <2>12, <1>a, <1>b DEF ClosureBreaksOff, ClosureAnswers, Die,
       Answered, ACTypeOK
  <2> QED
    BY <1>12, <2>1, <2>2, <2>3, <2>4, <2>5, <2>6, <2>7, <2>8, <2>9, <2>10, <2>11, <2>12 DEF
       Handle
<1>13. CASE UNCHANGED ACvars
  BY <1>13, <1>a DEF ACvars, ACTypeOK
<1> QED
  BY <1>1, <1>2, <1>3, <1>4, <1>5, <1>6, <1>7, <1>8, <1>9, <1>10, <1>11, <1>12, <1>13 DEF
     ACNext

-----------------------------------------------------------------------------
(* Which steps touch what                                                   *)

\* Proofs and merges.
LEMMA ClaimSteps ==
  ASSUME [ACNext]_ACvars
  PROVE  \/ UNCHANGED claimVars
         \/ \E k \in Requests, c \in Users, r \in References :
             Prove(k, c, r) \/ Merge(k, c, r)
         \/ \E r \in References : ProofExpires(r)
<1> USE DEF accountVars, moneyVars, mediaVars, claimVars
<1>1. CASE UNCHANGED ACvars
  BY <1>1 DEF ACvars
<1>2. ASSUME NEW k \in Requests, Handle(k)
      PROVE  \/ UNCHANGED claimVars
             \/ \E c \in Users, r \in References : Prove(k, c, r) \/ Merge(k, c, r)
  BY <1>2 DEF Handle, Admit, Subscribe, Close, PlaceOrder,
     StageUpload, Checkout, ActivateUpload, AskDeletion,
     FindPictures, ClosureBreaksOff, ClosureAnswers, Die
<1>3. ASSUME NEW u \in Users,
             \/ FirstSignIn(u) \/ LoadIdentity(u) \/ IssueSession(u)
             \/ SignOut(u) \/ SettleOrder(u) \/ PlanChanges(u)
             \/ ClearMarker(u)
      PROVE  UNCHANGED claimVars
  BY <1>3 DEF FirstSignIn, LoadIdentity, IssueSession, SignOut,
     SettleOrder, PlanChanges, ClearMarker
<1>4. ASSUME NEW p \in Purchases, Capture(p) \/ Refund(p)
      PROVE  UNCHANGED claimVars
  BY <1>4 DEF Capture, Refund
<1>5. ASSUME NEW m \in Pictures, DeletePicture(m) PROVE UNCHANGED claimVars
  BY <1>5 DEF DeletePicture
<1> QED
  BY <1>1, <1>2, <1>3, <1>4, <1>5 DEF ACNext

\* Lots, purchases, reservations and balances.
LEMMA MoneySteps ==
  ASSUME [ACNext]_ACvars
  PROVE  \/ UNCHANGED <<purchase, lot, balance, order>>
         \/ \E k \in Requests, c \in Users, r \in References : Merge(k, c, r)
         \/ \E k \in Requests, p \in Purchases : Checkout(k, p)
         \/ \E k \in Requests, u \in Users, p \in Purchases : PlaceOrder(k, u, p)
         \/ \E u \in Users : SettleOrder(u)
         \/ \E p \in Purchases : Capture(p) \/ Refund(p)
<1> USE DEF accountVars, moneyVars, mediaVars, claimVars
<1>1. CASE UNCHANGED ACvars
  BY <1>1 DEF ACvars
<1>2. ASSUME NEW k \in Requests, Handle(k)
      PROVE  \/ UNCHANGED <<purchase, lot, balance, order>>
             \/ \E c \in Users, r \in References : Merge(k, c, r)
             \/ \E p \in Purchases : Checkout(k, p)
             \/ \E u \in Users, p \in Purchases : PlaceOrder(k, u, p)
  BY <1>2 DEF Handle, Admit, Subscribe, Close, StageUpload,
     Prove, ActivateUpload, AskDeletion, FindPictures,
     ClosureBreaksOff, ClosureAnswers, Die
<1>3. ASSUME NEW u \in Users,
             \/ FirstSignIn(u) \/ LoadIdentity(u) \/ IssueSession(u)
             \/ SignOut(u) \/ PlanChanges(u) \/ ClearMarker(u)
      PROVE  UNCHANGED <<purchase, lot, balance, order>>
  BY <1>3 DEF FirstSignIn, LoadIdentity, IssueSession, SignOut,
     PlanChanges, ClearMarker
<1>4. ASSUME NEW r \in References, ProofExpires(r)
      PROVE  UNCHANGED <<purchase, lot, balance, order>>
  BY <1>4 DEF ProofExpires
<1>5. ASSUME NEW m \in Pictures, DeletePicture(m)
      PROVE  UNCHANGED <<purchase, lot, balance, order>>
  BY <1>5 DEF DeletePicture
<1> QED
  BY <1>1, <1>2, <1>3, <1>4, <1>5 DEF ACNext

\* Users, calls and markers.
LEMMA AccountSteps ==
  ASSUME ACTypeOK, [ACNext]_ACvars
  PROVE  \/ UNCHANGED <<user, cleanup>>
             /\ \A k \in Requests : request'[k].user \in {request[k].user, Nobody}
         \/ \E k \in Requests, u \in Users : Admit(k, u) \/ Close(k, u)
         \/ \E k \in Requests, c \in Users, r \in References : Merge(k, c, r)
         \/ \E u \in Users : FirstSignIn(u) \/ IssueSession(u)
             \/ SignOut(u) \/ ClearMarker(u)
<1> DEFINE Still ==
      UNCHANGED <<user, cleanup>>
          /\ \A k \in Requests : request'[k].user \in {request[k].user, Nobody}
<1>a. request \in [Requests -> RequestRow]
  BY DEF ACTypeOK
<1>b. UNCHANGED <<accountVars, cleanup>> => Still
  BY DEF accountVars
<1>c. ASSUME NEW k \in Requests, Answered(k)
      PROVE  \A j \in Requests : request'[j].user \in {request[j].user, Nobody}
  BY <1>c, <1>a DEF Answered, IdleRequest
<1> USE DEF accountVars, moneyVars, mediaVars, claimVars
<1>1. ASSUME UNCHANGED ACvars PROVE Still
  BY <1>1, <1>b DEF ACvars
<1>2. ASSUME NEW k \in Requests, Handle(k)
      PROVE  \/ Still
             \/ \E u \in Users : Admit(k, u) \/ Close(k, u)
             \/ \E c \in Users, r \in References : Merge(k, c, r)
  <2>1. ASSUME Answered(k), UNCHANGED <<user, cleanup>> PROVE Still
    BY <2>1, <1>c
  <2>2. ASSUME NEW u \in Users, Subscribe(k, u) PROVE Still
    BY <2>2, <2>1 DEF Subscribe
  <2>3. ASSUME NEW u \in Users, NEW p \in Purchases, PlaceOrder(k, u, p) PROVE Still
    BY <2>3, <2>1 DEF PlaceOrder
  <2>4. ASSUME NEW u \in Users, NEW m \in Pictures, StageUpload(k, u, m) PROVE Still
    BY <2>4, <1>b DEF StageUpload
  <2>5. ASSUME NEW u \in Users, NEW r \in References, Prove(k, u, r) PROVE Still
    BY <2>5, <2>1 DEF Prove
  <2>6. ASSUME NEW p \in Purchases, Checkout(k, p) PROVE Still
    BY <2>6, <2>1 DEF Checkout
  <2>7. ASSUME NEW m \in Pictures, ActivateUpload(k, m) PROVE Still
    BY <2>7, <2>1 DEF ActivateUpload
  <2>8. ASSUME NEW m \in Pictures, AskDeletion(k, m) PROVE Still
    BY <2>8, <1>a DEF AskDeletion, RequestRow
  <2>9. CASE FindPictures(k)
    BY <2>9, <1>a DEF FindPictures, RequestRow
  <2>10. CASE ClosureBreaksOff(k) \/ ClosureAnswers(k) \/ Die(k)
    BY <2>10, <2>1 DEF ClosureBreaksOff, ClosureAnswers, Die, Answered
  <2> HIDE DEF Still
  <2> QED
    BY <1>2, <2>2, <2>3, <2>4, <2>5, <2>6, <2>7, <2>8, <2>9, <2>10 DEF Handle
<1>3. ASSUME NEW u \in Users,
             LoadIdentity(u) \/ SettleOrder(u) \/ PlanChanges(u)
      PROVE  Still
  BY <1>3, <1>b DEF LoadIdentity, SettleOrder, PlanChanges
<1>4. ASSUME NEW p \in Purchases, Capture(p) \/ Refund(p) PROVE Still
  BY <1>4, <1>b DEF Capture, Refund
<1>5. ASSUME NEW m \in Pictures, DeletePicture(m) PROVE Still
  BY <1>5, <1>b DEF DeletePicture
<1>6. ASSUME NEW r \in References, ProofExpires(r) PROVE Still
  BY <1>6, <1>b DEF ProofExpires
<1> HIDE DEF Still
<1>7. \/ Still
      \/ \E k \in Requests, u \in Users : Admit(k, u) \/ Close(k, u)
      \/ \E k \in Requests, c \in Users, r \in References : Merge(k, c, r)
      \/ \E u \in Users : FirstSignIn(u) \/ IssueSession(u) \/ SignOut(u)
          \/ ClearMarker(u)
  <2>1. CASE ACNext
    BY <2>1, <1>2, <1>3, <1>4, <1>5, <1>6 DEF ACNext
  <2>2. CASE UNCHANGED ACvars
    BY <2>2, <1>1
  <2> QED
    BY <2>1, <2>2
<1> QED
  BY <1>7 DEF Still

-----------------------------------------------------------------------------
(* Each part of the invariant is kept                                       *)

\* A proof that is used up stays so, and none is used twice.
LEMMA OneCanonicalKept ==
  ASSUME WellConfigured, ACTypeOK, OneCanonical, [ACNext]_ACvars
  PROVE  OneCanonical'
<1> USE ClaimColumns
<1>1. CASE UNCHANGED claimVars
  BY <1>1 DEF OneCanonical, claimVars, Claimed
<1>2. ASSUME NEW k \in Requests, NEW c \in Users, NEW r \in References, Prove(k, c, r)
      PROVE  OneCanonical'
  <2>1. merges' = merges /\ \A q \in References \ {r} : proof'[q] = proof[q]
    BY <1>2 DEF Prove, ACTypeOK
  <2>2. proof[r].state # "consumed"
    BY <1>2 DEF Prove
  <2>3. \A m \in merges : proof'[m.proof] = proof[m.proof]
    <3>1. \A m \in merges : m.proof \in References /\ proof[m.proof].state = "consumed"
      <4>1. \A m \in merges : m \in MergeRow
        BY DEF ACTypeOK
      <4>2. \A m \in merges : proof[m.proof] = [canonical |-> m.canonical, state |-> "consumed"]
        BY DEF OneCanonical
      <4>3. ASSUME NEW m \in merges
            PROVE  m.proof \in References /\ proof[m.proof].state = "consumed"
        <5>1. proof[m.proof] = [canonical |-> m.canonical, state |-> "consumed"]
          BY <4>2
        <5>2. m \in MergeRow
          BY <4>1
        <5>3. m.proof \in References
          BY <5>2 DEF MergeRow
        <5> QED
          BY <5>1, <5>3
      <4> QED
        BY <4>3
    <3> QED
      BY <2>1, <2>2, <3>1
  <2> QED
    BY <2>1, <2>3 DEF OneCanonical, Claimed
<1>3. ASSUME NEW r \in References, ProofExpires(r)
      PROVE  OneCanonical'
  <2>1. merges' = merges /\ \A q \in References \ {r} : proof'[q] = proof[q]
    BY <1>3 DEF ProofExpires, ACTypeOK
  <2>2. proof[r].state # "consumed"
    BY <1>3 DEF ProofExpires
  <2>3. \A m \in merges : proof'[m.proof] = proof[m.proof]
    <3>1. \A m \in merges : m.proof \in References /\ proof[m.proof].state = "consumed"
      <4>1. \A m \in merges : m \in MergeRow
        BY DEF ACTypeOK
      <4>2. \A m \in merges : proof[m.proof] = [canonical |-> m.canonical, state |-> "consumed"]
        BY DEF OneCanonical
      <4>3. ASSUME NEW m \in merges
            PROVE  m.proof \in References /\ proof[m.proof].state = "consumed"
        <5>1. proof[m.proof] = [canonical |-> m.canonical, state |-> "consumed"]
          BY <4>2
        <5>2. m \in MergeRow
          BY <4>1
        <5>3. m.proof \in References
          BY <5>2 DEF MergeRow
        <5> QED
          BY <5>1, <5>3
      <4> QED
        BY <4>3
    <3> QED
      BY <2>1, <2>2, <3>1
  <2> QED
    BY <2>1, <2>3 DEF OneCanonical, Claimed
<1>4. ASSUME NEW k \in Requests, NEW c \in Users, NEW r \in References, Merge(k, c, r)
      PROVE  OneCanonical'
  <2> DEFINE l == Claimed(r)
             new == [legacy |-> l, canonical |-> c, proof |-> r]
  <2>1. /\ merges' = merges \cup {new}
        /\ proof' = [proof EXCEPT ![r].state = "consumed"]
        /\ proof[r] = [canonical |-> c, state |-> "valid"]
        /\ c # l /\ \A m \in merges : m.legacy # c /\ m.legacy # l /\ m.canonical # l
    BY <1>4 DEF Merge, Mergeable, ProofHolds, GraphAllows
  <2>2. /\ \A q \in References \ {r} : proof'[q] = proof[q]
        /\ proof'[r] = [canonical |-> c, state |-> "consumed"]
    BY <2>1 DEF ACTypeOK, ProofRow
  <2>3. \A m \in merges : m.proof \in References /\ m.proof # r
    BY <2>1 DEF OneCanonical, ACTypeOK, MergeRow
  <2>4. new.legacy = l /\ new.canonical = c /\ new.proof = r
    OBVIOUS
  <2> HIDE DEF new
  <2>5. \A m, n \in merges' : /\ m.canonical # n.legacy
                              /\ m.legacy = n.legacy \/ m.proof = n.proof => m = n
    BY <2>1, <2>3, <2>4 DEF OneCanonical
  <2>6. \A m \in merges' : /\ Claimed(m.proof) = m.legacy
                           /\ proof'[m.proof] = [canonical |-> m.canonical, state |-> "consumed"]
    BY <2>1, <2>2, <2>3, <2>4 DEF OneCanonical
  <2> QED
    BY <2>5, <2>6 DEF OneCanonical, Claimed
<1> QED
  BY <1>1, <1>2, <1>3, <1>4, ClaimSteps

\* An identity that can sign in is revoked in the step that ends its account, and a
\* claimed account has none to begin with.
LEMMA IdentitiesLiveKept ==
  ASSUME WellConfigured, ACTypeOK, IdentitiesLive, [ACNext]_ACvars
  PROVE  IdentitiesLive'
<1>a. user \in [Users -> UserRow]
  BY DEF ACTypeOK
<1>1. CASE user' = user
  BY <1>1 DEF IdentitiesLive
<1>2. ASSUME NEW k \in Requests, NEW u \in Users, Admit(k, u) \/ Close(k, u)
      PROVE  IdentitiesLive'
  BY <1>2, <1>a DEF Admit, Close, SetUser, IdentitiesLive
<1>3. ASSUME NEW k \in Requests, NEW c \in Users, NEW r \in References, Merge(k, c, r)
      PROVE  IdentitiesLive'
  <2> DEFINE l == Claimed(r)
  <2>1. /\ user' = [user EXCEPT ![l].status = "merged", ![l].session = FALSE]
        /\ user[l].identity # "active"
    BY <1>3 DEF Merge, Mergeable, IdentitiesAllow
  <2>2. \A u \in Users : user[u] \in UserRow
    BY <1>a
  <2> HIDE DEF l
  <2>3. \A u \in Users : /\ user'[u].identity = user[u].identity
                         /\ u # l => user'[u].status = user[u].status
    BY <2>1, <2>2, <1>a DEF UserRow
  <2> QED
    BY <2>1, <2>3 DEF IdentitiesLive
<1>4. ASSUME NEW u \in Users,
             FirstSignIn(u) \/ IssueSession(u) \/ SignOut(u)
             \/ ClearMarker(u)
      PROVE  IdentitiesLive'
  <2>1. CASE FirstSignIn(u)
    BY <2>1, <1>a DEF FirstSignIn, SetUser, IdentitiesLive
  <2>2. CASE IssueSession(u) \/ SignOut(u)
    <3>1. \A v \in Users : user'[v].identity = user[v].identity /\ user'[v].status = user[v].status
      BY <2>2, <1>a DEF IssueSession, SignOut, UserRow
    <3> QED
      BY <3>1 DEF IdentitiesLive
  <2>3. CASE ClearMarker(u)
    BY <2>3 DEF ClearMarker, accountVars, IdentitiesLive
  <2> QED
    BY <1>4, <2>1, <2>2, <2>3
<1> QED
  BY <1>1, <1>2, <1>3, <1>4, AccountSteps

\* A refund takes a credit back only while no order holds it, and only a claim moves it,
\* from an account whose order it cannot hold.
LEMMA LotsKept ==
  ASSUME WellConfigured, ACTypeOK, LotsFollowPurchases, ReservedIsThere,
         [ACNext]_ACvars
  PROVE  LotsFollowPurchases' /\ ReservedIsThere'
<1> DEFINE Good == LotsFollowPurchases' /\ ReservedIsThere'
<1>a. /\ purchase \in [Purchases -> PurchaseRow] /\ lot \in [Purchases -> LotRow]
      /\ order \in [Users -> OrderRow]
  BY DEF ACTypeOK
<1>b. /\ \A p \in Purchases : purchase[p] \in PurchaseRow /\ lot[p] \in LotRow
      /\ \A u \in Users : order[u] \in OrderRow
  BY <1>a
<1>c. NoLot \notin Purchases
  BY DEF WellConfigured
<1> USE DEF moneyVars, Unspent
<1>1. CASE UNCHANGED <<purchase, lot, balance, order>>
  BY <1>1 DEF LotsFollowPurchases, ReservedIsThere
<1>2. ASSUME NEW k \in Requests, NEW p \in Purchases, Checkout(k, p) PROVE Good
  <2>1. /\ lot' = lot /\ order' = order
        /\ \A q \in Purchases :
            purchase[q].status # "none" => purchase'[q].status = purchase[q].status
    BY <1>2, <1>a DEF Checkout
  <2> QED
    BY <2>1 DEF LotsFollowPurchases, ReservedIsThere
<1>3. ASSUME NEW k \in Requests, NEW u \in Users, NEW p \in Purchases, PlaceOrder(k, u, p)
      PROVE  Good
  <2>1. purchase' = purchase /\ lot' = lot
    BY <1>3 DEF PlaceOrder
  <2>2. order' = [order EXCEPT ![u] = [status |-> "RESERVED", lot |-> p]]
    BY <1>3 DEF PlaceOrder
  <2>3. lot[p].owner = u /\ Unspent(p)
    BY <1>3 DEF PlaceOrder
  <2> QED
    BY <2>1, <2>2, <2>3, <1>a DEF LotsFollowPurchases, ReservedIsThere
<1>4. ASSUME NEW u \in Users, SettleOrder(u) PROVE Good
  <2> DEFINE p == order[u].lot
  <2>1. p \in Purchases /\ lot[p].owner = u /\ Unspent(p)
    BY <1>4 DEF SettleOrder, ReservedIsThere
  <2>2. /\ purchase' = purchase
        /\ order'[u].status # "RESERVED"
        /\ \A v \in Users \ {u} : order'[v] = order[v]
    BY <1>4, <1>a, <1>b DEF SettleOrder, OrderRow
  <2>3. \/ lot' = lot
        \/ lot' = [lot EXCEPT ![p].spent = TRUE]
    BY <1>4 DEF SettleOrder
  <2> HIDE DEF p
  <2>4. /\ \A q \in Purchases : q # p => lot'[q] = lot[q]
        /\ lot'[p].owner = u /\ lot'[p].granted /\ lot'[p].reversed = lot[p].reversed
    BY <2>1, <2>3, <1>a, <1>b DEF LotRow
  <2>5. LotsFollowPurchases'
    BY <2>1, <2>2, <2>4 DEF LotsFollowPurchases
  <2>6. \A v \in Users : order'[v].status = "RESERVED" => v # u /\ order[v].lot # p
    BY <2>1, <2>2 DEF ReservedIsThere
  <2>7. ReservedIsThere'
    BY <2>2, <2>4, <2>6 DEF ReservedIsThere
  <2> QED
    BY <2>5, <2>7
<1>5. ASSUME NEW p \in Purchases, Capture(p) PROVE Good
  <2>1. /\ order' = order
        /\ lot' = [lot EXCEPT ![p].granted = TRUE, ![p].owner = Buyer[p]]
        /\ purchase' = [purchase EXCEPT ![p].status = "PAID"]
        /\ purchase[p].status = "PENDING"
    BY <1>5 DEF Capture
  <2>2. ~lot[p].granted /\ ~lot[p].spent /\ ~lot[p].reversed
    BY <2>1 DEF LotsFollowPurchases
  <2>3. /\ \A q \in Purchases : q # p => lot'[q] = lot[q] /\ purchase'[q] = purchase[q]
        /\ lot'[p].granted /\ lot'[p].spent = lot[p].spent /\ lot'[p].reversed = lot[p].reversed
        /\ purchase'[p].status = "PAID"
    BY <2>1, <1>a, <1>b DEF LotRow, PurchaseRow
  <2>4. LotsFollowPurchases'
    BY <2>2, <2>3 DEF LotsFollowPurchases
  <2>5. \A v \in Users : order[v].status = "RESERVED" => order[v].lot # p
    BY <2>2 DEF ReservedIsThere
  <2>6. ReservedIsThere'
    <3>1. order' = order
      BY <2>1
    <3>2. ASSUME NEW v \in Users, order[v].status = "RESERVED"
          PROVE  /\ order[v].lot \in Purchases /\ lot'[order[v].lot].owner = v
                 /\ lot'[order[v].lot] = lot[order[v].lot] /\ Unspent(order[v].lot)
      BY <3>2, <2>3, <2>5 DEF ReservedIsThere
    <3> QED
      BY <3>1, <3>2 DEF ReservedIsThere
  <2> QED
    BY <2>4, <2>6
<1>6. ASSUME NEW p \in Purchases, Refund(p) PROVE Good
  <2>1. order' = order /\ purchase[p].status = "PAID"
    BY <1>6 DEF Refund
  <2>2. CASE LotFound(p) /\ TakeBack(p)
    <3>1. lot[p].granted /\ ~Held(p)
      BY <2>2 DEF LotFound
    <3>2. /\ \A q \in Purchases : q # p => lot'[q] = lot[q] /\ purchase'[q] = purchase[q]
          /\ lot'[p].granted = lot[p].granted /\ lot'[p].spent = lot[p].spent
          /\ purchase'[p].status = "REFUNDED"
      BY <2>2, <1>a, <1>b DEF TakeBack, LotRow, PurchaseRow
    <3>3. LotsFollowPurchases'
      BY <3>1, <3>2 DEF LotsFollowPurchases
    <3>4. \A v \in Users : order[v].status = "RESERVED" => order[v].lot # p
      BY <3>1 DEF Held
    <3>5. ReservedIsThere'
      BY <2>1, <3>2, <3>4 DEF ReservedIsThere
    <3> QED
      BY <3>3, <3>5
  <2>3. CASE lot' = lot /\ purchase' = [purchase EXCEPT ![p] = ReviewRefund(p)]
    <3>1. \A q \in Purchases : purchase'[q].status = purchase[q].status
      BY <2>3, <1>a, <1>b DEF ReviewRefund, PurchaseRow
    <3> QED
      BY <2>1, <2>3, <3>1 DEF LotsFollowPurchases, ReservedIsThere
  <2> QED
    BY <1>6, <2>2, <2>3 DEF Refund
<1>7. ASSUME NEW k \in Requests, NEW c \in Users, NEW r \in References, Merge(k, c, r)
      PROVE  Good
  <2> DEFINE l == Claimed(r)
  <2>1. purchase' = purchase /\ order' = order /\ lot' = MovesLots(c, l)
    BY <1>7 DEF Merge
  <2>2. order[l].status = "none"
    BY <1>7 DEF Merge, TriggersAllow
  <2> HIDE DEF l
  <2>3. \A p \in Purchases :
          /\ lot'[p].granted = lot[p].granted /\ lot'[p].spent = lot[p].spent
          /\ lot'[p].reversed = lot[p].reversed
          /\ lot[p].owner # l => lot'[p].owner = lot[p].owner
    BY <2>1, <1>b DEF MovesLots, LotRow
  <2>4. LotsFollowPurchases'
    BY <2>1, <2>3 DEF LotsFollowPurchases
  <2>5. ReservedIsThere'
    BY <2>1, <2>2, <2>3 DEF ReservedIsThere
  <2> QED
    BY <2>4, <2>5
<1> HIDE DEF Good
<1>8. Good
  BY <1>1, <1>2, <1>3, <1>4, <1>5, <1>6, <1>7, MoneySteps DEF Good
<1> QED
  BY <1>8 DEF Good

\* Sizes of sets of purchases.
LEMMA LotCounts ==
  ASSUME WellConfigured
  PROVE  /\ Cardinality({}) = 0
         /\ \A S \in SUBSET Purchases :
              /\ Cardinality(S) \in Nat
              /\ \A p \in Purchases \ S : Cardinality(S \cup {p}) = Cardinality(S) + 1
         /\ \A S, T \in SUBSET Purchases :
              S \cap T = {} => Cardinality(S \cup T) = Cardinality(S) + Cardinality(T)
<1>1. \A S \in SUBSET Purchases : IsFiniteSet(S)
  BY FS_Subset DEF WellConfigured
<1>2. Cardinality({}) = 0
  BY FS_EmptySet
<1>3. \A S \in SUBSET Purchases : Cardinality(S) \in Nat
  BY <1>1, FS_CardinalityType
<1>4. ASSUME NEW S \in SUBSET Purchases, NEW p \in Purchases \ S
      PROVE  Cardinality(S \cup {p}) = Cardinality(S) + 1
  BY <1>1, FS_AddElement
<1>5. ASSUME NEW S \in SUBSET Purchases, NEW T \in SUBSET Purchases, S \cap T = {}
      PROVE  Cardinality(S \cup T) = Cardinality(S) + Cardinality(T)
  <2>1. Cardinality(S \cup T) = Cardinality(S) + Cardinality(T) - Cardinality(S \cap T)
    BY <1>1, FS_Union
  <2>2. Cardinality(S \cap T) = 0
    BY <1>2, <1>5
  <2>3. Cardinality(S) \in Nat /\ Cardinality(T) \in Nat
    BY <1>3
  <2> QED
    BY <2>1, <2>2, <2>3
<1> QED
  BY <1>2, <1>3, <1>4, <1>5

\* The ledger of an account in terms of a table of lots.
LEMMA BalanceIsWorth ==
  /\ BalanceFollowsLots <=> ACTypeOK /\ \A u \in Users : balance[u] = Worth(lot, u)
  /\ BalanceFollowsLots' <=> ACTypeOK' /\ \A u \in Users : balance'[u] = Worth(lot', u)
<1>1. \A u \in Users :
        /\ {p \in Owned(u) : lot[p].granted} = GrantedTo(lot, u)
        /\ {p \in Owned(u) : lot[p].spent} = SpentBy(lot, u)
        /\ {p \in Owned(u) : lot[p].reversed} = TakenFrom(lot, u)
  BY DEF Owned, GrantedTo, SpentBy, TakenFrom
<1>2. \A u \in Users :
        /\ {p \in Owned(u)' : lot'[p].granted} = GrantedTo(lot', u)
        /\ {p \in Owned(u)' : lot'[p].spent} = SpentBy(lot', u)
        /\ {p \in Owned(u)' : lot'[p].reversed} = TakenFrom(lot', u)
  BY DEF Owned, GrantedTo, SpentBy, TakenFrom
<1>3. BalanceFollowsLots <=> ACTypeOK /\ \A u \in Users : balance[u] = Worth(lot, u)
  BY <1>1 DEF BalanceFollowsLots, Worth
<1>4. BalanceFollowsLots' <=> ACTypeOK' /\ \A u \in Users : balance'[u] = Worth(lot', u)
  BY <1>2 DEF BalanceFollowsLots, Worth
<1> QED
  BY <1>3, <1>4

\* Lots that count for nobody may change hands; a table that agrees on the others is worth
\* as much.
LEMMA SameWorth ==
  ASSUME NEW T, NEW S, NEW u,
         \A p \in Purchases :
           \/ T[p] = S[p]
           \/ S[p].owner # u /\ T[p].owner # u
           \/ /\ ~S[p].granted /\ ~S[p].spent /\ ~S[p].reversed
              /\ ~T[p].granted /\ ~T[p].spent /\ ~T[p].reversed
  PROVE  Worth(T, u) = Worth(S, u)
<1>1. GrantedTo(T, u) = GrantedTo(S, u)
  BY DEF GrantedTo
<1>2. SpentBy(T, u) = SpentBy(S, u)
  BY DEF SpentBy
<1>3. TakenFrom(T, u) = TakenFrom(S, u)
  BY DEF TakenFrom
<1> QED
  BY <1>1, <1>2, <1>3 DEF Worth

\* Each step changes a balance by what it does to the lots.
LEMMA BalanceKept ==
  ASSUME WellConfigured, BalanceFollowsLots, LotsFollowPurchases, ReservedIsThere,
         [ACNext]_ACvars
  PROVE  BalanceFollowsLots'
<1>a. ACTypeOK /\ \A u \in Users : balance[u] = Worth(lot, u)
  BY BalanceIsWorth
<1>b. ACTypeOK'
  BY <1>a, ClaimTypeInductive
<1> SUFFICES \A u \in Users : balance'[u] = Worth(lot', u)
  BY <1>b, BalanceIsWorth
<1> DEFINE Follows == \A u \in Users : balance'[u] = Worth(lot', u)
<1>c. /\ lot \in [Purchases -> LotRow] /\ balance \in [Users -> Int]
      /\ \A p \in Purchases : lot[p] \in LotRow /\ Buyer[p] \in Users
  BY <1>a, ClaimColumns DEF ACTypeOK
<1>d. \A table, u : /\ GrantedTo(table, u) \in SUBSET Purchases
                    /\ SpentBy(table, u) \in SUBSET Purchases
                    /\ TakenFrom(table, u) \in SUBSET Purchases
  BY DEF GrantedTo, SpentBy, TakenFrom
<1>e. \A table, u : /\ Cardinality(GrantedTo(table, u)) \in Nat
                    /\ Cardinality(SpentBy(table, u)) \in Nat
                    /\ Cardinality(TakenFrom(table, u)) \in Nat
  BY <1>d, LotCounts
<1>1. ASSUME lot' = lot, balance' = balance PROVE Follows
  BY <1>1, <1>a
<1>2. ASSUME NEW u \in Users, SettleOrder(u) PROVE Follows
  <2> DEFINE p == order[u].lot
  <2>1. p \in Purchases /\ lot[p].owner = u /\ Unspent(p)
    BY <1>2 DEF SettleOrder, ReservedIsThere
  <2>2. CASE lot' = [lot EXCEPT ![p].spent = TRUE] /\ balance' = [balance EXCEPT ![u] = @ - 1]
    <3> HIDE DEF p
    <3>1. /\ \A q \in Purchases : q # p => lot'[q] = lot[q]
          /\ lot'[p].owner = u /\ lot'[p].granted = lot[p].granted
          /\ lot'[p].reversed = lot[p].reversed /\ lot'[p].spent
      BY <2>1, <2>2, <1>c DEF LotRow
    <3>2. /\ GrantedTo(lot', u) = GrantedTo(lot, u)
          /\ TakenFrom(lot', u) = TakenFrom(lot, u)
          /\ SpentBy(lot', u) = SpentBy(lot, u) \cup {p}
          /\ p \notin SpentBy(lot, u)
      BY <2>1, <3>1 DEF GrantedTo, SpentBy, TakenFrom, Unspent
    <3>3. Cardinality(SpentBy(lot', u)) = Cardinality(SpentBy(lot, u)) + 1
      BY <2>1, <3>2, <1>d, LotCounts
    <3>4. Worth(lot', u) = Worth(lot, u) - 1
      BY <3>2, <3>3, <1>e DEF Worth
    <3>5. ASSUME NEW v \in Users, v # u PROVE Worth(lot', v) = Worth(lot, v)
      <4>1. \A q \in Purchases : lot'[q] = lot[q] \/ (lot[q].owner # v /\ lot'[q].owner # v)
        BY <2>1, <3>1, <3>5
      <4> QED
        BY <4>1, SameWorth
    <3> QED
      BY <2>2, <3>4, <3>5, <1>a, <1>c
  <2> QED
    BY <1>1, <1>2, <2>2 DEF SettleOrder
<1>3. ASSUME NEW p \in Purchases, Capture(p) PROVE Follows
  <2> DEFINE b == Buyer[p]
  <2>1. /\ lot' = [lot EXCEPT ![p].granted = TRUE, ![p].owner = b]
        /\ balance' = [balance EXCEPT ![b] = @ + 1]
    BY <1>3 DEF Capture
  <2>2. ~lot[p].granted /\ ~lot[p].spent /\ ~lot[p].reversed
    BY <1>3 DEF Capture, LotsFollowPurchases
  <2>3. b \in Users
    BY <1>c
  <2> HIDE DEF b
  <2>4. /\ \A q \in Purchases : q # p => lot'[q] = lot[q]
        /\ lot'[p].owner = b /\ lot'[p].granted
        /\ lot'[p].reversed = lot[p].reversed /\ lot'[p].spent = lot[p].spent
    BY <2>1, <2>3, <1>c DEF LotRow
  <2>5. /\ GrantedTo(lot', b) = GrantedTo(lot, b) \cup {p} /\ p \notin GrantedTo(lot, b)
        /\ SpentBy(lot', b) = SpentBy(lot, b)
        /\ TakenFrom(lot', b) = TakenFrom(lot, b)
    BY <2>2, <2>4 DEF GrantedTo, SpentBy, TakenFrom
  <2>6. Worth(lot', b) = Worth(lot, b) + 1
    <3>1. Cardinality(GrantedTo(lot', b)) = Cardinality(GrantedTo(lot, b)) + 1
      BY <2>5, <1>d, LotCounts
    <3> QED
      BY <2>5, <3>1, <1>e DEF Worth
  <2>7. \A v \in Users : v # b => Worth(lot', v) = Worth(lot, v)
    <3>1. ASSUME NEW v \in Users, v # b PROVE Worth(lot', v) = Worth(lot, v)
      <4>1. /\ GrantedTo(lot', v) = GrantedTo(lot, v)
            /\ SpentBy(lot', v) = SpentBy(lot, v)
            /\ TakenFrom(lot', v) = TakenFrom(lot, v)
        BY <2>2, <2>4, <3>1 DEF GrantedTo, SpentBy, TakenFrom
      <4> QED
        BY <4>1 DEF Worth
    <3> QED
      BY <3>1
  <2> QED
    BY <2>1, <2>3, <2>6, <2>7, <1>a, <1>c
<1>4. ASSUME NEW p \in Purchases, Refund(p) PROVE Follows
  <2> DEFINE b == Buyer[p]
  <2>1. CASE LotFound(p) /\ TakeBack(p)
    <3>1. /\ lot' = [lot EXCEPT ![p].reversed = TRUE]
          /\ balance' = [balance EXCEPT ![b] = @ - 1]
          /\ lot[p].owner = b
      BY <2>1 DEF LotFound, TakeBack
    <3>2. ~lot[p].reversed
      BY <1>4 DEF Refund, LotsFollowPurchases
    <3>3. b \in Users
      BY <1>c
    <3> HIDE DEF b
    <3>4. /\ \A q \in Purchases : q # p => lot'[q] = lot[q]
          /\ lot'[p].owner = b /\ lot'[p].reversed
          /\ lot'[p].granted = lot[p].granted /\ lot'[p].spent = lot[p].spent
      BY <3>1, <1>c DEF LotRow
    <3>5. /\ TakenFrom(lot', b) = TakenFrom(lot, b) \cup {p} /\ p \notin TakenFrom(lot, b)
          /\ SpentBy(lot', b) = SpentBy(lot, b)
          /\ GrantedTo(lot', b) = GrantedTo(lot, b)
      BY <3>1, <3>2, <3>4 DEF GrantedTo, SpentBy, TakenFrom
    <3>6. Worth(lot', b) = Worth(lot, b) - 1
      <4>1. Cardinality(TakenFrom(lot', b)) = Cardinality(TakenFrom(lot, b)) + 1
        BY <3>5, <1>d, LotCounts
      <4> QED
        BY <3>5, <4>1, <1>e DEF Worth
    <3>7. ASSUME NEW v \in Users, v # b PROVE Worth(lot', v) = Worth(lot, v)
      <4>1. \A q \in Purchases : lot'[q] = lot[q] \/ (lot[q].owner # v /\ lot'[q].owner # v)
        BY <3>1, <3>4, <3>7
      <4> QED
        BY <4>1, SameWorth
    <3> QED
      BY <3>1, <3>3, <3>6, <3>7, <1>a, <1>c
  <2> QED
    BY <1>1, <1>4, <2>1 DEF Refund
<1>5. ASSUME NEW k \in Requests, NEW c \in Users, NEW r \in References, Merge(k, c, r)
      PROVE  Follows
  <2> DEFINE l == Claimed(r)
  <2>1. /\ lot' = MovesLots(c, l)
        /\ balance' = [balance EXCEPT ![c] = @ + balance[l], ![l] = 0]
        /\ c # l
    BY <1>5 DEF Merge, Mergeable, GraphAllows
  <2>2. l \in Users
    BY <1>a, ClaimColumns
  <2> HIDE DEF l
  <2>3. \A p \in Purchases :
          /\ lot'[p].granted = lot[p].granted /\ lot'[p].spent = lot[p].spent
          /\ lot'[p].reversed = lot[p].reversed
          /\ lot'[p].owner = IF lot[p].owner = l THEN c ELSE lot[p].owner
    BY <2>1, <1>c DEF MovesLots, LotRow
  <2>4. /\ GrantedTo(lot', c) = GrantedTo(lot, c) \cup GrantedTo(lot, l)
        /\ SpentBy(lot', c) = SpentBy(lot, c) \cup SpentBy(lot, l)
        /\ TakenFrom(lot', c) = TakenFrom(lot, c) \cup TakenFrom(lot, l)
    BY <2>1, <2>3 DEF GrantedTo, SpentBy, TakenFrom
  <2>5. /\ GrantedTo(lot, c) \cap GrantedTo(lot, l) = {}
        /\ SpentBy(lot, c) \cap SpentBy(lot, l) = {}
        /\ TakenFrom(lot, c) \cap TakenFrom(lot, l) = {}
    BY <2>1 DEF GrantedTo, SpentBy, TakenFrom
  <2>6. Worth(lot', c) = Worth(lot, c) + Worth(lot, l)
    <3>1. Cardinality(GrantedTo(lot', c)) = Cardinality(GrantedTo(lot, c))
              + Cardinality(GrantedTo(lot, l))
      BY <2>4, <2>5, <1>d, LotCounts
    <3>2. Cardinality(SpentBy(lot', c)) = Cardinality(SpentBy(lot, c))
              + Cardinality(SpentBy(lot, l))
      BY <2>4, <2>5, <1>d, LotCounts
    <3>3. Cardinality(TakenFrom(lot', c)) = Cardinality(TakenFrom(lot, c))
              + Cardinality(TakenFrom(lot, l))
      BY <2>4, <2>5, <1>d, LotCounts
    <3> QED
      BY <3>1, <3>2, <3>3, <1>e DEF Worth
  <2>7. Worth(lot', l) = 0
    <3>1. GrantedTo(lot', l) = {} /\ SpentBy(lot', l) = {} /\ TakenFrom(lot', l) = {}
      BY <2>1, <2>3 DEF GrantedTo, SpentBy, TakenFrom
    <3> QED
      BY <3>1, LotCounts DEF Worth
  <2>8. \A v \in Users : v # c /\ v # l => Worth(lot', v) = Worth(lot, v)
    <3>1. ASSUME NEW v \in Users, v # c, v # l PROVE Worth(lot', v) = Worth(lot, v)
      <4>1. /\ GrantedTo(lot', v) = GrantedTo(lot, v)
            /\ SpentBy(lot', v) = SpentBy(lot, v)
            /\ TakenFrom(lot', v) = TakenFrom(lot, v)
        BY <2>3, <3>1 DEF GrantedTo, SpentBy, TakenFrom
      <4> QED
        BY <4>1 DEF Worth
    <3> QED
      BY <3>1
  <2>9. /\ balance'[c] = balance[c] + balance[l] /\ balance'[l] = 0
        /\ \A v \in Users : v # c /\ v # l => balance'[v] = balance[v]
    BY <2>1, <2>2, <1>c
  <2> QED
    BY <2>2, <2>6, <2>7, <2>8, <2>9, <1>a
<1>6. ASSUME NEW k \in Requests, NEW p \in Purchases, Checkout(k, p) PROVE Follows
  BY <1>1, <1>6 DEF Checkout
<1>7. ASSUME NEW k \in Requests, NEW u \in Users, NEW p \in Purchases, PlaceOrder(k, u, p)
      PROVE  Follows
  BY <1>1, <1>7 DEF PlaceOrder
<1> HIDE DEF Follows
<1>8. Follows
  BY <1>1, <1>2, <1>3, <1>4, <1>5, <1>6, <1>7, MoneySteps
<1> QED
  BY <1>8 DEF Follows

-----------------------------------------------------------------------------
(* The claims and the ledger                                                *)

\* Nothing has been claimed, granted or reserved.
LEMMA ClaimsInit ==
  ASSUME WellConfigured, ACInit
  PROVE  ClaimsInv
<1>1. ACTypeOK
  BY DEF WellConfigured, ACInit, ACTypeOK, UserRow, RequestRow,
     IdleRequest, PurchaseRow, LotRow, OrderRow, PictureRow,
     ProofRow
<1>2. \A u \in Users : balance[u] = Worth(lot, u)
  <2>1. \A u \in Users : /\ GrantedTo(lot, u) = {} /\ SpentBy(lot, u) = {} /\ TakenFrom(lot, u) = {}
                         /\ balance[u] = 0
    BY DEF ACInit, GrantedTo, SpentBy, TakenFrom
  <2>2. Cardinality({}) = 0
    BY LotCounts
  <2>3. \A u \in Users : Worth(lot, u) = 0
    BY <2>1, <2>2 DEF Worth
  <2> QED
    BY <2>1, <2>3
<1>3. BalanceFollowsLots
  BY <1>1, <1>2, BalanceIsWorth
<1>4. OneCanonical /\ IdentitiesLive /\ LotsFollowPurchases /\ ReservedIsThere
  BY DEF ACInit, OneCanonical, IdentitiesLive, LotsFollowPurchases, ReservedIsThere
<1> QED
  BY <1>3, <1>4 DEF ClaimsInv

\* No step leaves the invariant.
LEMMA ClaimsInductive ==
  ASSUME WellConfigured, ClaimsInv, [ACNext]_ACvars
  PROVE  ClaimsInv'
<1>1. ACTypeOK /\ OneCanonical /\ BalanceFollowsLots /\ IdentitiesLive
     /\ LotsFollowPurchases /\ ReservedIsThere
  BY DEF ClaimsInv, BalanceFollowsLots
<1> QED
  BY <1>1, OneCanonicalKept, BalanceKept, IdentitiesLiveKept, LotsKept DEF ClaimsInv

\* The invariant of claims and ledger holds of every state.
THEOREM ClaimsInvariant == ACSpec => []ClaimsInv
<1> SUFFICES ASSUME WellConfigured PROVE ACSpec => []ClaimsInv
  BY ClaimAssumption
<1>1. ACInit => ClaimsInv
  BY ClaimsInit
<1>2. ClaimsInv /\ [ACNext]_ACvars => ClaimsInv'
  BY ClaimsInductive
<1> QED
  BY <1>1, <1>2, PTL DEF ACSpec

\* Claims form a graph of depth one, nobody is claimed twice, and each claim has used up a
\* proof of its own that was issued to the claiming account (claim_legacy_account and
\* guard_user_account_merge), for any number of accounts, references and requests.
THEOREM ClaimsAreSettledOnce == ACSpec => []OneCanonical
<1> SUFFICES ASSUME WellConfigured PROVE ACSpec => []OneCanonical
  BY ClaimAssumption
<1>1. ClaimsInv => OneCanonical
  BY DEF ClaimsInv
<1> QED
  BY <1>1, ClaimsInvariant, PTL

\* An account's balance is what its lots are worth, whatever captures, orders, refunds and
\* claims have done to them and in whichever order (merge_credit_accounts,
\* reverse_root_grant, the settlement of reservations).
THEOREM LedgerFollowsTheLots == ACSpec => []BalanceFollowsLots
<1> SUFFICES ASSUME WellConfigured PROVE ACSpec => []BalanceFollowsLots
  BY ClaimAssumption
<1>1. ClaimsInv => BalanceFollowsLots
  BY DEF ClaimsInv
<1> QED
  BY <1>1, ClaimsInvariant, PTL

\* A claim is only ever made for an account that is still alive when it is committed,
\* although its status was read before: the identities that are read under the lock are
\* revoked by the very transaction that closes an account.
THEOREM OnlyTheLivingClaim == ACSpec => ClaimedByTheLiving
<1> SUFFICES ASSUME WellConfigured PROVE ACSpec => ClaimedByTheLiving
  BY ClaimAssumption
<1>1. ASSUME ClaimsInv, [ACNext]_ACvars
      PROVE  [\A m \in merges' \ merges : user[m.canonical].status = "active"]_ACvars
  <2>1. ASSUME NEW k \in Requests, NEW c \in Users, NEW r \in References, Merge(k, c, r)
        PROVE  \A m \in merges' \ merges : user[m.canonical].status = "active"
    <3>1. merges' = merges \cup {[legacy |-> Claimed(r), canonical |-> c, proof |-> r]}
      BY <2>1 DEF Merge
    <3>2. user[c].status = "active"
      BY <1>1, <2>1 DEF Merge, Mergeable, IdentitiesAllow, ClaimsInv,
         IdentitiesLive
    <3> QED
      BY <3>1, <3>2
  <2>2. CASE merges' = merges
    BY <2>2
  <2>3. ASSUME NEW k \in Requests, NEW c \in Users, NEW r \in References, Prove(k, c, r)
        PROVE  merges' = merges
    BY <2>3 DEF Prove
  <2>4. ASSUME NEW r \in References, ProofExpires(r) PROVE merges' = merges
    BY <2>4 DEF ProofExpires
  <2> QED
    BY <1>1, <2>1, <2>2, <2>3, <2>4, ClaimSteps DEF claimVars
<1> QED
  BY <1>1, ClaimsInvariant, PTL DEF ACSpec, ClaimedByTheLiving

-----------------------------------------------------------------------------
(* An account that is gone                                                  *)

\* Subscriptions.
LEMMA PlanSteps ==
  ASSUME [ACNext]_ACvars
  PROVE  \/ UNCHANGED plan
         \/ \E k \in Requests, c \in Users, r \in References : Merge(k, c, r)
         \/ \E k \in Requests, u \in Users : Subscribe(k, u)
         \/ \E u \in Users : PlanChanges(u)
<1> USE DEF accountVars, moneyVars, mediaVars, claimVars
<1>1. CASE UNCHANGED ACvars
  BY <1>1 DEF ACvars
<1>2. ASSUME NEW k \in Requests, Handle(k)
      PROVE  \/ UNCHANGED plan
             \/ \E c \in Users, r \in References : Merge(k, c, r)
             \/ \E u \in Users : Subscribe(k, u)
  BY <1>2 DEF Handle, Admit, Close, PlaceOrder, StageUpload,
     Prove, Checkout, ActivateUpload, AskDeletion, FindPictures,
     ClosureBreaksOff, ClosureAnswers, Die
<1>3. ASSUME NEW u \in Users,
             \/ FirstSignIn(u) \/ LoadIdentity(u) \/ IssueSession(u)
             \/ SignOut(u) \/ SettleOrder(u) \/ ClearMarker(u)
      PROVE  UNCHANGED plan
  BY <1>3 DEF FirstSignIn, LoadIdentity, IssueSession, SignOut,
     SettleOrder, ClearMarker
<1>4. ASSUME NEW p \in Purchases, Capture(p) \/ Refund(p) PROVE UNCHANGED plan
  BY <1>4 DEF Capture, Refund
<1>5. ASSUME NEW m \in Pictures, DeletePicture(m) PROVE UNCHANGED plan
  BY <1>5 DEF DeletePicture
<1>6. ASSUME NEW r \in References, ProofExpires(r) PROVE UNCHANGED plan
  BY <1>6 DEF ProofExpires
<1> QED
  BY <1>1, <1>2, <1>3, <1>4, <1>5, <1>6 DEF ACNext

\* Pictures.
LEMMA PictureSteps ==
  ASSUME [ACNext]_ACvars
  PROVE  \/ UNCHANGED picture
         \/ \E k \in Requests, c \in Users, r \in References : Merge(k, c, r)
         \/ \E k \in Requests, u \in Users, m \in Pictures : StageUpload(k, u, m)
         \/ \E k \in Requests, m \in Pictures :
             ActivateUpload(k, m) \/ AskDeletion(k, m)
         \/ \E m \in Pictures : DeletePicture(m)
<1> USE DEF accountVars, moneyVars, mediaVars, claimVars
<1>1. CASE UNCHANGED ACvars
  BY <1>1 DEF ACvars
<1>2. ASSUME NEW k \in Requests, Handle(k)
      PROVE  \/ UNCHANGED picture
             \/ \E c \in Users, r \in References : Merge(k, c, r)
             \/ \E u \in Users, m \in Pictures : StageUpload(k, u, m)
             \/ \E m \in Pictures : ActivateUpload(k, m) \/ AskDeletion(k, m)
  BY <1>2 DEF Handle, Admit, Subscribe, Close, PlaceOrder,
     Prove, Checkout, FindPictures, ClosureBreaksOff,
     ClosureAnswers, Die
<1>3. ASSUME NEW u \in Users,
             \/ FirstSignIn(u) \/ LoadIdentity(u) \/ IssueSession(u)
             \/ SignOut(u) \/ SettleOrder(u) \/ PlanChanges(u)
             \/ ClearMarker(u)
      PROVE  UNCHANGED picture
  BY <1>3 DEF FirstSignIn, LoadIdentity, IssueSession, SignOut,
     SettleOrder, PlanChanges, ClearMarker
<1>4. ASSUME NEW p \in Purchases, Capture(p) \/ Refund(p) PROVE UNCHANGED picture
  BY <1>4 DEF Capture, Refund
<1>6. ASSUME NEW r \in References, ProofExpires(r) PROVE UNCHANGED picture
  BY <1>6 DEF ProofExpires
<1> QED
  BY <1>1, <1>2, <1>3, <1>4, <1>6 DEF ACNext

\* What a claim does to the rows of the two users: the claiming one is alive, and the
\* claimed one, which has not been claimed before, is merged.
LEMMA MergedRows ==
  ASSUME WellConfigured, ClaimsInv,
         NEW k \in Requests, NEW c \in Users, NEW r \in References, Merge(k, c, r)
  PROVE  /\ c # Claimed(r) /\ Claimed(r) \in Users /\ user[c].status = "active"
         /\ user'[Claimed(r)].status = "merged"
         /\ \A u \in Users : u # Claimed(r) => user'[u] = user[u]
<1> DEFINE l == Claimed(r)
<1>1. ACTypeOK /\ IdentitiesLive
  BY DEF ClaimsInv, BalanceFollowsLots
<1>2. l \in Users
  BY <1>1, ClaimColumns
<1>3. /\ c # l /\ user[c].identity = "active"
      /\ user' = [user EXCEPT ![l].status = "merged", ![l].session = FALSE]
  BY DEF Merge, Mergeable, GraphAllows, IdentitiesAllow
<1>4. user[c].status = "active"
  BY <1>1, <1>3 DEF IdentitiesLive
<1>5. user \in [Users -> UserRow] /\ user[l] \in UserRow
  BY <1>1, <1>2 DEF ACTypeOK
<1> HIDE DEF l
<1>6. user'[l].status = "merged" /\ \A u \in Users : u # l => user'[u] = user[u]
  BY <1>2, <1>3, <1>5 DEF UserRow
<1> QED
  BY <1>2, <1>3, <1>4, <1>6 DEF l

\* How an account gets to be gone: by a claim, or by the loss of its marker.
LEMMA GoneBefore ==
  ASSUME WellConfigured, ClaimsInv, GoneIsQuiet, [ACNext]_ACvars, NEW u \in Users
  PROVE  /\ user'[u].status = "merged" =>
              \/ user[u].status = "merged"
              \/ \E k \in Requests, c \in Users, r \in References :
                  Merge(k, c, r) /\ Claimed(r) = u
         /\ user'[u].status = "closed" /\ u \notin cleanup' =>
              \/ user[u].status = "closed" /\ u \notin cleanup
              \/ user[u].status = "closed" /\ ClearMarker(u)
<1> DEFINE Claim == \E k \in Requests, c \in Users, r \in References : Merge(k, c, r)
        /\ Claimed(r) = u
           Known == /\ user'[u].status = "merged" => user[u].status = "merged" \/ Claim
                    /\ user'[u].status = "closed" /\ u \notin cleanup' =>
                         \/ user[u].status = "closed" /\ u \notin cleanup
                         \/ user[u].status = "closed" /\ ClearMarker(u)
<1>a. ACTypeOK /\ user \in [Users -> UserRow]
     /\ \A v \in Users : user[v] \in UserRow
  BY DEF ClaimsInv, BalanceFollowsLots, ACTypeOK
<1>1. ASSUME UNCHANGED <<user, cleanup>> PROVE Known
  BY <1>1
<1>2. ASSUME NEW k \in Requests, NEW v \in Users, Admit(k, v) PROVE Known
  BY <1>2 DEF Admit, mediaVars
<1>3. ASSUME NEW k \in Requests, NEW v \in Users, Close(k, v) PROVE Known
  <2>1. user' = [user EXCEPT ![v] = [status |-> "closed", identity |-> "revoked",
            session |-> FALSE]]
    BY <1>3 DEF Close, SetUser
  <2>2. cleanup' = cleanup \cup {v}
    BY <1>3 DEF Close
  <2>3. CASE u = v
    BY <2>1, <2>2, <2>3, <1>a
  <2>4. CASE u # v
    BY <2>1, <2>2, <2>4, <1>a
  <2> QED
    BY <2>3, <2>4
<1>4. ASSUME NEW k \in Requests, NEW c \in Users, NEW r \in References, Merge(k, c, r)
      PROVE  Known
  <2>1. cleanup' = cleanup
    BY <1>4 DEF Merge
  <2>2. CASE Claimed(r) = u
    <3>1. user'[u].status = "merged"
      BY <1>4, <2>2, MergedRows
    <3> QED
      BY <1>4, <2>2, <3>1
  <2>3. CASE Claimed(r) # u
    <3>1. user'[u] = user[u]
      BY <1>4, <2>3, MergedRows
    <3> QED
      BY <2>1, <3>1
  <2> QED
    BY <2>2, <2>3
<1>5. ASSUME NEW v \in Users, FirstSignIn(v) PROVE Known
  <2>1. user' = [user EXCEPT ![v] = [status |-> "active", identity |-> "active", session |-> TRUE]]
    BY <1>5 DEF FirstSignIn, SetUser
  <2>2. cleanup' = cleanup
    BY <1>5 DEF FirstSignIn, mediaVars
  <2> QED
    BY <2>1, <2>2, <1>a
<1>6. ASSUME NEW v \in Users, IssueSession(v) \/ SignOut(v) PROVE Known
  <2>1. user'[u].status = user[u].status
    BY <1>6, <1>a DEF IssueSession, SignOut, UserRow
  <2>2. cleanup' = cleanup
    BY <1>6 DEF IssueSession, SignOut, mediaVars
  <2> QED
    BY <2>1, <2>2
<1>7. ASSUME NEW v \in Users, ClearMarker(v) PROVE Known
  <2>1. user' = user /\ cleanup' = cleanup \ {v}
    BY <1>7 DEF ClearMarker, accountVars
  <2>2. CASE u = v
    BY <1>7, <2>1, <2>2
  <2>3. CASE u # v
    BY <2>1, <2>3
  <2> QED
    BY <2>2, <2>3
<1> HIDE DEF Known
<1>8. Known
  BY <1>1, <1>2, <1>3, <1>4, <1>5, <1>6, <1>7, <1>a, AccountSteps
<1> QED
  BY <1>8 DEF Known

\* Nobody is admitted for an account that is gone, and it goes when no call is left.
LEMMA QuietKept ==
  ASSUME WellConfigured, CallsAreShort, ClaimsInv, GoneIsQuiet, [ACNext]_ACvars
  PROVE  GoneIsQuiet'
<1>a. /\ ACTypeOK /\ request \in [Requests -> RequestRow] /\ Nobody \notin Users
  BY DEF ClaimsInv, BalanceFollowsLots, ACTypeOK, WellConfigured
<1> SUFFICES ASSUME NEW u \in Users, NEW j \in Requests,
                    user'[u].status = "merged" \/ (user'[u].status = "closed" /\ u \notin cleanup')
             PROVE  request'[j].user # u
  BY DEF GoneIsQuiet
<1>b. CASE \/ user[u].status = "merged"
           \/ user[u].status = "closed" /\ u \notin cleanup
  <2>1. request[j].user # u
    BY <1>b DEF GoneIsQuiet
  <2>2. CASE request'[j].user \in {request[j].user, Nobody}
    BY <2>1, <2>2, <1>a
  <2>3. ASSUME NEW k \in Requests, NEW v \in Users, Admit(k, v) PROVE request'[j].user # u
    <3>1. v # u
      BY <1>b, <2>3 DEF Admit
    <3>2. request' = [request EXCEPT ![k] = [IdleRequest EXCEPT !.at = "admitted", !.user = v]]
      BY <2>3 DEF Admit
    <3> QED
      BY <2>1, <3>1, <3>2, <1>a DEF IdleRequest
  <2>4. ASSUME NEW k \in Requests, NEW v \in Users, Close(k, v) PROVE request'[j].user # u
    BY <2>1, <2>4, <1>a DEF Close, RequestRow
  <2>5. ASSUME NEW k \in Requests, NEW c \in Users, NEW r \in References, Merge(k, c, r)
        PROVE  request'[j].user # u
    BY <2>1, <2>5, <1>a DEF Merge, Answered, IdleRequest
  <2>6. ASSUME NEW v \in Users,
               FirstSignIn(v) \/ IssueSession(v) \/ SignOut(v)
               \/ ClearMarker(v)
        PROVE  request'[j].user # u
    BY <2>1, <2>6 DEF FirstSignIn, IssueSession, SignOut, ClearMarker,
       accountVars
  <2> QED
    BY <2>2, <2>3, <2>4, <2>5, <2>6, <1>a, AccountSteps
<1>c. ASSUME ClearMarker(u) PROVE request'[j].user # u
  BY <1>c DEF ClearMarker, Quiet, accountVars
<1>d. ASSUME NEW k \in Requests, NEW c \in Users, NEW r \in References, Merge(k, c, r),
             Claimed(r) = u
      PROVE  request'[j].user # u
  <2>1. request[j].user # u /\ Answered(k)
    BY <1>d DEF Merge, Quiet
  <2> QED
    BY <2>1, <1>a DEF Answered, IdleRequest
<1> QED
  BY <1>b, <1>c, <1>d, GoneBefore

\* A claim finds no open checkout, and afterwards none can be made.
LEMMA ClaimedKept ==
  ASSUME WellConfigured, ClaimsInv, GoneIsQuiet, GoneIsClaimed, [ACNext]_ACvars
  PROVE  GoneIsClaimed'
<1>a. /\ ACTypeOK /\ purchase \in [Purchases -> PurchaseRow]
      /\ \A p \in Purchases : purchase[p] \in PurchaseRow
  BY DEF ClaimsInv, BalanceFollowsLots, ACTypeOK
<1>b. merges \subseteq merges'
  <2>1. ASSUME NEW k \in Requests, NEW c \in Users, NEW r \in References, Prove(k, c,
               r) \/ Merge(k, c, r)
        PROVE  merges \subseteq merges'
    BY <2>1 DEF Prove, Merge
  <2>2. ASSUME NEW r \in References, ProofExpires(r) PROVE merges \subseteq merges'
    BY <2>2 DEF ProofExpires
  <2>3. CASE UNCHANGED claimVars
    BY <2>3 DEF claimVars
  <2> QED
    BY <2>1, <2>2, <2>3, ClaimSteps
<1> SUFFICES ASSUME NEW u \in Users, user'[u].status = "merged"
             PROVE  /\ \E m \in merges' : m.legacy = u
                    /\ \A p \in Purchases : Buyer[p] = u => purchase'[p].status # "PENDING"
  BY DEF GoneIsClaimed
<1>1. CASE user[u].status = "merged"
  <2>1. \E m \in merges' : m.legacy = u
    BY <1>1, <1>b DEF GoneIsClaimed
  <2> DEFINE None == \A p \in Purchases : Buyer[p] = u => purchase'[p].status # "PENDING"
  <2>2. \A p \in Purchases : Buyer[p] = u => purchase[p].status # "PENDING"
    BY <1>1 DEF GoneIsClaimed
  <2>3. ASSUME purchase' = purchase PROVE None
    BY <2>2, <2>3
  <2>4. ASSUME NEW k \in Requests, NEW p \in Purchases, Checkout(k, p) PROVE None
    <3>1. Buyer[p] # u
      BY <1>1, <2>4 DEF Checkout, Serves, GoneIsQuiet
    <3>2. purchase' = [purchase EXCEPT ![p].status = "PENDING"]
      BY <2>4 DEF Checkout
    <3> QED
      BY <2>2, <3>1, <3>2, <1>a
  <2>5. ASSUME NEW p \in Purchases, Capture(p) \/ Refund(p) PROVE None
    <3>1. \A q \in Purchases : purchase'[q].status \in {purchase[q].status, "PAID", "REFUNDED"}
      BY <2>5, <1>a DEF Capture, Refund, TakeBack, ReviewRefund,
         PurchaseRow
    <3> QED
      BY <2>2, <3>1
  <2>6. ASSUME NEW k \in Requests, NEW c \in Users, NEW r \in References, Merge(k, c, r)
        PROVE  None
    BY <2>3, <2>6 DEF Merge
  <2>7. ASSUME NEW k \in Requests, NEW v \in Users, NEW p \in Purchases, PlaceOrder(k, v, p)
        PROVE  None
    BY <2>3, <2>7 DEF PlaceOrder
  <2>8. ASSUME NEW v \in Users, SettleOrder(v) PROVE None
    BY <2>3, <2>8 DEF SettleOrder
  <2> HIDE DEF None
  <2>9. None
    BY <2>3, <2>4, <2>5, <2>6, <2>7, <2>8, MoneySteps
  <2> QED
    BY <2>1, <2>9 DEF None
<1>2. ASSUME NEW k \in Requests, NEW c \in Users, NEW r \in References, Merge(k, c, r),
             Claimed(r) = u
      PROVE  /\ \E m \in merges' : m.legacy = u
             /\ \A p \in Purchases : Buyer[p] = u => purchase'[p].status # "PENDING"
  <2>1. merges' = merges \cup {[legacy |-> u, canonical |-> c, proof |-> r]}
    BY <1>2 DEF Merge
  <2>2. purchase' = purchase /\ \A p \in Purchases : Buyer[p] = u => purchase[p].status # "PENDING"
    BY <1>2 DEF Merge, Mergeable, MoneySettled
  <2> DEFINE new == [legacy |-> u, canonical |-> c, proof |-> r]
  <2>3. new \in merges' /\ new.legacy = u
    BY <2>1
  <2> HIDE DEF new
  <2>4. \E m \in merges' : m.legacy = u
    BY <2>3
  <2> QED
    BY <2>2, <2>4
<1> QED
  BY <1>1, <1>2, GoneBefore

\* The pictures of an account that is gone only become fewer: none is staged for it or
\* moved to it.
LEMMA PicturesKept ==
  ASSUME WellConfigured, ClaimsInv, GoneIsQuiet, [ACNext]_ACvars,
         NEW u \in Users,
         user[u].status = "merged" \/ (user[u].status = "closed" /\ u \notin cleanup),
         PicturesOf(u) = {}
  PROVE  PicturesOf(u)' = {}
<1>a. /\ ACTypeOK /\ picture \in [Pictures -> PictureRow]
      /\ \A m \in Pictures : picture[m] \in PictureRow
  BY DEF ClaimsInv, BalanceFollowsLots, ACTypeOK
<1>b. \A k \in Requests : ~Serves(k, u)
  BY DEF GoneIsQuiet, Serves
<1>c. \A m \in Pictures : picture[m].owner = u => picture[m].status = "DELETED"
  BY DEF PicturesOf
<1> DEFINE Clear == \A m \in Pictures : picture'[m].owner = u => picture'[m].status = "DELETED"
<1>1. ASSUME UNCHANGED picture PROVE Clear
  BY <1>1, <1>c
<1>2. ASSUME NEW k \in Requests, NEW c \in Users, NEW r \in References, Merge(k, c, r)
      PROVE  Clear
  <2>1. c # u
    BY <1>2, <1>b DEF Merge
  <2>2. picture' = MovesPictures(c, Claimed(r))
    BY <1>2 DEF Merge
  <2> HIDE DEF Claimed
  <2>3. \A m \in Pictures :
            picture'[m].owner \in {picture[m].owner, c} /\ picture'[m].status = picture[m].status
    BY <2>2, <1>a DEF MovesPictures, PictureRow
  <2> QED
    BY <2>1, <2>3, <1>c
<1>3. ASSUME NEW k \in Requests, NEW v \in Users, NEW m \in Pictures, StageUpload(k, v, m)
      PROVE  Clear
  <2>1. v # u /\ picture' = [picture EXCEPT ![m] = [owner |-> v, status |-> "PENDING_UPLOAD"]]
    BY <1>3, <1>b DEF StageUpload
  <2> QED
    BY <2>1, <1>a, <1>c
<1>4. ASSUME NEW k \in Requests, NEW m \in Pictures,
             ActivateUpload(k, m) \/ AskDeletion(k, m)
      PROVE  Clear
  <2>1. CASE ActivateUpload(k, m)
    <3>1. picture[m].owner # u
      BY <2>1, <1>b DEF ActivateUpload
    <3>2. picture' = [picture EXCEPT ![m].status = "ACTIVE"]
      BY <2>1 DEF ActivateUpload
    <3> QED
      BY <3>1, <3>2, <1>a, <1>c DEF PictureRow
  <2>2. CASE AskDeletion(k, m)
    <3>1. picture' = [picture EXCEPT ![m].status =
                        IF picture[m].status = "DELETED" THEN picture[m].status
                        ELSE "PENDING_DELETE"]
      BY <2>2 DEF AskDeletion
    <3> QED
      BY <3>1, <1>a, <1>c DEF PictureRow
  <2> QED
    BY <1>4, <2>1, <2>2
<1>5. ASSUME NEW m \in Pictures, DeletePicture(m) PROVE Clear
  BY <1>5, <1>a, <1>c DEF DeletePicture, PictureRow
<1> HIDE DEF Clear
<1>6. Clear
  BY <1>1, <1>2, <1>3, <1>4, <1>5, PictureSteps
<1> QED
  BY <1>6 DEF Clear, PicturesOf

\* A claimed account stays without a plan.
LEMMA PlanKept ==
  ASSUME WellConfigured, ClaimsInv, GoneIsQuiet, [ACNext]_ACvars,
         NEW u \in Users,
         user[u].status = "merged", plan[u] = "none"
  PROVE  plan'[u] = "none"
<1>a. plan \in [Users -> {"none", "PENDING", "ACTIVE"}]
  BY DEF ClaimsInv, BalanceFollowsLots, ACTypeOK
<1>1. ASSUME NEW k \in Requests, NEW c \in Users, NEW r \in References, Merge(k, c, r)
      PROVE  plan'[u] = "none"
  <2>1. c # u
    BY <1>1, MergedRows
  <2> DEFINE l == Claimed(r)
  <2>2. plan' = IF plan[l] = "ACTIVE" THEN [plan EXCEPT ![c] = "ACTIVE", ![l] = "none"] ELSE plan
    BY <1>1 DEF Merge
  <2> HIDE DEF l
  <2> QED
    BY <2>1, <2>2, <1>a
<1>2. ASSUME NEW k \in Requests, NEW v \in Users, Subscribe(k, v) PROVE plan'[u] = "none"
  BY <1>2, <1>a DEF Subscribe, Serves, GoneIsQuiet
<1>3. ASSUME NEW v \in Users, PlanChanges(v) PROVE plan'[u] = "none"
  BY <1>3, <1>a DEF PlanChanges
<1> QED
  BY <1>1, <1>2, <1>3, PlanSteps

\* A claimed account keeps no credit: none of its purchases can be captured or taken back
\* any more, and no order of it is open.
LEMMA NoMoneyKept ==
  ASSUME WellConfigured, ClaimsInv, GoneIsQuiet, GoneIsClaimed,
         [ACNext]_ACvars, NEW u \in Users,
         user[u].status = "merged", balance[u] = 0, order[u].status = "none",
         \A p \in Purchases : lot[p].owner = u => ~lot[p].granted
  PROVE  /\ balance'[u] = 0 /\ order'[u].status = "none"
         /\ \A p \in Purchases : lot'[p].owner = u => ~lot'[p].granted
<1> DEFINE Clear == /\ balance'[u] = 0 /\ order'[u].status = "none"
                    /\ \A p \in Purchases : lot'[p].owner = u => ~lot'[p].granted
<1>a. /\ ACTypeOK /\ lot \in [Purchases -> LotRow] /\ balance \in [Users -> Int]
      /\ order \in [Users -> OrderRow]
      /\ \A p \in Purchases : lot[p] \in LotRow
      /\ ReservedIsThere
  BY DEF ClaimsInv, BalanceFollowsLots, ACTypeOK
<1>b. \A k \in Requests : ~Serves(k, u)
  BY DEF GoneIsQuiet, Serves
<1>c. \A p \in Purchases : Buyer[p] = u => purchase[p].status # "PENDING"
  BY DEF GoneIsClaimed
<1>1. ASSUME lot' = lot, balance' = balance, order' = order PROVE Clear
  BY <1>1
<1>2. ASSUME NEW k \in Requests, NEW c \in Users, NEW r \in References, Merge(k, c, r)
      PROVE  Clear
  <2> DEFINE l == Claimed(r)
  <2>1. c # u
    BY <1>2, MergedRows
  <2>2. /\ order' = order /\ lot' = MovesLots(c, l)
        /\ balance' = [balance EXCEPT ![c] = @ + balance[l], ![l] = 0]
    BY <1>2 DEF Merge
  <2> HIDE DEF l
  <2>3. balance'[u] = 0
    BY <2>1, <2>2, <1>a
  <2>4. \A p \in Purchases : lot'[p].owner \in {lot[p].owner, c} /\ lot'[p].granted = lot[p].granted
    BY <2>2, <1>a DEF MovesLots, LotRow
  <2> QED
    BY <2>1, <2>2, <2>3, <2>4
<1>3. ASSUME NEW k \in Requests, NEW p \in Purchases, Checkout(k, p) PROVE Clear
  BY <1>1, <1>3 DEF Checkout
<1>4. ASSUME NEW k \in Requests, NEW v \in Users, NEW p \in Purchases, PlaceOrder(k, v, p)
      PROVE  Clear
  <2>1. v # u /\ lot' = lot /\ balance' = balance
    BY <1>4, <1>b DEF PlaceOrder
  <2>2. order' = [order EXCEPT ![v] = [status |-> "RESERVED", lot |-> p]]
    BY <1>4 DEF PlaceOrder
  <2> QED
    BY <2>1, <2>2, <1>a
<1>5. ASSUME NEW v \in Users, SettleOrder(v) PROVE Clear
  <2> DEFINE p == order[v].lot
  <2>1. v # u /\ p \in Purchases
    BY <1>5, <1>a DEF SettleOrder, ReservedIsThere
  <2>2. /\ order'[u] = order[u]
        /\ balance' = balance \/ balance' = [balance EXCEPT ![v] = @ - 1]
        /\ lot' = lot \/ lot' = [lot EXCEPT ![p].spent = TRUE]
    BY <1>5, <2>1, <1>a DEF SettleOrder
  <2> HIDE DEF p
  <2>3. balance'[u] = balance[u]
    BY <2>1, <2>2, <1>a
  <2>4. \A q \in Purchases : lot'[q].owner = lot[q].owner /\ lot'[q].granted = lot[q].granted
    BY <2>1, <2>2, <1>a DEF LotRow
  <2> QED
    BY <2>2, <2>3, <2>4
<1>6. ASSUME NEW p \in Purchases, Capture(p) PROVE Clear
  <2> DEFINE b == Buyer[p]
  <2>1. /\ order' = order /\ b # u
        /\ balance' = [balance EXCEPT ![b] = @ + 1]
        /\ lot' = [lot EXCEPT ![p].granted = TRUE, ![p].owner = b]
    BY <1>6, <1>c DEF Capture
  <2> HIDE DEF b
  <2>2. balance'[u] = balance[u]
    BY <2>1, <1>a
  <2>3. \A q \in Purchases : IF q = p THEN lot'[q].owner = b ELSE lot'[q] = lot[q]
    BY <2>1, <1>a DEF LotRow
  <2> QED
    BY <2>1, <2>2, <2>3
<1>7. ASSUME NEW p \in Purchases, Refund(p) PROVE Clear
  <2>1. order' = order
    BY <1>7 DEF Refund
  <2>2. CASE LotFound(p) /\ TakeBack(p)
    <3> DEFINE b == Buyer[p]
    <3>1. /\ b # u
          /\ balance' = [balance EXCEPT ![b] = @ - 1]
          /\ lot' = [lot EXCEPT ![p].reversed = TRUE]
      BY <2>2 DEF LotFound, TakeBack
    <3> HIDE DEF b
    <3>2. balance'[u] = balance[u]
      BY <3>1, <1>a
    <3>3. \A q \in Purchases : lot'[q].owner = lot[q].owner /\ lot'[q].granted = lot[q].granted
      BY <3>1, <1>a DEF LotRow
    <3> QED
      BY <2>1, <3>2, <3>3
  <2> QED
    BY <1>1, <1>7, <2>1, <2>2 DEF Refund
<1> HIDE DEF Clear
<1>8. Clear
  BY <1>1, <1>2, <1>3, <1>4, <1>5, <1>6, <1>7, MoneySteps
<1> QED
  BY <1>8 DEF Clear

\* A claim takes everything there is: the credits, the plan and the pictures, and an
\* account with an order cannot be claimed at all.
LEMMA ClaimTakesAll ==
  ASSUME WellConfigured, ClaimsInv,
         NEW k \in Requests, NEW c \in Users, NEW r \in References, Merge(k, c, r),
         NEW u \in Users, u = Claimed(r)
  PROVE  /\ balance'[u] = 0 /\ order'[u].status = "none" /\ plan'[u] = "none"
         /\ \A p \in Purchases : lot'[p].owner # u
         /\ PicturesOf(u)' = {}
<1>a. /\ lot \in [Purchases -> LotRow] /\ balance \in [Users -> Int]
      /\ plan \in [Users -> {"none", "PENDING", "ACTIVE"}]
      /\ picture \in [Pictures -> PictureRow]
      /\ \A p \in Purchases : lot[p] \in LotRow
      /\ \A m \in Pictures : picture[m] \in PictureRow
  BY DEF ClaimsInv, BalanceFollowsLots, ACTypeOK
<1>1. /\ balance' = [balance EXCEPT ![c] = @ + balance[u], ![u] = 0]
      /\ lot' = MovesLots(c, u) /\ picture' = MovesPictures(c, u)
      /\ plan' = IF plan[u] = "ACTIVE" THEN [plan EXCEPT ![c] = "ACTIVE", ![u] = "none"] ELSE plan
      /\ order' = order /\ order[u].status = "none"
      /\ c # u /\ plan[u] # "PENDING"
  BY DEF Merge, Mergeable, GraphAllows, MoneySettled,
     TriggersAllow
<1>2. balance'[u] = 0 /\ plan'[u] = "none"
  BY <1>1, <1>a
<1>3. \A p \in Purchases : lot'[p].owner # u
  BY <1>1, <1>a DEF MovesLots, LotRow
<1>4. \A m \in Pictures : picture'[m].owner # u
  BY <1>1, <1>a DEF MovesPictures, PictureRow
<1> QED
  BY <1>1, <1>2, <1>3, <1>4 DEF PicturesOf

\* No account is claimed or closed.
LEMMA GoneInit ==
  ASSUME WellConfigured, ACInit
  PROVE  GoneInv
  BY DEF ACInit, GoneInv, GoneIsEmpty, GoneIsQuiet, GoneIsClaimed

\* An account that is gone stays as empty as the claim or the clean-up left it.
LEMMA GoneInductive ==
  ASSUME WellConfigured, CallsAreShort, ClaimsInv, GoneInv, [ACNext]_ACvars
  PROVE  GoneInv'
<1>a. GoneIsQuiet /\ GoneIsClaimed /\ GoneIsEmpty
  BY DEF GoneInv
<1>1. GoneIsQuiet' /\ GoneIsClaimed'
  BY <1>a, QuietKept, ClaimedKept
<1>2. ASSUME NEW u \in Users, user'[u].status = "merged"
      PROVE  /\ balance'[u] = 0 /\ \A p \in Purchases : lot'[p].owner = u => ~lot'[p].granted
             /\ plan'[u] = "none" /\ PicturesOf(u)' = {} /\ order'[u].status = "none"
  <2>1. CASE user[u].status = "merged"
    <3>1. /\ balance[u] = 0 /\ \A p \in Purchases : lot[p].owner = u => ~lot[p].granted
          /\ plan[u] = "none" /\ PicturesOf(u) = {} /\ order[u].status = "none"
      BY <2>1, <1>a DEF GoneIsEmpty
    <3> QED
      BY <2>1, <3>1, <1>a, NoMoneyKept, PlanKept, PicturesKept
  <2>2. ASSUME NEW k \in Requests, NEW c \in Users, NEW r \in References, Merge(k, c, r),
               Claimed(r) = u
        PROVE  /\ balance'[u] = 0 /\ \A p \in Purchases : lot'[p].owner = u => ~lot'[p].granted
               /\ plan'[u] = "none" /\ PicturesOf(u)' = {} /\ order'[u].status = "none"
    BY <2>2, ClaimTakesAll
  <2> QED
    BY <1>2, <2>1, <2>2, <1>a, GoneBefore
<1>3. ASSUME NEW u \in Users, user'[u].status = "closed", u \notin cleanup'
      PROVE  PicturesOf(u)' = {}
  <2>1. CASE user[u].status = "closed" /\ u \notin cleanup
    BY <2>1, <1>a, PicturesKept DEF GoneIsEmpty
  <2>2. CASE ClearMarker(u)
    <3>1. picture' = picture /\ PicturesOf(u) = {}
      BY <2>2 DEF ClearMarker, NothingLeft
    <3> QED
      BY <3>1 DEF PicturesOf
  <2> QED
    BY <1>3, <2>1, <2>2, <1>a, GoneBefore
<1>4. GoneIsEmpty'
  BY <1>2, <1>3 DEF GoneIsEmpty
<1> QED
  BY <1>1, <1>4 DEF GoneInv

\* A claimed account keeps nothing that can be spent, seen or renewed, and a closed one
\* loses its marker only after its last picture, provided that a call ends within the
\* minutes a claim or a clean-up waits (claim_legacy_account,
\* reconcile_account_media_cleanup).
THEOREM GoneStaysEmpty == CallsAreShort => (ACSpec => []GoneIsEmpty)
<1> SUFFICES ASSUME WellConfigured, CallsAreShort PROVE ACSpec => []GoneIsEmpty
  BY ClaimAssumption
<1>1. ACInit => GoneInv
  BY GoneInit
<1>2. ClaimsInv /\ GoneInv /\ [ACNext]_ACvars => GoneInv'
  BY GoneInductive
<1>3. GoneInv => GoneIsEmpty
  BY DEF GoneInv
<1> QED
  BY <1>1, <1>2, <1>3, ClaimsInvariant, PTL DEF ACSpec

=============================================================================
