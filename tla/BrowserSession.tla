--------------------------- MODULE BrowserSession ---------------------------
(***************************************************************************)
(* One signed-in browser: the session family in the database               *)
(* (auth_session_service, session_auth) and the calls its pages make       *)
(* (services/http.ts, services/auth.ts), which share one cookie jar.  A    *)
(* call that is answered 401 refreshes the session and is sent once more;  *)
(* each answer may be overtaken by others or lost.                         *)
(*                                                                         *)
(* Secrets are numbered by the generation that issued them; 0 is a cookie  *)
(* the browser does not have.                                              *)
(***************************************************************************)
EXTENDS Naturals, Sequences

CONSTANTS Calls  \* calls of the pages, each made once

VARIABLES
  session,  \* auth_sessions: the row of the family; over: its 30 days have passed
  token,    \* auth_refresh_tokens: the status of each generation
  stale,    \* the token versions whose access JWTs have run out
  jar,      \* the cookies of the browser
  call      \* the calls

vars == <<session, token, stale, jar, call>>

Jar == [access : Nat, refresh : Nat, csrf : Nat]

Empty == [access |-> 0, refresh |-> 0, csrf |-> 0]

SessionRow == [version : Nat, csrf : Nat, revoked : BOOLEAN, over : BOOLEAN]

\* What the server answers: a status and what it does to the jar.
Answer == [status : {"none", "ok", "401", "403", "500"}, cookies : Jar, sets : BOOLEAN]

NoAnswer == [status |-> "none", cookies |-> Empty, sets |-> FALSE]

\* at: "sent" and "refreshing" are with the server, "checked" is a call let through to
\* its route; header: the X-CSRF-Token; sent: the cookies that went along; seen: what a
\* logout has loaded of the session; used: the generation it refreshed with.
CallRow ==
  [kind : {"read", "write", "logout"},
   at : {"idle", "sent", "checked", "answered", "refreshing", "refreshed", "done"},
   header : Nat, sent : Jar, seen : SessionRow, used : Nat,
   again : BOOLEAN, lost : BOOLEAN, answer : Answer]

FirstSession == [version |-> 1, csrf |-> 1, revoked |-> FALSE, over |-> FALSE]

\* issue_session
Init ==
  /\ session = FirstSession
  /\ token = <<"ACTIVE">>
  /\ stale = {}
  /\ jar = [access |-> 1, refresh |-> 1, csrf |-> 1]
  /\ call = [c \in Calls |->
       [kind |-> "read", at |-> "idle", header |-> 0, sent |-> Empty, seen |-> FirstSession,
        used |-> 0, again |-> FALSE, lost |-> FALSE, answer |-> NoAnswer]]

\* One version for each rotation and one for the revocation.
TypeOK ==
  /\ session \in SessionRow
  /\ token \in Seq({"ACTIVE", "USED", "REVOKED"})
  /\ stale \subseteq Nat
  /\ jar \in Jar
  /\ call \in [Calls -> CallRow]
  /\ session.version <= Len(token) + 1

-----------------------------------------------------------------------------
(* The families in the database *)

Active == {g \in DOMAIN token : token[g] = "ACTIVE"}

AllRevoked(t) == [g \in DOMAIN t |-> "REVOKED"]

\* revoke_session_family, on the row as it was loaded
Revoked(row) ==
  IF row.revoked THEN row ELSE [row EXCEPT !.revoked = TRUE, !.version = @ + 1]

\* A rotation that leaves the old token usable.
RotatedBeside(g) == Append(token, "ACTIVE")

\* apply_refresh_rotation
Rotated(g) == Append([token EXCEPT ![g] = "USED"], "ACTIVE")

\* A logout has been answered with success.
LoggedOut ==
  \E c \in Calls : /\ call[c].kind = "logout" /\ call[c].at \in {"answered", "done"}
                   /\ call[c].answer.status = "ok"

Reply(c, status) ==
  call' = [call EXCEPT ![c] = [@ EXCEPT !.at = "answered",
             !.answer = [status |-> status, cookies |-> Empty, sets |-> FALSE]]]

\* The answer of a logout clears the cookies.
ReplyCleared(c) ==
  call' = [call EXCEPT ![c] = [@ EXCEPT !.at = "answered",
             !.answer = [status |-> "ok", cookies |-> Empty, sets |-> TRUE]]]

-----------------------------------------------------------------------------
(* services/http.ts and services/auth.ts *)

\* httpRequest and logout: the header is taken from the jar before the first attempt.
Start(c, kind) ==
  /\ call[c].at = "idle"
  /\ call' = [call EXCEPT ![c] = [@ EXCEPT !.kind = kind, !.at = "sent", !.sent = jar,
                                           !.header = IF kind = "read" THEN 0 ELSE jar.csrf]]
  /\ UNCHANGED <<session, token, stale, jar>>

JarAfter(c) == IF call[c].answer.sets THEN call[c].answer.cookies ELSE jar

\* The answer of the call itself arrives.  A first 401 is answered with a refresh.
Receive(c) ==
  LET refreshes == call[c].answer.status = "401" /\ ~call[c].again IN
  /\ call[c].at = "answered"
  /\ jar' = JarAfter(c)
  /\ \/ /\ refreshes
        /\ call' = [call EXCEPT ![c] = [@ EXCEPT !.at = "refreshing", !.sent = jar', !.answer = NoAnswer]]
     \/ ~refreshes /\ call' = [call EXCEPT ![c] = [@ EXCEPT !.at = "done"]]
  /\ UNCHANGED <<session, token, stale>>

\* httpRequest sends the headers it has built before once more; logout builds new ones.
HeaderAgain(c) == IF call[c].kind = "logout" THEN jar'.csrf ELSE call[c].header

\* The answer of the refresh arrives.
ReceiveRefresh(c) ==
  /\ call[c].at = "refreshed"
  /\ jar' = JarAfter(c)
  /\ \/ /\ call[c].answer.status = "ok"
        /\ call' = [call EXCEPT ![c] = [@ EXCEPT !.at = "sent", !.again = TRUE, !.sent = jar',
                                                 !.answer = NoAnswer, !.header = HeaderAgain(c)]]
     \/ /\ call[c].answer.status # "ok"
        /\ call' = [call EXCEPT ![c] = [@ EXCEPT !.at = "done"]]
  /\ UNCHANGED <<session, token, stale>>

\* The connection breaks, or the page goes away: the cookies never arrive.
LoseAnswer(c) ==
  LET kept == IF call[c].at = "answered" THEN call[c].answer ELSE NoAnswer IN
  /\ call[c].at \in {"answered", "refreshed"}
  /\ call' = [call EXCEPT ![c] = [@ EXCEPT !.at = "done", !.lost = TRUE, !.answer = kept]]
  /\ UNCHANGED <<session, token, stale, jar>>

-----------------------------------------------------------------------------
(* session_auth._resolve_session_user *)

\* The signature and the age of the JWT alone.
AccessByTokenOnly(c) == call[c].sent.access # 0 /\ call[c].sent.access \notin stale

AccessGood(c) ==
  /\ call[c].sent.access = session.version /\ session.version \notin stale
  /\ ~session.revoked /\ ~session.over

\* validate_csrf_secret
CsrfGood(c, row) ==
  call[c].header # 0 /\ call[c].header = call[c].sent.csrf /\ call[c].sent.csrf = row.csrf

MayServe(c) == AccessGood(c) /\ (call[c].kind = "read" \/ CsrfGood(c, session))

\* Only a logout uses what its database session has loaded.
Loaded(c) == IF call[c].kind = "logout" THEN session ELSE call[c].seen

\* get_session_user: the session is read, and not locked, before the route begins.
Authenticate(c) ==
  /\ call[c].at = "sent"
  /\ \/ ~AccessGood(c) /\ Reply(c, "401")
     \/ AccessGood(c) /\ ~MayServe(c) /\ Reply(c, "403")
     \/ /\ MayServe(c)
        /\ call' = [call EXCEPT ![c] = [@ EXCEPT !.at = "checked", !.seen = Loaded(c)]]
  /\ UNCHANGED <<session, token, stale, jar>>

\* The route works and commits without looking at the session again.
Serve(c) ==
  /\ call[c].at = "checked" /\ call[c].kind # "logout"
  /\ Reply(c, "ok")
  /\ UNCHANGED <<session, token, stale, jar>>

\* logout_session.  It locks the row but goes on with what get_session_user has loaded
\* in the same database session; the trigger on auth_sessions lets neither the version
\* fall nor a revoked row change.
Logout(c) ==
  LET written == Revoked(call[c].seen) IN
  /\ call[c].at = "checked" /\ call[c].kind = "logout"
  /\ IF session.revoked \/ written.version < session.version
     THEN Reply(c, "500") /\ UNCHANGED <<session, token>>
     ELSE /\ session' = [session EXCEPT !.revoked = TRUE, !.version = written.version]
          /\ token' = AllRevoked(token)
          /\ ReplyCleared(c)
  /\ UNCHANGED <<stale, jar>>

-----------------------------------------------------------------------------
(* rotate_session *)

ReplyRefresh(c, status, cookies) ==
  call' = [call EXCEPT ![c] = [@ EXCEPT !.at = "refreshed", !.used = call[c].sent.refresh,
             !.answer = [status |-> status, cookies |-> cookies, sets |-> TRUE]]]

\* A refusal without the commit.
RefuseRolledBack(c) ==
  /\ UNCHANGED <<session, token>>
  /\ ReplyRefresh(c, "401", Empty)

\* The family is revoked and committed before the error is raised.
Refuse(c) ==
  /\ session' = Revoked(session)
  /\ token' = AllRevoked(token)
  /\ ReplyRefresh(c, "401", Empty)

\* The header of a refresh is built when it is sent and is the cookie that goes with it.
Rotate(c) ==
  LET g == call[c].sent.refresh IN
  /\ call[c].sent.csrf = session.csrf
  /\ session' = [session EXCEPT !.version = @ + 1, !.csrf = g + 1]
  /\ token' = Rotated(g)
  /\ ReplyRefresh(c, "ok", [access |-> session.version + 1, refresh |-> g + 1, csrf |-> g + 1])

\* A refresh before the access token has run out taken for a reuse.
RotatesWhenStale(g) ==
  g \in Active /\ ~session.over /\ ~session.revoked /\ session.version \in stale

Rotates(g) == g \in Active /\ ~session.over /\ ~session.revoked

Refresh(c) ==
  LET g == call[c].sent.refresh IN
  /\ call[c].at = "refreshing"
  /\ \/ g = 0 /\ ReplyRefresh(c, "401", Empty) /\ UNCHANGED <<session, token>>
     \/ g # 0 /\ ~Rotates(g) /\ Refuse(c)
     \/ Rotates(g) /\ Rotate(c)
  /\ UNCHANGED <<stale, jar>>

-----------------------------------------------------------------------------

\* The 15 minutes of the current access token are over.
AccessExpires ==
  /\ session.version \notin stale
  /\ stale' = stale \cup {session.version}
  /\ UNCHANGED <<session, token, jar, call>>

SessionExpires ==
  /\ ~session.over
  /\ session' = [session EXCEPT !.over = TRUE]
  /\ UNCHANGED <<token, stale, jar, call>>

Next ==
  \/ \E c \in Calls :
       \/ \E kind \in {"read", "write", "logout"} : Start(c, kind)
       \/ Receive(c) \/ ReceiveRefresh(c) \/ LoseAnswer(c)
       \/ Authenticate(c) \/ Serve(c) \/ Logout(c) \/ Refresh(c)
  \/ AccessExpires
  \/ SessionExpires

Spec == Init /\ [][Next]_vars

-----------------------------------------------------------------------------
(* Properties *)

\* There is never more than one usable refresh token: the newest, whose secrets the
\* session accepts, and none once the session is revoked (rotate_session,
\* revoke_session_family, whoever else is refreshing or signing out meanwhile).
OneLiveToken ==
  /\ session.csrf = Len(token) /\ Active \subseteq {Len(token)}
  /\ session.revoked => Active = {}
  /\ ~session.revoked => Active # {}

\* A family is revoked only for a reason: the customer signed out, its 30 days are over,
\* or one refresh secret was presented a second time.
RevokedForCause ==
  session.revoked =>
    \/ session.over
    \/ LoggedOut
    \/ \E c, d \in Calls : c # d /\ call[c].used # 0 /\ call[c].used = call[d].used

\* When all is quiet and no answer was lost, the browser holds the current secrets of a
\* session that is not revoked, whatever the order in which answers came.
QuietBrowserIsCurrent ==
  (/\ \A c \in Calls : call[c].at \in {"idle", "done"} /\ ~call[c].lost
   /\ ~session.revoked)
  => jar = [access |-> session.version, refresh |-> session.csrf, csrf |-> session.csrf]

\* Once a logout has been answered with success no call is let through to its route
\* and nothing is refreshed, the calls that were under way included.  Only what was
\* let through before is still served, and that no other logout is.
LogoutIsFinal ==
  [][LoggedOut =>
       \A c \in Calls :
         /\ call'[c].at = "checked" => call[c].at = "checked"
         /\ call'[c].answer.status = "ok" =>
              \/ call[c].answer.status = "ok"
              \/ call[c].at = "checked" /\ call[c].kind # "logout"]_vars

=============================================================================
