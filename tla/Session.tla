------------------------------ MODULE Session ------------------------------
(***************************************************************************)
(* The login of the console: the browser's cookie, the sessions of the     *)
(* server (internal/api/auth.go), and the router that leads from a refused *)
(* call to the login page (lib/api.ts, App.tsx).  Calls carry the cookie   *)
(* of the moment they are sent; login and logout are calls too, whose      *)
(* answers set and clear it.                                               *)
(***************************************************************************)
EXTENDS Naturals, FiniteSets

CONSTANTS
  Slots,      \* bound: calls of pages under way at a time
  MaxLogins   \* bound: sessions the server makes

ASSUME SessionAssumption == MaxLogins \in Nat

VARIABLES
  route,    \* "login" or "page"
  cookie,   \* the session in the browser's cookie, 0 for none
  alive,    \* sessions the server knows and that have not expired
  issued,   \* sessions made so far
  sent,     \* per slot of a page's call: [st, cookie]
  login,    \* the login form's call: "none", "sent", "failed" or the session made
  logout    \* [st, cookie] of a logout

sessionVars == <<route, cookie, alive, issued, sent, login, logout>>

Sessions == 1 .. MaxLogins

NoCall == [st |-> "none", cookie |-> 0]

SessionInit ==
  /\ route = "page" /\ cookie = 0 /\ alive = {} /\ issued = 0
  /\ sent = [s \in Slots |-> NoCall]
  /\ login = "none" /\ logout = NoCall

-----------------------------------------------------------------------------
(* Calls of pages *)

\* request: the browser adds the cookie it has now.
SendCall(s) ==
  /\ route = "page" /\ sent[s] = NoCall
  /\ sent' = [sent EXCEPT ![s] = [st |-> "sent", cookie |-> cookie]]
  /\ UNCHANGED <<route, cookie, alive, issued, login, logout>>

\* requireAuth; or the call gets no answer.
Authorize(s) ==
  /\ sent[s].st = "sent"
  /\ \E st \in {IF sent[s].cookie \in alive THEN "allowed" ELSE "denied", "failed"} :
       sent' = [sent EXCEPT ![s].st = st]
  /\ UNCHANGED <<route, cookie, alive, issued, login, logout>>

\* Mutation: every error leads to the login page.
CallAnsweredStrict(s) ==
  /\ sent[s].st \in {"allowed", "denied", "failed"}
  /\ sent' = [sent EXCEPT ![s] = NoCall]
  /\ route' = IF sent[s].st = "allowed" THEN route ELSE "login"
  /\ UNCHANGED <<cookie, alive, issued, login, logout>>

\* A 401 calls the handler App has set: the login page, whichever cookie was refused.
CallAnswered(s) ==
  /\ sent[s].st \in {"allowed", "denied", "failed"}
  /\ sent' = [sent EXCEPT ![s] = NoCall]
  /\ route' = IF sent[s].st = "denied" THEN "login" ELSE route
  /\ UNCHANGED <<cookie, alive, issued, login, logout>>

-----------------------------------------------------------------------------
(* Login and logout *)

\* The form of the login page.
SubmitLogin ==
  /\ route = "login" /\ login = "none"
  /\ login' = "sent"
  /\ UNCHANGED <<route, cookie, alive, issued, sent, logout>>

\* handleLogin: a session for the right key, unless the address is locked out; its
\* answer may be lost.
ServeLogin ==
  /\ login = "sent"
  /\ \/ /\ issued < MaxLogins
        /\ issued' = issued + 1 /\ alive' = alive \cup {issued + 1}
        /\ login' \in {"made", "failed"}
     \/ /\ login' = "failed"
        /\ UNCHANGED <<alive, issued>>
  /\ UNCHANGED <<route, cookie, sent, logout>>

\* A 401 of a login is shown in the form.
LoginAnswered ==
  /\ login \in {"made", "failed"}
  /\ login' = "none"
  /\ IF login = "made" THEN cookie' = issued /\ route' = "page"
                       ELSE UNCHANGED <<cookie, route>>
  /\ UNCHANGED <<alive, issued, sent, logout>>

ClickLogout ==
  /\ route = "page" /\ logout = NoCall
  /\ logout' = [st |-> "sent", cookie |-> cookie]
  /\ UNCHANGED <<route, cookie, alive, issued, sent, login>>

\* handleLogout removes the session the call carries.
ServeLogout ==
  /\ logout.st = "sent"
  /\ \/ /\ alive' = alive \ {logout.cookie}
        /\ logout' = [logout EXCEPT !.st = "ok"]
     \/ /\ logout' = [logout EXCEPT !.st = "failed"]
        /\ UNCHANGED alive
  /\ UNCHANGED <<route, cookie, issued, sent, login>>

\* The answer clears the cookie the browser has now; the page is left whether or not
\* there was one.
LogoutAnswered ==
  /\ logout.st \in {"ok", "failed"}
  /\ logout' = NoCall
  /\ cookie' = IF logout.st = "ok" THEN 0 ELSE cookie
  /\ route' = "login"
  /\ UNCHANGED <<alive, issued, sent, login>>

-----------------------------------------------------------------------------
\* A session expires; or the server starts again and knows none.
Expire ==
  /\ \E t \in alive : alive' \in {alive \ {t}, {}}
  /\ UNCHANGED <<route, cookie, issued, sent, login, logout>>

\* The user enters the address of a page: everything in the browser starts anew, but
\* for the cookie.
Visit ==
  /\ route = "login" /\ route' = "page"
  /\ sent' = [s \in Slots |-> NoCall]
  /\ login' = "none" /\ logout' = NoCall
  /\ UNCHANGED <<cookie, alive, issued>>

SessionNext ==
  \/ \E s \in Slots : SendCall(s) \/ Authorize(s) \/ CallAnswered(s)
  \/ SubmitLogin \/ ServeLogin \/ LoginAnswered
  \/ ClickLogout \/ ServeLogout \/ LogoutAnswered
  \/ Expire \/ Visit

SessionSpec == SessionInit /\ [][SessionNext]_sessionVars

-----------------------------------------------------------------------------
(* Properties *)

SessionTypeOK ==
  /\ route \in {"login", "page"}
  /\ issued \in 0 .. MaxLogins
  /\ cookie \in 0 .. issued /\ alive \in SUBSET (1 .. issued)
  /\ sent \in [Slots -> [st : {"none", "sent", "allowed", "denied", "failed"},
                         cookie : 0 .. MaxLogins]]
  /\ login \in {"none", "sent", "made", "failed"}
  /\ logout \in [st : {"none", "sent", "ok", "failed"}, cookie : 0 .. MaxLogins]

\* A user who has a valid session is thrown out of a page only by a logout, or by the
\* late refusal of a call an older session made: the browser's calls do not say
\* which session they belong to, so the handler cannot tell (api.ts:28-33,
\* 60-63; App.tsx:17-24; app-sidebar.tsx:31-39).
ThrownOutOnlyBy ==
  [][route = "page" /\ route' = "login" /\ cookie \in alive =>
       \/ logout.st \in {"ok", "failed"}
       \/ \E s \in Slots : sent[s].st = "denied" /\ sent[s].cookie # cookie]_sessionVars
=============================================================================
