------------------------------ MODULE Session ------------------------------
(***************************************************************************)
(* Sessions and the second factor: AuthorizeMiddleware, the last step of   *)
(* a log-on, /logout, /enroll, /verify and the check of the administrator  *)
(* pages.  The server keeps no session.  The cookie is the session: a      *)
(* browser sends the copy it has when a request starts, the handler works  *)
(* with that copy, and the answer may replace or delete the browser's.     *)
(* Several tabs share a cookie jar, and their answers arrive in any order. *)
(***************************************************************************)
EXTENDS Naturals

CONSTANTS
    Browsers,   \* each has a cookie jar
    Tabs,       \* each has at most one request on its way
    Users,      \* the accounts of table users
    Admins,     \* those with account_type ADMIN; nothing changes the column
    NoCookie,   \* a jar without a session; in an answer: delete the cookie
    Keep        \* an answer that leaves the cookie alone

ASSUME CookieAssumption == /\ Admins \subseteq Users
                           /\ Users # {}
                           /\ NoCookie # Keep
                           /\ {NoCookie, Keep} \cap Users = {}

VARIABLES
    users,      \* the rows: [mfa |-> is_mfa_set, locked |-> is_locked]
    jar,        \* the session cookie of each browser
    browser,    \* the browser a tab belongs to
    tab,        \* the request of a tab, and how far it has come
    last        \* history: whose log-on was the last one answered in a
                \* browser, NoCookie after a log-out, Keep for "unsure"

vars == <<users, jar, browser, tab, last>>

(* session.Values, once authed: the id stands for user name and type too.  *)
(* A cookie with authed false is sent only with the order to delete it.    *)
Cookie == [user : Users, mfa : BOOLEAN]
ASSUME MarksAssumption == NoCookie \notin Cookie /\ Keep \notin Cookie

Row == [mfa : BOOLEAN, locked : BOOLEAN]

(* The routes: those without the middleware, /enroll, and the others.      *)
(* /alerts stands for every page of an analyst.                            *)
OpenPaths == {"/", "POST /", "/logout"}
EnrollPaths == {"/enroll", "POST /enroll"}
AdminPaths == {"/users", "POST /users/new"}
Paths == OpenPaths \cup EnrollPaths
         \cup {"/verify", "POST /verify", "/alerts"} \cup AdminPaths

(* Those whose handlers use the database.                                  *)
HandlerPaths == {"POST /", "POST /verify"} \cup EnrollPaths \cup AdminPaths

Stay == "stay"                  \* an answer with a page instead of a redirect
Targets == {Stay, "/", "/logout", "/enroll", "/verify", "/alerts"}
NoRow == [mfa |-> FALSE, locked |-> FALSE]

(* A tab: resting on a page, or its request is asked (on its way through   *)
(* the handler), loaded (the handler has read the row), updated (it has    *)
(* written it), answered (the answer is on its way back).                  *)
Tab == [at : {"rest", "asked", "loaded", "updated", "answered"},
        path : {Stay} \cup HandlerPaths,
        user : Users, sent : Cookie \cup {NoCookie},
        row : Row, set : Cookie \cup {NoCookie, Keep}, goto : Targets]

AnyUser == CHOOSE u \in Users : TRUE
Rest == [at |-> "rest", path |-> Stay, user |-> AnyUser, sent |-> NoCookie,
         row |-> NoRow, set |-> Keep, goto |-> Stay]
Answer(cookie, path) == [Rest EXCEPT !.at = "answered", !.set = cookie, !.goto = path]

Init == /\ users \in [Users -> {r \in Row : ~r.locked}]
        /\ jar = [b \in Browsers |-> NoCookie]
        /\ browser \in [Tabs -> Browsers]
        /\ tab = [t \in Tabs |-> Rest]
        /\ last = [b \in Browsers |-> NoCookie]

----------------------------------------------------------------------------
(* A request reaches its handler                                           *)

(* Fault: the page to enrol on is behind the second factor, too. *)
Guard_NoExemption(path, cookie) ==
    CASE path \in OpenPaths -> Stay
      [] path \notin OpenPaths /\ cookie = NoCookie -> "/"
      [] path \notin OpenPaths /\ cookie # NoCookie /\ ~cookie.mfa -> "/enroll"
      [] OTHER -> Stay

(* AuthorizeMiddleware: where it redirects to, or Stay to let pass.        *)
Guard(path, cookie) ==
    CASE path \in OpenPaths -> Stay
      [] path \notin OpenPaths /\ cookie = NoCookie -> "/"
      [] path \notin OpenPaths \cup EnrollPaths /\ cookie # NoCookie /\ ~cookie.mfa -> "/enroll"
      [] OTHER -> Stay

(* Fault: each page renews the cookie it was asked for with. *)
Shown_Renews(cookie) == Answer(cookie, Stay)

(* Pages that need no more than the cookie.                                *)
Shown(cookie) == Answer(Keep, Stay)

(* Fault: /enroll and /verify take the user from the form. *)
Arrived_FormUser(path, cookie, u) ==
    IF Guard(path, cookie) # Stay THEN Answer(Keep, Guard(path, cookie))
    ELSE CASE path \in {"/", "/verify", "/alerts"} -> Shown(cookie)
           [] path = "/logout" -> Answer(NoCookie, "/")
           [] path \in AdminPaths /\ cookie.user \notin Admins ->
                Answer(Keep, IF path = "/users" THEN "/logout" ELSE Stay)
           [] path = "POST /" -> [Rest EXCEPT !.at = "asked", !.path = path, !.user = u]
           [] OTHER -> [Rest EXCEPT !.at = "asked", !.path = path, !.user = u, !.sent = cookie]

(* What becomes of a request for path with this cookie: an answer at once  *)
(* if the handler reads nothing but the cookie.  Who is no administrator   *)
(* is sent to /logout by /users.  So is who posts a new user, but the      *)
(* redirect keeps the method, and POST /logout is no route.                *)
Arrived(path, cookie, u) ==
    IF Guard(path, cookie) # Stay THEN Answer(Keep, Guard(path, cookie))
    ELSE CASE path \in {"/", "/verify", "/alerts"} -> Shown(cookie)
           [] path = "/logout" -> Answer(NoCookie, "/")
           [] path \in AdminPaths /\ cookie.user \notin Admins ->
                Answer(Keep, IF path = "/users" THEN "/logout" ELSE Stay)
           [] path = "POST /" -> [Rest EXCEPT !.at = "asked", !.path = path, !.user = u]
           [] OTHER -> [Rest EXCEPT !.at = "asked", !.path = path,
                                    !.user = cookie.user, !.sent = cookie]

(* A link, a bookmark or a form of some page, maybe an old one.            *)
Ask(t, path, u) ==
    /\ tab[t].at = "rest"
    /\ tab' = [tab EXCEPT ![t] = Arrived(path, jar[browser[t]], u)]
    /\ UNCHANGED <<users, jar, browser, last>>

----------------------------------------------------------------------------
(* The handlers                                                            *)

At(t, path, at) == tab[t].at = at /\ tab[t].path = path
Finish(t, cookie, path) == tab' = [tab EXCEPT ![t] = Answer(cookie, path)]

(* A handler's copy of the row, good for as long as the handler runs.      *)
Load(t) == tab' = [tab EXCEPT ![t].at = "loaded", ![t].row = users[tab[t].user]]

(* Fault: the lock is not looked at. *)
LogonLoad_NoLock(t) ==
    /\ At(t, "POST /", "asked")
    /\ Load(t) \/ Finish(t, Keep, "/")
    /\ UNCHANGED users

(* routeLogonPost up to the lock, or an error of a statement.              *)
LogonLoad(t) ==
    /\ At(t, "POST /", "asked")
    /\ \/ ~users[tab[t].user].locked /\ Load(t)
       \/ users[tab[t].user].locked /\ Finish(t, Keep, Stay)
       \/ Finish(t, Keep, "/")
    /\ UNCHANGED users

(* Fault: the whole copy is written back. *)
LockedRow_AllColumns(row, copy) == [copy EXCEPT !.locked = TRUE]
UpdatedRow_AllColumns(row, copy) == [copy EXCEPT !.mfa = TRUE]

(* What Lock and Update make of a row, given the handler's copy.           *)
LockedRow(row, copy) == [row EXCEPT !.locked = TRUE]
UpdatedRow(row, copy) == [row EXCEPT !.mfa = TRUE]

(* A wrong password, which may be the one too many (Logon counts them).    *)
WrongPassword(t) ==
    /\ At(t, "POST /", "loaded")
    /\ Finish(t, Keep, Stay)
    /\ \/ UNCHANGED users
       \/ users' = [users EXCEPT ![tab[t].user] = LockedRow(@, tab[t].row)]

(* A right password: the cookie takes the flag from the handler's copy.    *)
(* Or the session cannot be saved.                                         *)
Admit(t) ==
    /\ At(t, "POST /", "loaded")
    /\ \/ Finish(t, [user |-> tab[t].user, mfa |-> tab[t].row.mfa],
                 IF tab[t].row.mfa THEN "/verify" ELSE "/enroll")
       \/ Finish(t, Keep, "/")
    /\ UNCHANGED users

(* GET /enroll: the QR code of the row's secret, or an error.              *)
EnrollPage(t) ==
    /\ At(t, "/enroll", "asked")
    /\ \E go \in {Stay, "/"} : Finish(t, Keep, go)
    /\ UNCHANGED users

(* POST /enroll: a right code, a wrong one (the page again), or an error.  *)
EnrollLoad(t) ==
    /\ At(t, "POST /enroll", "asked")
    /\ \/ Load(t)
       \/ \E go \in {Stay, "/"} : Finish(t, Keep, go)
    /\ UNCHANGED users

(* User.Update writes the columns of the copy, mfa_set now true.  Lock and *)
(* counter are not among them.                                             *)
Update(t) == users' = [users EXCEPT ![tab[t].user] = UpdatedRow(@, tab[t].row)]

EnrollUpdate(t) ==
    /\ At(t, "POST /enroll", "loaded")
    /\ Update(t)
    /\ tab' = [tab EXCEPT ![t].at = "updated", ![t].row = NoRow]

(* Fault: nobody looks at the error. *)
UpdateFails_Ignored(t) ==
    /\ At(t, "POST /enroll", "loaded")
    /\ UNCHANGED users \/ Update(t)
    /\ tab' = [tab EXCEPT ![t].at = "updated", ![t].row = NoRow]

(* The statement fails, or only its answer does.                           *)
UpdateFails(t) ==
    /\ At(t, "POST /enroll", "loaded")
    /\ UNCHANGED users \/ Update(t)
    /\ Finish(t, Keep, "/")

(* The cookie of this request, with mfa_set, or it cannot be saved.        *)
EnrollSave(t) ==
    /\ At(t, "POST /enroll", "updated")
    /\ \/ Finish(t, [tab[t].sent EXCEPT !.mfa = TRUE], "/alerts")
       \/ Finish(t, Keep, "/")
    /\ UNCHANGED users

(* POST /verify: reads the row, writes nothing, and remembers nothing.     *)
Verify(t) ==
    /\ At(t, "POST /verify", "asked")
    /\ \E go \in {Stay, "/", "/alerts"} : Finish(t, Keep, go)
    /\ UNCHANGED users

(* The pages of an administrator, or an error.  What a new user's post     *)
(* does is UserAdmin's.                                                    *)
AdminPage(t) ==
    /\ tab[t].path \in AdminPaths /\ tab[t].at = "asked"
    /\ \E go \in {Stay, "/"} : Finish(t, Keep, go)
    /\ UNCHANGED users

Handle(t) ==
    /\ \/ LogonLoad(t) \/ WrongPassword(t) \/ Admit(t)
       \/ EnrollPage(t) \/ EnrollLoad(t) \/ EnrollUpdate(t) \/ UpdateFails(t)
       \/ EnrollSave(t) \/ Verify(t) \/ AdminPage(t)
    /\ UNCHANGED <<jar, browser, last>>

----------------------------------------------------------------------------
(* The answer reaches the browser                                          *)

(* An enrolment works with the cookie it was sent with, up to its answer.  *)
Enrolling(t) == \/ tab[t].path = "POST /enroll"
                \/ tab[t].set \in Cookie /\ tab[t].goto = "/alerts"

(* Whose session an answer begins: a log-on's user, nobody's for a log-out *)
(* (an enrolment and a page begin none), unsure beside an enrolment.       *)
Begun(t) ==
    LET signsOn == tab[t].set \in Cookie /\ tab[t].goto \in {"/enroll", "/verify"}
        signsOff == tab[t].set = NoCookie
    IN  IF ~signsOn /\ ~signsOff THEN last[browser[t]]
        ELSE IF \E s \in Tabs : browser[s] = browser[t] /\ Enrolling(s) THEN Keep
        ELSE IF signsOff THEN NoCookie ELSE tab[t].set.user

Receive(t) ==
    LET b == browser[t]
        cookie == IF tab[t].set = Keep THEN jar[b] ELSE tab[t].set
    IN  /\ tab[t].at = "answered"
        /\ jar' = [jar EXCEPT ![b] = cookie]
        /\ tab' = [tab EXCEPT ![t] = IF tab[t].goto = Stay THEN Rest
                                     ELSE Arrived(tab[t].goto, cookie, AnyUser)]
        /\ last' = [last EXCEPT ![b] = Begun(t)]
        /\ UNCHANGED <<users, browser>>

(* The answer is lost, or the tab is closed before it comes.               *)
Lose(t) == /\ tab[t].at = "answered"
           /\ tab' = [tab EXCEPT ![t] = Rest]
           /\ UNCHANGED <<users, jar, browser, last>>

(* The cookie's time is over.                                              *)
Expire(b) == /\ jar[b] # NoCookie
             /\ jar' = [jar EXCEPT ![b] = NoCookie]
             /\ UNCHANGED <<users, browser, tab, last>>

(* The server stops and starts again: the handlers are gone, the cookies   *)
(* are still good, as their key is part of the program.                    *)
Restart == /\ \E t \in Tabs : tab[t].at \in {"asked", "loaded", "updated"}
           /\ tab' = [t \in Tabs |-> IF tab[t].at = "answered" THEN tab[t] ELSE Rest]
           /\ UNCHANGED <<users, jar, browser, last>>

Next == \/ \E t \in Tabs : \/ \E path \in Paths, u \in Users : Ask(t, path, u)
                           \/ Handle(t) \/ Receive(t) \/ Lose(t)
        \/ \E b \in Browsers : Expire(b)
        \/ Restart

(* A handler runs to its end, and its answer arrives unless it is lost.    *)
Fairness == \A t \in Tabs : WF_vars(Handle(t)) /\ WF_vars(Receive(t))
Spec == Init /\ [][Next]_vars /\ Fairness

----------------------------------------------------------------------------
(* Properties                                                              *)

(* The variables keep their types, and a handler behind the middleware     *)
(* works for somebody: it runs with a cookie, of the user it works for.    *)
TypeOK ==
    /\ users \in [Users -> Row]
    /\ jar \in [Browsers -> Cookie \cup {NoCookie}]
    /\ browser \in [Tabs -> Browsers]
    /\ tab \in [Tabs -> Tab]
    /\ last \in [Browsers -> Users \cup {NoCookie, Keep}]
    /\ \A t \in Tabs :
         tab[t].at \in {"asked", "loaded", "updated"} /\ tab[t].path # "POST /"
           => tab[t].sent # NoCookie /\ tab[t].user = tab[t].sent.user

(* Every copy of mfa_set there is.                                         *)
Copies == {jar[b] : b \in Browsers}
          \cup {tab[t].sent : t \in Tabs} \cup {tab[t].set : t \in Tabs}

(* However old a cookie is, wherever it is on its way, and whatever failed *)
(* or restarted meanwhile: it lets into the pages behind the second factor *)
(* only a user whose row says that the second factor is set.               *)
EnrolledIsTrue == \A c \in Copies \cap Cookie : c.mfa => users[c.user].mfa

(* A browser's session is that of its last log-on answered, and there is   *)
(* none after a log-out: answers to pages asked for earlier do not bring   *)
(* an older session back.  The answer of an enrolment would, as it carries *)
(* the whole cookie its request was sent with, so that a log-on or log-out *)
(* answered while one was under way leaves last unsure.                    *)
SessionIsLatest ==
    \A b \in Browsers : last[b] # Keep /\ jar[b] # NoCookie => last[b] = jar[b].user

(* An enrolment writes back a row it read before a lock, and a log-on      *)
(* locks a row it read before an enrolment; neither undoes the other.      *)
LockIsFinal == [][\A u \in Users : users[u].locked => users'[u].locked]_vars
EnrolledForGood == [][\A u \in Users : users[u].mfa => users'[u].mfa]_vars

(* The steps to a page, of an answer that redirects to go and of a request *)
(* for path: the longest way through the handler and what it redirects to. *)
Hops(go) == CASE go = Stay -> 1
              [] go = "/" -> 2
              [] go = "/logout" -> 3
              [] go = "/enroll" -> 4
              [] go \in {"/verify", "/alerts"} -> 5

Way(path) == CASE path \in AdminPaths \cup {"/enroll"} -> 3
               [] path = "POST /verify" -> 6
               [] path = "POST /" -> 7
               [] path = "POST /enroll" -> 8

(* How many steps a request may still take to the page it ends with.       *)
StepsLeft(x) == CASE x.at = "rest" -> 0
                  [] x.at = "answered" -> Hops(x.goto)
                  [] x.at = "asked" -> Way(x.path)
                  [] x.at = "loaded" -> Way(x.path) - 1
                  [] x.at = "updated" -> Way(x.path) - 2

(* Redirects run out: each step brings a request nearer to its page,       *)
(* whatever becomes of the cookie between two hops (another tab logs on,   *)
(* enrols or logs out, the cookie expires) and of the rows; nothing the    *)
(* others do makes its way longer.  So it takes eight steps at most.       *)
RedirectsRunOut ==
    [][\A t \in Tabs : tab[t].at # "rest" /\ tab'[t] # tab[t]
            => StepsLeft(tab'[t]) < StepsLeft(tab[t])]_vars

(* The cookies in circulation in a browser, and those its log-ons that     *)
(* have found the account open are about to be issued.                     *)
Copied(b) == {jar[b]} \cup UNION {{tab[t].sent, tab[t].set} : t \in {s \in Tabs : browser[s] = b}}
Held(b) == Copied(b) \cap Cookie
Passing(b) == {[user |-> tab[t].user, mfa |-> tab[t].row.mfa] :
                 t \in {s \in Tabs : browser[s] = b /\ At(s, "POST /", "loaded")}}

Ledger == INSTANCE SessionLedger WITH held <- [b \in Browsers |-> Held(b)],
                                      passing <- [b \in Browsers |-> Passing(b)]

(* Whatever order the answers of the tabs come in, and whatever fails: a   *)
(* cookie is only ever issued for a log-on that found the account open or  *)
(* for an enrolment, in the browser that asked; and only with a cookie of  *)
(* the account is its second factor set.                                   *)
ImplementsSessions == Ledger!Spec

(* Whatever a tab asks for, redirects do not go round in circles: it gets  *)
(* a page in the end, or its answer is lost.                               *)
RequestsSettle == \A t \in Tabs : tab[t].at # "rest" ~> tab[t].at = "rest"
=============================================================================
