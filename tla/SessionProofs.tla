--------------------------- MODULE SessionProofs ---------------------------
(***************************************************************************)
(* Theorems of Session, for any browsers, tabs and users.                  *)
(***************************************************************************)
EXTENDS Session, TLAPS

(* What holds of a tab's request, given the rows us and the last log-on    *)
(* answered in its browser, l.                                             *)
TabTyped(x) ==
    /\ x \in Tab
    /\ x.at \in {"asked", "loaded", "updated"} /\ x.path # "POST /"
         => x.sent # NoCookie /\ x.user = x.sent.user

(* A path means a handler at work, whose answer has not been chosen; only  *)
(* an enrolment writes the row; a cookie is answered with a redirect.      *)
TabShape(x) ==
    /\ x.path # Stay <=> x.at \in {"asked", "loaded", "updated"}
    /\ x.path # Stay => x.set = Keep
    /\ x.at = "updated" => x.path = "POST /enroll"
    /\ x.set \in Cookie => x.goto \in {"/enroll", "/verify", "/alerts"}

(* Cookies, copies of a row and an enrolment past its Update are not ahead *)
(* of the row.                                                             *)
TabTrue(x, us) ==
    /\ x.sent \in Cookie /\ x.sent.mfa => us[x.sent.user].mfa
    /\ x.set \in Cookie /\ x.set.mfa => us[x.set.user].mfa
    /\ x.at = "loaded" /\ x.row.mfa => us[x.user].mfa
    /\ x.at = "updated" => us[x.user].mfa

(* An enrolment under way belongs to the last log-on.                      *)
TabLatest(x, l) ==
    l # Keep => /\ x.path = "POST /enroll" => x.sent.user = l
                /\ x.set \in Cookie /\ x.goto = "/alerts" => x.set.user = l

TabInv(x, us, l) == TabTyped(x) /\ TabShape(x) /\ TabTrue(x, us) /\ TabLatest(x, l)

JarInv(c, us, l) ==
    c # NoCookie => (c.mfa => us[c.user].mfa) /\ (l # Keep => l = c.user)

Typed == /\ users \in [Users -> Row]
         /\ jar \in [Browsers -> Cookie \cup {NoCookie}]
         /\ browser \in [Tabs -> Browsers]
         /\ tab \in [Tabs -> Tab]
         /\ last \in [Browsers -> Users \cup {NoCookie, Keep}]

(* The inductive invariant.                                                *)
IInv == /\ Typed
        /\ \A t \in Tabs : TabInv(tab[t], users, last[browser[t]])
        /\ \A b \in Browsers : JarInv(jar[b], users, last[b])

(* Rows in which nobody who was enrolled is not.                           *)
Grows(us, vs) == \A u \in Users : us[u].mfa => vs[u].mfa

----------------------------------------------------------------------------
LEMMA AnyUserType == AnyUser \in Users
BY CookieAssumption DEF AnyUser

LEMMA RestFine == ASSUME NEW us, NEW l PROVE TabInv(Rest, us, l)
BY AnyUserType, CookieAssumption, MarksAssumption
DEF Rest, TabInv, TabTyped, TabShape, TabTrue, TabLatest, Tab, Row, NoRow, Stay, Targets

(* An answer is fine if the cookie it carries is.                          *)
LEMMA AnswerFine ==
    ASSUME NEW us, NEW l, NEW c \in Cookie \cup {NoCookie, Keep}, NEW go \in Targets,
           c \in Cookie => go \in {"/enroll", "/verify", "/alerts"},
           c \in Cookie /\ c.mfa => us[c.user].mfa,
           c \in Cookie /\ l # Keep /\ go = "/alerts" => c.user = l
    PROVE  TabInv(Answer(c, go), us, l)
<1> DEFINE a == Answer(c, go)
<1>0. AnyUser \in Users /\ NoCookie \notin Cookie /\ Keep \notin Cookie
  BY AnyUserType, MarksAssumption
<1>1. Rest \in [at : {"rest"}, path : {Stay}, user : Users, sent : {NoCookie},
                row : Row, set : {Keep}, goto : {Stay}]
  BY <1>0 DEF Rest, Row, NoRow
<1>2. a \in Tab
  BY <1>1 DEF Answer, Tab
<1>3. /\ a.at = "answered" /\ a.path = Stay /\ a.sent = NoCookie
      /\ a.set = c /\ a.goto = go
  BY <1>1 DEF Answer
<1>4. TabTyped(a) /\ TabShape(a)
  BY <1>2, <1>3 DEF TabTyped, TabShape
<1>5. TabTrue(a, us)
  BY <1>0, <1>3 DEF TabTrue
<1>6. TabLatest(a, l)
  BY <1>3 DEF TabLatest, Stay
<1> QED BY <1>4, <1>5, <1>6 DEF TabInv

(* An answer that begins no session is fine whatever the rows are.         *)
LEMMA PlainAnswerFine ==
    ASSUME NEW us, NEW l, NEW c \in {Keep, NoCookie}, NEW go \in Targets
    PROVE  TabInv(Answer(c, go), us, l)
BY AnswerFine, MarksAssumption

LEMMA GuardType ==
    ASSUME NEW path, NEW c
    PROVE  Guard(path, c) \in Targets
BY DEF Guard, Targets, OpenPaths, EnrollPaths, Stay

(* Who gets past the middleware has a cookie.                              *)
LEMMA GuardLets ==
    ASSUME NEW path, NEW c, path \notin OpenPaths, Guard(path, c) = Stay
    PROVE  c # NoCookie
BY DEF Guard, OpenPaths, EnrollPaths, Stay

(* A request for which a handler has been started.                         *)
Asked(path, u, c) == [at |-> "asked", path |-> path, user |-> u, sent |-> c,
                      row |-> NoRow, set |-> Keep, goto |-> Stay]

LEMMA AskedFine ==
    ASSUME NEW us, NEW l, NEW u \in Users, NEW c \in Cookie \cup {NoCookie},
           NEW path \in HandlerPaths,
           JarInv(c, us, l), path # "POST /" => c # NoCookie /\ u = c.user
    PROVE  TabInv(Asked(path, u, c), us, l)
<1> DEFINE a == Asked(path, u, c)
<1>1. /\ a.at = "asked" /\ a.path = path /\ a.user = u /\ a.sent = c
      /\ a.row = NoRow /\ a.set = Keep /\ a.goto = Stay
  BY DEF Asked
<1>2. TabTyped(a)
  <2>1. a \in Tab
    BY DEF Asked, Tab, Row, NoRow, Stay, Targets, HandlerPaths
  <2> QED BY <2>1, <1>1 DEF TabTyped
<1>3. TabShape(a)
  BY <1>1, MarksAssumption DEF TabShape, Stay, HandlerPaths, EnrollPaths, AdminPaths
<1>4. TabTrue(a, us)
  BY <1>1, MarksAssumption DEF TabTrue, JarInv
<1>5. TabLatest(a, l)
  BY <1>1, MarksAssumption DEF TabLatest, JarInv
<1> QED BY <1>2, <1>3, <1>4, <1>5 DEF TabInv

LEMMA ArrivedFine ==
    ASSUME NEW us, NEW l, NEW path \in Paths, NEW u \in Users,
           NEW c \in Cookie \cup {NoCookie}, JarInv(c, us, l)
    PROVE  TabInv(Arrived(path, c, u), us, l)
<1> DEFINE a == Arrived(path, c, u)
<1>1. CASE Guard(path, c) # Stay
  <2>1. a = Answer(Keep, Guard(path, c))
    BY <1>1 DEF Arrived
  <2> QED BY <2>1, GuardType, PlainAnswerFine
<1>2. CASE Guard(path, c) = Stay /\ path \in {"/", "/verify", "/alerts"}
  <2>1. a = Answer(Keep, Stay)
    BY <1>2 DEF Arrived, Shown
  <2> QED BY <2>1, PlainAnswerFine DEF Targets
<1>3. CASE Guard(path, c) = Stay /\ path = "/logout"
  <2>1. a = Answer(NoCookie, "/")
    BY <1>3 DEF Arrived, AdminPaths
  <2> QED BY <2>1, PlainAnswerFine DEF Targets
<1>4. CASE Guard(path, c) = Stay /\ path \in AdminPaths /\ c.user \notin Admins
  <2>1. PICK go \in {Stay, "/logout"} : a = Answer(Keep, go)
    BY <1>4 DEF Arrived, AdminPaths
  <2> QED BY <2>1, PlainAnswerFine DEF Targets
<1>5. CASE Guard(path, c) = Stay /\ path = "POST /"
  <2>1. a = [Rest EXCEPT !.at = "asked", !.path = "POST /", !.user = u]
    BY <1>5 DEF Arrived, AdminPaths
  <2>2. a = Asked("POST /", u, NoCookie) /\ "POST /" \in HandlerPaths
    BY <2>1 DEF Rest, Asked, HandlerPaths
  <2> QED BY <2>2, AskedFine DEF JarInv
<1>6. CASE /\ Guard(path, c) = Stay /\ path \in HandlerPaths \ {"POST /"}
           /\ ~(path \in AdminPaths /\ c.user \notin Admins)
  <2>0. path \notin OpenPaths \cup {"/verify", "/alerts"}
    BY <1>6 DEF HandlerPaths, EnrollPaths, AdminPaths, OpenPaths
  <2>1. a = [Rest EXCEPT !.at = "asked", !.path = path, !.user = c.user, !.sent = c]
    BY <1>6, <2>0 DEF Arrived, OpenPaths
  <2>2. c \in Cookie /\ c # NoCookie /\ c.user \in Users
    BY <1>6, <2>0, GuardLets DEF Cookie
  <2>3. a = Asked(path, c.user, c)
    BY <2>1 DEF Rest, Asked
  <2>4. path # "POST /" => c # NoCookie /\ c.user = c.user
    BY <2>2
  <2> QED BY <1>6, <2>2, <2>3, <2>4, AskedFine
<1> QED BY <1>1, <1>2, <1>3, <1>4, <1>5, <1>6 DEF Paths, OpenPaths, HandlerPaths

----------------------------------------------------------------------------
(* Steps                                                                   *)

(* A request stays fine while rows only gain the second factor.            *)
LEMMA TabStays ==
    ASSUME NEW us, NEW vs, Grows(us, vs), NEW l, NEW x, TabInv(x, us, l)
    PROVE  TabInv(x, vs, l)
<1>1. x \in Tab
  BY DEF TabInv, TabTyped
<1>2. x.user \in Users /\ (x.sent \in Cookie => x.sent.user \in Users)
      /\ (x.set \in Cookie => x.set.user \in Users)
  BY <1>1 DEF Tab, Cookie
<1> QED BY <1>2 DEF TabInv, TabTrue, Grows

(* A step of the request of tab t.                                         *)
LEMMA TabStep ==
    ASSUME IInv, NEW t \in Tabs, NEW x, tab' = [tab EXCEPT ![t] = x],
           UNCHANGED <<jar, browser, last>>,
           users' \in [Users -> Row], Grows(users, users'),
           TabInv(x, users', last[browser[t]])
    PROVE  IInv'
<1>1. Typed'
  BY DEF IInv, Typed, TabInv, TabTyped
<1>2. ASSUME NEW s \in Tabs PROVE TabInv(tab'[s], users', last'[browser'[s]])
  <2>1. TabInv(tab[s], users', last[browser[s]])
    BY TabStays DEF IInv
  <2> QED BY <2>1 DEF IInv, Typed
<1>3. ASSUME NEW b \in Browsers PROVE JarInv(jar'[b], users', last'[b])
  <2>1. JarInv(jar[b], users, last[b]) /\ jar[b] \in Cookie \cup {NoCookie}
    BY DEF IInv, Typed
  <2>2. jar[b] # NoCookie => jar[b].user \in Users
    BY <2>1 DEF Cookie
  <2> QED BY <2>1, <2>2 DEF JarInv, Grows
<1> QED BY <1>1, <1>2, <1>3 DEF IInv

LEMMA AskStep ==
    ASSUME IInv, NEW t \in Tabs, NEW path \in Paths, NEW u \in Users, Ask(t, path, u)
    PROVE  IInv'
<1> DEFINE c == jar[browser[t]]
<1>1. c \in Cookie \cup {NoCookie} /\ JarInv(c, users, last[browser[t]])
  BY DEF IInv, Typed
<1>2. TabInv(Arrived(path, c, u), users, last[browser[t]])
  BY <1>1, ArrivedFine
<1> QED BY <1>2, TabStep DEF Ask, IInv, Typed, Grows

(* What the steps of a handler do: the request stays fine, nobody loses    *)
(* the second factor, and no lock is opened.                               *)
Fine(t) == /\ IInv'
           /\ \A u \in Users : /\ users[u].mfa => users'[u].mfa
                               /\ users[u].locked => users'[u].locked

LEMMA FinishStep ==
    ASSUME IInv, NEW t \in Tabs, NEW c \in {Keep, NoCookie}, NEW go \in Targets,
           Finish(t, c, go), UNCHANGED <<users, jar, browser, last>>
    PROVE  Fine(t)
<1>1. TabInv(Answer(c, go), users, last[browser[t]])
  BY PlainAnswerFine
<1>2. IInv'
  BY <1>1, TabStep DEF Finish, IInv, Typed, Grows
<1> QED BY <1>2 DEF Fine

LEMMA LoadStep ==
    ASSUME IInv, NEW t \in Tabs, tab[t].at = "asked", tab[t].path \in {"POST /", "POST /enroll"},
           Load(t), UNCHANGED <<users, jar, browser, last>>
    PROVE  Fine(t)
<1> DEFINE o == tab[t]
           x == [o EXCEPT !.at = "loaded", !.row = users[o.user]]
<1>1. o \in Tab /\ TabInv(o, users, last[browser[t]]) /\ users \in [Users -> Row]
  BY DEF IInv, Typed
<1>2. o.user \in Users /\ users[o.user] \in Row
  BY <1>1 DEF Tab
<1>3. tab' = [tab EXCEPT ![t] = x]
  BY <1>1 DEF Load, IInv, Typed, Tab
<1>4. /\ x.at = "loaded" /\ x.path = o.path /\ x.user = o.user /\ x.sent = o.sent
      /\ x.row = users[o.user] /\ x.set = o.set /\ x.goto = o.goto
  BY <1>1 DEF Tab
<1>5. x \in Tab
  BY <1>1, <1>2 DEF Tab
<1>6. TabTyped(x) /\ TabShape(x)
  BY <1>1, <1>4, <1>5 DEF TabInv, TabTyped, TabShape, Stay
<1>7. TabTrue(x, users) /\ TabLatest(x, last[browser[t]])
  BY <1>1, <1>4 DEF TabInv, TabTrue, TabLatest
<1>8. TabInv(x, users, last[browser[t]])
  BY <1>6, <1>7 DEF TabInv
<1>9. IInv'
  BY <1>1, <1>3, <1>8, TabStep DEF Grows
<1> QED BY <1>9 DEF Fine

LEMMA LogonLoadStep ==
    ASSUME IInv, NEW t \in Tabs, LogonLoad(t), UNCHANGED <<jar, browser, last>>
    PROVE  Fine(t)
<1>1. tab[t].at = "asked" /\ tab[t].path = "POST /"
  BY DEF LogonLoad, At
<1>2. Load(t) \/ \E go \in {Stay, "/"} : Finish(t, Keep, go)
  BY DEF LogonLoad
<1> QED BY <1>1, <1>2, LoadStep, FinishStep DEF LogonLoad, Targets

(* What Lock does to the rows.                                             *)
LEMMA LockFine ==
    ASSUME users \in [Users -> Row], NEW u \in Users, NEW copy,
           users' = [users EXCEPT ![u] = LockedRow(@, copy)]
    PROVE  /\ users' \in [Users -> Row] /\ Grows(users, users')
           /\ \A v \in Users : users[v].locked => users'[v].locked
BY DEF LockedRow, Row, Grows

LEMMA WrongPasswordStep ==
    ASSUME IInv, NEW t \in Tabs, WrongPassword(t), UNCHANGED <<jar, browser, last>>
    PROVE  Fine(t)
<1>1. /\ tab[t].user \in Users /\ users \in [Users -> Row] /\ Stay \in Targets
      /\ tab' = [tab EXCEPT ![t] = Answer(Keep, Stay)]
  BY DEF IInv, Typed, Tab, Targets, WrongPassword, Finish
<1>2. /\ users' \in [Users -> Row] /\ Grows(users, users')
      /\ \A u \in Users : users[u].locked => users'[u].locked
  <2>1. CASE UNCHANGED users
    BY <1>1, <2>1 DEF Grows
  <2>2. CASE users' = [users EXCEPT ![tab[t].user] = LockedRow(@, tab[t].row)]
    BY <1>1, <2>2, LockFine
  <2> QED BY <2>1, <2>2 DEF WrongPassword
<1>3. TabInv(Answer(Keep, Stay), users', last[browser[t]])
  BY <1>1, PlainAnswerFine
<1>4. IInv'
  BY <1>1, <1>2, <1>3, TabStep
<1> QED BY <1>2, <1>4 DEF Fine, Grows

LEMMA AdmitStep ==
    ASSUME IInv, NEW t \in Tabs, Admit(t), UNCHANGED <<jar, browser, last>>
    PROVE  Fine(t)
<1> DEFINE c == [user |-> tab[t].user, mfa |-> tab[t].row.mfa]
           go == IF tab[t].row.mfa THEN "/verify" ELSE "/enroll"
<1>1. /\ tab[t].user \in Users /\ tab[t].row \in Row /\ tab[t].at = "loaded"
      /\ TabInv(tab[t], users, last[browser[t]]) /\ users \in [Users -> Row]
  BY DEF IInv, Typed, Tab, Admit, At
<1>2. c \in Cookie /\ c.user = tab[t].user /\ c.mfa = tab[t].row.mfa
  BY <1>1 DEF Cookie, Row
<1>3. go \in {"/verify", "/enroll"} /\ go \in Targets /\ go # "/alerts"
  BY DEF Targets
<1>4. c.mfa => users[c.user].mfa
  BY <1>1, <1>2 DEF TabInv, TabTrue
<1>5. TabInv(Answer(c, go), users, last[browser[t]])
  BY <1>2, <1>3, <1>4, AnswerFine
<1>6. CASE Finish(t, c, go)
  <2>1. IInv'
    BY <1>1, <1>5, <1>6, TabStep DEF Finish, Admit, Grows
  <2> QED BY <2>1 DEF Fine, Admit
<1>7. CASE Finish(t, Keep, "/")
  BY <1>7, FinishStep DEF Admit, Targets
<1> QED BY <1>6, <1>7 DEF Admit

LEMMA EnrollLoadStep ==
    ASSUME IInv, NEW t \in Tabs, EnrollLoad(t), UNCHANGED <<jar, browser, last>>
    PROVE  Fine(t)
<1>1. tab[t].at = "asked" /\ tab[t].path = "POST /enroll"
  BY DEF EnrollLoad, At
<1>2. Load(t) \/ \E go \in {Stay, "/"} : Finish(t, Keep, go)
  BY DEF EnrollLoad
<1> QED BY <1>1, <1>2, LoadStep, FinishStep DEF EnrollLoad, Targets

LEMMA PageStep ==
    ASSUME IInv, NEW t \in Tabs, EnrollPage(t) \/ Verify(t) \/ AdminPage(t),
           UNCHANGED <<jar, browser, last>>
    PROVE  Fine(t)
<1>1. \E go \in {Stay, "/", "/alerts"} : Finish(t, Keep, go)
  BY DEF EnrollPage, Verify, AdminPage
<1> QED BY <1>1, FinishStep DEF EnrollPage, Verify, AdminPage, Targets

(* What Update does to the rows.                                           *)
LEMMA UpdateFine ==
    ASSUME users \in [Users -> Row], NEW t \in Tabs, tab[t].user \in Users, Update(t)
    PROVE  /\ users' \in [Users -> Row] /\ Grows(users, users')
           /\ users'[tab[t].user].mfa
           /\ \A u \in Users : users[u].locked => users'[u].locked
BY DEF Update, UpdatedRow, Row, Grows

LEMMA EnrollUpdateStep ==
    ASSUME IInv, NEW t \in Tabs, EnrollUpdate(t), UNCHANGED <<jar, browser, last>>
    PROVE  Fine(t)
<1> DEFINE o == tab[t]
           x == [o EXCEPT !.at = "updated", !.row = NoRow]
           l == last[browser[t]]
<1>1. /\ o \in Tab /\ o.user \in Users /\ TabInv(o, users, l) /\ users \in [Users -> Row]
      /\ o.at = "loaded" /\ o.path = "POST /enroll"
  BY DEF IInv, Typed, Tab, EnrollUpdate, At
<1>2. /\ users' \in [Users -> Row] /\ Grows(users, users') /\ users'[o.user].mfa
      /\ \A u \in Users : users[u].locked => users'[u].locked
  BY <1>1, UpdateFine DEF EnrollUpdate
<1>3. tab' = [tab EXCEPT ![t] = x]
  BY <1>1 DEF EnrollUpdate, IInv, Typed, Tab
<1>4. /\ x \in Tab /\ x.at = "updated" /\ x.path = o.path /\ x.user = o.user
      /\ x.sent = o.sent /\ x.set = o.set /\ x.goto = o.goto
  BY <1>1 DEF Tab, Row, NoRow
<1>5. TabInv(o, users', l)
  BY <1>1, <1>2, TabStays
<1>6. TabTyped(x) /\ TabShape(x)
  BY <1>1, <1>4 DEF TabInv, TabTyped, TabShape, Stay
<1>7. TabTrue(x, users') /\ TabLatest(x, l)
  BY <1>2, <1>4, <1>5 DEF TabInv, TabTrue, TabLatest
<1>8. TabInv(x, users', l)
  BY <1>6, <1>7 DEF TabInv
<1>9. IInv'
  BY <1>2, <1>3, <1>8, TabStep
<1> QED BY <1>2, <1>9 DEF Fine, Grows

LEMMA UpdateFailsStep ==
    ASSUME IInv, NEW t \in Tabs, UpdateFails(t), UNCHANGED <<jar, browser, last>>
    PROVE  Fine(t)
<1>1. /\ tab[t].user \in Users /\ users \in [Users -> Row] /\ "/" \in Targets
      /\ tab' = [tab EXCEPT ![t] = Answer(Keep, "/")]
  BY DEF IInv, Typed, Tab, Targets, UpdateFails, Finish
<1>2. /\ users' \in [Users -> Row] /\ Grows(users, users')
      /\ \A u \in Users : users[u].locked => users'[u].locked
  BY <1>1, UpdateFine DEF UpdateFails, Grows
<1>3. TabInv(Answer(Keep, "/"), users', last[browser[t]])
  BY <1>1, PlainAnswerFine
<1>4. IInv'
  BY <1>1, <1>2, <1>3, TabStep
<1> QED BY <1>2, <1>4 DEF Fine, Grows

LEMMA EnrollSaveStep ==
    ASSUME IInv, NEW t \in Tabs, EnrollSave(t), UNCHANGED <<jar, browser, last>>
    PROVE  Fine(t)
<1> DEFINE o == tab[t]
           c == [o.sent EXCEPT !.mfa = TRUE]
           l == last[browser[t]]
<1>1. /\ o \in Tab /\ TabInv(o, users, l) /\ users \in [Users -> Row]
      /\ o.at = "updated" /\ o.path = "POST /enroll"
  BY DEF IInv, Typed, EnrollSave, At
<1>2. o.sent # NoCookie /\ o.user = o.sent.user /\ users[o.user].mfa
  BY <1>1 DEF TabInv, TabTyped, TabTrue
<1>3. o.sent \in Cookie
  BY <1>1, <1>2 DEF Tab
<1>4. c \in Cookie /\ c.user = o.sent.user
  BY <1>3 DEF Cookie
<1>5. l # Keep => c.user = l
  BY <1>1, <1>4 DEF TabInv, TabLatest
<1>6. TabInv(Answer(c, "/alerts"), users, l)
  BY <1>2, <1>4, <1>5, AnswerFine DEF Targets
<1>7. CASE Finish(t, c, "/alerts")
  <2>1. IInv'
    BY <1>1, <1>6, <1>7, TabStep DEF Finish, EnrollSave, Grows
  <2> QED BY <2>1 DEF Fine, EnrollSave
<1>8. CASE Finish(t, Keep, "/")
  BY <1>8, FinishStep DEF EnrollSave, Targets
<1> QED BY <1>7, <1>8 DEF EnrollSave

LEMMA HandleStep ==
    ASSUME IInv, NEW t \in Tabs, Handle(t)
    PROVE  Fine(t)
BY LogonLoadStep, WrongPasswordStep, AdmitStep, EnrollLoadStep, PageStep,
   EnrollUpdateStep, UpdateFailsStep, EnrollSaveStep DEF Handle

(* Steps that only put an end to requests, or to a session.                *)
LEMMA LoseStep ==
    ASSUME IInv, NEW t \in Tabs, Lose(t)
    PROVE  IInv'
BY RestFine, TabStep DEF Lose, IInv, Typed, Grows

LEMMA ExpireStep ==
    ASSUME IInv, NEW b \in Browsers, Expire(b)
    PROVE  IInv'
BY DEF Expire, IInv, Typed, JarInv

LEMMA RestartStep ==
    ASSUME IInv, Restart
    PROVE  IInv'
<1>1. ASSUME NEW t \in Tabs PROVE TabInv(tab'[t], users, last[browser[t]])
  BY RestFine DEF Restart, IInv
<1>2. tab' \in [Tabs -> Tab]
  BY <1>1 DEF Restart, TabInv, TabTyped
<1> QED BY <1>1, <1>2 DEF Restart, IInv, Typed

(* Which session an answer begins, and which it leaves.                    *)
LEMMA ReceiveStep ==
    ASSUME IInv, NEW t \in Tabs, Receive(t)
    PROVE  IInv'
<1> DEFINE b == browser[t]
           c == IF tab[t].set = Keep THEN jar[b] ELSE tab[t].set
           x == IF tab[t].goto = Stay THEN Rest ELSE Arrived(tab[t].goto, c, AnyUser)
           l == Begun(t)
           signsOn == tab[t].set \in Cookie /\ tab[t].goto \in {"/enroll", "/verify"}
           signsOff == tab[t].set = NoCookie
           beside == \E s \in Tabs : browser[s] = b /\ Enrolling(s)
<1>1. /\ b \in Browsers /\ jar[b] \in Cookie \cup {NoCookie} /\ tab[t] \in Tab
      /\ last[b] \in Users \cup {NoCookie, Keep}
      /\ TabInv(tab[t], users, last[b]) /\ JarInv(jar[b], users, last[b])
  BY DEF IInv, Typed
<1>2. /\ tab[t].set \in Cookie \cup {NoCookie, Keep} /\ tab[t].goto \in Targets
      /\ tab[t].set \in Cookie => tab[t].goto \in {"/enroll", "/verify", "/alerts"}
      /\ tab[t].set \in Cookie /\ tab[t].set.mfa => users[tab[t].set.user].mfa
  BY <1>1 DEF Tab, TabInv, TabShape, TabTrue
<1>3. c \in Cookie \cup {NoCookie}
  BY <1>1, <1>2
<1>4. l = IF ~signsOn /\ ~signsOff THEN last[b]
          ELSE IF beside THEN Keep ELSE IF signsOff THEN NoCookie ELSE tab[t].set.user
  BY DEF Begun
<1>5. l \in Users \cup {NoCookie, Keep}
  BY <1>1, <1>4 DEF Cookie
<1>6. JarInv(c, users, l)
  <2>1. CASE tab[t].set = Keep
    BY <1>1, <1>4, <2>1, CookieAssumption, MarksAssumption
  <2>2. CASE tab[t].set = NoCookie
    BY <2>2, CookieAssumption DEF JarInv
  <2>3. CASE tab[t].set \in Cookie /\ tab[t].goto = "/alerts"
    <3>1. l = last[b] /\ c = tab[t].set
      BY <1>4, <2>3, MarksAssumption
    <3>2. l # Keep => c.user = l
      BY <1>1, <2>3, <3>1 DEF TabInv, TabLatest
    <3> QED BY <1>2, <2>3, <3>1, <3>2 DEF JarInv
  <2>4. CASE tab[t].set \in Cookie /\ tab[t].goto # "/alerts"
    <3>1. signsOn /\ ~signsOff /\ c = tab[t].set
      BY <1>2, <2>4, MarksAssumption
    <3>2. l # Keep => l = c.user
      BY <1>4, <3>1
    <3> QED BY <1>2, <2>4, <3>1, <3>2 DEF JarInv
  <2> QED BY <1>2, <2>1, <2>2, <2>3, <2>4
<1>7. TabInv(x, users, l)
  <2>1. CASE tab[t].goto = Stay
    BY <2>1, RestFine
  <2>2. CASE tab[t].goto # Stay
    <3>1. tab[t].goto \in Paths
      BY <1>2, <2>2 DEF Targets, Paths, OpenPaths, EnrollPaths
    <3> QED BY <1>3, <1>6, <2>2, <3>1, AnyUserType, ArrivedFine
  <2> QED BY <2>1, <2>2
<1>8. /\ jar' = [jar EXCEPT ![b] = c] /\ tab' = [tab EXCEPT ![t] = x]
      /\ last' = [last EXCEPT ![b] = l] /\ UNCHANGED <<users, browser>>
  BY DEF Receive
<1>9. ASSUME NEW s \in Tabs PROVE TabInv(tab'[s], users, last'[browser[s]])
  <2>1. TabInv(tab[s], users, last[browser[s]])
    BY DEF IInv
  <2>2. CASE s = t
    BY <1>1, <1>7, <1>8, <2>2 DEF IInv, Typed
  <2>3. CASE s # t /\ browser[s] # b
    BY <1>8, <2>1, <2>3 DEF IInv, Typed
  <2>4. CASE s # t /\ browser[s] = b
    <3>1. tab'[s] = tab[s] /\ last'[browser[s]] = l
      BY <1>1, <1>8, <2>4 DEF IInv, Typed
    <3>2. l = last[b] \/ l = Keep \/ ~Enrolling(s)
      BY <1>4, <2>4
    <3>3. TabLatest(tab[s], l)
      BY <2>1, <2>4, <3>2 DEF TabInv, TabLatest, Enrolling
    <3> QED BY <2>1, <3>1, <3>3 DEF TabInv
  <2> QED BY <2>2, <2>3, <2>4
<1>10. ASSUME NEW d \in Browsers PROVE JarInv(jar'[d], users, last'[d])
  BY <1>1, <1>6, <1>8 DEF IInv, Typed
<1>11. Typed'
  <2>1. x \in Tab
    BY <1>7 DEF TabInv, TabTyped
  <2> QED BY <1>1, <1>3, <1>5, <1>8, <2>1 DEF IInv, Typed
<1> QED BY <1>8, <1>9, <1>10, <1>11 DEF IInv

LEMMA InitFine == Init => IInv
<1> SUFFICES ASSUME Init PROVE IInv
  OBVIOUS
<1>1. Rest \in Tab
  BY RestFine DEF TabInv, TabTyped
<1> QED BY <1>1, RestFine DEF Init, IInv, Typed, JarInv

(* Every step keeps the invariant, the second factor and the locks.        *)
LEMMA StepFine ==
    ASSUME IInv, [Next]_vars
    PROVE  /\ IInv'
           /\ \A u \in Users : /\ users[u].mfa => users'[u].mfa
                               /\ users[u].locked => users'[u].locked
<1>1. ASSUME NEW t \in Tabs, NEW path \in Paths, NEW u \in Users, Ask(t, path, u)
      PROVE  IInv' /\ users' = users
  BY <1>1, AskStep DEF Ask
<1>2. ASSUME NEW t \in Tabs, Handle(t) PROVE Fine(t)
  BY <1>2, HandleStep
<1>3. ASSUME NEW t \in Tabs, Receive(t) PROVE IInv' /\ users' = users
  BY <1>3, ReceiveStep DEF Receive
<1>4. ASSUME NEW t \in Tabs, Lose(t) PROVE IInv' /\ users' = users
  BY <1>4, LoseStep DEF Lose
<1>5. ASSUME NEW b \in Browsers, Expire(b) PROVE IInv' /\ users' = users
  BY <1>5, ExpireStep DEF Expire
<1>6. CASE Restart
  BY <1>6, RestartStep DEF Restart
<1>7. CASE UNCHANGED vars
  BY <1>7 DEF vars, IInv, Typed, TabInv, TabTyped, TabShape, TabTrue, TabLatest, JarInv
<1> QED BY <1>1, <1>2, <1>3, <1>4, <1>5, <1>6, <1>7 DEF Next, Fine

LEMMA Invariance == Spec => []IInv
<1>1. IInv /\ [Next]_vars => IInv'
  BY StepFine
<1> QED BY <1>1, InitFine, PTL DEF Spec

----------------------------------------------------------------------------
(* The theorems                                                            *)

(* The variables keep their types, and a handler behind the middleware     *)
(* (auth.go:18-62) works with a cookie, for the user that is in it.        *)
THEOREM SessionTypeCorrect == Spec => []TypeOK
<1>1. IInv => TypeOK
  BY DEF IInv, Typed, TypeOK, TabInv, TabTyped
<1> QED BY <1>1, Invariance, PTL

(* No copy of the flag that a log-on (auth.go:125) or an enrolment         *)
(* (enroll.go:87) puts in a cookie is ever ahead of the row's.             *)
THEOREM EnrolledIsTrueAlways == Spec => []EnrolledIsTrue
<1>1. IInv => EnrolledIsTrue
  <2> SUFFICES ASSUME IInv, NEW c \in Copies \cap Cookie, c.mfa
               PROVE  users[c.user].mfa
    BY DEF EnrolledIsTrue
  <2>1. CASE \E b \in Browsers : c = jar[b]
    BY <2>1, MarksAssumption DEF IInv, JarInv
  <2>2. CASE \E t \in Tabs : c = tab[t].sent \/ c = tab[t].set
    BY <2>2 DEF IInv, TabInv, TabTrue
  <2> QED BY <2>1, <2>2 DEF Copies
<1> QED BY <1>1, Invariance, PTL

(* The answers of pages asked for before a log-on or a log-out do not      *)
(* bring the older session back (auth.go:116-153).                         *)
THEOREM SessionIsLatestAlways == Spec => []SessionIsLatest
<1>1. IInv => SessionIsLatest
  BY DEF IInv, JarInv, SessionIsLatest
<1> QED BY <1>1, Invariance, PTL

(* An enrolment's Update of an old copy (enroll.go:79) opens no lock.      *)
THEOREM LockIsFinalAlways == Spec => LockIsFinal
<1>1. IInv /\ [Next]_vars => [\A u \in Users : users[u].locked => users'[u].locked]_vars
  BY StepFine
<1> QED BY <1>1, Invariance, PTL DEF Spec, LockIsFinal

(* A log-on that locks a row it read before an enrolment (auth.go:107)     *)
(* does not undo the enrolment.                                            *)
THEOREM EnrolledForGoodAlways == Spec => EnrolledForGood
<1>1. IInv /\ [Next]_vars => [\A u \in Users : users[u].mfa => users'[u].mfa]_vars
  BY StepFine
<1> QED BY <1>1, Invariance, PTL DEF Spec, EnrolledForGood

----------------------------------------------------------------------------
(* Redirects                                                               *)

(* How far the answers and the paths are from a page.                      *)
LEMMA HopsAre ==
    ASSUME NEW go \in Targets
    PROVE  /\ Hops(go) \in {1, 2, 3, 4, 5}
           /\ go \in {Stay, "/"} => Hops(go) \in {1, 2}
BY DEF Targets, Stay, Hops

LEMMA WayIs ==
    ASSUME NEW p \in HandlerPaths
    PROVE  /\ Way(p) \in {3, 6, 7, 8}
           /\ p \in {"POST /", "POST /enroll"} => Way(p) \in {7, 8}
BY DEF Way, HandlerPaths, EnrollPaths, AdminPaths

LEMMA AnswerLeft ==
    ASSUME NEW c, NEW go \in Targets
    PROVE  StepsLeft(Answer(c, go)) = Hops(go)
<1>1. Answer(c, go).at = "answered" /\ Answer(c, go).goto = go
  BY DEF Answer, Rest
<1> QED BY <1>1 DEF StepsLeft

(* The middleware redirects to what is nearer to a page than any path      *)
(* behind it, and /enroll is never sent to itself.                         *)
LEMMA ArrivedNearer ==
    ASSUME NEW go \in Targets \ {Stay}, NEW c, NEW u
    PROVE  StepsLeft(Arrived(go, c, u)) < Hops(go)
<1> DEFINE a == Arrived(go, c, u)
<1>1. CASE Guard(go, c) # Stay
  <2>1. a = Answer(Keep, Guard(go, c))
    BY <1>1 DEF Arrived
  <2>2. StepsLeft(a) = Hops(Guard(go, c))
    BY <2>1, GuardType, AnswerLeft
  <2>3. /\ go \in {"/enroll", "/verify", "/alerts"}
        /\ Guard(go, c) \in {"/", "/enroll"}
        /\ Guard(go, c) = "/enroll" => go # "/enroll"
    BY <1>1 DEF Guard, OpenPaths, EnrollPaths, Targets, Stay
  <2> QED BY <2>2, <2>3 DEF Stay, Hops
<1>2. CASE Guard(go, c) = Stay /\ go \in {"/", "/verify", "/alerts"}
  <2>1. a = Answer(Keep, Stay)
    BY <1>2 DEF Arrived, Shown
  <2> QED BY <1>2, <2>1, AnswerLeft DEF Targets, Stay, Hops
<1>3. CASE Guard(go, c) = Stay /\ go = "/logout"
  <2>1. a = Answer(NoCookie, "/")
    BY <1>3 DEF Arrived, AdminPaths
  <2> QED BY <1>3, <2>1, AnswerLeft DEF Targets, Stay, Hops
<1>4. CASE Guard(go, c) = Stay /\ go = "/enroll"
  <2>1. a.at = "asked" /\ a.path = "/enroll"
    BY <1>4 DEF Arrived, Rest, AdminPaths
  <2>2. StepsLeft(a) = 3
    BY <2>1 DEF Way, StepsLeft
  <2> QED BY <1>4, <2>2 DEF Stay, Hops
<1> QED BY <1>1, <1>2, <1>3, <1>4 DEF Targets

(* What a step of tab t's own request does to its distance.                *)
LEMMA FinishNearer ==
    ASSUME IInv, NEW t \in Tabs, NEW c, NEW go \in Targets, Finish(t, c, go),
           Hops(go) < StepsLeft(tab[t])
    PROVE  StepsLeft(tab'[t]) < StepsLeft(tab[t])
BY AnswerLeft DEF Finish, IInv, Typed

LEMMA HandleNearer ==
    ASSUME IInv, NEW t \in Tabs, Handle(t)
    PROVE  StepsLeft(tab'[t]) < StepsLeft(tab[t])
<1> DEFINE x == tab[t]
           Smaller == StepsLeft(tab'[t]) < StepsLeft(x)
<1>0. x \in Tab /\ tab \in [Tabs -> Tab]
  BY DEF IInv, Typed
<1>1. /\ \A h \in {1, 2}, w \in {3, 6, 7, 8} : h < w
      /\ \A h \in {1, 2}, w \in {3, 7 - 1, 8 - 1} : h < w
      /\ \A h \in {1, 2, 3, 4, 5}, w \in {6, 7 - 1, 8 - 2} : h < w
      /\ \A w \in {7, 8} : w - 1 < w /\ w - 2 < w - 1
  OBVIOUS
<1>2. CASE LogonLoad(t) \/ EnrollLoad(t)
  <2>1. /\ x.at = "asked" /\ x.path \in {"POST /", "POST /enroll"}
        /\ StepsLeft(x) = Way(x.path)
    BY <1>2 DEF LogonLoad, EnrollLoad, At, StepsLeft
  <2>2. Way(x.path) \in {7, 8} /\ Way(x.path) \in {3, 6, 7, 8}
    BY <2>1, WayIs DEF HandlerPaths, EnrollPaths
  <2>3. ASSUME Load(t) PROVE Smaller
    <3>1. tab'[t].at = "loaded" /\ tab'[t].path = x.path
      BY <1>0, <2>3 DEF Load, Tab
    <3>2. StepsLeft(tab'[t]) = Way(x.path) - 1
      BY <3>1 DEF StepsLeft
    <3>3. Way(x.path) - 1 < Way(x.path)
      BY <1>1, <2>2, Zenon
    <3> QED BY <2>1, <3>2, <3>3, Zenon
  <2>4. ASSUME NEW go \in {Stay, "/"}, Finish(t, Keep, go)
        PROVE  Smaller
    <3>1. go \in Targets /\ Hops(go) \in {1, 2}
      BY HopsAre DEF Targets
    <3>2. Hops(go) < StepsLeft(x)
      BY <1>1, <2>1, <2>2, <3>1, Zenon
    <3> QED BY <2>4, <3>1, <3>2, FinishNearer
  <2> QED BY <1>2, <2>3, <2>4 DEF LogonLoad, EnrollLoad
<1>3. CASE WrongPassword(t) \/ UpdateFails(t) \/ EnrollPage(t) \/ AdminPage(t)
  <2>1. PICK go \in {Stay, "/"} : Finish(t, Keep, go)
    BY <1>3 DEF WrongPassword, UpdateFails, EnrollPage, AdminPage
  <2>2. StepsLeft(x) \in {3, 7 - 1, 8 - 1}
    BY <1>3 DEF WrongPassword, UpdateFails, EnrollPage, AdminPage, At, Way, StepsLeft, AdminPaths
  <2>3. go \in Targets /\ Hops(go) \in {1, 2}
    BY HopsAre DEF Targets
  <2>4. Hops(go) < StepsLeft(x)
    BY <1>1, <2>2, <2>3, Zenon
  <2> QED BY <2>1, <2>3, <2>4, FinishNearer
<1>4. CASE Admit(t) \/ EnrollSave(t) \/ Verify(t)
  <2>1. PICK c : \E go \in Targets : Finish(t, c, go)
    BY <1>4 DEF Admit, EnrollSave, Verify, Targets
  <2>2. PICK go \in Targets : Finish(t, c, go)
    BY <2>1
  <2>3. StepsLeft(x) \in {6, 7 - 1, 8 - 2}
    BY <1>4 DEF AdminPaths, Admit, EnrollSave, Verify, At, Way, StepsLeft
  <2>4. Hops(go) \in {1, 2, 3, 4, 5}
    BY HopsAre
  <2>5. Hops(go) < StepsLeft(x)
    BY <1>1, <2>3, <2>4, Zenon
  <2> QED BY <2>2, <2>5, FinishNearer
<1>5. CASE EnrollUpdate(t)
  <2>1. x.at = "loaded" /\ x.path = "POST /enroll"
    BY <1>5 DEF EnrollUpdate, At
  <2>2. tab'[t].at = "updated" /\ tab'[t].path = x.path
    BY <1>0, <1>5 DEF EnrollUpdate, Tab
  <2>3. StepsLeft(x) = Way(x.path) - 1 /\ StepsLeft(tab'[t]) = Way(x.path) - 2
    BY <2>1, <2>2 DEF StepsLeft
  <2>4. Way(x.path) \in {7, 8}
    BY <2>1, WayIs DEF HandlerPaths, EnrollPaths
  <2>5. Way(x.path) - 2 < Way(x.path) - 1
    BY <1>1, <2>4, Zenon
  <2> QED BY <2>3, <2>5, Zenon
<1> QED BY <1>2, <1>3, <1>4, <1>5 DEF Handle

LEMMA ReceiveNearer ==
    ASSUME IInv, NEW t \in Tabs, Receive(t)
    PROVE  StepsLeft(tab'[t]) < StepsLeft(tab[t])
<1> DEFINE go == tab[t].goto
<1>1. tab[t].at = "answered" /\ go \in Targets /\ tab \in [Tabs -> Tab]
  BY DEF Receive, IInv, Typed, Tab
<1>2. StepsLeft(tab[t]) = Hops(go)
  BY <1>1 DEF StepsLeft
<1>3. CASE go = Stay
  <2>1. tab'[t] = Rest
    BY <1>1, <1>3 DEF Receive
  <2>2. StepsLeft(Rest) = 0
    BY DEF Rest, StepsLeft
  <2> QED BY <1>2, <1>3, <2>1, <2>2 DEF Hops
<1>4. CASE go # Stay
  <2>1. PICK c : tab'[t] = Arrived(go, c, AnyUser)
    BY <1>1, <1>4 DEF Receive
  <2> QED BY <1>1, <1>2, <1>4, <2>1, ArrivedNearer
<1> QED BY <1>3, <1>4

(* Requests that are given up have no way left.                            *)
LEMMA RestNearest ==
    ASSUME NEW x \in Tab, TabShape(x), x.at # "rest"
    PROVE  StepsLeft(Rest) < StepsLeft(x)
<1>1. StepsLeft(Rest) = 0
  BY DEF Rest, StepsLeft
<1>2. /\ \A h \in {1, 2, 3, 4, 5} : 0 < h
      /\ \A w \in {3, 6, 7, 8} : 0 < w /\ 0 < w - 1 /\ 0 < w - 2
  OBVIOUS
<1>3. 0 < StepsLeft(x)
  <2>1. CASE x.at = "answered"
    <3>1. StepsLeft(x) = Hops(x.goto) /\ x.goto \in Targets
      BY <2>1 DEF StepsLeft, Tab
    <3>2. 0 < Hops(x.goto)
      BY <1>2, <3>1, HopsAre, Zenon
    <3> QED BY <3>1, <3>2, Zenon
  <2>2. CASE x.at \in {"asked", "loaded", "updated"}
    <3>1. x.path \in HandlerPaths
      BY <2>2 DEF Tab, TabShape
    <3>2. Way(x.path) \in {3, 6, 7, 8}
      BY <3>1, WayIs
    <3>3. 0 < Way(x.path) /\ 0 < Way(x.path) - 1 /\ 0 < Way(x.path) - 2
      BY <1>2, <3>2, Zenon
    <3>4. \/ StepsLeft(x) = Way(x.path)
          \/ StepsLeft(x) = Way(x.path) - 1
          \/ StepsLeft(x) = Way(x.path) - 2
      BY <2>2 DEF StepsLeft
    <3> QED BY <3>3, <3>4, Zenon
  <2> QED BY <2>1, <2>2 DEF Tab
<1> QED BY <1>1, <1>3, Zenon

(* No redirect leads away from a page (auth.go:18-62, methods.go:167),     *)
(* whatever happens to cookie and row between the hops: any request is     *)
(* answered with a page, or lost, after eight steps of its own.            *)
THEOREM RedirectsRunOutAlways == Spec => RedirectsRunOut
<1> DEFINE Nearer == \A t \in Tabs : tab[t].at # "rest" /\ tab'[t] # tab[t]
                        => StepsLeft(tab'[t]) < StepsLeft(tab[t])
<1>1. ASSUME IInv, [Next]_vars PROVE Nearer
  <2> SUFFICES ASSUME NEW t \in Tabs, tab[t].at # "rest", tab'[t] # tab[t]
               PROVE  StepsLeft(tab'[t]) < StepsLeft(tab[t])
    OBVIOUS
  <2>1. tab \in [Tabs -> Tab] /\ tab[t] \in Tab /\ TabShape(tab[t])
    BY <1>1 DEF IInv, Typed, TabInv
  <2>2. ASSUME NEW s \in Tabs, Handle(s) \/ Receive(s) PROVE s = t
    <3>1. \E y : tab' = [tab EXCEPT ![s] = y]
      BY <2>1, <2>2 DEF Handle, Receive, Finish, LogonLoad, WrongPassword, Admit, EnrollPage,
         EnrollLoad, EnrollUpdate, UpdateFails, EnrollSave, Verify, AdminPage, Load
    <3> QED BY <2>1, <3>1
  <2>3. CASE \E s \in Tabs : Handle(s) \/ Receive(s)
    BY <1>1, <2>2, <2>3, HandleNearer, ReceiveNearer
  <2>4. CASE \E s \in Tabs : Lose(s)
    <3>1. tab'[t] = Rest
      BY <2>1, <2>4 DEF Lose
    <3> QED BY <2>1, <3>1, RestNearest
  <2>5. CASE Restart
    <3>1. tab'[t] = Rest
      BY <2>5 DEF Restart
    <3> QED BY <2>1, <3>1, RestNearest
  <2>6. ASSUME NEW s \in Tabs, NEW path \in Paths, NEW u \in Users, Ask(s, path, u)
        PROVE  FALSE
    BY <2>1, <2>6 DEF Ask
  <2>7. CASE (\E b \in Browsers : Expire(b)) \/ UNCHANGED vars
    BY <2>7 DEF Expire, vars
  <2> QED BY <1>1, <2>3, <2>4, <2>5, <2>6, <2>7 DEF Next
<1>2. IInv /\ [Next]_vars => [Nearer]_vars
  BY <1>1
<1> QED BY <1>2, Invariance, PTL DEF Spec, RedirectsRunOut

----------------------------------------------------------------------------
(* Sessions implement SessionLedger                                        *)

(* The refinement mapping.                                                 *)
HeldBy == [b \in Browsers |-> Held(b)]
PassingBy == [b \in Browsers |-> Passing(b)]

(* The cookie a log-on that has found its account open may be issued.      *)
Due(x) == [user |-> x.user, mfa |-> x.row.mfa]
Through(x) == x.at = "loaded" /\ x.path = "POST /"

LEMMA Mapped ==
    /\ \A b \in Browsers : HeldBy[b] = Held(b) /\ PassingBy[b] = Passing(b)
    /\ \A b \in Browsers : HeldBy'[b] = Held(b)' /\ PassingBy'[b] = Passing(b)'
BY DEF HeldBy, PassingBy

(* A tab's new request brings into circulation what it carries, at most.   *)
LEMMA TabCarries ==
    ASSUME IInv, NEW t \in Tabs, NEW x, tab' = [tab EXCEPT ![t] = x],
           UNCHANGED <<jar, browser>>, NEW b \in Browsers, NEW c
    PROVE  /\ c \in Held(b)' => c \in Held(b) \/ (b = browser[t] /\ c \in {x.sent, x.set} /\ c \in Cookie)
           /\ c \in Passing(b)' => c \in Passing(b) \/ (b = browser[t] /\ Through(x) /\ c = Due(x))
<1>1. /\ tab \in [Tabs -> Tab] /\ tab'[t] = x
      /\ \A s \in Tabs : s # t => tab'[s] = tab[s]
  BY DEF IInv, Typed
<1>2. c \in Held(b)' => c \in Held(b) \/ (b = browser[t] /\ c \in {x.sent, x.set} /\ c \in Cookie)
  BY <1>1 DEF Held, Copied
<1>3. ASSUME c \in Passing(b)'
      PROVE  c \in Passing(b) \/ (b = browser[t] /\ Through(x) /\ c = Due(x))
  <2>1. PICK s \in Tabs : browser[s] = b /\ Through(tab'[s]) /\ c = Due(tab'[s])
    BY <1>3 DEF Passing, Through, Due, At
  <2>2. CASE s = t
    BY <1>1, <2>1, <2>2
  <2>3. CASE s # t
    BY <1>1, <2>1, <2>3 DEF Passing, Through, Due, At
  <2> QED BY <2>2, <2>3
<1> QED BY <1>2, <1>3

Dwindles == Ledger!Drops(HeldBy', HeldBy) /\ Ledger!Drops(PassingBy', PassingBy)

(* A request that carries nothing new takes from what is in circulation.   *)
LEMMA TabDwindles ==
    ASSUME IInv, NEW t \in Tabs, NEW x, tab' = [tab EXCEPT ![t] = x],
           UNCHANGED <<jar, browser>>, ~Through(x),
           {x.sent, x.set} \cap Cookie \subseteq Held(browser[t])
    PROVE  Dwindles
<1>1. ASSUME NEW b \in Browsers
      PROVE  Held(b)' \subseteq Held(b) /\ Passing(b)' \subseteq Passing(b)
  BY TabCarries
<1> QED BY <1>1, Mapped DEF Dwindles, Ledger!Drops

(* A log-on gets through.                                                  *)
LEMMA TabPasses ==
    ASSUME IInv, NEW t \in Tabs, NEW x, tab' = [tab EXCEPT ![t] = x],
           UNCHANGED <<jar, browser>>,
           {x.sent, x.set} \cap Cookie \subseteq Held(browser[t])
    PROVE  /\ Ledger!Drops(HeldBy', HeldBy)
           /\ Ledger!Gains(PassingBy', PassingBy, browser[t], Due(x))
<1>1. ASSUME NEW a \in Browsers
      PROVE  /\ Held(a)' \subseteq Held(a)
             /\ Passing(a)' \subseteq IF a = browser[t] THEN Passing(a) \cup {Due(x)} ELSE Passing(a)
  BY TabCarries
<1> QED BY <1>1, Mapped DEF Ledger!Drops, Ledger!Gains

(* What a request carries is in circulation.                               *)
LEMMA OwnHeld ==
    ASSUME IInv, NEW t \in Tabs
    PROVE  /\ browser[t] \in Browsers
           /\ {tab[t].sent, tab[t].set, jar[browser[t]]} \cap Cookie \subseteq Held(browser[t])
           /\ Through(tab[t]) => Due(tab[t]) \in Passing(browser[t])
BY DEF IInv, Typed, Held, Copied, Passing, Through, Due, At

LEMMA AnswerCarries ==
    ASSUME NEW c, NEW go
    PROVE  /\ ~Through(Answer(c, go))
           /\ {Answer(c, go).sent, Answer(c, go).set} \cap Cookie \subseteq {c} \cap Cookie
BY MarksAssumption DEF Answer, Rest, Through

LEMMA FinishDwindles ==
    ASSUME IInv, NEW t \in Tabs, NEW go, Finish(t, Keep, go), UNCHANGED <<jar, browser>>
    PROVE  Dwindles
<1> DEFINE x == Answer(Keep, go)
<1>1. tab' = [tab EXCEPT ![t] = x]
  BY DEF Finish
<1>2. ~Through(x) /\ {x.sent, x.set} \cap Cookie \subseteq Held(browser[t])
  BY AnswerCarries, MarksAssumption
<1> HIDE DEF x
<1> QED BY <1>1, <1>2, TabDwindles

LEMMA RestCarries == ~Through(Rest) /\ {Rest.sent, Rest.set} \cap Cookie = {}
BY MarksAssumption DEF Rest, Through

(* A request carries its browser's cookie, or nothing.                     *)
LEMMA ArrivedCarries ==
    ASSUME NEW path, NEW c, NEW u
    PROVE  LET x == Arrived(path, c, u)
           IN  ~Through(x) /\ {x.sent, x.set} \cap Cookie \subseteq {c} \cap Cookie
<1> DEFINE x == Arrived(path, c, u)
<1>1. CASE \E k \in {Keep, NoCookie} : \E go : x = Answer(k, go)
  BY <1>1, AnswerCarries, MarksAssumption
<1>2. CASE x = [Rest EXCEPT !.at = "asked", !.path = path, !.user = u]
  BY <1>2, MarksAssumption DEF Rest, Through
<1>3. CASE x = [Rest EXCEPT !.at = "asked", !.path = path, !.user = c.user, !.sent = c]
  BY <1>3, MarksAssumption DEF Rest, Through
<1>4. CASE Guard(path, c) # Stay
  BY <1>1, <1>4 DEF Arrived
<1> DEFINE plain == \/ path \in {"/", "/verify", "/alerts", "/logout"}
                    \/ path \in AdminPaths /\ c.user \notin Admins
<1>5. CASE Guard(path, c) = Stay /\ plain
  BY <1>1, <1>5 DEF Arrived, Shown, AdminPaths
<1>6. CASE Guard(path, c) = Stay /\ ~plain
  BY <1>2, <1>3, <1>6 DEF Arrived
<1> QED BY <1>4, <1>5, <1>6

LEMMA LedgerAsks ==
    ASSUME IInv, NEW t \in Tabs, NEW path \in Paths, NEW u \in Users, Ask(t, path, u)
    PROVE  Ledger!Drop
<1> DEFINE x == Arrived(path, jar[browser[t]], u)
<1>1. tab' = [tab EXCEPT ![t] = x] /\ UNCHANGED <<users, jar, browser>>
  BY DEF Ask
<1>2. ~Through(x) /\ {x.sent, x.set} \cap Cookie \subseteq Held(browser[t])
  BY ArrivedCarries, OwnHeld
<1> HIDE DEF x
<1>3. Dwindles
  BY <1>1, <1>2, TabDwindles
<1> QED BY <1>1, <1>3 DEF Dwindles, HeldBy, PassingBy, Ledger!Drop

LEMMA LedgerFinishes ==
    ASSUME IInv, NEW t \in Tabs, NEW go, Finish(t, Keep, go), UNCHANGED <<users, jar, browser>>
    PROVE  Ledger!Drop
BY FinishDwindles DEF Dwindles, HeldBy, PassingBy, Ledger!Drop

(* A row is loaded: by a log-on that finds the account open, or by an      *)
(* enrolment.                                                              *)
LEMMA LedgerLoads ==
    ASSUME IInv, NEW t \in Tabs, tab[t].at = "asked", Load(t), UNCHANGED <<users, jar, browser>>,
           tab[t].path = "POST /" => ~users[tab[t].user].locked
    PROVE  Ledger!Drop \/ \E b \in Browsers : \E u \in Users : Ledger!Find(b, u)
<1> DEFINE o == tab[t]
           x == [o EXCEPT !.at = "loaded", !.row = users[o.user]]
           b == browser[t]
<1>1. o \in Tab /\ o.user \in Users /\ b \in Browsers
  BY OwnHeld DEF IInv, Typed, Tab
<1>2. tab' = [tab EXCEPT ![t] = x]
  BY <1>1 DEF Load, IInv, Typed, Tab
<1>3. /\ x.at = "loaded" /\ x.path = o.path /\ x.user = o.user /\ x.sent = o.sent
      /\ x.row = users[o.user] /\ x.set = o.set
  BY <1>1 DEF Tab
<1>4. {x.sent, x.set} \cap Cookie \subseteq Held(b)
  BY <1>3, OwnHeld
<1> HIDE DEF x
<1>5. CASE o.path = "POST /"
  <2>1. Due(x) = [user |-> o.user, mfa |-> users[o.user].mfa]
    BY <1>3 DEF Due
  <2>2. Ledger!Drops(HeldBy', HeldBy) /\ Ledger!Gains(PassingBy', PassingBy, b, Due(x))
    BY <1>2, <1>4, TabPasses
  <2>3. Ledger!Find(b, o.user)
    BY <1>5, <2>1, <2>2 DEF HeldBy, PassingBy, Ledger!Find
  <2> QED BY <1>1, <2>3
<1>6. CASE o.path # "POST /"
  <2>1. Dwindles
    BY <1>2, <1>3, <1>4, <1>6, TabDwindles DEF Through
  <2> QED BY <2>1 DEF Dwindles, HeldBy, PassingBy, Ledger!Drop
<1> QED BY <1>5, <1>6

LEMMA LedgerRefuses ==
    ASSUME IInv, NEW t \in Tabs, WrongPassword(t), UNCHANGED <<jar, browser>>
    PROVE  Ledger!Drop \/ \E b \in Browsers : \E c \in PassingBy[b] : Ledger!Lock(b, c)
<1> DEFINE c == Due(tab[t])
           b == browser[t]
<1>1. b \in Browsers /\ c \in PassingBy[b] /\ c.user = tab[t].user
  BY OwnHeld, Mapped DEF WrongPassword, At, Through, Due
<1>2. Dwindles
  BY FinishDwindles DEF WrongPassword
<1>3. CASE UNCHANGED users
  BY <1>2, <1>3 DEF Dwindles, HeldBy, PassingBy, Ledger!Drop
<1>4. CASE users' = [users EXCEPT ![tab[t].user] = LockedRow(@, tab[t].row)]
  <2>1. users' = [users EXCEPT ![c.user].locked = TRUE]
    BY <1>1, <1>4 DEF LockedRow
  <2> HIDE DEF c
  <2>2. Ledger!Lock(b, c)
    BY <1>1, <1>2, <2>1 DEF Dwindles, HeldBy, PassingBy, Ledger!Lock
  <2> QED BY <1>1, <2>2
<1> QED BY <1>3, <1>4 DEF WrongPassword

(* The answer of a log-on or an enrolment carries a cookie.                *)
LEMMA FinishGains ==
    ASSUME IInv, NEW t \in Tabs, NEW c \in Cookie, NEW go, Finish(t, c, go),
           UNCHANGED <<jar, browser>>
    PROVE  /\ Ledger!Gains(HeldBy', HeldBy, browser[t], c)
           /\ Ledger!Drops(PassingBy', PassingBy)
<1> DEFINE x == Answer(c, go)
<1>1. tab' = [tab EXCEPT ![t] = x]
  BY DEF Finish
<1>2. ~Through(x) /\ {x.sent, x.set} \cap Cookie \subseteq {c}
  BY AnswerCarries
<1> HIDE DEF x
<1>3. ASSUME NEW a \in Browsers
      PROVE  /\ Held(a)' \subseteq IF a = browser[t] THEN Held(a) \cup {c} ELSE Held(a)
             /\ Passing(a)' \subseteq Passing(a)
  BY <1>1, <1>2, TabCarries
<1> QED BY <1>3, Mapped DEF Ledger!Gains, Ledger!Drops

LEMMA LedgerAdmits ==
    ASSUME IInv, NEW t \in Tabs, Admit(t), UNCHANGED <<jar, browser>>
    PROVE  Ledger!Drop \/ \E b \in Browsers : \E c \in PassingBy[b] : Ledger!Issue(b, c)
<1> DEFINE c == Due(tab[t])
           b == browser[t]
<1>1. b \in Browsers /\ c \in PassingBy[b] /\ c \in Cookie /\ UNCHANGED users
  BY OwnHeld, Mapped DEF Admit, At, Through, Due, IInv, Typed, Tab, Row, Cookie
<1>2. CASE \E go : Finish(t, c, go)
  <2> HIDE DEF c
  <2>1. Ledger!Issue(b, c)
    BY <1>1, <1>2, FinishGains DEF HeldBy, PassingBy, Ledger!Issue
  <2> QED BY <1>1, <2>1
<1>3. CASE Finish(t, Keep, "/")
  BY <1>1, <1>3, LedgerFinishes
<1> QED BY <1>2, <1>3 DEF Admit, Due

LEMMA LedgerUpdates ==
    ASSUME IInv, NEW t \in Tabs, EnrollUpdate(t) \/ UpdateFails(t), UNCHANGED <<jar, browser>>
    PROVE  Ledger!Drop \/ \E b \in Browsers : \E c \in HeldBy[b] : Ledger!Enrol(b, c)
<1> DEFINE o == tab[t]
           c == o.sent
           b == browser[t]
<1>1. /\ o \in Tab /\ o.at = "loaded" /\ o.path = "POST /enroll" /\ TabInv(o, users, last[b])
  BY DEF IInv, Typed, EnrollUpdate, UpdateFails, At
<1>2. c \in Cookie /\ c.user = o.user
  BY <1>1 DEF TabInv, TabTyped, Tab
<1>3. b \in Browsers /\ c \in HeldBy[b]
  BY <1>2, OwnHeld, Mapped
<1>4. Dwindles
  <2>1. CASE EnrollUpdate(t)
    <3> DEFINE x == [o EXCEPT !.at = "updated", !.row = NoRow]
    <3>1. tab' = [tab EXCEPT ![t] = x]
      BY <1>1, <2>1 DEF EnrollUpdate, IInv, Typed, Tab
    <3>2. ~Through(x) /\ {x.sent, x.set} \cap Cookie \subseteq Held(b)
      BY <1>1, OwnHeld DEF Through, Tab
    <3> HIDE DEF x
    <3> QED BY <3>1, <3>2, TabDwindles
  <2>2. CASE UpdateFails(t)
    BY <2>2, FinishDwindles DEF UpdateFails
  <2> QED BY <2>1, <2>2
<1>5. CASE UNCHANGED users
  BY <1>4, <1>5 DEF Dwindles, HeldBy, PassingBy, Ledger!Drop
<1>6. CASE Update(t)
  <2>1. users' = [users EXCEPT ![c.user].mfa = TRUE]
    BY <1>2, <1>6 DEF Update, UpdatedRow
  <2> HIDE DEF c
  <2>2. Ledger!Enrol(b, c)
    BY <1>3, <1>4, <2>1 DEF Dwindles, HeldBy, PassingBy, Ledger!Enrol
  <2> QED BY <1>3, <2>2
<1> QED BY <1>5, <1>6 DEF EnrollUpdate, UpdateFails

LEMMA LedgerSaves ==
    ASSUME IInv, NEW t \in Tabs, EnrollSave(t), UNCHANGED <<jar, browser>>
    PROVE  Ledger!Drop \/ \E b \in Browsers : \E c \in HeldBy[b] : Ledger!Exchange(b, c)
<1> DEFINE o == tab[t]
           c == o.sent
           b == browser[t]
<1>1. /\ o \in Tab /\ o.at = "updated" /\ o.path = "POST /enroll" /\ TabInv(o, users, last[b])
      /\ UNCHANGED users
  BY DEF IInv, Typed, EnrollSave, At
<1>2. c \in Cookie /\ c.user = o.user /\ users[c.user].mfa
  BY <1>1 DEF TabInv, TabTyped, TabTrue, Tab
<1>3. b \in Browsers /\ c \in HeldBy[b]
  BY <1>2, OwnHeld, Mapped
<1>4. [c EXCEPT !.mfa = TRUE] \in Cookie
  BY <1>2 DEF Cookie
<1>5. CASE Finish(t, [c EXCEPT !.mfa = TRUE], "/alerts")
  <2>1. /\ Ledger!Gains(HeldBy', HeldBy, b, [c EXCEPT !.mfa = TRUE])
        /\ Ledger!Drops(PassingBy', PassingBy)
    BY <1>4, <1>5, FinishGains
  <2> HIDE DEF c
  <2>2. Ledger!Exchange(b, c)
    BY <1>1, <1>2, <1>3, <2>1 DEF HeldBy, PassingBy, Ledger!Exchange
  <2> QED BY <1>3, <2>2
<1>6. CASE Finish(t, Keep, "/")
  BY <1>1, <1>6, LedgerFinishes
<1> QED BY <1>5, <1>6 DEF EnrollSave

LEMMA LedgerHandles ==
    ASSUME IInv, NEW t \in Tabs, Handle(t)
    PROVE  Ledger!Next
<1>1. UNCHANGED <<jar, browser>>
  BY DEF Handle
<1>2. CASE LogonLoad(t) \/ EnrollLoad(t)
  <2>1. tab[t].at = "asked" /\ UNCHANGED users
    BY <1>2 DEF LogonLoad, EnrollLoad, At
  <2>2. \/ Load(t) /\ (tab[t].path = "POST /" => ~users[tab[t].user].locked)
        \/ \E go : Finish(t, Keep, go)
    BY <1>2 DEF LogonLoad, EnrollLoad, At
  <2> QED BY <1>1, <2>1, <2>2, LedgerLoads, LedgerFinishes DEF Ledger!Next
<1>3. CASE WrongPassword(t)
  BY <1>1, <1>3, LedgerRefuses DEF Ledger!Next, PassingBy
<1>4. CASE Admit(t)
  BY <1>1, <1>4, LedgerAdmits DEF Ledger!Next, PassingBy
<1>5. CASE EnrollPage(t) \/ Verify(t) \/ AdminPage(t)
  BY <1>1, <1>5, LedgerFinishes DEF EnrollPage, Verify, AdminPage, Ledger!Next
<1>6. CASE EnrollUpdate(t) \/ UpdateFails(t)
  BY <1>1, <1>6, LedgerUpdates DEF Ledger!Next, HeldBy
<1>7. CASE EnrollSave(t)
  BY <1>1, <1>7, LedgerSaves DEF Ledger!Next, HeldBy
<1> QED BY <1>2, <1>3, <1>4, <1>5, <1>6, <1>7 DEF Handle

(* A received answer's cookie was in circulation already.                  *)
LEMMA LedgerReceives ==
    ASSUME IInv, NEW t \in Tabs, Receive(t)
    PROVE  Ledger!Drop
<1> DEFINE b == browser[t]
           c == IF tab[t].set = Keep THEN jar[b] ELSE tab[t].set
           x == IF tab[t].goto = Stay THEN Rest ELSE Arrived(tab[t].goto, c, AnyUser)
<1>1. /\ tab \in [Tabs -> Tab] /\ jar \in [Browsers -> Cookie \cup {NoCookie}] /\ b \in Browsers
      /\ jar' = [jar EXCEPT ![b] = c] /\ tab' = [tab EXCEPT ![t] = x]
      /\ UNCHANGED <<users, browser>>
  BY DEF Receive, IInv, Typed
<1>2. {c} \cap Cookie \subseteq Held(b)
  BY OwnHeld
<1>3. ~Through(x) /\ {x.sent, x.set} \cap Cookie \subseteq {c} \cap Cookie
  <2> HIDE DEF x
  <2>1. CASE x = Rest
    BY <2>1, RestCarries
  <2>2. CASE x = Arrived(tab[t].goto, c, AnyUser)
    BY <2>2, ArrivedCarries
  <2> QED BY <2>1, <2>2 DEF x
<1> HIDE DEF c, x
<1>4. ASSUME NEW a \in Browsers, NEW k \in Held(a)' PROVE k \in Held(a)
  <2>1. CASE k = jar'[a]
    BY <1>1, <1>2, <1>4, <2>1 DEF Held, Copied
  <2>2. CASE \E s \in Tabs : browser'[s] = a /\ k \in {tab'[s].sent, tab'[s].set}
    <3>1. PICK s \in Tabs : browser[s] = a /\ k \in {tab'[s].sent, tab'[s].set} /\ k \in Cookie
      BY <1>1, <1>4, <2>2 DEF Held
    <3>2. CASE s = t
      BY <1>1, <1>2, <1>3, <3>1, <3>2
    <3>3. CASE s # t
      BY <1>1, <3>1, <3>3 DEF Held, Copied
    <3> QED BY <3>2, <3>3
  <2> QED BY <1>4, <2>1, <2>2 DEF Held, Copied
<1>5. ASSUME NEW a \in Browsers, NEW k \in Passing(a)' PROVE k \in Passing(a)
  <2>1. PICK s \in Tabs : browser[s] = a /\ Through(tab'[s]) /\ k = Due(tab'[s])
    BY <1>1, <1>5 DEF Passing, Through, Due, At
  <2>2. s # t
    BY <1>1, <1>3, <2>1
  <2> QED BY <1>1, <2>1, <2>2 DEF Passing, Through, Due, At
<1>6. Dwindles
  BY <1>4, <1>5, Mapped DEF Dwindles, Ledger!Drops
<1> QED BY <1>1, <1>6 DEF Dwindles, HeldBy, PassingBy, Ledger!Drop

(* Answers, cookies and handlers that come to nothing.                     *)
LEMMA LedgerLoses ==
    ASSUME IInv, (\E t \in Tabs : Lose(t)) \/ (\E b \in Browsers : Expire(b)) \/ Restart
    PROVE  Ledger!Drop
<1>1. /\ \A t \in Tabs : tab'[t] \in {tab[t], Rest}
      /\ \A b \in Browsers : jar'[b] \in {jar[b], NoCookie}
      /\ UNCHANGED <<users, browser>>
  BY DEF Lose, Expire, Restart, IInv, Typed
<1>2. NoCookie \notin Cookie /\ Rest.sent \notin Cookie /\ Rest.set \notin Cookie /\ ~Through(Rest)
  BY MarksAssumption, RestCarries
<1>3. ASSUME NEW a \in Browsers, NEW k \in Held(a)' PROVE k \in Held(a)
  BY <1>1, <1>2, <1>3 DEF Held, Copied
<1>4. ASSUME NEW a \in Browsers, NEW k \in Passing(a)' PROVE k \in Passing(a)
  <2>1. PICK s \in Tabs : browser[s] = a /\ Through(tab'[s]) /\ k = Due(tab'[s])
    BY <1>1, <1>4 DEF Passing, Through, Due, At
  <2>2. tab'[s] = tab[s]
    BY <1>1, <1>2, <2>1
  <2> QED BY <2>1, <2>2 DEF Passing, Through, Due, At
<1>5. Dwindles
  BY <1>3, <1>4, Mapped DEF Dwindles, Ledger!Drops
<1> QED BY <1>1, <1>5 DEF Dwindles, HeldBy, PassingBy, Ledger!Drop

LEMMA LedgerInit == Init => Ledger!Init
<1> SUFFICES ASSUME Init PROVE Ledger!Init
  OBVIOUS
<1>1. users \in [Users -> [mfa : BOOLEAN, locked : {FALSE}]]
  BY DEF Init, Row
<1>2. ASSUME NEW b \in Browsers PROVE Held(b) = {} /\ Passing(b) = {}
  BY MarksAssumption DEF Init, Rest, Held, Copied, Passing, At
<1> QED BY <1>1, <1>2 DEF Ledger!Init

(* AuthorizeMiddleware and the handlers of the session (auth.go:18-153,    *)
(* enroll.go:46-92), whatever becomes of their requests, do what           *)
(* SessionLedger promises.                                                 *)
THEOREM SessionsImplemented == Spec => ImplementsSessions
<1>1. IInv /\ [Next]_vars => [Ledger!Next]_(Ledger!vars)
  <2> SUFFICES ASSUME IInv, [Next]_vars PROVE [Ledger!Next]_(Ledger!vars)
    OBVIOUS
  <2>1. ASSUME NEW t \in Tabs, NEW path \in Paths, NEW u \in Users, Ask(t, path, u)
        PROVE  Ledger!Next
    BY <2>1, LedgerAsks DEF Ledger!Next
  <2>2. ASSUME NEW t \in Tabs, Handle(t) PROVE Ledger!Next
    BY <2>2, LedgerHandles
  <2>3. ASSUME NEW t \in Tabs, Receive(t) PROVE Ledger!Next
    BY <2>3, LedgerReceives DEF Ledger!Next
  <2>4. CASE (\E t \in Tabs : Lose(t)) \/ (\E b \in Browsers : Expire(b)) \/ Restart
    BY <2>4, LedgerLoses DEF Ledger!Next
  <2>5. CASE UNCHANGED vars
    BY <2>5 DEF vars, Ledger!vars, Held, Copied, Passing, At
  <2> QED BY <2>1, <2>2, <2>3, <2>4, <2>5 DEF Next
<1> QED BY <1>1, LedgerInit, Invariance, PTL DEF Spec, ImplementsSessions, Ledger!Spec
=============================================================================
