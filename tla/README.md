# AutoRun Logger UI: models, checks and proofs

TLA+ models of the user interface server of AutoRun Logger
(`src/source/src/info-assure/`, called `ia/` below), the TLC runs that check them
and the theorems TLAPS proves about them.

The server is a small program with little state of its own. It has an HTTP
handler per page, a session cookie, a pool of PostgreSQL connections, and tables
it shares with the analysis server. What makes it hard is that every handler is
a sequence of separate SQL statements, run among other handlers, other analysts
and the imports of the analysis server, and that the browser carries the rest of
the state from one request to the next, as old as it may be.

## 1. Inventory

Every handler runs in a goroutine of its own (`net/http`). Handlers share nothing
in memory but the pool `db` (`ia/main.go:126`), `config` and `sessionStore`.

| Part | State | Operations | Model |
|---|---|---|---|
| Alert classification `ia/alerts.go`, `ia/classified.go` | table `classification`; pool of `MaxOpenConns` = 16 connections; a transaction per form | `routeAlerts`, `routeClassified`, `performAlertClassification`, the page query | `Classification` |
| Paging of the lists `ia/alerts.go`, `classified.go`, `routes.go`, `single_host.go`, `methods.go` | `current_page_num`, `num_recs_per_page` in the browser; the tables | `getAlerts`, `getClassifiedAlerts`, `getSearch`, `getPagedSingleHostAutoruns`, `processCurrentPageNumber` | `Paging` |
| Log-on and account lock `ia/auth.go`, `user.go` | `users.login_attempts`, `users.is_locked`; the handler's copy of the row | `routeLogonPost`, `CheckPassword`, `IncrementLoginAttempts`, `ResetLoginAttempts`, `Lock` | `Logon` |
| Single host view `ia/single_host.go`, `queries.go` | hidden `instance`, search box, page number in the browser; tables `instance`, `current_autoruns` | `routeSingleHost`, `getHosts`, `getInstanceFromHost`, page, CSV export | `SingleHost` |
| Sessions `ia/auth.go`, `methods.go` | an encrypted cookie: `authed`, `user_id`, `account_type`, `mfa_set` | `AuthorizeMiddleware`, log-on, `/logout` | `Session` |
| Second factor `ia/enroll.go`, `verify.go` | `users.mfa_secret`, `users.is_mfa_set`, the cookie's copy | `/enroll`, `/verify`, `Update` | `Session` |
| User administration `ia/user.go`, `users.go` | table `users` | `/users`, `/users/new`, `Exists`, `Add`, `SetPassword`; `Delete` and `Unlock` have no caller | `UserAdmin`, `Session` |
| Search `ia/routes.go:20` | the form's fields | `routeSearch`, `getSearch` | `Search`; lists in `Paging` |
| Export files `ia/routes.go:198` | table `export`, files in `export_dir` | `routeExport`, `routeExportData` | not modelled: only reads what the analysis server writes |
| Start-up `ia/main.go`, `config.go` | `config` | `loadConfig`, `initialiseDatabase`, `setupHttpServer` | not modelled: sequential, runs once |
| `database/sql`, `lib/pq`, `dat` | pool counters, connections | waiting for a connection, retries of broken ones | inside `Classification`, as the handlers use them |
| Analysis server, agent, schema | `alert`, `instance`, `current_autoruns` | inserts, imports | not in the repository: environment actions and constants |

How they interact. The browser posts a form that repeats what the last page
carried. A handler takes a pool connection for each statement, and one more for a
transaction. The analysis server writes alerts and replaces the autoruns of a
host at any time. Analysts meet only in the tables.

What is hard, and what correctness means:

- *Classification.* A transaction's connection is held while each statement waits
  for a second one. Statements may fail, be sent twice, or run after the handler
  has given up. Correct: nothing leaks and nobody waits for ever; the answer is
  true of what was done; of two analysts who classify one alert, at most one is
  told so if the schema allows one; the answered page does not list what was just
  classified.
- *Paging.* Offsets move under the analyst; one row too many is fetched and
  dropped. Correct: who leafs to the end sees every row that stayed, but for one
  row for each entry that left; there is a Next button exactly if there is a next
  row.
- *Log-on.* Handlers read the counter, spend long in bcrypt, and write their copy
  plus one. Correct: no lock without enough wrong passwords, no limit without a
  lock, few log-ons after the lock, and guessing without end ends locked.
- *Single host.* What is shown is decided by fields that belong to different
  moments: the search box, the hidden instance, the hidden page. Correct: the name
  over the data is the data's host; the pages leafed through are of one import; a
  search shows the newest import there was; Next shows the next page; Export
  exports.
- *Sessions, second factor.* The cookie is the state; answers of several tabs
  overwrite it in any order, and copies of columns in it are never refreshed.
  Correct: the session is the latest log-on's; the cookie never claims a second
  factor the row does not have, whatever failed between the two writes; nothing
  that is written later undoes a lock or an enrolment; the redirects end on a page.
- *User administration.* Check-then-act on the user name, an account added whose
  password then cannot be set, a password shown only once. Correct: the password
  shown opens the one account of the name; an account nobody can use has a cause.
- *Search.* Which button posts what. Correct: a filled in form is searched for.

`PROJECT.json` lists each hazard at its line with the properties that cover it.

## 2. The modules

| Module | What it is |
|---|---|
| `ClassificationForms` | the posted forms and the rows of `classification`: data shared by the next two |
| `ClassificationLedger` | abstract: what the service promises an analyst, without pool, transaction, retries |
| `Classification` | the handlers, statement by statement, over the pool; refines the ledger |
| `ClassificationProofs`, `VisibilityProofs` | its theorems; the second is about what pages show and who is told what |
| `Logon`, `LogonProofs` | the log-on handler and the lock; its theorems |
| `SessionLedger` | abstract: what cookies are in circulation, and what may be done with them |
| `Session`, `SessionProofs` | cookies, middleware, second factor, log-out; refines the ledger; its theorems |
| `AccountLedger` | abstract: what adding a user promises, without statements, retries, restarts |
| `UserAdmin`, `UserAdminProofs` | adding users, statement by statement; refines the ledger; its theorems |
| `Paging`, `PagingProofs` | one list, one analyst who leafs, everybody else who changes it; its theorems |
| `SingleHost`, `SingleHostProofs` | the single host view against imports; its theorems |
| `Search`, `SearchProofs` | the search page's form and buttons; its theorem |
| `MC*` | model values, the forms or stamps of each instance |

Operators named `X_...` behind the comment "Fault:" are broken variants of the
operator `X`. The specifications do not use them. Each is a bug such code
might have, and for each checked property there is one that violates it
(`PROJECT.json`, "mutants").

### Classification

| Code | Model |
|---|---|
| the switch on `mode`, missing or empty `ids`, the `IsNumber` loop (`alerts.go:85-102, 174-180`) | `Precheck`, `Valid` in `Submit` |
| `db.Begin()` (182) | `Begin`, `BeginFails`; waits while `inUse = MaxOpenConns` |
| `DELETE` of each id, on `db` (190-203) | `SendStatement`, `Delete`, loop in `StatementSucceeds`, break in `StatementFails` |
| one multi-row `INSERT`, on `db` (206-217) | `SendStatement`, `Insert` |
| `tx.Commit()` (219-228), whose error is only logged | `Commit` |
| `getAlerts`, `getClassifiedAlerts` | `SendQuery`, `ReadPage`, `ReadFails` |

`stmt[r]` is the statement as PostgreSQL sees it: the handler may stop waiting
(`NetworkFails`) while it is still `"running"`. `ServerCloses` is lib/pq turning a
closed connection into `driver.ErrBadConn`, which makes `database/sql` send the
statement again, up to `MaxAttempts` times. `effect` is history: the alerts the
request has changed in the table.

Abstracted. The connection of a statement is taken and returned with it. The Begin of `dat`
is one step. A page is the whole list (`Paging` cuts it). The `verified` filter of `/alerts`
only makes the list smaller; a form whose `verified` is none of the four changes nothing and
is answered with the list, like the form of kind "alerts" without a mode. User id and
timestamp of a row are the request that wrote it. The handlers' test for user id -1 cannot
succeed, as the middleware has redirected such a request. Whether the schema forbids two
classifications of an alert is not in the repository and is the constant `UniqueAlert`.

### Logon

A handler is `Exists`, `Load`, `CheckPassword`, then `Bump`, `Lock`, `Clear` after a
wrong password or `Admit` after a right one. Each is one statement, and each may
fail (`Fault`), with what the code then does: the first three answer, the rest
only log. `Incremented` is the `int16` addition. `MaxFailedLogins` may be 0, what
the configuration's field is if left out. `wrongs` and `lateIns` are history.
What the session cookie gets is left to `Session`.

### Session

| Code | Model |
|---|---|
| the cookie's `authed`, `user_id`, `account_type`, `mfa_set` | `Cookie`: the user and the flag; the id fixes name and type, which nothing changes |
| `AuthorizeMiddleware` (`auth.go:18-62`) | `Guard`, in `Arrived` |
| log-on (71-137): row, lock, password, cookie | `LogonLoad`, `WrongPassword`, `Admit` |
| `/logout` (140-153), others than administrators on their pages | `Arrived` |
| an administrator's pages, and their errors, which redirect to `/` (`users.go`, `user.go:418-451`) | `AdminPage` |
| `/enroll`: row read, code checked, `Update`, cookie saved | `EnrollPage`, `EnrollLoad`, `EnrollUpdate`, `UpdateFails`, `EnrollSave` |
| `/verify`, which reads the row and writes nothing | `Shown`, `Verify` |
| the browser | `Ask`, `Receive` (stores the cookie, follows the redirect), `Lose`, `Expire` |

A tab has one request on its way and belongs to a browser, whose `jar` all its tabs
share. The handler works with the copy of the cookie the request was sent with
(`sent`) and, after the database was read, with its copy of the row (`row`). Whether
a password or a code is right is a choice. Checking password and counting it is
one step here and `Logon`'s subject; the two modules meet at `Admit` and `Lock`.
`LockedRow` and `UpdatedRow` say which columns the two UPDATEs write: `Update` writes
five, and neither `is_locked` nor `login_attempts` is among them. `last` is history.
`Restart` ends the handlers; the cookies stay good, as their key is a literal
(`main.go:90`). `/alerts` stands for all pages of an analyst, which are guarded alike.

`SessionLedger` has neither tabs nor requests, only the cookies in circulation in a browser
(`Held`: in its jar, sent with a request, on the way in an answer) and those its log-ons are
about to be issued (`Passing`: the handlers between the lock and the password). It says of
each step what is in circulation afterwards at most, as anything may get lost. A `Receive`
is a `Drop`: it moves a cookie that was in circulation into the jar. Pages, redirects, the
middleware and restarts are `Drop`s, too, which is what it means that they begin nothing.

### UserAdmin

`routeUserNewPost` is `Check` (`Exists`, then `Validate`), `Add`, `SetPassword`, with their
failures; `AddFails` and `SetPasswordFails` include the statement that was carried
out though its answer was lost, `AddTwice` the one that was sent again over a new
connection. A statement may also outlive its handler, which got an error or was ended by
a `Restart`: its post is in `late`, and `RunLate` runs it at any time or never.
`Show` is the administrator's browser, which waits for the answer to its last post only.
Whether `users.username` has a unique key is not in the repository:
`unique` is chosen at the start, and each property says which of the two it is about.
Rows that were there before would only add names that are always refused. `broken` and
`beside` are history. No fairness: the properties are about safety. `Told` says in the words
of `AccountLedger` what the administrator has been told: an answer once it is given, and
"unknown" after an error or a restart. `Show` is a stutter of the ledger, a `Restart` a
`Crash` of all posts it has not answered, and `RunLate` is the ledger's `Late`, which happens
to posts told "unknown" only.

### Paging

The list is a set of entries, and the place of one in it is the number of entries before it
(`Index`, for an order the query may find its rows in, `Orders`). `Cut` is `LIMIT n + 1
OFFSET n * page`, `Data` the rows the handler gets for a cut, and `Dropped` the rows that
may be the last of them, which the handler removes. For the two lists of alerts the cut is
of an unordered subquery: the model lets PostgreSQL scan the table in the order it was
written (`written` is an alert's place in the table; in a sorted list, which does not depend
on it, only whether the row is there), the usual order of a sequential scan, and sorts
afterwards as the query does. The lists of search and single host are sorted before they are
cut, ties in any order. `Entries` says how often an alert is in the list: the classified
list joins the classifications, and joins them again outside the cut (in `Data`).

The page number is posted by the page that is shown; a failed query leaves the
browser on it. After "classify" and "unclassify" the handlers answer with the first
page of the list, like a fresh GET (`processCurrentPageNumber`); the change itself
is `Mark` or `Unmark`, by this or another analyst. `Replace` is an import that takes rows of
a host out of `current_autoruns`. "sorted" stands for three lists: search over the alerts,
search over the autoruns, which loses and gains rows, and a single host's list, which only
loses them. The model lets each do what any of them does.

The variable `view` is the list leafed through; it is chosen once, as no page leads
from one list into the middle of another.

`paging_lists` assumes `Tidy`, that alerts are written in the strict order of their
timestamps and sorted lists have no ties, and `MaxMarks` = 1, that the schema lets an
alert be classified once. Without the first the code does skip rows, see `paging_skip`;
without the second too, see section 5.

### SingleHost

The handler is `FindHost` (search box before drop down), `FindInstance` (hidden
instance before the newest), then `LoadPage` or `Export`. Between them the analysis
server may `Import`. `view` is the page in the browser, `req` the posted form.
`Match` stands for the `LIKE` in `getHosts`, which tells upper from lower case.
`getInstanceFromHost` does not, and neither looks at the domain. So the machines are not the names
(`Name`): two machines may share one, or differ in the case of theirs (`Lower`), and
`Newest` takes the import with the latest timestamp among all that are `Called` so, any of
them if it is not the only one. Timestamps are in any order and may be equal. What the
properties promise of a name is therefore that the data is of a machine called so; that it
is the machine's own is promised by a theorem if the names differ (`OwnDataIfNamesApart`).
That `current_autoruns` holds only a host's newest rows is concluded from the code:
search joins it to `instance` without asking for the newest, and the documents call
its data "current". The rows themselves are left out, only whether an instance has
any. `edited` is history: some page of autoruns was sent with another name in the
box and the hidden instance has been carried along since.

### Search

The state is the page in the browser. `Buttons` says which modes it can post: the
button "Search" has none, the others are part of a result. `Answer` is `routeSearch` with
its early returns, `Result` and `Blank` are `loadSearchData`, which drops what was filled
in but the value. Rows come and go (`Change`).

## 3. The runs

| Run | Question | Instance | Outcome |
|---|---|---|---|
| `two` | do two analysts with any mix of forms get true answers, and answers at all? | 2 requests of 9 and 3 forms, 2 alerts, 3 connections, 2 attempts; 318 k states | holds |
| `race` | three changes of one alert, schema with a unique key | 3 requests, 3 connections, 1 attempt; 300 k states | holds |
| `wedge` | as many changes as connections | 2 requests, 2 connections | `NoWedge` violated |
| `logon_race` | can overlapping handlers and errors lock wrongly, or guessing never lock? | 3 handlers, limit 2, a counter of -3..2, 2 errors; 206 k states | holds |
| `session` | can overlapping, lost or late answers, failed writes or restarts give a wrong session, or one the ledger does not know? | 2 tabs of 1 or 2 browsers, 2 accounts, 1 administrator; 300 k states | holds |
| `users` | does adding users leave only accounts somebody can use, or say why not, and implement the ledger? | 3 posts of 2 administrators, a good and a refused name, with and without a unique key, posts interchangeable (symmetry); 743 k states | holds |
| `paging_lists` | does leafing show every row of each list? | 4 rows, pages of 1 and 2, 4 changes; 158 k states | holds |
| `paging_skip` | two alerts of one second | pages of 1, nothing changes | `MissedBounded` violated |
| `host_browse` | is what is shown right, fresh, and on the page asked for? | 4 machines: two of one name, one with that name in lower case, one whose name contains theirs; 2 timestamps, 3 imports, 3 pages, the machines of one name interchangeable (symmetry); 1.8 M states | holds |
| `host_label` | search for another host from a page | same machines and imports, 2 pages | `NameIsTrue` violated |
| `host_download` | does Export download? | same | `ExportDownloads` violated |
| `search_press` | does Search search? | 1 value, 2 pages | `SearchSearches` violated |

`MissedBounded` is the same property in `paging_lists` and `paging_skip`, and `NoWedge`
in `two` and `wedge`: the difference is the instance, so the pairs show which
assumption the code depends on. `race` may stop for good, as its three requests can
take all three connections, so it does not check for deadlock; that it stops only
then is `WedgeNeedsFullHouse`.

### Why the bounds are enough

- *Classification.* Two requests on two alerts already give every overlap of two
  statements; three give a winner, a loser and an unclassification between. Two
  attempts give the retry after the statement ran, and the give up. The pool is as
  small as lets two transactions and a statement overlap. The
  theorems lift the safety properties to every number of requests, alerts,
  connections and attempts.
- *Logon.* Three handlers: one that locks, one that overwrites, one already past
  the check. The counter is narrow so that it overflows within the run; limit and
  maximum coincide, the hardest case of the increment. `wrongs` stops counting at
  `MaxWrongs`, above the limit. The theorems hold for all values.
- *Session.* Two tabs give every pair of a request and one that overtakes it, in one
  jar or in two; a third tab only repeats what the second can do, as a handler meets the
  others only in the jar and in one row. Two accounts tell "the same user's" from
  "another's". The theorems hold for any numbers.
- *UserAdmin.* Three posts: one that wins, one beside it, one that comes later; or two of
  one administrator and one of another. A refused name meets a good one. The theorems
  hold for any numbers.
- *Search.* One page of a result, and one before and after it.
- *Paging.* Four rows over pages of one or two are four or two pages, enough for a
  row to move across two edges, each edge between two pages that exist. A change
  count of four lets a row leave and return twice. The theorems hold for all values.
- *SingleHost.* Three imports are a machine's, one that replaces it, with a later, the same or an
  earlier stamp, and one of a namesake or of another machine. Three pages have a first, an
  inner and a last one. The theorems hold for all values.

### Fairness

`two`: a handler that can step does (the Go scheduler; `database/sql`
hands a freed connection to a waiting caller) and PostgreSQL ends the
statements somebody waits for. Nothing obliges a browser to post or a fault to
occur. Waiting for a connection is modelled by a guard that holds only while one
is free, and the fairness is weak: a handler that could starve there would show
as a counterexample. `logon_race`: a handler runs to its answer.
`session`: a handler runs to its answer, which arrives unless it is lost; nobody has to
ask for anything, and no fairness is assumed of the network, of `Expire` or `Restart`.
`users` and `host_browse` check safety and assume none.

`paging_lists` has no fairness at all, as nobody has to click: `EveryRowSeen` is
conditional on an analyst who again and again opens the first page and gets to
the last, and `GuessingEndsLocked` on somebody who goes on guessing.

## 4. What is proved

With TLAPS, for all values of the constants that satisfy the named assumptions of the
modules. They say only: finite sets of requests and handlers, a pool of at least one
connection, at least one attempt, ids of a classify form distinct (the page lists an alert
once), a limit between 0 and the counter's maximum, a user name without an account, a name
for each machine, marks that are no cookies, administrators who are users, finitely many
rows with stamps and pages of at least one row. A theorem that needs more says so as its
hypothesis.

`ClassificationProofs`:

- `TypeCorrect`, `PoolCorrect`, `AnswersCorrect` (the message is true of the table),
  `WedgeCorrect` (a wedge needs as many classifications as connections, all between
  `Begin` and `Exec`), `SmallLoadNeverWedges` (`NoWedge` whenever there are fewer
  requests than connections), `LedgerImplemented` (`Spec => Ledger!Spec`).
- `PoolConserved` and `AnswerTellsTruth` are not inductive. What a request has done
  follows from where it is and from what became of its statement, which `IInv`
  spells out per request: nothing yet while `Untouched`; an index into the form's
  ids in `OnlyValidRuns`; a statement running without a handler belongs to a failed
  request (`OrphanFailed`), which will be told to refresh (`FailureReported`); the
  ids the loop has passed are in `effect` (`Progress`); the message is true from the
  moment it is chosen (`MessageTrue`). The last of them is what makes a late
  statement harmless: it belongs to a request that was told "refresh".
- The pool is counted by `PoolMove`: a step from one place to another takes or gives
  back what the two places hold differently.
- `RetriesRunOutAlways`: `PlacesLeft` is the measure that makes `EveryPostAnswered` true.
  `ResendNearer` is its heart: a statement is on its way again, whether it is the next
  `DELETE` or a retry, only after `SendsLeft` has gone down. The ids still to be deleted
  times `MaxAttempts` outweigh the attempts a new id starts with. It needs, beyond `IInv`,
  that `idx` stays 1 for an `INSERT` (`OneInsert`), and that no other request touches
  the four variables the measure is made of (`OthersStill`). What is left to fairness,
  and so to TLC, is that a handler that can move does, and that the pool has a free
  connection again and again.
- The refinement maps each step to the ledger's `Ask`, `Mark`, `Clear`, `Tell` or
  a stutter (`LedgerAsks`, `LedgerMarksOrClears`, `LedgerTells`, `LedgerStutters`).

`LogonProofs`:

- `TypeCorrect`; `LocksEarned` from `CountInv`: a counter, in the table or in a
  handler's copy, is never ahead of the wrong passwords tried; a lost update loses
  one but invents none, nor does the overflow.
- `LimitLocks`: `LimitMeansLock` is inductive with the types.
- `LateLogonsBounded` from `LateInv`: after the lock, log-ons so far plus handlers past
  the check stay below the number of handlers, since no handler passes any more.

`VisibilityProofs`, on top of `ClassificationProofs`:

- `ReadYourWritesAlways` and `NoDoubleClaimAlways` from `VInv`, which relates the table to
  what each request has done: what is in `effect` of a classification is in the table or
  was cleared since (`Kept`), an answered page lists only what was cleared
  (`SeenOnlyIfCleared`), and with a unique key two classifications have the same alert in
  their effects only if it was cleared in between (`OnceUnlessCleared`).

`SessionProofs`:

- `IInv` says of every tab what its request may carry (`TabTyped`, `TabShape`), that no copy
  of the flag is ahead of the row (`TabTrue`) and whose session an answer may bring back
  (`TabLatest`), and the same of every jar (`JarInv`). `EnrolledIsTrue` alone is not
  inductive: the flag of a handler's row becomes the cookie's, and an enrolment that has
  updated the row will set it in a cookie it has yet to write.
- `ArrivedFine` is the heart: what a request becomes when it reaches the middleware is
  within `IInv` for every path and cookie; `ReceiveStep` uses it for redirects.
- `LockIsFinalAlways` and `EnrolledForGoodAlways` follow step by step from the columns the
  statements write.

- `RedirectsRunOutAlways`: every step of a tab's own request brings it nearer to a page
  (`HandleNearer` for the handlers, `ReceiveNearer` for redirects), by the measure
  `StepsLeft`, and no step of another changes it. `ArrivedNearer` is where circles could
  be: the middleware sends a request only to `/` or `/enroll`, which are nearer than what
  it guards, and `/enroll` is never sent to itself. The cookie may be any cookie, so a
  change between two hops does no harm. The theorem needs from `IInv` the paths a
  tab's request can be at, place by place (`TabShape`).
- `SessionsImplemented` is the refinement of `SessionLedger`. `TabCarries` is the fact about its
  mapping everything else rests on: a step of one tab brings into circulation only what that
  tab's new request carries, and only in that tab's browser. From `IInv` the refinement needs
  that an enrolment works for the user of the cookie it was sent with, and that his row is
  written before the cookie is exchanged (`LedgerUpdates`, `LedgerSaves`).

`UserAdminProofs`: `IInv` adds to the types what an answer implies about its row (`AnswersTrue`), that
with a unique key no two rows have one name and no row is doubled (`Apart`), and that
in any case two posts of one name that have added a row, or still may, have been between
`Exists` and `Add` together (`Overlap`).
`AccountsImplemented` is the refinement of `AccountLedger`, a lemma for each kind of step: a
handler's check is a refusal, a `GiveUp` or a stutter, its INSERT a `Create` or, if the handler
gets an error for it, a `GiveUp` that leaves the account behind; the password is set in the
step that announces it. `LedgerLate` needs from `AnswersTrue` that a late statement belongs to a post
that was told nothing definite, and that its name had passed `Validate`.
`ToldMoves` and `ToldStays` carry the refinement mapping: only the
post that moves is told anything.

`SearchProofs`: `SearchNeverStarts` is the finding of `search_press` for all values, fields and
results: the page with a single button that posts no mode answers itself.

`SingleHostProofs`: `IInv` follows the instance through the round trip: what a page carries
(`Offered`), what a form posts (`Posted`), what the handler has chosen (`Chosen`), and that
the instance carried is of a machine called like the host named, unless edited (`Named`).
`NewestFine` is all that is needed of the choice of an instance: it is an import of the
name, and none of the name has a later stamp. `DoneStep` says once for all answers that only
the page they leave behind has to be looked at. `NameIsTrueAlways` is about the name, as
that is all the code goes by. `OwnDataIfNamesApart` draws the conclusion for machines whose
names differ in more than case (`NamesApart`): then the data under a name is of the machine
with just that name.

`PagingProofs`:

- The places of a list have no gaps: an injection of a finite set into as many places takes
  each of them (`PlacesTaken`), so a window of places below the size holds as many
  elements as places (`PlacesCut`), and the places are `Index`, the number of entries before
  one, for every order the query may use (`IndexType`). So `CutCounts` knows how many rows a page gets,
  and with them whether it has a Next button.
- `NextIsTrueAlways`, under `OneEach` (a row is one entry of the list: `MaxMarks` = 1, or the
  classified list is left out). `NextIsTrue` is inductive with the types as `ButtonTrue`,
  which says it of the page in the browser while the next one is being asked for, too.
- `MissedBoundedAlways`, under `OneEach` and `Tidy`. At the last page alone the property is
  not inductive. `WalkInv` says it of every page: of the rows that stayed, those the analyst
  has leafed past without seeing (`Behind`) are at most as many as entries have left
  (`gone`). An entry that leaves moves every row up by one place at most (`RankDrops`) and
  only one row is at the edge of the page, so `Behind` grows by one at most (`MarkWalk`);
  one that joins moves rows back only (`RankGrows`); and a page holds all of its places,
  whichever row was dropped (`PageHolds`), so that a query leaves nothing behind
  (`ReadWalk`). Under `Tidy` the order of writing is that of the stamps and the place of a
  row is its `Rank`.
- Neither hypothesis can be done without: `paging_skip` is the counterexample without
  `Tidy`, and with `MaxMarks` = 2 TLC finds one without `OneEach`.

Only model-checked: liveness (`EveryPostAnswered`, `GuessingEndsLocked`, `EveryRowSeen`,
`RequestsSettle`), which with fairness is beyond this prover. Of `EveryPostAnswered` and
`RequestsSettle` the part that does not depend on fairness is proved, as
`RetriesRunOut` and `RedirectsRunOut`. `NameIsTrue`, `ExportDownloads` and
`SearchSearches` are refuted by their runs; of `NoWedge` and `MissedBounded`, which other
runs refute, `SmallLoadNeverWedges` and `MissedBoundedAlways` say when they hold.

## 5. Where the code departs from what it says

1. `wedge`: sixteen classifications at once stop the server for good
   (`alerts.go:193, 212`, statements on `db` inside a transaction).
2. `paging_skip`: alerts with equal timestamps (or written out of order) may be on
   no page, without anything changing.
3. `host_label`: a new name in the search box over the old host's data.
4. `host_download`: Export for a host whose name is part of another's shows the
   picker.
5. `search_press`: the Search button posts no mode (`templates/search.html:77`), which
   `routeSearch` takes for the first visit; the buttons that post one are part of a
   result, so no search can be started.

Seen while reading, and not the subject of a run:

- The transaction of a classification is empty: its statements run on `db`
  (`alerts.go:193, 212`), so an unclassification that fails half way stays half done.
  `ClassificationLedger` therefore promises a step per alert.
- The messages of a classification are handed to templates that print none
  (`alerts.go:126`, `templates/alerts.html`).
- An alert classified twice counts as four rows against a page of `/classified` and pushes
  another off the last one (`alerts.go:36`, `MissedBounded` fails with `MaxMarks` = 2), if
  the schema lets two analysts classify it, which the handlers do nothing to prevent.
- The users page has buttons to edit, unlock, reset and delete (`templates/users.html:68-71`),
  for which there are no routes; `User.Unlock` and `User.Delete` have no caller. A lock is
  final (`LockIsFinal`).
- The single host view takes the newest import of any machine of the name, whatever its domain
  and the case of the name (`single_host.go:142`), while the picker lists each spelling of
  a name once (`queries.go:34-39`). A namesake's data can stand under the name, and what
  the others sent last cannot be reached by it. `NameIsTrueUnlessEdited` promises no more than the name.
- An import between a page and its export leaves the page's instance without rows: the
  place `single_host.go:236` says is never reached is.
- An answer of `/enroll` carries the whole cookie of its request, and can bring back a
  session that was logged out meanwhile; `SessionIsLatest` excepts exactly this.
- The tag `session_timeout_seconds` lacks its closing quote (`config.go:16`): it is not
  read, and `MaxAge` is 0. An enrolment saves the cookie with the store's own options.
- Who is no administrator and opens `/users` is logged out (`users.go:15`).
- A second post of a new user, before the first is answered, is refused and hides the answer
  with the password; `LostPasswordHasCause` names this cause beside errors and restarts.
- `getExports` lists the ten oldest exports (`routes.go:245-246`); the page has no choice for
  the User and Host exports of `documents/information.md`.

## 6. Plan

Done: `Classification`, `Logon`, `Session`, `UserAdmin`, `Paging`, `SingleHost`, `Search`, with the
theorems above. Left, in this order:

1. A composition of `Session` and `UserAdmin`: accounts that are added while others log on,
   and the log-on to one of two twins (`NewUserByUsername` reads whichever row comes first).
2. Theorems of the abstract specifications themselves, which their refinements then inherit.

## 7. Not modelled

- Exports (`routes.go:198-312`): two pages that read the table `export` and a file. They
  change nothing, all failures have the same answer, and what can go wrong (a file replaced
  while it is read) depends on the writer, which is not in the repository.
- Start-up and configuration: sequential, runs once; its values are constants of the models.
- Logging, templates and static files but for the forms and buttons a page offers and the
  message it does not print.
- Password rules and hashes: right or wrong is a choice in `CheckPassword`, and so is a code.
  `ValidatePassword`, `checkCommonPasswords`, `Delete` and `Unlock` have no caller.
- The contents of rows and CSV files.
- A crash of the server in `Classification`, `Logon` and `SingleHost` loses only requests in
  flight: their statements run or not, like those of `NetworkFails`, and the pool starts
  empty. `Session` and `UserAdmin`, where two writes belong together, have `Restart`.
- In `Session` and `Logon` a statement whose answer is lost has run, or never will, by the
  time its handler learns of it. Statements that run later still are in `Classification` and
  `UserAdmin`. An `Update` of `Session` that ran late would set the second factor for somebody
  whose cookie was in circulation when it was sent, and may not be any more.
