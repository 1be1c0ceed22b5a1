# omahtobk2026 in TLA+

A verification project for the tryout platform of this repository: TLA+ models
of its services, TLC configurations that check them on small instances, and
theorems about them that TLAPS checks for every value of the constants.

## The system

A participant's browser (`web`, Next.js) talks to `api-gateway` (Go, Fiber),
which checks the session with `auth-service`, limits the rate of requests with
counters in Redis and forwards them to `tryout-service`, `soal-service` and
`minat-bakat-service`. Every service has a PostgreSQL database of its own;
`soal-service` keeps images in an object store as well. Services call each other
over HTTP: the gateway calls auth, tryout calls soal for answer keys.

| Part | State | Operations | What is hard | What must hold |
|---|---|---|---|---|
| tryout-service, attempts (`tryout_svc.go`, `tryout_repo.go`, `tryout_handler.go`) | `tryout_attempt`, `time_limit`, `user_answers` | start an attempt; start, save, sync, submit a subtest; finish; show the current attempt | a request works on an attempt it chose in an earlier transaction; requests are repeated, late or concurrent; time runs out between two steps | subtests in order, none skipped; no time lost; no answers after the limit; the rows of `time_limit` match the progress |
| tryout-service, scores (`score_svc.go`, `score_repo.go`) | `user_scores`, `tryout_attempt.tryout_score` | score some or all subtests of an attempt | concurrent calls, rows locked in random order, a call to another service in between, detached retries lost in a crash | scores are those of the final answers; the final average counts every row; calls end |
| tryout-service, pages (`page_svc.go`, `page_repo.go`) | none of its own | progress, scores, leaderboard | a page scores what is missing while requests do | as for scores |
| auth-service, sessions (`refresh_token_svc.go`) | `refresh_tokens` | login, refresh (rotation), logout | find, revoke and store are three statements | a token is exchanged once; a revoked one stays so |
| auth-service, accounts (`auth_svc.go`) | `users` | register, request a reset, reset the password | three goroutines, any of which may fail | a link that was confirmed works until it is replaced, used or too old |
| api-gateway, sessions (`middleware/auth.go`) | `refreshInFlight` | resolve the session of a request | single flight: requests that arrive while a refresh runs, and just after | one refresh per token at a time; everybody waiting is answered |
| api-gateway, rate limits (`redis_rate_limiter.go`) | a Redis key per client and group | count a request | GET, SET and INCR are not atomic; keys expire in between | how many requests pass in a window; a client is let in again |
| soal-service, questions and images (`soal_svc.go`, `soal_repo.go`, `storage.go`) | question and answer tables, the bucket | read questions and keys, upload an image | a row and an object that have to match | no row without its object |
| soal-service, import (`soal_import_svc.go`) | the same | import a ZIP bundle | uploads before the commit, cleanup after a failure | a failed import changes nothing |
| minat-bakat-service (`mb_svc.go`) | attempts and results | score a test and choose roles | ties, limits | the ranking is what the weights say |
| web, question screen (`tryout-question-screen.tsx`) | the answers on the screen, in localStorage and in sessionStorage; the calls under way; the timer's modals | edit, autosave, hand in, log out, go to another question, close the tab | calls end after the screen that made them is gone, are given up and arrive all the same; the client's clock and the service's differ | what was typed is not lost, and is what is handed in |
| web, legacy test pages (`answer-card.tsx`, `[subtest]/page.tsx`, `intro`, the dashboard's start button) | the answers in the card and in localStorage, a minute of grace | prepare and begin a subtest, edit, sync, hand in | a page loads in several calls, each of which may begin something or lead elsewhere | what is marked as synced is saved; nobody is kept at a page that loads, or after the time |
| web, sessions (`middleware.ts`, `fetch_user.ts`, `auth.ts`) | the cookies of the browser, a map of refreshes under way | open a page, log in, register, reset, log out | several tabs, one set of cookies; answers that bring a token are lost or late | the exchange of tokens costs nobody the session |
| web, Career Match Up (`career-test.tsx`, `submit/route.ts`, `result/`) | the choices, the guest id, the carousel's place | answer, hand in, look at the result | a guest id is given with an answer that may not come | the result shown is the latest one |

The other parts of the web client, start-up, logging, metrics, the gateway's
proxying and deployment are under *Not modelled*.

## Modules

`TryoutAttempt` is the core: one action per transaction of the attempt's
operations. `Exam` is the abstract specification of what an attempt promises the
participant. `ScoreStore` is the score service alone, for any number of
concurrent calls. `Tryout` composes `TryoutAttempt` and `ScoreStore` and adds
those who call for scores: requests, detached refreshes and progress pages.
`RateLimiter` and `Session` are of the gateway and auth-service and stand alone:
they share no state with the tryout modules.

On the client's side, `AnswerSheet` has the operators on questions and answers
that both test screens are made of; `QuestionScreen` and `LegacyTest` are those
screens, each with a tryout service reduced to what a client can see of `Exam`.
`WebSession` is the browser, the middleware and the forms, over an auth-service
whose calls are one step each; `CareerMatchUp` composes it with the questionnaire
and with `AlumniCarousel`, operators on the carousel of the result.

| Module | Stands for |
|---|---|
| `Exam` | nothing in the code: the promise |
| `TryoutAttempt` | `tryout_handler.go`, `tryout_svc.go`, `tryout_repo.go`, three tables |
| `ScoreStore` | `score_svc.go` (without the arithmetic), `score_repo.go`, `user_scores`, `tryout_score` |
| `Tryout` | `scheduleDetachedScoreRefresh`, the refresh in `page_svc.go`, and the two modules above together |
| `RateLimiter` | `redis_rate_limiter.go`, a key in Redis |
| `Session` | `middleware/auth.go`, `auth_controller.go`, `refresh_token_svc.go`, `refresh_token_repo.go`, `auth_handlers.go`, the browser's cookie |
| `AnswerSheet`, `QuestionScreen` | `tryout-question-screen.tsx`, the calls of `tryout-test.ts` and `http.ts` it makes |
| `LegacyTest` | `answer-card.tsx`, `[subtest]/page.tsx`, `intro/page.tsx`, the layout of `/tryout/soal`, the dashboard's start button |
| `WebSession` | `middleware.ts`, `single-flight.ts`, `request-token.ts`, `fetch_user.ts`, `auth.ts`, the forms, the layouts that redirect |
| `CareerMatchUp`, `AlumniCarousel` | `career-test.tsx`, `submit/route.ts`, `result/page.tsx`, `alumni-carousel.tsx` |
| `TryoutAttemptProofs`, `ScoreStoreProofs`, `TryoutProofs`, `RateLimiterProofs`, `SessionProofs`, `QuestionScreenProofs`, `LegacyTestProofs`, `CareerMatchUpProofs` (for `WebSession` too) | the theorems |
| `MC...` | instances for TLC |

### TryoutAttempt and the code

A row of `tryout_attempt` is named by its key `<<user, paket>>`; `status` is
`"none"` while there is no row. `time_limit[a][s] = NoLimit` and a question
answered `NoJawaban` stand for rows that are not there. `req[r]` is a request:

| `pc` | the request is | next |
|---|---|---|
| `check`, `insert` | in `StartAttempt`, before its `SELECT` and before its `INSERT` | `CheckNoOngoing`, `InsertAttempt` or `DuplicateAttempt` |
| `select`, `lock` | in the reconciliation loop, before it picks an attempt and before it locks it | `SelectAttempt`, `ReconcileGone`, `ReconcileInTime`, `ReconcileExpired` |
| `op` | in its operation, before the transaction | `OpRefused`, `OpInvalid`, `Sync...`, `Submit...`, `FinishTryout` |
| `score` | waiting for the score service | `ScoreReturns` |

`op = "sync"` is StartSubtest, SaveSubtestAnswers and /sync (one function in the
code, `syncSubtestAnswers`); `"submit"` and `"finish"` are `submitAttempt` with
and without `forceFinish`. `subtest = Current` is a request of the legacy
endpoints, which name no subtest; `BadAnswers` is a payload the code refuses
after it has ensured the time limit.

A transaction that begins with `SELECT ... FOR UPDATE` on the attempt is one
action, for every writer of the attempt's rows takes that lock first. Two times
that a transaction reads a few statements apart (in `ensureSubtestTimeLimitTx`
and in the test after it) are one `now`. The `start_time` of an attempt is the
repository's own (`CreateTryoutAttemptTx`), taken between StartAttempt's check
(`started`) and the commit (`StartTimes`). `RequestDies` ends a request between any two
steps: an error, a cut connection or a crash; since only the database survives a
crash, a crash of the service is the end of all its requests.

### ScoreStore and the code

A call is `grade` (answers read and keys fetched, subtest by subtest, outside a
transaction), `upsert`, `average`, `update` (one transaction), then `stored` or
`failed`. A score stands for the sheet it was computed from, the average for the
rows it was taken of; so the properties tell which answers were graded and which
rows counted, not what the numbers are. Rows are locked as PostgreSQL does it at
READ COMMITTED: an upsert waits for the transaction that holds its row, the
average sees committed rows and the transaction's own, and of transactions that
wait for each other one is aborted (`DeadlockVictim`). The answer keys are taken
to be the same in all calls.

### RateLimiter and the code

One client and one of the gateway's limiters: keys do not interact. A command to
Redis is one action; `pc[r]` is the command the request sends next, and the key
may expire between any two (`Tick`). Values and times are those of Redis, with
`NoKey` and `Never` for a key that is not there and one without a time to live.
`ReplyLost` carries a command out and sends it again, as the Redis client does, or
ends the request with status 500; `CommandFails` does not carry it out. `passed`
counts requests that got through since the count began (the last SET, or the
expiry), so a SET that comes late begins a new count.

### Session and the code

One user and one browser, whose cookie is `jar`; any number of its requests run at
once. Tokens are random in the code; here they are numbered as they are stored,
and `parent[t]` is the token that was exchanged for `t`. `req[r]` is a request in
the gateway and `auth[r]` what auth-service does for it: two records, because
auth-service goes on when the gateway has given up.

| `req[r].pc` | the request is | next |
|---|---|---|
| `validate` | in `resolveSession`, with its access token | `Validated` |
| `flight` | before `LoadOrStore` | `Lead`, `Follow` |
| `call` | waiting for auth-service | `AuthAnswers`, `AuthTimesOut` |
| `leave` | between `close(done)` and `Delete` | `Leave` |
| `wait` | at `<-existing.done` | `Wake` |
| `reply` | answered, with `cookies` to set | `Deliver`, `ReplyLost` |

`kind` is `page` (a route behind `SessionAuthMiddleware`) or a route the gateway
passes on: `refresh` (which the web middleware uses, with a single flight of its
own, in `WebSession`), `logout`, `login` and `reset` (a request of a
password reset, of which only the revocation of all tokens is modelled). In
auth-service each statement is an action: `Find`, `Revoke`, `Store`, `RevokeAll`;
any of them may fail (`AuthFails`). Whether an access token is accepted is left
open, for `validateAccessToken` also fails when auth-service cannot be reached.

### QuestionScreen and the code

One tab of one participant, and another device that saves and submits in the
same subtest. `screen` is the state of the React component that is mounted:
every question number and every subtest mounts it anew, and a component that is
gone shows no state updates (`Sets`, `mine`), while what its calls do to
localStorage, sessionStorage and the router they do all the same. One update is
more than that: the one that marks what was saved stores the answers from inside
its updater (`setAnswers(prev => ... persistAnswers(next))`), so where React
computes it for a screen that is gone, that screen's answers are written to
localStorage (`SavedGone`); whether it does is left open. `task[t]` is a
call: `Answered` is the service's work and answer, `Fails` the 12 seconds
without one, after which the request may still arrive (`late`, `ArrivesLate`),
and `Returns` what the code does with the outcome, `net`:

| `kind` | the call of | `step`s |
|---|---|---|
| `load` | `loadQuestions` | `current`, `start`, `soal` |
| `flush` | `flushUnsyncedAnswers` | `save` |
| `submit` | `submitCurrentSubtest`, by the participant (`user`, or `late` once the time is up) or the `timer` | `save`, `submit` |
| `logout` | `submitAnswersAndLogout` | `submit`, `logout` |

An answer is a function from the items it speaks of to true or false, so one
type covers the three kinds of questions; what of it goes over the wire is
`ToPayload`, and a question answered with statements that are all false sends
nothing. The clock is a phase of each subtest, for calls end within seconds and
subtests last minutes: `due` is the instant in which the client's clock has
reached the limit and the service's has not. The texts of errors are left out.

### LegacyTest and the code

One tab of one participant, from the dashboard and back to it. `tab` is the page
with the state of its components, `task[t]` a call as above; a page is loaded in
several calls (`SlugCurrent`, `SlugAttempt`, `IntroStep`, `LayoutStep`), and the
participant waits for pages that the web server renders. Each question number
mounts an answer card of its own. The service's time of a subtest is `running`, in
its last minute (`grace`) or `over`. The three calls the dashboard is drawn from
are read in one step; any of them may fail, and the banner then offers subtest 1.
What an earlier attempt left in localStorage is left out, and so is the colour of
the question numbers. `/tryout/page.tsx` has a start card that no page shows.
A card has an interval of 3.5 minutes from when it was mounted, and its calls are
given up after 12 seconds, so the sync of a card that is gone has ended before the
next card's begins (`NoSync`); a submit may overlap one, and does. An answer
names items of its own question (`Named`), in whichever of the three lists it is.

What a question shows is its own state (`tab.ids`), not the card's answer. A rated
question (`TrueFalse`) passes a change on unless it equals what it passed on last
(`tab.emitted`) or what the card has (`PassesOn`, `HoldsBack`), and takes over what
a sync has made of the card's answer (`Follows`). The answers of a sync are stored
from inside the updater of the card's state, so a card that is gone may store its
own over newer ones (`SyncDone`).

### WebSession, CareerMatchUp and the code

Tabs share the cookies (`jar`); tokens are numbered as they are issued, and an
access token has the number of the refresh token it came with. `call[t].step`
follows a call through the middleware and the page: `validate`, `refresh` or
`wait` (`singleFlightByKey`), `render`, `redirect`, `reply`; forms go straight to
the gateway (`auth`), and so do the calls of a test (`api`), for which the gateway
refreshes by itself, in another single flight. What a page knows of the session is `session`, which the
middleware vouches for, and the cookies the call was sent with. A tab has one
call under way at a time. The dashboard calls the gateway with the request's
cookies, which may exchange the refresh token once more, and the browser is never
told (`RenderDashboard`); `stranded` notes that and every other token that was
lost, revoked or dropped. An access token does not expire while the answer that
brings it is under way.

In `CareerMatchUp` the attempts stored for a guest id are numbered; the page's two
GETs of the result are one step. A submit leads to the result's page; until that
has come the questionnaire is shown, its pages can be turned and its answers
changed. Its submit button is open again too: a second submit while the result
loads comes from another tab in the model, which has the same cookies. The
carousel is the one for three alumni or more; it is moved in one tab at a time.

## Runs

| Run | Instance | Shows |
|---|---|---|
| `tryout_attempt` | 1 user, 1 pack, 2 subtests of 1 unit, 1 question with 1 answer, 2 concurrent requests, time 1..4 | `TypeOK`, `LimitsTrackProgress`, `FullDuration`, `LoopSuffices`, `AnswersOnlyInTime`, `NamedSubtestOnly`, `KeepsPromise` |
| `two_pakets` | as above, 2 packs, time stands still | `AtMostOneOngoing` is violated |
| `score_store` | 1 attempt, 2 subtests, 3 calls | `TypeOK`, `FullRecountExact`, `NeverOvercounts`, `CallsReturn` |
| `tryout` | `tryout_attempt` with 1 request, 1 refresh, 1 page, time 1..3 | `ScoreOfFinalAnswers`, `FinalScoreExact` |
| `rate_limiter` | 3 requests, limit 3, expiration 2, time 0..4 | `TypeOK`, `Overshoot` |
| `retry_after` | as above, no command is repeated | `RetryAfter` is violated |
| `session` | 2 requests, 2 flights, 2 tokens, no symmetry | `TypeOK`, `OneFlight`, `NeverBothValid`, `OwnSuccessor`, `WaitersAnswered` |
| `exchanged_once` | as `session`, 3 tokens | `ExchangedOnce` is violated |
| `question_screen` | 2 subtests of 1 question with a text, 2 calls at once, 4 inputs, 1 fault | `TypeOK`, `LostOnlyToGone`, `TimeUpMeansClosed`, `HandsInAll` |
| `finish_incomplete` | as above, a question with two options | `FinishIsComplete` is violated |
| `legacy_test` | 2 subtests of a question with two statements and one with an option, 2 calls at once, 3 inputs, 1 fault | `TypeOK`, `SyncedIsSaved`, `HandsInShown`, `TimeUpLeaves`, `LoadsEnd`, `NeverAhead` |
| `web` | 2 tabs, 2 tokens, 1 page opened, 2 sends, 1 fault, 2 questions on 2 pages, 3 alumni | `TypeOK`, `SessionKept`, `OneExchange`, `NothingLeftBehind`, `SlideRests`, `TokenPassedOn`, `ResultIsLatest`, `CallsEnd` |

Bounds. Two requests are what a race needs, and each slot is used again and
again, so a run holds any number of requests one after the other. Two subtests
have a first one, a last one and a carry-over between them. Time reaches 4 = the
two durations + 2, so an attempt may run out in each subtest and in both. Users
do not interact (every query is for one user id), so one is enough. Three calls
of the score service are enough for a deadlock of two with a third to overwrite
the average. The refresh slots bound the detached goroutines that run at once.
In `RateLimiter`, time 4 is two expirations, so a key expires and its successor
does; `MaxCount` bounds what repeated commands add (0 in `retry_after`: the
violation needs none). In `Session`, two tokens are a login and an exchange, as
many as two requests need to have one lead and the other wait; that more of them
change nothing about its safety is proved, for any `MaxTokens`.

On the client's side `MaxInputs`, `MaxVisits` and `MaxSends` count what the
participant does, and `MaxFaults` what goes wrong; the timers, the answers of the
service and the continuations of calls are not counted. Four inputs at the
question screen are to open it, to answer, to go elsewhere, and to hand in or to
answer again, which is what puts a call of a screen that is gone next to one of
the screen that is there; the fault makes it late. Two slots are two calls that
race. In `legacy_test` three inputs do, for it begins before, during or after an
attempt and its answer cards are a click away; a sync that reverts an edit is
within them. One subtest with five inputs reaches the case that `HandsInShown`
leaves out as well; that instance was checked too, 961,000 states, with the same
result. In `web` a run begins with empty
tabs or with both at an answered questionnaire, so that two tabs can hand in at
once; one page opened leads through redirects to others.

`score_store` says `CHECK_DEADLOCK FALSE`: every worker calls once, then nothing
is left to do. The runs of the client say so too: a participant who has used up
the inputs is done.

Fairness. `score_store`: weak fairness of each call's own steps: a goroutine goes
on, the client that asks for answer keys has a timeout, PostgreSQL detects
deadlocks. `session`: of the gateway's own steps for each request: a goroutine
goes on, and the HTTP client it calls auth-service with has a timeout (10 s), so
`AuthAnswers` or `AuthTimesOut` comes; auth-service and the browser are not fair.
`legacy_test`: of each call's answer and continuation (`http.ts` gives up after
12 s), of the automatic submit (a timer of one second) and of a page that was
pushed. `web`: that some call under way goes on, for each is answered or given
up. Failures are fair nowhere, and neither is the participant. The other runs check
safety only.

The violations. `RetryAfter`: when the key expires between a request's GET and its
INCR, INCR makes a key without a time to live; the EXPIRE that would give it one is
sent only by a request that has read 0, and no key holds 0. Once its count reaches
the limit nobody sends INCR or SET any more, and the client that is told to try
again later is refused for good. `ExchangedOnce`: `ValidateRefreshToken` selects the
token, then revokes it with an UPDATE whose number of rows nobody looks at, so two
refreshes that both found it valid both store a successor, though the comment
between the statements says the token cannot be used again. The gateway's single
flight does not cover `/api/auth/refresh`, which the web middleware uses.
`AtMostOneOngoing`: `StartAttempt` looks for an ongoing attempt with a plain SELECT at
READ COMMITTED and inserts afterwards; only the key (user, pack) is enforced. Two
requests for two packs leave the user with two ongoing attempts, though the
comment above the check and the error the handler has for it say there is one at
most. Operations then act on the one started last.

`FinishIsComplete`: the finish button asks for the unanswered questions when the
list of them is not empty, and the list is made from the questions that were
loaded. While they load, or when that failed, it is empty and the subtest is
handed in unanswered, past the dialog that says all questions come first.

What some properties leave out. `SessionKept` does not speak of a browser that has
lost a token (`stranded`): the answer did not come, or the dashboard's call
exchanged it. `OneExchange` speaks of the calls that have come to `refreshSession`:
one whose access token is looked at for longer than the exchange takes, that comes
after it, or whose token the gateway exchanges meanwhile for a call of a test, asks
in vain and is sent to the login. `ResultIsLatest` leaves out two tabs that hand in
at once without a guest id (`overlapped`): each is given one, and the later
answer decides which stays, though it be a refusal. `HandsInShown` leaves out a
rated question whose answer a sync has changed: tick a, sync, tick b as well while
the sync is under way, and its answer takes b back; tick b again, and the question
holds that back as what it passed on last, so it shows what no submit carries.

`LostOnlyToGone` and `HandsInAll` leave out a subtest in which the late save of a
screen that is gone has written over something (`overwritten`); without that, TLC
shows the loss. A participant answers, the answer is saved after a pause, and goes
to another question while the save is under way; the new screen loads from the
cache, and there the answer is changed; then the save returns and the gone
screen's older answers are stored (line 1345). The screen may say "Jawaban tetap
tersimpan lokal" (line 2406), the next screen that is mounted has the older ones.
It happens where React computes the updater of a component that is gone, which
it does at once when the component has no other update left.

What the code does and no property forbids: the legacy endpoints name no
subtest, so a submit that is sent twice closes two subtests; a subtest whose
expiry is noticed by a save or a sync is not scored until a progress page is
opened; single-subtest calls that overlap leave an interim average without one
of their rows, until the next call; a finished pack that is started again is
refused with "already ongoing"; a SET of the rate limiter that comes late
begins the count anew, whoever got through before it; a refresh that fails after
its revoke, or whose answer is lost, loses the session; tokens of a user that are
all revoked while a refresh is between its revoke and its store leave the new one
valid; an edit in the legacy card during a sync is lost when the sync's answer is
merged; the sync of a legacy card that is gone may store older answers over newer
ones, which the next card then shows; a rated question that shows neither what it
passed on last nor what its card has gives the two to each other without end; a legacy submit that fails deletes the local answers; the question
screen's automatic submit is not repeated when it fails; a logout's cleared
cookies come back with the answer of another tab's refresh.

## Proofs

For any users, packs, requests, subtests, durations, questions and answers, and
any bound on the time, from the assumptions the modules state (there is a user, a
pack and a subtest; durations are positive; `NoJawaban` is no answer and
`BadAnswers` no valid payload; the three kinds of workers are disjoint; `NoScore` and
`NoItem` are no sheets; the pages a participant opens are pages; tabs and calls
at once are finitely many and the bounds are natural numbers):

- `TypeCorrect`, `LimitsFollowProgress`, `NobodyLosesTime`, `AnswersInTime`,
  `NoSubtestSkipped`, `ImplementsExam` about `TryoutAttempt`. A step of any request does
  one of four things to the tables: nothing, insert a row, leave an expired subtest,
  or write in the active subtest in time. `StepEffect` proves that, action by action;
  the theorems follow from the four effects. `FullDuration` is not inductive: a new
  limit must not have a successor yet (`LimitsTrackProgress`), and the first is
  counted from a time that is not before `start_time` (`StartedBefore`): it is taken
  when the attempt's row is committed and locked.
- `LoopBoundNeverReached` about `TryoutAttempt`, for one pack (`OnePaket`), which is what
  the run has too. `LoopSuffices` is not inductive by itself:
  `StepsBehind` says that a request has spent fewer steps than the number of the
  subtest its attempt is in, for the attempt has moved on, by this request or
  another, whenever the request goes round again. With
  several packs a request can go on to a second ongoing attempt, the state that
  `two_pakets` shows, with the steps it spent on the first; nothing is claimed
  of that.
- `ScoreTypeCorrect`, `NoOvercount`, `FullRecount` about `ScoreStore`. The
  inductive invariant `ScoreInv` says: two transactions share no row of an attempt;
  what a call has graded comes from answers; what it has summed up will still be
  there when it commits; and once a call of all subtests is back, nobody who is
  still to commit holds an average that misses a row.
- `ServiceImplementsAttempt` and `ScoresAreFinal` about `Tryout`. The composition
  implements `TryoutAttempt`, so the theorems above hold of it. Only closed
  subtests are given to the score service; closed subtests stay closed and their
  answers stay, so a sheet read at any later time is the final one.
- `CallsKeepScoreInv` and `FinalScoreIsExact` about `Tryout`. The theorems of `ScoreStore`
  assume that nobody writes answers; in the composition the requests do. They hold
  there all the same: a call's subtests are closed, so its `ScoreInv` is kept by
  every step of an attempt (`FinalInv` and `ScoreInv` are inductive together). And
  while a request waits for scores its call is the one it asked for
  (`CallsAsAsked`), so a request that scored all subtests and learned that they
  are stored has left an average that counts every row.
- `LimiterTypeCorrect` and `OvershootBounded` about `RateLimiter`, for any limit and any finite set of requests.
  `Overshoot` is not inductive: requests that have read a count below the limit may
  still send INCR. `RaceInv` counts them (`Racing`) in: once the count is at the
  limit, those who got through and those who still race are together fewer than
  the limit and the requests, since the one that brought the count there races
  no more.
- `SessionTypeCorrect`, `Rotation`, `SingleFlight` and `GivenOwnSuccessor` about `Session`,
  for any requests, flights and tokens. The inductive invariant `IInv` says: nobody
  knows a token that is not stored (`Known`); who is about to store a successor
  has a token that is revoked (`StoreRevoked`); a flight stands for one token, in the
  map and for all who hold it, and what it carries are successors of that token
  (`FlightsStand`); a leader's flight is in the map until the leader takes it out
  (`OneLeader`); and auth-service works for the token the request came with
  (`CallsOwn`).
- `ScreenTypes`, `LostToGone`, `TimeUpIsTrue` and `SubmitHandsInAll` about
  `QuestionScreen`, for any subtests, questions, calls at once and bounds. None of
  them is inductive alone: localStorage is written by screens that are gone and
  from what calls brought back. The inductive invariant `ScreenInv` adds that
  localStorage and the screen have what was typed until its subtest is closed or a
  gone screen's save has lost something of it (`LocalKept`), and that the screen
  speaks of the subtest of its page (`ScreenTrue`); that what a call has learned of the service
  remains true however long it waits (`LearnedTrue`), which needs that no clock
  runs ahead of the attempt (`ClocksInTurn`); that what a call carries is what was
  typed when it was made (`CarriesTyped`); that a call whose screen is mounted is
  about its page (`OfScreen`); and that one call loads the screen (`OneLoad`).
- `LegacyTypes`, `SyncedAreSaved`, `OffersNeverAhead` and `SubmitHandsInShown` about
  `LegacyTest`. That what is marked as synced is saved is said of the card that is
  there; cards come and go and read localStorage, and gone ones write it. So
  `LegacyInv` says it of localStorage (`LocalSaved`) and of the card that is there
  (`InHand`), which may differ as long as the card calls synced nothing that
  localStorage does not (`Apart`); and of a call under way that what it sent is not
  called synced yet, what it was given is still what the server has, and what
  its card had called synced the server has something for (`SheetTrue`). The last
  holds because there is one sync at a time (`OneEach`). It ends where a submit is
  called (`tried`), which writes without marking. That a submit carries what is
  shown rests on `Faces`: a question shows its card's answer, unless it is a rated
  one that a sync has changed.
- `NoPageLeftBehind` and `CarouselAtRest` about `CareerMatchUp`, for any tabs,
  questions, size of a page and alumni (three or more), whatever the session does
  meanwhile. `NothingLeftBehind` becomes inductive when it is said of a
  questionnaire wherever its tab is (`QuizInv`): a page is left forwards only when it is
  answered, choices are never taken back, and a component that is mounted starts
  at the first page. `SlideRests` rests on `SlideInv`, which asks only that a
  row at rest is at an index of its own cards: every move away from there starts
  a transition, and only `handleTransitionEnd` ends one. `OwnCards` says which card
  stands at which place of `loopItems`.
- `SessionIsKept`, `ExchangesAreOne` and `TokensPassOn` about `WebSession` as it runs in
  `CareerMatchUp`, for any number of tabs and tokens. Their invariant `TokenInv` says:
  cookies on their way to the browser hold a token whose access token has not
  expired; such a token can be exchanged, unless the browser is stranded
  (`FreshLive`); a call asks for an exchange only after the expiry; one call
  does for each token (`OneFlight`), and whoever waits waits for that one
  (`WaitLed`). So an exchange takes a token that nobody
  else is about to present, and the token that replaces it is on its way.
- `ResultsAreLatest` about the guests. `GuestInv` counts the guest ids: those given
  and the submits that may still need one are no more than what was sent; a
  browser without an id has one submit under way at most and nothing confirmed,
  one with an id sends every submit with it, unless two overlapped (`OneGuest`); an
  answer confirms an attempt that is kept under its id, or was replaced by a later
  one (`Stored`). `CareerTypes` is from this, `QuizInv` and `SlideInv` together.

Every invariant that a run checks and that holds is so proved, and every action
property. Only model-checked: liveness, which is out of the prover's reach
(`CallsReturn`, `WaitersAnswered`, `TimeUpLeaves`, `LoadsEnd`, `CallsEnd`);
`LoopSuffices` is proved for one pack only. The violations are shown by their runs. Three
alumni or more is an assumption on the data (`helpers/alumni.ts` has three or four in
each division, but for one that has one), not a condition of the code. One card is
shown without the carousel where it fits; on a screen narrower than the card
(330 px) it is not, which is left out.

## Not modelled

- The arithmetic of scores (`CalculateScore`) and of Career Match Up
  (`mb_svc.go`) works on floating-point numbers, which TLA+ does not have; a
  score stands for the sheet it is computed from instead, which is what the races
  are about. minat-bakat-service is in `CareerMatchUp` as the web client sees it.
- The tables of the progress pages and the leaderboard are queries that change
  nothing.
- auth-service, accounts: registration and the change of a password are single
  statements. What a reset does to sessions is in `Session`; its three
  goroutines end in an e-mail, and each of them alone is an outcome the code accepts.
- soal-service: questions are constants of the models. Images and imports are an
  administrator's, between tryouts; a failed import's cleanup is listed as a
  hazard.
- The gateway's proxying, logging, metrics, start-up and deployment keep no
  state the properties speak of.
- The other pages of the web client (home, progress, discussion, leaderboard)
  draw what they are given. Of the modelled ones the layout, the LaTeX and the
  fields of the forms are left out; `/api/auth/logout` of the web server is called by
  no page.
