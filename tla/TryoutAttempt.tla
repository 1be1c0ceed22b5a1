--------------------------- MODULE TryoutAttempt ----------------------------
(***************************************************************************)
(* The life of a tryout attempt in tryout-service: the HTTP handlers of    *)
(* tryout_handler.go, the service operations of tryout_svc.go they call,   *)
(* and the tables tryout_attempt, time_limit and user_answers they change. *)
(*                                                                         *)
(* A handler first reconciles the user's attempt with the time (in its own *)
(* transactions, whose row lock is gone when they end) and then runs its   *)
(* operation in a transaction that locks the attempt row again.  Such a    *)
(* transaction (SELECT ... FOR UPDATE to COMMIT) is one action; what       *)
(* happens between two transactions of a request is left to the other      *)
(* requests.  Scoring is a call that returns with success or an error:     *)
(* ScoreStore says what it does, Tryout puts the two together.             *)
(***************************************************************************)
EXTENDS Integers, FiniteSets

CONSTANTS
  Users,            \* the user ids
  Pakets,           \* the question packs
  Requests,         \* the request slots: how many requests run at once
  NumSubtests,      \* the length of orderedSubtests
  SubtestDuration,  \* SubtestDuration[s]: subtestDurations
  Soal,             \* the questions of a subtest
  Jawaban,          \* the answers of a question
  NoJawaban,        \* no row in user_answers for a question
  BadAnswers,       \* a payload that buildUserAnswers or the upsert refuses
  MaxTime           \* bound of the clock

Subtests == 1 .. NumSubtests

ASSUME UsersAssumption == Users # {} /\ Pakets # {}
ASSUME NumSubtestsAssumption == NumSubtests \in Nat \ {0}
ASSUME DurationAssumption == SubtestDuration \in [Subtests -> Nat \ {0}]
ASSUME JawabanAssumption == NoJawaban \notin Jawaban
ASSUME PayloadAssumption == \A Q \in SUBSET Soal : BadAnswers \notin [Q -> Jawaban]
ASSUME MaxTimeAssumption == MaxTime \in Nat \ {0}

(* A row of tryout_attempt is named by its key UNIQUE(user_id, paket). *)
Attempts == Users \X Pakets

(* The value 0 stands for "the row's current subtest" in a request (the
   legacy endpoints name none) and for "no row" in time_limit. *)
Current == 0
NoLimit == 0

Sheets == [Soal -> Jawaban \cup {NoJawaban}]
EmptySheet == [q \in Soal |-> NoJawaban]
Payloads == {BadAnswers} \cup UNION {[Q -> Jawaban] : Q \in SUBSET Soal}
NoAnswers == [q \in {} |-> NoJawaban]

Status == {"none", "ongoing", "finished"}
Ops == {"attempt", "current", "sync", "submit", "finish"}

VARIABLES
  now,               \* time.Now()
  status,            \* status[a]: "none" when the row does not exist
  subtest_sekarang,  \* subtest_sekarang[a]: the active subtest
  start_time,        \* start_time[a]
  time_limit,        \* time_limit[a][s], or NoLimit
  user_answers,      \* user_answers[a][s]: the sheet of subtest s
  req                \* req[r]: where request r is in its handler

attemptVars == <<status, subtest_sekarang, start_time>>
vars == <<now, attemptVars, time_limit, user_answers, req>>

(***************************************************************************)
(* Requests.  pc is the next step of the handler:                          *)
(*   check, insert   StartAttempt's test and its INSERT                    *)
(*   select, lock    reconciliation: pick the attempt; lock and look at it *)
(*   op              the operation's own transaction                       *)
(*   score           the call of the score service after a commit          *)
(* then is where the handler goes on after the call, started the time of   *)
(* StartAttempt's test.                                                    *)
(***************************************************************************)
RequestStates ==
  [pc : {"idle", "check", "insert", "select", "lock", "op", "score"},
   op : Ops, user : Users, paket : Pakets, subtest : 0 .. NumSubtests,
   answers : Payloads, steps : 0 .. NumSubtests, todo : SUBSET Subtests,
   then : {"idle", "select"}, started : Nat]

Idle ==
  [pc |-> "idle", op |-> "current", user |-> CHOOSE u \in Users : TRUE,
   paket |-> CHOOSE p \in Pakets : TRUE, subtest |-> Current,
   answers |-> NoAnswers, steps |-> 0, todo |-> {}, then |-> "idle",
   started |-> 0]

Att(r) == <<req[r].user, req[r].paket>>

TypeOK ==
  /\ now \in Nat \ {0}
  /\ status \in [Attempts -> Status]
  /\ subtest_sekarang \in [Attempts -> Subtests]
  /\ start_time \in [Attempts -> Nat]
  /\ time_limit \in [Attempts -> [Subtests -> Nat]]
  /\ user_answers \in [Attempts -> [Subtests -> Sheets]]
  /\ req \in [Requests -> RequestStates]

Init ==
  /\ now = 1
  /\ status = [a \in Attempts |-> "none"]
  /\ subtest_sekarang = [a \in Attempts |-> 1]
  /\ start_time = [a \in Attempts |-> 0]
  /\ time_limit = [a \in Attempts |-> [s \in Subtests |-> NoLimit]]
  /\ user_answers = [a \in Attempts |-> [s \in Subtests |-> EmptySheet]]
  /\ req = [r \in Requests |-> Idle]

Respond(r) == req' = [req EXCEPT ![r] = Idle]

(***************************************************************************)
(* A request comes in: what it asks for is the client's choice.            *)
(***************************************************************************)
Receive(r, op, u, p, s, ans) ==
  /\ req[r].pc = "idle"
  /\ req' = [req EXCEPT ![r] =
       [Idle EXCEPT !.pc = IF op = "attempt" THEN "check" ELSE "select",
                    !.op = op, !.user = u, !.paket = p,
                    !.subtest = s, !.answers = ans]]
  /\ UNCHANGED <<now, attemptVars, time_limit, user_answers>>

ReceiveAny(r) ==
  \E u \in Users :
    \/ \E p \in Pakets : Receive(r, "attempt", u, p, Current, NoAnswers)
    \/ Receive(r, "current", u, Idle.paket, Current, NoAnswers)
    \/ \E op \in {"sync", "submit"}, s \in 0 .. NumSubtests, ans \in Payloads :
         Receive(r, op, u, Idle.paket, s, ans)
    \/ \E ans \in Payloads : Receive(r, "finish", u, Idle.paket, Current, ans)

(***************************************************************************)
(* StartAttempt: the test for an ongoing attempt reads without a lock, and *)
(* the INSERT is refused only by the key (user_id, paket).                 *)
(***************************************************************************)
OngoingAttempts(u) == {a \in Attempts : a[1] = u /\ status[a] = "ongoing"}

CheckNoOngoing(r) ==
  /\ req[r].pc = "check"
  /\ IF OngoingAttempts(req[r].user) = {}
       THEN req' = [req EXCEPT ![r].pc = "insert", ![r].started = now]
       ELSE Respond(r)
  /\ UNCHANGED <<now, attemptVars, time_limit, user_answers>>

(* CreateTryoutAttemptTx takes a time of its own for the row, after the test
   and before the COMMIT; the one StartAttempt puts in its attempt is unused. *)
StartTimes(r) == req[r].started .. now

InsertAttempt(r) ==
  /\ req[r].pc = "insert"
  /\ status[Att(r)] = "none"
  /\ status' = [status EXCEPT ![Att(r)] = "ongoing"]
  /\ subtest_sekarang' = [subtest_sekarang EXCEPT ![Att(r)] = 1]
  /\ \E t \in StartTimes(r) : start_time' = [start_time EXCEPT ![Att(r)] = t]
  /\ Respond(r)
  /\ UNCHANGED <<now, time_limit, user_answers>>

DuplicateAttempt(r) ==
  /\ req[r].pc = "insert"
  /\ status[Att(r)] # "none"
  /\ Respond(r)
  /\ UNCHANGED <<now, attemptVars, time_limit, user_answers>>

(***************************************************************************)
(* An expired attempt is moved to the next subtest, or ended after the     *)
(* last one; an ended attempt keeps its subtest_sekarang.                  *)
(***************************************************************************)
(* Faulty: one past the last. *)
IsLastOffByOne(a) == subtest_sekarang[a] > NumSubtests

IsLast(a) == subtest_sekarang[a] = NumSubtests

EndTryOut(a) ==
  /\ status' = [status EXCEPT ![a] = "finished"]
  /\ UNCHANGED <<subtest_sekarang, start_time>>

ProgressTryout(a) ==
  /\ subtest_sekarang' = [subtest_sekarang EXCEPT ![a] = @ + 1]
  /\ UNCHANGED <<status, start_time>>

AdvanceExpired(a) == IF IsLast(a) THEN EndTryOut(a) ELSE ProgressTryout(a)

(* The handler's last act is to have the subtests in todo scored. *)
ScoreAndRespond(r, todo) ==
  req' = [req EXCEPT ![r] = [Idle EXCEPT !.pc = "score", !.user = req[r].user,
                                         !.paket = req[r].paket, !.todo = todo]]

(***************************************************************************)
(* getCurrentAttemptAfterTimeoutReconciliation: an iteration of its loop   *)
(* picks the user's latest ongoing attempt, then locks that row and looks  *)
(* at it again.                                                            *)
(***************************************************************************)
LatestOngoing(u) ==
  {a \in OngoingAttempts(u) :
     \A b \in OngoingAttempts(u) : start_time[b] <= start_time[a]}

SelectAttempt(r) ==
  /\ req[r].pc = "select"
  /\ IF OngoingAttempts(req[r].user) = {}
       THEN Respond(r)
       ELSE \E a \in LatestOngoing(req[r].user) :
              req' = [req EXCEPT ![r].pc = "lock", ![r].paket = a[2]]
  /\ UNCHANGED <<now, attemptVars, time_limit, user_answers>>

Expired(a) ==
  LET limit == time_limit[a][subtest_sekarang[a]]
  IN  limit # NoLimit /\ now > limit

ReconcileGone(r) ==
  /\ req[r].pc = "lock"
  /\ status[Att(r)] # "ongoing"
  /\ Respond(r)
  /\ UNCHANGED <<now, attemptVars, time_limit, user_answers>>

ReconcileInTime(r) ==
  /\ req[r].pc = "lock"
  /\ status[Att(r)] = "ongoing"
  /\ ~Expired(Att(r))
  /\ IF req[r].op = "current"
       THEN Respond(r)
       ELSE req' = [req EXCEPT ![r].pc = "op"]
  /\ UNCHANGED <<now, attemptVars, time_limit, user_answers>>

(* Faulty: one iteration short. *)
LastStepTooEarly(r) == req[r].steps = NumSubtests - 1

(* The loop runs for steps = 0 .. NumSubtests and then gives up. *)
LastStep(r) == req[r].steps = NumSubtests

ReconcileExpired(r) ==
  LET expired == {subtest_sekarang[Att(r)]}
  IN  /\ req[r].pc = "lock"
      /\ status[Att(r)] = "ongoing"
      /\ Expired(Att(r))
      /\ AdvanceExpired(Att(r))
      /\ IF IsLast(Att(r)) \/ LastStep(r)
           THEN ScoreAndRespond(r, expired)
           ELSE req' = [req EXCEPT ![r].pc = "score", ![r].todo = expired,
                                   ![r].steps = @ + 1, ![r].then = "select"]
      /\ UNCHANGED <<now, time_limit, user_answers>>

(***************************************************************************)
(* The operation's transaction.  It reads the row again under the lock and *)
(* goes on only for an ongoing attempt that is in the subtest asked for.   *)
(***************************************************************************)
(* Faulty: the row is not looked at again after the reconciliation. *)
IsActiveUnchecked(r) == req[r].subtest \in {Current, subtest_sekarang[Att(r)]}
(* Faulty: the subtest asked for is not compared with the active one. *)
IsActiveAnySubtest(r) == status[Att(r)] = "ongoing"

IsActive(r) ==
  /\ status[Att(r)] = "ongoing"
  /\ req[r].subtest \in {Current, subtest_sekarang[Att(r)]}

(* Faulty: what the previous subtest had left is not carried over. *)
EnsuredLimitFromNow(a) ==
  LET s == subtest_sekarang[a]
  IN  IF time_limit[a][s] # NoLimit THEN time_limit[a][s] ELSE now + SubtestDuration[s]

(* ensureSubtestTimeLimitTx: the limit that is there, or a new one, counted
   from the previous subtest's limit when that is still to come. *)
EnsuredLimit(a) ==
  LET s == subtest_sekarang[a]
      base == IF s > 1 /\ time_limit[a][s - 1] > now
                THEN time_limit[a][s - 1] ELSE now
  IN  IF time_limit[a][s] # NoLimit
        THEN time_limit[a][s] ELSE base + SubtestDuration[s]

(* Faulty: a new limit is not stored with the operation. *)
EnsureLimitNotStored(a) == UNCHANGED time_limit

EnsureLimit(a) ==
  time_limit' = [time_limit EXCEPT ![a][subtest_sekarang[a]] = EnsuredLimit(a)]

(* Faulty: answers that were under way when the time ran out are let in. *)
InTimeWithGrace(a) == now <= EnsuredLimit(a) + 1

InTime(a) == now <= EnsuredLimit(a)

(* SaveAnswersTx: INSERT ... ON CONFLICT DO UPDATE. *)
Upsert(sheet, answers) ==
  [q \in Soal |-> IF q \in DOMAIN answers THEN answers[q] ELSE sheet[q]]

SaveAnswers(a, answers) ==
  /\ answers # BadAnswers
  /\ user_answers' =
       [user_answers EXCEPT ![a][subtest_sekarang[a]] = Upsert(@, answers)]

OpRefused(r) ==
  /\ req[r].pc = "op"
  /\ ~IsActive(r)
  /\ Respond(r)
  /\ UNCHANGED <<now, attemptVars, time_limit, user_answers>>

(* The answers are refused: the rollback takes a new time limit with it. *)
OpInvalid(r) ==
  /\ req[r].pc = "op"
  /\ IsActive(r)
  /\ InTime(Att(r))
  /\ req[r].answers = BadAnswers
  /\ Respond(r)
  /\ UNCHANGED <<now, attemptVars, time_limit, user_answers>>

(* syncSubtestAnswers: StartSubtest, SaveSubtestAnswers and /sync.  When the
   time is up it advances the attempt and does not score the subtest. *)
SyncExpired(r) ==
  /\ req[r].pc = "op" /\ req[r].op = "sync"
  /\ IsActive(r)
  /\ ~InTime(Att(r))
  /\ AdvanceExpired(Att(r))
  /\ EnsureLimit(Att(r))
  /\ Respond(r)
  /\ UNCHANGED <<now, user_answers>>

SyncAnswers(r) ==
  /\ req[r].pc = "op" /\ req[r].op = "sync"
  /\ IsActive(r)
  /\ InTime(Att(r))
  /\ EnsureLimit(Att(r))
  /\ SaveAnswers(Att(r), req[r].answers)
  /\ Respond(r)
  /\ UNCHANGED <<now, attemptVars>>

(* submitAttempt: SubmitSubtest, SubmitCurrentSubtest and FinishTryoutNow. *)
SubmitExpired(r) ==
  /\ req[r].pc = "op" /\ req[r].op \in {"submit", "finish"}
  /\ IsActive(r)
  /\ ~InTime(Att(r))
  /\ AdvanceExpired(Att(r))
  /\ EnsureLimit(Att(r))
  /\ ScoreAndRespond(r, {subtest_sekarang[Att(r)]})
  /\ UNCHANGED <<now, user_answers>>

SubmitSubtest(r) ==
  /\ req[r].pc = "op" /\ req[r].op = "submit" /\ ~IsLast(Att(r))
  /\ IsActive(r)
  /\ InTime(Att(r))
  /\ EnsureLimit(Att(r))
  /\ SaveAnswers(Att(r), req[r].answers)
  /\ ProgressTryout(Att(r))
  /\ ScoreAndRespond(r, {subtest_sekarang[Att(r)]})
  /\ UNCHANGED now

FinishTryout(r) ==
  /\ req[r].pc = "op"
  /\ \/ req[r].op = "finish"
     \/ req[r].op = "submit" /\ IsLast(Att(r))
  /\ IsActive(r)
  /\ InTime(Att(r))
  /\ EnsureLimit(Att(r))
  /\ SaveAnswers(Att(r), req[r].answers)
  /\ EndTryOut(Att(r))
  /\ ScoreAndRespond(r, Subtests)
  /\ UNCHANGED now

(***************************************************************************)
(* The score call returns.  After an error a detached refresh is started   *)
(* (Tryout has it); the request goes on the same way in both cases.        *)
(***************************************************************************)
ScoreReturns(r) ==
  /\ req[r].pc = "score"
  /\ IF req[r].then = "idle"
       THEN Respond(r)
       ELSE req' = [req EXCEPT ![r].pc = "select", ![r].todo = {}, ![r].then = "idle"]
  /\ UNCHANGED <<now, attemptVars, time_limit, user_answers>>

(* A statement fails, the client's connection is cut or the process dies: the
   open transaction rolls back and the request is gone.  A crash of the
   service is all its requests and refreshes ending, in any order. *)
RequestDies(r) ==
  /\ req[r].pc # "idle"
  /\ Respond(r)
  /\ UNCHANGED <<now, attemptVars, time_limit, user_answers>>

Tick ==
  /\ now < MaxTime
  /\ now' = now + 1
  /\ UNCHANGED <<attemptVars, time_limit, user_answers, req>>

Reconcile(r) ==
  SelectAttempt(r) \/ ReconcileGone(r) \/ ReconcileInTime(r) \/ ReconcileExpired(r)

StartAttempt(r) == CheckNoOngoing(r) \/ InsertAttempt(r) \/ DuplicateAttempt(r)

Operate(r) ==
  \/ OpRefused(r) \/ OpInvalid(r)
  \/ SyncExpired(r) \/ SyncAnswers(r)
  \/ SubmitExpired(r) \/ SubmitSubtest(r) \/ FinishTryout(r)

(* Everything but the score service's answers. *)
AttemptNext ==
  \/ Tick
  \/ \E r \in Requests :
       ReceiveAny(r) \/ StartAttempt(r) \/ Reconcile(r) \/ Operate(r)

Next ==
  \/ AttemptNext
  \/ \E r \in Requests : ScoreReturns(r) \/ RequestDies(r)

Spec == Init /\ [][Next]_vars

(***************************************************************************)
(* Properties.                                                             *)
(***************************************************************************)

(* The rows of time_limit follow the attempt: none before its row exists,
   one for every subtest it has left, none for a subtest it has not reached.
   ensureSubtestTimeLimitTx relies on it when it looks at the previous limit,
   and the reconciliation when it takes a missing row for "not started". *)
LimitsTrackProgress ==
  \A a \in Attempts, s \in Subtests :
    /\ status[a] = "none" => time_limit[a][s] = NoLimit
    /\ status[a] # "none" /\ s < subtest_sekarang[a] => time_limit[a][s] # NoLimit
    /\ status[a] = "finished" /\ s = subtest_sekarang[a] => time_limit[a][s] # NoLimit
    /\ s > subtest_sekarang[a] => time_limit[a][s] = NoLimit

(* Nobody loses time: a subtest's limit leaves it its whole duration after
   the limit of the one before (after start_time, for the first), however
   early that one was submitted and whatever requests raced to set it. *)
FullDuration ==
  \A a \in Attempts, s \in Subtests :
    time_limit[a][s] # NoLimit =>
      time_limit[a][s] >=
        SubtestDuration[s] + IF s = 1 THEN start_time[a] ELSE time_limit[a][s - 1]

(* todoorbug.txt, 3 March: when the time is up the attempt progresses and the
   answers sent are not stored.  Answers change only in the subtest an
   ongoing attempt is in and up to that subtest's limit, though the handler
   chose the attempt in an earlier transaction. *)
WrittenInTime ==
  \A a \in Attempts, s \in Subtests :
    user_answers'[a][s] # user_answers[a][s] =>
      /\ status[a] = "ongoing" /\ subtest_sekarang[a] = s
      /\ now <= time_limit'[a][s]
AnswersOnlyInTime == [][WrittenInTime]_vars

(* A request that names a subtest moves the attempt out of that subtest or not
   at all, so a submit that is sent again after a lost answer never skips a
   subtest.  (The legacy endpoints name none and can: see the README.) *)
Moves(a) == status[a] = "ongoing" /\ <<status[a], subtest_sekarang[a]>>' #
                                     <<status[a], subtest_sekarang[a]>>
LeavesNamedSubtest ==
  \A r \in Requests :
    req[r].pc = "op" /\ req'[r].pc # "op" /\ req[r].subtest # Current =>
      \A a \in Attempts :
        Moves(a) => a = Att(r) /\ subtest_sekarang[a] = req[r].subtest
NamedSubtestOnly == [][LeavesNamedSubtest]_vars

(* The bound of the reconciliation loop is never what ends it: a user with
   one ongoing attempt is not told "no ongoing attempt" for want of steps. *)
LoopSuffices == \A r \in Requests : req[r].pc = "lock" => ~LastStep(r)

(* ErrAttemptAlreadyOngoing: a user has one ongoing attempt at most. *)
AtMostOneOngoing == \A u \in Users : Cardinality(OngoingAttempts(u)) <= 1

(* The attempt keeps the promise of Exam. *)
Stage(a) ==
  IF status[a] = "none" THEN 0
  ELSE IF status[a] = "ongoing" THEN subtest_sekarang[a] ELSE NumSubtests + 1

Promise == INSTANCE Exam WITH
  clock <- now, stage <- [a \in Attempts |-> Stage(a)],
  deadline <- time_limit, sheet <- user_answers

KeepsPromise == Promise!Spec
=============================================================================
