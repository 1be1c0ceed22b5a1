------------------------ MODULE TryoutAttemptProofs -------------------------
(***************************************************************************)
(* Proofs about TryoutAttempt, for any number of users, packs, subtests,   *)
(* questions and concurrent requests and with no bound on the time but     *)
(* MaxTime, which is arbitrary.                                            *)
(*                                                                         *)
(* Every step of every request does one of four things to the tables:      *)
(* nothing, insert a row, leave an expired subtest, or write in the active *)
(* subtest in time.  StepEffect says so, action by action; the theorems    *)
(* follow from the four effects.                                           *)
(***************************************************************************)
EXTENDS TryoutAttempt, TLAPS

tables == <<attemptVars, time_limit, user_answers>>

Inserted(a) ==
  /\ status[a] = "none"
  /\ status' = [status EXCEPT ![a] = "ongoing"]
  /\ subtest_sekarang' = [subtest_sekarang EXCEPT ![a] = 1]
  /\ \E t \in Nat : start_time' = [start_time EXCEPT ![a] = t]
  /\ UNCHANGED <<now, time_limit, user_answers>>

Left(a) ==
  /\ status[a] = "ongoing"
  /\ ~InTime(a)
  /\ time_limit[a][subtest_sekarang[a]] # NoLimit
  /\ AdvanceExpired(a)
  /\ UNCHANGED <<now, time_limit, user_answers>>

Written(a) ==
  /\ status[a] = "ongoing"
  /\ InTime(a)
  /\ EnsureLimit(a)
  /\ \E sheet \in Sheets :
       user_answers' = [user_answers EXCEPT ![a][subtest_sekarang[a]] = sheet]
  /\ \/ UNCHANGED attemptVars
     \/ ProgressTryout(a) /\ ~IsLast(a)
     \/ EndTryOut(a)
  /\ UNCHANGED now

(***************************************************************************)
(* Lemmas about the operators of TryoutAttempt.                            *)
(***************************************************************************)

(* A request slot is idle in a state a request can be in. *)
LEMMA IdleType == Idle \in RequestStates
<1>1. PICK u \in Users : TRUE BY UsersAssumption
<1>2. PICK p \in Pakets : TRUE BY UsersAssumption
<1>3. (CHOOSE x \in Users : TRUE) \in Users BY <1>1
<1>4. (CHOOSE x \in Pakets : TRUE) \in Pakets BY <1>2
<1>5. NoAnswers \in Payloads
  <2>1. NoAnswers \in [{} -> Jawaban] BY DEF NoAnswers
  <2>2. {} \in SUBSET Soal OBVIOUS
  <2> QED BY <2>1, <2>2 DEF Payloads
<1>6. Current \in 0 .. NumSubtests /\ 0 \in 0 .. NumSubtests
  BY NumSubtestsAssumption DEF Current
<1> QED BY <1>3, <1>4, <1>5, <1>6 DEF Idle, RequestStates, Ops

(* What SaveAnswersTx stores is a sheet again. *)
LEMMA UpsertType ==
  ASSUME NEW sheet \in Sheets, NEW answers \in Payloads, answers # BadAnswers
  PROVE  Upsert(sheet, answers) \in Sheets
<1>1. PICK Q \in SUBSET Soal : answers \in [Q -> Jawaban] BY DEF Payloads
<1> QED BY <1>1 DEF Upsert, Sheets

LEMMA AttType ==
  ASSUME TypeOK, NEW r \in Requests
  PROVE  Att(r) \in Attempts
<1>1. req[r] \in RequestStates BY DEF TypeOK
<1> QED BY <1>1 DEF Att, Attempts, RequestStates

(* ensureSubtestTimeLimitTx returns a time; a limit it makes up is in the
   future, so only one that was there already can have passed. *)
LEMMA EnsuredLimitType ==
  ASSUME TypeOK, NEW a \in Attempts
  PROVE  /\ EnsuredLimit(a) \in Nat \ {0}
         /\ ~InTime(a) => time_limit[a][subtest_sekarang[a]] # NoLimit
BY NumSubtestsAssumption, DurationAssumption
   DEF TypeOK, EnsuredLimit, InTime, Subtests, NoLimit

(* Where the time is up, ensuring the limit changes nothing. *)
LEMMA EnsureExpired ==
  ASSUME TypeOK, NEW a \in Attempts, ~InTime(a), EnsureLimit(a)
  PROVE  time_limit' = time_limit
<1>1. EnsuredLimit(a) = time_limit[a][subtest_sekarang[a]]
  BY EnsuredLimitType DEF EnsuredLimit
<1> QED BY <1>1 DEF EnsureLimit, TypeOK

(***************************************************************************)
(* The effect of a step.                                                   *)
(***************************************************************************)
LEMMA SaveEffect ==
  ASSUME TypeOK, NEW r \in Requests, SaveAnswers(Att(r), req[r].answers)
  PROVE  \E sheet \in Sheets :
           user_answers' =
             [user_answers EXCEPT ![Att(r)][subtest_sekarang[Att(r)]] = sheet]
<1> DEFINE a == Att(r)
           s == subtest_sekarang[a]
           sheet == Upsert(user_answers[a][s], req[r].answers)
<1>1. a \in Attempts BY AttType
<1>2. s \in Subtests /\ user_answers[a][s] \in Sheets BY <1>1 DEF TypeOK
<1>3. req[r].answers \in Payloads BY DEF TypeOK, RequestStates
<1>4. sheet \in Sheets BY <1>2, <1>3, UpsertType DEF SaveAnswers
<1>5. user_answers' = [user_answers EXCEPT ![a][s] = sheet]
  BY <1>1, <1>2 DEF SaveAnswers, TypeOK
<1> QED BY <1>4, <1>5

LEMMA StepEffect ==
  ASSUME TypeOK, [Next]_vars
  PROVE  \/ UNCHANGED <<now, tables>>
         \/ UNCHANGED tables /\ now' = now + 1
         \/ \E a \in Attempts : Inserted(a) \/ Left(a) \/ Written(a)
<1> USE DEF tables, attemptVars
<1>1. CASE Tick BY <1>1 DEF Tick
<1>2. ASSUME NEW r \in Requests, ReceiveAny(r) \/ ScoreReturns(r) \/ RequestDies(r)
      PROVE  UNCHANGED <<now, tables>>
  BY <1>2 DEF ReceiveAny, Receive, ScoreReturns, RequestDies
<1>3. ASSUME NEW r \in Requests, StartAttempt(r)
      PROVE  UNCHANGED <<now, tables>> \/ Inserted(Att(r))
  <2>1. CASE CheckNoOngoing(r) BY <2>1 DEF CheckNoOngoing
  <2>2. CASE InsertAttempt(r)
    <3>1. StartTimes(r) \subseteq Nat BY DEF TypeOK, RequestStates, StartTimes
    <3> QED BY <2>2, <3>1 DEF InsertAttempt, Inserted
  <2>3. CASE DuplicateAttempt(r) BY <2>3 DEF DuplicateAttempt
  <2> QED BY <1>3, <2>1, <2>2, <2>3 DEF StartAttempt
<1>4. ASSUME NEW r \in Requests, Reconcile(r)
      PROVE  UNCHANGED <<now, tables>> \/ Left(Att(r))
  <2>1. CASE SelectAttempt(r) BY <2>1 DEF SelectAttempt
  <2>2. CASE ReconcileGone(r) BY <2>2 DEF ReconcileGone
  <2>3. CASE ReconcileInTime(r) BY <2>3 DEF ReconcileInTime
  <2>4. CASE ReconcileExpired(r)
    <3>1. ~InTime(Att(r)) /\ time_limit[Att(r)][subtest_sekarang[Att(r)]] # NoLimit
      BY <2>4, AttType DEF ReconcileExpired, Expired, InTime, EnsuredLimit, TypeOK, NoLimit
    <3> QED BY <2>4, <3>1 DEF ReconcileExpired, Left
  <2> QED BY <1>4, <2>1, <2>2, <2>3, <2>4 DEF Reconcile
<1>5. ASSUME NEW r \in Requests, Operate(r)
      PROVE  UNCHANGED <<now, tables>> \/ Left(Att(r)) \/ Written(Att(r))
  <2>0. Att(r) \in Attempts BY AttType
  <2>1. CASE OpRefused(r) BY <2>1 DEF OpRefused
  <2>2. CASE OpInvalid(r) BY <2>2 DEF OpInvalid
  <2>3. CASE SyncExpired(r)
    BY <2>0, <2>3, EnsuredLimitType, EnsureExpired DEF SyncExpired, IsActive, Left
  <2>4. CASE SyncAnswers(r)
    BY <2>0, <2>4, SaveEffect DEF SyncAnswers, IsActive, Written
  <2>5. CASE SubmitExpired(r)
    BY <2>0, <2>5, EnsuredLimitType, EnsureExpired DEF SubmitExpired, IsActive, Left
  <2>6. CASE SubmitSubtest(r)
    BY <2>0, <2>6, SaveEffect DEF SubmitSubtest, IsActive, Written
  <2>7. CASE FinishTryout(r)
    BY <2>0, <2>7, SaveEffect DEF FinishTryout, IsActive, Written
  <2> QED BY <1>5, <2>1, <2>2, <2>3, <2>4, <2>5, <2>6, <2>7 DEF Operate
<1>6. CASE UNCHANGED vars BY <1>6 DEF vars
<1> QED
  BY <1>1, <1>2, <1>3, <1>4, <1>5, <1>6, AttType DEF Next, AttemptNext

(***************************************************************************)
(* Type correctness.                                                       *)
(***************************************************************************)
TablesOK ==
  /\ now \in Nat \ {0}
  /\ status \in [Attempts -> Status]
  /\ subtest_sekarang \in [Attempts -> Subtests]
  /\ start_time \in [Attempts -> Nat]
  /\ time_limit \in [Attempts -> [Subtests -> Nat]]
  /\ user_answers \in [Attempts -> [Subtests -> Sheets]]

LEMMA AttemptRowType ==
  ASSUME TypeOK, NEW a \in Attempts,
         EndTryOut(a) \/ (ProgressTryout(a) /\ ~IsLast(a))
  PROVE  /\ status' \in [Attempts -> Status]
         /\ subtest_sekarang' \in [Attempts -> Subtests]
         /\ start_time' \in [Attempts -> Nat]
<1>1. CASE EndTryOut(a) BY <1>1 DEF EndTryOut, TypeOK, Status
<1>2. CASE ProgressTryout(a) /\ ~IsLast(a)
  <2>1. subtest_sekarang[a] + 1 \in Subtests
    BY <1>2, NumSubtestsAssumption DEF IsLast, TypeOK, Subtests
  <2> QED BY <1>2, <2>1 DEF ProgressTryout, TypeOK
<1> QED BY <1>1, <1>2

LEMMA TablesType == TypeOK /\ [Next]_vars => TablesOK'
<1> SUFFICES ASSUME TypeOK, [Next]_vars PROVE TablesOK' OBVIOUS
<1> USE DEF TablesOK
<1>1. CASE UNCHANGED <<now, tables>> BY <1>1 DEF TypeOK, tables, attemptVars
<1>2. CASE UNCHANGED tables /\ now' = now + 1
  BY <1>2 DEF TypeOK, tables, attemptVars
<1>3. ASSUME NEW a \in Attempts, Inserted(a) PROVE TablesOK'
  BY <1>3, NumSubtestsAssumption DEF TypeOK, Inserted, Subtests, Status
<1>4. ASSUME NEW a \in Attempts, Left(a) PROVE TablesOK'
  BY <1>4, AttemptRowType DEF TypeOK, Left, AdvanceExpired
<1>5. ASSUME NEW a \in Attempts, Written(a) PROVE TablesOK'
  <2>1. EnsuredLimit(a) \in Nat BY EnsuredLimitType
  <2>2. time_limit' \in [Attempts -> [Subtests -> Nat]]
    BY <1>5, <2>1 DEF TypeOK, Written, EnsureLimit
  <2>3. user_answers' \in [Attempts -> [Subtests -> Sheets]]
    BY <1>5 DEF TypeOK, Written
  <2>4. now' \in Nat \ {0} BY <1>5 DEF TypeOK, Written
  <2>5. /\ status' \in [Attempts -> Status]
        /\ subtest_sekarang' \in [Attempts -> Subtests]
        /\ start_time' \in [Attempts -> Nat]
    BY <1>5, AttemptRowType DEF TypeOK, Written, attemptVars
  <2> QED BY <2>2, <2>3, <2>4, <2>5
<1> QED BY <1>1, <1>2, <1>3, <1>4, <1>5, StepEffect

LEMMA RespondType ==
  ASSUME TypeOK, NEW r \in Requests, Respond(r)
  PROVE  req' \in [Requests -> RequestStates]
BY IdleType DEF TypeOK, Respond

LEMMA ScoreAndRespondType ==
  ASSUME TypeOK, NEW r \in Requests, NEW todo \in SUBSET Subtests,
         ScoreAndRespond(r, todo)
  PROVE  req' \in [Requests -> RequestStates]
BY IdleType DEF TypeOK, ScoreAndRespond, RequestStates

LEMMA ReqType == TypeOK /\ [Next]_vars => (req \in [Requests -> RequestStates])'
<1> SUFFICES ASSUME TypeOK, [Next]_vars PROVE req' \in [Requests -> RequestStates]
  OBVIOUS
<1>0. /\ req \in [Requests -> RequestStates]
      /\ \A r \in Requests :
           Att(r) \in Attempts /\ subtest_sekarang[Att(r)] \in Subtests
  BY AttType DEF TypeOK
<1>1. CASE Tick \/ UNCHANGED vars BY <1>0, <1>1 DEF Tick, vars
<1>2. ASSUME NEW r \in Requests, ReceiveAny(r)
      PROVE  req' \in [Requests -> RequestStates]
  <2>1. ASSUME NEW op \in Ops, NEW u \in Users, NEW p \in Pakets,
               NEW s \in 0 .. NumSubtests, NEW ans \in Payloads, Receive(r, op, u, p, s, ans)
        PROVE  req' \in [Requests -> RequestStates]
    BY <1>0, <2>1, IdleType DEF Receive, RequestStates
  <2>2. /\ Idle.paket \in Pakets /\ Current \in 0 .. NumSubtests
        /\ NoAnswers \in Payloads
    BY IdleType DEF RequestStates, Idle
  <2> QED BY <1>2, <2>1, <2>2 DEF ReceiveAny, Ops
<1>3. ASSUME NEW r \in Requests, StartAttempt(r)
      PROVE  req' \in [Requests -> RequestStates]
  BY <1>0, <1>3, RespondType
     DEF StartAttempt, CheckNoOngoing, InsertAttempt, DuplicateAttempt, RequestStates
<1>4. ASSUME NEW r \in Requests, Reconcile(r)
      PROVE  req' \in [Requests -> RequestStates]
  <2>1. CASE SelectAttempt(r)
    <3>1. \A a \in LatestOngoing(req[r].user) : a[2] \in Pakets
      BY DEF LatestOngoing, OngoingAttempts, Attempts
    <3> QED BY <1>0, <2>1, <3>1, RespondType DEF SelectAttempt, RequestStates
  <2>2. CASE ReconcileGone(r) BY <2>2, RespondType DEF ReconcileGone
  <2>3. CASE ReconcileInTime(r)
    BY <1>0, <2>3, RespondType DEF ReconcileInTime, RequestStates
  <2>4. CASE ReconcileExpired(r)
    <3>1. CASE IsLast(Att(r)) \/ LastStep(r)
      BY <1>0, <2>4, <3>1, ScoreAndRespondType DEF ReconcileExpired
    <3>2. CASE ~LastStep(r) /\ ~IsLast(Att(r))
      <4>1. req[r].steps + 1 \in 0 .. NumSubtests
        BY <1>0, <3>2, NumSubtestsAssumption DEF LastStep, RequestStates
      <4> QED BY <1>0, <2>4, <3>2, <4>1 DEF ReconcileExpired, RequestStates
    <3> QED BY <3>1, <3>2
  <2> QED BY <1>4, <2>1, <2>2, <2>3, <2>4 DEF Reconcile
<1>5. ASSUME NEW r \in Requests, Operate(r)
      PROVE  req' \in [Requests -> RequestStates]
  <2>1. CASE OpRefused(r) \/ OpInvalid(r) \/ SyncExpired(r) \/ SyncAnswers(r)
    BY <2>1, RespondType DEF OpRefused, OpInvalid, SyncExpired, SyncAnswers
  <2>2. CASE SubmitExpired(r) \/ SubmitSubtest(r)
    BY <1>0, <2>2, ScoreAndRespondType DEF SubmitExpired, SubmitSubtest
  <2>3. CASE FinishTryout(r) BY <2>3, ScoreAndRespondType DEF FinishTryout
  <2> QED BY <1>5, <2>1, <2>2, <2>3 DEF Operate
<1>6. ASSUME NEW r \in Requests, ScoreReturns(r) \/ RequestDies(r)
      PROVE  req' \in [Requests -> RequestStates]
  BY <1>0, <1>6, RespondType DEF ScoreReturns, RequestDies, RequestStates
<1> QED BY <1>1, <1>2, <1>3, <1>4, <1>5, <1>6 DEF Next, AttemptNext

LEMMA InitType == Init => TypeOK
<1> SUFFICES ASSUME Init PROVE TypeOK OBVIOUS
<1>1. req \in [Requests -> RequestStates] BY IdleType DEF Init
<1>2. EmptySheet \in Sheets BY DEF EmptySheet, Sheets
<1> QED BY <1>1, <1>2, NumSubtestsAssumption DEF Init, TypeOK, Status, Subtests, NoLimit

(* The tables and the requests hold what their declarations say. *)
THEOREM TypeCorrect == Spec => []TypeOK
<1>1. Init => TypeOK BY InitType
<1>2. TypeOK /\ [Next]_vars => TypeOK' BY TablesType, ReqType DEF TypeOK, TablesOK
<1> QED BY <1>1, <1>2, PTL DEF Spec

(***************************************************************************)
(* The steps of one request.                                               *)
(***************************************************************************)
RequestStep(r) ==
  \/ ReceiveAny(r) \/ StartAttempt(r) \/ Reconcile(r) \/ Operate(r)
  \/ ScoreReturns(r) \/ RequestDies(r)

(* A step of one request leaves the others where they are. *)
LEMMA OthersWait ==
  ASSUME TypeOK, NEW r \in Requests, NEW q \in Requests, q # r, RequestStep(q)
  PROVE  req'[r] = req[r]
<1> USE DEF TypeOK, Respond, ScoreAndRespond
<1>1. CASE ReceiveAny(q) BY <1>1 DEF ReceiveAny, Receive
<1>2. CASE StartAttempt(q)
  BY <1>2 DEF StartAttempt, CheckNoOngoing, InsertAttempt, DuplicateAttempt
<1>3. CASE Reconcile(q)
  BY <1>3 DEF Reconcile, SelectAttempt, ReconcileGone, ReconcileInTime, ReconcileExpired
<1>4. CASE Operate(q)
  <2>1. CASE OpRefused(q) \/ OpInvalid(q) BY <2>1 DEF OpRefused, OpInvalid
  <2>2. CASE SyncExpired(q) \/ SyncAnswers(q) BY <2>2 DEF SyncExpired, SyncAnswers
  <2>3. CASE SubmitExpired(q) \/ SubmitSubtest(q) BY <2>3 DEF SubmitExpired, SubmitSubtest
  <2>4. CASE FinishTryout(q) BY <2>4 DEF FinishTryout
  <2> QED BY <1>4, <2>1, <2>2, <2>3, <2>4 DEF Operate
<1>5. CASE ScoreReturns(q) \/ RequestDies(q) BY <1>5 DEF ScoreReturns, RequestDies
<1> QED BY <1>1, <1>2, <1>3, <1>4, <1>5 DEF RequestStep

(* A request takes the time at its test and at its INSERT, which writes it. *)
LEMMA StartedFields ==
  ASSUME TypeOK, NEW r \in Requests, RequestStep(r)
  PROVE  /\ now' = now /\ req'[r].started \in {0, now, req[r].started}
         /\ \A a \in Attempts : start_time'[a] \in {start_time[a]} \cup StartTimes(r)
<1>0. req \in [Requests -> RequestStates] /\ Idle.started = 0 /\ Idle \in RequestStates
  BY IdleType DEF TypeOK, Idle
<1> USE DEF attemptVars
<1>1. ASSUME Respond(r) \/ \E todo : ScoreAndRespond(r, todo)
      PROVE  req'[r].started = 0
  <2>1. CASE Respond(r) BY <1>0, <2>1 DEF Respond
  <2>2. ASSUME NEW todo, ScoreAndRespond(r, todo) PROVE req'[r].started = 0
    <3>1. req'[r] = [Idle EXCEPT !.pc = "score", !.user = req[r].user,
                                 !.paket = req[r].paket, !.todo = todo]
      BY <1>0, <2>2 DEF ScoreAndRespond
    <3> QED BY <3>1 DEF Idle
  <2> QED BY <1>1, <2>1, <2>2
<1>2. CASE ReceiveAny(r)
  <2>1. ASSUME NEW op, NEW u, NEW p, NEW s, NEW ans, Receive(r, op, u, p, s, ans)
        PROVE  req'[r].started = 0
    <3>1. req'[r] = [Idle EXCEPT !.pc = IF op = "attempt" THEN "check" ELSE "select",
                                 !.op = op, !.user = u, !.paket = p,
                                 !.subtest = s, !.answers = ans]
      BY <1>0, <2>1 DEF Receive
    <3> QED BY <3>1 DEF Idle
  <2>2. req'[r].started = 0 BY <1>2, <2>1 DEF ReceiveAny
  <2>3. now' = now /\ start_time' = start_time BY <1>2 DEF ReceiveAny, Receive
  <2> QED BY <2>2, <2>3
<1>3. CASE StartAttempt(r)
  <2>1. CASE CheckNoOngoing(r) BY <1>0, <1>1, <2>1 DEF CheckNoOngoing, RequestStates
  <2>2. CASE InsertAttempt(r) BY <1>1, <2>2 DEF InsertAttempt, TypeOK
  <2>3. CASE DuplicateAttempt(r) BY <1>1, <2>3 DEF DuplicateAttempt
  <2> QED BY <1>3, <2>1, <2>2, <2>3 DEF StartAttempt
<1>4. CASE Reconcile(r)
  <2>1. CASE SelectAttempt(r) BY <1>0, <1>1, <2>1 DEF SelectAttempt, RequestStates
  <2>2. CASE ReconcileGone(r) BY <1>1, <2>2 DEF ReconcileGone
  <2>3. CASE ReconcileInTime(r) BY <1>0, <1>1, <2>3 DEF ReconcileInTime, RequestStates
  <2>4. CASE ReconcileExpired(r)
    BY <1>0, <1>1, <2>4
       DEF ReconcileExpired, AdvanceExpired, EndTryOut, ProgressTryout, RequestStates
  <2> QED BY <1>4, <2>1, <2>2, <2>3, <2>4 DEF Reconcile
<1>5. CASE Operate(r)
  <2> USE DEF AdvanceExpired, EndTryOut, ProgressTryout
  <2>1. CASE OpRefused(r) \/ OpInvalid(r) BY <1>1, <2>1 DEF OpRefused, OpInvalid
  <2>2. CASE SyncExpired(r) \/ SyncAnswers(r) BY <1>1, <2>2 DEF SyncExpired, SyncAnswers
  <2>3. CASE SubmitExpired(r) \/ SubmitSubtest(r)
    BY <1>1, <2>3 DEF SubmitExpired, SubmitSubtest
  <2>4. CASE FinishTryout(r) BY <1>1, <2>4 DEF FinishTryout
  <2> QED BY <1>5, <2>1, <2>2, <2>3, <2>4 DEF Operate
<1>6. CASE ScoreReturns(r) \/ RequestDies(r)
  BY <1>0, <1>1, <1>6 DEF ScoreReturns, RequestDies, RequestStates
<1> QED BY <1>2, <1>3, <1>4, <1>5, <1>6 DEF RequestStep

(***************************************************************************)
(* The time limits.  FullDuration is not inductive alone: a new limit must *)
(* not have a successor yet (LimitsTrackProgress), and the first one is    *)
(* counted from now, which is not before start_time (StartedBefore).       *)
(***************************************************************************)
StartedBefore ==
  /\ \A a \in Attempts : start_time[a] <= now
  /\ \A r \in Requests : req[r].started <= now

LimitsInv == TypeOK /\ LimitsTrackProgress /\ StartedBefore /\ FullDuration

LEMMA InitLimits == Init => LimitsInv
<1> SUFFICES ASSUME Init PROVE LimitsInv OBVIOUS
<1>1. TypeOK BY InitType
<1>2. LimitsTrackProgress BY DEF Init, LimitsTrackProgress
<1>3. StartedBefore BY DEF Init, StartedBefore, Idle
<1>4. FullDuration BY DEF Init, FullDuration
<1> QED BY <1>1, <1>2, <1>3, <1>4 DEF LimitsInv

LEMMA NextLimitsTrackProgress ==
  ASSUME LimitsInv, [Next]_vars
  PROVE  LimitsTrackProgress'
<1> USE DEF LimitsTrackProgress
<1>0. TypeOK /\ TypeOK' BY TablesType, ReqType DEF LimitsInv, TypeOK, TablesOK
<1>1. CASE UNCHANGED tables BY <1>1 DEF LimitsInv, tables, attemptVars
<1>2. ASSUME NEW a \in Attempts, Inserted(a) PROVE LimitsTrackProgress'
  <2>1. LimitsTrackProgress /\ time_limit' = time_limit /\ status[a] = "none"
    BY <1>2 DEF LimitsInv, Inserted
  <2>2. /\ status' = [status EXCEPT ![a] = "ongoing"]
        /\ subtest_sekarang' = [subtest_sekarang EXCEPT ![a] = 1]
    BY <1>2 DEF Inserted
  <2>3. \A s \in Subtests : s \in Nat /\ ~(s < 1) BY DEF Subtests
  <2> QED BY <1>0, <2>1, <2>2, <2>3 DEF TypeOK
<1>3. ASSUME NEW a \in Attempts, Left(a) PROVE LimitsTrackProgress'
  <2>1. CASE EndTryOut(a)
    BY <1>0, <1>3, <2>1 DEF LimitsInv, Left, EndTryOut, TypeOK, Subtests, NoLimit
  <2>2. CASE ProgressTryout(a)
    BY <1>0, <1>3, <2>2 DEF LimitsInv, Left, ProgressTryout, TypeOK, Subtests, NoLimit
  <2> QED BY <1>3, <2>1, <2>2 DEF Left, AdvanceExpired
<1>4. ASSUME NEW a \in Attempts, Written(a) PROVE LimitsTrackProgress'
  <2>1. EnsuredLimit(a) # NoLimit BY <1>0, EnsuredLimitType DEF NoLimit
  <2>2. \A b \in Attempts, s \in Subtests :
          time_limit'[b][s] = IF b = a /\ s = subtest_sekarang[a]
                                THEN EnsuredLimit(a) ELSE time_limit[b][s]
    BY <1>0, <1>4 DEF Written, EnsureLimit, TypeOK
  <2>0. status[a] = "ongoing" /\ LimitsTrackProgress
    BY <1>4 DEF Written, LimitsInv
  <2>3. CASE UNCHANGED attemptVars
    <3>1. status' = status /\ subtest_sekarang' = subtest_sekarang
      BY <2>3 DEF attemptVars
    <3>2. subtest_sekarang[a] \in Nat BY <1>0 DEF TypeOK, Subtests
    <3> QED BY <2>0, <2>1, <2>2, <3>1, <3>2
  <2>4. CASE ProgressTryout(a)
    <3>1. /\ status' = status
          /\ \A b \in Attempts :
               subtest_sekarang'[b] = subtest_sekarang[b] + (IF b = a THEN 1 ELSE 0)
      BY <1>0, <2>4 DEF ProgressTryout, TypeOK, Subtests
    <3>2. Subtests \subseteq Nat /\ subtest_sekarang \in [Attempts -> Nat]
      BY <1>0 DEF TypeOK, Subtests
    <3> QED BY <2>0, <2>1, <2>2, <3>1, <3>2
  <2>5. CASE EndTryOut(a)
    <3>1. /\ status'[a] = "finished" /\ subtest_sekarang' = subtest_sekarang
          /\ \A b \in Attempts : b # a => status'[b] = status[b]
      BY <1>0, <2>5 DEF EndTryOut, TypeOK
    <3>2. Subtests \subseteq Nat /\ subtest_sekarang \in [Attempts -> Nat]
      BY <1>0 DEF TypeOK, Subtests
    <3> QED BY <2>0, <2>1, <2>2, <3>1, <3>2
  <2> QED BY <1>4, <2>3, <2>4, <2>5 DEF Written
<1> QED BY <1>0, <1>1, <1>2, <1>3, <1>4, StepEffect DEF tables

LEMMA NextStartedBefore ==
  ASSUME LimitsInv, [Next]_vars
  PROVE  StartedBefore'
<1>0. TypeOK /\ StartedBefore /\ TypeOK'
  BY TablesType, ReqType DEF LimitsInv, TypeOK, TablesOK
<1>1. /\ \A a \in Attempts : start_time[a] \in Nat
      /\ \A r \in Requests : req[r].started \in Nat
      /\ now \in Nat
  BY <1>0 DEF TypeOK, RequestStates
<1>2. CASE Tick BY <1>0, <1>1, <1>2 DEF Tick, StartedBefore, attemptVars
<1>3. ASSUME NEW r \in Requests, RequestStep(r) PROVE StartedBefore'
  <2>1. /\ now' = now /\ req'[r].started \in {0, now, req[r].started}
        /\ \A a \in Attempts : start_time'[a] \in {start_time[a]} \cup StartTimes(r)
    BY <1>0, <1>3, StartedFields
  <2>3. \A t \in StartTimes(r) : t <= now BY DEF StartTimes
  <2>2. \A q \in Requests : q # r => req'[q] = req[q] BY <1>0, <1>3, OthersWait
  <2> QED BY <1>0, <1>1, <2>1, <2>2, <2>3 DEF StartedBefore
<1>4. CASE UNCHANGED vars BY <1>0, <1>4 DEF vars, attemptVars, StartedBefore
<1> QED BY <1>2, <1>3, <1>4 DEF Next, AttemptNext, RequestStep

LEMMA NextFullDuration ==
  ASSUME LimitsInv, [Next]_vars
  PROVE  FullDuration'
<1> USE DEF FullDuration
<1>0. TypeOK /\ TypeOK' BY TablesType, ReqType DEF LimitsInv, TypeOK, TablesOK
<1>1. CASE UNCHANGED tables BY <1>1 DEF LimitsInv, tables, attemptVars
<1>2. ASSUME NEW a \in Attempts, Inserted(a) PROVE FullDuration'
  <2>1. \A s \in Subtests : time_limit[a][s] = NoLimit
    BY <1>2 DEF LimitsInv, LimitsTrackProgress, Inserted
  <2> QED BY <1>0, <1>2, <2>1 DEF LimitsInv, Inserted, TypeOK
<1>3. ASSUME NEW a \in Attempts, Left(a) PROVE FullDuration'
  BY <1>3 DEF LimitsInv, Left, AdvanceExpired, EndTryOut, ProgressTryout
<1>4. ASSUME NEW a \in Attempts, Written(a) PROVE FullDuration'
  <2> DEFINE c == subtest_sekarang[a]
  <2>0. c \in Subtests BY <1>0 DEF TypeOK
  <2>1. \A b \in Attempts, s \in Subtests :
          time_limit'[b][s] = IF b = a /\ s = c THEN EnsuredLimit(a) ELSE time_limit[b][s]
    BY <1>0, <1>4 DEF Written, EnsureLimit, TypeOK
  <2>2. start_time' = start_time
    BY <1>4 DEF Written, attemptVars, EndTryOut, ProgressTryout
  <2>3. EnsuredLimit(a) >=
          SubtestDuration[c] + IF c = 1 THEN start_time[a] ELSE time_limit[a][c - 1]
    <3>1. CASE time_limit[a][c] # NoLimit
      BY <2>0, <3>1 DEF LimitsInv, EnsuredLimit
    <3>2. CASE time_limit[a][c] = NoLimit /\ c = 1
      BY <1>0, <2>0, <3>2, DurationAssumption
         DEF LimitsInv, StartedBefore, EnsuredLimit, TypeOK
    <3>3. CASE time_limit[a][c] = NoLimit /\ c # 1
      <4>1. c - 1 \in Subtests /\ c > 1 BY <2>0, <3>3, NumSubtestsAssumption DEF Subtests
      <4> QED BY <1>0, <2>0, <3>3, <4>1, DurationAssumption DEF EnsuredLimit, TypeOK
    <3> QED BY <3>1, <3>2, <3>3
  <2>4. \A s \in Subtests : s > c => time_limit[a][s] = NoLimit
    BY DEF LimitsInv, LimitsTrackProgress
  <2> SUFFICES ASSUME NEW b \in Attempts, NEW s \in Subtests,
                      time_limit'[b][s] # NoLimit
               PROVE  time_limit'[b][s] >= SubtestDuration[s] +
                        IF s = 1 THEN start_time'[b] ELSE time_limit'[b][s - 1]
    OBVIOUS
  <2>5. CASE b = a /\ s = c
    BY <1>0, <2>0, <2>1, <2>2, <2>3, <2>5, NumSubtestsAssumption DEF Subtests
  <2>6. CASE b # a \/ s < c
    BY <1>0, <2>0, <2>1, <2>2, <2>6, NumSubtestsAssumption DEF LimitsInv, Subtests
  <2>7. CASE b = a /\ s > c
    BY <2>0, <2>1, <2>4, <2>7, NumSubtestsAssumption DEF Subtests
  <2> QED BY <2>0, <2>5, <2>6, <2>7, NumSubtestsAssumption DEF Subtests
<1> QED BY <1>0, <1>1, <1>2, <1>3, <1>4, StepEffect DEF tables

LEMMA NextLimits == LimitsInv /\ [Next]_vars => LimitsInv'
BY NextLimitsTrackProgress, NextStartedBefore, NextFullDuration, TablesType, ReqType
   DEF LimitsInv, TypeOK, TablesOK

(* time_limit has a row for exactly the subtests the attempt has been in. *)
THEOREM LimitsFollowProgress == Spec => []LimitsTrackProgress
<1>1. LimitsInv => LimitsTrackProgress BY DEF LimitsInv
<1> QED BY <1>1, InitLimits, NextLimits, PTL DEF Spec

(* Every subtest gets its whole duration after the one before. *)
THEOREM NobodyLosesTime == Spec => []FullDuration
<1>1. LimitsInv => FullDuration BY DEF LimitsInv
<1> QED BY <1>1, InitLimits, NextLimits, PTL DEF Spec

(***************************************************************************)
(* Answers.                                                                *)
(***************************************************************************)

(* Answers are stored in the active subtest and in time, or not at all. *)
THEOREM AnswersInTime == Spec => AnswersOnlyInTime
<1>1. ASSUME TypeOK, [Next]_vars PROVE WrittenInTime
  <2> USE DEF WrittenInTime
  <2>1. CASE UNCHANGED tables BY <2>1 DEF tables
  <2>2. ASSUME NEW a \in Attempts, Inserted(a) \/ Left(a) PROVE WrittenInTime
    BY <2>2 DEF Inserted, Left
  <2>3. ASSUME NEW a \in Attempts, Written(a) PROVE WrittenInTime
    <3>1. time_limit'[a][subtest_sekarang[a]] = EnsuredLimit(a)
      BY <1>1, <2>3 DEF Written, EnsureLimit, TypeOK
    <3>2. \A b \in Attempts, s \in Subtests :
            b # a \/ s # subtest_sekarang[a] => user_answers'[b][s] = user_answers[b][s]
      BY <1>1, <2>3 DEF Written, TypeOK
    <3> QED BY <2>3, <3>1, <3>2 DEF Written, InTime
  <2> QED BY <1>1, <2>1, <2>2, <2>3, StepEffect DEF tables
<1> QED BY <1>1, TypeCorrect, PTL DEF Spec, AnswersOnlyInTime

(***************************************************************************)
(* TryoutAttempt implements Exam.                                          *)
(***************************************************************************)
LEMMA InitPromise == Init => Promise!Init
BY DEF Init, Promise!Init, Stage, Promise!NotBegun, Promise!Subtests, Subtests, NoLimit

LEMMA PromisedDeadline ==
  ASSUME NEW a \in Attempts, NEW s \in Subtests, subtest_sekarang[a] = s, TypeOK
  PROVE  Promise!DeadlineOf(a, s) = EnsuredLimit(a)
BY NumSubtestsAssumption, DurationAssumption
   DEF Promise!DeadlineOf, EnsuredLimit, NoLimit, TypeOK, Subtests

LEMMA NextPromise == TypeOK /\ TypeOK' /\ [Next]_vars => [Promise!Next]_Promise!vars
<1> SUFFICES ASSUME TypeOK, TypeOK', [Next]_vars PROVE [Promise!Next]_Promise!vars
  OBVIOUS
<1> DEFINE stage == [a \in Attempts |-> Stage(a)]
<1>0. Promise!Subtests = Subtests BY DEF Promise!Subtests, Subtests
<1>1. CASE UNCHANGED <<now, tables>>
  BY <1>1 DEF tables, attemptVars, Promise!vars, Stage
<1>2. CASE UNCHANGED tables /\ now' = now + 1
  BY <1>2 DEF tables, attemptVars, TypeOK, Promise!Next, Promise!TimePasses, Stage
<1>3. ASSUME NEW a \in Attempts, Inserted(a) PROVE Promise!BeginAttempt(a)
  <2>1. stage[a] = Promise!NotBegun
    BY <1>3 DEF Inserted, Stage, Promise!NotBegun
  <2>2. stage' = [stage EXCEPT ![a] = 1] BY <1>3 DEF Inserted, Stage, TypeOK
  <2> QED BY <1>3, <2>1, <2>2 DEF Inserted, Promise!BeginAttempt
<1>4. ASSUME NEW a \in Attempts, Left(a) PROVE Promise!Expire(a, subtest_sekarang[a])
  <2>1. stage[a] = subtest_sekarang[a] BY <1>4 DEF Left, Stage
  <2>2. now > Promise!DeadlineOf(a, subtest_sekarang[a])
    <3>1. Promise!DeadlineOf(a, subtest_sekarang[a]) = EnsuredLimit(a)
      BY PromisedDeadline DEF TypeOK
    <3> QED BY <1>4, <3>1, EnsuredLimitType DEF Left, InTime, TypeOK
  <2>3. stage' = [stage EXCEPT ![a] = subtest_sekarang[a] + 1]
    BY <1>4 DEF Left, AdvanceExpired, IsLast, EndTryOut, ProgressTryout, Stage, TypeOK
  <2> QED BY <1>4, <2>1, <2>2, <2>3 DEF Left, Promise!Expire
<1>5. ASSUME NEW a \in Attempts, Written(a) PROVE Promise!Answer(a, subtest_sekarang[a])
  <2> DEFINE s == subtest_sekarang[a]
  <2>0. Promise!DeadlineOf(a, s) = EnsuredLimit(a) BY PromisedDeadline DEF TypeOK
  <2>1. stage[a] = s BY <1>5 DEF Written, Stage
  <2>2. now <= Promise!DeadlineOf(a, s) BY <1>5, <2>0 DEF Written, InTime
  <2>3. Promise!SetDeadline(a, s)
    BY <1>5, <2>0 DEF Written, EnsureLimit, Promise!SetDeadline
  <2>4. \E next \in {s, s + 1, Promise!Over} : stage' = [stage EXCEPT ![a] = next]
    <3>1. CASE UNCHANGED attemptVars
      <4>1. stage' = [stage EXCEPT ![a] = s]
        BY <2>1, <3>1 DEF attemptVars, Stage
      <4> QED BY <4>1
    <3>2. CASE ProgressTryout(a)
      <4>1. stage' = [stage EXCEPT ![a] = s + 1]
        BY <1>5, <3>2 DEF Written, ProgressTryout, Stage, TypeOK
      <4> QED BY <4>1
    <3>3. CASE EndTryOut(a)
      <4>1. stage' = [stage EXCEPT ![a] = Promise!Over]
        BY <1>5, <3>3 DEF Written, EndTryOut, Stage, TypeOK, Promise!Over
      <4> QED BY <4>1
    <3> QED BY <1>5, <3>1, <3>2, <3>3 DEF Written
  <2>5. \E new \in Sheets : user_answers' = [user_answers EXCEPT ![a][s] = new]
    BY <1>5 DEF Written
  <2> QED BY <1>5, <2>1, <2>2, <2>3, <2>4, <2>5 DEF Written, Promise!Answer
<1>6. \A a \in Attempts : subtest_sekarang[a] \in Promise!Subtests
  BY <1>0 DEF TypeOK
<1> QED
  BY <1>1, <1>2, <1>3, <1>4, <1>5, <1>6, StepEffect DEF Promise!Next

(* Every behaviour of the service is one of Exam, with the rows read as its
   state. *)
THEOREM ImplementsExam == Spec => KeepsPromise
<1> QED
  BY InitPromise, NextPromise, TypeCorrect, PTL DEF Spec, KeepsPromise, Promise!Spec

(***************************************************************************)
(* Moves.                                                                  *)
(***************************************************************************)
(* The operation of a request moves its own attempt, and only when that is
   active for it. *)
LEMMA OperateMoves ==
  ASSUME TypeOK, NEW r \in Requests, Operate(r), NEW a \in Attempts, Moves(a)
  PROVE  a = Att(r) /\ IsActive(r)
<1>0. Att(r) \in Attempts BY AttType
<1> USE DEF Moves, attemptVars, EndTryOut, ProgressTryout, AdvanceExpired, TypeOK
<1>1. CASE OpRefused(r) \/ OpInvalid(r) BY <1>1 DEF OpRefused, OpInvalid
<1>2. CASE SyncExpired(r) BY <1>0, <1>2 DEF SyncExpired
<1>3. CASE SyncAnswers(r) BY <1>3 DEF SyncAnswers
<1>4. CASE SubmitExpired(r) BY <1>0, <1>4 DEF SubmitExpired
<1>5. CASE SubmitSubtest(r) BY <1>0, <1>5 DEF SubmitSubtest
<1>6. CASE FinishTryout(r) BY <1>0, <1>6 DEF FinishTryout
<1> QED BY <1>1, <1>2, <1>3, <1>4, <1>5, <1>6 DEF Operate

(* A request that names its subtest moves the attempt out of that subtest or
   not at all, however late it arrives and however often it is sent. *)
THEOREM NoSubtestSkipped == Spec => NamedSubtestOnly
<1>1. ASSUME TypeOK, [Next]_vars PROVE LeavesNamedSubtest
  <2> SUFFICES ASSUME NEW r \in Requests, req[r].pc = "op", req'[r].pc # "op",
                      req[r].subtest # Current, NEW a \in Attempts, Moves(a)
               PROVE  a = Att(r) /\ subtest_sekarang[a] = req[r].subtest
    BY DEF LeavesNamedSubtest
  <2>1. ~UNCHANGED vars /\ ~Tick BY DEF vars, Tick
  <2>2. PICK q \in Requests : RequestStep(q)
    BY <1>1, <2>1 DEF Next, AttemptNext, RequestStep
  <2>3. RequestStep(r) BY <1>1, <2>2, OthersWait
  <2>4. ~ReceiveAny(r) /\ ~StartAttempt(r) /\ ~Reconcile(r) /\ ~ScoreReturns(r)
    BY DEF ReceiveAny, Receive, StartAttempt, CheckNoOngoing, InsertAttempt,
           DuplicateAttempt, Reconcile, SelectAttempt, ReconcileGone,
           ReconcileInTime, ReconcileExpired, ScoreReturns
  <2>5. ~RequestDies(r) BY DEF RequestDies, attemptVars, Moves
  <2> QED BY <1>1, <2>3, <2>4, <2>5, OperateMoves DEF RequestStep, IsActive
<1> QED BY <1>1, TypeCorrect, PTL DEF Spec, NamedSubtestOnly

(***************************************************************************)
(* The reconciliation loop.  Where a user has one attempt, every iteration *)
(* that goes on leaves a subtest of that attempt, so there are never more  *)
(* behind it than the attempt has left.                                    *)
(***************************************************************************)
OnePaket == \A p, q \in Pakets : p = q

(* An attempt that is not there yet begins in the first subtest. *)
NoneAtFirst == \A a \in Attempts : status[a] = "none" => subtest_sekarang[a] = 1

Iterates(r) == req[r].pc \in {"select", "lock"} \/ (req[r].pc = "score" /\ req[r].then = "select")

StepsBehind == \A r \in Requests : Iterates(r) => req[r].steps < subtest_sekarang[Att(r)]

LoopInv == TypeOK /\ NoneAtFirst /\ StepsBehind

LEMMA SubtestsGoOn ==
  ASSUME TypeOK, NoneAtFirst, [Next]_vars
  PROVE  /\ NoneAtFirst'
         /\ \A a \in Attempts : subtest_sekarang'[a] >= subtest_sekarang[a]
<1>0. \A a \in Attempts : subtest_sekarang[a] \in Nat BY DEF TypeOK, Subtests
<1> DEFINE Grows == NoneAtFirst' /\ \A a \in Attempts : subtest_sekarang'[a] >= subtest_sekarang[a]
<1> USE DEF NoneAtFirst
<1>1. CASE UNCHANGED tables BY <1>0, <1>1 DEF tables, attemptVars
<1>2. ASSUME NEW b \in Attempts, Inserted(b) PROVE Grows
  BY <1>0, <1>2 DEF Inserted, TypeOK
<1>3. ASSUME NEW b \in Attempts, status[b] = "ongoing", ProgressTryout(b) \/ EndTryOut(b)
      PROVE  Grows
  BY <1>0, <1>3 DEF ProgressTryout, EndTryOut, TypeOK
<1>4. ASSUME NEW b \in Attempts, Left(b) PROVE Grows BY <1>3, <1>4 DEF Left, AdvanceExpired
<1>5. ASSUME NEW b \in Attempts, Written(b) PROVE Grows
  BY <1>0, <1>3, <1>5 DEF Written, attemptVars
<1> HIDE DEF Grows
<1> QED BY <1>1, <1>2, <1>4, <1>5, StepEffect DEF tables, Grows

LEMMA NextStepsBehind ==
  ASSUME OnePaket, LoopInv, [Next]_vars
  PROVE  StepsBehind'
<1> SUFFICES ASSUME NEW r \in Requests, Iterates(r)' PROVE req'[r].steps < subtest_sekarang'[Att(r)']
  BY DEF StepsBehind
<1>0. /\ TypeOK /\ req \in [Requests -> RequestStates] /\ TypeOK'
      /\ Iterates(r) => req[r].steps < subtest_sekarang[Att(r)]
  BY TablesType, ReqType DEF LoopInv, TypeOK, TablesOK, StepsBehind
<1>1. /\ Att(r) \in Attempts /\ Att(r)' \in Attempts
      /\ subtest_sekarang[Att(r)] \in Nat /\ subtest_sekarang'[Att(r)] \in Nat
      /\ subtest_sekarang'[Att(r)'] \in Nat \ {0}
      /\ subtest_sekarang'[Att(r)] >= subtest_sekarang[Att(r)] /\ req[r].steps \in Nat
  <2>1. Att(r) \in Attempts BY <1>0, AttType
  <2>2. Att(r)' \in Attempts
    <3>1. req'[r] \in RequestStates BY <1>0 DEF TypeOK
    <3> QED BY <3>1 DEF Att, Attempts, RequestStates
  <2>3. subtest_sekarang'[Att(r)] >= subtest_sekarang[Att(r)]
    BY <2>1, SubtestsGoOn DEF LoopInv
  <2>4. \A a \in Attempts : subtest_sekarang[a] \in Nat /\ subtest_sekarang'[a] \in Nat \ {0}
    BY <1>0 DEF TypeOK, Subtests
  <2>5. req[r].steps \in Nat BY <1>0 DEF RequestStates
  <2> QED BY <2>1, <2>2, <2>3, <2>4, <2>5
<1>2. CASE req'[r] = req[r] BY <1>0, <1>1, <1>2 DEF Iterates, Att
<1>3. ASSUME Respond(r) \/ \E todo : ScoreAndRespond(r, todo) PROVE FALSE
  <2>1. CASE Respond(r) BY <1>0, <2>1 DEF Respond, Iterates, Idle
  <2>2. ASSUME NEW todo, ScoreAndRespond(r, todo) PROVE FALSE
    <3>1. req'[r] = [Idle EXCEPT !.pc = "score", !.user = req[r].user,
                                 !.paket = req[r].paket, !.todo = todo]
      BY <1>0, <2>2 DEF ScoreAndRespond
    <3> QED BY <3>1 DEF Iterates, Idle
  <2> QED BY <1>3, <2>1, <2>2
<1>4. ASSUME ReceiveAny(r) PROVE req'[r].steps = 0
  <2>1. ASSUME NEW op, NEW u, NEW p, NEW s, NEW ans, Receive(r, op, u, p, s, ans)
        PROVE  req'[r].steps = 0
    <3>1. req'[r] = [Idle EXCEPT !.pc = IF op = "attempt" THEN "check" ELSE "select",
                                 !.op = op, !.user = u, !.paket = p,
                                 !.subtest = s, !.answers = ans]
      BY <1>0, <2>1 DEF Receive
    <3> QED BY <3>1 DEF Idle
  <2> QED BY <1>4, <2>1 DEF ReceiveAny
<1>5. ~StartAttempt(r)
  BY <1>0, <1>3 DEF StartAttempt, CheckNoOngoing, InsertAttempt, DuplicateAttempt, Iterates, RequestStates
<1>6. CASE SelectAttempt(r)
  <2>1. PICK a \in LatestOngoing(req[r].user) :
          req' = [req EXCEPT ![r].pc = "lock", ![r].paket = a[2]]
    BY <1>3, <1>6 DEF SelectAttempt
  <2>2. a[2] \in Pakets BY DEF LatestOngoing, OngoingAttempts, Attempts
  <2>3. req[r].paket = a[2] BY <1>0, <2>2 DEF OnePaket, RequestStates
  <2>4. Att(r)' = Att(r) /\ req'[r].steps = req[r].steps
    BY <1>0, <2>1, <2>3 DEF Att, RequestStates
  <2>5. Iterates(r) BY <1>6 DEF SelectAttempt, Iterates
  <2> QED BY <1>0, <1>1, <2>4, <2>5
<1>7. ~ReconcileGone(r) /\ ~ReconcileInTime(r)
  BY <1>0, <1>3 DEF ReconcileGone, ReconcileInTime, Iterates, RequestStates
<1>8. CASE ReconcileExpired(r)
  <2>1. ~IsLast(Att(r)) /\ Iterates(r) BY <1>3, <1>8 DEF ReconcileExpired, Iterates
  <2>2. subtest_sekarang'[Att(r)] = subtest_sekarang[Att(r)] + 1
    BY <1>0, <1>1, <1>8, <2>1 DEF ReconcileExpired, AdvanceExpired, ProgressTryout, TypeOK
  <2>3. Att(r)' = Att(r) /\ req'[r].steps = req[r].steps + 1
    BY <1>0, <1>3, <1>8 DEF ReconcileExpired, Att, RequestStates
  <2> QED BY <1>0, <1>1, <2>1, <2>2, <2>3
<1>9. ~Operate(r)
  BY <1>3
     DEF Operate, OpRefused, OpInvalid, SyncExpired, SyncAnswers, SubmitExpired, SubmitSubtest, FinishTryout
<1>10. CASE ScoreReturns(r)
  <2>1. req[r].then # "idle" /\ req[r].pc = "score" BY <1>3, <1>10 DEF ScoreReturns
  <2>2. Iterates(r) BY <1>0, <2>1 DEF Iterates, RequestStates
  <2>3. Att(r)' = Att(r) /\ req'[r].steps = req[r].steps
    BY <1>0, <1>10, <2>1 DEF ScoreReturns, Att, RequestStates
  <2> QED BY <1>0, <1>1, <2>2, <2>3
<1>11. ~RequestDies(r) BY <1>3 DEF RequestDies
<1>12. req'[r] = req[r] \/ RequestStep(r)
  <2>1. CASE Tick \/ UNCHANGED vars BY <2>1 DEF Tick, vars
  <2>2. CASE \E q \in Requests : RequestStep(q) BY <1>0, <2>2, OthersWait
  <2> QED BY <2>1, <2>2 DEF Next, AttemptNext, RequestStep
<1> QED
  BY <1>1, <1>2, <1>4, <1>5, <1>6, <1>7, <1>8, <1>9, <1>10, <1>11, <1>12
     DEF RequestStep, Reconcile

(* Where there is one pack, hence one attempt of a user, the reconciliation
   never gives up with the attempt still ongoing: its bound is never reached. *)
THEOREM LoopBoundNeverReached ==
  ASSUME OnePaket
  PROVE  Spec => []LoopSuffices
<1>1. Init => LoopInv
  <2> SUFFICES ASSUME Init PROVE LoopInv OBVIOUS
  <2>1. TypeOK BY InitType
  <2>2. NoneAtFirst /\ StepsBehind BY DEF Init, NoneAtFirst, StepsBehind, Iterates, Idle
  <2> QED BY <2>1, <2>2 DEF LoopInv
<1>2. LoopInv /\ [Next]_vars => LoopInv'
  <2> SUFFICES ASSUME LoopInv, [Next]_vars PROVE LoopInv' OBVIOUS
  <2>1. TypeOK' BY TablesType, ReqType DEF LoopInv, TypeOK, TablesOK
  <2> QED BY <2>1, SubtestsGoOn, NextStepsBehind DEF LoopInv
<1>3. LoopInv => LoopSuffices
  <2> SUFFICES ASSUME LoopInv, NEW r \in Requests, req[r].pc = "lock" PROVE ~LastStep(r)
    BY DEF LoopSuffices
  <2>1. req[r].steps < subtest_sekarang[Att(r)] BY DEF LoopInv, StepsBehind, Iterates
  <2>2. subtest_sekarang[Att(r)] \in Subtests /\ req[r].steps \in Nat
    BY AttType DEF LoopInv, TypeOK, RequestStates
  <2> QED BY <2>1, <2>2, NumSubtestsAssumption DEF LastStep, Subtests
<1> QED BY <1>1, <1>2, <1>3, PTL DEF Spec
=============================================================================
