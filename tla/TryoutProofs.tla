---------------------------- MODULE TryoutProofs -----------------------------
(***************************************************************************)
(* Proofs about Tryout: what is stored as a score is the score of the      *)
(* answers the participant ended up with, and tryout_score counts them all *)
(* once the last submit has been answered.                                 *)
(*                                                                         *)
(* The argument: only subtests that are closed are ever given to the score *)
(* service, a closed subtest stays closed and its answers do not change,   *)
(* so an answer sheet read at any time later is the final one, and a call  *)
(* keeps the invariant it has where nobody writes.                         *)
(***************************************************************************)
EXTENDS Tryout, TryoutAttemptProofs

(* What the score calls do is a stutter or a ScoreReturns of TryoutAttempt. *)
LEMMA StepOfAttempt == [TryoutNext]_tryoutVars => [Next]_vars
<1> SUFFICES ASSUME [TryoutNext]_tryoutVars PROVE [Next]_vars OBVIOUS
<1>1. CASE UNCHANGED tryoutVars BY <1>1 DEF tryoutVars
<1>2. CASE AttemptNext BY <1>2 DEF Next
<1>3. ASSUME NEW r \in Requests, ScoreReturns(r) \/ RequestDies(r) PROVE Next
  BY <1>3 DEF Next
<1> QED
  BY <1>1, <1>2, <1>3
     DEF TryoutNext, RequestCalls, RequestScored, RequestGone, RequestNotScored,
         RefreshEnds, WorkerGone, ViewEnds, ViewProgress

(* The service does what TryoutAttempt says, whatever the score calls do, so
   the theorems about TryoutAttempt hold of the service. *)
THEOREM ServiceImplementsAttempt == TryoutSpec => Spec
<1>1. TryoutInit => Init BY DEF TryoutInit
<1> QED BY <1>1, StepOfAttempt, PTL DEF TryoutSpec, Spec

(***************************************************************************)
(* A closed subtest stays closed and its answers stay.                     *)
(***************************************************************************)
LEMMA ProgressKeepsClosed ==
  ASSUME TypeOK, NEW a \in Attempts, NEW s \in Subtests, Closed(a, s),
         NEW b \in Attempts, ProgressTryout(b) \/ EndTryOut(b)
  PROVE  Closed(a, s)'
<1>0. s \in Nat /\ subtest_sekarang[a] \in Nat BY DEF TypeOK, Subtests
<1>1. CASE EndTryOut(b) BY <1>1 DEF EndTryOut, TypeOK, Closed
<1>2. CASE ProgressTryout(b)
  <2>1. status' = status /\ subtest_sekarang'[a] \in {subtest_sekarang[a], subtest_sekarang[a] + 1}
    BY <1>2 DEF ProgressTryout, TypeOK
  <2> QED BY <1>0, <2>1 DEF Closed
<1> QED BY <1>1, <1>2

LEMMA ClosedStays ==
  ASSUME TypeOK, [Next]_vars, NEW a \in Attempts, NEW s \in Subtests, Closed(a, s)
  PROVE  Closed(a, s)' /\ user_answers'[a][s] = user_answers[a][s]
<1>1. CASE UNCHANGED tables BY <1>1 DEF tables, attemptVars, Closed
<1>2. ASSUME NEW b \in Attempts, Inserted(b)
      PROVE  Closed(a, s)' /\ user_answers'[a][s] = user_answers[a][s]
  BY <1>2 DEF Inserted, TypeOK, Closed
<1>3. ASSUME NEW b \in Attempts, Left(b)
      PROVE  Closed(a, s)' /\ user_answers'[a][s] = user_answers[a][s]
  BY <1>3, ProgressKeepsClosed DEF Left, AdvanceExpired
<1>4. ASSUME NEW b \in Attempts, Written(b)
      PROVE  Closed(a, s)' /\ user_answers'[a][s] = user_answers[a][s]
  <2>1. user_answers'[a][s] = user_answers[a][s]
    BY <1>4 DEF Written, TypeOK, Closed, Subtests
  <2>2. Closed(a, s)'
    BY <1>4, ProgressKeepsClosed DEF Written, Closed, attemptVars
  <2> QED BY <2>1, <2>2
<1> QED BY <1>1, <1>2, <1>3, <1>4, StepEffect DEF tables

(***************************************************************************)
(* A request has only closed subtests scored.                              *)
(***************************************************************************)
ReqClosed ==
  \A r \in Requests :
    req[r].pc = "score" => \A s \in req[r].todo : Closed(Att(r), s)

LEMMA ScoreRequestFields ==
  ASSUME TypeOK, NEW r \in Requests, NEW todo, ScoreAndRespond(r, todo)
  PROVE  req'[r].todo = todo /\ Att(r)' = Att(r)
BY DEF ScoreAndRespond, Att, TypeOK, Idle

LEMMA RespondFields ==
  ASSUME TypeOK, NEW r \in Requests, Respond(r)
  PROVE  req'[r].pc = "idle"
BY DEF Respond, TypeOK, Idle

(* Leaving a subtest closes it, and ending the attempt closes all. *)
LEMMA LeavingCloses ==
  ASSUME TypeOK, NEW a \in Attempts, status[a] = "ongoing",
         NEW s \in Subtests, s = subtest_sekarang[a],
         AdvanceExpired(a) \/ ProgressTryout(a) \/ EndTryOut(a)
  PROVE  Closed(a, s)'
<1>0. s \in Nat BY DEF Subtests
<1>1. CASE EndTryOut(a) BY <1>1 DEF EndTryOut, Closed, TypeOK
<1>2. CASE ProgressTryout(a) BY <1>0, <1>2 DEF ProgressTryout, Closed, TypeOK
<1> QED BY <1>1, <1>2 DEF AdvanceExpired

LEMMA NewScoreRequest ==
  ASSUME TypeOK, NEW r \in Requests, RequestStep(r), req'[r].pc = "score",
         NEW a, a = Att(r)
  PROVE  Att(r)' = a /\ \A s \in req'[r].todo : Closed(a, s)'
<1>0. /\ req \in [Requests -> RequestStates]
      /\ a \in Attempts /\ subtest_sekarang[a] \in Subtests
  BY AttType DEF TypeOK
<1>1. CASE ReceiveAny(r)
  <2>1. ASSUME NEW op, NEW u, NEW p, NEW s, NEW ans, Receive(r, op, u, p, s, ans)
        PROVE  req'[r].pc # "score"
    BY <1>0, <2>1 DEF Receive, Idle
  <2> QED BY <1>1, <2>1 DEF ReceiveAny
<1>2. CASE StartAttempt(r)
  BY <1>0, <1>2, RespondFields
     DEF StartAttempt, CheckNoOngoing, InsertAttempt, DuplicateAttempt, RequestStates
<1>3. CASE Reconcile(r)
  <2>1. CASE SelectAttempt(r)
    BY <1>0, <2>1, RespondFields DEF SelectAttempt, RequestStates
  <2>2. CASE ReconcileGone(r) BY <2>2, RespondFields DEF ReconcileGone
  <2>3. CASE ReconcileInTime(r)
    BY <1>0, <2>3, RespondFields DEF ReconcileInTime, RequestStates
  <2>4. CASE ReconcileExpired(r)
    <3>1. Att(r)' = a /\ req'[r].todo = {subtest_sekarang[a]}
      <4>1. CASE IsLast(Att(r)) \/ LastStep(r)
        BY <2>4, <4>1, ScoreRequestFields DEF ReconcileExpired
      <4>2. CASE ~(IsLast(Att(r)) \/ LastStep(r))
        BY <1>0, <2>4, <4>2 DEF ReconcileExpired, Att, RequestStates
      <4> QED BY <4>1, <4>2
    <3> QED BY <1>0, <2>4, <3>1, LeavingCloses DEF ReconcileExpired
  <2> QED BY <1>3, <2>1, <2>2, <2>3, <2>4 DEF Reconcile
<1>4. CASE Operate(r)
  <2>1. CASE OpRefused(r) \/ OpInvalid(r) \/ SyncExpired(r) \/ SyncAnswers(r)
    BY <2>1, RespondFields DEF OpRefused, OpInvalid, SyncExpired, SyncAnswers
  <2>2. CASE SubmitExpired(r) \/ SubmitSubtest(r)
    <3>1. Att(r)' = a /\ req'[r].todo = {subtest_sekarang[a]}
      BY <2>2, ScoreRequestFields DEF SubmitExpired, SubmitSubtest
    <3> QED
      BY <1>0, <2>2, <3>1, LeavingCloses DEF SubmitExpired, SubmitSubtest, IsActive
  <2>3. CASE FinishTryout(r)
    <3>1. Att(r)' = a BY <2>3, ScoreRequestFields DEF FinishTryout
    <3>2. status'[a] = "finished"
      BY <1>0, <2>3 DEF FinishTryout, EndTryOut, TypeOK
    <3> QED BY <3>1, <3>2 DEF Closed
  <2> QED BY <1>4, <2>1, <2>2, <2>3 DEF Operate
<1>5. CASE ScoreReturns(r) \/ RequestDies(r)
  BY <1>0, <1>5, RespondFields DEF ScoreReturns, RequestDies, RequestStates
<1> QED BY <1>1, <1>2, <1>3, <1>4, <1>5 DEF RequestStep

LEMMA NextReqClosed ==
  ASSUME TypeOK, ReqClosed, [Next]_vars
  PROVE  ReqClosed'
<1> SUFFICES ASSUME NEW r \in Requests, req'[r].pc = "score",
                    NEW a, a = Att(r)
             PROVE  Att(r)' = a /\ \A s \in req'[r].todo : Closed(a, s)'
  BY DEF ReqClosed
<1>0. a \in Attempts BY AttType
<1>1. CASE req'[r] = req[r]
  <2>1. Att(r)' = a /\ req'[r].todo = req[r].todo BY <1>1 DEF Att
  <2>2. req[r].todo \subseteq Subtests BY DEF TypeOK, RequestStates
  <2>3. \A s \in req[r].todo : Closed(a, s) BY <1>1 DEF ReqClosed
  <2> QED BY <1>0, <2>1, <2>2, <2>3, ClosedStays
<1>2. CASE RequestStep(r) BY <1>2, NewScoreRequest
<1>3. req'[r] = req[r] \/ RequestStep(r)
  <2>1. CASE Tick \/ UNCHANGED vars BY <2>1 DEF Tick, vars
  <2>2. CASE \E q \in Requests : RequestStep(q) BY <2>2, OthersWait
  <2> QED BY <2>1, <2>2 DEF Next, AttemptNext, RequestStep
<1> QED BY <1>1, <1>2, <1>3

(***************************************************************************)
(* The calls.  A call that is under way, or back, was made for closed      *)
(* subtests only, and what it has graded are their final answers.          *)
(***************************************************************************)
JobFinal(j) ==
  /\ j.pc # "idle" => \A s \in j.todo : Closed(j.att, s)
  /\ \A s \in Subtests :
       j.graded[s] # NoScore =>
         /\ j.pc # "idle" /\ s \in j.todo
         /\ j.graded[s] = user_answers[j.att][s]

JobsFinal ==
  /\ job \in [Workers -> Store!Jobs]
  /\ \A w \in Workers : JobFinal(job[w])

FinalInv ==
  /\ TypeOK /\ ReqClosed /\ JobsFinal
  /\ user_scores \in [Attempts -> Store!Scores] /\ ScoreOfFinalAnswers

LEMMA StoreSubtests == Store!Subtests = Subtests
BY DEF Store!Subtests, Subtests

LEMMA NoJobFinal == Store!NoJob \in Store!Jobs /\ JobFinal(Store!NoJob)
<1>0. PICK u \in Users, p \in Pakets : TRUE BY UsersAssumption
<1>1. <<u, p>> \in Attempts BY <1>0 DEF Attempts
<1>2. Store!NoScores \in Store!Scores BY DEF Store!NoScores, Store!Scores
<1>3. Store!NoJob \in Store!Jobs BY <1>1, <1>2 DEF Store!NoJob, Store!Jobs
<1>4. Store!NoJob.pc = "idle" /\ \A s \in Subtests : Store!NoJob.graded[s] = NoScore
  BY StoreSubtests DEF Store!NoJob, Store!NoScores
<1> QED BY <1>3, <1>4 DEF JobFinal

LEMMA CallFinal ==
  ASSUME NEW a \in Attempts, NEW todo \in SUBSET Subtests,
         \A s \in todo : Closed(a, s)
  PROVE  Store!Call(a, todo) \in Store!Jobs /\ JobFinal(Store!Call(a, todo))
<1> DEFINE c == Store!Call(a, todo)
<1>1. /\ c \in Store!Jobs /\ c.att = a /\ c.todo = todo
      /\ c.graded = Store!NoJob.graded
  BY NoJobFinal, StoreSubtests DEF Store!Call, Store!Jobs
<1>2. \A s \in Subtests : Store!NoJob.graded[s] = NoScore
  BY StoreSubtests DEF Store!NoJob, Store!NoScores
<1> HIDE DEF c
<1>3. c \in Store!Jobs /\ JobFinal(c) BY <1>1, <1>2 DEF JobFinal
<1> QED BY <1>3 DEF c

(* What is final stays so, whatever else happens. *)
LEMMA JobStays ==
  ASSUME TypeOK, [Next]_vars, NEW j \in Store!Jobs, JobFinal(j)
  PROVE  JobFinal(j)'
<1>1. j.att \in Attempts /\ j.todo \subseteq Subtests
  BY StoreSubtests DEF Store!Jobs
<1>2. \A s \in Subtests :
        j.pc # "idle" /\ s \in j.todo =>
          Closed(j.att, s)' /\ user_answers'[j.att][s] = user_answers[j.att][s]
  BY <1>1, ClosedStays DEF JobFinal
<1> QED BY <1>1, <1>2 DEF JobFinal

LEMMA JobsChange ==
  ASSUME TypeOK, [Next]_vars, JobsFinal,
         NEW w \in Workers, NEW j \in Store!Jobs, JobFinal(j),
         job' = [job EXCEPT ![w] = j]
  PROVE  JobsFinal'
<1>1. job' \in [Workers -> Store!Jobs] BY DEF JobsFinal
<1>2. \A v \in Workers : job'[v] \in {job[v], j} BY DEF JobsFinal
<1>3. JobFinal(j)' BY JobStays
<1>4. \A v \in Workers : JobFinal(job[v]) /\ job[v] \in Store!Jobs BY DEF JobsFinal
<1>5. ASSUME NEW v \in Workers PROVE JobFinal(job[v])'
  <2>1. CASE job'[v] = j BY <1>3, <2>1 DEF JobFinal
  <2>2. CASE job'[v] = job[v]
    <3>1. PICK i \in Store!Jobs : i = job[v] BY <1>4
    <3>2. JobFinal(i)' BY <1>4, <3>1, JobStays
    <3> QED BY <2>2, <3>1, <3>2 DEF JobFinal
  <2> QED BY <1>2, <2>1, <2>2
<1> QED BY <1>1, <1>5 DEF JobsFinal

LEMMA JobsKept ==
  ASSUME TypeOK, [Next]_vars, JobsFinal, job' = job
  PROVE  JobsFinal'
<1>1. ASSUME NEW v \in Workers PROVE JobFinal(job[v])'
  <2>1. PICK i \in Store!Jobs : i = job[v] BY DEF JobsFinal
  <2>2. JobFinal(i)' BY <2>1, JobStays DEF JobsFinal
  <2> QED BY <2>1, <2>2 DEF JobFinal
<1> QED BY <1>1 DEF JobsFinal

LEMMA VisibleIsScores ==
  ASSUME NEW w \in Workers, job \in [Workers -> Store!Jobs],
         user_scores \in [Attempts -> Store!Scores]
  PROVE  Store!Visible(w) \in Store!Scores
<1>1. job[w].graded \in Store!Scores /\ user_scores[job[w].att] \in Store!Scores
  BY DEF Store!Jobs
<1> QED BY <1>1 DEF Store!Visible, Store!Scores

(* A step of a call computes with what is final. *)
LEMMA ProceedFinal ==
  ASSUME FinalInv, NEW w \in Workers,
         Store!Proceed(w) \/ Store!CallFails(w)
  PROVE  \E j \in Store!Jobs : JobFinal(j) /\ job' = [job EXCEPT ![w] = j]
<1>0. /\ job \in [Workers -> Store!Jobs] /\ JobFinal(job[w])
      /\ job[w].att \in Attempts /\ job[w].todo \in SUBSET Subtests
      /\ Store!Subtests = Subtests
      /\ TypeOK /\ user_scores \in [Attempts -> Store!Scores]
  BY StoreSubtests DEF FinalInv, JobsFinal, Store!Jobs
<1>1. ASSUME NEW s \in Subtests, Store!Grade(w, s)
      PROVE  \E j \in Store!Jobs : JobFinal(j) /\ job' = [job EXCEPT ![w] = j]
  <2> DEFINE answers == user_answers[job[w].att][s]
             graded == [job[w].graded EXCEPT ![s] = answers]
             pc == IF Store!Ungraded(w) = {s} THEN "upsert" ELSE "grade"
             j == [job[w] EXCEPT !.graded = graded, !.pc = pc]
  <2>1. answers \in Sheets BY <1>0 DEF TypeOK
  <2>2. job[w].graded \in Store!Scores /\ graded \in Store!Scores
    BY <1>0, <2>1 DEF Store!Scores, Store!Jobs
  <2>3. pc \in {"upsert", "grade"} OBVIOUS
  <2>4. job' = [job EXCEPT ![w] = j] BY <1>0, <1>1 DEF Store!Grade
  <2>5. /\ j \in Store!Jobs /\ j.pc = pc /\ j.graded = graded
        /\ j.att = job[w].att /\ j.todo = job[w].todo
    <3> HIDE DEF graded, pc
    <3> QED BY <1>0, <2>2, <2>3 DEF Store!Jobs
  <2>6. s \in job[w].todo /\ job[w].pc = "grade"
    BY <1>1 DEF Store!Grade, Store!Ungraded
  <2>7. \A t \in Subtests : graded[t] = IF t = s THEN answers ELSE job[w].graded[t]
    BY <1>0, <2>2 DEF Store!Scores
  <2>8. JobFinal(j)
    <3> HIDE DEF graded, pc, j
    <3> QED BY <1>0, <2>3, <2>5, <2>6, <2>7 DEF JobFinal
  <2> QED BY <2>4, <2>5, <2>8
<1>2. ASSUME NEW s \in Subtests, Store!UpsertScore(w, s)
      PROVE  \E j \in Store!Jobs : JobFinal(j) /\ job' = [job EXCEPT ![w] = j]
  <2> DEFINE rows == job[w].rows \cup {s}
             pc == IF Store!Remaining(w) = {s} THEN "average" ELSE "upsert"
             j == [job[w] EXCEPT !.rows = rows, !.pc = pc]
  <2>1. rows \in SUBSET Subtests BY <1>0 DEF Store!Jobs
  <2>2. pc \in {"average", "upsert"} OBVIOUS
  <2>3. job' = [job EXCEPT ![w] = j] BY <1>0, <1>2 DEF Store!UpsertScore
  <2>4. /\ j \in Store!Jobs /\ j.pc = pc /\ j.graded = job[w].graded
        /\ j.att = job[w].att /\ j.todo = job[w].todo
    <3> HIDE DEF rows, pc
    <3> QED BY <1>0, <2>1, <2>2 DEF Store!Jobs
  <2>5. job[w].pc = "upsert" BY <1>2 DEF Store!UpsertScore
  <2>6. JobFinal(j)
    <3> HIDE DEF pc, j
    <3> QED BY <1>0, <2>2, <2>4, <2>5 DEF JobFinal
  <2> QED BY <2>3, <2>4, <2>6
<1>3. ASSUME Store!CalculateAverageScore(w)
      PROVE  \E j \in Store!Jobs : JobFinal(j) /\ job' = [job EXCEPT ![w] = j]
  <2> DEFINE total == Store!Visible(w)
             j == [job[w] EXCEPT !.pc = "update", !.total = total]
  <2>1. job' = [job EXCEPT ![w] = j] /\ job[w].pc = "average"
    BY <1>0, <1>3 DEF Store!CalculateAverageScore
  <2>2. total \in Store!Scores BY <1>0, VisibleIsScores
  <2>3. /\ j \in Store!Jobs /\ j.pc = "update" /\ j.graded = job[w].graded
        /\ j.att = job[w].att /\ j.todo = job[w].todo
    <3> HIDE DEF total
    <3> QED BY <1>0, <2>2 DEF Store!Jobs
  <2>4. JobFinal(j)
    <3> HIDE DEF j
    <3> QED BY <1>0, <2>1, <2>3 DEF JobFinal
  <2> QED BY <2>1, <2>3, <2>4
<1>4. ASSUME NEW result \in {"stored", "failed"}, Store!Result(w, result),
             job[w].pc # "idle"
      PROVE  \E j \in Store!Jobs : JobFinal(j) /\ job' = [job EXCEPT ![w] = j]
  <2> DEFINE c == Store!Call(job[w].att, job[w].todo)
             j == [c EXCEPT !.pc = result]
  <2>1. job' = [job EXCEPT ![w] = j] BY <1>0, <1>4 DEF Store!Result
  <2>2. \A s \in job[w].todo : Closed(job[w].att, s) BY <1>0, <1>4 DEF JobFinal
  <2>3. /\ c \in Store!Jobs /\ c.att = job[w].att /\ c.todo = job[w].todo
        /\ c.graded = Store!NoJob.graded
    BY <1>0, NoJobFinal DEF Store!Call, Store!Jobs
  <2>4. \A s \in Subtests : Store!NoJob.graded[s] = NoScore
    BY StoreSubtests DEF Store!NoJob, Store!NoScores
  <2>5. /\ j \in Store!Jobs /\ j.pc = result /\ j.att = job[w].att
        /\ j.todo = job[w].todo /\ j.graded = Store!NoJob.graded
    <3> HIDE DEF c
    <3> QED BY <2>3 DEF Store!Jobs
  <2>6. JobFinal(j)
    <3> HIDE DEF j
    <3> QED BY <2>2, <2>4, <2>5 DEF JobFinal
  <2> QED BY <2>1, <2>5, <2>6
<1> QED
  BY <1>0, <1>1, <1>2, <1>3, <1>4
     DEF Store!Proceed, Store!UpdateScoreAndCommit, Store!CallFails, Store!DeadlockVictim,
         Store!Deadlocked, Store!Stuck, Store!Rollback

LEMMA NextJobsFinal ==
  ASSUME FinalInv, [TryoutNext]_tryoutVars
  PROVE  JobsFinal'
<1>0. /\ TypeOK /\ JobsFinal /\ [Next]_vars /\ ReqClosed
      /\ job \in [Workers -> Store!Jobs]
      /\ Requests \subseteq Workers /\ Refreshers \subseteq Workers
      /\ Viewers \subseteq Workers
  BY StepOfAttempt DEF FinalInv, JobsFinal, Workers
<1>1. ASSUME NEW w \in Workers, Hang(w) PROVE JobsFinal'
  <2>1. job' = [job EXCEPT ![w] = Store!NoJob] BY <1>1 DEF Hang
  <2> QED BY <1>0, <2>1, NoJobFinal, JobsChange
<1>2. ASSUME NEW w \in Workers, NEW a \in Attempts, NEW todo \in SUBSET Subtests,
             \A s \in todo : Closed(a, s), job' = [job EXCEPT ![w] = Store!Call(a, todo)]
      PROVE  JobsFinal'
  BY <1>0, <1>2, CallFinal, JobsChange
<1>3. ASSUME NEW w \in Workers, Store!Proceed(w) \/ Store!CallFails(w), UNCHANGED vars
      PROVE  JobsFinal'
  <2> SUFFICES ASSUME NEW j \in Store!Jobs, JobFinal(j), job' = [job EXCEPT ![w] = j]
               PROVE  JobsFinal'
    BY <1>0, <1>3, ProceedFinal
  <2> QED BY <1>0, JobsChange
<1>4. ASSUME NEW r \in Requests, RequestCalls(r) PROVE JobsFinal'
  <2>1. /\ Att(r) \in Attempts /\ req[r].todo \in SUBSET Subtests
        /\ \A s \in req[r].todo : Closed(Att(r), s)
    BY <1>0, <1>4, AttType DEF RequestCalls, ReqClosed, TypeOK, RequestStates
  <2> QED BY <1>0, <1>2, <1>4, <2>1 DEF RequestCalls, Store!Begin
<1>5. ASSUME NEW r \in Requests, NEW f \in Refreshers, RequestNotScored(r, f)
      PROVE  JobsFinal'
  <2> DEFINE j == Store!Call(job[r].att, job[r].todo)
  <2>1. /\ job[r].att \in Attempts /\ job[r].todo \in SUBSET Subtests
        /\ \A s \in job[r].todo : Closed(job[r].att, s)
    BY <1>0, <1>5, StoreSubtests
       DEF RequestNotScored, Returned, JobsFinal, JobFinal, Store!Jobs
  <2>2. j \in Store!Jobs /\ JobFinal(j) BY <2>1, CallFinal
  <2>3. job' = [job EXCEPT ![r] = Store!NoJob, ![f] = j] BY <1>5 DEF RequestNotScored
  <2> HIDE DEF j
  <2>4. ASSUME NEW w \in Workers PROVE job'[w] \in Store!Jobs /\ JobFinal(job[w])'
    <3>1. PICK i \in Store!Jobs : i = job'[w] /\ JobFinal(i)
      BY <1>0, <2>2, <2>3, NoJobFinal DEF JobsFinal
    <3>2. JobFinal(i)' BY <1>0, <3>1, JobStays
    <3> QED BY <3>1, <3>2 DEF JobFinal
  <2>5. job' \in [Workers -> Store!Jobs] BY <1>0, <2>3, <2>4
  <2> QED BY <2>4, <2>5 DEF JobsFinal
<1>6. ASSUME NEW v \in Viewers, NEW u \in Users, ViewProgress(v, u) PROVE JobsFinal'
  <2>1. PICK a \in PageAttempts(u) : Store!Begin(v, a, CompletedSubtests(a))
    BY <1>6 DEF ViewProgress
  <2>2. a \in Attempts /\ status[a] \in {"ongoing", "finished"}
    BY DEF PageAttempts, OngoingAttempts, FinishedAttempts
  <2>3. /\ CompletedSubtests(a) \in SUBSET Subtests
        /\ \A s \in CompletedSubtests(a) : Closed(a, s)
    BY <1>0, <2>2, NumSubtestsAssumption DEF CompletedSubtests, Closed, TypeOK, Subtests
  <2> QED BY <1>0, <1>2, <2>1, <2>2, <2>3 DEF Store!Begin
<1>7. CASE UNCHANGED job BY <1>0, <1>7, JobsKept
<1> QED
  BY <1>0, <1>1, <1>3, <1>4, <1>5, <1>6, <1>7
     DEF TryoutNext, tryoutVars, scoreVars, RequestScored, RequestGone, RefreshEnds,
         WorkerGone, ViewEnds

(***************************************************************************)
(* The scores.                                                             *)
(***************************************************************************)
LEMMA NextScores ==
  ASSUME FinalInv, [TryoutNext]_tryoutVars
  PROVE  user_scores' \in [Attempts -> Store!Scores] /\ ScoreOfFinalAnswers'
<1>0. /\ TypeOK /\ JobsFinal /\ ScoreOfFinalAnswers /\ [Next]_vars
      /\ user_scores \in [Attempts -> Store!Scores]
  BY StepOfAttempt DEF FinalInv
<1>1. CASE user_scores' = user_scores
  BY <1>0, <1>1, ClosedStays DEF ScoreOfFinalAnswers
<1>2. ASSUME NEW w \in Workers, Store!UpdateScoreAndCommit(w), UNCHANGED vars
      PROVE  user_scores' \in [Attempts -> Store!Scores] /\ ScoreOfFinalAnswers'
  <2> DEFINE att == job[w].att
  <2>1. att \in Attempts /\ JobFinal(job[w]) /\ job \in [Workers -> Store!Jobs]
    BY <1>0 DEF JobsFinal, Store!Jobs
  <2>2. user_scores' = [user_scores EXCEPT ![att] = Store!Visible(w)]
    BY <1>2 DEF Store!UpdateScoreAndCommit
  <2>3. user_scores' \in [Attempts -> Store!Scores]
    BY <1>0, <2>1, <2>2, VisibleIsScores
  <2>4. ASSUME NEW s \in Subtests, Store!Visible(w)[s] # NoScore
        PROVE  Closed(att, s) /\ Store!Visible(w)[s] = user_answers[att][s]
    <3>1. CASE s \in job[w].rows
      BY <2>1, <2>4, <3>1, StoreSubtests DEF JobFinal, Store!Visible
    <3>2. CASE s \notin job[w].rows
      BY <1>0, <2>1, <2>4, <3>2, StoreSubtests DEF ScoreOfFinalAnswers, Store!Visible
    <3> QED BY <3>1, <3>2
  <2>5. ASSUME NEW a \in Attempts, NEW s \in Subtests, user_scores'[a][s] # NoScore
        PROVE  Closed(a, s) /\ user_scores'[a][s] = user_answers[a][s]
    <3>1. user_scores'[a] = IF a = att THEN Store!Visible(w) ELSE user_scores[a]
      BY <1>0, <2>1, <2>2
    <3> QED BY <1>0, <2>4, <2>5, <3>1 DEF ScoreOfFinalAnswers
  <2>6. \A a \in Attempts, s \in Subtests : (Closed(a, s) <=> Closed(a, s)')
    BY <1>2 DEF Closed, vars, attemptVars
  <2>7. user_answers' = user_answers BY <1>2 DEF vars
  <2> QED BY <2>3, <2>5, <2>6, <2>7 DEF ScoreOfFinalAnswers
<1>3. \/ user_scores' = user_scores
      \/ \E w \in Workers : Store!UpdateScoreAndCommit(w) /\ UNCHANGED vars
  BY DEF TryoutNext, tryoutVars, scoreVars, Hang, RequestCalls, RequestScored,
         RequestGone, RequestNotScored, RefreshEnds, WorkerGone, ViewEnds, ViewProgress,
         Store!Begin, Store!Proceed, Store!Grade, Store!UpsertScore,
         Store!CalculateAverageScore, Store!DeadlockVictim, Store!CallFails, Store!Rollback
<1> QED BY <1>1, <1>2, <1>3

LEMMA InitFinalInv == TryoutInit => FinalInv
<1> SUFFICES ASSUME TryoutInit PROVE FinalInv OBVIOUS
<1>1. TypeOK BY InitType DEF TryoutInit
<1>2. ReqClosed
  BY DEF TryoutInit, Init, ReqClosed, Idle
<1>3. JobsFinal
  <2>1. job = [w \in Workers |-> Store!NoJob] BY DEF TryoutInit, Store!Init
  <2> QED BY <2>1, NoJobFinal DEF JobsFinal
<1>4. user_scores \in [Attempts -> Store!Scores] /\ ScoreOfFinalAnswers
  BY StoreSubtests
     DEF TryoutInit, Store!Init, Store!NoScores, Store!Scores, ScoreOfFinalAnswers
<1> QED BY <1>1, <1>2, <1>3, <1>4 DEF FinalInv

LEMMA NextFinalInv == FinalInv /\ [TryoutNext]_tryoutVars => FinalInv'
<1> SUFFICES ASSUME FinalInv, [TryoutNext]_tryoutVars PROVE FinalInv' OBVIOUS
<1>1. TypeOK /\ ReqClosed /\ [Next]_vars BY StepOfAttempt DEF FinalInv
<1>2. TypeOK' BY <1>1, TablesType, ReqType DEF TypeOK, TablesOK
<1>3. ReqClosed' BY <1>1, NextReqClosed
<1> QED BY <1>2, <1>3, NextJobsFinal, NextScores DEF FinalInv

(* A stored score is the score of the answers the participant ended up with,
   however long the call took, whoever made it and however often. *)
THEOREM ScoresAreFinal == TryoutSpec => []ScoreOfFinalAnswers
<1>1. FinalInv => ScoreOfFinalAnswers BY DEF FinalInv
<1> QED BY <1>1, InitFinalInv, NextFinalInv, PTL DEF TryoutSpec

(***************************************************************************)
(* The calls.  What ScoreStoreProofs shows of calls that run while the     *)
(* answers stay as they are holds in the service too: the answers a call   *)
(* has to do with are final, whatever participants write meanwhile.        *)
(***************************************************************************)
Calls == INSTANCE ScoreStoreProofs

LEMMA StoreAssumptions == Attempts # {} /\ NoScore \notin Sheets
<1>1. PICK u \in Users, p \in Pakets : TRUE BY UsersAssumption
<1>2. <<u, p>> \in Attempts BY <1>1 DEF Attempts
<1> QED BY <1>2, NoScoreAssumption

LEMMA SameCalls ==
  /\ Calls!Subtests = Subtests
  /\ Calls!NoJob = Store!NoJob
  /\ \A a, todo : Calls!Call(a, todo) = Store!Call(a, todo)
<1>1. Calls!Subtests = Subtests /\ Store!Subtests = Subtests
  BY DEF Calls!Subtests, Store!Subtests, Subtests
<1>2. Calls!NoJob = Store!NoJob
  BY <1>1, Zenon DEF Calls!NoJob, Store!NoJob, Calls!NoScores, Store!NoScores
<1> QED BY <1>1, <1>2 DEF Calls!Call, Store!Call

(* A step of the score service in the service is one of ScoreStore. *)
LEMMA StoreStep ==
  ASSUME NEW w \in Workers, UNCHANGED user_answers,
         Store!Proceed(w) \/ Store!CallFails(w)
  PROVE  Calls!Next
<1>1. Calls!Subtests = Store!Subtests BY StoreSubtests, SameCalls
<1>2. \A result : Store!Result(w, result) => Calls!Result(w, result)
  BY SameCalls, Zenon DEF Store!Result, Calls!Result
<1>3. Store!Rollback(w) => Calls!Rollback(w) BY <1>2 DEF Store!Rollback, Calls!Rollback
<1>4. ASSUME NEW s \in Store!Subtests, Store!Grade(w, s) PROVE Calls!Grade(w, s)
  BY <1>4, Zenon DEF Store!Grade, Calls!Grade, Store!Ungraded, Calls!Ungraded
<1>5. ASSUME NEW s \in Store!Subtests, Store!UpsertScore(w, s) PROVE Calls!UpsertScore(w, s)
  BY <1>5, Zenon
     DEF Store!UpsertScore, Calls!UpsertScore, Store!Remaining, Calls!Remaining,
         Store!Holders, Calls!Holders
<1>6. Store!Visible(w) = Calls!Visible(w)
  BY <1>1, Zenon DEF Store!Visible, Calls!Visible
<1>7. Store!CalculateAverageScore(w) => Calls!CalculateAverageScore(w)
  BY <1>6, Zenon DEF Store!CalculateAverageScore, Calls!CalculateAverageScore
<1>8. Store!UpdateScoreAndCommit(w) => Calls!UpdateScoreAndCommit(w)
  BY <1>2, <1>6, Zenon DEF Store!UpdateScoreAndCommit, Calls!UpdateScoreAndCommit
<1>9. Store!DeadlockVictim(w) => Calls!DeadlockVictim(w)
  BY <1>3, Zenon
     DEF Store!DeadlockVictim, Calls!DeadlockVictim, Store!Deadlocked, Calls!Deadlocked,
         Store!Stuck, Calls!Stuck, Store!Remaining, Calls!Remaining, Store!Holders, Calls!Holders
<1>10. Store!CallFails(w) => Calls!CallFails(w)
  BY <1>3 DEF Store!CallFails, Calls!CallFails
<1> QED
  BY <1>1, <1>4, <1>5, <1>7, <1>8, <1>9, <1>10, Zenon
     DEF Store!Proceed, Calls!Proceed, Calls!Next

LEMMA StoreStepKeeps ==
  ASSUME Calls!ScoreInv, NEW w \in Workers, UNCHANGED user_answers,
         Store!Proceed(w) \/ Store!CallFails(w)
  PROVE  Calls!ScoreInv'
BY StoreStep, StoreAssumptions, Calls!NextScoreInv

(* Calls come and go; those that are new have done nothing. *)
Fresh(j) ==
  /\ j \in Calls!Jobs /\ j.pc \in {"idle", "grade"} /\ j.rows = {} /\ j.graded = Calls!NoScores
  /\ j.pc # "idle" => j.todo # {}

LEMMA FreshCallsKeep ==
  ASSUME Calls!ScoreInv, UNCHANGED <<user_answers, user_scores, tryout_score>>,
         job' \in [Workers -> Calls!Jobs],
         \A w \in Workers : job'[w] = job[w] \/ Fresh(job'[w])
  PROVE  Calls!ScoreInv'
<1>0. /\ Calls!TypeOK /\ Calls!RowsHeld /\ Calls!RowsExclusive /\ Calls!GradedTrue
      /\ Calls!ScoresTrue /\ Calls!TotalsVisible /\ Calls!NeverOvercounts
      /\ Calls!FullRecountStays
  BY DEF Calls!ScoreInv
<1>1. Calls!TypeOK' BY <1>0 DEF Calls!TypeOK
<1>2. Calls!RowsHeld' BY <1>0 DEF Calls!RowsHeld, Calls!InTx, Fresh
<1>3. Calls!RowsExclusive' BY <1>0 DEF Calls!RowsExclusive, Fresh
<1>4. Calls!GradedTrue'
  <2> SUFFICES ASSUME NEW w \in Workers, NEW s \in Calls!Subtests
               PROVE  /\ job'[w].graded[s] \in {NoScore, user_answers[job'[w].att][s]}
                      /\ job'[w].pc \in Calls!InTx /\ s \in job'[w].todo => job'[w].graded[s] # NoScore
    BY DEF Calls!GradedTrue
  <2>1. CASE job'[w] = job[w] BY <1>0, <2>1 DEF Calls!GradedTrue
  <2>2. CASE Fresh(job'[w]) BY <2>2 DEF Fresh, Calls!InTx, Calls!NoScores
  <2> QED BY <2>1, <2>2
<1>5. Calls!ScoresTrue' /\ Calls!NeverOvercounts'
  BY <1>0 DEF Calls!ScoresTrue, Calls!NeverOvercounts
<1>6. Calls!TotalsVisible'
  <2> SUFFICES ASSUME NEW w \in Workers, NEW s \in Calls!Subtests, job'[w].pc = "update"
               PROVE  /\ job'[w].total[s] \in {NoScore, Calls!Visible(w)'[s]}
                      /\ s \in job'[w].rows => job'[w].total[s] = job'[w].graded[s]
    BY DEF Calls!TotalsVisible
  <2>1. job'[w] = job[w] BY DEF Fresh
  <2>2. Calls!Visible(w)' = Calls!Visible(w) BY <2>1 DEF Calls!Visible
  <2> QED BY <1>0, <2>1, <2>2 DEF Calls!TotalsVisible
<1>7. Calls!FullRecountStays'
  <2>1. \A w \in Workers : job'[w].pc \in {"stored", "update"} => job'[w] = job[w] BY DEF Fresh
  <2> QED BY <1>0, <2>1 DEF Calls!FullRecountStays
<1> QED BY <1>1, <1>2, <1>3, <1>4, <1>5, <1>6, <1>7 DEF Calls!ScoreInv

LEMMA NoJobFresh == Fresh(Store!NoJob)
<1>1. Store!NoJob \in Calls!Jobs
  <2>1. Calls!NoScores \in Calls!Scores BY DEF Calls!NoScores, Calls!Scores
  <2> QED BY <2>1, StoreAssumptions, SameCalls DEF Calls!NoJob, Calls!Jobs
<1> QED BY <1>1, SameCalls DEF Calls!NoJob, Fresh

LEMMA CallFresh ==
  ASSUME NEW a \in Attempts, NEW todo \in SUBSET Subtests, todo # {}
  PROVE  Fresh(Store!Call(a, todo))
<1>1. /\ Store!Call(a, todo) = [Store!NoJob EXCEPT !.pc = "grade", !.att = a, !.todo = todo]
      /\ Calls!Subtests = Subtests
  BY SameCalls DEF Store!Call
<1> QED BY <1>1, NoJobFresh DEF Fresh, Calls!Jobs

(* The participants write, and leave the answers of every call alone. *)
LEMMA WritingKeeps ==
  ASSUME FinalInv, Calls!ScoreInv, [Next]_vars, UNCHANGED scoreVars
  PROVE  Calls!ScoreInv'
<1>0. /\ Calls!TypeOK /\ Calls!RowsHeld /\ Calls!RowsExclusive /\ Calls!GradedTrue
      /\ Calls!ScoresTrue /\ Calls!TotalsVisible /\ Calls!NeverOvercounts
      /\ Calls!FullRecountStays
      /\ Calls!Subtests = Subtests /\ UNCHANGED <<job, user_scores, tryout_score>>
      /\ TypeOK /\ JobsFinal /\ ScoreOfFinalAnswers
  BY SameCalls DEF Calls!ScoreInv, FinalInv, scoreVars
<1>1. \A w \in Workers : job[w].att \in Attempts /\ job[w].todo \subseteq Subtests
  BY <1>0 DEF Calls!TypeOK, Calls!Jobs
<1>2. ASSUME NEW w \in Workers, NEW s \in job[w].todo, job[w].pc # "idle"
      PROVE  user_answers'[job[w].att][s] = user_answers[job[w].att][s]
  BY <1>0, <1>1, <1>2, ClosedStays DEF JobsFinal, JobFinal
<1>3. Calls!TypeOK'
  <2>1. TypeOK' BY <1>0, TablesType, ReqType DEF TypeOK, TablesOK
  <2> QED BY <1>0, <2>1 DEF TypeOK, Calls!TypeOK
<1>4. Calls!RowsHeld' /\ Calls!RowsExclusive' /\ Calls!NeverOvercounts'
  BY <1>0 DEF Calls!RowsHeld, Calls!RowsExclusive, Calls!NeverOvercounts
<1>5. Calls!GradedTrue'
  <2> SUFFICES ASSUME NEW w \in Workers, NEW s \in Subtests
               PROVE  /\ job[w].graded[s] \in {NoScore, user_answers'[job[w].att][s]}
                      /\ job[w].pc \in Calls!InTx /\ s \in job[w].todo => job[w].graded[s] # NoScore
    BY <1>0 DEF Calls!GradedTrue
  <2>1. job[w].graded[s] # NoScore => job[w].pc # "idle" /\ s \in job[w].todo
    BY <1>0 DEF JobsFinal, JobFinal
  <2> QED BY <1>0, <1>2, <2>1 DEF Calls!GradedTrue
<1>6. Calls!ScoresTrue'
  <2>1. \A a \in Attempts, s \in Subtests :
          user_scores[a][s] # NoScore => user_answers'[a][s] = user_answers[a][s]
    BY <1>0, ClosedStays DEF ScoreOfFinalAnswers
  <2> QED BY <1>0, <2>1 DEF Calls!ScoresTrue
<1>7. Calls!TotalsVisible' BY <1>0 DEF Calls!TotalsVisible, Calls!Visible
<1>8. Calls!FullRecountStays'
  <2> SUFFICES ASSUME NEW w \in Workers, job[w].pc = "stored", job[w].todo = Subtests,
                      NEW att \in Attempts, att = job[w].att
               PROVE  user_answers'[att] = user_answers[att]
    BY <1>0, <1>1 DEF Calls!FullRecountStays
  <2>1. \A s \in Subtests : user_answers'[att][s] = user_answers[att][s] BY <1>2
  <2>2. user_answers[att] \in [Subtests -> Sheets] /\ user_answers'[att] \in [Subtests -> Sheets]
    BY <1>0, <1>3 DEF Calls!TypeOK
  <2> QED BY <2>1, <2>2
<1> QED BY <1>3, <1>4, <1>5, <1>6, <1>7, <1>8 DEF Calls!ScoreInv

(* The call of a request is the one it asked for, until the request goes on. *)
CallsAsAsked ==
  \A r \in Requests :
    job[r].pc # "idle" =>
      req[r].pc = "score" /\ job[r].att = Att(r) /\ job[r].todo = req[r].todo

ServiceInv == FinalInv /\ Calls!ScoreInv /\ CallsAsAsked

LEMMA CallTypes ==
  ASSUME Calls!ScoreInv
  PROVE  /\ job \in [Workers -> Calls!Jobs]
         /\ \A w \in Workers : job[w].att \in Attempts /\ job[w].todo \in SUBSET Subtests
BY SameCalls DEF Calls!ScoreInv, Calls!TypeOK, Calls!Jobs

(* What a worker has in hand stays what it was called for. *)
LEMMA ProceedsAsAsked ==
  ASSUME ServiceInv, NEW w \in Workers, UNCHANGED vars,
         Store!Proceed(w) \/ Store!CallFails(w)
  PROVE  CallsAsAsked'
<1>0. /\ job \in [Workers -> Calls!Jobs] /\ CallsAsAsked
      /\ job[w].att \in Attempts /\ job[w].todo \in SUBSET Subtests
      /\ req' = req /\ Requests \subseteq Workers
      /\ \A r \in Requests : Att(r)' = Att(r)
  BY CallTypes DEF ServiceInv, vars, Workers, Att
<1> DEFINE Same == /\ job[w].pc # "idle"
                   /\ \A v \in Workers \ {w} : job'[v] = job[v]
                   /\ job'[w].att = job[w].att /\ job'[w].todo = job[w].todo
<1>1. SUFFICES Same BY <1>0 DEF CallsAsAsked
<1>2. ASSUME NEW s \in Subtests, Store!Grade(w, s) PROVE Same
  BY <1>0, <1>2 DEF Store!Grade, Calls!Jobs
<1>3. ASSUME NEW s \in Subtests, Store!UpsertScore(w, s) PROVE Same
  BY <1>0, <1>3 DEF Store!UpsertScore, Calls!Jobs
<1>4. CASE Store!CalculateAverageScore(w)
  BY <1>0, <1>4 DEF Store!CalculateAverageScore, Calls!Jobs
<1>5. ASSUME NEW result \in {"stored", "failed"}, Store!Result(w, result), job[w].pc # "idle"
      PROVE  Same
  <2> DEFINE c == Store!Call(job[w].att, job[w].todo)
  <2>1. c = [Store!NoJob EXCEPT !.pc = "grade", !.att = job[w].att, !.todo = job[w].todo]
    BY DEF Store!Call
  <2>2. c.att = job[w].att /\ c.todo = job[w].todo /\ c \in Calls!Jobs
    BY <1>0, <2>1, NoJobFresh, SameCalls DEF Fresh, Calls!Jobs
  <2>3. job' = [job EXCEPT ![w] = [c EXCEPT !.pc = result]] BY <1>0, <1>5 DEF Store!Result
  <2> HIDE DEF c
  <2> QED BY <1>0, <1>5, <2>2, <2>3 DEF Calls!Jobs
<1> HIDE DEF Same
<1> QED
  BY <1>2, <1>3, <1>4, <1>5, StoreSubtests
     DEF Store!Proceed, Store!UpdateScoreAndCommit, Store!CallFails, Store!DeadlockVictim,
         Store!Deadlocked, Store!Stuck, Store!Rollback

(* A request that waits for its call waits until ScoreReturns. *)
LEMMA WaitsForCall ==
  ASSUME TypeOK, AttemptNext, NEW r \in Requests, req[r].pc = "score"
  PROVE  req'[r] = req[r]
<1>0. req \in [Requests -> RequestStates] BY DEF TypeOK
<1>1. ~StartAttempt(r) BY DEF StartAttempt, CheckNoOngoing, InsertAttempt, DuplicateAttempt
<1>2. ~Reconcile(r)
  BY DEF Reconcile, SelectAttempt, ReconcileGone, ReconcileInTime, ReconcileExpired
<1>3. ~Operate(r)
  BY DEF Operate, OpRefused, OpInvalid, SyncExpired, SyncAnswers, SubmitExpired,
         SubmitSubtest, FinishTryout
<1>4. ~ReceiveAny(r) BY DEF ReceiveAny, Receive
<1>5. CASE Tick BY <1>5 DEF Tick
<1>6. ASSUME NEW q \in Requests, RequestStep(q), q # r PROVE req'[r] = req[r]
  BY <1>0, <1>6, OthersWait
<1> QED BY <1>1, <1>2, <1>3, <1>4, <1>5, <1>6 DEF AttemptNext, RequestStep

LEMMA NextCallsAsAsked ==
  ASSUME ServiceInv, [TryoutNext]_tryoutVars
  PROVE  CallsAsAsked'
<1>0. /\ job \in [Workers -> Calls!Jobs] /\ CallsAsAsked /\ TypeOK
      /\ req \in [Requests -> RequestStates]
      /\ Requests \cap (Refreshers \cup Viewers) = {}
      /\ Workers = Requests \cup Refreshers \cup Viewers
      /\ Store!NoJob.pc = "idle"
  BY CallTypes, NoJobFresh, WorkersAssumption
     DEF ServiceInv, FinalInv, Workers, TypeOK, Store!NoJob
<1>1. ASSUME \A r \in Requests : \/ job'[r].pc = "idle"
                                 \/ job'[r] = job[r] /\ (req[r].pc = "score" => req'[r] = req[r])
      PROVE  CallsAsAsked'
  BY <1>0, <1>1 DEF CallsAsAsked, Att
<1>2. CASE AttemptNext /\ UNCHANGED scoreVars
  BY <1>0, <1>1, <1>2, WaitsForCall DEF scoreVars
<1>3. ASSUME NEW w \in Workers, Store!Proceed(w) \/ Store!CallFails(w), UNCHANGED vars
      PROVE  CallsAsAsked'
  BY <1>3, ProceedsAsAsked
<1>4. ASSUME NEW r \in Requests, RequestCalls(r) PROVE CallsAsAsked'
  <2> DEFINE c == Store!Call(Att(r), req[r].todo)
  <2>1. /\ Att(r) \in Attempts /\ req[r].todo \in SUBSET Subtests /\ req[r].todo # {}
        /\ req[r].pc = "score" /\ req' = req /\ job' = [job EXCEPT ![r] = c]
    BY <1>0, <1>4, AttType DEF RequestCalls, Store!Begin, RequestStates, vars
  <2>2. c.att = Att(r) /\ c.todo = req[r].todo
    BY <2>1, NoJobFresh, SameCalls DEF Store!Call, Fresh, Calls!Jobs
  <2> HIDE DEF c
  <2> QED BY <1>0, <2>1, <2>2 DEF CallsAsAsked, Att
<1>5. ASSUME NEW r \in Requests, ScoreReturns(r) \/ RequestDies(r), Hang(r)
      PROVE  CallsAsAsked'
  <2>1. \A q \in Requests \ {r} : req'[q] = req[q]
    BY <1>0, <1>5, OthersWait DEF RequestStep
  <2>2. job' = [job EXCEPT ![r] = Store!NoJob] BY <1>5 DEF Hang
  <2> QED BY <1>0, <1>1, <2>1, <2>2
<1>6. ASSUME NEW r \in Requests, NEW f \in Refreshers, RequestNotScored(r, f)
      PROVE  CallsAsAsked'
  <2>1. \A q \in Requests \ {r} : req'[q] = req[q]
    BY <1>0, <1>6, OthersWait DEF RequestStep, RequestNotScored
  <2>2. PICK c : job' = [job EXCEPT ![r] = Store!NoJob, ![f] = c]
    BY <1>6 DEF RequestNotScored
  <2>3. f \notin Requests BY <1>0
  <2> QED BY <1>0, <1>1, <2>1, <2>2, <2>3
<1>7. ASSUME NEW w \in Refreshers \cup Viewers, NEW c, job' = [job EXCEPT ![w] = c], UNCHANGED vars
      PROVE  CallsAsAsked'
  <2>1. w \notin Requests BY <1>0
  <2> QED BY <1>0, <1>1, <1>7, <2>1 DEF vars
<1>8. CASE UNCHANGED tryoutVars BY <1>0, <1>1, <1>8 DEF tryoutVars, vars, scoreVars
<1> QED
  BY <1>0, <1>2, <1>3, <1>4, <1>5, <1>6, <1>7, <1>8, Zenon
     DEF TryoutNext, RequestScored, RequestGone, RefreshEnds, WorkerGone, ViewEnds,
         ViewProgress, Hang, Store!Begin

LEMMA NextCalls ==
  ASSUME ServiceInv, [TryoutNext]_tryoutVars
  PROVE  Calls!ScoreInv'
<1>0. /\ job \in [Workers -> Calls!Jobs] /\ Calls!ScoreInv /\ FinalInv
      /\ Requests \subseteq Workers /\ Refreshers \subseteq Workers /\ Viewers \subseteq Workers
      /\ \A w \in Workers : job[w].att \in Attempts /\ job[w].todo \in SUBSET Subtests
  BY CallTypes DEF ServiceInv, Workers
<1>1. CASE AttemptNext /\ UNCHANGED scoreVars BY <1>0, <1>1, WritingKeeps DEF Next
<1>2. ASSUME NEW w \in Workers, Store!Proceed(w) \/ Store!CallFails(w), UNCHANGED vars
      PROVE  Calls!ScoreInv'
  BY <1>0, <1>2, StoreStepKeeps DEF vars
<1>3. ASSUME NEW w \in Workers, NEW j, Fresh(j), job' = [job EXCEPT ![w] = j],
             UNCHANGED <<user_answers, user_scores, tryout_score>>
      PROVE  Calls!ScoreInv'
  BY <1>0, <1>3, FreshCallsKeep DEF Fresh
<1>4. ASSUME NEW w \in Workers, NEW a \in Attempts, NEW todo \in SUBSET Subtests,
             Store!Begin(w, a, todo), UNCHANGED vars
      PROVE  Calls!ScoreInv'
  BY <1>3, <1>4, CallFresh DEF Store!Begin, vars
<1>5. ASSUME NEW r \in Requests, RequestCalls(r) PROVE Calls!ScoreInv'
  <2>1. Att(r) \in Attempts /\ req[r].todo \in SUBSET Subtests
    BY <1>0, AttType DEF FinalInv, TypeOK, RequestStates
  <2> QED BY <1>0, <1>4, <1>5, <2>1 DEF RequestCalls
<1>6. ASSUME NEW v \in Viewers, NEW u \in Users, ViewProgress(v, u) PROVE Calls!ScoreInv'
  <2>1. PICK a \in PageAttempts(u) : Store!Begin(v, a, CompletedSubtests(a)) /\ UNCHANGED vars
    BY <1>6 DEF ViewProgress
  <2>2. a \in Attempts BY DEF PageAttempts, OngoingAttempts, FinishedAttempts
  <2>3. CompletedSubtests(a) \in SUBSET Subtests
    BY <1>0, <2>2, NumSubtestsAssumption DEF CompletedSubtests, FinalInv, TypeOK, Subtests
  <2> QED BY <1>0, <1>4, <2>1, <2>2, <2>3
<1>7. ASSUME NEW w \in Workers, Hang(w), UNCHANGED user_answers PROVE Calls!ScoreInv'
  BY <1>3, <1>7, NoJobFresh DEF Hang
<1>8. ASSUME NEW r \in Requests, NEW f \in Refreshers, RequestNotScored(r, f)
      PROVE  Calls!ScoreInv'
  <2> DEFINE c == Store!Call(job[r].att, job[r].todo)
  <2>1. job[r].todo # {}
    BY <1>0, <1>8 DEF Calls!ScoreInv, Calls!RowsHeld, RequestNotScored, Returned
  <2>2. Fresh(c) /\ Fresh(Store!NoJob) BY <1>0, <2>1, CallFresh, NoJobFresh
  <2>3. job' = [job EXCEPT ![r] = Store!NoJob, ![f] = c] BY <1>8 DEF RequestNotScored
  <2> HIDE DEF c
  <2>4. job' \in [Workers -> Calls!Jobs] /\ \A w \in Workers : job'[w] = job[w] \/ Fresh(job'[w])
    BY <1>0, <2>2, <2>3 DEF Fresh
  <2>5. UNCHANGED <<user_answers, user_scores, tryout_score>>
    BY <1>8 DEF RequestNotScored, ScoreReturns
  <2> QED BY <1>0, <2>4, <2>5, FreshCallsKeep
<1>9. CASE UNCHANGED tryoutVars
  BY <1>0, <1>9, WritingKeeps DEF tryoutVars
<1>10. \A r \in Requests : ScoreReturns(r) \/ RequestDies(r) => UNCHANGED user_answers
  BY DEF ScoreReturns, RequestDies
<1> QED
  BY <1>0, <1>1, <1>2, <1>5, <1>6, <1>7, <1>8, <1>9, <1>10
     DEF TryoutNext, RequestScored, RequestGone, RefreshEnds, WorkerGone, ViewEnds, vars

LEMMA InitServiceInv == TryoutInit => ServiceInv
<1> SUFFICES ASSUME TryoutInit PROVE ServiceInv OBVIOUS
<1>1. FinalInv BY InitFinalInv
<1>2. Calls!Init
  <2>1. user_answers \in [Attempts -> [Calls!Subtests -> Sheets]]
    BY <1>1, SameCalls DEF FinalInv, TypeOK
  <2> QED BY <2>1, SameCalls, StoreSubtests
         DEF TryoutInit, Store!Init, Calls!Init, Store!NoScores, Calls!NoScores
<1>3. Calls!ScoreInv BY <1>2, StoreAssumptions, Calls!InitScoreInv
<1>4. CallsAsAsked
  BY DEF TryoutInit, Store!Init, Store!NoJob, CallsAsAsked, Workers
<1> QED BY <1>1, <1>3, <1>4 DEF ServiceInv

LEMMA NextServiceInv == ServiceInv /\ [TryoutNext]_tryoutVars => ServiceInv'
<1> SUFFICES ASSUME ServiceInv, [TryoutNext]_tryoutVars PROVE ServiceInv' OBVIOUS
<1>1. FinalInv' BY NextFinalInv DEF ServiceInv
<1> QED BY <1>1, NextCalls, NextCallsAsAsked DEF ServiceInv

(* The score service keeps its own invariant within the service, though the
   answers change under its calls. *)
THEOREM CallsKeepScoreInv == TryoutSpec => []Calls!ScoreInv
<1>1. ServiceInv => Calls!ScoreInv BY DEF ServiceInv
<1> QED BY <1>1, InitServiceInv, NextServiceInv, PTL DEF TryoutSpec

(* When the answer to the last submit says that the scores are stored,
   tryout_score is the average of all of them, whichever refreshes and
   progress pages had scores computed at the same time. *)
THEOREM FinalScoreIsExact == TryoutSpec => []FinalScoreExact
<1>1. ServiceInv => FinalScoreExact
  <2> SUFFICES ASSUME ServiceInv, NEW r \in Requests,
                      req[r].pc = "score", job[r].pc = "stored", req[r].todo = Subtests
               PROVE  tryout_score[Att(r)] = user_scores[Att(r)]
    BY DEF FinalScoreExact
  <2>1. job[r].att = Att(r) /\ job[r].todo = Calls!Subtests
    BY SameCalls DEF ServiceInv, CallsAsAsked
  <2> QED BY <2>1 DEF ServiceInv, Calls!ScoreInv, Calls!FullRecountStays, Workers
<1> QED BY <1>1, InitServiceInv, NextServiceInv, PTL DEF TryoutSpec
=============================================================================
