-------------------------- MODULE ScoreStoreProofs ---------------------------
(***************************************************************************)
(* Proofs about ScoreStore, for any number of attempts, subtests and       *)
(* concurrent calls.                                                       *)
(***************************************************************************)
EXTENDS ScoreStore, TLAPS

InTx == {"upsert", "average", "update"}

(* The parts of the inductive invariant.  A call holds rows only within its
   transaction and only of subtests it was asked for, all of them once it
   sums up. *)
RowsHeld ==
  \A w \in Workers :
    /\ job[w].rows \subseteq job[w].todo
    /\ job[w].pc \notin InTx => job[w].rows = {}
    /\ job[w].pc \in {"average", "update"} => job[w].rows = job[w].todo
    /\ job[w].pc # "idle" => job[w].todo # {}

(* Two transactions hold no row of an attempt in common. *)
RowsExclusive ==
  \A v, w \in Workers :
    v # w /\ job[v].att = job[w].att => job[v].rows \cap job[w].rows = {}

(* Scores come from the answers, and a transaction has all it was asked for. *)
GradedTrue ==
  \A w \in Workers, s \in Subtests :
    /\ job[w].graded[s] \in {NoScore, user_answers[job[w].att][s]}
    /\ job[w].pc \in InTx /\ s \in job[w].todo => job[w].graded[s] # NoScore

ScoresTrue ==
  \A a \in Attempts, s \in Subtests : user_scores[a][s] \in {NoScore, user_answers[a][s]}

(* What a transaction has summed up is still to be seen when it commits. *)
TotalsVisible ==
  \A w \in Workers, s \in Subtests :
    job[w].pc = "update" =>
      /\ job[w].total[s] \in {NoScore, Visible(w)[s]}
      /\ s \in job[w].rows => job[w].total[s] = job[w].graded[s]

(* A call of all subtests leaves every row, and nobody forgets one after. *)
FullRecountStays ==
  \A w \in Workers :
    job[w].pc = "stored" /\ job[w].todo = Subtests =>
      /\ user_scores[job[w].att] = user_answers[job[w].att]
      /\ tryout_score[job[w].att] = user_answers[job[w].att]
      /\ \A v \in Workers :
           job[v].pc = "update" /\ job[v].att = job[w].att =>
             job[v].total = user_answers[job[w].att]

ScoreInv ==
  /\ TypeOK /\ RowsHeld /\ RowsExclusive /\ GradedTrue /\ ScoresTrue
  /\ TotalsVisible /\ NeverOvercounts /\ FullRecountStays

(***************************************************************************)
(* Type correctness.                                                       *)
(***************************************************************************)
LEMMA NoScoresType == NoScores \in Scores
BY DEF NoScores, Scores

LEMMA CallFields ==
  ASSUME NEW a \in Attempts, NEW todo \in SUBSET Subtests
  PROVE  LET c == Call(a, todo)
         IN  /\ c \in Jobs
             /\ c.pc = "grade" /\ c.att = a /\ c.todo = todo
             /\ c.graded = NoScores /\ c.rows = {} /\ c.total = NoScores
<1>1. NoJob \in Jobs
  BY NoScoresType DEF NoJob, Jobs
<1>2. NoJob.graded = NoScores /\ NoJob.rows = {} /\ NoJob.total = NoScores
  BY DEF NoJob
<1> QED BY <1>1, <1>2 DEF Call, Jobs

(* What the job of w is once its call is over. *)
LEMMA ResultFields ==
  ASSUME TypeOK, NEW w \in Workers, NEW result \in {"stored", "failed"},
         Result(w, result)
  PROVE  /\ job' \in [Workers -> Jobs]
         /\ \A v \in Workers \ {w} : job'[v] = job[v]
         /\ job'[w].pc = result /\ job'[w].rows = {}
         /\ job'[w].att = job[w].att /\ job'[w].todo = job[w].todo
         /\ job'[w].graded = NoScores
<1>1. /\ job \in [Workers -> Jobs]
      /\ job[w].att \in Attempts /\ job[w].todo \in SUBSET Subtests
  BY DEF TypeOK, Jobs
<1> DEFINE c == Call(job[w].att, job[w].todo)
<1>2. /\ c \in Jobs /\ c.att = job[w].att /\ c.todo = job[w].todo
      /\ c.rows = {} /\ c.graded = NoScores
  BY <1>1, CallFields
<1>3. job' = [job EXCEPT ![w] = [c EXCEPT !.pc = result]] BY <1>1 DEF Result
<1> HIDE DEF c
<1> QED BY <1>1, <1>2, <1>3 DEF Jobs

(* The steps, with the two ways to fail as one. *)
LEMMA StepCases ==
  ASSUME TypeOK, [Next]_vars
  PROVE  \/ UNCHANGED vars
         \/ \E w \in Workers :
              /\ UNCHANGED user_answers
              /\ \/ \E a \in Attempts, todo \in SUBSET Subtests : Begin(w, a, todo)
                 \/ \E s \in Subtests : Grade(w, s)
                 \/ \E s \in Subtests : UpsertScore(w, s)
                 \/ CalculateAverageScore(w)
                 \/ UpdateScoreAndCommit(w)
                 \/ Rollback(w) /\ job[w].pc # "idle"
BY DEF Next, Proceed, CallFails, DeadlockVictim, Deadlocked, Stuck

(* Beginning a call. *)
LEMMA BeginFields ==
  ASSUME TypeOK, NEW w \in Workers, NEW a \in Attempts, NEW todo \in SUBSET Subtests,
         Begin(w, a, todo)
  PROVE  /\ job' \in [Workers -> Jobs]
         /\ \A v \in Workers \ {w} : job'[v] = job[v]
         /\ job'[w].pc = "grade" /\ job'[w].rows = {}
         /\ job'[w].att = a /\ job'[w].todo = todo /\ todo # {}
         /\ job'[w].graded = NoScores
<1> DEFINE c == Call(a, todo)
<1>1. /\ c \in Jobs /\ c.pc = "grade" /\ c.att = a /\ c.todo = todo
      /\ c.rows = {} /\ c.graded = NoScores
  BY CallFields
<1>2. job' = [job EXCEPT ![w] = c] /\ todo # {} BY DEF Begin
<1>3. job \in [Workers -> Jobs] BY DEF TypeOK
<1> HIDE DEF c
<1> QED BY <1>1, <1>2, <1>3

LEMMA VisibleType ==
  ASSUME TypeOK, NEW w \in Workers
  PROVE  Visible(w) \in Scores
<1>1. job[w].graded \in Scores /\ user_scores[job[w].att] \in Scores
  BY DEF TypeOK, Jobs
<1> QED BY <1>1 DEF Visible, Scores

LEMMA NextType == TypeOK /\ [Next]_vars => TypeOK'
<1> SUFFICES ASSUME TypeOK, [Next]_vars PROVE TypeOK' OBVIOUS
<1>0. /\ job \in [Workers -> Jobs]
      /\ user_answers \in [Attempts -> [Subtests -> Sheets]]
      /\ user_scores \in [Attempts -> Scores] /\ tryout_score \in [Attempts -> Scores]
  BY DEF TypeOK
<1>1. CASE UNCHANGED vars BY <1>1 DEF vars, scoreVars, TypeOK
<1>2. ASSUME NEW w \in Workers, UNCHANGED user_answers,
             NEW a \in Attempts, NEW todo \in SUBSET Subtests, Begin(w, a, todo)
      PROVE  TypeOK'
  <2>1. job' \in [Workers -> Jobs] BY <1>2, BeginFields
  <2> QED BY <1>2, <2>1 DEF Begin, TypeOK
<1>3. ASSUME NEW w \in Workers, UNCHANGED user_answers, NEW s \in Subtests, Grade(w, s)
      PROVE  TypeOK'
  <2>1. user_answers[job[w].att][s] \in Sheets BY <1>0 DEF Jobs
  <2> DEFINE graded == [job[w].graded EXCEPT ![s] = user_answers[job[w].att][s]]
             pc == IF Ungraded(w) = {s} THEN "upsert" ELSE "grade"
  <2>2. graded \in Scores /\ pc \in {"upsert", "grade"}
    BY <1>0, <2>1 DEF Jobs, Scores
  <2>3. job' = [job EXCEPT ![w] = [job[w] EXCEPT !.graded = graded, !.pc = pc]]
    BY <1>0, <1>3 DEF Grade
  <2> HIDE DEF graded, pc
  <2>4. job' \in [Workers -> Jobs] BY <1>0, <2>2, <2>3 DEF Jobs
  <2> QED BY <1>3, <2>4 DEF Grade, TypeOK
<1>4. ASSUME NEW w \in Workers, UNCHANGED user_answers, NEW s \in Subtests, UpsertScore(w, s)
      PROVE  TypeOK'
  <2> DEFINE rows == job[w].rows \cup {s}
             pc == IF Remaining(w) = {s} THEN "average" ELSE "upsert"
  <2>2. rows \in SUBSET Subtests /\ pc \in {"average", "upsert"}
    BY <1>0 DEF Jobs
  <2>3. job' = [job EXCEPT ![w] = [job[w] EXCEPT !.rows = rows, !.pc = pc]]
    BY <1>0, <1>4 DEF UpsertScore
  <2> HIDE DEF rows, pc
  <2>1. job' \in [Workers -> Jobs] BY <1>0, <2>2, <2>3 DEF Jobs
  <2> QED BY <1>4, <2>1 DEF UpsertScore, TypeOK
<1>5. ASSUME NEW w \in Workers, UNCHANGED user_answers, CalculateAverageScore(w)
      PROVE  TypeOK'
  <2>1. job' \in [Workers -> Jobs]
    BY <1>0, <1>5, VisibleType DEF CalculateAverageScore, Jobs
  <2> QED BY <1>5, <2>1 DEF CalculateAverageScore, TypeOK
<1>6. ASSUME NEW w \in Workers, UNCHANGED user_answers, UpdateScoreAndCommit(w)
      PROVE  TypeOK'
  <2>1. job' \in [Workers -> Jobs] BY <1>6, ResultFields DEF UpdateScoreAndCommit
  <2>2. job[w].total \in Scores BY <1>0 DEF Jobs
  <2> QED BY <1>0, <1>6, <2>1, <2>2, VisibleType DEF UpdateScoreAndCommit, TypeOK
<1>7. ASSUME NEW w \in Workers, UNCHANGED user_answers, Rollback(w)
      PROVE  TypeOK'
  <2>1. job' \in [Workers -> Jobs] BY <1>7, ResultFields DEF Rollback
  <2> QED BY <1>7, <2>1 DEF Rollback, TypeOK
<1> QED BY <1>1, <1>2, <1>3, <1>4, <1>5, <1>6, <1>7, StepCases

LEMMA InitScoreInv == Init => ScoreInv
<1> SUFFICES ASSUME Init PROVE ScoreInv OBVIOUS
<1>1. NoJob \in Jobs BY AttemptsAssumption, NoScoresType DEF NoJob, Jobs
<1>2. /\ NoJob.pc = "idle" /\ NoJob.rows = {} /\ NoJob.todo = {}
      /\ NoJob.graded = NoScores
  BY DEF NoJob
<1>3. \A w \in Workers : job[w] = NoJob BY DEF Init
<1>4. TypeOK BY <1>1, NoScoresType DEF Init, TypeOK
<1>5. RowsHeld /\ RowsExclusive BY <1>2, <1>3 DEF RowsHeld, RowsExclusive, InTx
<1>6. GradedTrue BY <1>2, <1>3 DEF GradedTrue, InTx, NoScores
<1>7. ScoresTrue /\ NeverOvercounts
  BY DEF Init, ScoresTrue, NeverOvercounts, NoScores
<1>8. TotalsVisible /\ FullRecountStays
  BY <1>2, <1>3 DEF TotalsVisible, FullRecountStays
<1> QED BY <1>4, <1>5, <1>6, <1>7, <1>8 DEF ScoreInv

(***************************************************************************)
(* What the other steps do to the fields of a job.                         *)
(***************************************************************************)
LEMMA GradeFields ==
  ASSUME TypeOK, NEW w \in Workers, NEW s \in Subtests, Grade(w, s)
  PROVE  /\ \A v \in Workers \ {w} : job'[v] = job[v]
         /\ \A v \in Workers : /\ job'[v].att = job[v].att /\ job'[v].todo = job[v].todo
                               /\ job'[v].rows = job[v].rows
         /\ job'[w].graded = [job[w].graded EXCEPT ![s] = user_answers[job[w].att][s]]
         /\ job'[w].pc = IF Ungraded(w) = {s} THEN "upsert" ELSE "grade"
BY DEF TypeOK, Jobs, Grade

LEMMA UpsertFields ==
  ASSUME TypeOK, NEW w \in Workers, NEW s \in Subtests, UpsertScore(w, s)
  PROVE  /\ \A v \in Workers \ {w} : job'[v] = job[v]
         /\ \A v \in Workers : /\ job'[v].att = job[v].att /\ job'[v].todo = job[v].todo
                               /\ job'[v].graded = job[v].graded
         /\ job'[w].rows = job[w].rows \cup {s}
         /\ job'[w].pc = IF Remaining(w) = {s} THEN "average" ELSE "upsert"
BY DEF TypeOK, Jobs, UpsertScore

LEMMA AverageFields ==
  ASSUME TypeOK, NEW w \in Workers, CalculateAverageScore(w)
  PROVE  /\ \A v \in Workers \ {w} : job'[v] = job[v]
         /\ \A v \in Workers : /\ job'[v].att = job[v].att /\ job'[v].todo = job[v].todo
                               /\ job'[v].rows = job[v].rows
                               /\ job'[v].graded = job[v].graded
         /\ job'[w].pc = "update" /\ job'[w].total = Visible(w)
BY DEF TypeOK, Jobs, CalculateAverageScore

(* A commit leaves the scores of the answers where it wrote, and what was
   there everywhere else: no row is ever lost or changes. *)
LEMMA CommitScores ==
  ASSUME ScoreInv, NEW w \in Workers, UpdateScoreAndCommit(w)
  PROVE  \A a \in Attempts, s \in Subtests :
           user_scores'[a][s] =
             IF a = job[w].att /\ s \in job[w].rows
               THEN user_answers[a][s] ELSE user_scores[a][s]
<1> USE DEF ScoreInv
<1>1. job[w].att \in Attempts /\ user_scores \in [Attempts -> Scores]
  BY DEF TypeOK, Jobs
<1>2. \A s \in Subtests :
        s \in job[w].rows => job[w].graded[s] = user_answers[job[w].att][s]
  BY DEF UpdateScoreAndCommit, GradedTrue, RowsHeld, InTx
<1>3. user_scores' = [user_scores EXCEPT ![job[w].att] = Visible(w)]
  BY DEF UpdateScoreAndCommit
<1> QED BY <1>1, <1>2, <1>3 DEF Visible

(***************************************************************************)
(* Every part of the invariant is preserved.                               *)
(***************************************************************************)
LEMMA NextRowsHeld ==
  ASSUME ScoreInv, [Next]_vars
  PROVE  RowsHeld'
<1> USE DEF RowsHeld, InTx
<1>0. TypeOK /\ RowsHeld BY DEF ScoreInv
<1>1. CASE UNCHANGED vars BY <1>0, <1>1 DEF vars, scoreVars
<1>2. ASSUME NEW w \in Workers, NEW a \in Attempts, NEW todo \in SUBSET Subtests,
             Begin(w, a, todo)
      PROVE  RowsHeld'
  BY <1>0, <1>2, BeginFields
<1>3. ASSUME NEW w \in Workers, NEW s \in Subtests, Grade(w, s) PROVE RowsHeld'
  <2>1. \A v \in Workers : job'[v].rows = job[v].rows /\ job'[v].todo = job[v].todo
    BY <1>0, <1>3, GradeFields
  <2>2. /\ job[w].pc = "grade" /\ job'[w].pc \in {"grade", "upsert"}
        /\ \A v \in Workers \ {w} : job'[v].pc = job[v].pc
    BY <1>0, <1>3, GradeFields DEF Grade
  <2> QED BY <1>0, <2>1, <2>2
<1>4. ASSUME NEW w \in Workers, NEW s \in Subtests, UpsertScore(w, s) PROVE RowsHeld'
  <2>1. s \in job[w].todo /\ job[w].pc = "upsert" BY <1>4 DEF UpsertScore, Remaining
  <2>2. Remaining(w) = {s} => job[w].rows \cup {s} = job[w].todo
    BY <1>0 DEF Remaining
  <2>3. /\ \A v \in Workers \ {w} : job'[v] = job[v]
        /\ job'[w].rows = job[w].rows \cup {s} /\ job'[w].todo = job[w].todo
        /\ job'[w].pc = IF Remaining(w) = {s} THEN "average" ELSE "upsert"
    BY <1>0, <1>4, UpsertFields
  <2> QED BY <1>0, <2>1, <2>2, <2>3
<1>5. ASSUME NEW w \in Workers, CalculateAverageScore(w) PROVE RowsHeld'
  <2>1. \A v \in Workers : job'[v].rows = job[v].rows /\ job'[v].todo = job[v].todo
    BY <1>0, <1>5, AverageFields
  <2>2. /\ job[w].pc = "average" /\ job'[w].pc = "update"
        /\ \A v \in Workers \ {w} : job'[v].pc = job[v].pc
    BY <1>0, <1>5, AverageFields DEF CalculateAverageScore
  <2> QED BY <1>0, <2>1, <2>2
<1>6. ASSUME NEW w \in Workers, job[w].pc # "idle", NEW result \in {"stored", "failed"},
             Result(w, result)
      PROVE  RowsHeld'
  BY <1>0, <1>6, ResultFields
<1> QED
  BY <1>0, <1>1, <1>2, <1>3, <1>4, <1>5, <1>6, StepCases DEF UpdateScoreAndCommit, Rollback

LEMMA NextRowsExclusive ==
  ASSUME ScoreInv, [Next]_vars
  PROVE  RowsExclusive'
<1> USE DEF RowsExclusive
<1>0. TypeOK /\ RowsExclusive BY DEF ScoreInv
<1>1. CASE UNCHANGED vars BY <1>0, <1>1 DEF vars, scoreVars
<1>2. ASSUME NEW w \in Workers, NEW a \in Attempts, NEW todo \in SUBSET Subtests,
             Begin(w, a, todo)
      PROVE  RowsExclusive'
  BY <1>0, <1>2, BeginFields
<1>3. ASSUME NEW w \in Workers, NEW s \in Subtests, Grade(w, s) PROVE RowsExclusive'
  <2>1. \A v \in Workers : job'[v].rows = job[v].rows /\ job'[v].att = job[v].att
    BY <1>0, <1>3, GradeFields
  <2> QED BY <1>0, <2>1
<1>4. ASSUME NEW w \in Workers, NEW s \in Subtests, UpsertScore(w, s)
      PROVE  RowsExclusive'
  <2>1. \A v \in Workers \ {w} : job[v].att = job[w].att => s \notin job[v].rows
    BY <1>4 DEF UpsertScore, Holders
  <2> QED BY <1>0, <1>4, <2>1, UpsertFields
<1>5. ASSUME NEW w \in Workers, CalculateAverageScore(w) PROVE RowsExclusive'
  BY <1>0, <1>5, AverageFields
<1>6. ASSUME NEW w \in Workers, NEW result \in {"stored", "failed"}, Result(w, result)
      PROVE  RowsExclusive'
  BY <1>0, <1>6, ResultFields
<1> QED
  BY <1>0, <1>1, <1>2, <1>3, <1>4, <1>5, <1>6, StepCases DEF UpdateScoreAndCommit, Rollback

LEMMA NextGradedTrue ==
  ASSUME ScoreInv, [Next]_vars
  PROVE  GradedTrue'
<1> USE DEF GradedTrue, InTx
<1>0. TypeOK /\ GradedTrue BY DEF ScoreInv
<1>1. CASE UNCHANGED vars BY <1>0, <1>1 DEF vars, scoreVars
<1>2. ASSUME NEW w \in Workers, UNCHANGED user_answers,
             NEW a \in Attempts, NEW todo \in SUBSET Subtests, Begin(w, a, todo)
      PROVE  GradedTrue'
  BY <1>0, <1>2, BeginFields DEF NoScores
<1>3. ASSUME NEW w \in Workers, UNCHANGED user_answers, NEW s \in Subtests, Grade(w, s)
      PROVE  GradedTrue'
  <2>1. user_answers[job[w].att][s] # NoScore
    BY <1>0, ScoreAssumption DEF TypeOK, Jobs
  <2>2. job[w].graded \in Scores BY <1>0 DEF TypeOK, Jobs
  <2>3. Ungraded(w) = {s} =>
          \A t \in Subtests : t \in job[w].todo /\ t # s => job[w].graded[t] # NoScore
    BY DEF Ungraded
  <2>4. /\ \A v \in Workers \ {w} : job'[v] = job[v]
        /\ job'[w].graded = [job[w].graded EXCEPT ![s] = user_answers[job[w].att][s]]
        /\ job'[w].att = job[w].att /\ job'[w].todo = job[w].todo
        /\ job'[w].pc = IF Ungraded(w) = {s} THEN "upsert" ELSE "grade"
    BY <1>0, <1>3, GradeFields
  <2> QED BY <1>0, <1>3, <2>1, <2>2, <2>3, <2>4 DEF Scores
<1>4. ASSUME NEW w \in Workers, UNCHANGED user_answers, NEW s \in Subtests, UpsertScore(w, s)
      PROVE  GradedTrue'
  <2>1. /\ \A v \in Workers : /\ job'[v].att = job[v].att /\ job'[v].todo = job[v].todo
                             /\ job'[v].graded = job[v].graded
        /\ \A v \in Workers \ {w} : job'[v].pc = job[v].pc
    BY <1>0, <1>4, UpsertFields
  <2>2. job[w].pc = "upsert" BY <1>4 DEF UpsertScore
  <2> QED BY <1>0, <1>4, <2>1, <2>2
<1>5. ASSUME NEW w \in Workers, UNCHANGED user_answers, CalculateAverageScore(w)
      PROVE  GradedTrue'
  <2>1. /\ \A v \in Workers : /\ job'[v].att = job[v].att /\ job'[v].todo = job[v].todo
                             /\ job'[v].graded = job[v].graded
        /\ \A v \in Workers \ {w} : job'[v].pc = job[v].pc
    BY <1>0, <1>5, AverageFields
  <2>2. job[w].pc = "average" BY <1>5 DEF CalculateAverageScore
  <2> QED BY <1>0, <1>5, <2>1, <2>2
<1>6. ASSUME NEW w \in Workers, UNCHANGED user_answers,
             NEW result \in {"stored", "failed"}, Result(w, result)
      PROVE  GradedTrue'
  BY <1>0, <1>6, ResultFields DEF NoScores
<1> QED
  BY <1>0, <1>1, <1>2, <1>3, <1>4, <1>5, <1>6, StepCases DEF UpdateScoreAndCommit, Rollback

(* Only a commit writes scores. *)
LEMMA ScoresKept ==
  ASSUME TypeOK, [Next]_vars, \A w \in Workers : ~UpdateScoreAndCommit(w)
  PROVE  UNCHANGED <<user_answers, user_scores, tryout_score>>
BY StepCases
   DEF vars, scoreVars, Begin, Grade, UpsertScore, CalculateAverageScore, Rollback

LEMMA NextScoresTrue ==
  ASSUME ScoreInv, [Next]_vars
  PROVE  ScoresTrue' /\ NeverOvercounts'
<1> USE DEF ScoresTrue, NeverOvercounts
<1>0. TypeOK /\ ScoresTrue /\ NeverOvercounts /\ user_answers' = user_answers
  BY DEF ScoreInv, Next, vars
<1>1. CASE \A w \in Workers : ~UpdateScoreAndCommit(w)
  BY <1>0, <1>1, ScoresKept
<1>2. ASSUME NEW w \in Workers, UpdateScoreAndCommit(w)
      PROVE  ScoresTrue' /\ NeverOvercounts'
  <2>1. \A a \in Attempts, s \in Subtests :
          user_scores'[a][s] = IF a = job[w].att /\ s \in job[w].rows
                                 THEN user_answers[a][s] ELSE user_scores[a][s]
    BY <1>2, CommitScores
  <2>2. ScoresTrue' BY <1>0, <2>1
  <2>3. \A s \in Subtests : job[w].total[s] \in {NoScore, Visible(w)[s]}
    BY <1>2 DEF ScoreInv, TotalsVisible, UpdateScoreAndCommit
  <2>4. \A a \in Attempts :
          /\ tryout_score'[a] = IF a = job[w].att THEN job[w].total ELSE tryout_score[a]
          /\ user_scores'[a] = IF a = job[w].att THEN Visible(w) ELSE user_scores[a]
    BY <1>0, <1>2 DEF UpdateScoreAndCommit, TypeOK
  <2>5. NeverOvercounts' BY <1>0, <2>3, <2>4
  <2> QED BY <2>2, <2>5
<1> QED BY <1>1, <1>2

(* What a worker sees in its transaction only grows while others commit. *)
LEMMA VisibleGrows ==
  ASSUME ScoreInv, [Next]_vars, NEW v \in Workers, job'[v] = job[v], NEW s \in Subtests
  PROVE  Visible(v)[s] # NoScore => Visible(v)'[s] = Visible(v)[s]
<1>0. /\ TypeOK /\ ScoresTrue /\ user_answers' = user_answers
      /\ job[v].att \in Attempts
  BY DEF ScoreInv, Next, vars, TypeOK, Jobs
<1>1. user_scores[job[v].att][s] # NoScore =>
        user_scores'[job[v].att][s] = user_scores[job[v].att][s]
  <2>1. CASE \A w \in Workers : ~UpdateScoreAndCommit(w)
    BY <1>0, <2>1, ScoresKept
  <2>2. ASSUME NEW w \in Workers, UpdateScoreAndCommit(w) PROVE <1>1!:
    <3>1. user_scores'[job[v].att][s] =
            IF job[v].att = job[w].att /\ s \in job[w].rows
              THEN user_answers[job[v].att][s] ELSE user_scores[job[v].att][s]
      BY <1>0, <2>2, CommitScores
    <3> QED BY <1>0, <3>1 DEF ScoresTrue
  <2> QED BY <2>1, <2>2
<1> QED BY <1>1 DEF Visible

(* How a call gets to its UPDATE, and how it is stored. *)
LEMMA JobChange ==
  ASSUME TypeOK, [Next]_vars, NEW v \in Workers
  PROVE  \/ job'[v] = job[v]
         \/ CalculateAverageScore(v)
         \/ UpdateScoreAndCommit(v)
         \/ job'[v].pc \in {"grade", "upsert", "average", "failed"}
<1>1. CASE UNCHANGED vars BY <1>1 DEF vars, scoreVars
<1>2. ASSUME NEW w \in Workers, NEW a \in Attempts, NEW todo \in SUBSET Subtests,
             Begin(w, a, todo)
      PROVE  job'[v] = job[v] \/ job'[v].pc = "grade"
  <2>1. job'[w].pc = "grade" /\ \A u \in Workers \ {w} : job'[u] = job[u]
    BY <1>2, BeginFields
  <2> QED BY <2>1
<1>3. ASSUME NEW w \in Workers, NEW t \in Subtests, Grade(w, t) \/ UpsertScore(w, t)
      PROVE  job'[v] = job[v] \/ job'[v].pc \in {"grade", "upsert", "average"}
  <2>1. /\ job'[w].pc \in {"grade", "upsert", "average"}
        /\ \A u \in Workers \ {w} : job'[u] = job[u]
    BY <1>3, GradeFields, UpsertFields
  <2> QED BY <2>1
<1>4. ASSUME NEW w \in Workers, CalculateAverageScore(w)
      PROVE  job'[v] = job[v] \/ CalculateAverageScore(v)
  <2>1. \A u \in Workers \ {w} : job'[u] = job[u] BY <1>4, AverageFields
  <2> QED BY <1>4, <2>1
<1>5. ASSUME NEW w \in Workers, UpdateScoreAndCommit(w)
      PROVE  job'[v] = job[v] \/ UpdateScoreAndCommit(v)
  <2>1. \A u \in Workers \ {w} : job'[u] = job[u]
    BY <1>5, ResultFields DEF UpdateScoreAndCommit
  <2> QED BY <1>5, <2>1
<1>6. ASSUME NEW w \in Workers, Rollback(w)
      PROVE  job'[v] = job[v] \/ job'[v].pc = "failed"
  <2>1. job'[w].pc = "failed" /\ \A u \in Workers \ {w} : job'[u] = job[u]
    BY <1>6, ResultFields DEF Rollback
  <2> QED BY <2>1
<1> QED BY <1>1, <1>2, <1>3, <1>4, <1>5, <1>6, StepCases

LEMMA NextTotalsVisible ==
  ASSUME ScoreInv, [Next]_vars
  PROVE  TotalsVisible'
<1>0. TypeOK /\ TotalsVisible BY DEF ScoreInv
<1> SUFFICES ASSUME NEW v \in Workers, NEW s \in Subtests, job'[v].pc = "update"
             PROVE  /\ job'[v].total[s] \in {NoScore, Visible(v)'[s]}
                    /\ s \in job'[v].rows => job'[v].total[s] = job'[v].graded[s]
  BY DEF TotalsVisible
<1>1. CASE job'[v] = job[v]
  BY <1>0, <1>1, VisibleGrows DEF TotalsVisible
<1>2. CASE CalculateAverageScore(v)
  <2>1. /\ job'[v].total = Visible(v) /\ job'[v].att = job[v].att
        /\ job'[v].graded = job[v].graded /\ job'[v].rows = job[v].rows
    BY <1>0, <1>2, AverageFields
  <2>2. user_scores' = user_scores BY <1>2 DEF CalculateAverageScore
  <2> QED BY <2>1, <2>2 DEF Visible
<1>3. ~UpdateScoreAndCommit(v)
  BY <1>0, ResultFields DEF UpdateScoreAndCommit
<1> QED BY <1>0, <1>1, <1>2, <1>3, JobChange

LEMMA NextFullRecountStays ==
  ASSUME ScoreInv, [Next]_vars
  PROVE  FullRecountStays'
<1>0. /\ TypeOK /\ TypeOK' /\ RowsHeld /\ RowsExclusive /\ GradedTrue /\ FullRecountStays
      /\ TotalsVisible /\ ScoresTrue /\ user_answers' = user_answers
  BY NextType DEF ScoreInv, Next, vars
<1> SUFFICES ASSUME NEW w \in Workers, job'[w].pc = "stored", job'[w].todo = Subtests,
                    NEW att, att = job'[w].att
             PROVE  /\ user_scores'[att] = user_answers[att]
                    /\ tryout_score'[att] = user_answers[att]
                    /\ \A v \in Workers :
                         job'[v].pc = "update" /\ job'[v].att = att =>
                           job'[v].total = user_answers[att]
  BY <1>0 DEF FullRecountStays
<1>1. /\ att \in Attempts
      /\ user_scores'[att] \in Scores /\ user_scores[att] \in Scores
      /\ tryout_score'[att] \in Scores
      /\ user_answers[att] \in [Subtests -> Sheets]
      /\ \A v \in Workers : job[v].total \in Scores /\ job[v].graded \in Scores
  BY <1>0 DEF TypeOK, Jobs
<1>2. \A v \in Workers, s \in Subtests :
        job[v].pc \in InTx /\ s \in job[v].rows =>
          job[v].graded[s] = user_answers[job[v].att][s]
  BY <1>0 DEF GradedTrue, RowsHeld
<1>3. CASE UpdateScoreAndCommit(w)
  <2>1. job[w].att = att /\ job[w].todo = Subtests
    BY <1>0, <1>3, ResultFields DEF UpdateScoreAndCommit
  <2>2. job[w].pc = "update" /\ job[w].rows = Subtests
    BY <1>0, <1>3, <2>1 DEF UpdateScoreAndCommit, RowsHeld
  <2>3. \A s \in Subtests : user_scores'[att][s] = user_answers[att][s]
    BY <1>1, <1>3, <2>1, <2>2, CommitScores
  <2>4. \A s \in Subtests : job[w].total[s] = user_answers[att][s]
    BY <1>0, <1>2, <2>1, <2>2 DEF TotalsVisible, InTx
  <2>5. tryout_score'[att] = job[w].total
    BY <1>0, <1>1, <1>3, <2>1 DEF UpdateScoreAndCommit, TypeOK
  <2>6. \A v \in Workers \ {w} : ~(job'[v].pc = "update" /\ job'[v].att = att)
    <3>1. \A v \in Workers \ {w} : job'[v] = job[v]
      BY <1>0, <1>3, ResultFields DEF UpdateScoreAndCommit
    <3>2. \A v \in Workers \ {w} : job[v].att = att => job[v].rows \cap Subtests = {}
      BY <1>0, <2>1, <2>2 DEF RowsExclusive
    <3>3. \A v \in Workers :
            job[v].pc = "update" => job[v].rows # {} /\ job[v].rows \subseteq Subtests
      BY <1>0 DEF RowsHeld, TypeOK, Jobs
    <3> QED BY <3>1, <3>2, <3>3
  <2> QED BY <1>1, <2>3, <2>4, <2>5, <2>6 DEF Scores
<1>4. CASE job'[w] = job[w]
  <2>1. /\ user_scores[att] = user_answers[att] /\ tryout_score[att] = user_answers[att]
        /\ \A v \in Workers : job[v].pc = "update" /\ job[v].att = att =>
                              job[v].total = user_answers[att]
    BY <1>0, <1>4 DEF FullRecountStays
  <2>2. user_scores'[att] = user_answers[att] /\ tryout_score'[att] = user_answers[att]
    <3>1. CASE \A u \in Workers : ~UpdateScoreAndCommit(u)
      BY <1>0, <2>1, <3>1, ScoresKept
    <3>2. ASSUME NEW u \in Workers, UpdateScoreAndCommit(u)
          PROVE  /\ user_scores'[att] = user_answers[att]
                 /\ tryout_score'[att] = user_answers[att]
      <4>1. \A s \in Subtests : user_scores'[att][s] = user_answers[att][s]
        BY <1>1, <2>1, <3>2, CommitScores
      <4>2. tryout_score'[att] = user_answers[att]
        BY <1>0, <1>1, <2>1, <3>2 DEF UpdateScoreAndCommit, TypeOK
      <4> QED BY <1>1, <4>1, <4>2 DEF Scores
    <3> QED BY <3>1, <3>2
  <2>3. ASSUME NEW v \in Workers, job'[v].pc = "update", job'[v].att = att
        PROVE  job'[v].total = user_answers[att]
    <3>1. CASE job'[v] = job[v] BY <2>1, <2>3, <3>1
    <3>2. CASE CalculateAverageScore(v)
      <4>1. job'[v].total = Visible(v) /\ job[v].att = att
        BY <1>0, <2>3, <3>2, AverageFields
      <4>2. job[v].pc \in InTx BY <3>2 DEF CalculateAverageScore, InTx
      <4>3. \A s \in Subtests : Visible(v)[s] = user_answers[att][s]
        BY <1>2, <2>1, <4>1, <4>2 DEF Visible
      <4> QED BY <1>1, <4>1, <4>3 DEF Visible
    <3>3. ~UpdateScoreAndCommit(v)
      BY <1>0, <2>3, ResultFields DEF UpdateScoreAndCommit
    <3> QED BY <1>0, <2>3, <3>1, <3>2, <3>3, JobChange
  <2> QED BY <2>2, <2>3
<1>5. ~CalculateAverageScore(w)
  BY <1>0, AverageFields
<1> QED BY <1>0, <1>3, <1>4, <1>5, JobChange

LEMMA NextScoreInv == ScoreInv /\ [Next]_vars => ScoreInv'
<1> SUFFICES ASSUME ScoreInv, [Next]_vars PROVE ScoreInv' OBVIOUS
<1>1. TypeOK' BY NextType DEF ScoreInv
<1>2. RowsHeld' /\ RowsExclusive' BY NextRowsHeld, NextRowsExclusive
<1>3. GradedTrue' /\ ScoresTrue' /\ NeverOvercounts' BY NextGradedTrue, NextScoresTrue
<1>4. TotalsVisible' /\ FullRecountStays' BY NextTotalsVisible, NextFullRecountStays
<1> QED BY <1>1, <1>2, <1>3, <1>4 DEF ScoreInv

(* The rows, the averages and the calls hold what their declarations say. *)
THEOREM ScoreTypeCorrect == Spec => []TypeOK
<1>1. ScoreInv => TypeOK BY DEF ScoreInv
<1> QED BY <1>1, InitScoreInv, NextScoreInv, PTL DEF Spec

(* No average counts a row that is not there. *)
THEOREM NoOvercount == Spec => []NeverOvercounts
<1>1. ScoreInv => NeverOvercounts BY DEF ScoreInv
<1> QED BY <1>1, InitScoreInv, NextScoreInv, PTL DEF Spec

(* After a call of all subtests the average counts every row, for good. *)
THEOREM FullRecount == Spec => []FullRecountExact
<1>1. ScoreInv => FullRecountExact
  BY DEF ScoreInv, FullRecountStays, FullRecountExact
<1> QED BY <1>1, InitScoreInv, NextScoreInv, PTL DEF Spec
=============================================================================
