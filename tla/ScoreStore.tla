----------------------------- MODULE ScoreStore -----------------------------
(***************************************************************************)
(* The score service of tryout-service (score_svc.go and score_repo.go):   *)
(* what concurrent calls of CalculateAndStoreScoresForSubtests do to the   *)
(* rows of user_scores and to tryout_attempt.tryout_score.                 *)
(*                                                                         *)
(* A call reads the answers of the subtests it was asked for and fetches   *)
(* their keys from the soal service, outside any transaction; then one     *)
(* transaction upserts the rows, in the random order of a Go map, sums up  *)
(* the rows it can see and updates the attempt.  PostgreSQL runs it at     *)
(* READ COMMITTED: an upsert waits for the transaction that holds its row, *)
(* the sum sees committed rows and the transaction's own, and of           *)
(* transactions that wait for each other one is aborted.                   *)
(*                                                                         *)
(* A score stands for the sheet it was computed from, tryout_score for the *)
(* rows its average was taken of (all NoScore: NULL).                      *)
(***************************************************************************)
EXTENDS Integers, FiniteSets

CONSTANTS
  Attempts,     \* the attempts
  Workers,      \* whoever calls the score service: one call at a time each
  NumSubtests,  \* the length of orderedScoreSubtests
  Sheets,       \* the answer sheets of a subtest
  NoScore       \* no row in user_scores

Subtests == 1 .. NumSubtests

ASSUME AttemptsAssumption == Attempts # {}
ASSUME ScoreAssumption == NoScore \notin Sheets

VARIABLES
  user_answers,  \* user_answers[a][s]: only read here
  user_scores,   \* user_scores[a][s]: a committed row, or NoScore
  tryout_score,  \* tryout_score[a]: the rows the committed average counts
  job            \* job[w]: the call of w

scoreVars == <<user_scores, tryout_score, job>>

Scores == [Subtests -> Sheets \cup {NoScore}]
NoScores == [s \in Subtests |-> NoScore]

(* A call is in its first phase (grade), in its transaction (upsert, average,
   update), or back with its result.  graded: the scores computed, rows: the
   subtests whose row the transaction has written and holds, total: the rows
   its average was taken of. *)
Jobs ==
  [pc : {"idle", "grade", "upsert", "average", "update", "stored", "failed"},
   att : Attempts, todo : SUBSET Subtests, graded : Scores,
   rows : SUBSET Subtests, total : Scores]

NoJob ==
  [pc |-> "idle", att |-> CHOOSE a \in Attempts : TRUE, todo |-> {},
   graded |-> NoScores, rows |-> {}, total |-> NoScores]

TypeOK ==
  /\ user_answers \in [Attempts -> [Subtests -> Sheets]]
  /\ user_scores \in [Attempts -> Scores]
  /\ tryout_score \in [Attempts -> Scores]
  /\ job \in [Workers -> Jobs]

Init ==
  /\ user_answers \in [Attempts -> [Subtests -> Sheets]]
  /\ user_scores = [a \in Attempts |-> NoScores]
  /\ tryout_score = [a \in Attempts |-> NoScores]
  /\ job = [w \in Workers |-> NoJob]

Call(a, todo) == [NoJob EXCEPT !.pc = "grade", !.att = a, !.todo = todo]

(* The call is over: what it computed is gone with it. *)
Result(w, result) ==
  job' = [job EXCEPT ![w] = [Call(@.att, @.todo) EXCEPT !.pc = result]]

Begin(w, a, todo) ==
  /\ job[w].pc = "idle"
  /\ todo # {}
  /\ job' = [job EXCEPT ![w] = Call(a, todo)]
  /\ UNCHANGED <<user_scores, tryout_score>>

(* The requested subtests are graded in their order, each from the answers
   that are there when its turn comes; nothing is written yet. *)
Ungraded(w) == {s \in job[w].todo : job[w].graded[s] = NoScore}

Grade(w, s) ==
  /\ job[w].pc = "grade"
  /\ s \in Ungraded(w) /\ \A t \in Ungraded(w) : s <= t
  /\ job' = [job EXCEPT ![w].graded[s] = user_answers[job[w].att][s],
                        ![w].pc = IF Ungraded(w) = {s} THEN "upsert" ELSE "grade"]
  /\ UNCHANGED <<user_scores, tryout_score>>

(* Faulty: nothing keeps two calls from writing the same row at once. *)
NoRowLocks(w, s) == {}

(* INSERT ... ON CONFLICT DO UPDATE of one row: it waits while another
   transaction holds the row. *)
Holders(w, s) == {v \in Workers \ {w} : job[v].att = job[w].att /\ s \in job[v].rows}
Remaining(w) == job[w].todo \ job[w].rows

UpsertScore(w, s) ==
  /\ job[w].pc = "upsert"
  /\ s \in Remaining(w)
  /\ Holders(w, s) = {}
  /\ job' = [job EXCEPT ![w].rows = @ \cup {s},
                        ![w].pc = IF Remaining(w) = {s} THEN "average" ELSE "upsert"]
  /\ UNCHANGED <<user_scores, tryout_score>>

(* Faulty: the rows of the other subtests are replaced, not kept. *)
OwnRowsOnly(w) == [s \in job[w].rows |-> job[w].graded[s]]

(* What the transaction of w sees and leaves behind: its own rows and, beside
   them, the committed ones. *)
Visible(w) ==
  [s \in Subtests |-> IF s \in job[w].rows THEN job[w].graded[s]
                      ELSE user_scores[job[w].att][s]]

CalculateAverageScore(w) ==
  /\ job[w].pc = "average"
  /\ job' = [job EXCEPT ![w].pc = "update", ![w].total = Visible(w)]
  /\ UNCHANGED <<user_scores, tryout_score>>

(* UPDATE tryout_attempt SET tryout_score, then COMMIT.  The UPDATE of another
   transaction on the attempt waits for the commit and then overwrites. *)
UpdateScoreAndCommit(w) ==
  /\ job[w].pc = "update"
  /\ user_scores' = [user_scores EXCEPT ![job[w].att] = Visible(w)]
  /\ tryout_score' = [tryout_score EXCEPT ![job[w].att] = job[w].total]
  /\ Result(w, "stored")

(* Faulty: the average is written outside the transaction. *)
RollbackKeepsTotal(w) ==
  /\ Result(w, "failed")
  /\ tryout_score' = [tryout_score EXCEPT ![job[w].att] = job[w].total]
  /\ UNCHANGED user_scores

(* The call ends with an error: nothing it wrote stays. *)
Rollback(w) ==
  /\ Result(w, "failed")
  /\ UNCHANGED <<user_scores, tryout_score>>

(* A key is missing or late, a statement or the commit fails. *)
CallFails(w) ==
  /\ job[w].pc \in {"grade", "upsert", "average", "update"}
  /\ Rollback(w)

(* The transactions in C wait for each other's rows; PostgreSQL aborts one. *)
Stuck(w) == job[w].pc = "upsert" /\ \A s \in Remaining(w) : Holders(w, s) # {}
(* Faulty: nobody notices that transactions wait for each other. *)
DeadlockUnnoticed(C) == FALSE

Deadlocked(C) ==
  \A w \in C : Stuck(w) /\ \A s \in Remaining(w) : Holders(w, s) \subseteq C

DeadlockVictim(w) ==
  /\ \E C \in SUBSET Workers : w \in C /\ Deadlocked(C)
  /\ Rollback(w)

(* Everything but the calls themselves, which Tryout makes. *)
Proceed(w) ==
  \/ \E s \in Subtests : Grade(w, s) \/ UpsertScore(w, s)
  \/ CalculateAverageScore(w)
  \/ UpdateScoreAndCommit(w)
  \/ DeadlockVictim(w)

(* On its own: every worker calls once, for any subtests of any attempt. *)
Next ==
  \E w \in Workers :
    /\ \/ \E a \in Attempts, todo \in SUBSET Subtests : Begin(w, a, todo)
       \/ Proceed(w)
       \/ CallFails(w)
    /\ UNCHANGED user_answers

vars == <<user_answers, scoreVars>>

Spec == Init /\ [][Next]_vars

(* The process goes on with a call, the HTTP client has a timeout and the
   database detects deadlocks; failures need not happen. *)
FairSpec == Spec /\ \A w \in Workers : WF_vars(Proceed(w) /\ UNCHANGED user_answers)

(***************************************************************************)
(* Properties.                                                             *)
(***************************************************************************)

(* Once all subtests were scored in one call (CalculateAndStoreScores, after
   the attempt was finished), tryout_score is the average of the rows that
   are there, and stays so, whichever other calls were or are under way: they
   share a row with it and wait.  For calls of single subtests this does not
   hold: each averages without the uncommitted row of the other, and the last
   UPDATE stays. *)
FullRecountExact ==
  \A w \in Workers :
    job[w].pc = "stored" /\ job[w].todo = Subtests =>
      tryout_score[job[w].att] = user_scores[job[w].att]

(* The average counts no row that is not there: a call that fails, or whose
   transaction is aborted in a deadlock, leaves no part of its scores in it. *)
NeverOvercounts ==
  \A a \in Attempts, s \in Subtests :
    tryout_score[a][s] \in {NoScore, user_scores[a][s]}

(* Every call comes back, though two of them may wait for each other's rows. *)
CallsReturn ==
  \A w \in Workers : job[w].pc = "grade" ~> job[w].pc \in {"stored", "failed"}
=============================================================================
