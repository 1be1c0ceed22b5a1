------------------------------- MODULE Tryout -------------------------------
(***************************************************************************)
(* tryout-service: the attempts of TryoutAttempt and the score service of  *)
(* ScoreStore, with those who call it: a request that closed a subtest     *)
(* waits for the call; if it fails a detached goroutine calls once more;   *)
(* and a progress page (page_svc.go) calls it when it finds scores         *)
(* missing.  Nothing but the database survives the end of the process.     *)
(***************************************************************************)
EXTENDS TryoutAttempt

CONSTANTS
  Refreshers,  \* the detached refreshes that can be under way
  Viewers,     \* the progress pages that can be under way
  NoScore      \* no row in user_scores

Workers == Requests \cup Refreshers \cup Viewers

ASSUME WorkersAssumption ==
  /\ Requests \cap (Refreshers \cup Viewers) = {}
  /\ Refreshers \cap Viewers = {}

ASSUME NoScoreAssumption == NoScore \notin Sheets

VARIABLES user_scores, tryout_score, job

Store == INSTANCE ScoreStore

scoreVars == <<user_scores, tryout_score, job>>
tryoutVars == <<vars, scoreVars>>

TryoutInit == Init /\ Store!Init

Hang(w) ==
  /\ job' = [job EXCEPT ![w] = Store!NoJob]
  /\ UNCHANGED <<user_scores, tryout_score>>

Returned(w, result) == job[w].pc = result

(* The request calls the score service, and goes on when the call is back. *)
RequestCalls(r) ==
  /\ req[r].pc = "score"
  /\ Store!Begin(r, Att(r), req[r].todo)
  /\ UNCHANGED vars

RequestScored(r) ==
  /\ Returned(r, "stored")
  /\ ScoreReturns(r)
  /\ Hang(r)

(* scheduleDetachedScoreRefresh: the same call again, once, in a goroutine. *)
RequestNotScored(r, f) ==
  /\ Returned(r, "failed")
  /\ job[f].pc = "idle"
  /\ ScoreReturns(r)
  /\ job' = [job EXCEPT ![r] = Store!NoJob,
                        ![f] = Store!Call(job[r].att, job[r].todo)]
  /\ UNCHANGED <<user_scores, tryout_score>>

(* Its result is only logged. *)
RefreshEnds(f) ==
  /\ job[f].pc \in {"stored", "failed"}
  /\ Hang(f)
  /\ UNCHANGED vars

(* Faulty: the subtest the attempt is in counts as completed. *)
CompletedWithCurrent(a) ==
  IF status[a] = "finished" THEN Subtests ELSE 1 .. subtest_sekarang[a]

(* completedSubtestsForAttempt *)
CompletedSubtests(a) ==
  IF status[a] = "finished" THEN Subtests ELSE 1 .. (subtest_sekarang[a] - 1)

(* The attempt a page shows: the user's latest ongoing one, else the latest
   finished one. *)
FinishedAttempts(u) == {a \in Attempts : a[1] = u /\ status[a] = "finished"}
PageAttempts(u) ==
  LET rows == IF OngoingAttempts(u) # {} THEN OngoingAttempts(u) ELSE FinishedAttempts(u)
  IN  {a \in rows : \A b \in rows : start_time[b] <= start_time[a]}

(* ensureAttemptScoresReady: all completed subtests are scored again when a
   score of one is missing. *)
ViewProgress(v, u) ==
  \E a \in PageAttempts(u) :
    /\ \E s \in CompletedSubtests(a) : user_scores[a][s] = NoScore
    /\ Store!Begin(v, a, CompletedSubtests(a))
    /\ UNCHANGED vars

ViewEnds(v) ==
  /\ job[v].pc \in {"stored", "failed"}
  /\ Hang(v)
  /\ UNCHANGED vars

(* A worker is gone, and the database rolls its transaction back. *)
RequestGone(r) == RequestDies(r) /\ Hang(r)
WorkerGone(w) == job[w].pc # "idle" /\ Hang(w) /\ UNCHANGED vars

TryoutNext ==
  \/ (AttemptNext /\ UNCHANGED scoreVars)
  \/ \E w \in Workers : (Store!Proceed(w) \/ Store!CallFails(w)) /\ UNCHANGED vars
  \/ \E r \in Requests : RequestCalls(r) \/ RequestScored(r) \/ RequestGone(r)
  \/ \E r \in Requests, f \in Refreshers : RequestNotScored(r, f)
  \/ \E f \in Refreshers : RefreshEnds(f) \/ WorkerGone(f)
  \/ \E v \in Viewers : ViewEnds(v) \/ WorkerGone(v)
  \/ \E v \in Viewers, u \in Users : ViewProgress(v, u)

TryoutSpec == TryoutInit /\ [][TryoutNext]_tryoutVars

(***************************************************************************)
(* Properties.                                                             *)
(***************************************************************************)

Closed(a, s) ==
  \/ status[a] = "finished"
  \/ status[a] = "ongoing" /\ s < subtest_sekarang[a]

(* A stored score is the score of the answers the participant ended up with:
   no call graded a subtest that could still be written, however long it
   waited for the soal service or was retried after. *)
ScoreOfFinalAnswers ==
  \A a \in Attempts, s \in Subtests :
    user_scores[a][s] # NoScore =>
      Closed(a, s) /\ user_scores[a][s] = user_answers[a][s]

(* After FinishTryoutNow or the last submit has been answered with its scores
   stored, tryout_score is the average of all of them, and stays so. *)
FinalScoreExact ==
  \A r \in Requests :
    req[r].pc = "score" /\ job[r].pc = "stored" /\ req[r].todo = Subtests =>
      tryout_score[Att(r)] = user_scores[Att(r)]
=============================================================================
