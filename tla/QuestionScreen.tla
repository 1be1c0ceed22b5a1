--------------------------- MODULE QuestionScreen ---------------------------
(***************************************************************************)
(* The question screen of the web client (tryout-question-screen.tsx) in   *)
(* one browser tab, against the tryout service.                            *)
(*                                                                         *)
(* What is typed goes to the screen's state, to localStorage and, as the   *)
(* runtime cache, to sessionStorage; it is saved on the server after a     *)
(* pause, when the tab is hidden and before a submit, and submitted when   *)
(* the participant is done, logs out or runs out of time.  Every step of a *)
(* question number or subtest mounts the screen anew and loads it again.   *)
(*                                                                         *)
(* A call is a slot of task: it sends a request, the server answers it or  *)
(* the 12 s run out, and its continuation runs with what it had captured.  *)
(* Calls of a screen that is gone go on.  Their updates of its state show  *)
(* nowhere, but the one after a save writes localStorage where React       *)
(* computes it.  The server is the one of Exam, with what the client sees  *)
(* of its errors; its time limits are kept as phases of the subtests.      *)
(***************************************************************************)
EXTENDS AnswerSheet

CONSTANTS
  NumSubtests,   \* the length of orderedSubtests
  Slots,         \* the calls that can be under way at once
  NoCache,       \* no runtime cache in sessionStorage
  NoRequest,     \* no request is on its way without a call
  Dashboard, Progress, Login,  \* the pages around the screen
  MaxInputs,     \* bound: how often the participant does something
  MaxFaults      \* bound: how many requests or answers are lost or given up

Subtests == 1 .. NumSubtests

ASSUME NumSubtestsAssumption == NumSubtests \in Nat \ {0}
ASSUME SlotsAssumption == IsFiniteSet(Slots)
ASSUME PagesAssumption == Subtests \cap {Dashboard, Progress, Login} = {}

Sheets ==
  UNION {[Q -> UNION {[jawaban : Answers(q), synced : BOOLEAN] : q \in Soal}] : Q \in SUBSET Soal}
Payloads == UNION {[Q -> UNION {Wires(q) : q \in Soal}] : Q \in SUBSET Soal}
NoPayload == [q \in {} |-> {}]
NothingTyped == [q \in {} |-> Blank]

Pages == Subtests \cup {Dashboard, Progress, Login}
Phases == {"new", "begun", "running", "due", "past"}

VARIABLES
  active,   \* subtest_sekarang on the server, NumSubtests + 1 after the last
  phase,    \* phase[s]: not begun; just begun; before, at, after its limit
  saved,    \* saved[s][q]: the answer in user_answers
  local,    \* local[s]: localStorage, tryout_answers_<attempt>_<s>
  cache,    \* cache[s]: sessionStorage, tryout_runtime_<s>
  page,     \* where the tab is: a subtest's screen, or elsewhere
  screen,   \* the state of the screen that is mounted
  task,     \* task[t]: the calls under way
  late,     \* a request the client has given up, still on its way
  typed,    \* history: typed[s][q], what the participant last put in here
  overwritten,  \* history: where a gone screen's write lost some of that
  inputs, faults   \* counted up to their bounds

server == <<active, phase, saved>>
stores == <<local, cache>>
bounds == <<inputs, faults>>
vars == <<server, stores, page, screen, task, late, typed, overwritten, bounds>>

(***************************************************************************)
(* screen: answers and questions (loaded), activeBackendSubtest (backend,  *)
(* 0 for null), isSubmitting, isLoggingOut, autoSubmitTriggered, the modal *)
(* of the time that is up, the debounce timer (armed), a save has gone     *)
(* through (flushed, lastSyncAt).  The lines of bad news are left out.     *)
(***************************************************************************)
Fresh ==
  [answers |-> NoEntries, loaded |-> FALSE, backend |-> 0,
   submitting |-> FALSE, loggingOut |-> FALSE, autoSubmitted |-> FALSE,
   timeUp |-> FALSE, armed |-> FALSE, flushed |-> FALSE]

(***************************************************************************)
(* A call: who waits for it, for which subtest, the step its request is    *)
(* for, what came back, and what it captured.  left is what its screen had *)
(* when that went away during a save.  by tells why it submits: the        *)
(* participant in time (user) or not (late), or the timer.  wanted is      *)
(* history: what the participant had put in when the call was made.        *)
(***************************************************************************)
Kinds == {"none", "load", "flush", "submit", "logout"}
Steps == {"current", "start", "soal", "save", "submit", "logout"}
Nets == {"sent", "ok", "none", "order", "over", "auth", "committed", "fail"}

NoTask ==
  [kind |-> "none", mine |-> FALSE, at |-> 0, step |-> "current",
   net |-> "sent", active |-> 0, answers |-> NoEntries, pending |-> {},
   left |-> NoEntries, by |-> "user", wanted |-> NothingTyped]

Call(kind, s, step) ==
  [NoTask EXCEPT !.kind = kind, !.mine = TRUE, !.at = s, !.step = step]

TypeOK ==
  /\ active \in 1 .. NumSubtests + 1
  /\ phase \in [Subtests -> Phases]
  /\ DOMAIN saved = Subtests
  /\ \A s \in Subtests, q \in Soal : saved[s][q] \in Wires(q)
  /\ local \in [Subtests -> Sheets]
  /\ cache \in [Subtests -> Sheets \cup {NoCache}]
  /\ page \in Pages
  /\ screen.answers \in Sheets
  /\ screen.backend \in 0 .. NumSubtests + 1
  /\ \A t \in Slots :
       /\ task[t].kind \in Kinds /\ task[t].step \in Steps /\ task[t].net \in Nets
       /\ task[t].at \in 0 .. NumSubtests /\ task[t].answers \in Sheets

Init ==
  /\ active = 1
  /\ phase = [s \in Subtests |-> "new"]
  /\ saved = [s \in Subtests |-> [q \in Soal |-> {}]]
  /\ local = [s \in Subtests |-> NoEntries]
  /\ cache = [s \in Subtests |-> NoCache]
  /\ page = Dashboard
  /\ screen = Fresh
  /\ task = [t \in Slots |-> NoTask]
  /\ late = NoRequest
  /\ typed = [s \in Subtests |-> NothingTyped]
  /\ overwritten = {}
  /\ inputs = 0
  /\ faults = 0

Input == inputs < MaxInputs /\ inputs' = inputs + 1
Fault == faults < MaxFaults /\ faults' = faults + 1

(***************************************************************************)
(* The server.                                                             *)
(***************************************************************************)
(* The subtest the attempt is in once the time that is up is noticed. *)
Reconciled ==
  IF active \in Subtests /\ phase[active] = "past" THEN active + 1 ELSE active

Verdict(step, s) ==
  CASE step \in {"soal", "logout"} -> "ok"
    [] step = "current" -> IF Reconciled \in Subtests THEN "ok" ELSE "none"
    [] OTHER -> IF Reconciled = s THEN "ok"
                ELSE IF Reconciled \in Subtests THEN "order" ELSE "over"

Upsert(sheet, payload) ==
  [q \in Soal |-> IF q \in DOMAIN payload THEN payload[q] ELSE sheet[q]]

(* A request of subtest s does its work, or is refused. *)
Serve(step, s, payload) ==
  IF step \in {"soal", "logout"} THEN UNCHANGED server
  ELSE IF step = "current" \/ Reconciled # s
    THEN active' = Reconciled /\ UNCHANGED <<phase, saved>>
  ELSE /\ active' = IF step = "submit" THEN s + 1 ELSE s
       /\ phase' = [phase EXCEPT ![s] = IF @ = "new" THEN "begun" ELSE @]
       /\ saved' = [saved EXCEPT ![s] = Upsert(@, payload)]

(* Faulty: a submit carries what is not synced, like a save. *)
CarriedUnsynced(c) ==
  CASE c.step = "save"   -> Payload(c.answers, c.pending)
    [] c.step = "submit" -> Payload(c.answers, Unsynced(c.answers))
    [] OTHER             -> NoPayload

(* The answers a request carries. *)
Carried(c) ==
  CASE c.step = "save"   -> Payload(c.answers, c.pending)
    [] c.step = "submit" -> Payload(c.answers, DOMAIN c.answers)
    [] OTHER             -> NoPayload

(* What a call still needs once net has come back. *)
Back(c, net) ==
  LET first == c.kind = "submit" /\ c.step = "save"
  IN  [c EXCEPT !.net = net,
                !.active = IF net = "order" \/ (c.step = "current" /\ net = "ok")
                             THEN Reconciled ELSE 0,
                !.answers = IF c.step = "start" /\ net = "ok" THEN BackendSheet(saved[c.at])
                            ELSE IF c.step = "soal" \/ first THEN @ ELSE NoEntries,
                !.pending = IF c.step = "save" THEN @ ELSE {},
                !.wanted = IF first THEN @ ELSE NothingTyped]

(* The server answers.  The answer may be lost; the last submit may be
   answered by 503, when the attempt is finished and cannot be scored. *)
Answered(t) ==
  LET c == task[t]
      verdict == Verdict(c.step, c.at)
  IN  /\ c.kind # "none" /\ c.net = "sent"
      /\ Serve(c.step, c.at, Carried(c))
      /\ \E net \in {verdict, "fail"} \cup
                    (IF c.step = "submit" /\ verdict = "ok" /\ c.at = NumSubtests
                       THEN {"committed"} ELSE {}) :
           /\ IF net = "fail" THEN Fault ELSE UNCHANGED faults
           /\ task' = [task EXCEPT ![t] = Back(c, net)]
      /\ UNCHANGED <<stores, page, screen, late, typed, overwritten, inputs>>

Writes(c) == c.kind # "none" /\ c.net = "sent" /\ c.step \in {"save", "submit"}
Request(c) == [step |-> c.step, at |-> c.at, payload |-> Carried(c)]

(* The requests that may still arrive when the calls in C give up. *)
StillUnderWay(C) ==
  {late} \cup IF late = NoRequest THEN {Request(c) : c \in {x \in C : Writes(x)}} ELSE {}

(* fetchJson: no answer in 12 s (the request may still arrive), or one that is
   not the service's: the session is over, the gateway or the soal service
   fails. 401 is told apart for the start of a subtest and a submit only. *)
Fails(t) ==
  /\ task[t].kind # "none" /\ task[t].net = "sent"
  /\ Fault
  /\ \E net \in {"fail"} \cup (IF task[t].step \in {"start", "submit"} THEN {"auth"} ELSE {}) :
       task' = [task EXCEPT ![t] = Back(@, net)]
  /\ late' \in StillUnderWay({task[t]})
  /\ UNCHANGED <<server, stores, page, screen, typed, overwritten, inputs>>

ArrivesLate ==
  /\ late # NoRequest
  /\ Serve(late.step, late.at, late.payload)
  /\ late' = NoRequest
  /\ UNCHANGED <<stores, page, screen, task, typed, overwritten, bounds>>

(* The limit of a subtest comes after those before it, and minutes after its
   beginning: the calls of before, given up after 12 s, are over by then. *)
TimePasses(s) ==
  /\ \/ phase[s] = "begun" /\ (\A t \in Slots : task[t].kind = "none")
     \/ phase[s] \in {"running", "due"}
  /\ s > 1 => phase[s - 1] = "past"
  /\ phase' = [phase EXCEPT ![s] =
       CASE @ = "begun" -> "running" [] @ = "running" -> "due" [] @ = "due" -> "past"]
  /\ UNCHANGED <<active, saved, stores, page, screen, task, late, typed, overwritten, bounds>>

(* Another device of the participant answers a question or submits. *)
DeviceSaves(q, wire) ==
  /\ active \in Subtests
  /\ Input
  /\ Serve("save", active, [x \in {q} |-> wire])
  /\ UNCHANGED <<stores, page, screen, task, late, typed, overwritten, faults>>

DeviceSubmits ==
  /\ active \in Subtests
  /\ Input
  /\ Serve("submit", active, NoPayload)
  /\ UNCHANGED <<stores, page, screen, task, late, typed, overwritten, faults>>


(***************************************************************************)
(* Mounting and leaving the screen.                                        *)
(***************************************************************************)
Mounted == page \in Subtests
Free(t) == task[t].kind = "none"
Mine(t) == task[t].mine

(* hasExpiredTimeLimit: the client's clock has reached the limit. *)
Expired(s) == phase[s] \in {"due", "past"}

TimeIsUp == screen.loaded /\ Expired(page)

Saves(c) == c.kind \in {"flush", "submit"} /\ c.step = "save"

(* A call of the screen is nobody's when that goes away. *)
Orphaned(c) ==
  [c EXCEPT !.mine = FALSE, !.left = IF c.mine /\ Saves(c) THEN screen.answers ELSE @]

(* The router shows page p; what ran in slot t is over, the other calls go on,
   and a screen that comes up loads. *)
Arrive(p, t) ==
  /\ page' = p
  /\ screen' = Fresh
  /\ task' = [x \in Slots |->
       IF x # t THEN Orphaned(task[x])
       ELSE IF p \in Subtests THEN Call("load", p, "current") ELSE NoTask]

(* The page is unloaded: its calls are gone, their requests need not be. *)
Unload(calls) ==
  /\ screen' = Fresh
  /\ task' = [t \in Slots |-> NoTask]
  /\ late' \in StillUnderWay(calls)

Open(s, t) ==
  /\ ~Mounted /\ Free(t)
  /\ Input
  /\ Arrive(s, t)
  /\ UNCHANGED <<server, stores, late, typed, overwritten, faults>>

(* navigateToQuestion, and any link that leads away from the screen. *)
NavigateToQuestion(t) ==
  /\ Mounted /\ Free(t) /\ ~screen.timeUp
  /\ Input
  /\ \E p \in {page, Dashboard} : Arrive(p, t)
  /\ UNCHANGED <<server, stores, late, typed, overwritten, faults>>

(* The tab is closed or reloaded; pagehide saves once more. *)
PageHide ==
  /\ Mounted
  /\ Fault
  /\ page' = Dashboard
  /\ Unload({task[t] : t \in Slots} \cup
            {[Call("flush", page, "save") EXCEPT
                !.answers = screen.answers, !.pending = DOMAIN screen.answers]})
  /\ UNCHANGED <<server, stores, typed, overwritten, inputs>>

Ends(t) == task' = [task EXCEPT ![t] = NoTask]

(* An update of the screen's state by call t; that of a screen that is gone
   shows nowhere. *)
Sets(t, new) == screen' = IF Mine(t) THEN new ELSE screen

Removed(s) ==
  /\ local' = [local EXCEPT ![s] = NoEntries]
  /\ cache' = [cache EXCEPT ![s] = NoCache]

CacheRemoved(s) == cache' = [cache EXCEPT ![s] = NoCache] /\ UNCHANGED local

(* showTimeUpModalFallback *)
TimeUpFallback(t, s) ==
  /\ Removed(s)
  /\ Sets(t, [screen EXCEPT !.autoSubmitted = TRUE, !.timeUp = TRUE,
                            !.submitting = FALSE])
  /\ Ends(t)
  /\ UNCHANGED page

(* redirectToActiveSubtest: the server says which subtest is active. *)
RedirectToActive(t) ==
  /\ CacheRemoved(task[t].at)
  /\ Arrive(task[t].active, t)

(* The screen, else as in new, shows sheet; the effects that follow store it. *)
Shows(new, s, sheet) ==
  /\ screen' = [new EXCEPT !.answers = sheet, !.armed = Unsynced(sheet) # {},
                              !.loaded = TRUE, !.backend = s]
  /\ local' = [local EXCEPT ![s] = sheet]
  /\ cache' = [cache EXCEPT ![s] = sheet]

(***************************************************************************)
(* loadQuestions.                                                          *)
(***************************************************************************)
Got(t, kind, step, nets) ==
  task[t].kind = kind /\ task[t].step = step /\ task[t].net \in nets

Sends(t, step) == task' = [task EXCEPT ![t].step = step, ![t].net = "sent"]

(* Faulty: it goes on without an active subtest. *)
LoadNoAttemptUnchecked(t) ==
  /\ Got(t, "load", "current", {"none", "fail"})
  /\ Arrive(task[t].active, t)
  /\ UNCHANGED <<server, stores, late, typed, overwritten, bounds>>

LoadNoAttempt(t) ==
  /\ Got(t, "load", "current", {"none", "fail"})
  /\ Arrive(Dashboard, t)
  /\ UNCHANGED <<server, stores, late, typed, overwritten, bounds>>

(* decodeRuntimeCache: what is there is what a screen of this subtest stored. *)
HasCache(s) == cache[s] # NoCache

LoadOtherSubtest(t) ==
  LET s == task[t].at
  IN  /\ Got(t, "load", "current", {"ok"})
      /\ task[t].active # s
      /\ IF HasCache(s) /\ Expired(s)
           THEN /\ Removed(s)
                /\ Sets(t, [screen EXCEPT !.backend = task[t].active,
                                          !.autoSubmitted = TRUE, !.timeUp = TRUE])
                /\ Ends(t)
                /\ UNCHANGED page
           ELSE RedirectToActive(t)
      /\ UNCHANGED <<server, late, typed, overwritten, bounds>>

(* What this browser has goes over what the server or the cache has. *)
Merged(s, below) == Spread(below, local[s])

(* The runtime cache is not older than 20 minutes. *)
LoadFromCache(t) ==
  LET s == task[t].at
  IN  /\ Got(t, "load", "current", {"ok"})
      /\ task[t].active = s
      /\ HasCache(s)
      /\ IF Mine(t) THEN Shows(screen, s, Merged(s, cache[s]))
         ELSE UNCHANGED <<screen, stores>>
      /\ Ends(t)
      /\ UNCHANGED <<server, page, late, typed, overwritten, bounds>>

LoadFromServer(t) ==
  /\ Got(t, "load", "current", {"ok"})
  /\ task[t].active = task[t].at
  /\ Sets(t, [screen EXCEPT !.backend = task[t].at])
  /\ Sends(t, "start")
  /\ UNCHANGED <<server, stores, page, late, typed, overwritten, bounds>>

LoadStarted(t) ==
  /\ Got(t, "load", "start", {"ok"})
  /\ Sends(t, "soal")
  /\ UNCHANGED <<server, stores, page, screen, late, typed, overwritten, bounds>>

LoadFinished(t) ==
  /\ Got(t, "load", "soal", {"ok"})
  /\ IF Mine(t) THEN Shows(screen, task[t].at, Merged(task[t].at, task[t].answers))
     ELSE UNCHANGED <<screen, stores>>
  /\ Ends(t)
  /\ UNCHANGED <<server, page, late, typed, overwritten, bounds>>

(* The screen stays empty, with an error, or leaves; a stale call does nothing. *)
LoadFails(t) ==
  /\ \/ Got(t, "load", "start", {"order", "over", "auth", "fail"})
     \/ Got(t, "load", "soal", {"fail"})
  /\ IF ~Mine(t) \/ task[t].net = "fail"
       THEN Ends(t) /\ UNCHANGED <<stores, page, screen>>
     ELSE IF task[t].net = "order" THEN RedirectToActive(t)
     ELSE /\ Arrive(IF task[t].net = "auth" THEN Login ELSE Dashboard, t)
          /\ UNCHANGED stores
  /\ UNCHANGED <<server, late, typed, overwritten, bounds>>

Load(t) ==
  \/ LoadNoAttempt(t) \/ LoadOtherSubtest(t) \/ LoadFromCache(t)
  \/ LoadFromServer(t) \/ LoadStarted(t) \/ LoadFinished(t) \/ LoadFails(t)

(***************************************************************************)
(* The participant answers: setAnswerValue.  Nothing is disabled while a   *)
(* call is under way.                                                      *)
(***************************************************************************)
Answer(q, a) ==
  /\ Mounted /\ screen.loaded /\ ~screen.timeUp
  /\ Input
  /\ Shows(screen, page, Written(screen.answers, q, a))
  /\ typed' = [typed EXCEPT ![page] =
       [x \in {q} \cup DOMAIN @ |-> IF x = q THEN a ELSE @[x]]]
  /\ UNCHANGED <<server, page, task, late, overwritten, faults>>

(***************************************************************************)
(* flushDirtyAnswers: pending is fixed, and what it sends captured, when   *)
(* it is called; when it is back pending is marked in the answers of then. *)
(***************************************************************************)
(* Faulty: the sheet that was captured comes back. *)
MarkedSheetCaptured(t) == Marked(task[t].answers, task[t].pending)

MarkedSheet(t) == Marked(screen.answers, task[t].pending)

Flush(t, pending, new) ==
  IF pending = {}
    THEN UNCHANGED <<screen, task, stores>>
  ELSE IF DOMAIN Payload(screen.answers, pending) = {}
    THEN /\ Shows([new EXCEPT !.flushed = TRUE], page, Marked(screen.answers, pending))
         /\ UNCHANGED task
  ELSE /\ Free(t)
       /\ task' = [task EXCEPT ![t] = [Call("flush", page, "save") EXCEPT
                      !.answers = screen.answers, !.pending = pending]]
       /\ screen' = new
       /\ UNCHANGED stores

(* 4 s after the last change of the answers; less than 6 s after the last save
   it does nothing, and is not set again. *)
Debounce(t) ==
  /\ Mounted /\ screen.armed
  /\ LET new == [screen EXCEPT !.armed = FALSE]
     IN  \/ Flush(t, Unsynced(screen.answers), new)
         \/ /\ screen.flushed
            /\ screen' = new
            /\ UNCHANGED <<task, stores>>
  /\ UNCHANGED <<server, page, late, typed, overwritten, bounds>>

(* The tab is hidden: everything is saved. *)
Hide(t) ==
  /\ Mounted
  /\ Input
  /\ Flush(t, DOMAIN screen.answers, screen)
  /\ UNCHANGED <<server, page, late, typed, overwritten, faults>>

(* Every answer in w is in the sheet. *)
Has(sheet, w) == \A q \in DOMAIN w : q \in DOMAIN sheet /\ sheet[q].jawaban = w[q]

(* The update that marks pending stores the sheet itself (persistAnswers).  For a
   screen that is gone React computes it at once when the component has no other
   update left, and never else; it is given what that screen showed last. *)
SavedGone(t) ==
  LET s == task[t].at
      sheet == Marked(task[t].left, task[t].pending)
  IN  /\ \/ UNCHANGED <<local, overwritten>>
         \/ /\ local' = [local EXCEPT ![s] = sheet]
            /\ overwritten' = overwritten \cup {x \in {s} : ~Has(sheet, typed[x])}
      /\ UNCHANGED <<screen, cache>>

(* The save came back, for a flush of its own or as a submit's first half. *)
Saved(t) ==
  IF Mine(t)
    THEN /\ Shows([screen EXCEPT !.flushed = TRUE], task[t].at, MarkedSheet(t))
         /\ UNCHANGED overwritten
    ELSE SavedGone(t)

FlushDone(t) ==
  /\ Got(t, "flush", "save", {"ok"})
  /\ Saved(t)
  /\ Ends(t)
  /\ UNCHANGED <<server, page, late, typed, bounds>>

SaveRefused(t) ==
  /\ Saves(task[t])
  /\ task[t].net \in {"order", "over", "fail"}
  /\ CASE task[t].net = "order" /\ (task[t].by # "user" \/ Expired(task[t].at)) ->
             TimeUpFallback(t, task[t].at)
       [] task[t].net = "order" /\ task[t].by = "user" /\ ~Expired(task[t].at) ->
             RedirectToActive(t)
       [] task[t].net = "over" ->
             Arrive(Dashboard, t) /\ UNCHANGED stores
       [] OTHER ->
             /\ Sets(t, [screen EXCEPT !.submitting = @ /\ task[t].kind # "submit"])
             /\ Ends(t)
             /\ UNCHANGED <<stores, page>>
  /\ UNCHANGED <<server, late, typed, overwritten, bounds>>

(***************************************************************************)
(* submitCurrentSubtest: save everything, then submit what was captured.   *)
(***************************************************************************)
Dest(s) == IF s = NumSubtests THEN Progress ELSE Dashboard

(* What the participant has put in here, where it has not been lost. *)
Entered ==
  IF screen.loaded /\ page \notin overwritten THEN typed[page] ELSE NothingTyped

Submit(t, by, new) ==
  LET c == [Call("submit", screen.backend, "save") EXCEPT
              !.answers = screen.answers, !.pending = DOMAIN screen.answers,
              !.by = by, !.wanted = Entered]
      begun == [new EXCEPT !.submitting = TRUE]
      nothing == DOMAIN Carried(c) = {}
  IN  /\ Free(t)
      /\ IF nothing /\ DOMAIN screen.answers # {}
           THEN Shows(begun, page, Marked(screen.answers, c.pending))
           ELSE screen' = begun /\ UNCHANGED stores
      /\ task' = [task EXCEPT ![t] =
           IF nothing THEN [c EXCEPT !.step = "submit"] ELSE c]

(* The button is there while questions are loading and when they failed to:
   no question is unanswered then. *)
Finish(t) ==
  /\ Mounted /\ screen.backend # 0
  /\ Input
  /\ ~screen.submitting /\ ~screen.timeUp
  /\ screen.loaded /\ ~TimeIsUp => Unanswered(screen.answers) = {}
  /\ Submit(t, IF TimeIsUp THEN "late" ELSE "user", screen)
  /\ UNCHANGED <<server, page, late, typed, overwritten, faults>>

AutoSubmit(t) ==
  /\ Mounted /\ TimeIsUp
  /\ ~screen.submitting /\ ~screen.autoSubmitted
  /\ Submit(t, "timer", [screen EXCEPT !.autoSubmitted = TRUE])
  /\ UNCHANGED <<server, page, late, typed, overwritten, bounds>>

SubmitSaved(t) ==
  /\ Got(t, "submit", "save", {"ok"})
  /\ Saved(t)
  /\ Sends(t, "submit")
  /\ UNCHANGED <<server, page, late, typed, bounds>>

(* Faulty: a submit of the timer that failed counts as sent. *)
ClosedNetsAny(by) ==
  {"ok", "committed", "over"} \cup (IF by = "user" THEN {} ELSE {"order", "fail"})

(* The answers that tell the screen that the subtest is closed. *)
ClosedNets(by) ==
  {"ok", "committed", "over"} \cup (IF by = "user" THEN {} ELSE {"order"})

SubmitClosed(t) ==
  /\ Got(t, "submit", "submit", ClosedNets(task[t].by))
  /\ Removed(task[t].at)
  /\ IF task[t].by = "timer"
       THEN /\ Sets(t, [screen EXCEPT !.timeUp = TRUE, !.submitting = FALSE])
            /\ Ends(t)
            /\ UNCHANGED page
       ELSE Arrive(Dest(task[t].at), t)
  /\ UNCHANGED <<server, late, typed, overwritten, bounds>>

SubmitRefused(t) ==
  /\ Got(t, "submit", "submit", {"order", "auth", "fail"} \ ClosedNets(task[t].by))
  /\ CASE task[t].net = "order" -> RedirectToActive(t)
       [] task[t].net = "auth"  -> Arrive(Login, t) /\ UNCHANGED stores
       [] task[t].net = "fail"  ->
            /\ Sets(t, [screen EXCEPT !.submitting = FALSE])
            /\ Ends(t)
            /\ UNCHANGED <<stores, page>>
  /\ UNCHANGED <<server, late, typed, overwritten, bounds>>

(* returnToDashboardAfterTimeUp *)
ReturnToDashboard(t) ==
  /\ Mounted /\ screen.timeUp /\ Free(t)
  /\ Arrive(Dest(screen.backend), t)
  /\ UNCHANGED <<server, stores, late, typed, overwritten, bounds>>

(***************************************************************************)
(* submitAnswersAndLogout: what there is is submitted, complete or not; if *)
(* that fails the participant is logged out all the same.                  *)
(***************************************************************************)
Logout(t) ==
  /\ Mounted /\ Free(t)
  /\ Input
  /\ ~screen.loggingOut /\ ~screen.timeUp
  /\ task' = [task EXCEPT ![t] =
       [Call("logout", screen.backend, IF screen.backend = 0 THEN "logout" ELSE "submit")
          EXCEPT !.answers = screen.answers, !.pending = DOMAIN screen.answers,
                 !.wanted = Entered]]
  /\ screen' = [screen EXCEPT !.loggingOut = TRUE]
  /\ IF screen.backend = 0 THEN CacheRemoved(page) ELSE UNCHANGED stores
  /\ UNCHANGED <<server, page, late, typed, overwritten, faults>>

LogoutSubmitted(t) ==
  /\ Got(t, "logout", "submit", Nets \ {"sent"})
  /\ IF task[t].net = "ok" THEN Removed(task[t].at) ELSE UNCHANGED stores
  /\ Sends(t, "logout")
  /\ UNCHANGED <<server, page, screen, late, typed, overwritten, bounds>>

LogoutFails(t) ==
  /\ Got(t, "logout", "logout", {"fail"})
  /\ Sets(t, [screen EXCEPT !.loggingOut = FALSE])
  /\ Ends(t)
  /\ UNCHANGED <<server, stores, page, late, typed, overwritten, bounds>>

(* window.location.replace unloads whatever page is shown. *)
LoggedOut(t) ==
  /\ Got(t, "logout", "logout", {"ok"})
  /\ page' = Login
  /\ Unload({task[x] : x \in Slots})
  /\ UNCHANGED <<server, stores, typed, overwritten, bounds>>

Returns(t) ==
  \/ Load(t) \/ FlushDone(t) \/ SaveRefused(t)
  \/ SubmitSaved(t) \/ SubmitClosed(t) \/ SubmitRefused(t)
  \/ LogoutSubmitted(t) \/ LogoutFails(t) \/ LoggedOut(t)

Participant(t) ==
  \/ \E s \in Subtests : Open(s, t)
  \/ NavigateToQuestion(t) \/ Hide(t) \/ Finish(t) \/ ReturnToDashboard(t) \/ Logout(t)

Next ==
  \/ \E t \in Slots : Answered(t) \/ Fails(t) \/ Returns(t)
  \/ \E t \in Slots : Participant(t) \/ Debounce(t) \/ AutoSubmit(t)
  \/ \E q \in Soal : \E a \in Edits(q, Jawaban(screen.answers, q)) : Answer(q, a)
  \/ PageHide \/ ArrivesLate \/ DeviceSubmits
  \/ \E q \in Soal : \E wire \in Wires(q) : DeviceSaves(q, wire)
  \/ \E s \in Subtests : TimePasses(s)

Spec == Init /\ [][Next]_vars

(***************************************************************************)
(* Properties.                                                             *)
(***************************************************************************)

(* "Jawaban tetap tersimpan lokal" (the screen, when saving failed): as long as
   the attempt is in a subtest, localStorage has what the participant last put
   in there.  It can only have been lost to the save of a screen that is gone;
   nothing else loses any of it, whatever calls are under way, fail or come back
   late, and whatever the server or the cache has: not a load, a submit, a
   removal or a save of the screen that is shown. *)
LostOnlyToGone ==
  active \in Subtests \ overwritten => Has(local[active], typed[active])

(* A submit from a loaded screen that closes the subtest leaves the server
   with everything that had been put in when the participant, the timer or the
   logout called it, also what was edited during a save and then marked as
   synced.  An answer that was taken back is not part of it, and nothing is said
   of a subtest where a gone screen's write had lost something by then. *)
Commits(t) ==
  /\ task[t].kind # "none" /\ task[t].net = "sent" /\ task[t].step = "submit"
  /\ task'[t].net # "sent"
  /\ active = task[t].at /\ active' = task[t].at + 1
  /\ Reconciled = active
HandedIn(t) ==
  \A q \in DOMAIN task[t].wanted :
    LET wire == ToPayload(q, task[t].wanted[q])
    IN  wire # {} => saved'[task[t].at][q] = wire
HandsInAll == [][\A t \in Slots : Commits(t) => HandedIn(t)]_vars

(* The modal that ends a subtest is never over a subtest that is still open. *)
TimeUpMeansClosed == Mounted /\ screen.timeUp => active > page

(* "Selesaikan dulu semua soal sebelum finish attempt": what a participant who
   finishes in time hands in has an answer to every question. *)
FinishIsComplete ==
  [][\A t \in Slots :
       Commits(t) /\ task[t].kind = "submit" /\ task[t].by = "user" =>
         \A q \in Soal : saved'[task[t].at][q] # {}]_vars
=============================================================================
