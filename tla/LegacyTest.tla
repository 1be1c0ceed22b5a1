----------------------------- MODULE LegacyTest ------------------------------
(***************************************************************************)
(* The pages that lead into a test, and the older test screen of the web   *)
(* client (answer-card.tsx): /tryout/<subtest> with its rules and start    *)
(* button, /tryout/intro, and /tryout/soal/<number> within its layout.     *)
(*                                                                         *)
(* A page loads in several calls, each of which may start the attempt or   *)
(* the clock of a subtest, and may lead to another page.  The layout of    *)
(* the test fixes, once, the subtest, its limit and the answers the server *)
(* had; each question number mounts an answer card of its own.  The card's *)
(* limit is the server's less one minute of grace.                         *)
(*                                                                         *)
(* The server is the one of Exam, for one user: the time of a subtest is   *)
(* running, in its last minute (grace) or over.                            *)
(***************************************************************************)
EXTENDS AnswerSheet

CONSTANTS
  NumSubtests,
  LastSoal,      \* the question the submit button is at
  Slots,         \* the calls that can be under way at once
  NoItem,        \* localStorage has no item
  MaxInputs,     \* bound: how often the participant does something
  MaxFaults      \* bound: how many calls fail

Subtests == 1 .. NumSubtests

ASSUME LegacyAssumption ==
  /\ NumSubtests \in Nat \ {0}
  /\ IsFiniteSet(Slots)
  /\ LastSoal \in Soal

VARIABLES
  active,   \* subtest_sekarang; 0 without an attempt, NumSubtests + 1 after it
  phase,    \* phase[s]: new, running, grace, over
  saved,    \* saved[s][q]: the answer in user_answers, {} for none
  local,    \* local[s]: the item tryout_answers_<s> of localStorage
  tab,      \* the page shown or loading, and the state of its components
  task,     \* task[t]: the calls under way
  tried,    \* history: the subtests a submit was called for
  inputs, faults

server == <<active, phase, saved>>
bounds == <<inputs, faults>>
vars == <<server, local, tab, task, tried, bounds>>

(* An answer is a set: the chosen option, the statements that are true, or
   the text.  The empty one stands for null and ''. *)
Named(q) ==
  BackendSoal[q].pilihan_ganda \cup BackendSoal[q].true_false \cup BackendSoal[q].uraian
Values == UNION {SUBSET Named(q) : q \in Soal}
Sheets == UNION {[Q -> [jawaban : Values, synced : BOOLEAN]] : Q \in SUBSET Soal}

ASSUME NoItemAssumption == NoItem \notin Sheets

Pages == {"dashboard", "slug", "intro", "test", "screen", "login"}

(* at: the subtest of the page.  initial: initialAnswers.  leaving: a
   router.push('/dashboard') has not come to its end.  offer: the subtest the
   dashboard's start button leads to, 0 where there is none.  ids: the answer
   that the question of the card shows (trueAnswerIds, selectedAnswer, text).
   emitted: lastEmittedAnswer.  reverted is history: a sync has changed the
   answer to the card's question. *)
Fresh(page, s) ==
  [page |-> page, at |-> s, shown |-> FALSE, starting |-> FALSE,
   initial |-> NoEntries, answers |-> NoEntries, soal |-> LastSoal,
   grace |-> FALSE, submitting |-> FALSE, syncing |-> FALSE,
   hasSubmitted |-> FALSE, leaving |-> FALSE, offer |-> 0,
   ids |-> {}, emitted |-> {}, reverted |-> FALSE]

Settled(page) == [Fresh(page, 1) EXCEPT !.shown = TRUE]

Kinds == {"none", "slug", "begin", "intro", "test", "sync", "submit"}
Steps == {"finished", "current", "attempt", "start", "soal", "save", "submit"}
Nets == {"sent", "ok", "none", "refused", "auth", "fail"}

(* mine: the component that called is still mounted.  sheet: the answers sent,
   then those that came back.  left: what the card of a sync had when it was
   gone.  shown is history: the answers the test showed when a submit was
   called. *)
NoTask ==
  [kind |-> "none", mine |-> FALSE, at |-> 1, step |-> "current", net |-> "sent",
   began |-> FALSE, active |-> 0, sheet |-> NoEntries, left |-> NoEntries,
   shown |-> NoEntries]

Call(kind, s, step) ==
  [NoTask EXCEPT !.kind = kind, !.mine = TRUE, !.at = s, !.step = step]

TypeOK ==
  /\ active \in 0 .. NumSubtests + 1
  /\ phase \in [Subtests -> {"new", "running", "grace", "over"}]
  /\ saved \in [Subtests -> [Soal -> Values]]
  /\ local \in [Subtests -> Sheets \cup {NoItem}]
  /\ tab.page \in Pages /\ tab.at \in Subtests /\ tab.soal \in Soal
  /\ tab.answers \in Sheets /\ tab.initial \in Sheets
  /\ tab.offer \in 0 .. NumSubtests
  /\ tab.ids \in Values /\ tab.emitted \in Values
  /\ tried \subseteq Subtests
  /\ \A t \in Slots :
       /\ task[t].kind \in Kinds /\ task[t].step \in Steps /\ task[t].net \in Nets
       /\ task[t].at \in Subtests /\ task[t].sheet \in Sheets
       /\ task[t].left \in Sheets

(***************************************************************************)
(* The dashboard (dashboard/page.tsx).  Three calls draw it, each of which *)
(* may fail; none of them notices that the time of a subtest is up.        *)
(***************************************************************************)

(* Faulty: the subtest in hand counts as one that is done. *)
ProgressRowsAhead ==
  [s \in Subtests |->
     [done    |-> active # 0 /\ s <= active,
      current |-> s = active + 1,
      locked  |-> IF active \in Subtests THEN s > active + 1 ELSE active = 0 /\ s > 1]]

(* GetSubtestsProgress: a row for each subtest. *)
ProgressRows ==
  [s \in Subtests |->
     [done    |-> s < active,
      current |-> s = active,
      locked  |-> IF active \in Subtests THEN s > active ELSE active = 0 /\ s > 1]]

(* resolveNextTryoutRoute: the current subtest, else the first that is open,
   else the first of all. *)
NextTryoutRoute(rows) ==
  LET open == {s \in Subtests : ~rows[s].locked /\ ~rows[s].done}
      current == {s \in open : rows[s].current}
      target == IF current # {} THEN current ELSE open
  IN  IF target = {} THEN 1 ELSE CHOOSE s \in target : \A x \in target : s <= x

(* TryoutBanner: no button after the attempt, unless a call has failed. *)
Offers == {1} \cup (IF active > NumSubtests THEN {0} ELSE {NextTryoutRoute(ProgressRows)})

Draws(page) ==
  IF page = "dashboard" THEN {[Settled(page) EXCEPT !.offer = s] : s \in Offers}
  ELSE {Settled(page)}

(* The tab is opened before, during or after an attempt; what it had in
   localStorage from another one is left out. *)
Init ==
  /\ active \in 0 .. NumSubtests + 1
  /\ \E now \in {"new", "running"}, v \in Values :
       /\ phase = [s \in Subtests |-> IF s < active THEN "over"
                                      ELSE IF s = active THEN now ELSE "new"]
       /\ saved = [s \in Subtests |-> [q \in Soal |->
                     IF s = active /\ now = "running" /\ v \subseteq Items(q) THEN v ELSE {}]]
  /\ local = [s \in Subtests |-> NoItem]
  /\ tab \in Draws("dashboard")
  /\ task = [t \in Slots |-> NoTask]
  /\ tried = {}
  /\ inputs = 0
  /\ faults = 0

Input == inputs < MaxInputs /\ inputs' = inputs + 1

(***************************************************************************)
(* The server.                                                             *)
(***************************************************************************)
Reconciled ==
  IF active \in Subtests /\ phase[active] = "over" THEN active + 1 ELSE active

(* Faulty: an attempt that is over is a current one. *)
VerdictAny(c) ==
  CASE c.step = "finished" -> IF active > NumSubtests THEN "ok" ELSE "none"
    [] c.step = "current"  -> IF Reconciled # 0 THEN "ok" ELSE "none"
    [] c.step = "attempt"  -> IF active = 0 THEN "ok" ELSE "refused"
    [] c.step = "soal"     -> "ok"
    [] OTHER               -> IF Reconciled = c.at THEN "ok" ELSE "refused"

Verdict(c) ==
  CASE c.step = "finished" -> IF active > NumSubtests THEN "ok" ELSE "none"
    [] c.step = "current"  -> IF Reconciled \in Subtests THEN "ok" ELSE "none"
    [] c.step = "attempt"  -> IF active = 0 THEN "ok" ELSE "refused"
    [] c.step = "soal"     -> "ok"
    [] OTHER               -> IF Reconciled = c.at THEN "ok" ELSE "refused"

(* Empty answers are skipped. *)
Upsert(old, sheet) ==
  [q \in Soal |->
     IF q \in DOMAIN sheet /\ sheet[q].jawaban # {} THEN sheet[q].jawaban ELSE old[q]]

Serve(c) ==
  IF c.step \in {"finished", "soal"} THEN UNCHANGED server
  ELSE IF c.step = "attempt"
    THEN active' = (IF active = 0 THEN 1 ELSE active) /\ UNCHANGED <<phase, saved>>
  ELSE IF c.step = "current" \/ Reconciled # c.at
    THEN active' = Reconciled /\ UNCHANGED <<phase, saved>>
  ELSE /\ active' = IF c.step = "submit" THEN c.at + 1 ELSE c.at
       /\ phase' = [phase EXCEPT ![c.at] = IF @ = "new" THEN "running" ELSE @]
       /\ saved' = [saved EXCEPT ![c.at] = Upsert(@, c.sheet)]

(* The answers the server has, as the client keeps them. *)
Synced(answers) == [q \in {x \in Soal : answers[x] # {}} |-> Entry(answers[q], TRUE)]

(* fetchJson: the answer comes back, or is lost. *)
Answered(t) ==
  LET c == task[t]
  IN  /\ c.kind # "none" /\ c.net = "sent"
      /\ Serve(c)
      /\ \E net \in {Verdict(c), "fail"} :
           /\ net = "fail" => faults < MaxFaults
           /\ faults' = IF net = "fail" THEN faults + 1 ELSE faults
           /\ task' = [task EXCEPT ![t].net = net,
                         ![t].active = IF c.step = "current" /\ net = "ok" THEN Reconciled ELSE @,
                         ![t].sheet = IF c.step \in {"start", "save"} /\ net = "ok"
                                        THEN Synced(saved'[c.at])
                                      ELSE IF c.step = "soal" THEN @ ELSE NoEntries,
                         ![t].shown = NoEntries]
      /\ UNCHANGED <<local, tab, tried, inputs>>

(* The request does not get through; the session is over, which only the start
   button tells apart. *)
Fails(t) ==
  /\ task[t].kind # "none" /\ task[t].net = "sent"
  /\ faults < MaxFaults /\ faults' = faults + 1
  /\ \E net \in {"fail"} \cup (IF task[t].kind = "begin" THEN {"auth"} ELSE {}) :
       task' = [task EXCEPT ![t].net = net, ![t].sheet = NoEntries, ![t].shown = NoEntries]
  /\ UNCHANGED <<server, local, tab, tried, inputs>>

TimePasses(s) ==
  /\ \/ phase[s] = "running" /\ phase' = [phase EXCEPT ![s] = "grace"]
     \/ phase[s] = "grace" /\ phase' = [phase EXCEPT ![s] = "over"]
  /\ UNCHANGED <<active, saved, local, tab, task, tried, bounds>>

(***************************************************************************)
(* Going from page to page.                                                *)
(***************************************************************************)
(* The slots are alike: of the free ones the first will do. *)
Free(t) == task[t].kind = "none" /\ t = CHOOSE x \in Slots : task[x].kind = "none"
Mine(t) == task[t].mine

(* The call c when the component that made it is gone. *)
Orphaned(c) ==
  [c EXCEPT !.mine = FALSE, !.left = IF c.mine /\ c.kind = "sync" THEN tab.answers ELSE @]

FirstStep(page) == IF page = "test" THEN "finished" ELSE "current"

(* The tab shows page, which call t, if it loads anything, begins to load.
   What was mounted is not any more; its calls go on. *)
Goes(page, s, t) ==
  /\ tab' \in IF page \in {"slug", "intro", "test"} THEN {Fresh(page, s)} ELSE Draws(page)
  /\ task' = [x \in Slots |->
       IF x = t
         THEN IF page \in {"slug", "intro", "test"} THEN Call(page, s, FirstStep(page))
              ELSE NoTask
         ELSE Orphaned(task[x])]

Ends(t) == task' = [task EXCEPT ![t] = NoTask]
Sends(t, step) == task' = [task EXCEPT ![t].step = step, ![t].net = "sent"]

(* startTryout. *)
SendsAttempt(t) == Sends(t, "attempt")

Got(t, kind, step) == task[t].kind = kind /\ task[t].step = step /\ task[t].net # "sent"

(* The participant goes to a page, and waits for one the web server renders;
   the page of a subtest is there before it has loaded. *)
Visit(page, s, t) ==
  /\ tab.shown \/ tab.page = "slug"
  /\ Free(t)
  /\ Input
  /\ Goes(page, s, t)
  /\ UNCHANGED <<server, local, tried, faults>>

(* The start button of the dashboard, of when that was drawn. *)
FollowOffer(t) ==
  /\ tab.page = "dashboard" /\ tab.offer # 0
  /\ Visit("slug", tab.offer, t)

(* router.push('/dashboard') is through. *)
Left ==
  /\ tab.leaving
  /\ tab' \in Draws("dashboard")
  /\ task' = [t \in Slots |-> Orphaned(task[t])]
  /\ UNCHANGED <<server, local, tried, bounds>>

(***************************************************************************)
(* /tryout/<subtest>: loadCurrentTryoutState.  Without an attempt it makes *)
(* one and asks again.  That there is none, even so, it acts on after the  *)
(* page is gone.                                                           *)
(***************************************************************************)
SlugCurrent(t) ==
  /\ Got(t, "slug", "current")
  /\ CASE task[t].net = "ok" /\ task[t].active # task[t].at /\ Mine(t) ->
            Goes("slug", task[t].active, t)
       [] task[t].net = "ok" /\ (task[t].active = task[t].at \/ ~Mine(t)) ->
            Ends(t) /\ tab' = IF Mine(t) THEN [tab EXCEPT !.shown = TRUE] ELSE tab
       [] task[t].net # "ok" /\ ~task[t].began ->
            SendsAttempt(t) /\ UNCHANGED tab
       [] OTHER -> Goes("intro", 1, t)
  /\ UNCHANGED <<server, local, tried, bounds>>

(* Faulty: the page goes on preparing the subtest. *)
SlugAttemptHangs(t) ==
  /\ Got(t, "slug", "attempt")
  /\ IF task[t].net = "ok"
       THEN /\ task' = [task EXCEPT ![t].step = "current", ![t].net = "sent", ![t].began = TRUE]
            /\ UNCHANGED tab
       ELSE Ends(t) /\ UNCHANGED tab
  /\ UNCHANGED <<server, local, tried, bounds>>

(* The attempt there is, ongoing or over, is an error here. *)
SlugAttempt(t) ==
  /\ Got(t, "slug", "attempt")
  /\ IF task[t].net = "ok"
       THEN /\ task' = [task EXCEPT ![t].step = "current", ![t].net = "sent", ![t].began = TRUE]
            /\ UNCHANGED tab
       ELSE Ends(t) /\ tab' = IF Mine(t) THEN [tab EXCEPT !.shown = TRUE] ELSE tab
  /\ UNCHANGED <<server, local, tried, bounds>>

(* handleStartTryout: once the rules are agreed to. *)
Begin(t) ==
  /\ tab.page = "slug" /\ tab.shown /\ ~tab.starting /\ Free(t)
  /\ Input
  /\ tab' = [tab EXCEPT !.starting = TRUE]
  /\ task' = [task EXCEPT ![t] = Call("begin", tab.at, "start")]
  /\ UNCHANGED <<server, local, tried, faults>>

Begun(t) ==
  /\ Got(t, "begin", "start")
  /\ CASE task[t].net = "ok"   -> Goes("screen", 1, t)
       [] task[t].net = "auth" -> Goes("login", 1, t)
       [] OTHER -> Ends(t) /\ tab' = IF Mine(t) THEN [tab EXCEPT !.starting = FALSE] ELSE tab
  /\ UNCHANGED <<server, local, tried, bounds>>

(***************************************************************************)
(* /tryout/intro and the layout of the test run on the web server: when    *)
(* the tab is elsewhere, what they come to is not shown.                   *)
(***************************************************************************)
GoesIfMine(page, t) ==
  IF Mine(t) THEN Goes(page, 1, t) ELSE Ends(t) /\ UNCHANGED tab

(* startSubtest, which starts the clock. *)
SendsStart(t) ==
  /\ task' = [task EXCEPT ![t].step = "start", ![t].net = "sent", ![t].at = task[t].active,
                              ![t].active = 0]
  /\ UNCHANGED tab

IntroStep(t) ==
  /\ task[t].kind = "intro" /\ task[t].net # "sent"
  /\ CASE task[t].step = "current" /\ task[t].net = "ok" -> SendsStart(t)
       [] task[t].step = "current" /\ task[t].net # "ok" /\ ~task[t].began ->
            SendsAttempt(t) /\ UNCHANGED tab
       [] task[t].step = "attempt" /\ task[t].net = "ok" ->
            /\ task' = [task EXCEPT ![t].step = "current", ![t].net = "sent", ![t].began = TRUE]
            /\ UNCHANGED tab
       [] task[t].step = "start" /\ task[t].net = "ok" ->
            Ends(t) /\ tab' = IF Mine(t) THEN [tab EXCEPT !.shown = TRUE] ELSE tab
       [] OTHER -> GoesIfMine("dashboard", t)
  /\ UNCHANGED <<server, local, tried, bounds>>

LayoutStep(t) ==
  /\ task[t].kind = "test" /\ task[t].net # "sent"
  /\ task[t].step = "soal" => task[t].net # "ok"
  /\ CASE task[t].step = "finished" /\ task[t].net # "ok" ->
            Sends(t, "current") /\ UNCHANGED tab
       [] task[t].step = "current" /\ task[t].net = "ok" -> SendsStart(t)
       [] task[t].step = "current" /\ task[t].net # "ok" -> GoesIfMine("intro", t)
       [] task[t].step = "start" /\ task[t].net = "ok" ->
            Sends(t, "soal") /\ UNCHANGED tab
       [] OTHER -> GoesIfMine("dashboard", t)
  /\ UNCHANGED <<server, local, tried, bounds>>

(* What a card has for its question. *)
SavedAnswer(card) ==
  IF card.soal \in DOMAIN card.answers THEN card.answers[card.soal].jawaban ELSE {}

(* The initial load of an answer card: what localStorage has, else what the
   layout was given. *)
Mounts(new) ==
  LET item == local[new.at]
      card == [new EXCEPT !.answers = IF item = NoItem THEN new.initial ELSE item]
  IN  /\ tab' = [card EXCEPT !.ids = SavedAnswer(card), !.emitted = {}, !.reverted = FALSE]
      /\ local' = [local EXCEPT ![new.at] =
           IF @ = NoItem /\ DOMAIN new.initial # {} THEN new.initial ELSE @]

LayoutDone(t) ==
  /\ Got(t, "test", "soal") /\ task[t].net = "ok"
  /\ Ends(t)
  /\ IF Mine(t)
       THEN Mounts([tab EXCEPT !.shown = TRUE, !.at = task[t].at, !.initial = task[t].sheet])
       ELSE UNCHANGED <<tab, local>>
  /\ UNCHANGED <<server, tried, bounds>>

(***************************************************************************)
(* The answer card.                                                        *)
(***************************************************************************)
Testing == tab.page = "test" /\ tab.shown

(* Another question number: a card of its own.  It takes the place of a page
   that was to come. *)
Turns(q) ==
  /\ Testing /\ q # tab.soal
  /\ Input
  /\ Mounts([Fresh("test", tab.at) EXCEPT !.shown = TRUE, !.initial = tab.initial, !.soal = q])
  /\ task' = [t \in Slots |-> Orphaned(task[t])]
  /\ UNCHANGED <<server, tried, faults>>

(* The card's links back and on, which are dead in the grace period. *)
Move(q) == ~tab.grace /\ Turns(q)

(* The number in the carousel above it, which is not. *)
Pick(q) == Turns(q)

(* The card is only ever told of one variant. *)
Variant(q) ==
  IF BackendSoal[q].uraian # {} THEN "uraian"
  ELSE IF BackendSoal[q].true_false # {} THEN "true_false" ELSE "multiple_choice"

(* What one event makes of the answer old: an option picked, a statement ticked
   or unticked, the text changed. *)
Changes(q, old) ==
  CASE Variant(q) = "multiple_choice" -> {{o} : o \in BackendSoal[q].pilihan_ganda}
    [] Variant(q) = "true_false" ->
         ({old \cup {i} : i \in BackendSoal[q].true_false} \cup
          {old \ {i} : i \in BackendSoal[q].true_false}) \ {old}
    [] Variant(q) = "uraian" -> ({{}} \cup {{i} : i \in BackendSoal[q].uraian}) \ {old}

(* What the question shows it passes to its card, except that a rated question
   holds back the text of ids that it passed on last or that the card has.  Of
   several ids two orders are two texts. *)
PassesOn(card, v) ==
  \/ Variant(card.soal) # "true_false"
  \/ v \notin {card.emitted, SavedAnswer(card)}
  \/ Cardinality(v) > 1

HoldsBack(card, v) ==
  Variant(card.soal) = "true_false" /\ v \in {card.emitted, SavedAnswer(card)}

(* onAnswerChange: what the card has once v is passed on. *)
Emits(card, v) ==
  [card EXCEPT !.emitted = v, !.answers = Written(@, card.soal, v)]

(* An edit, and updateAnswer; it may happen while calls are under way. *)
UpdateAnswer(v) ==
  /\ Testing /\ ~tab.grace
  /\ Input
  /\ \/ /\ PassesOn(tab, v)
        /\ tab' = Emits([tab EXCEPT !.ids = v], v)
        /\ local' = [local EXCEPT ![tab.at] = tab'.answers]
     \/ /\ HoldsBack(tab, v)
        /\ tab' = [tab EXCEPT !.ids = v]
        /\ UNCHANGED local
  /\ UNCHANGED <<server, task, tried, faults>>

(* checkTime, each second: the card learns that its limit is reached. *)
GraceBegins ==
  /\ Testing /\ phase[tab.at] = "grace" /\ ~tab.grace /\ ~tab.hasSubmitted
  /\ tab' = [tab EXCEPT !.grace = TRUE]
  /\ UNCHANGED <<server, local, task, tried, bounds>>

(* No card's sync is under way.  A card syncs 3.5 minutes after it was mounted
   at the earliest and every 3.5 minutes then, and a call is given up after 12 s. *)
NoSync == \A x \in Slots : task[x].kind # "sync"

(* syncWithServer: what is in localStorage, not synced.  It does not wait for a
   submit. *)
Sync(t) ==
  /\ Testing /\ NoSync /\ Free(t)
  /\ local[tab.at] # NoItem /\ Unsynced(local[tab.at]) # {}
  /\ tab' = [tab EXCEPT !.syncing = TRUE]
  /\ task' = [task EXCEPT ![t] = [Call("sync", tab.at, "save") EXCEPT
       !.sheet = [q \in Unsynced(local[tab.at]) |-> local[tab.at][q]]]]
  /\ UNCHANGED <<server, local, tried, bounds>>

(* Faulty: the answers of now are taken for the ones that were saved. *)
MergedNow(t) ==
  [q \in DOMAIN tab.answers |->
     IF q \in DOMAIN task[t].sheet THEN [tab.answers[q] EXCEPT !.synced = TRUE]
     ELSE tab.answers[q]]

(* The server's answers replace those of now. *)
Merged(t) == Spread(tab.answers, task[t].sheet)

(* What becomes of the question when its card has new answers.  It shows the
   card's answer if that is another one.  A rated question that shows neither
   what it passed on last nor what the card now has passes on what it shows as
   well: from then on the two give each other the one answer and the other,
   without end, but in the grace period, when the card takes nothing. *)
Follows(card) ==
  LET now == SavedAnswer(card)
      taken == [card EXCEPT !.ids = now, !.reverted = TRUE]
  IN  IF now = SavedAnswer(tab) THEN {card}
      ELSE IF Variant(card.soal) # "true_false" \/ card.ids \in {card.emitted, now}
        THEN {taken}
      ELSE IF card.grace THEN {[taken EXCEPT !.emitted = card.ids]}
      ELSE {Emits(taken, card.ids), Emits([taken EXCEPT !.ids = card.ids], now)}

(* The card's answers are stored as they are computed.  Those of a card that is
   gone are computed only when it has no other update left, from what it had
   last: they are stored over what has been stored since. *)
SyncDone(t) ==
  /\ Got(t, "sync", "save")
  /\ Ends(t)
  /\ CASE ~Mine(t) -> /\ UNCHANGED tab
                      /\ \/ UNCHANGED local
                         \/ /\ task[t].net = "ok"
                            /\ local' = [local EXCEPT ![task[t].at] =
                                            Spread(task[t].left, task[t].sheet)]
       [] Mine(t) /\ task[t].net # "ok" ->
            tab' = [tab EXCEPT !.syncing = FALSE] /\ UNCHANGED local
       [] OTHER ->
            /\ tab' \in Follows([tab EXCEPT !.syncing = FALSE, !.answers = Merged(t)])
            /\ local' = [local EXCEPT ![tab.at] = tab'.answers]
  /\ UNCHANGED <<server, tried, bounds>>

(* Faulty: the callback has the answers of when the card was mounted. *)
StaleToSubmit == tab.initial

ToSubmit == tab.answers

(* A rated question that a sync has changed: an answer it passed on before it
   holds back when it is given again. *)
Doubtful == IF tab.reverted /\ Variant(tab.soal) = "true_false" THEN {tab.soal} ELSE {}

(* What the test shows: the answers of the card, and that of its question. *)
Shown ==
  [q \in (DOMAIN tab.answers \cup {tab.soal}) \ Doubtful |->
     IF q = tab.soal THEN tab.ids ELSE tab.answers[q].jawaban]

(* submitAllAnswers. *)
SubmitAllAnswers(t) ==
  /\ Testing /\ ~tab.hasSubmitted /\ Free(t)
  /\ tab' = [tab EXCEPT !.submitting = TRUE, !.syncing = TRUE]
  /\ task' = [task EXCEPT ![t] = [Call("submit", tab.at, "submit") EXCEPT
       !.sheet = ToSubmit, !.shown = Shown]]
  /\ tried' = tried \cup {tab.at}
  /\ UNCHANGED <<server, local>>

(* The button on the last question, or in the dialog of the grace period. *)
Submit(t) ==
  /\ tab.grace \/ tab.soal = LastSoal
  /\ ~tab.submitting /\ ~tab.syncing
  /\ Input
  /\ SubmitAllAnswers(t)
  /\ UNCHANGED faults

(* Faulty: the branch of the grace period hides it for good. *)
AutoSubmitHidden(t) ==
  /\ Testing /\ phase[tab.at] = "over" /\ ~tab.grace
  /\ SubmitAllAnswers(t)
  /\ UNCHANGED bounds

(* checkTime once the grace period is over, each second until it is submitted:
   the branch of the grace period hides its last five seconds. *)
AutoSubmit(t) ==
  /\ Testing /\ phase[tab.at] = "over"
  /\ SubmitAllAnswers(t)
  /\ UNCHANGED bounds

(* Submitted or not, the answers are dropped and the tab goes to the dashboard,
   from wherever it is. *)
SubmitReturns(t) ==
  /\ Got(t, "submit", "submit")
  /\ Ends(t)
  /\ local' = [local EXCEPT ![task[t].at] = NoItem]
  /\ tab' = IF Mine(t)
              THEN [tab EXCEPT !.submitting = FALSE, !.syncing = FALSE, !.leaving = TRUE,
                               !.hasSubmitted = @ \/ task[t].net = "ok"]
              ELSE [tab EXCEPT !.leaving = TRUE]
  /\ UNCHANGED <<server, tried, bounds>>

Returns(t) ==
  \/ SlugCurrent(t) \/ SlugAttempt(t) \/ Begun(t) \/ IntroStep(t)
  \/ LayoutStep(t) \/ LayoutDone(t) \/ SyncDone(t) \/ SubmitReturns(t)

Participant(t) ==
  \/ \E s \in Subtests : Visit("slug", s, t)
  \/ \E page \in {"intro", "test"} : Visit(page, 1, t)
  \/ FollowOffer(t) \/ Begin(t) \/ Submit(t)

Next ==
  \/ \E t \in Slots : Answered(t) \/ Fails(t) \/ Returns(t)
  \/ \E t \in Slots : Participant(t) \/ Sync(t) \/ AutoSubmit(t)
  \/ \E q \in Soal : Move(q) \/ Pick(q)
  \/ \E v \in Changes(tab.soal, tab.ids) : UpdateAnswer(v)
  \/ GraceBegins \/ Left
  \/ \E s \in Subtests : TimePasses(s)

(* A call ends within 12 s, its continuation runs, the second goes by, and a
   page that was pushed comes. *)
Spec ==
  /\ Init /\ [][Next]_vars
  /\ \A t \in Slots : WF_vars(Answered(t) \/ Returns(t))
  /\ WF_vars(\E t \in Slots : AutoSubmit(t))
  /\ WF_vars(Left)

(***************************************************************************)
(* Properties.                                                             *)
(***************************************************************************)

(* Before a submit is called, an answer that is marked as synced, so that no
   sync sends it again, is the one the server has, whatever was edited while
   a sync was under way and however often the card was mounted anew. *)
SyncedIsSaved ==
  Testing /\ tab.at \notin tried =>
    \A q \in DOMAIN tab.answers :
      tab.answers[q].synced => tab.answers[q].jawaban = saved[tab.at][q]

(* The submit that closes a subtest leaves the server with every answer that
   was shown when it was called, of the questions whose card is gone too: but
   for a rated question whose answer a sync has changed under the participant's
   eyes, of which the screen can show what the card was never told. *)
Commits(t) ==
  /\ task[t].kind = "submit" /\ task[t].net = "sent" /\ task'[t].net # "sent"
  /\ Reconciled = task[t].at /\ active' = task[t].at + 1
HandsInShown ==
  [][\A t \in Slots : Commits(t) =>
       \A q \in DOMAIN task[t].shown :
         LET v == task[t].shown[q] IN v # {} => saved'[task[t].at][q] = v]_vars

(* When the server's time for a subtest is over its test screen goes away,
   though its submit is refused: the participant is not kept at it. *)
TimeIsOver == Testing /\ phase[tab.at] = "over"
TimeUpLeaves == TimeIsOver ~> ~TimeIsOver

(* A page that loads comes to be shown, itself or the one it leads to. *)
LoadsEnd == ~tab.shown ~> tab.shown

(* The dashboard, however long ago it was drawn, whichever of its calls failed
   and whatever ran out meanwhile, offers no subtest before its turn. *)
NeverAhead == tab.offer > 1 => tab.offer <= active
=============================================================================
