---------------------------- MODULE CareerMatchUp ---------------------------
(***************************************************************************)
(* Career Match Up in the tabs of WebSession: the questionnaire            *)
(* (career-test.tsx), the route that hands it in and gives the browser the *)
(* identity its results are kept under (submit/route.ts), and the page     *)
(* with the result (result/page.tsx) and its carousel.                     *)
(*                                                                         *)
(* The calls pass through the middleware like all others, but              *)
(* minat-bakat-service knows a participant by the guest id alone.  Each    *)
(* attempt it stores is numbered; the latest of a guest is the result.     *)
(***************************************************************************)
EXTENDS WebSession, AlumniCarousel

CONSTANTS
  NumQuestions,
  QUESTIONS_PER_PAGE,
  Likert              \* the values of a choice

ASSUME CareerAssumption ==
  /\ NumQuestions \in Nat \ {0} /\ QUESTIONS_PER_PAGE \in Nat \ {0}
  /\ Likert # {} /\ Likert \subseteq 1 .. 5

Questions == 1 .. NumQuestions
TotalPages == (NumQuestions + QUESTIONS_PER_PAGE - 1) \div QUESTIONS_PER_PAGE

VARIABLES
  quiz,        \* quiz[t]: the questionnaire in tab t
  slide,       \* slide[t]: the carousel in tab t
  guests,      \* guest ids that were generated: 1 .. guests
  attempts,    \* attempts that were stored: 1 .. attempts
  latest,      \* latest[g]: the last attempt of guest g, 0 for none
  acked,       \* history: the last attempt that was confirmed to the browser
  overlapped   \* history: two tabs handed in without a guest id at once

serviceVars == <<guests, attempts, latest>>
careerVars == <<quiz, slide, serviceVars, acked, overlapped>>
vars == <<webVars, careerVars>>

(* answers: the choices so far. *)
NewQuiz(ready) == [ready |-> ready, page |-> 0, answers |-> [q \in {} |-> 0]]
Choices == UNION {[Q -> Likert] : Q \in SUBSET Questions}

(* A tab that is at the questionnaire at first has its answers. *)
AnsweredQuiz ==
  [ready |-> TRUE, page |-> TotalPages - 1,
   answers |-> [q \in Questions |-> CHOOSE v \in Likert : TRUE]]

TypeOK ==
  /\ WebTypeOK
  /\ guests \in Nat /\ attempts \in Nat
  /\ latest \in [1 .. MaxSends -> 0 .. attempts]
  /\ acked \in 0 .. attempts
  /\ \A t \in Tabs :
       /\ quiz[t].page \in 0 .. TotalPages - 1
       /\ quiz[t].answers \in Choices
       /\ slide[t].animating \in BOOLEAN /\ slide[t].moving \in BOOLEAN

Init ==
  /\ WebInit
  /\ quiz = [t \in Tabs |-> IF tab[t] = AtQuiz THEN AnsweredQuiz ELSE NewQuiz(FALSE)]
  /\ slide = [t \in Tabs |-> Carousel]
  /\ guests = 0 /\ attempts = 0 /\ latest = [g \in 1 .. MaxSends |-> 0]
  /\ acked = 0 /\ overlapped = FALSE

(***************************************************************************)
(* The questionnaire.                                                      *)
(***************************************************************************)
Asking(t) == tab[t].page = "quiz" /\ quiz[t].ready

OnPage(p) ==
  {q \in Questions : p * QUESTIONS_PER_PAGE < q /\ q <= (p + 1) * QUESTIONS_PER_PAGE}
Answered(t, Q) == Q \subseteq DOMAIN quiz[t].answers

(* The components of a page that goes are gone, those of one that comes are
   new; the questions come with it. *)
Mounted ==
  /\ quiz' = [t \in Tabs |->
       IF tab'[t] = tab[t] THEN quiz[t]
       ELSE NewQuiz(tab'[t].page = "quiz" /\ call[t].served)]
  /\ slide' = [t \in Tabs |-> IF tab'[t] = tab[t] THEN slide[t] ELSE Carousel]

QuizStep(t, new) ==
  /\ quiz' = [quiz EXCEPT ![t] = new]
  /\ UNCHANGED <<slide, serviceVars, acked>>

(* The buttons of a question on the page, open while the answers are sent. *)
Offered(t, q) == Asking(t) /\ q \in OnPage(quiz[t].page)

(* handleSelectChoice. *)
SelectChoice(t, q, v) ==
  /\ Offered(t, q)
  /\ QuizStep(t, [quiz[t] EXCEPT !.answers =
       [x \in DOMAIN @ \cup {q} |-> IF x = q THEN v ELSE @[x]]])
  /\ UNCHANGED <<webVars, overlapped>>

(* Faulty: pages are counted from one. *)
LastPassed(t) == quiz[t].page < TotalPages

NotLast(t) == quiz[t].page < TotalPages - 1

(* Faulty: the answers are looked at when they are handed in. *)
MayLeaveAny(t) == TRUE

(* isCurrentPageAnswered. *)
MayLeave(t) == Answered(t, OnPage(quiz[t].page))

(* The buttons of a page are disabled while the answers are sent, not while the
   result is on its way. *)
IsSubmitting(t) == call[t].kind = "submit"

HandleNext(t) ==
  /\ Asking(t) /\ ~IsSubmitting(t)
  /\ MayLeave(t) /\ NotLast(t)
  /\ QuizStep(t, [quiz[t] EXCEPT !.page = @ + 1])
  /\ UNCHANGED <<webVars, overlapped>>

HandlePrev(t) ==
  /\ Asking(t) /\ ~IsSubmitting(t) /\ quiz[t].page > 0
  /\ QuizStep(t, [quiz[t] EXCEPT !.page = @ - 1])
  /\ UNCHANGED <<webVars, overlapped>>

(* The button that hands in is there on the last page. *)
SubmitShown(t) == Asking(t) /\ Idle(t) /\ quiz[t].page = TotalPages - 1

AllAnswered(t) == Answered(t, Questions)

HandleSubmit(t) ==
  /\ SubmitShown(t) /\ AllAnswered(t) /\ SendCounted
  /\ call' = [call EXCEPT ![t] = Sent("submit", "quiz", "validate", jar)]
  /\ overlapped' = \/ overlapped
                    \/ /\ jar.guest = 0
                       /\ \E x \in Tabs : call[x].kind = "submit"
  /\ UNCHANGED <<jar, tokenVars, tab, stranded, faults, quiz, slide, serviceVars, acked>>

(***************************************************************************)
(* The route /api/career-match-up/submit, and minat-bakat-service.         *)
(***************************************************************************)

(* Faulty: the cookie is not looked at. *)
GuestAlwaysNew(c) == guests + 1

(* The guest id of the cookie, or a new one. *)
GuestOf(c) == IF c.guest # 0 THEN c.guest ELSE guests + 1

Stores(g) == attempts' = attempts + 1 /\ latest' = [latest EXCEPT ![g] = attempts']

(* Whether the answers are stored or refused, the browser is told the guest id;
   the route's own failure, or an answer that is lost, tells it nothing. *)
SubmitRoute(t) ==
  /\ call[t].step = "render" /\ call[t].kind = "submit"
  /\ LET g == GuestOf(call[t])
     IN  /\ guests' = IF g > guests THEN g ELSE guests
         /\ \/ /\ Stores(g)
               /\ call' = [call EXCEPT ![t].step = "reply", ![t].guest = g, ![t].data = attempts']
               /\ UNCHANGED faults
            \/ /\ UNCHANGED <<attempts, latest>>
               /\ call' = [call EXCEPT ![t].step = "reply", ![t].guest = g, ![t].net = "refused"]
               /\ UNCHANGED faults
            \/ /\ Fault
               /\ Stores(g) \/ UNCHANGED <<attempts, latest>>
               /\ \E net \in {"failed", "lost"} :
                    call' = [call EXCEPT ![t].step = "reply", ![t].net = net]
  /\ UNCHANGED <<jar, tokenVars, tab, stranded, inputs, quiz, slide, acked, overlapped>>

(* The cookies after an answer: the middleware's and the route's. *)
AfterSubmit(c) ==
  CASE c.net = "lost" -> jar
    [] c.net = "failed" -> After(c)
    [] OTHER -> [After(c) EXCEPT !.guest = c.guest]

(* The answer arrives: on to the result, which the questionnaire is shown until
   it has come, or the message; the button is open again either way.  A second
   submit while the result is on its way is left to the other tabs, which have
   the same cookies. *)
SubmitReturns(t) ==
  /\ call[t].step = "reply" /\ call[t].kind = "submit"
  /\ LET c == call[t]
     IN  /\ jar' = AfterSubmit(c)
         /\ stranded' = (stranded \/ (c.net = "lost" /\ c.cookies # 0))
         /\ \/ /\ c.net = "ok" /\ acked' = c.data
               /\ call' = [call EXCEPT ![t] = PageCall("result", jar')]
            \/ /\ c.net # "ok"
               /\ call' = [call EXCEPT ![t] = NoCall]
               /\ UNCHANGED acked
  /\ UNCHANGED <<tokenVars, tab, bounds, quiz, slide, serviceVars, overlapped>>

(***************************************************************************)
(* The pages.                                                              *)
(***************************************************************************)

(* getMbQuestions; without them the page says so. *)
RenderQuiz(t) ==
  /\ Renders(t, {"quiz"})
  /\ \/ Rendered(t, TRUE) /\ UNCHANGED faults
     \/ Rendered(t, FALSE) /\ Fault
  /\ UNCHANGED <<jar, tokenVars, tab, stranded, inputs, careerVars>>

(* Requests of the page's server have the guest id of the cookie only. *)
IsGuest(c) == c.guest # 0

(* getMbAttempt and getMbLatestResult. *)
LatestOf(c) == latest[c.guest]

RenderResult(t) ==
  /\ Renders(t, {"result"})
  /\ \/ /\ IsGuest(call[t])
        /\ call' = [call EXCEPT ![t].step = "reply", ![t].served = TRUE,
                                ![t].data = LatestOf(call[t])]
        /\ UNCHANGED faults
     \/ /\ IF IsGuest(call[t]) THEN Fault ELSE UNCHANGED faults
        /\ Rendered(t, FALSE)
  /\ UNCHANGED <<jar, tokenVars, tab, stranded, inputs, careerVars>>

Mount(t) ==
  /\ Show(t) /\ Mounted
  /\ UNCHANGED <<serviceVars, acked, overlapped>>

(* Bound: one carousel is moved, while no call is under way. *)
Slides(t, new) ==
  /\ tab[t].page = "result" /\ tab[t].data # 0
  /\ \A x \in Tabs : Idle(x) /\ (x # t => slide[x] = Carousel)
  /\ slide' = [slide EXCEPT ![t] = new]
  /\ UNCHANGED <<jar, tokenVars, call, tab, stranded, faults, quiz, serviceVars, acked, overlapped>>

(* The arrows and the dots. *)
Click(t) ==
  /\ SendCounted
  /\ \/ Slides(t, GoNext(slide[t]))
     \/ Slides(t, GoPrev(slide[t]))
     \/ \E i \in 0 .. NumAlumni - 1 : Slides(t, Dot(slide[t], i))

(* onTouchEnd, on a small screen: a swipe to the left or to the right. *)
Swipe(t) ==
  /\ SendCounted
  /\ Slides(t, GoNext(slide[t])) \/ Slides(t, GoPrev(slide[t]))

(* Every 5 seconds, in a tab that is hidden too, where no transition ends; up
   to two steps beyond the last card. *)
AutoSlide(t) ==
  /\ slide[t].index <= Len(LoopItems)
  /\ Slides(t, GoNext(slide[t]))
  /\ UNCHANGED inputs

Transition(t) ==
  /\ slide[t].moving
  /\ Slides(t, TransitionEnd(slide[t])) \/ Slides(t, Handled(slide[t]))
  /\ UNCHANGED inputs

AnimationFrame(t) ==
  ~slide[t].animating /\ Slides(t, Frame(slide[t])) /\ UNCHANGED inputs

CareerGoes(t) == SubmitRoute(t) \/ SubmitReturns(t) \/ RenderQuiz(t) \/ RenderResult(t) \/ Mount(t)

CareerStays == Mounted /\ UNCHANGED <<serviceVars, acked, overlapped>>

Next ==
  \/ WebNext /\ CareerStays
  \/ \E t \in Tabs : CareerGoes(t) \/ HandleNext(t) \/ HandlePrev(t) \/ HandleSubmit(t)
  \/ \E t \in Tabs, q \in Questions, v \in Likert : SelectChoice(t, q, v)
  \/ \E t \in Tabs : Click(t) \/ Swipe(t) \/ AutoSlide(t) \/ Transition(t) \/ AnimationFrame(t)

(* Calls are answered within seconds, or fail. *)
Spec ==
  /\ Init /\ [][Next]_vars
  /\ WF_vars(\E t \in Tabs : CareerGoes(t) \/ (Goes(t) /\ CareerStays))

(***************************************************************************)
(* Properties.                                                             *)
(***************************************************************************)

(* No unanswered page is left behind, however the participant goes back and
   forth: on the last page, with that one answered, the answers can always be
   handed in, and no message asks for one that is out of sight. *)
NothingLeftBehind ==
  \A t \in Tabs : Asking(t) => Answered(t, {q \in Questions : \E p \in 0 .. quiz[t].page - 1 : q \in OnPage(p)})

(* A result page that is asked for with the browser's guest id shows the
   attempt that was last confirmed to it, or a later one, though attempts were
   refused, lost or repeated; unless two tabs handed in without a guest id at
   once, when the last answer, be it a refusal, decides which id stays. *)
ResultIsLatest ==
  [][\A t \in Tabs :
       Renders(t, {"result"}) /\ call'[t] # call[t] /\ call[t].guest = jar.guest
         => overlapped \/ faults' # faults \/ call'[t].data >= acked]_vars

(* When the carousel is at rest it is at a card of its own row, never at a
   repeated one, and the dot of that card is marked, however often it was
   moved before the transition ended. *)
SlideRests ==
  \A t \in Tabs : ~slide[t].moving =>
    InRow(slide[t]) /\ slide[t].index \in CLONE_COUNT .. NumAlumni + CLONE_COUNT - 1
      /\ ShownCard(slide[t]) = ActiveCard(slide[t])
=============================================================================
