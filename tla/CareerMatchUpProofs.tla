------------------------ MODULE CareerMatchUpProofs -------------------------
(***************************************************************************)
(* Proofs about Career Match Up and the browser's session, for any number  *)
(* of tabs, questions, questions on a page and alumni, and whatever is     *)
(* called, lost and expires: the questionnaire and the carousel first, the *)
(* tokens and the guests of all tabs then.                                 *)
(***************************************************************************)
EXTENDS CareerMatchUp, FiniteSetTheorems, SequenceTheorems, TLAPS

Quizzes == [ready : BOOLEAN, page : 0 .. TotalPages - 1, answers : Choices]

QuizType == quiz \in [Tabs -> Quizzes]

Rows == [index : Int, animating : BOOLEAN, moving : BOOLEAN]

SlideType == slide \in [Tabs -> Rows]

(* What NothingLeftBehind says of a tab at the questionnaire holds of its
   component wherever the tab is: every page before the one it is on is
   answered. *)
PagesBehind(z) ==
  \A p \in 0 .. z.page - 1 : OnPage(p) \subseteq DOMAIN z.answers

QuizInv == QuizType /\ \A t \in Tabs : PagesBehind(quiz[t])

(* A carousel at rest stands at a card of the row itself. *)
AtRest(c) ==
  ~c.moving => c.index \in CLONE_COUNT .. NumAlumni + CLONE_COUNT - 1

SlideInv == SlideType /\ \A t \in Tabs : AtRest(slide[t])

LEMMA PagesAreInts == QUESTIONS_PER_PAGE \in Nat \ {0} /\ NumQuestions \in Nat \ {0}
BY CareerAssumption

(* There is a page at least. *)
LEMMA PagesCounted == TotalPages \in Nat \ {0}
<1>1. ASSUME NEW n \in Nat \ {0}, NEW k \in Nat \ {0}
      PROVE  (n + k - 1) \div k \in Nat \ {0}
  <2> DEFINE d == (n + k - 1) \div k
             r == (n + k - 1) % k
  <2>1. d \in Int /\ r \in 0 .. k - 1 /\ n + k - 1 = k * d + r BY <1>1
  <2> HIDE DEF d, r
  <2>2. k * d > 0 BY <2>1
  <2>3. d > 0 BY <2>1, <2>2
  <2> QED BY <2>1, <2>3 DEF d
<1> QED BY <1>1, CareerAssumption DEF TotalPages

LEMMA NewQuizGood ==
  ASSUME NEW b \in BOOLEAN
  PROVE  /\ NewQuiz(b) \in Quizzes
         /\ PagesBehind(NewQuiz(b))
<1>1. [q \in {} |-> 0] \in [{} -> Likert] OBVIOUS
<1>2. [q \in {} |-> 0] \in Choices BY <1>1 DEF Choices
<1>3. [q \in {} |-> 0] \in Choices => NewQuiz(b) \in Quizzes
  BY PagesCounted DEF NewQuiz, Quizzes
<1>4. NewQuiz(b).page = 0 BY DEF NewQuiz
<1>5. 0 .. NewQuiz(b).page - 1 = {} BY <1>4
<1> QED BY <1>2, <1>3, <1>5 DEF PagesBehind

(* A component that came new, or is the one that was there. *)
LEMMA MountedQuiz ==
  ASSUME QuizInv, Mounted
  PROVE  QuizInv'
<1> DEFINE b(t) == tab'[t].page = "quiz" /\ call[t].served
           z(t) == IF tab'[t] = tab[t] THEN quiz[t] ELSE NewQuiz(b(t))
<1>1. quiz' = [t \in Tabs |-> z(t)] BY Zenon DEF Mounted
<1>2. \A t \in Tabs : z(t) \in Quizzes /\ PagesBehind(z(t))
  <2> SUFFICES ASSUME NEW t \in Tabs
               PROVE  z(t) \in Quizzes /\ PagesBehind(z(t))
    OBVIOUS
  <2>1. b(t) \in BOOLEAN OBVIOUS
  <2> HIDE DEF b
  <2>2. /\ NewQuiz(b(t)) \in Quizzes
        /\ PagesBehind(NewQuiz(b(t)))
    BY <2>1, NewQuizGood
  <2> QED BY <2>2 DEF QuizInv, QuizType
<1> HIDE DEF z
<1>3. QuizType' BY <1>1, <1>2 DEF QuizType
<1>4. \A t \in Tabs : PagesBehind(quiz[t])'
  <2> SUFFICES ASSUME NEW t \in Tabs PROVE PagesBehind(quiz[t])' OBVIOUS
  <2>1. quiz'[t] = z(t) BY <1>1
  <2> QED BY <1>2, <2>1 DEF PagesBehind
<1> QED BY <1>3, <1>4 DEF QuizInv

LEMMA ReplacedQuiz ==
  ASSUME QuizInv, NEW t \in Tabs, NEW new \in Quizzes, PagesBehind(new), QuizStep(t, new)
  PROVE  QuizInv'
<1>1. quiz' = [quiz EXCEPT ![t] = new] BY DEF QuizStep
<1>2. QuizType' BY <1>1 DEF QuizInv, QuizType
<1>3. \A x \in Tabs : PagesBehind(quiz[x])'
  <2> SUFFICES ASSUME NEW x \in Tabs PROVE PagesBehind(quiz[x])' OBVIOUS
  <2>1. quiz'[x] = IF x = t THEN new ELSE quiz[x] BY <1>1 DEF QuizInv, QuizType
  <2> QED BY <2>1 DEF QuizInv, PagesBehind
<1> QED BY <1>2, <1>3 DEF QuizInv

LEMMA KeptQuiz ==
  ASSUME QuizInv, UNCHANGED quiz
  PROVE  QuizInv'
BY DEF QuizInv, QuizType, PagesBehind

(* The questionnaire a tab may begin at has every question answered. *)
LEMMA QuizAtFirst == Init => QuizInv
<1> SUFFICES ASSUME Init PROVE QuizInv OBVIOUS
<1>1. AnsweredQuiz \in Quizzes /\ PagesBehind(AnsweredQuiz)
  <2> DEFINE all == [q \in Questions |-> CHOOSE v \in Likert : TRUE]
  <2>1. (CHOOSE v \in Likert : TRUE) \in Likert BY CareerAssumption
  <2>2. all \in [Questions -> Likert] BY <2>1
  <2>3. all \in Choices BY <2>2, Zenon DEF Choices
  <2>4. AnsweredQuiz = [ready |-> TRUE, page |-> TotalPages - 1, answers |-> all]
    BY DEF AnsweredQuiz
  <2>5. DOMAIN all = Questions OBVIOUS
  <2> HIDE DEF all
  <2>6. TotalPages - 1 \in 0 .. TotalPages - 1 BY PagesCounted
  <2>7. AnsweredQuiz \in Quizzes BY <2>3, <2>4, <2>6 DEF Quizzes
  <2>8. AnsweredQuiz.answers = all BY <2>4
  <2>9. \A p : OnPage(p) \subseteq Questions BY DEF OnPage
  <2> QED BY <2>5, <2>7, <2>8, <2>9 DEF PagesBehind
<1>2. FALSE \in BOOLEAN OBVIOUS
<1>3. NewQuiz(FALSE) \in Quizzes /\ PagesBehind(NewQuiz(FALSE)) BY <1>2, NewQuizGood
<1>4. quiz = [t \in Tabs |-> IF tab[t] = AtQuiz THEN AnsweredQuiz ELSE NewQuiz(FALSE)]
  BY DEF Init
<1>5. QuizType BY <1>1, <1>3, <1>4 DEF QuizType
<1>6. \A t \in Tabs : PagesBehind(quiz[t])
  <2> SUFFICES ASSUME NEW t \in Tabs PROVE PagesBehind(quiz[t]) OBVIOUS
  <2>1. quiz[t] = AnsweredQuiz \/ quiz[t] = NewQuiz(FALSE) BY <1>4
  <2> QED BY <1>1, <1>3, <2>1
<1> QED BY <1>5, <1>6 DEF QuizInv

LEMMA ChoiceKeeps ==
  ASSUME QuizInv, NEW t \in Tabs, NEW q \in Questions, NEW v \in Likert, SelectChoice(t, q, v)
  PROVE  QuizInv'
<1> DEFINE old == quiz[t].answers
           chosen == [x \in DOMAIN old \cup {q} |-> IF x = q THEN v ELSE old[x]]
           new == [quiz[t] EXCEPT !.answers = chosen]
<1>1. quiz[t] \in Quizzes /\ PagesBehind(quiz[t]) BY DEF QuizInv, QuizType
<1>2. PICK Q \in SUBSET Questions : old \in [Q -> Likert] BY <1>1 DEF Quizzes, Choices
<1>3. chosen \in [Q \cup {q} -> Likert] BY <1>2
<1>4. Q \cup {q} \in SUBSET Questions BY <1>2
<1>5. chosen \in Choices BY <1>3, <1>4, Zenon DEF Choices
<1>6. DOMAIN old \subseteq DOMAIN chosen OBVIOUS
<1>7. QuizStep(t, new) BY DEF SelectChoice
<1> HIDE DEF chosen
<1>8. new \in Quizzes BY <1>1, <1>5 DEF Quizzes
<1>9. new.page = quiz[t].page /\ new.answers = chosen BY <1>1 DEF Quizzes
<1> HIDE DEF new
<1>10. PagesBehind(new) BY <1>1, <1>6, <1>9 DEF PagesBehind
<1> QED BY <1>7, <1>8, <1>10, ReplacedQuiz

LEMMA NextKeeps ==
  ASSUME QuizInv, NEW t \in Tabs, HandleNext(t)
  PROVE  QuizInv'
<1> DEFINE new == [quiz[t] EXCEPT !.page = @ + 1]
<1>1. quiz[t] \in Quizzes /\ PagesBehind(quiz[t]) BY DEF QuizInv, QuizType
<1>2. QuizStep(t, new) BY DEF HandleNext
<1>3. new \in Quizzes BY <1>1, PagesCounted DEF Quizzes, HandleNext, NotLast
<1>4. /\ new.page = quiz[t].page + 1 /\ new.answers = quiz[t].answers
      /\ quiz[t].page \in Int
  BY <1>1 DEF Quizzes
<1>5. OnPage(quiz[t].page) \subseteq DOMAIN quiz[t].answers BY DEF HandleNext, MayLeave, Answered
<1> HIDE DEF new
<1>6. PagesBehind(new)
  <2> SUFFICES ASSUME NEW p \in 0 .. new.page - 1 PROVE OnPage(p) \subseteq DOMAIN new.answers
    BY DEF PagesBehind
  <2>1. p = quiz[t].page \/ p \in 0 .. quiz[t].page - 1 BY <1>4
  <2> QED BY <1>1, <1>4, <1>5, <2>1 DEF PagesBehind
<1> QED BY <1>2, <1>3, <1>6, ReplacedQuiz

LEMMA PrevKeeps ==
  ASSUME QuizInv, NEW t \in Tabs, HandlePrev(t)
  PROVE  QuizInv'
<1> DEFINE new == [quiz[t] EXCEPT !.page = @ - 1]
<1>1. quiz[t] \in Quizzes /\ PagesBehind(quiz[t]) BY DEF QuizInv, QuizType
<1>2. QuizStep(t, new) BY DEF HandlePrev
<1>3. new \in Quizzes BY <1>1, PagesCounted DEF Quizzes, HandlePrev
<1>4. /\ new.page = quiz[t].page - 1 /\ new.answers = quiz[t].answers
      /\ quiz[t].page \in Int
  BY <1>1 DEF Quizzes
<1> HIDE DEF new
<1>5. PagesBehind(new) BY <1>1, <1>4 DEF PagesBehind
<1> QED BY <1>2, <1>3, <1>5, ReplacedQuiz

LEMMA QuizStays == QuizInv /\ [Next]_vars => QuizInv'
<1> SUFFICES ASSUME QuizInv, [Next]_vars PROVE QuizInv' OBVIOUS
<1>1. CASE WebNext /\ CareerStays BY <1>1, MountedQuiz DEF CareerStays
<1>2. ASSUME NEW t \in Tabs,
             SubmitRoute(t) \/ SubmitReturns(t) \/ RenderQuiz(t) \/ RenderResult(t)
      PROVE  QuizInv'
  BY <1>2, KeptQuiz DEF SubmitRoute, SubmitReturns, RenderQuiz, RenderResult, careerVars
<1>3. ASSUME NEW t \in Tabs, Mount(t) PROVE QuizInv' BY <1>3, MountedQuiz DEF Mount
<1>4. ASSUME NEW t \in Tabs, HandleNext(t) PROVE QuizInv' BY <1>4, NextKeeps
<1>5. ASSUME NEW t \in Tabs, HandlePrev(t) PROVE QuizInv' BY <1>5, PrevKeeps
<1>6. ASSUME NEW t \in Tabs, HandleSubmit(t) PROVE QuizInv' BY <1>6, KeptQuiz DEF HandleSubmit
<1>7. ASSUME NEW t \in Tabs, NEW q \in Questions, NEW v \in Likert, SelectChoice(t, q, v)
      PROVE  QuizInv'
  BY <1>7, ChoiceKeeps
<1>8. ASSUME NEW t \in Tabs, Click(t) \/ Swipe(t) \/ AutoSlide(t) \/ Transition(t) \/ AnimationFrame(t)
      PROVE  QuizInv'
  BY <1>8, KeptQuiz DEF Click, Swipe, AutoSlide, Transition, AnimationFrame, Slides
<1>9. CASE UNCHANGED vars BY <1>9, KeptQuiz DEF vars, careerVars
<1> QED BY <1>1, <1>2, <1>3, <1>4, <1>5, <1>6, <1>7, <1>8, <1>9 DEF Next, CareerGoes

LEMMA PagesBehindAnswered == QuizInv => NothingLeftBehind
<1> SUFFICES ASSUME QuizInv, NEW t \in Tabs
             PROVE  Answered(t, {q \in Questions : \E p \in 0 .. quiz[t].page - 1 : q \in OnPage(p)})
  BY DEF NothingLeftBehind
<1>1. PagesBehind(quiz[t]) BY DEF QuizInv
<1> QED BY <1>1 DEF PagesBehind, Answered

(* However the participant goes back and forth, whatever calls do meanwhile,
   no unanswered page of the questionnaire is left behind. *)
THEOREM NoPageLeftBehind == Spec => []NothingLeftBehind
<1>1. Spec => []QuizInv BY QuizAtFirst, QuizStays, PTL DEF Spec
<1> QED BY <1>1, PagesBehindAnswered, PTL

(* A row is put only at cards of its own; where it slides to, it does not rest. *)
LEMMA JumpsHome ==
  ASSUME NEW c \in Rows
  PROVE  /\ Handled(c) \in Rows
         /\ Handled(c).index \in CLONE_COUNT .. NumAlumni + CLONE_COUNT - 1
         /\ AtRest(c) => AtRest(Handled(c))
<1>1. c.index \in Int BY DEF Rows
<1>2. CASE c.index >= NumAlumni + CLONE_COUNT
  <2>1. Handled(c) = [index |-> CLONE_COUNT, animating |-> FALSE, moving |-> FALSE]
    BY <1>2 DEF Handled, Jump
  <2> QED BY <2>1, NumAlumniAssumption DEF Rows, AtRest, CLONE_COUNT
<1>3. CASE ~(c.index >= NumAlumni + CLONE_COUNT) /\ c.index < CLONE_COUNT
  <2>1. Handled(c) = [index |-> NumAlumni + CLONE_COUNT - 1, animating |-> FALSE, moving |-> FALSE]
    BY <1>3 DEF Handled, Jump
  <2> QED BY <2>1, NumAlumniAssumption DEF Rows, AtRest, CLONE_COUNT
<1>4. CASE ~(c.index >= NumAlumni + CLONE_COUNT) /\ ~(c.index < CLONE_COUNT)
  <2>1. Handled(c) = c BY <1>4 DEF Handled
  <2> QED BY <1>1, <1>4, <2>1, NumAlumniAssumption DEF CLONE_COUNT
<1> QED BY <1>2, <1>3, <1>4

LEMMA MovesOn ==
  ASSUME NEW c \in Rows, AtRest(c), NEW i \in Int
  PROVE  MovesTo(c, i) \in Rows /\ AtRest(MovesTo(c, i))
<1> DEFINE m == c.moving \/ i # c.index
<1>1. m \in BOOLEAN OBVIOUS
<1>2. MovesTo(c, i) = [index |-> i, animating |-> TRUE, moving |-> m] BY Zenon DEF MovesTo
<1>3. ~m => ~c.moving /\ i = c.index OBVIOUS
<1> HIDE DEF m
<1>4. MovesTo(c, i) \in Rows BY <1>1, <1>2 DEF Rows
<1>5. MovesTo(c, i).moving = m /\ MovesTo(c, i).index = i BY <1>2
<1> QED BY <1>3, <1>4, <1>5 DEF AtRest

LEMMA CarouselRests == Carousel \in Rows /\ AtRest(Carousel)
BY NumAlumniAssumption DEF Carousel, Rows, AtRest, CLONE_COUNT

LEMMA ReplacedSlide ==
  ASSUME SlideInv, NEW t \in Tabs, NEW new, new \in Rows, AtRest(new), Slides(t, new)
  PROVE  SlideInv'
<1>1. slide' = [slide EXCEPT ![t] = new] BY DEF Slides
<1>2. SlideType' BY <1>1 DEF SlideInv, SlideType
<1>3. \A x \in Tabs : AtRest(slide[x])'
  <2> SUFFICES ASSUME NEW x \in Tabs PROVE AtRest(slide[x])' OBVIOUS
  <2>1. slide'[x] = IF x = t THEN new ELSE slide[x] BY <1>1 DEF SlideInv, SlideType
  <2> QED BY <2>1 DEF SlideInv, AtRest
<1> QED BY <1>2, <1>3 DEF SlideInv

LEMMA MountedSlide ==
  ASSUME SlideInv, Mounted
  PROVE  SlideInv'
<1>1. slide' = [t \in Tabs |-> IF tab'[t] = tab[t] THEN slide[t] ELSE Carousel]
  BY DEF Mounted
<1>2. SlideType' BY <1>1, CarouselRests DEF SlideInv, SlideType
<1>3. \A t \in Tabs : AtRest(slide[t])'
  <2> SUFFICES ASSUME NEW t \in Tabs PROVE AtRest(slide[t])' OBVIOUS
  <2>1. slide'[t] = slide[t] \/ slide'[t] = Carousel BY <1>1
  <2> QED BY <2>1, CarouselRests DEF SlideInv, AtRest
<1> QED BY <1>2, <1>3 DEF SlideInv

LEMMA KeptSlide ==
  ASSUME SlideInv, UNCHANGED slide
  PROVE  SlideInv'
BY DEF SlideInv, SlideType, AtRest

LEMMA MovedSlide ==
  ASSUME SlideInv, NEW t \in Tabs,
         Click(t) \/ Swipe(t) \/ AutoSlide(t) \/ Transition(t) \/ AnimationFrame(t)
  PROVE  SlideInv'
<1> DEFINE c == slide[t]
<1>1. c \in Rows /\ AtRest(c) BY DEF SlideInv, SlideType
<1>2. c.index \in Int /\ c.index + 1 \in Int /\ c.index - 1 \in Int BY <1>1 DEF Rows
<1>3. ASSUME NEW i \in Int, Slides(t, MovesTo(c, i)) PROVE SlideInv'
  <2>1. MovesTo(c, i) \in Rows /\ AtRest(MovesTo(c, i)) BY <1>1, MovesOn
  <2> QED BY <1>3, <2>1, ReplacedSlide
<1>4. CASE Slides(t, GoNext(c)) BY <1>2, <1>3, <1>4 DEF GoNext
<1>5. CASE Slides(t, GoPrev(c)) BY <1>2, <1>3, <1>5 DEF GoPrev
<1>6. ASSUME NEW i \in 0 .. NumAlumni - 1, Slides(t, Dot(c, i)) PROVE SlideInv'
  <2>1. CLONE_COUNT + i \in Int BY DEF CLONE_COUNT
  <2> QED BY <1>3, <1>6, <2>1 DEF Dot
<1>7. CASE Slides(t, TransitionEnd(c))
  <2> DEFINE e == [c EXCEPT !.moving = FALSE]
  <2>1. e \in Rows BY <1>1 DEF Rows
  <2>2. TransitionEnd(c) = Handled(e) BY DEF TransitionEnd
  <2> HIDE DEF e
  <2>3. Handled(e) \in Rows /\ AtRest(Handled(e)) BY <2>1, JumpsHome DEF AtRest
  <2> QED BY <1>7, <2>2, <2>3, ReplacedSlide
<1>8. CASE Slides(t, Handled(c))
  <2>1. Handled(c) \in Rows /\ AtRest(Handled(c)) BY <1>1, JumpsHome
  <2> QED BY <1>8, <2>1, ReplacedSlide
<1>9. CASE Slides(t, Frame(c))
  <2>1. Frame(c) \in Rows /\ Frame(c).moving = c.moving /\ Frame(c).index = c.index
    BY <1>1 DEF Frame, Rows
  <2>2. AtRest(Frame(c)) BY <1>1, <2>1 DEF AtRest
  <2> QED BY <1>9, <2>1, <2>2, ReplacedSlide
<1> QED BY <1>4, <1>5, <1>6, <1>7, <1>8, <1>9 DEF Click, Swipe, AutoSlide, Transition, AnimationFrame

LEMMA SlideStays == SlideInv /\ [Next]_vars => SlideInv'
<1> SUFFICES ASSUME SlideInv, [Next]_vars PROVE SlideInv' OBVIOUS
<1>1. CASE WebNext /\ CareerStays BY <1>1, MountedSlide DEF CareerStays
<1>2. ASSUME NEW t \in Tabs,
             SubmitRoute(t) \/ SubmitReturns(t) \/ RenderQuiz(t) \/ RenderResult(t)
      PROVE  SlideInv'
  BY <1>2, KeptSlide DEF SubmitRoute, SubmitReturns, RenderQuiz, RenderResult, careerVars
<1>3. ASSUME NEW t \in Tabs, Mount(t) PROVE SlideInv' BY <1>3, MountedSlide DEF Mount
<1>4. ASSUME NEW t \in Tabs, HandleNext(t) \/ HandlePrev(t) PROVE SlideInv'
  BY <1>4, KeptSlide DEF HandleNext, HandlePrev, QuizStep
<1>5. ASSUME NEW t \in Tabs, HandleSubmit(t) PROVE SlideInv' BY <1>5, KeptSlide DEF HandleSubmit
<1>6. ASSUME NEW t \in Tabs, NEW q \in Questions, NEW v \in Likert, SelectChoice(t, q, v)
      PROVE  SlideInv'
  BY <1>6, KeptSlide DEF SelectChoice, QuizStep
<1>7. ASSUME NEW t \in Tabs, Click(t) \/ Swipe(t) \/ AutoSlide(t) \/ Transition(t) \/ AnimationFrame(t)
      PROVE  SlideInv'
  BY <1>7, MovedSlide
<1>8. CASE UNCHANGED vars BY <1>8, KeptSlide DEF vars, careerVars
<1> QED BY <1>1, <1>2, <1>3, <1>4, <1>5, <1>6, <1>7, <1>8 DEF Next, CareerGoes

(* The cards of the row itself stand after the repeated ones. *)
LEMMA OwnCards ==
  /\ LoopItems \in Seq(Int)
  /\ Len(LoopItems) = NumAlumni + 2 * CLONE_COUNT
  /\ \A i \in CLONE_COUNT .. NumAlumni + CLONE_COUNT - 1 : LoopItems[i + 1] = i + 1 - CLONE_COUNT
<1> DEFINE before == SubSeq(Alumni, NumAlumni - CLONE_COUNT + 1, NumAlumni)
           after == SubSeq(Alumni, 1, CLONE_COUNT)
<1>1. Alumni \in Seq(Int) /\ Len(Alumni) = NumAlumni /\ \A i \in 1 .. NumAlumni : Alumni[i] = i
  BY NumAlumniAssumption DEF Alumni
<1>2. before \in Seq(Int) /\ Len(before) = CLONE_COUNT
  BY <1>1, NumAlumniAssumption DEF CLONE_COUNT
<1>3. after \in Seq(Int) /\ Len(after) = CLONE_COUNT
  BY <1>1, NumAlumniAssumption DEF CLONE_COUNT
<1>4. LoopItems = (before \o Alumni) \o after BY DEF LoopItems
<1> HIDE DEF before, after
<1> DEFINE row == before \o Alumni
<1>5. /\ row \in Seq(Int)
      /\ Len(row) = Len(before) + Len(Alumni)
      /\ \A k \in 1 .. Len(before) + Len(Alumni) :
           row[k] = IF k <= Len(before) THEN before[k] ELSE Alumni[k - Len(before)]
  <2>1. before \in Seq(Int) /\ Alumni \in Seq(Int) BY <1>1, <1>2
  <2> QED BY ONLY <2>1, ConcatProperties
<1>6. LoopItems = row \o after BY <1>4
<1> HIDE DEF row
<1>7. /\ LoopItems \in Seq(Int)
      /\ Len(LoopItems) = Len(row) + Len(after)
      /\ \A k \in 1 .. Len(row) + Len(after) :
           LoopItems[k] = IF k <= Len(row) THEN row[k] ELSE after[k - Len(row)]
  <2>1. row \in Seq(Int) /\ after \in Seq(Int) BY <1>3, <1>5
  <2>2. /\ row \o after \in Seq(Int)
        /\ Len(row \o after) = Len(row) + Len(after)
        /\ \A k \in 1 .. Len(row) + Len(after) :
             (row \o after)[k] = IF k <= Len(row) THEN row[k] ELSE after[k - Len(row)]
    BY ONLY <2>1, ConcatProperties
  <2> QED BY <1>6, <2>2, Zenon
<1>8. \A i \in CLONE_COUNT .. NumAlumni + CLONE_COUNT - 1 : LoopItems[i + 1] = i + 1 - CLONE_COUNT
  <2> SUFFICES ASSUME NEW i \in CLONE_COUNT .. NumAlumni + CLONE_COUNT - 1
               PROVE  LoopItems[i + 1] = i + 1 - CLONE_COUNT
    OBVIOUS
  <2>1. LoopItems[i + 1] = row[i + 1]
    BY <1>1, <1>2, <1>3, <1>5, <1>7, NumAlumniAssumption DEF CLONE_COUNT
  <2>2. row[i + 1] = Alumni[i + 1 - CLONE_COUNT]
    BY <1>1, <1>2, <1>5, NumAlumniAssumption DEF CLONE_COUNT
  <2> QED BY <1>1, <2>1, <2>2, NumAlumniAssumption DEF CLONE_COUNT
<1> QED BY <1>1, <1>2, <1>3, <1>5, <1>7, <1>8, NumAlumniAssumption DEF CLONE_COUNT

LEMMA RestShowsItsCard == SlideInv => SlideRests
<1> SUFFICES ASSUME SlideInv, NEW t \in Tabs, ~slide[t].moving
             PROVE  /\ InRow(slide[t])
                    /\ slide[t].index \in CLONE_COUNT .. NumAlumni + CLONE_COUNT - 1
                    /\ ShownCard(slide[t]) = ActiveCard(slide[t])
  BY DEF SlideRests
<1> DEFINE i == slide[t].index
<1>1. i \in CLONE_COUNT .. NumAlumni + CLONE_COUNT - 1 BY DEF SlideInv, AtRest
<1>2. i + 1 \in 1 .. Len(LoopItems) BY <1>1, OwnCards, NumAlumniAssumption DEF CLONE_COUNT
<1>3. LoopItems \in Seq(Int) BY OwnCards
<1>4. InRow(slide[t]) BY <1>2, <1>3 DEF InRow
<1>5. (i - CLONE_COUNT) % NumAlumni = i - CLONE_COUNT
  <2> DEFINE k == i - CLONE_COUNT
  <2>1. k \in 0 .. NumAlumni - 1 BY <1>1, NumAlumniAssumption DEF CLONE_COUNT
  <2> HIDE DEF k
  <2>2. k % NumAlumni = k BY <2>1, NumAlumniAssumption
  <2> QED BY <2>2 DEF k
<1>6. ShownCard(slide[t]) = i + 1 - CLONE_COUNT BY <1>1, OwnCards DEF ShownCard
<1>7. ActiveCard(slide[t]) = i - CLONE_COUNT + 1 BY <1>5 DEF ActiveCard
<1>8. i - CLONE_COUNT + 1 = i + 1 - CLONE_COUNT BY <1>1 DEF CLONE_COUNT
<1> QED BY <1>1, <1>4, <1>6, <1>7, <1>8

LEMMA SlideAtFirst == Init => SlideInv
BY CarouselRests DEF Init, SlideInv, SlideType

(* However fast the arrows, the dots and the timer move the carousel, and
   whichever transition it hears of, at rest it stands at a card of its own row
   and marks the dot of that card. *)
THEOREM CarouselAtRest == Spec => []SlideRests
<1>1. Spec => []SlideInv BY SlideAtFirst, SlideStays, PTL DEF Spec
<1> QED BY <1>1, RestShowsItsCard, PTL

(***************************************************************************)
(* The tokens.                                                             *)
(***************************************************************************)
Steps == {"none", "validate", "refresh", "wait", "render", "redirect", "api", "auth", "reply"}

Calls ==
  [kind : Kinds, page : Pages, step : Steps, access : Nat, refresh : Nat, guest : Nat,
   session : Nat, cookies : Nat, net : {"ok", "refused", "failed", "lost"},
   served : BOOLEAN, data : Nat]

Jars == [access : Nat, refresh : Nat, guest : Nat]
JarType == jar \in Jars /\ jar.access = jar.refresh /\ jar.refresh <= issued
TabType == tab \in [Tabs -> [page : Pages \cup {"none"}, data : Nat]]

TokenTypes ==
  /\ issued \in Tokens /\ live \subseteq 1 .. issued /\ fresh \subseteq 1 .. issued
  /\ stranded \in BOOLEAN
  /\ JarType /\ TabType
  /\ call \in [Tabs -> Calls]

(* What is true of a call, of the tokens issued (i) and fresh (f), and whether
   the browser is stranded (s).  The cookies that are on their way are fresh,
   and only an answer that the browser takes has any; and the middleware has a
   token exchanged only once the access token that came with it has expired. *)
TrueOf(c, i, f, s) ==
  /\ c.access = c.refresh /\ c.refresh <= i /\ c.session <= i
  /\ c.cookies \in f \cup {0}
  /\ c.cookies # 0 => c.step \in {"render", "redirect", "reply"}
  /\ c.kind \in Forms \cup {"logout"} =>
       /\ c.step \in {"auth", "reply"}
       /\ c.cookies # 0 => c.kind = "login" /\ c.net = "ok"
  /\ c.step = "auth" => c.kind \in Forms \cup {"logout"}
  /\ c.step = "api" => c.kind = "api"
  /\ c.step \in {"refresh", "wait"} => s \/ c.access \notin f

CallsTrue == \A t \in Tabs : TrueOf(call[t], issued, fresh, stranded)

(* What has not expired can be exchanged. *)
FreshLive == stranded \/ fresh \subseteq live

(* A token is in one exchange at a time. *)
OneFlight ==
  \A x, y \in Tabs :
    call[x].step = "refresh" /\ call[y].step = "refresh" /\ call[x].refresh = call[y].refresh
      => x = y

(* Whoever waits, waits for one that is under way. *)
WaitLed == \A t \in Tabs : call[t].step = "wait" => InFlight(call[t].refresh)

TokenInv == TokenTypes /\ CallsTrue /\ FreshLive /\ OneFlight /\ WaitLed /\ SessionKept

(* What a call d that takes the place of c, in a browser with the guest id g,
   keeps of a submit: whose it is and what has become of it. *)
Submits(c) == c.kind = "submit"
Follows(d, c, g) ==
  /\ d.guest \in {c.guest, g, 0}
  /\ Submits(d) => /\ Submits(c) /\ d.guest = c.guest /\ d.data = c.data /\ d.net = c.net
                   /\ d.step = "reply" <=> c.step = "reply"

(* A step of the session: no submit is sent, served or answered by it. *)
SubmitsKept ==
  jar'.guest = jar.guest /\ \A x \in Tabs : Follows(call'[x], call[x], jar.guest)

(***************************************************************************)
(* The guests.                                                             *)
(***************************************************************************)

(* The submits that have not come to the route: each may need a guest id. *)
Unrouted == {t \in Tabs : Submits(call[t]) /\ call[t].step # "reply"}

GuestTypes ==
  /\ guests \in Nat /\ attempts \in Nat /\ sends \in Nat /\ faults \in Nat
  /\ latest \in [1 .. MaxSends -> 0 .. attempts]
  /\ acked \in 0 .. attempts /\ overlapped \in BOOLEAN
  /\ sends <= MaxSends /\ guests + Cardinality(Unrouted) <= sends
  /\ jar.guest <= guests
  /\ \A t \in Tabs : call[t].guest <= guests /\ (Submits(call[t]) => call[t].data <= attempts)

(* What an answer tells the browser of its guest: an id, and of an attempt that
   was stored under it, though a later one may have been since. *)
Stored(c, l) ==
  Submits(c) /\ c.step = "reply" =>
    /\ c.net \in {"ok", "refused"} => c.guest # 0
    /\ c.net = "ok" => c.data <= l[c.guest]

(* A browser without a guest id has nothing confirmed and one submit under way
   at most; one that has an id sends every submit with it. *)
OneGuest ==
  \/ overlapped
  \/ /\ jar.guest = 0 /\ acked = 0
     /\ \A x, y \in Tabs : Submits(call[x]) /\ Submits(call[y]) => x = y
  \/ /\ jar.guest # 0 /\ acked <= latest[jar.guest]
     /\ \A x \in Tabs : Submits(call[x]) => call[x].guest = jar.guest

GuestInv == GuestTypes /\ (\A t \in Tabs : Stored(call[t], latest)) /\ OneGuest

LEMMA NoneUnderWay ==
  /\ NoCall \in Calls
  /\ NoCall.step = "none" /\ NoCall.kind = "page" /\ NoCall.net = "ok"
  /\ NoCall.access = 0 /\ NoCall.refresh = 0 /\ NoCall.guest = 0
  /\ NoCall.session = 0 /\ NoCall.cookies = 0 /\ NoCall.data = 0
<1>1. "page" \in Kinds /\ "home" \in Pages /\ "none" \in Steps BY DEF Kinds, Pages, Steps
<1> QED BY <1>1 DEF NoCall, Calls

(* A call that is sent, with the cookies of when it is sent. *)
IsSent(c, kind, page, step, j) ==
  /\ c \in Calls
  /\ c.kind = kind /\ c.page = page /\ c.step = step /\ c.net = "ok"
  /\ c.access = j.access /\ c.refresh = j.refresh /\ c.guest = j.guest
  /\ c.session = 0 /\ c.cookies = 0 /\ c.data = 0

LEMMA SentCall ==
  ASSUME NEW kind \in Kinds, NEW page \in Pages, NEW step \in Steps, NEW j \in Jars
  PROVE  IsSent(Sent(kind, page, step, j), kind, page, step, j)
<1>1. Sent(kind, page, step, j) =
        [NoCall EXCEPT !.kind = kind, !.page = page, !.step = step,
           !.access = j.access, !.refresh = j.refresh, !.guest = j.guest]
  BY DEF Sent
<1> QED BY <1>1, NoneUnderWay DEF Calls, Jars, IsSent

(* A call that goes on in another step, with the cookies it was sent with. *)
Same(d, c) ==
  /\ d.kind = c.kind /\ d.access = c.access /\ d.refresh = c.refresh
  /\ d.guest = c.guest /\ d.net = c.net

LEMMA ResolvedCall ==
  ASSUME NEW c \in Calls, NEW a \in Nat, NEW set \in Nat
  PROVE  /\ Resolved(c, a, set) \in Calls
         /\ Same(Resolved(c, a, set), c) /\ Resolved(c, a, set).data = c.data
         /\ Resolved(c, a, set).step = "render"
         /\ Resolved(c, a, set).session = a /\ Resolved(c, a, set).cookies = set
<1>1. "render" \in Steps BY DEF Steps
<1> QED BY <1>1 DEF Resolved, Calls, Same

LEMMA RedirectCall ==
  ASSUME NEW c \in Calls, NEW page \in Pages
  PROVE  /\ Redirect(c, page) \in Calls
         /\ Same(Redirect(c, page), c) /\ Redirect(c, page).data = c.data
         /\ Redirect(c, page).step = "redirect"
         /\ Redirect(c, page).session = 0 /\ Redirect(c, page).cookies = c.cookies
<1>1. "redirect" \in Steps BY DEF Steps
<1> QED BY <1>1 DEF Redirect, Calls, Same

LEMMA UnresolvedCall ==
  ASSUME NEW c \in Calls
  PROVE  /\ Unresolved(c) \in Calls
         /\ Same(Unresolved(c), c) /\ Unresolved(c).data = c.data
         /\ Unresolved(c).step \in {"render", "redirect"}
         /\ Unresolved(c).session \in {0, c.session} /\ Unresolved(c).cookies = c.cookies
<1>1. CASE c.page \in PublicPages
  <2>1. Unresolved(c) = [c EXCEPT !.step = "render"] BY <1>1 DEF Unresolved
  <2>2. "render" \in Steps BY DEF Steps
  <2> QED BY <2>1, <2>2 DEF Calls, Same
<1>2. CASE c.page \notin PublicPages
  <2>1. Unresolved(c) = Redirect(c, "login") BY <1>2 DEF Unresolved
  <2>2. "login" \in Pages BY DEF Pages, AuthPages
  <2> QED BY <2>1, <2>2, RedirectCall
<1> QED BY <1>1, <1>2

(* What a call sent now holds, and one that goes on. *)
LEMMA SentTrue ==
  ASSUME TokenInv, NEW c \in Calls, c.access = jar.access, c.refresh = jar.refresh,
         c.session = 0, c.cookies = 0, c.step \notin {"refresh", "wait"},
         c.kind \in Forms \cup {"logout"} <=> c.step = "auth",
         c.step = "api" => c.kind = "api"
  PROVE  TrueOf(c, issued, fresh, stranded)
BY DEF TokenInv, TokenTypes, JarType, Jars, TrueOf, Tokens

LEMMA GoesOnTrue ==
  ASSUME NEW c \in Calls, NEW d \in Calls, NEW i \in Nat, NEW f, NEW s \in BOOLEAN,
         TrueOf(c, i, f, s), Same(d, c), d.session <= i, d.cookies = c.cookies,
         d.step \in {"render", "redirect", "reply"}, c.step \notin {"auth", "reply"}
  PROVE  TrueOf(d, i, f, s)
BY DEF TrueOf, Same

(* One call is replaced; whatever cookies it had on their way are on their way
   still, or in the jar, or lost. *)
LEMMA Replaced ==
  ASSUME TokenInv, NEW t \in Tabs, NEW new \in Calls,
         call' = [call EXCEPT ![t] = new],
         UNCHANGED tokenVars, stranded' \in BOOLEAN, stranded => stranded',
         TrueOf(new, issued, fresh, stranded'),
         call[t].step # "refresh",
         new.step = "refresh" => ~InFlight(new.refresh),
         new.step = "wait" => InFlight(new.refresh),
         JarType', TabType',
         \/ jar'.refresh = jar.refresh /\ (stranded' \/ call[t].cookies \in {0, new.cookies})
         \/ jar'.refresh = 0
         \/ call[t].cookies # 0 /\ jar'.refresh = call[t].cookies
  PROVE  /\ TokenInv'
         /\ jar'.guest = jar.guest /\ Follows(new, call[t], jar.guest) => SubmitsKept
<1>1. /\ call \in [Tabs -> Calls] /\ issued \in Nat /\ stranded \in BOOLEAN
      /\ live \subseteq 1 .. issued /\ fresh \subseteq 1 .. issued
  BY DEF TokenInv, TokenTypes, Tokens
<1>2. /\ issued' = issued /\ live' = live /\ fresh' = fresh
  BY DEF tokenVars
<1>3. \A x \in Tabs : call'[x] = IF x = t THEN new ELSE call[x] BY <1>1
<1>4. TokenTypes' BY <1>1, <1>2 DEF TokenInv, TokenTypes
<1>5. \A x \in Tabs : TrueOf(call'[x], issued', fresh', stranded')
  <2> SUFFICES ASSUME NEW x \in Tabs PROVE TrueOf(call'[x], issued, fresh, stranded')
    BY <1>2
  <2>1. CASE x = t BY <1>3, <2>1
  <2>2. CASE x # t
    <3>1. TrueOf(call[x], issued, fresh, stranded) BY DEF TokenInv, CallsTrue
    <3>2. TrueOf(call[x], issued, fresh, stranded') BY <3>1 DEF TrueOf
    <3> QED BY <1>3, <2>2, <3>2
  <2> QED BY <2>1, <2>2
<1>6. FreshLive' BY <1>2 DEF TokenInv, FreshLive
<1>7. OneFlight'
  <2> SUFFICES ASSUME NEW x \in Tabs, NEW y \in Tabs,
                      call'[x].step = "refresh", call'[y].step = "refresh",
                      call'[x].refresh = call'[y].refresh, x # y
               PROVE  FALSE
    BY DEF OneFlight
  <2>1. CASE x # t /\ y # t BY <1>3, <2>1 DEF TokenInv, OneFlight
  <2>2. CASE x = t BY <1>3, <2>2 DEF InFlight
  <2>3. CASE y = t BY <1>3, <2>3 DEF InFlight
  <2> QED BY <2>1, <2>2, <2>3
<1>8. SessionKept'
  <2> SUFFICES ASSUME ~stranded'
               PROVE  jar'.refresh \in live \cup {0} \/ \E x \in Tabs : call'[x].cookies \in live
    BY <1>2 DEF SessionKept
  <2>1. fresh \subseteq live BY DEF TokenInv, FreshLive
  <2>2. jar.refresh \in live \cup {0} \/ \E x \in Tabs : call[x].cookies \in live
    BY DEF TokenInv, SessionKept
  <2>3. call[t].cookies \in fresh \cup {0} BY DEF TokenInv, CallsTrue, TrueOf
  <2>4. CASE jar'.refresh = 0 BY <2>4
  <2>5. CASE call[t].cookies # 0 /\ jar'.refresh = call[t].cookies BY <2>1, <2>3, <2>5
  <2>6. CASE jar'.refresh = jar.refresh /\ call[t].cookies \in {0, new.cookies}
    <3>1. CASE jar.refresh \in live \cup {0} BY <2>6, <3>1
    <3>2. ASSUME NEW x \in Tabs, call[x].cookies \in live
          PROVE  \E y \in Tabs : call'[y].cookies \in live
      <4>1. 0 \notin live BY <1>1
      <4>2. call'[x].cookies \in live BY <1>3, <2>6, <3>2, <4>1
      <4> QED BY <4>2
    <3> QED BY <2>2, <3>1, <3>2
  <2> QED BY <2>4, <2>5, <2>6
<1>9. WaitLed'
  <2> SUFFICES ASSUME NEW x \in Tabs, call'[x].step = "wait"
               PROVE  \E y \in Tabs : call'[y].step = "refresh" /\ call'[y].refresh = call'[x].refresh
    BY DEF WaitLed, InFlight
  <2>1. PICK r : r = call'[x].refresh OBVIOUS
  <2>2. \E y \in Tabs : call[y].step = "refresh" /\ call[y].refresh = r
    <3>1. CASE x = t BY <1>3, <2>1, <3>1 DEF InFlight
    <3>2. CASE x # t BY <1>3, <2>1, <3>2 DEF TokenInv, WaitLed, InFlight
    <3> QED BY <3>1, <3>2
  <2> QED BY <1>3, <2>1, <2>2
<1>10. ASSUME jar'.guest = jar.guest, Follows(new, call[t], jar.guest) PROVE SubmitsKept
  <2> SUFFICES ASSUME NEW x \in Tabs PROVE Follows(call'[x], call[x], jar.guest)
    BY <1>10 DEF SubmitsKept
  <2>1. CASE x = t BY <1>3, <1>10, <2>1
  <2>2. CASE x # t BY <1>3, <2>2 DEF Follows
  <2> QED BY <2>1, <2>2
<1> QED BY <1>4, <1>5, <1>6, <1>7, <1>8, <1>9, <1>10 DEF TokenInv, CallsTrue

(* Nothing of it changes. *)
LEMMA Unmoved ==
  ASSUME TokenInv, UNCHANGED <<jar, tokenVars, call, tab, stranded>>
  PROVE  TokenInv' /\ SubmitsKept
<1>1. TokenTypes' BY DEF TokenInv, TokenTypes, JarType, TabType, tokenVars
<1>2. CallsTrue' BY DEF TokenInv, CallsTrue, TrueOf, tokenVars
<1>3. FreshLive' /\ OneFlight' /\ WaitLed' /\ SessionKept'
  BY DEF TokenInv, FreshLive, OneFlight, WaitLed, InFlight, SessionKept, tokenVars
<1>4. SubmitsKept BY DEF SubmitsKept, Follows
<1> QED BY <1>1, <1>2, <1>3, <1>4 DEF TokenInv

(* A tab without a call under way has no cookies on their way. *)
LEMMA NoCookies ==
  ASSUME TokenInv, NEW t \in Tabs, call[t].step \notin {"render", "redirect", "reply"}
  PROVE  call[t].cookies = 0
BY DEF TokenInv, CallsTrue, TrueOf

LEMMA TokenFacts ==
  ASSUME TokenInv
  PROVE  /\ issued \in Nat /\ issued \in Tokens /\ stranded \in BOOLEAN
         /\ live \subseteq 1 .. issued /\ fresh \subseteq 1 .. issued
         /\ jar \in Jars /\ JarType /\ TabType
         /\ call \in [Tabs -> Calls]
         /\ \A t \in Tabs : call[t] \in Calls /\ TrueOf(call[t], issued, fresh, stranded)
BY DEF TokenInv, TokenTypes, Tokens, JarType, CallsTrue

(* A call is sent with the cookies of the browser. *)
LEMMA SendsKeep ==
  ASSUME TokenInv, NEW t \in Tabs, Idle(t),
         NEW kind \in Kinds, kind # "submit", NEW page \in Pages, NEW step \in Steps,
         \/ kind = "page" /\ step = "validate"
         \/ kind = "api" /\ step = "api"
         \/ kind \in Forms \cup {"logout"} /\ step = "auth",
         call' = [call EXCEPT ![t] = Sent(kind, page, step, jar)],
         UNCHANGED <<jar, tokenVars, stranded>>, TabType'
  PROVE  TokenInv' /\ SubmitsKept
<1> DEFINE new == Sent(kind, page, step, jar)
<1>1. jar \in Jars BY TokenFacts
<1>2. IsSent(new, kind, page, step, jar) BY <1>1, SentCall
<1> HIDE DEF new
<1>3. TrueOf(new, issued, fresh, stranded)
  <2>1. kind \in Forms \cup {"logout"} <=> step = "auth" BY DEF Kinds, Forms
  <2> QED BY <1>2, <2>1, SentTrue DEF IsSent
<1>4. call[t].cookies = 0 BY NoCookies DEF Idle
<1>5. Follows(new, call[t], jar.guest) BY <1>2 DEF IsSent, Follows, Submits
<1>6. JarType' BY TokenFacts DEF JarType, tokenVars
<1>7. new \in Calls /\ new.step \notin {"refresh", "wait"} /\ call[t].step # "refresh"
  BY <1>2 DEF IsSent, Idle
<1>8. call' = [call EXCEPT ![t] = new] BY DEF new
<1>9. jar'.refresh = jar.refresh /\ jar'.guest = jar.guest OBVIOUS
<1>10. stranded' \in BOOLEAN /\ (stranded => stranded') BY TokenFacts
<1>11. TrueOf(new, issued, fresh, stranded') BY <1>3
<1> QED BY <1>4, <1>5, <1>6, <1>7, <1>8, <1>9, <1>10, <1>11, Replaced

(***************************************************************************)
(* The tokens, step by step.                                               *)
(***************************************************************************)
LEMMA KindsAndSteps ==
  /\ \A k \in Forms \cup {"logout"} : k \in Kinds /\ k # "submit" /\ k # "page"
  /\ "page" \in Kinds /\ "api" \in Kinds
  /\ AuthPages \subseteq Pages /\ "home" \in Pages /\ "dashboard" \in Pages /\ "tryout" \in Pages
  /\ "result" \in Pages /\ "quiz" \in Pages /\ "login" \in AuthPages
  /\ "validate" \in Steps /\ "auth" \in Steps /\ "reply" \in Steps /\ "wait" \in Steps
  /\ "refresh" \in Steps /\ "api" \in Steps
  /\ Forms = AuthPages
BY DEF Forms, Kinds, AuthPages, Pages, Steps

LEMMA BlankShown ==
  ASSUME TokenInv, NEW t \in Tabs
  PROVE  /\ [tab EXCEPT ![t] = Blank] \in [Tabs -> [page : Pages \cup {"none"}, data : Nat]]
         /\ tab \in [Tabs -> [page : Pages \cup {"none"}, data : Nat]]
<1>1. Blank \in [page : Pages \cup {"none"}, data : Nat] BY DEF Blank
<1>2. TabType BY TokenFacts
<1> QED BY <1>1, <1>2 DEF TabType

LEMMA VisitKeeps ==
  ASSUME TokenInv, NEW t \in Tabs, NEW page \in Pages, Visit(t, page)
  PROVE  TokenInv' /\ SubmitsKept
<1>1. "page" \in Kinds /\ "page" # "submit" /\ "validate" \in Steps BY KindsAndSteps
<1>2. call' = [call EXCEPT ![t] = Sent("page", page, "validate", jar)] BY DEF Visit, PageCall
<1>3. TabType' BY BlankShown DEF Visit, TabType
<1>4. Idle(t) /\ UNCHANGED <<jar, tokenVars, stranded>> BY DEF Visit
<1> QED BY <1>1, <1>2, <1>3, <1>4, SendsKeep

LEMMA SendFormKeeps ==
  ASSUME TokenInv, NEW t \in Tabs, NEW form \in Forms, SendForm(t, form)
  PROVE  TokenInv' /\ SubmitsKept
<1>1. form \in Kinds /\ form # "submit" /\ form # "page" /\ form \in Pages /\ "auth" \in Steps
  BY KindsAndSteps
<1>2. TabType' BY BlankShown DEF SendForm, TabType
<1>3. /\ call' = [call EXCEPT ![t] = Sent(form, form, "auth", jar)]
      /\ Idle(t) /\ UNCHANGED <<jar, tokenVars, stranded>>
  BY DEF SendForm
<1> QED BY <1>1, <1>2, <1>3, SendsKeep

LEMMA SendApiKeeps ==
  ASSUME TokenInv, NEW t \in Tabs, SendApi(t)
  PROVE  TokenInv' /\ SubmitsKept
<1>1. "api" \in Kinds /\ "tryout" \in Pages /\ "api" \in Steps BY KindsAndSteps
<1>2. TabType' BY BlankShown DEF SendApi, TabType
<1>3. /\ call' = [call EXCEPT ![t] = Sent("api", "tryout", "api", jar)]
      /\ Idle(t) /\ UNCHANGED <<jar, tokenVars, stranded>>
  BY DEF SendApi
<1> QED BY <1>1, <1>2, <1>3, SendsKeep

LEMMA SendLogoutKeeps ==
  ASSUME TokenInv, NEW t \in Tabs, SendLogout(t)
  PROVE  TokenInv' /\ SubmitsKept
<1>1. "logout" \in Kinds /\ tab[t].page \in Pages /\ "auth" \in Steps
  BY KindsAndSteps DEF SendLogout
<1>2. TabType' BY BlankShown DEF SendLogout, TabType
<1>3. /\ call' = [call EXCEPT ![t] = Sent("logout", tab[t].page, "auth", jar)]
      /\ Idle(t) /\ UNCHANGED <<jar, tokenVars, stranded>>
  BY DEF SendLogout
<1> QED BY <1>1, <1>2, <1>3, SendsKeep

(* A call goes on in the middleware, on a page or to its answer. *)
LEMMA GoesOn ==
  ASSUME TokenInv, NEW t \in Tabs, NEW new \in Calls,
         call' = [call EXCEPT ![t] = new],
         UNCHANGED <<jar, tokenVars, tab>>, stranded' \in BOOLEAN, stranded => stranded',
         Same(new, call[t]), new.data = call[t].data \/ call[t].kind = "page",
         new.session <= issued, new.cookies = call[t].cookies,
         new.step \in {"render", "redirect", "reply"},
         new.step = "reply" => call[t].kind # "submit",
         call[t].step \notin {"auth", "refresh", "reply"}
  PROVE  TokenInv' /\ SubmitsKept
<1>1. /\ call[t] \in Calls /\ issued \in Nat /\ stranded \in BOOLEAN
      /\ TrueOf(call[t], issued, fresh, stranded)
  BY TokenFacts
<1>2. TrueOf(call[t], issued, fresh, stranded') BY <1>1 DEF TrueOf
<1>3. TrueOf(new, issued, fresh, stranded') BY <1>1, <1>2, GoesOnTrue
<1>4. Follows(new, call[t], jar.guest) BY DEF Follows, Submits, Same
<1>5. JarType' /\ TabType' BY TokenFacts DEF JarType, TabType, tokenVars
<1>6. new.step \notin {"refresh", "wait"} /\ call[t].step # "refresh" OBVIOUS
<1>7. jar'.refresh = jar.refresh /\ jar'.guest = jar.guest /\ UNCHANGED tokenVars OBVIOUS
<1> QED BY <1>3, <1>4, <1>5, <1>6, <1>7, Replaced

(* The middleware has not accepted the access token. *)
Refreshes(c, step) == [c EXCEPT !.step = step]

LEMMA RefreshesCall ==
  ASSUME NEW c \in Calls, NEW step \in Steps, NEW d, d = Refreshes(c, step)
  PROVE  /\ d \in Calls /\ Same(d, c) /\ d.data = c.data /\ d.step = step
         /\ d.session = c.session /\ d.cookies = c.cookies
BY DEF Calls, Same, Refreshes

LEMMA ValidateKeeps ==
  ASSUME TokenInv, NEW t \in Tabs, Validate(t)
  PROVE  TokenInv' /\ SubmitsKept
<1>1. PICK c \in Calls : c = call[t] BY TokenFacts
<1>2. TrueOf(c, issued, fresh, stranded) BY <1>1, TokenFacts
<1>3. issued \in Nat /\ stranded \in BOOLEAN /\ fresh \subseteq 1 .. issued BY TokenFacts
<1>4. c.step = "validate" /\ UNCHANGED <<jar, tokenVars, tab>> BY <1>1 DEF Validate
<1>5. c.cookies = 0 BY <1>1, <1>4, NoCookies
<1>6. stranded' \in BOOLEAN /\ (stranded => stranded') BY <1>3, Zenon DEF Validate
<1>7. CASE c.access \in fresh /\ call' = [call EXCEPT ![t] = Resolved(c, c.access, 0)]
  <2>1. c.access \in Nat BY DEF Calls
  <2>2. c.access <= issued
    <3>1. c.access \in 1 .. issued BY <1>3, <1>7
    <3> QED BY <1>3, <3>1
  <2>3. PICK new : new = Resolved(c, c.access, 0) OBVIOUS
  <2>4. /\ new \in Calls /\ Same(new, c) /\ new.data = c.data /\ new.step = "render"
        /\ new.session = c.access /\ new.cookies = 0
    BY <2>1, <2>3, ResolvedCall
  <2>5. call' = [call EXCEPT ![t] = new] BY <1>7, <2>3
  <2> QED BY <1>1, <1>4, <1>5, <1>6, <2>2, <2>4, <2>5, GoesOn
<1>8. CASE c.refresh = 0 /\ call' = [call EXCEPT ![t] = Unresolved(c)]
  <2>1. PICK new : new = Unresolved(c) OBVIOUS
  <2>2. /\ new \in Calls /\ Same(new, c) /\ new.data = c.data
        /\ new.step \in {"render", "redirect"}
        /\ new.session \in {0, c.session} /\ new.cookies = c.cookies
    BY <2>1, UnresolvedCall
  <2>3. new.session <= issued BY <1>2, <1>3, <2>2 DEF TrueOf
  <2>4. call' = [call EXCEPT ![t] = new] BY <1>8, <2>1
  <2> QED BY <1>1, <1>4, <1>6, <2>2, <2>3, <2>4, GoesOn
<1>9. ASSUME NEW step \in {"wait", "refresh"}, step = "refresh" <=> ~InFlight(c.refresh),
             call' = [call EXCEPT ![t] = Refreshes(c, step)],
             c.access \in fresh => stranded'
      PROVE  TokenInv' /\ SubmitsKept
  <2>1. PICK new : new = Refreshes(c, step) OBVIOUS
  <2>3. step \in Steps BY KindsAndSteps
  <2>4. /\ new \in Calls /\ Same(new, c) /\ new.data = c.data /\ new.step = step
        /\ new.session = c.session /\ new.cookies = c.cookies
    BY <2>1, <2>3, RefreshesCall
  <2>5. /\ new.step = "refresh" => ~InFlight(new.refresh)
        /\ new.step = "wait" => InFlight(new.refresh)
        /\ call[t].step # "refresh"
    BY <1>1, <1>4, <1>9, <2>4 DEF Same
  <2>7. TrueOf(new, issued, fresh, stranded')
    <3>1. /\ new.access = new.refresh /\ new.refresh <= issued /\ new.session <= issued
          /\ new.cookies = 0
      BY <1>2, <1>5, <2>4 DEF TrueOf, Same
    <3>2. stranded' \/ new.access \notin fresh BY <1>9, <2>4 DEF Same
    <3>3. new.kind \notin Forms \cup {"logout"} BY <1>2, <1>4, <2>4 DEF TrueOf, Same
    <3> QED BY <1>9, <2>4, <3>1, <3>2, <3>3 DEF TrueOf
  <2>8. Follows(new, c, jar.guest) BY <1>4, <2>4 DEF Follows, Submits, Same
  <2>9. JarType' /\ TabType' BY <1>4, TokenFacts DEF JarType, TabType, tokenVars
  <2>10. call' = [call EXCEPT ![t] = new] BY <1>9, <2>1
  <2>11. /\ jar'.refresh = jar.refresh /\ jar'.guest = jar.guest /\ UNCHANGED tokenVars
         /\ call[t].cookies = 0
    BY <1>1, <1>4, <1>5
  <2> QED BY <1>1, <1>6, <2>4, <2>5, <2>7, <2>8, <2>9, <2>10, <2>11, Replaced
<1> DEFINE step == IF InFlight(c.refresh) THEN "wait" ELSE "refresh"
<1>10. step \in {"wait", "refresh"} /\ (step = "refresh" <=> ~InFlight(c.refresh)) OBVIOUS
<1>11. \/ c.access \in fresh /\ call' = [call EXCEPT ![t] = Resolved(c, c.access, 0)]
       \/ c.refresh = 0 /\ call' = [call EXCEPT ![t] = Unresolved(c)]
       \/ /\ call' = [call EXCEPT ![t] = Refreshes(c, step)]
          /\ c.access \in fresh => stranded'
  BY <1>1, Zenon DEF Validate, Refreshes
<1> HIDE DEF step
<1> QED BY <1>7, <1>8, <1>9, <1>10, <1>11

(* The calls of the tabs J are answered, the others are left alone while the
   tokens change. *)
LEMMA TokensMoved ==
  ASSUME TokenInv, NEW J \in SUBSET Tabs,
         issued' \in Tokens, issued <= issued', live' \subseteq 1 .. issued', fresh' \subseteq 1 .. issued',
         stranded' \in BOOLEAN, stranded => stranded',
         \A a \in fresh' : a \in fresh \/ a = issued + 1,
         stranded' \/ fresh' \subseteq live',
         JarType', TabType', call' \in [Tabs -> Calls],
         \A x \in J : /\ TrueOf(call'[x], issued', fresh', stranded')
                      /\ call'[x].step \notin {"refresh", "wait"},
         \A x \in Tabs \ J :
           /\ call'[x] = call[x]
           /\ call[x].cookies = 0 \/ call[x].cookies \in fresh',
         \A x \in Tabs \ J, y \in J :
           call[x].step = "wait" /\ call[y].step = "refresh" => call[x].refresh # call[y].refresh,
         SessionKept'
  PROVE  TokenInv'
<1>1. TokenTypes' BY DEF TokenTypes
<1>2. CallsTrue'
  <2> SUFFICES ASSUME NEW x \in Tabs
               PROVE  TrueOf(call'[x], issued', fresh', stranded')
    BY DEF CallsTrue
  <2>1. CASE x \in J BY <2>1
  <2>2. CASE x \notin J
    <3>1. PICK c \in Calls : c = call[x] BY TokenFacts
    <3>2. TrueOf(c, issued, fresh, stranded) BY <3>1, TokenFacts
    <3>3. issued \in Nat /\ issued' \in Nat /\ stranded \in BOOLEAN BY TokenFacts DEF Tokens
    <3>4. c.cookies = 0 \/ c.cookies \in fresh' BY <2>2, <3>1
    <3>6. c.access \in Nat /\ c.refresh \in Nat /\ c.session \in Nat BY DEF Calls
    <3>7. c.access = c.refresh /\ c.refresh <= issued /\ c.session <= issued BY <3>2 DEF TrueOf
    <3>8. c.access \notin fresh => c.access \notin fresh' BY <3>3, <3>6, <3>7
    <3>9. c.refresh <= issued' /\ c.session <= issued' BY <3>3, <3>6, <3>7
    <3>10. TrueOf(c, issued', fresh', stranded')
      BY <3>2, <3>4, <3>7, <3>8, <3>9 DEF TrueOf
    <3> QED BY <2>2, <3>1, <3>10
  <2> QED BY <2>1, <2>2
<1>3. FreshLive' BY DEF FreshLive
<1>4. OneFlight'
  <2> SUFFICES ASSUME NEW x \in Tabs, NEW y \in Tabs,
                      call'[x].step = "refresh", call'[y].step = "refresh",
                      call'[x].refresh = call'[y].refresh
               PROVE  x = y
    BY DEF OneFlight
  <2>1. x \notin J /\ y \notin J OBVIOUS
  <2> QED BY <2>1 DEF TokenInv, OneFlight
<1>5. WaitLed'
  <2> SUFFICES ASSUME NEW x \in Tabs, call'[x].step = "wait"
               PROVE  \E y \in Tabs : call'[y].step = "refresh" /\ call'[y].refresh = call'[x].refresh
    BY DEF WaitLed, InFlight
  <2>1. x \notin J /\ call'[x] = call[x] OBVIOUS
  <2>2. PICK y \in Tabs : call[y].step = "refresh" /\ call[y].refresh = call[x].refresh
    BY <2>1 DEF TokenInv, WaitLed, InFlight
  <2>3. y \notin J BY <2>1, <2>2
  <2> QED BY <2>1, <2>2, <2>3
<1> QED BY <1>1, <1>2, <1>3, <1>4, <1>5 DEF TokenInv

(* A token is exchanged: not one whose access token is still accepted, unless
   the new one goes nowhere. *)
LEMMA Exchanged ==
  ASSUME TokenInv, NEW r \in live, issued < MaxTokens, Exchange(r),
         stranded' \in BOOLEAN, stranded => stranded',
         r \in fresh => stranded'
  PROVE  /\ issued' \in Tokens /\ issued' \in Nat /\ issued <= issued' /\ issued' = issued + 1
         /\ live' \subseteq 1 .. issued' /\ fresh' \subseteq 1 .. issued'
         /\ \A a \in fresh' : a \in fresh \/ a = issued + 1
         /\ stranded' \/ fresh' \subseteq live'
         /\ fresh \subseteq fresh' /\ issued' \in live' /\ issued' \in fresh'
         /\ \A a \in live : a # r => a \in live'
<1>1. issued \in Nat /\ live \subseteq 1 .. issued /\ fresh \subseteq 1 .. issued BY TokenFacts
<1>2. issued' = issued + 1 /\ live' = (live \ {r}) \cup {issued'} /\ fresh' = fresh \cup {issued'}
  BY DEF Exchange
<1>3. issued' \in Tokens BY <1>1, <1>2, WebAssumption DEF Tokens
<1>4. 1 .. issued \subseteq 1 .. issued' /\ issued' \in 1 .. issued' BY <1>1, <1>2
<1>5. live' \subseteq 1 .. issued' /\ fresh' \subseteq 1 .. issued' BY <1>1, <1>2, <1>4
<1>6. stranded' \/ fresh' \subseteq live' BY <1>2 DEF TokenInv, FreshLive
<1> QED BY <1>1, <1>2, <1>3, <1>5, <1>6

(* The calls that waited for the exchange of a token go on together. *)
LEMMA SettledCalls ==
  ASSUME TokenInv, NEW t \in Tabs, call[t].step = "refresh", NEW n \in Nat, call' = Settled(t, n)
  PROVE  /\ Joined(t) \in SUBSET Tabs /\ t \in Joined(t)
         /\ call' \in [Tabs -> Calls]
         /\ \A x \in Joined(t) :
              /\ Same(call'[x], call[x]) /\ call'[x].data = call[x].data
              /\ call[x].step \in {"refresh", "wait"}
              /\ call'[x].step \in {"render", "redirect"}
              /\ \/ n # 0 /\ call'[x].session = n /\ call'[x].cookies = n
                 \/ n = 0 /\ call'[x].session \in {0, call[x].session} /\ call'[x].cookies = 0
         /\ \A x \in Tabs \ Joined(t) : call'[x] = call[x]
<1>1. Joined(t) \in SUBSET Tabs /\ t \in Joined(t) BY DEF Joined
<1>2. \A x \in Joined(t) : call[x].step \in {"refresh", "wait"} BY DEF Joined
<1>3. ASSUME NEW x \in Tabs
      PROVE  call'[x] = IF x \notin Joined(t) THEN call[x]
                        ELSE IF n # 0 THEN Resolved(call[x], n, n) ELSE Unresolved(call[x])
  BY DEF Settled
<1>4. ASSUME NEW x \in Joined(t)
      PROVE  /\ call'[x] \in Calls
             /\ Same(call'[x], call[x]) /\ call'[x].data = call[x].data
             /\ call'[x].step \in {"render", "redirect"}
             /\ \/ n # 0 /\ call'[x].session = n /\ call'[x].cookies = n
                \/ n = 0 /\ call'[x].session \in {0, call[x].session} /\ call'[x].cookies = 0
  <2>1. PICK c \in Calls : c = call[x] BY <1>1, <1>4, TokenFacts
  <2>2. c.cookies = 0 BY <1>1, <1>2, <2>1, NoCookies
  <2>3. CASE n # 0
    <3>1. call'[x] = Resolved(c, n, n) BY <1>1, <1>3, <2>1, <2>3
    <3> QED BY <2>1, <2>3, <3>1, ResolvedCall
  <2>4. CASE n = 0
    <3>1. call'[x] = Unresolved(c) BY <1>1, <1>3, <2>1, <2>4
    <3> QED BY <2>1, <2>2, <2>4, <3>1, UnresolvedCall
  <2> QED BY <2>3, <2>4
<1>5. call' \in [Tabs -> Calls]
  <2>1. \A x \in Tabs : call'[x] \in Calls BY <1>3, <1>4, TokenFacts
  <2>2. call' = [x \in Tabs |-> call'[x]] BY DEF Settled
  <2> QED BY <2>1, <2>2
<1> QED BY <1>1, <1>2, <1>3, <1>4, <1>5

LEMMA RefreshKeeps ==
  ASSUME TokenInv, NEW t \in Tabs, RefreshReturns(t)
  PROVE  TokenInv' /\ SubmitsKept
<1>1. PICK r : r = call[t].refresh OBVIOUS
<1>2. call[t].step = "refresh" /\ UNCHANGED <<jar, tab>> BY DEF RefreshReturns
<1>3. issued \in Nat /\ stranded \in BOOLEAN /\ live \subseteq 1 .. issued /\ fresh \subseteq 1 .. issued
  BY TokenFacts
<1>4. r \in fresh => stranded BY <1>1, <1>2, TokenFacts DEF TrueOf
<1>5. ASSUME NEW n \in Nat, call' = Settled(t, n),
             issued' \in Tokens, issued <= issued', live' \subseteq 1 .. issued', fresh' \subseteq 1 .. issued',
             stranded' \in BOOLEAN, stranded => stranded',
             \A a \in fresh' : a \in fresh \/ a = issued + 1,
             stranded' \/ fresh' \subseteq live', fresh \subseteq fresh',
             \A a \in live : a # r => a \in live',
             n = 0 => stranded' \/ live' = live,
             n # 0 => n <= issued' /\ n \in fresh' /\ n \in live'
      PROVE  TokenInv' /\ SubmitsKept
  <2>1. /\ Joined(t) \in SUBSET Tabs /\ t \in Joined(t)
        /\ call' \in [Tabs -> Calls]
        /\ \A x \in Joined(t) :
             /\ Same(call'[x], call[x]) /\ call'[x].data = call[x].data
             /\ call[x].step \in {"refresh", "wait"}
             /\ call'[x].step \in {"render", "redirect"}
             /\ \/ n # 0 /\ call'[x].session = n /\ call'[x].cookies = n
                \/ n = 0 /\ call'[x].session \in {0, call[x].session} /\ call'[x].cookies = 0
        /\ \A x \in Tabs \ Joined(t) : call'[x] = call[x]
    BY <1>2, <1>5, SettledCalls
  <2>2. \A x \in Joined(t) : /\ TrueOf(call'[x], issued', fresh', stranded')
                             /\ call'[x].step \notin {"refresh", "wait"}
    <3> SUFFICES ASSUME NEW x \in Joined(t)
                 PROVE  /\ TrueOf(call'[x], issued', fresh', stranded')
                        /\ call'[x].step \notin {"refresh", "wait"}
      OBVIOUS
    <3>1. PICK c \in Calls : c = call[x] BY <2>1, TokenFacts
    <3>2. PICK d \in Calls : d = call'[x] BY <2>1
    <3>3. TrueOf(c, issued, fresh, stranded) BY <2>1, <3>1, TokenFacts
    <3>4. /\ Same(d, c) /\ c.step \in {"refresh", "wait"} /\ d.step \in {"render", "redirect"}
          /\ \/ n # 0 /\ d.session = n /\ d.cookies = n
             \/ n = 0 /\ d.session \in {0, c.session} /\ d.cookies = 0
      BY <2>1, <3>1, <3>2
    <3>5. d.access = d.refresh /\ d.refresh <= issued'
      <4>1. c.access = c.refresh /\ c.refresh <= issued /\ c.refresh \in Nat BY <3>3 DEF TrueOf, Calls
      <4>2. issued' \in Nat BY <1>5 DEF Tokens
      <4> QED BY <1>3, <1>5, <3>4, <4>1, <4>2 DEF Same
    <3>6. d.session <= issued'
      <4>1. c.session <= issued /\ c.session \in Nat BY <3>3 DEF TrueOf, Calls
      <4>2. issued' \in Nat BY <1>5 DEF Tokens
      <4> QED BY <1>3, <1>5, <3>4, <4>1, <4>2
    <3>7. d.kind \notin Forms \cup {"logout"}
      BY <3>3, <3>4 DEF TrueOf, Same
    <3>8. d.cookies \in fresh' \cup {0} BY <1>5, <3>4
    <3> QED BY <3>2, <3>4, <3>5, <3>6, <3>7, <3>8 DEF TrueOf
  <2>3. ASSUME NEW x \in Tabs \ Joined(t)
        PROVE  /\ call'[x] = call[x]
               /\ call[x].cookies = 0 \/ call[x].cookies \in fresh'
    <3>1. call[x].cookies = 0 \/ call[x].cookies \in fresh' BY <1>5, TokenFacts DEF TrueOf
    <3> QED BY <2>1, <3>1
  <2>4. SessionKept'
    <3> SUFFICES ASSUME ~stranded'
                 PROVE  jar'.refresh \in live' \cup {0} \/ \E x \in Tabs : call'[x].cookies \in live'
      BY DEF SessionKept
    <3>1. CASE n # 0
      <4>1. call'[t].cookies = n /\ n \in live' BY <1>5, <2>1, <3>1
      <4> QED BY <4>1
    <3>2. CASE n = 0
      <4>1. live' = live /\ ~stranded BY <1>5, <3>2
      <4>2. \A x \in Tabs : call[x].cookies \in live => x \notin Joined(t)
        <5> SUFFICES ASSUME NEW x \in Tabs, call[x].cookies \in live, x \in Joined(t) PROVE FALSE
          OBVIOUS
        <5>1. call[x].step \in {"refresh", "wait"} BY <2>1
        <5>2. call[x].cookies = 0 BY <5>1, NoCookies
        <5> QED BY <1>3, <5>2
      <4> QED BY <1>2, <2>1, <4>1, <4>2 DEF TokenInv, SessionKept
    <3> QED BY <3>1, <3>2
  <2>5. JarType' /\ TabType'
    <3>1. jar.refresh \in Nat BY TokenFacts DEF Jars
    <3>2. issued' \in Nat BY <1>5 DEF Tokens
    <3> QED BY <1>2, <1>3, <1>5, <3>1, <3>2, TokenFacts DEF JarType, TabType
  <2>6. SubmitsKept
    <3> SUFFICES ASSUME NEW x \in Tabs PROVE Follows(call'[x], call[x], jar.guest)
      BY <1>2 DEF SubmitsKept
    <3>1. CASE x \in Joined(t) BY <2>1, <3>1 DEF Follows, Submits, Same
    <3>2. CASE x \notin Joined(t) BY <2>1, <3>2 DEF Follows
    <3> QED BY <3>1, <3>2
  <2>7. \A x \in Tabs \ Joined(t), y \in Joined(t) :
          call[x].step = "wait" /\ call[y].step = "refresh" => call[x].refresh # call[y].refresh
    BY DEF Joined
  <2>8. TokenInv' BY <1>5, <2>1, <2>2, <2>3, <2>4, <2>5, <2>7, TokensMoved
  <2> QED BY <2>6, <2>8
<1>6. CASE /\ r \in live /\ issued < MaxTokens /\ Exchange(r)
           /\ \/ call' = Settled(t, issued') /\ UNCHANGED stranded
              \/ call' = Settled(t, 0) /\ stranded' = TRUE
  <2>1. /\ stranded' \in BOOLEAN /\ (stranded => stranded') /\ (r \in fresh => stranded')
        /\ \/ call' = Settled(t, issued')
           \/ call' = Settled(t, 0) /\ stranded'
    <3>1. CASE call' = Settled(t, issued') /\ stranded' = stranded BY <1>3, <1>4, <3>1
    <3>2. CASE call' = Settled(t, 0) /\ stranded' = TRUE BY <3>2
    <3> QED BY <1>6, <3>1, <3>2, Zenon
  <2>2. /\ issued' \in Tokens /\ issued' \in Nat /\ issued <= issued' /\ issued' = issued + 1
        /\ live' \subseteq 1 .. issued' /\ fresh' \subseteq 1 .. issued'
        /\ \A a \in fresh' : a \in fresh \/ a = issued + 1
        /\ stranded' \/ fresh' \subseteq live'
        /\ fresh \subseteq fresh' /\ issued' \in live' /\ issued' \in fresh'
        /\ \A a \in live : a # r => a \in live'
    BY <1>4, <1>6, <2>1, Exchanged
  <2>3. CASE call' = Settled(t, issued')
    <3>1. PICK n \in Nat : n = issued' BY <2>2
    <3>2. call' = Settled(t, n) /\ n # 0 BY <1>3, <2>2, <2>3, <3>1
    <3> QED BY <1>5, <2>1, <2>2, <3>1, <3>2
  <2>4. CASE call' = Settled(t, 0) /\ stranded' BY <1>5, <2>1, <2>2, <2>4
  <2> QED BY <2>1, <2>3, <2>4
<1>7. CASE UNCHANGED tokenVars /\ UNCHANGED stranded /\ call' = Settled(t, 0)
  <2>1. issued' = issued /\ live' = live /\ fresh' = fresh /\ stranded' = stranded
    BY <1>7 DEF tokenVars
  <2> QED BY <1>3, <1>5, <1>7, <2>1, TokenFacts DEF TokenInv, FreshLive
<1> QED BY <1>1, <1>6, <1>7, Zenon DEF RefreshReturns

LEMMA RenderedCall ==
  ASSUME NEW c \in Calls, NEW ok \in BOOLEAN,
         NEW d, d = [c EXCEPT !.step = "reply", !.served = ok]
  PROVE  /\ d \in Calls /\ Same(d, c) /\ d.data = c.data /\ d.step = "reply"
         /\ d.session = c.session /\ d.cookies = c.cookies
<1>1. "reply" \in Steps BY KindsAndSteps
<1> QED BY <1>1 DEF Calls, Same

LEMMA RenderedKeeps ==
  ASSUME TokenInv, NEW t \in Tabs, call[t].step = "render", call[t].kind = "page",
         NEW ok \in BOOLEAN, Rendered(t, ok),
         UNCHANGED <<jar, tokenVars, tab, stranded>>
  PROVE  TokenInv' /\ SubmitsKept
<1>1. PICK c \in Calls : c = call[t] BY TokenFacts
<1>2. PICK new : new = [c EXCEPT !.step = "reply", !.served = ok] OBVIOUS
<1>3. /\ new \in Calls /\ Same(new, c) /\ new.data = c.data /\ new.step = "reply"
      /\ new.session = c.session /\ new.cookies = c.cookies
  BY <1>2, RenderedCall
<1>4. call' = [call EXCEPT ![t] = new] BY <1>1, <1>2 DEF Rendered
<1>5. new.session <= issued BY <1>1, <1>3, TokenFacts DEF TrueOf
<1>6. stranded' \in BOOLEAN /\ (stranded => stranded') BY TokenFacts
<1> QED BY <1>1, <1>3, <1>4, <1>5, <1>6, GoesOn

LEMMA RedirectedKeeps ==
  ASSUME TokenInv, NEW t \in Tabs, call[t].step = "render", call[t].kind = "page",
         NEW page \in Pages, call' = [call EXCEPT ![t] = Redirect(@, page)],
         UNCHANGED <<jar, tokenVars, tab, stranded>>
  PROVE  TokenInv' /\ SubmitsKept
<1>1. PICK c \in Calls : c = call[t] BY TokenFacts
<1>2. PICK new : new = Redirect(c, page) OBVIOUS
<1>3. /\ new \in Calls /\ Same(new, c) /\ new.data = c.data /\ new.step = "redirect"
      /\ new.session = 0 /\ new.cookies = c.cookies
  BY <1>2, RedirectCall
<1>4. call' = [call EXCEPT ![t] = new] BY <1>1, <1>2
<1>5. new.session <= issued BY <1>3, TokenFacts
<1>6. stranded' \in BOOLEAN /\ (stranded => stranded') BY TokenFacts
<1> QED BY <1>1, <1>3, <1>4, <1>5, <1>6, GoesOn

LEMMA RenderKeeps ==
  ASSUME TokenInv, NEW t \in Tabs, RenderAuth(t) \/ RenderHome(t) \/ RenderTryout(t)
  PROVE  TokenInv' /\ SubmitsKept
<1>1. call[t].step = "render" /\ call[t].kind = "page"
  BY DEF RenderAuth, RenderHome, RenderTryout, Renders
<1>2. UNCHANGED <<jar, tokenVars, tab, stranded>> BY DEF RenderAuth, RenderHome, RenderTryout
<1>3. "home" \in Pages /\ "dashboard" \in Pages BY KindsAndSteps
<1>4. CASE Rendered(t, TRUE) BY <1>1, <1>2, <1>4, RenderedKeeps
<1>5. CASE call' = [call EXCEPT ![t] = Redirect(@, "home")]
  BY <1>1, <1>2, <1>3, <1>5, RedirectedKeeps
<1>6. CASE call' = [call EXCEPT ![t] = Redirect(@, "dashboard")]
  BY <1>1, <1>2, <1>3, <1>6, RedirectedKeeps
<1> QED BY <1>4, <1>5, <1>6, Zenon DEF RenderAuth, RenderHome, RenderTryout

LEMMA DashboardKeeps ==
  ASSUME TokenInv, NEW t \in Tabs, RenderDashboard(t)
  PROVE  TokenInv' /\ SubmitsKept
<1>1. PICK c \in Calls : c = call[t] BY TokenFacts
<1>2. /\ c.step = "render" /\ c.kind = "page" /\ UNCHANGED <<jar, tab>>
      /\ call[t].step = "render" /\ call[t].kind = "page"
  BY <1>1 DEF RenderDashboard, Renders
<1> DEFINE ok == c.access \in fresh
<1>3. ok \in BOOLEAN OBVIOUS
<1>4. \/ Rendered(t, ok) /\ UNCHANGED <<tokenVars, stranded>>
      \/ /\ c.refresh \in live /\ issued # MaxTokens
         /\ Rendered(t, TRUE) /\ Exchange(c.refresh) /\ stranded' = TRUE
  BY <1>1, Zenon DEF RenderDashboard
<1> HIDE DEF ok
<1>5. CASE Rendered(t, ok) /\ UNCHANGED <<tokenVars, stranded>> BY <1>2, <1>3, <1>5, RenderedKeeps
<1>6. CASE /\ c.refresh \in live /\ issued # MaxTokens
           /\ Rendered(t, TRUE) /\ Exchange(c.refresh) /\ stranded' = TRUE
  <2>1. PICK new : new = [c EXCEPT !.step = "reply", !.served = TRUE] OBVIOUS
  <2>2. /\ new \in Calls /\ Same(new, c) /\ new.data = c.data /\ new.step = "reply"
        /\ new.session = c.session /\ new.cookies = c.cookies
    BY <2>1, RenderedCall
  <2>3. call' = [call EXCEPT ![t] = new] BY <1>1, <1>6, <2>1 DEF Rendered
  <2>4. \A x \in Tabs : call'[x] = IF x = t THEN new ELSE call[x] BY <2>3, TokenFacts
  <2>5. issued < MaxTokens /\ issued \in Nat BY <1>6, TokenFacts, WebAssumption DEF Tokens
  <2>6. stranded' /\ stranded' \in BOOLEAN BY <1>6
  <2>7. /\ issued' \in Tokens /\ issued' \in Nat /\ issued <= issued' /\ issued' = issued + 1
        /\ live' \subseteq 1 .. issued' /\ fresh' \subseteq 1 .. issued'
        /\ \A a \in fresh' : a \in fresh \/ a = issued + 1
        /\ fresh \subseteq fresh'
    BY <1>6, <2>5, <2>6, Exchanged
  <2>8. TrueOf(c, issued, fresh, stranded) BY <1>1, TokenFacts
  <2>9. TrueOf(new, issued', fresh', stranded')
    <3>1. /\ c.access = c.refresh /\ c.refresh <= issued /\ c.session <= issued
          /\ c.cookies \in fresh \cup {0} /\ c.kind \notin Forms \cup {"logout"}
          /\ c.refresh \in Nat /\ c.session \in Nat
      BY <1>2, <2>8 DEF TrueOf, Calls
    <3>2. c.refresh <= issued' /\ c.session <= issued' BY <2>5, <2>7, <3>1
    <3> QED BY <2>2, <2>7, <3>1, <3>2 DEF TrueOf, Same
  <2>10. \A x \in Tabs \ {t} : /\ call'[x] = call[x]
                               /\ call[x].cookies = 0 \/ call[x].cookies \in fresh'
    BY <2>4, <2>7, TokenFacts DEF TrueOf
  <2>11. call' \in [Tabs -> Calls] BY <2>2, <2>3, TokenFacts
  <2>12. JarType' /\ TabType'
    <3>1. jar.refresh \in Nat /\ jar.refresh <= issued BY TokenFacts DEF Jars, JarType
    <3> QED BY <1>2, <2>5, <2>7, <3>1, TokenFacts DEF JarType, TabType
  <2>13. SessionKept' BY <2>6 DEF SessionKept
  <2>14. {t} \in SUBSET Tabs OBVIOUS
  <2>15. \A x \in {t} : /\ TrueOf(call'[x], issued', fresh', stranded')
                        /\ call'[x].step \notin {"refresh", "wait"} /\ call[x].step # "refresh"
    BY <1>2, <2>2, <2>4, <2>9
  <2>16. TokenInv' BY <2>6, <2>7, <2>10, <2>11, <2>12, <2>13, <2>14, <2>15, TokensMoved
  <2>17. SubmitsKept
    <3>1. \A x \in Tabs \ {t} : Follows(call'[x], call[x], jar.guest) BY <2>4 DEF Follows
    <3>2. Follows(call'[t], call[t], jar.guest)
      BY <1>1, <1>2, <2>2, <2>4 DEF Follows, Submits, Same
    <3> QED BY <1>2, <3>1, <3>2 DEF SubmitsKept
  <2> QED BY <2>16, <2>17
<1> QED BY <1>4, <1>5, <1>6

(* The browser takes the cookies of an answer. *)
LEMMA Taken ==
  ASSUME TokenInv, NEW t \in Tabs, NEW j, j = After(call[t])
  PROVE  /\ j \in Jars /\ j.access = j.refresh /\ j.refresh <= issued /\ j.guest = jar.guest
         /\ \/ call[t].cookies = 0 /\ j.refresh = jar.refresh
            \/ call[t].cookies # 0 /\ j.refresh = call[t].cookies
<1>1. PICK c \in Calls : c = call[t] BY TokenFacts
<1>2. PICK k \in Jars : k = jar BY TokenFacts
<1>3. k.access = k.refresh /\ k.refresh <= issued BY <1>2, TokenFacts DEF JarType
<1>4. CASE c.cookies = 0
  <2>1. j = k BY <1>1, <1>2, <1>4 DEF After
  <2> QED BY <1>1, <1>2, <1>3, <1>4, <2>1
<1>5. CASE c.cookies # 0
  <2>1. j = [k EXCEPT !.access = c.cookies, !.refresh = c.cookies]
    BY <1>1, <1>2, <1>5 DEF After
  <2>2. c.cookies \in Nat /\ c.cookies <= issued
    <3>1. c.cookies \in fresh \cup {0} /\ fresh \subseteq 1 .. issued /\ issued \in Nat
      BY <1>1, TokenFacts DEF TrueOf
    <3>2. c.cookies \in 1 .. issued BY <1>5, <3>1
    <3> QED BY <3>1, <3>2
  <2> QED BY <1>1, <1>2, <1>5, <2>1, <2>2 DEF Jars
<1> QED BY <1>4, <1>5

(* An answer leads to another page, which is asked for with the cookies the
   browser has then. *)
LEMMA LeadsOn ==
  ASSUME TokenInv, NEW t \in Tabs, NEW j \in Jars, j.access = j.refresh, j.refresh <= issued,
         NEW page \in Pages, jar' = j, call' = [call EXCEPT ![t] = PageCall(page, j)],
         UNCHANGED <<tokenVars, stranded>>, TabType',
         \/ call[t].cookies = 0 /\ j.refresh = jar.refresh
         \/ call[t].cookies # 0 /\ j.refresh = call[t].cookies
         \/ j.refresh = 0,
         call[t].step # "refresh"
  PROVE  TokenInv' /\ (jar'.guest = jar.guest => SubmitsKept)
<1>1. PICK new : new = Sent("page", page, "validate", j) OBVIOUS
<1>2. IsSent(new, "page", page, "validate", j)
  <2>1. "page" \in Kinds /\ "validate" \in Steps BY KindsAndSteps
  <2> QED BY <1>1, <2>1, SentCall
<1>3. call' = [call EXCEPT ![t] = new] BY <1>1 DEF PageCall
<1>4. TrueOf(new, issued, fresh, stranded')
  BY <1>2, TokenFacts DEF IsSent, TrueOf, Forms
<1>5. jar'.guest = jar.guest => Follows(new, call[t], jar.guest)
  BY <1>2 DEF IsSent, Follows, Submits
<1>6. JarType' BY TokenFacts DEF JarType, tokenVars
<1>7. new \in Calls /\ new.step \notin {"refresh", "wait"} BY <1>2 DEF IsSent
<1>8. stranded' \in BOOLEAN /\ (stranded => stranded') BY TokenFacts
<1>9. \/ jar'.refresh = jar.refresh /\ call[t].cookies \in {0, new.cookies}
      \/ call[t].cookies # 0 /\ jar'.refresh = call[t].cookies
      \/ jar'.refresh = 0
  OBVIOUS
<1>10. UNCHANGED tokenVars OBVIOUS
<1> QED BY <1>3, <1>4, <1>5, <1>6, <1>7, <1>8, <1>9, <1>10, Replaced

LEMMA FollowKeeps ==
  ASSUME TokenInv, NEW t \in Tabs, Follow(t)
  PROVE  TokenInv' /\ SubmitsKept
<1>1. PICK c \in Calls : c = call[t] BY TokenFacts
<1>2. PICK j : j = After(call[t]) OBVIOUS
<1>3. /\ j \in Jars /\ j.access = j.refresh /\ j.refresh <= issued /\ j.guest = jar.guest
      /\ \/ call[t].cookies = 0 /\ j.refresh = jar.refresh
         \/ call[t].cookies # 0 /\ j.refresh = call[t].cookies
  BY <1>2, Taken
<1>4. /\ jar' = j /\ UNCHANGED <<tokenVars, tab, stranded>> /\ call[t].step # "refresh"
      /\ call' = [call EXCEPT ![t] = PageCall(c.page, j)]
  BY <1>1, <1>2 DEF Follow
<1>5. TabType' BY <1>4, TokenFacts DEF TabType
<1>6. c.page \in Pages BY DEF Calls
<1> QED BY <1>3, <1>4, <1>5, <1>6, LeadsOn

(* An answer that a page does not go on from. *)
LEMMA EndsKeep ==
  ASSUME TokenInv, NEW t \in Tabs, call' = [call EXCEPT ![t] = NoCall], UNCHANGED tokenVars,
         stranded' \in BOOLEAN, stranded => stranded', JarType', TabType',
         jar'.guest \in Nat,
         \/ jar'.refresh = jar.refresh /\ (stranded' \/ call[t].cookies = 0)
         \/ call[t].cookies # 0 /\ jar'.refresh = call[t].cookies,
         call[t].step # "refresh"
  PROVE  TokenInv' /\ (jar'.guest = jar.guest => SubmitsKept)
<1>1. PICK new \in Calls : new = NoCall BY NoneUnderWay
<1>2. call' = [call EXCEPT ![t] = new] BY <1>1
<1>3. new.step \notin {"refresh", "wait"} BY <1>1, NoneUnderWay
<1>4. TrueOf(new, issued, fresh, stranded')
  BY <1>1, NoneUnderWay, TokenFacts DEF TrueOf, Forms
<1>5. Follows(new, call[t], jar.guest) BY <1>1, NoneUnderWay DEF Follows, Submits
<1> QED BY <1>2, <1>3, <1>4, <1>5, Replaced

LEMMA ShowKeeps ==
  ASSUME TokenInv, NEW t \in Tabs, Show(t)
  PROVE  TokenInv' /\ SubmitsKept
<1>1. /\ jar' = After(call[t]) /\ UNCHANGED <<tokenVars, stranded>>
      /\ call' = [call EXCEPT ![t] = NoCall] /\ call[t].step # "refresh"
  BY DEF Show
<1>2. PICK j : j = jar' OBVIOUS
<1>3. /\ j \in Jars /\ j.access = j.refresh /\ j.refresh <= issued /\ j.guest = jar.guest
      /\ \/ call[t].cookies = 0 /\ j.refresh = jar.refresh
         \/ call[t].cookies # 0 /\ j.refresh = call[t].cookies
  BY <1>1, <1>2, Taken
<1>4. JarType' BY <1>1, <1>2, <1>3, TokenFacts DEF JarType, tokenVars
<1>5. TabType'
  <2>1. PICK c \in Calls : c = call[t] BY TokenFacts
  <2>2. tab' = [tab EXCEPT ![t] = [page |-> c.page, data |-> c.data]] BY <2>1 DEF Show
  <2>3. [page |-> c.page, data |-> c.data] \in [page : Pages \cup {"none"}, data : Nat]
    BY DEF Calls
  <2> QED BY <2>2, <2>3, TokenFacts DEF TabType
<1>6. stranded' \in BOOLEAN /\ (stranded => stranded') BY <1>1, TokenFacts
<1>7. /\ jar'.guest \in Nat /\ jar'.guest = jar.guest
      /\ \/ jar'.refresh = jar.refresh /\ (stranded' \/ call[t].cookies = 0)
         \/ call[t].cookies # 0 /\ jar'.refresh = call[t].cookies
  BY <1>2, <1>3 DEF Jars
<1> QED BY <1>1, <1>4, <1>5, <1>6, <1>7, EndsKeep

LEMMA ApiReturnsKeeps ==
  ASSUME TokenInv, NEW t \in Tabs, ApiReturns(t)
  PROVE  TokenInv' /\ SubmitsKept
<1>1. /\ jar' = After(call[t]) /\ UNCHANGED <<tokenVars, tab, stranded>>
      /\ call' = [call EXCEPT ![t] = NoCall] /\ call[t].step # "refresh"
  BY DEF ApiReturns
<1>2. PICK j : j = jar' OBVIOUS
<1>3. /\ j \in Jars /\ j.access = j.refresh /\ j.refresh <= issued /\ j.guest = jar.guest
      /\ \/ call[t].cookies = 0 /\ j.refresh = jar.refresh
         \/ call[t].cookies # 0 /\ j.refresh = call[t].cookies
  BY <1>1, <1>2, Taken
<1>4. JarType' /\ TabType' BY <1>1, <1>2, <1>3, TokenFacts DEF JarType, TabType, tokenVars
<1>5. stranded' \in BOOLEAN /\ (stranded => stranded') BY <1>1, TokenFacts
<1>6. /\ jar'.guest \in Nat /\ jar'.guest = jar.guest
      /\ \/ jar'.refresh = jar.refresh /\ (stranded' \/ call[t].cookies = 0)
         \/ call[t].cookies # 0 /\ jar'.refresh = call[t].cookies
  BY <1>2, <1>3 DEF Jars
<1> QED BY <1>1, <1>4, <1>5, <1>6, EndsKeep

(* The calls of a test are answered, those that joined the gateway's exchange
   of their token with the cookies of the new one. *)
LEMMA AnsweredCalls ==
  ASSUME TokenInv, NEW J \in SUBSET Tabs, \A x \in J : call[x].step = "api",
         NEW n \in Nat, NEW net \in {"ok", "refused", "lost"}, ApiAnswered(J, n, net)
  PROVE  /\ call' \in [Tabs -> Calls]
         /\ \A x \in J :
              /\ call[x].kind = "api" /\ call[x].cookies = 0
              /\ call'[x].kind = "api" /\ call'[x].step = "reply" /\ call'[x].cookies = n
              /\ call'[x].access = call[x].access /\ call'[x].refresh = call[x].refresh
              /\ call'[x].guest = call[x].guest /\ call'[x].session = call[x].session
         /\ \A x \in Tabs \ J : call'[x] = call[x]
<1>1. ASSUME NEW x \in J
      PROVE  /\ call[x].kind = "api" /\ call[x].cookies = 0 /\ call'[x] \in Calls
             /\ call'[x].kind = "api" /\ call'[x].step = "reply" /\ call'[x].cookies = n
             /\ call'[x].access = call[x].access /\ call'[x].refresh = call[x].refresh
             /\ call'[x].guest = call[x].guest /\ call'[x].session = call[x].session
  <2>1. PICK c \in Calls : c = call[x] BY TokenFacts
  <2>2. PICK d : d = [c EXCEPT !.step = "reply", !.cookies = n, !.net = net] OBVIOUS
  <2>3. /\ d \in Calls /\ d.kind = c.kind /\ d.step = "reply" /\ d.cookies = n
        /\ d.access = c.access /\ d.refresh = c.refresh
        /\ d.guest = c.guest /\ d.session = c.session
    BY <2>2, KindsAndSteps DEF Calls
  <2>4. call'[x] = d BY <2>1, <2>2 DEF ApiAnswered
  <2>5. c.kind = "api"
    <3>1. c.step = "api" BY <2>1
    <3> QED BY <2>1, <3>1, TokenFacts DEF TrueOf
  <2>6. call[x].cookies = 0 BY NoCookies
  <2> QED BY <2>1, <2>3, <2>4, <2>5, <2>6
<1>2. \A x \in Tabs \ J : call'[x] = call[x] BY DEF ApiAnswered
<1>3. call' \in [Tabs -> Calls]
  <2>1. \A x \in Tabs : call'[x] \in Calls BY <1>1, <1>2, TokenFacts
  <2>2. call' = [x \in Tabs |-> call'[x]] BY DEF ApiAnswered
  <2> QED BY <2>1, <2>2
<1> QED BY <1>1, <1>2, <1>3

LEMMA ApiServedKeeps ==
  ASSUME TokenInv, NEW t \in Tabs, ApiServed(t)
  PROVE  TokenInv' /\ SubmitsKept
<1>1. PICK r \in Nat : r = call[t].refresh BY TokenFacts DEF Calls
<1>2. call[t].step = "api" /\ call[t].access = r /\ UNCHANGED <<jar, tab>>
  BY <1>1, TokenFacts DEF ApiServed, TrueOf
<1>3. issued \in Nat /\ stranded \in BOOLEAN /\ live \subseteq 1 .. issued /\ fresh \subseteq 1 .. issued
  BY TokenFacts
<1>4. ASSUME NEW J \in SUBSET Tabs, t \in J, \A x \in J : call[x].step = "api",
             NEW n \in Nat, NEW net \in {"ok", "refused", "lost"}, ApiAnswered(J, n, net),
             issued' \in Tokens, issued <= issued', live' \subseteq 1 .. issued', fresh' \subseteq 1 .. issued',
             stranded' \in BOOLEAN, stranded => stranded',
             \A a \in fresh' : a \in fresh \/ a = issued + 1,
             stranded' \/ fresh' \subseteq live', fresh \subseteq fresh',
             n = 0 => stranded' \/ live' = live,
             n # 0 => n \in fresh' /\ n \in live'
      PROVE  TokenInv' /\ SubmitsKept
  <2>1. /\ call' \in [Tabs -> Calls]
        /\ \A x \in J :
             /\ call[x].kind = "api" /\ call[x].cookies = 0
             /\ call'[x].kind = "api" /\ call'[x].step = "reply" /\ call'[x].cookies = n
             /\ call'[x].access = call[x].access /\ call'[x].refresh = call[x].refresh
             /\ call'[x].guest = call[x].guest /\ call'[x].session = call[x].session
        /\ \A x \in Tabs \ J : call'[x] = call[x]
    BY <1>4, AnsweredCalls
  <2>2. issued' \in Nat BY <1>4 DEF Tokens
  <2>3. ASSUME NEW x \in J
        PROVE  /\ TrueOf(call'[x], issued', fresh', stranded')
               /\ call'[x].step \notin {"refresh", "wait"}
    <3>1. PICK c \in Calls : c = call[x] BY TokenFacts
    <3>2. PICK d \in Calls : d = call'[x] BY <2>1
    <3>3. /\ d.kind = "api" /\ d.step = "reply" /\ d.cookies = n
          /\ d.access = c.access /\ d.refresh = c.refresh /\ d.session = c.session
      BY <2>1, <3>1, <3>2
    <3>4. /\ c.access = c.refresh /\ c.refresh <= issued /\ c.session <= issued
          /\ c.refresh \in Nat /\ c.session \in Nat
      BY <3>1, TokenFacts DEF TrueOf, Calls
    <3>5. d.access = d.refresh /\ d.refresh <= issued' /\ d.session <= issued'
      BY <1>3, <1>4, <2>2, <3>3, <3>4
    <3>6. d.cookies \in fresh' \cup {0} BY <1>4, <3>3
    <3>7. d.kind \notin Forms \cup {"logout"} BY <3>3 DEF Forms
    <3> QED BY <3>2, <3>3, <3>5, <3>6, <3>7 DEF TrueOf
  <2>4. ASSUME NEW x \in Tabs \ J
        PROVE  /\ call'[x] = call[x]
               /\ call[x].cookies = 0 \/ call[x].cookies \in fresh'
    BY <1>4, <2>1, TokenFacts DEF TrueOf
  <2>5. SessionKept'
    <3> SUFFICES ASSUME ~stranded'
                 PROVE  jar'.refresh \in live' \cup {0} \/ \E x \in Tabs : call'[x].cookies \in live'
      BY DEF SessionKept
    <3>1. CASE n # 0
      <4>1. call'[t].cookies = n /\ n \in live' BY <1>4, <2>1, <3>1
      <4> QED BY <4>1
    <3>2. CASE n = 0
      <4>1. live' = live /\ ~stranded BY <1>4, <3>2
      <4>2. \A x \in Tabs : call[x].cookies \in live => x \notin J BY <1>3, <2>1
      <4> QED BY <1>2, <2>1, <4>1, <4>2 DEF TokenInv, SessionKept
    <3> QED BY <3>1, <3>2
  <2>6. JarType' /\ TabType'
    <3>1. jar.refresh \in Nat BY TokenFacts DEF Jars
    <3> QED BY <1>2, <1>3, <1>4, <2>2, <3>1, TokenFacts DEF JarType, TabType
  <2>7. \A x \in Tabs \ J, y \in J :
          call[x].step = "wait" /\ call[y].step = "refresh" => call[x].refresh # call[y].refresh
    BY <1>4
  <2>8. TokenInv' BY <1>4, <2>1, <2>3, <2>4, <2>5, <2>6, <2>7, TokensMoved
  <2>9. SubmitsKept
    <3> SUFFICES ASSUME NEW x \in Tabs PROVE Follows(call'[x], call[x], jar.guest)
      BY <1>2 DEF SubmitsKept
    <3>1. CASE x \in J BY <2>1, <3>1 DEF Follows, Submits
    <3>2. CASE x \notin J BY <2>1, <3>2 DEF Follows
    <3> QED BY <3>1, <3>2
  <2> QED BY <2>8, <2>9
<1>5. ASSUME NEW net \in {"ok", "refused"}, ApiAnswered({t}, 0, net), UNCHANGED <<tokenVars, stranded>>
      PROVE  TokenInv' /\ SubmitsKept
  <2>1. issued' = issued /\ live' = live /\ fresh' = fresh /\ stranded' = stranded
    BY <1>5 DEF tokenVars
  <2>2. stranded \/ fresh \subseteq live BY DEF TokenInv, FreshLive
  <2>3. PICK J \in SUBSET Tabs : J = {t} OBVIOUS
  <2>4. PICK n \in Nat : n = 0 OBVIOUS
  <2>5. t \in J /\ ApiAnswered(J, n, net) /\ \A x \in J : call[x].step = "api"
    BY <1>2, <1>5, <2>3, <2>4
  <2>6. /\ issued' \in Tokens /\ issued <= issued'
        /\ live' \subseteq 1 .. issued' /\ fresh' \subseteq 1 .. issued'
        /\ stranded' \in BOOLEAN /\ (stranded => stranded')
        /\ \A a \in fresh' : a \in fresh \/ a = issued + 1
        /\ stranded' \/ fresh' \subseteq live'
        /\ fresh \subseteq fresh' /\ live' = live
    BY <1>3, <2>1, <2>2, TokenFacts
  <2>7. net \in {"ok", "refused", "lost"} OBVIOUS
  <2> QED BY <1>4, <2>4, <2>5, <2>6, <2>7
<1>6. ASSUME NEW J \in Joining(t), r \in live, issued < MaxTokens, Exchange(r),
             \/ /\ ApiAnswered(J, issued', "ok")
                /\ IF r \in fresh THEN stranded' = TRUE ELSE UNCHANGED stranded
             \/ ApiAnswered(J, 0, "lost") /\ stranded' = TRUE
      PROVE  TokenInv' /\ SubmitsKept
  <2>1. J \in SUBSET Tabs /\ t \in J /\ \A x \in J : call[x].step = "api" BY <1>6 DEF Joining
  <2>2. stranded' \in BOOLEAN /\ (stranded => stranded') /\ (r \in fresh => stranded')
    BY <1>3, <1>6
  <2>3. /\ issued' \in Tokens /\ issued' \in Nat /\ issued <= issued' /\ issued' = issued + 1
        /\ live' \subseteq 1 .. issued' /\ fresh' \subseteq 1 .. issued'
        /\ \A a \in fresh' : a \in fresh \/ a = issued + 1
        /\ stranded' \/ fresh' \subseteq live'
        /\ fresh \subseteq fresh' /\ issued' \in live' /\ issued' \in fresh'
    BY <1>6, <2>2, Exchanged
  <2>4. CASE ApiAnswered(J, issued', "ok")
    <3>1. PICK n \in Nat : n = issued' BY <2>3
    <3>2. ApiAnswered(J, n, "ok") /\ n # 0 BY <1>3, <2>3, <2>4, <3>1
    <3> QED BY <1>4, <2>1, <2>2, <2>3, <3>1, <3>2
  <2>5. CASE ApiAnswered(J, 0, "lost") /\ stranded' = TRUE BY <1>4, <2>1, <2>2, <2>3, <2>5
  <2> QED BY <1>6, <2>4, <2>5
<1>7. \/ \E net \in {"ok", "refused"} : ApiAnswered({t}, 0, net) /\ UNCHANGED <<tokenVars, stranded>>
      \/ /\ r \in live /\ issued < MaxTokens /\ Exchange(r)
         /\ \E J \in Joining(t) :
              \/ /\ ApiAnswered(J, issued', "ok")
                 /\ IF r \in fresh THEN stranded' = TRUE ELSE UNCHANGED stranded
              \/ ApiAnswered(J, 0, "lost") /\ stranded' = TRUE
  BY <1>1, <1>2, Zenon DEF ApiServed
<1> QED BY <1>5, <1>6, <1>7

LEMMA PageLostKeeps ==
  ASSUME TokenInv, NEW t \in Tabs, PageLost(t)
  PROVE  TokenInv' /\ SubmitsKept
<1>1. /\ call' = [call EXCEPT ![t] = NoCall] /\ UNCHANGED <<jar, tokenVars, tab>>
      /\ stranded' = (stranded \/ call[t].cookies # 0) /\ call[t].step # "refresh"
  BY DEF PageLost
<1>2. stranded' \in BOOLEAN /\ (stranded => stranded') /\ (call[t].cookies # 0 => stranded')
  BY <1>1
<1>3. JarType' /\ TabType' /\ jar'.guest \in Nat
  BY <1>1, TokenFacts DEF JarType, TabType, tokenVars, Jars
<1> QED BY <1>1, <1>2, <1>3, EndsKeep

LEMMA FormServedKeeps ==
  ASSUME TokenInv, NEW t \in Tabs, FormServed(t)
  PROVE  TokenInv' /\ SubmitsKept
<1>1. PICK c \in Calls : c = call[t] BY TokenFacts
<1>2. c.step = "auth" /\ Served(c) /\ UNCHANGED <<jar, tab>> BY <1>1 DEF FormServed
<1>3. /\ TrueOf(c, issued, fresh, stranded) /\ issued \in Nat /\ stranded \in BOOLEAN
      /\ live \subseteq 1 .. issued /\ fresh \subseteq 1 .. issued
  BY <1>1, TokenFacts
<1>4. c.kind \in Forms \cup {"logout"} /\ c.cookies = 0 BY <1>2, <1>3 DEF TrueOf
<1>5. /\ issued' \in Tokens /\ issued <= issued'
      /\ live' \subseteq 1 .. issued' /\ fresh' \subseteq 1 .. issued'
      /\ stranded' \in BOOLEAN /\ (stranded => stranded')
      /\ \A a \in fresh' : a \in fresh \/ a = issued + 1
      /\ stranded' \/ fresh' \subseteq live'
      /\ fresh \subseteq fresh' /\ (stranded' \/ live \subseteq live')
      /\ c.kind = "login" => issued' \in fresh'
  <2>1. CASE c.kind = "login"
    <3>1. /\ issued < MaxTokens /\ issued' = issued + 1
          /\ live' = live \cup {issued'} /\ fresh' = fresh \cup {issued'} /\ stranded' = stranded
      BY <1>2, <2>1 DEF Served
    <3>2. issued' \in Tokens BY <1>3, <3>1, WebAssumption DEF Tokens
    <3>3. 1 .. issued \subseteq 1 .. issued' /\ issued' \in 1 .. issued' BY <1>3, <3>1
    <3>4. stranded' \/ fresh' \subseteq live' BY <3>1 DEF TokenInv, FreshLive
    <3> QED BY <1>3, <3>1, <3>2, <3>3, <3>4
  <2>2. CASE c.kind \in {"logout", "forgot"}
    <3>1. /\ live' \subseteq live /\ stranded' = TRUE /\ issued' = issued /\ fresh' = fresh
      BY <1>2, <2>2 DEF Served
    <3> QED BY <1>3, <2>2, <3>1, TokenFacts
  <2>3. CASE c.kind \notin {"login", "logout", "forgot"}
    <3>1. issued' = issued /\ fresh' = fresh /\ live' = live /\ stranded' = stranded
      BY <1>2, <2>3 DEF Served, tokenVars
    <3> QED BY <1>3, <2>3, <3>1, TokenFacts DEF TokenInv, FreshLive
  <2> QED BY <2>1, <2>2, <2>3
<1>6. PICK net \in {"ok", "lost"} :
        call' = [call EXCEPT ![t].step = "reply", ![t].net = net,
                   ![t].cookies = IF c.kind = "login" /\ net = "ok" THEN issued' ELSE 0]
  BY <1>1 DEF FormServed
<1>7. PICK n \in Nat : n = IF c.kind = "login" /\ net = "ok" THEN issued' ELSE 0
  BY <1>5 DEF Tokens
<1>8. PICK new : new = [c EXCEPT !.step = "reply", !.net = net, !.cookies = n] OBVIOUS
<1>9. /\ new \in Calls /\ new.kind = c.kind /\ new.access = c.access /\ new.refresh = c.refresh
      /\ new.guest = c.guest /\ new.session = c.session
      /\ new.step = "reply" /\ new.net = net /\ new.cookies = n
  BY <1>8, KindsAndSteps DEF Calls
<1>10. call' = [call EXCEPT ![t] = new] BY <1>1, <1>6, <1>7, <1>8, TokenFacts
<1>11. \A x \in Tabs : call'[x] = IF x = t THEN new ELSE call[x] BY <1>10, TokenFacts
<1>12. TrueOf(new, issued', fresh', stranded')
  <2>1. /\ c.access = c.refresh /\ c.refresh <= issued /\ c.session <= issued
        /\ c.refresh \in Nat /\ c.session \in Nat
    BY <1>3 DEF TrueOf, Calls
  <2>2. issued' \in Nat BY <1>5 DEF Tokens
  <2>3. c.refresh <= issued' /\ c.session <= issued' BY <1>3, <1>5, <2>1, <2>2
  <2>4. n \in fresh' \cup {0} /\ (n # 0 => c.kind = "login" /\ net = "ok") BY <1>5, <1>7
  <2> QED BY <1>9, <2>1, <2>3, <2>4 DEF TrueOf
<1>13. \A x \in Tabs \ {t} :
         /\ call'[x] = call[x]
         /\ call[x].cookies = 0 \/ call[x].cookies \in fresh'
  BY <1>5, <1>11, TokenFacts DEF TrueOf
<1>14. call' \in [Tabs -> Calls] BY <1>9, <1>10, TokenFacts
<1>15. JarType' /\ TabType'
  <2>1. jar.refresh \in Nat /\ jar.refresh <= issued BY TokenFacts DEF Jars, JarType
  <2>2. issued' \in Nat BY <1>5 DEF Tokens
  <2> QED BY <1>2, <1>3, <1>5, <2>1, <2>2, TokenFacts DEF JarType, TabType
<1>16. SessionKept'
  <2> SUFFICES ASSUME ~stranded'
               PROVE  jar'.refresh \in live' \cup {0} \/ \E x \in Tabs : call'[x].cookies \in live'
    BY DEF SessionKept
  <2>1. live \subseteq live' /\ ~stranded BY <1>5
  <2>2. ASSUME NEW x \in Tabs, call[x].cookies \in live PROVE call'[x].cookies \in live'
    <3>1. x # t
      <4>1. 0 \notin live BY <1>3
      <4> QED BY <1>1, <1>4, <2>2, <4>1
    <3> QED BY <1>11, <2>1, <2>2, <3>1
  <2> QED BY <1>2, <2>1, <2>2 DEF TokenInv, SessionKept
<1>17. {t} \in SUBSET Tabs OBVIOUS
<1>18. \A x \in {t} : /\ TrueOf(call'[x], issued', fresh', stranded')
                      /\ call'[x].step \notin {"refresh", "wait"} /\ call[x].step # "refresh"
  BY <1>1, <1>2, <1>9, <1>11, <1>12
<1>19. TokenInv' BY <1>5, <1>13, <1>14, <1>15, <1>16, <1>17, <1>18, TokensMoved
<1>20. SubmitsKept
  <2>1. \A x \in Tabs \ {t} : Follows(call'[x], call[x], jar.guest) BY <1>11 DEF Follows
  <2>2. Follows(call'[t], call[t], jar.guest)
    BY <1>1, <1>4, <1>9, <1>11 DEF Follows, Submits, Forms
  <2> QED BY <1>2, <2>1, <2>2 DEF SubmitsKept
<1> QED BY <1>19, <1>20

LEMMA FormFailsKeeps ==
  ASSUME TokenInv, NEW t \in Tabs, FormFails(t)
  PROVE  TokenInv' /\ SubmitsKept
<1>1. PICK c \in Calls : c = call[t] BY TokenFacts
<1>2. /\ c.step = "auth" /\ UNCHANGED <<jar, tokenVars, tab, stranded>> BY <1>1 DEF FormFails
<1>3. TrueOf(c, issued, fresh, stranded) BY <1>1, TokenFacts
<1>4. c.kind \in Forms \cup {"logout"} /\ c.cookies = 0 BY <1>2, <1>3 DEF TrueOf
<1>5. PICK new : new = [c EXCEPT !.step = "reply", !.net = "refused"] OBVIOUS
<1>6. /\ new \in Calls /\ new.kind = c.kind /\ new.access = c.access /\ new.refresh = c.refresh
      /\ new.guest = c.guest /\ new.session = c.session
      /\ new.step = "reply" /\ new.cookies = c.cookies
  BY <1>5, KindsAndSteps DEF Calls
<1>7. call' = [call EXCEPT ![t] = new] BY <1>1, <1>5, TokenFacts DEF FormFails
<1>8. TrueOf(new, issued, fresh, stranded') BY <1>2, <1>3, <1>4, <1>6 DEF TrueOf
<1>9. Follows(new, call[t], jar.guest) BY <1>1, <1>4, <1>6 DEF Follows, Submits, Forms
<1>10. JarType' /\ TabType' BY <1>2, TokenFacts DEF JarType, TabType, tokenVars
<1>11. /\ stranded' \in BOOLEAN /\ (stranded => stranded')
       /\ new.step \notin {"refresh", "wait"} /\ call[t].step # "refresh"
       /\ jar'.refresh = jar.refresh /\ jar'.guest = jar.guest /\ call[t].cookies = 0
  BY <1>1, <1>2, <1>4, <1>6, TokenFacts
<1>12. UNCHANGED tokenVars BY <1>2
<1> QED BY <1>6, <1>7, <1>8, <1>9, <1>10, <1>11, <1>12, Replaced

LEMMA FormReturnsKeeps ==
  ASSUME TokenInv, NEW t \in Tabs, FormReturns(t)
  PROVE  TokenInv' /\ SubmitsKept
<1>1. PICK c \in Calls : c = call[t] BY TokenFacts
<1>2. /\ c.step = "reply" /\ c.kind \in Forms \cup {"logout"} /\ UNCHANGED <<tokenVars, stranded>>
      /\ \/ /\ ~LedOn(c)
            /\ call' = [call EXCEPT ![t] = NoCall] /\ UNCHANGED <<jar, tab>>
         \/ /\ LedOn(c) /\ tab' = [tab EXCEPT ![t] = Blank]
            /\ jar' = IF c.kind = "logout" THEN [jar EXCEPT !.access = 0, !.refresh = 0]
                      ELSE After(call[t])
            /\ call' = [call EXCEPT ![t] = PageCall(NextPage(c.kind), jar')]
  BY <1>1, Zenon DEF FormReturns
<1>3. CASE ~LedOn(c) /\ call' = [call EXCEPT ![t] = NoCall] /\ UNCHANGED <<jar, tab>>
  <2>1. TrueOf(c, issued, fresh, stranded) BY <1>1, TokenFacts
  <2>2. c.cookies = 0 BY <1>2, <1>3, <2>1 DEF TrueOf, LedOn
  <2>3. JarType' /\ TabType' /\ jar'.guest \in Nat /\ jar'.guest = jar.guest
    BY <1>2, <1>3, TokenFacts DEF JarType, TabType, tokenVars, Jars
  <2>4. stranded' \in BOOLEAN /\ (stranded => stranded') BY <1>2, TokenFacts
  <2>5. jar'.refresh = jar.refresh /\ call[t].cookies = 0 /\ call[t].step # "refresh"
    BY <1>1, <1>2, <1>3, <2>2
  <2> QED BY <1>2, <1>3, <2>3, <2>4, <2>5, EndsKeep
<1>4. CASE /\ LedOn(c) /\ tab' = [tab EXCEPT ![t] = Blank]
           /\ jar' = IF c.kind = "logout" THEN [jar EXCEPT !.access = 0, !.refresh = 0]
                     ELSE After(call[t])
           /\ call' = [call EXCEPT ![t] = PageCall(NextPage(c.kind), jar')]
  <2>1. PICK j : j = jar' OBVIOUS
  <2>2. NextPage(c.kind) \in Pages BY KindsAndSteps DEF NextPage
  <2>3. call' = [call EXCEPT ![t] = PageCall(NextPage(c.kind), j)] /\ call[t].step # "refresh"
    BY <1>1, <1>2, <1>4, <2>1
  <2>4. TabType' BY <1>4, BlankShown DEF TabType
  <2>5. /\ j \in Jars /\ j.access = j.refresh /\ j.refresh <= issued /\ j.guest = jar.guest
        /\ \/ call[t].cookies = 0 /\ j.refresh = jar.refresh
           \/ call[t].cookies # 0 /\ j.refresh = call[t].cookies
           \/ j.refresh = 0
    <3>1. CASE c.kind = "logout"
      <4>1. PICK k \in Jars : k = jar BY TokenFacts
      <4>2. j = [k EXCEPT !.access = 0, !.refresh = 0] BY <1>4, <2>1, <3>1, <4>1
      <4>3. j \in Jars /\ j.access = 0 /\ j.refresh = 0 /\ j.guest = k.guest BY <4>2 DEF Jars
      <4>4. j.refresh <= issued BY <4>3, TokenFacts
      <4> QED BY <4>1, <4>3, <4>4
    <3>2. CASE c.kind # "logout"
      <4>1. j = After(call[t]) BY <1>4, <2>1, <3>2
      <4> QED BY <4>1, Taken
    <3> QED BY <3>1, <3>2
  <2> QED BY <1>2, <2>1, <2>2, <2>3, <2>4, <2>5, LeadsOn
<1> QED BY <1>2, <1>3, <1>4

LEMMA ExpiresKeeps ==
  ASSUME TokenInv, NEW a \in fresh, Expires(a)
  PROVE  TokenInv' /\ SubmitsKept
<1>1. /\ fresh' = fresh \ {a} /\ \A t \in Tabs : call[t].cookies # a
      /\ UNCHANGED <<jar, issued, live, call, tab, stranded>>
  BY DEF Expires
<1>2. TokenTypes' BY <1>1 DEF TokenInv, TokenTypes, JarType, TabType
<1>3. CallsTrue' BY <1>1 DEF TokenInv, CallsTrue, TrueOf
<1>4. FreshLive' /\ OneFlight' /\ WaitLed' /\ SessionKept'
  BY <1>1 DEF TokenInv, FreshLive, OneFlight, WaitLed, InFlight, SessionKept
<1>5. SubmitsKept BY <1>1 DEF SubmitsKept, Follows
<1> QED BY <1>2, <1>3, <1>4, <1>5 DEF TokenInv

LEMMA HandleSubmitKeeps ==
  ASSUME TokenInv, NEW t \in Tabs, HandleSubmit(t)
  PROVE  TokenInv'
<1>1. /\ Idle(t) /\ UNCHANGED <<jar, tokenVars, tab, stranded>>
      /\ call' = [call EXCEPT ![t] = Sent("submit", "quiz", "validate", jar)]
  BY DEF HandleSubmit, SubmitShown
<1>2. PICK new : new = Sent("submit", "quiz", "validate", jar) OBVIOUS
<1>3. IsSent(new, "submit", "quiz", "validate", jar)
  <2>1. "submit" \in Kinds /\ "quiz" \in Pages /\ "validate" \in Steps
    BY KindsAndSteps DEF Kinds
  <2> QED BY <1>2, <2>1, SentCall, TokenFacts
<1>4. TrueOf(new, issued, fresh, stranded') BY <1>1, <1>3, TokenFacts DEF IsSent, TrueOf, Forms, JarType
<1>5. call' = [call EXCEPT ![t] = new] BY <1>1, <1>2
<1>6. JarType' /\ TabType' BY <1>1, TokenFacts DEF JarType, TabType, tokenVars
<1>7. /\ stranded' \in BOOLEAN /\ (stranded => stranded')
      /\ new \in Calls /\ new.step \notin {"refresh", "wait"} /\ call[t].step # "refresh"
  BY <1>1, <1>3, TokenFacts DEF IsSent, Idle
<1>8. jar'.refresh = jar.refresh /\ call[t].cookies = 0 /\ UNCHANGED tokenVars
  BY <1>1, NoCookies DEF Idle
<1> QED BY <1>4, <1>5, <1>6, <1>7, <1>8, Replaced

LEMMA SubmitRouteKeeps ==
  ASSUME TokenInv, guests \in Nat, attempts \in Nat, NEW t \in Tabs, SubmitRoute(t)
  PROVE  TokenInv'
<1>1. PICK c \in Calls : c = call[t] BY TokenFacts
<1>2. /\ c.step = "render" /\ c.kind = "submit" /\ UNCHANGED <<jar, tokenVars, tab, stranded>>
  BY <1>1 DEF SubmitRoute
<1>3. ASSUME NEW new \in Calls, call' = [call EXCEPT ![t] = new],
             new.kind = c.kind, new.access = c.access, new.refresh = c.refresh,
             new.session = c.session, new.cookies = c.cookies, new.step = "reply"
      PROVE  TokenInv'
  <2>1. TrueOf(c, issued, fresh, stranded) BY <1>1, TokenFacts
  <2>2. TrueOf(new, issued, fresh, stranded') BY <1>2, <1>3, <2>1 DEF TrueOf, Forms
  <2>3. JarType' /\ TabType' BY <1>2, TokenFacts DEF JarType, TabType, tokenVars
  <2>4. /\ stranded' \in BOOLEAN /\ (stranded => stranded')
        /\ jar'.refresh = jar.refresh /\ call[t].cookies \in {0, new.cookies}
        /\ UNCHANGED tokenVars
        /\ new.step \notin {"refresh", "wait"} /\ call[t].step # "refresh"
    BY <1>1, <1>2, <1>3, TokenFacts
  <2> QED BY <1>3, <2>2, <2>3, <2>4, Replaced
<1>4. PICK g : g = GuestOf(c) OBVIOUS
<1>5. g \in Nat /\ attempts + 1 \in Nat BY <1>4 DEF GuestOf, Calls
<1>6. PICK n \in Nat : n = attempts + 1 BY <1>5
<1>7. "reply" \in Steps BY KindsAndSteps
<1>8. CASE call' = [call EXCEPT ![t] = [c EXCEPT !.step = "reply", !.guest = g, !.data = n]]
  <2>1. PICK new : new = [c EXCEPT !.step = "reply", !.guest = g, !.data = n] OBVIOUS
  <2>2. /\ new \in Calls /\ new.kind = c.kind /\ new.access = c.access /\ new.refresh = c.refresh
        /\ new.session = c.session /\ new.cookies = c.cookies /\ new.step = "reply"
    BY <1>5, <1>7, <2>1 DEF Calls
  <2> QED BY <1>3, <1>8, <2>1, <2>2
<1>9. CASE call' = [call EXCEPT ![t] = [c EXCEPT !.step = "reply", !.guest = g, !.net = "refused"]]
  <2>1. PICK new : new = [c EXCEPT !.step = "reply", !.guest = g, !.net = "refused"] OBVIOUS
  <2>2. /\ new \in Calls /\ new.kind = c.kind /\ new.access = c.access /\ new.refresh = c.refresh
        /\ new.session = c.session /\ new.cookies = c.cookies /\ new.step = "reply"
    BY <1>5, <1>7, <2>1 DEF Calls
  <2> QED BY <1>3, <1>9, <2>1, <2>2
<1>10. ASSUME NEW net \in {"failed", "lost"},
              call' = [call EXCEPT ![t] = [c EXCEPT !.step = "reply", !.net = net]]
       PROVE  TokenInv'
  <2>1. PICK new : new = [c EXCEPT !.step = "reply", !.net = net] OBVIOUS
  <2>2. /\ new \in Calls /\ new.kind = c.kind /\ new.access = c.access /\ new.refresh = c.refresh
        /\ new.session = c.session /\ new.cookies = c.cookies /\ new.step = "reply"
    BY <1>7, <2>1 DEF Calls
  <2> QED BY <1>3, <1>10, <2>1, <2>2
<1>11. \/ call' = [call EXCEPT ![t] = [c EXCEPT !.step = "reply", !.guest = g, !.data = n]]
       \/ call' = [call EXCEPT ![t] = [c EXCEPT !.step = "reply", !.guest = g, !.net = "refused"]]
       \/ \E net \in {"failed", "lost"} :
            call' = [call EXCEPT ![t] = [c EXCEPT !.step = "reply", !.net = net]]
  BY <1>1, <1>4, <1>6 DEF SubmitRoute, Stores
<1> QED BY <1>8, <1>9, <1>10, <1>11

LEMMA SubmitReturnsKeeps ==
  ASSUME TokenInv, NEW t \in Tabs, SubmitReturns(t)
  PROVE  TokenInv'
<1>1. PICK c \in Calls : c = call[t] BY TokenFacts
<1>2. PICK a : a = After(call[t]) OBVIOUS
<1>3. PICK k \in Jars : k = jar BY TokenFacts
<1>4. /\ a \in Jars /\ a.access = a.refresh /\ a.refresh <= issued /\ a.guest = k.guest
      /\ \/ c.cookies = 0 /\ a.refresh = k.refresh
         \/ c.cookies # 0 /\ a.refresh = c.cookies
  BY <1>1, <1>2, <1>3, Taken
<1>5. /\ jar' = AfterSubmit(c) /\ UNCHANGED tokenVars
      /\ stranded' = (stranded \/ (c.net = "lost" /\ c.cookies # 0))
      /\ \/ c.net = "ok" /\ call' = [call EXCEPT ![t] = PageCall("result", jar')]
         \/ c.net # "ok" /\ call' = [call EXCEPT ![t] = NoCall]
      /\ UNCHANGED tab /\ call[t].step = "reply"
  BY <1>1, Zenon DEF SubmitReturns
<1>6. PICK j : j = jar' OBVIOUS
<1>7. /\ j \in Jars /\ j.access = j.refresh /\ j.refresh <= issued
      /\ \/ c.net = "lost" /\ j.refresh = k.refresh
         \/ c.net # "lost" /\ c.cookies = 0 /\ j.refresh = k.refresh
         \/ c.net # "lost" /\ c.cookies # 0 /\ j.refresh = c.cookies
  <2>1. CASE c.net = "lost"
    <3>1. j = k BY <1>3, <1>5, <1>6, <2>1 DEF AfterSubmit
    <3> QED BY <1>3, <2>1, <3>1, TokenFacts DEF JarType
  <2>2. CASE c.net = "failed"
    <3>1. j = a BY <1>1, <1>2, <1>5, <1>6, <2>2 DEF AfterSubmit
    <3> QED BY <1>4, <2>2, <3>1
  <2>3. CASE c.net \notin {"lost", "failed"}
    <3>1. j = [a EXCEPT !.guest = c.guest] BY <1>1, <1>2, <1>5, <1>6, <2>3 DEF AfterSubmit
    <3>2. c.guest \in Nat BY DEF Calls
    <3> QED BY <1>4, <2>3, <3>1, <3>2 DEF Jars
  <2> QED BY <2>1, <2>2, <2>3
<1>8. CASE c.net = "ok" /\ call' = [call EXCEPT ![t] = PageCall("result", jar')]
  <2>1. call' = [call EXCEPT ![t] = PageCall("result", j)] /\ "result" \in Pages
    BY <1>6, <1>8, KindsAndSteps
  <2>2. TabType' BY <1>5, TokenFacts DEF TabType
  <2>3. stranded' = stranded
    <3>1. c.net # "lost" BY <1>8
    <3> QED BY <1>5, <3>1, TokenFacts
  <2>4. \/ call[t].cookies = 0 /\ j.refresh = jar.refresh
        \/ call[t].cookies # 0 /\ j.refresh = call[t].cookies
    BY <1>1, <1>3, <1>7, <1>8
  <2> QED BY <1>5, <1>6, <1>7, <2>1, <2>2, <2>3, <2>4, LeadsOn
<1>9. CASE c.net # "ok" /\ call' = [call EXCEPT ![t] = NoCall]
  <2>1. /\ stranded' \in BOOLEAN /\ (stranded => stranded')
        /\ (c.net = "lost" /\ c.cookies # 0 => stranded')
    BY <1>5
  <2>2. JarType' /\ TabType' /\ jar'.guest \in Nat
    <3>1. issued' = issued BY <1>5 DEF tokenVars
    <3> QED BY <1>5, <1>6, <1>7, <3>1, TokenFacts DEF JarType, TabType, Jars
  <2>3. \/ jar'.refresh = jar.refresh /\ (stranded' \/ call[t].cookies = 0)
        \/ call[t].cookies # 0 /\ jar'.refresh = call[t].cookies
    BY <1>1, <1>3, <1>6, <1>7, <2>1
  <2> QED BY <1>5, <1>9, <2>1, <2>2, <2>3, EndsKeep
<1> QED BY <1>5, <1>8, <1>9

LEMMA RenderQuizKeeps ==
  ASSUME TokenInv, NEW t \in Tabs, RenderQuiz(t)
  PROVE  TokenInv' /\ SubmitsKept
<1>1. call[t].step = "render" /\ call[t].kind = "page" /\ UNCHANGED <<jar, tokenVars, tab, stranded>>
  BY DEF RenderQuiz, Renders
<1>2. CASE Rendered(t, TRUE) BY <1>1, <1>2, RenderedKeeps
<1>3. CASE Rendered(t, FALSE) BY <1>1, <1>3, RenderedKeeps
<1> QED BY <1>2, <1>3 DEF RenderQuiz

LEMMA RenderResultKeeps ==
  ASSUME TokenInv, NEW t \in Tabs, RenderResult(t), LatestOf(call[t]) \in Nat \/ call[t].guest = 0
  PROVE  TokenInv' /\ SubmitsKept
<1>1. PICK c \in Calls : c = call[t] BY TokenFacts
<1>2. c.step = "render" /\ c.kind = "page" /\ UNCHANGED <<jar, tokenVars, tab, stranded>>
  BY <1>1 DEF RenderResult, Renders
<1>3. CASE Rendered(t, FALSE) BY <1>1, <1>2, <1>3, RenderedKeeps
<1>4. CASE /\ IsGuest(c)
           /\ call' = [call EXCEPT ![t].step = "reply", ![t].served = TRUE,
                                   ![t].data = LatestOf(call[t])]
  <2>1. PICK n \in Nat : n = LatestOf(call[t]) BY <1>1, <1>4 DEF IsGuest
  <2>2. PICK new : new = [c EXCEPT !.step = "reply", !.served = TRUE, !.data = n] OBVIOUS
  <2>3. /\ new \in Calls /\ Same(new, c) /\ new.step = "reply"
        /\ new.session = c.session /\ new.cookies = c.cookies
    BY <2>2, KindsAndSteps DEF Calls, Same
  <2>4. call' = [call EXCEPT ![t] = new] BY <1>1, <1>4, <2>1, <2>2, TokenFacts
  <2>5. new.session <= issued BY <1>1, <2>3, TokenFacts DEF TrueOf
  <2>6. stranded' \in BOOLEAN /\ (stranded => stranded') BY <1>2, TokenFacts
  <2> QED BY <1>1, <1>2, <2>3, <2>4, <2>5, <2>6, GoesOn
<1> QED BY <1>1, <1>3, <1>4, Zenon DEF RenderResult

(***************************************************************************)
(* The guests, step by step.                                               *)
(***************************************************************************)
LEMMA Counted ==
  ASSUME NEW U \in SUBSET Tabs
  PROVE  /\ Cardinality(U) \in Nat
         /\ \A V \in SUBSET U : Cardinality(V) \in Nat /\ Cardinality(V) <= Cardinality(U)
         /\ \A t \in Tabs : \A V \in SUBSET (U \cup {t}) :
              Cardinality(V) \in Nat /\ Cardinality(V) <= Cardinality(U) + 1
         /\ \A t \in U : \A V \in SUBSET (U \ {t}) :
              Cardinality(V) \in Nat /\ Cardinality(V) + 1 <= Cardinality(U)
<1>1. IsFiniteSet(U) BY WebAssumption, FS_Subset
<1>2. Cardinality(U) \in Nat BY <1>1, FS_CardinalityType
<1>3. ASSUME NEW W, IsFiniteSet(W), NEW V \in SUBSET W
      PROVE  Cardinality(V) \in Nat /\ Cardinality(V) <= Cardinality(W)
  BY <1>3, FS_Subset, FS_CardinalityType
<1>4. ASSUME NEW t \in Tabs, NEW V \in SUBSET (U \cup {t})
      PROVE  Cardinality(V) \in Nat /\ Cardinality(V) <= Cardinality(U) + 1
  <2>1. /\ IsFiniteSet(U \cup {t})
        /\ Cardinality(U \cup {t}) = IF t \in U THEN Cardinality(U) ELSE Cardinality(U) + 1
    BY <1>1, FS_AddElement
  <2>2. Cardinality(V) \in Nat /\ Cardinality(V) <= Cardinality(U \cup {t}) BY <1>3, <2>1
  <2> QED BY <1>2, <2>1, <2>2
<1>5. ASSUME NEW t \in U, NEW V \in SUBSET (U \ {t})
      PROVE  Cardinality(V) \in Nat /\ Cardinality(V) + 1 <= Cardinality(U)
  <2>1. IsFiniteSet(U \ {t}) /\ Cardinality(U \ {t}) = Cardinality(U) - 1
    BY <1>1, FS_RemoveElement
  <2>2. Cardinality(V) \in Nat /\ Cardinality(V) <= Cardinality(U \ {t}) BY <1>3, <2>1
  <2> QED BY <1>2, <2>1, <2>2
<1> QED BY <1>1, <1>2, <1>3, <1>4, <1>5

LEMMA GuestFacts ==
  ASSUME TokenInv, GuestInv
  PROVE  /\ guests \in Nat /\ attempts \in Nat /\ sends \in Nat /\ faults \in Nat
         /\ latest \in [1 .. MaxSends -> 0 .. attempts]
         /\ \A g \in 1 .. MaxSends : latest[g] \in Nat /\ latest[g] <= attempts
         /\ acked \in Nat /\ acked <= attempts /\ overlapped \in BOOLEAN
         /\ guests <= sends /\ sends <= MaxSends /\ Unrouted \in SUBSET Tabs
         /\ jar.guest \in Nat /\ jar.guest <= guests
         /\ \A t \in Tabs : /\ call[t].guest \in Nat /\ call[t].guest <= guests
                            /\ Submits(call[t]) => call[t].data <= attempts
                            /\ Stored(call[t], latest)
         /\ OneGuest
<1>1. Unrouted \in SUBSET Tabs BY DEF Unrouted
<1>2. Cardinality(Unrouted) \in Nat BY <1>1, Counted
<1>3. /\ guests \in Nat /\ attempts \in Nat /\ sends \in Nat
      /\ guests + Cardinality(Unrouted) <= sends
      /\ acked \in 0 .. attempts /\ latest \in [1 .. MaxSends -> 0 .. attempts]
  BY DEF GuestInv, GuestTypes
<1>4. guests <= sends BY <1>2, <1>3
<1>5. acked \in Nat /\ acked <= attempts BY <1>3
<1>6. \A g \in 1 .. MaxSends : latest[g] \in Nat /\ latest[g] <= attempts BY <1>3
<1>7. jar.guest \in Nat /\ \A t \in Tabs : call[t].guest \in Nat BY TokenFacts DEF Jars, Calls
<1> QED BY <1>1, <1>3, <1>4, <1>5, <1>6, <1>7 DEF GuestInv, GuestTypes

(* A guest id that was given is one of those the attempts are kept under. *)
LEMMA GuestKnown ==
  ASSUME TokenInv, GuestInv, NEW g \in Nat, g # 0, g <= guests
  PROVE  g \in 1 .. MaxSends
<1>1. guests \in Nat /\ sends \in Nat /\ guests <= sends /\ sends <= MaxSends BY GuestFacts
<1> QED BY <1>1, WebAssumption

(* No submit is sent, served or answered. *)
LEMMA GuestsStay ==
  ASSUME TokenInv, GuestInv, SubmitsKept, UNCHANGED <<serviceVars, acked, overlapped>>,
         sends' \in Nat, sends <= sends', sends' <= MaxSends, faults' \in Nat
  PROVE  GuestInv'
<1>1. /\ jar'.guest = jar.guest
      /\ \A x \in Tabs : Follows(call'[x], call[x], jar.guest)
      /\ guests' = guests /\ attempts' = attempts /\ latest' = latest
      /\ acked' = acked /\ overlapped' = overlapped
  BY DEF SubmitsKept, serviceVars
<1>2. Unrouted' \in SUBSET Unrouted BY <1>1 DEF Unrouted, Follows
<1>3. guests + Cardinality(Unrouted') <= sends'
  <2>1. PICK U \in SUBSET Tabs : U = Unrouted BY GuestFacts
  <2>2. PICK V \in SUBSET U : V = Unrouted' BY <1>2, <2>1
  <2>3. Cardinality(U) \in Nat /\ Cardinality(V) \in Nat /\ Cardinality(V) <= Cardinality(U)
    BY <2>1, <2>2, Counted
  <2>4. guests + Cardinality(U) <= sends BY <2>1 DEF GuestInv, GuestTypes
  <2>5. guests \in Nat /\ sends \in Nat BY GuestFacts
  <2>6. guests + Cardinality(V) <= sends' BY <2>3, <2>4, <2>5
  <2> QED BY <2>2, <2>6
<1>4. GuestTypes'
  <2>1. \A x \in Tabs : /\ call'[x].guest <= guests
                        /\ Submits(call'[x]) => call'[x].data <= attempts
    BY <1>1, GuestFacts DEF Follows
  <2> QED BY <1>1, <1>3, <2>1 DEF GuestInv, GuestTypes
<1>5. \A x \in Tabs : Stored(call'[x], latest') BY <1>1 DEF GuestInv, Stored, Follows
<1>6. OneGuest' BY <1>1 DEF GuestInv, OneGuest, Follows
<1> QED BY <1>4, <1>5, <1>6 DEF GuestInv

LEMMA SubmitSentGuests ==
  ASSUME TokenInv, GuestInv, NEW t \in Tabs, HandleSubmit(t)
  PROVE  GuestInv'
<1>1. /\ call' = [call EXCEPT ![t] = Sent("submit", "quiz", "validate", jar)]
      /\ overlapped' = \/ overlapped
                       \/ jar.guest = 0 /\ \E x \in Tabs : Submits(call[x])
      /\ jar' = jar /\ sends < MaxSends /\ sends' = sends + 1
      /\ UNCHANGED <<faults, guests, attempts, latest, acked>>
  BY DEF HandleSubmit, SendCounted, serviceVars, Submits
<1>2. PICK new : new = Sent("submit", "quiz", "validate", jar) OBVIOUS
<1>3. IsSent(new, "submit", "quiz", "validate", jar)
  <2>1. "submit" \in Kinds /\ "quiz" \in Pages /\ "validate" \in Steps
    BY KindsAndSteps DEF Kinds
  <2> QED BY <1>2, <2>1, SentCall, TokenFacts
<1>4. \A x \in Tabs : call'[x] = IF x = t THEN new ELSE call[x] BY <1>1, <1>2, TokenFacts
<1>5. Submits(new) /\ new.step = "validate" /\ new.guest = jar.guest /\ new.data = 0
  BY <1>3 DEF IsSent, Submits
<1>6. guests + Cardinality(Unrouted') <= sends'
  <2>1. PICK U \in SUBSET Tabs : U = Unrouted BY GuestFacts
  <2>2. Unrouted' \in SUBSET (U \cup {t}) BY <1>4, <2>1 DEF Unrouted
  <2>3. PICK V \in SUBSET (U \cup {t}) : V = Unrouted' BY <2>2
  <2>4. Cardinality(U) \in Nat /\ Cardinality(V) \in Nat /\ Cardinality(V) <= Cardinality(U) + 1
    BY Counted
  <2>5. guests + Cardinality(U) <= sends BY <2>1 DEF GuestInv, GuestTypes
  <2>6. guests \in Nat /\ sends \in Nat BY GuestFacts
  <2>7. guests + Cardinality(V) <= sends' BY <1>1, <2>4, <2>5, <2>6
  <2> QED BY <2>3, <2>7
<1>7. sends' \in Nat /\ sends' <= MaxSends BY <1>1, GuestFacts, WebAssumption
<1>8. \A x \in Tabs : call'[x].guest <= guests /\ (Submits(call'[x]) => call'[x].data <= attempts)
  BY <1>4, <1>5, GuestFacts
<1>9. overlapped' \in BOOLEAN BY <1>1
<1>10. GuestTypes' BY <1>1, <1>6, <1>7, <1>8, <1>9 DEF GuestInv, GuestTypes
<1>11. \A x \in Tabs : Stored(call'[x], latest')
  BY <1>1, <1>4, <1>5, GuestFacts DEF Stored
<1>12. OneGuest'
  <2>1. CASE overlapped' BY <2>1 DEF OneGuest
  <2>2. CASE ~overlapped' /\ jar.guest = 0
    <3>1. ~overlapped /\ \A x \in Tabs : ~Submits(call[x]) BY <1>1, <2>2
    <3>2. acked = 0 BY <2>2, <3>1 DEF GuestInv, OneGuest
    <3>3. \A x, y \in Tabs : Submits(call'[x]) /\ Submits(call'[y]) => x = y BY <1>4, <3>1
    <3> QED BY <1>1, <2>2, <3>2, <3>3 DEF OneGuest
  <2>3. CASE ~overlapped' /\ jar.guest # 0
    <3>1. acked <= latest[jar.guest] /\ \A x \in Tabs : Submits(call[x]) => call[x].guest = jar.guest
      BY <1>1, <2>3 DEF GuestInv, OneGuest
    <3>2. \A x \in Tabs : Submits(call'[x]) => call'[x].guest = jar.guest BY <1>4, <1>5, <3>1
    <3> QED BY <1>1, <2>3, <3>1, <3>2 DEF OneGuest
  <2> QED BY <2>1, <2>2, <2>3
<1> QED BY <1>10, <1>11, <1>12 DEF GuestInv

(* The route serves a submit, under the guest id g. *)
LEMMA RoutedGuests ==
  ASSUME TokenInv, GuestInv, NEW t \in Tabs, NEW c \in Calls, c = call[t],
         Submits(c), c.step = "render",
         NEW g \in Nat, g = GuestOf(c), guests' = IF g > guests THEN g ELSE guests,
         NEW new \in Calls, call' = [call EXCEPT ![t] = new],
         Submits(new), new.step = "reply",
         UNCHANGED <<jar, sends, acked, overlapped>>, faults' \in Nat,
         \/ Stores(g)
         \/ UNCHANGED <<attempts, latest>>,
         \/ Stores(g) /\ new.guest = g /\ new.data = attempts'
         \/ new.guest = g /\ new.net = "refused" /\ new.data = c.data
         \/ new.guest = c.guest /\ new.net \in {"failed", "lost"} /\ new.data = c.data
  PROVE  GuestInv'
<1>1. \A x \in Tabs : call'[x] = IF x = t THEN new ELSE call[x] BY TokenFacts
<1>2. guests' \in Nat /\ guests <= guests' /\ g <= guests' /\ guests' + Cardinality(Unrouted') <= sends
  <2>1. PICK U \in SUBSET Tabs : U = Unrouted BY GuestFacts
  <2>2. t \in U BY <2>1 DEF Unrouted
  <2>3. Unrouted' \in SUBSET (U \ {t}) BY <1>1, <2>1 DEF Unrouted
  <2>4. PICK V \in SUBSET (U \ {t}) : V = Unrouted' BY <2>3
  <2>5. Cardinality(U) \in Nat /\ Cardinality(V) \in Nat /\ Cardinality(V) + 1 <= Cardinality(U)
    BY <2>2, Counted
  <2>6. guests + Cardinality(U) <= sends BY <2>1 DEF GuestInv, GuestTypes
  <2>7. guests \in Nat /\ sends \in Nat /\ c.guest \in Nat /\ c.guest <= guests BY GuestFacts
  <2>8. g <= guests + 1 BY <2>7 DEF GuestOf
  <2>9. guests' \in Nat /\ guests <= guests' /\ g <= guests' /\ guests' <= guests + 1 BY <2>7, <2>8
  <2>10. guests' + Cardinality(V) <= sends BY <2>5, <2>6, <2>7, <2>9
  <2> QED BY <2>4, <2>9, <2>10
<1>3. g # 0 BY GuestFacts DEF GuestOf
<1>4. g \in 1 .. MaxSends
  <2>1. PICK V \in SUBSET Tabs : V = Unrouted' BY DEF Unrouted
  <2>2. Cardinality(V) \in Nat BY Counted
  <2>3. guests' + Cardinality(V) <= sends BY <1>2, <2>1
  <2>4. sends \in Nat /\ sends <= MaxSends BY GuestFacts
  <2> QED BY <1>2, <1>3, <2>2, <2>3, <2>4, WebAssumption
<1>5. /\ attempts' \in Nat /\ attempts <= attempts'
      /\ latest' \in [1 .. MaxSends -> 0 .. attempts']
      /\ \A h \in 1 .. MaxSends : latest[h] <= latest'[h]
  <2>1. /\ attempts \in Nat /\ latest \in [1 .. MaxSends -> 0 .. attempts]
        /\ \A h \in 1 .. MaxSends : latest[h] \in Nat /\ latest[h] <= attempts
    BY GuestFacts
  <2>2. CASE Stores(g)
    <3>1. attempts' = attempts + 1 /\ latest' = [latest EXCEPT ![g] = attempts'] BY <2>2 DEF Stores
    <3>2. \A h \in 1 .. MaxSends : latest'[h] = IF h = g THEN attempts' ELSE latest[h]
      BY <2>1, <3>1
    <3>3. 0 .. attempts \subseteq 0 .. attempts' /\ attempts' \in 0 .. attempts' BY <2>1, <3>1
    <3>4. latest' \in [1 .. MaxSends -> 0 .. attempts'] BY <2>1, <3>1, <3>3
    <3> QED BY <2>1, <3>1, <3>2, <3>4
  <2>3. CASE UNCHANGED <<attempts, latest>> BY <2>1, <2>3
  <2> QED BY <2>2, <2>3
<1>6. new.guest <= guests' /\ new.data <= attempts'
  <2>1. c.guest \in Nat /\ c.guest <= guests /\ c.data \in Nat /\ c.data <= attempts
    BY GuestFacts DEF Calls
  <2>2. guests \in Nat /\ attempts \in Nat BY GuestFacts
  <2>3. c.guest <= guests' /\ c.data <= attempts' BY <1>2, <1>5, <2>1, <2>2
  <2> QED BY <1>2, <1>5, <2>3
<1>7. \A x \in Tabs : /\ call'[x].guest <= guests'
                      /\ Submits(call'[x]) => call'[x].data <= attempts'
  <2> SUFFICES ASSUME NEW x \in Tabs, x # t
               PROVE  /\ call[x].guest <= guests'
                      /\ Submits(call[x]) => call[x].data <= attempts'
    BY <1>1, <1>6
  <2>1. call[x].guest \in Nat /\ call[x].data \in Nat BY TokenFacts DEF Calls
  <2>2. guests \in Nat /\ attempts \in Nat BY GuestFacts
  <2> QED BY <1>2, <1>5, <2>1, <2>2, GuestFacts
<1>8. GuestTypes'
  <2>1. jar'.guest <= guests' BY <1>2, GuestFacts
  <2>2. acked' \in 0 .. attempts' BY <1>5, GuestFacts
  <2> QED BY <1>2, <1>5, <1>7, <2>1, <2>2, GuestFacts DEF GuestTypes
<1>9. \A x \in Tabs : Stored(call'[x], latest')
  <2> SUFFICES ASSUME NEW x \in Tabs PROVE Stored(call'[x], latest') OBVIOUS
  <2>1. CASE x = t
    <3>1. new.net = "ok" => new.data <= latest'[new.guest]
      <4>1. CASE Stores(g) /\ new.guest = g /\ new.data = attempts'
        <5>1. latest'[g] = attempts' BY <1>4, <4>1, GuestFacts DEF Stores
        <5> QED BY <1>5, <4>1, <5>1
      <4> QED BY <4>1
    <3> QED BY <1>1, <1>3, <2>1, <3>1 DEF Stored
  <2>2. CASE x # t
    <3>1. PICK d \in Calls : d = call[x] BY TokenFacts
    <3>2. Stored(d, latest) /\ d.guest <= guests BY <3>1, GuestFacts
    <3>3. d.guest # 0 => d.guest \in 1 .. MaxSends BY <3>2, GuestKnown DEF Calls
    <3>4. d.guest # 0 /\ d.data <= latest[d.guest] => d.data <= latest'[d.guest]
      <4>1. d.data \in Nat BY DEF Calls
      <4>2. \A h \in 1 .. MaxSends : latest[h] \in Nat /\ latest'[h] \in Nat BY <1>5, GuestFacts
      <4> QED BY <1>5, <3>3, <4>1, <4>2
    <3> QED BY <1>1, <2>2, <3>1, <3>2, <3>4 DEF Stored
  <2> QED BY <2>1, <2>2
<1>10. OneGuest'
  <2>1. \A x \in Tabs : Submits(call'[x]) <=> Submits(call[x]) BY <1>1
  <2>2. CASE overlapped BY <2>2 DEF OneGuest
  <2>3. CASE jar.guest = 0 /\ acked = 0 /\ \A x, y \in Tabs : Submits(call[x]) /\ Submits(call[y]) => x = y
    BY <2>1, <2>3 DEF OneGuest
  <2>4. CASE /\ jar.guest # 0 /\ acked <= latest[jar.guest]
             /\ \A x \in Tabs : Submits(call[x]) => call[x].guest = jar.guest
    <3>1. c.guest = jar.guest /\ g = c.guest BY <2>4 DEF GuestOf
    <3>2. \A x \in Tabs : Submits(call'[x]) => call'[x].guest = jar.guest BY <1>1, <2>4, <3>1
    <3>3. acked <= latest'[jar.guest]
      <4>1. jar.guest \in 1 .. MaxSends BY <2>4, GuestKnown, GuestFacts
      <4>2. latest[jar.guest] \in Nat /\ latest'[jar.guest] \in Nat /\ acked \in Nat
        BY <1>5, <4>1, GuestFacts
      <4> QED BY <1>5, <2>4, <4>1, <4>2
    <3> QED BY <2>4, <3>2, <3>3 DEF OneGuest
  <2> QED BY <2>2, <2>3, <2>4 DEF GuestInv, OneGuest
<1> QED BY <1>8, <1>9, <1>10 DEF GuestInv

LEMMA RouteGuests ==
  ASSUME TokenInv, GuestInv, NEW t \in Tabs, SubmitRoute(t)
  PROVE  GuestInv'
<1>1. PICK c \in Calls : c = call[t] BY TokenFacts
<1>2. PICK g : g = GuestOf(c) OBVIOUS
<1>3. g \in Nat BY <1>2, GuestFacts DEF GuestOf, Calls
<1>4. /\ c.step = "render" /\ Submits(c)
      /\ guests' = IF g > guests THEN g ELSE guests
      /\ UNCHANGED <<jar, sends, acked, overlapped>>
  BY <1>1, <1>2 DEF SubmitRoute, Submits, inputs
<1>5. /\ faults' = faults \/ faults' = faults + 1
      /\ \/ /\ Stores(g)
            /\ call' = [call EXCEPT ![t] = [c EXCEPT !.step = "reply", !.guest = g, !.data = attempts']]
         \/ /\ UNCHANGED <<attempts, latest>>
            /\ call' = [call EXCEPT ![t] = [c EXCEPT !.step = "reply", !.guest = g, !.net = "refused"]]
         \/ /\ Stores(g) \/ UNCHANGED <<attempts, latest>>
            /\ \E net \in {"failed", "lost"} :
                 call' = [call EXCEPT ![t] = [c EXCEPT !.step = "reply", !.net = net]]
  BY <1>1, <1>2 DEF SubmitRoute, Fault
<1>6. faults' \in Nat BY <1>5, GuestFacts
<1>7. "reply" \in Steps BY KindsAndSteps
<1>8. CASE /\ Stores(g)
           /\ call' = [call EXCEPT ![t] = [c EXCEPT !.step = "reply", !.guest = g, !.data = attempts']]
  <2>1. attempts' \in Nat BY <1>8, GuestFacts DEF Stores
  <2>2. PICK n \in Nat : n = attempts' BY <2>1
  <2>3. PICK new : new = [c EXCEPT !.step = "reply", !.guest = g, !.data = n] OBVIOUS
  <2>4. /\ new \in Calls /\ new.kind = c.kind /\ new.step = "reply" /\ new.guest = g
        /\ new.data = n
    BY <1>3, <1>7, <2>3 DEF Calls
  <2> QED BY <1>1, <1>2, <1>3, <1>4, <1>6, <1>8, <2>2, <2>3, <2>4, RoutedGuests DEF Submits
<1>9. CASE /\ UNCHANGED <<attempts, latest>>
           /\ call' = [call EXCEPT ![t] = [c EXCEPT !.step = "reply", !.guest = g, !.net = "refused"]]
  <2>1. PICK new : new = [c EXCEPT !.step = "reply", !.guest = g, !.net = "refused"] OBVIOUS
  <2>2. /\ new \in Calls /\ new.kind = c.kind /\ new.step = "reply" /\ new.guest = g
        /\ new.net = "refused" /\ new.data = c.data
    BY <1>3, <1>7, <2>1 DEF Calls
  <2> QED BY <1>1, <1>2, <1>3, <1>4, <1>6, <1>9, <2>1, <2>2, RoutedGuests DEF Submits
<1>10. ASSUME NEW net \in {"failed", "lost"}, Stores(g) \/ UNCHANGED <<attempts, latest>>,
              call' = [call EXCEPT ![t] = [c EXCEPT !.step = "reply", !.net = net]]
       PROVE  GuestInv'
  <2>1. PICK new : new = [c EXCEPT !.step = "reply", !.net = net] OBVIOUS
  <2>2. /\ new \in Calls /\ new.kind = c.kind /\ new.step = "reply" /\ new.guest = c.guest
        /\ new.net = net /\ new.data = c.data
    BY <1>7, <2>1 DEF Calls
  <2> QED BY <1>1, <1>2, <1>3, <1>4, <1>6, <1>10, <2>1, <2>2, RoutedGuests DEF Submits
<1> QED BY <1>5, <1>8, <1>9, <1>10

(* The answer to a submit comes to the browser. *)
LEMMA AnsweredGuests ==
  ASSUME TokenInv, GuestInv, NEW t \in Tabs, SubmitReturns(t)
  PROVE  GuestInv'
<1>1. PICK c \in Calls : c = call[t] BY TokenFacts
<1>2. PICK j : j = jar' OBVIOUS
<1>3. PICK a : a = After(call[t]) OBVIOUS
<1>4. a \in Jars /\ a.guest = jar.guest BY <1>3, Taken
<1>5. /\ c.step = "reply" /\ Submits(c) /\ j = AfterSubmit(c)
      /\ UNCHANGED <<guests, attempts, latest, overlapped, sends, faults>>
      /\ \/ /\ c.net = "ok" /\ acked' = c.data
            /\ call' = [call EXCEPT ![t] = PageCall("result", j)]
         \/ /\ c.net # "ok" /\ UNCHANGED acked /\ call' = [call EXCEPT ![t] = NoCall]
  BY <1>1, <1>2, Zenon DEF SubmitReturns, serviceVars, bounds, inputs, Submits
<1>6. /\ j \in Jars
      /\ j.guest = IF c.net \in {"ok", "refused"} THEN c.guest ELSE jar.guest
  <2>1. CASE c.net = "lost"
    <3>1. j = jar BY <1>5, <2>1 DEF AfterSubmit
    <3> QED BY <2>1, <3>1, TokenFacts
  <2>2. CASE c.net = "failed"
    <3>1. j = a BY <1>1, <1>3, <1>5, <2>2 DEF AfterSubmit
    <3> QED BY <1>4, <2>2, <3>1
  <2>3. CASE c.net \in {"ok", "refused"}
    <3>1. j = [a EXCEPT !.guest = c.guest] BY <1>1, <1>3, <1>5, <2>3 DEF AfterSubmit
    <3>2. c.guest \in Nat BY DEF Calls
    <3> QED BY <1>4, <2>3, <3>1, <3>2 DEF Jars
  <2> QED BY <2>1, <2>2, <2>3 DEF Calls
<1>7. PICK new \in Calls : /\ call' = [call EXCEPT ![t] = new] /\ ~Submits(new)
                           /\ new.guest \in {0, j.guest}
  <2>1. CASE call' = [call EXCEPT ![t] = PageCall("result", j)]
    <3>1. "page" \in Kinds /\ "result" \in Pages /\ "validate" \in Steps BY KindsAndSteps
    <3>2. PICK new : new = Sent("page", "result", "validate", j) OBVIOUS
    <3>3. IsSent(new, "page", "result", "validate", j) BY <1>6, <3>1, <3>2, SentCall
    <3> QED BY <2>1, <3>2, <3>3 DEF IsSent, PageCall, Submits
  <2>2. CASE call' = [call EXCEPT ![t] = NoCall] BY <2>2, NoneUnderWay DEF Submits
  <2> QED BY <1>5, <2>1, <2>2
<1>8. \A x \in Tabs : call'[x] = IF x = t THEN new ELSE call[x] BY <1>7, TokenFacts
<1>9. c.guest \in Nat /\ c.guest <= guests /\ c.data <= attempts /\ Stored(c, latest) /\ c.data \in Nat
  BY <1>1, <1>5, GuestFacts DEF Calls
<1>10. j.guest \in Nat /\ j.guest <= guests BY <1>6, <1>9, GuestFacts
<1>11. guests + Cardinality(Unrouted') <= sends
  <2>1. PICK U \in SUBSET Tabs : U = Unrouted BY GuestFacts
  <2>2. Unrouted' \in SUBSET U BY <1>7, <1>8, <2>1 DEF Unrouted
  <2>3. PICK V \in SUBSET U : V = Unrouted' BY <2>2
  <2>4. Cardinality(U) \in Nat /\ Cardinality(V) \in Nat /\ Cardinality(V) <= Cardinality(U)
    BY Counted
  <2>5. guests + Cardinality(U) <= sends BY <2>1 DEF GuestInv, GuestTypes
  <2>6. guests \in Nat /\ sends \in Nat BY GuestFacts
  <2>7. guests + Cardinality(V) <= sends BY <2>4, <2>5, <2>6
  <2> QED BY <2>3, <2>7
<1>12. acked' \in 0 .. attempts BY <1>5, <1>9, GuestFacts
<1>13. \A x \in Tabs : /\ call'[x].guest <= guests
                       /\ Submits(call'[x]) => call'[x].data <= attempts
  BY <1>7, <1>8, <1>10, GuestFacts
<1>14. GuestTypes' BY <1>2, <1>5, <1>10, <1>11, <1>12, <1>13, GuestFacts DEF GuestTypes
<1>15. \A x \in Tabs : Stored(call'[x], latest')
  BY <1>5, <1>7, <1>8, GuestFacts DEF Stored
<1>16. OneGuest'
  <2>1. CASE overlapped BY <1>5, <2>1 DEF OneGuest
  <2>2. CASE jar.guest = 0 /\ acked = 0 /\ \A x, y \in Tabs : Submits(call[x]) /\ Submits(call[y]) => x = y
    <3>1. \A x \in Tabs : ~Submits(call'[x]) BY <1>1, <1>5, <1>7, <1>8, <2>2
    <3>2. CASE c.net \in {"ok", "refused"}
      <4>1. j.guest # 0 BY <1>5, <1>6, <1>9, <3>2 DEF Stored
      <4>2. acked' <= latest[j.guest]
        <5>1. CASE c.net = "ok" BY <1>5, <1>6, <1>9, <5>1 DEF Stored
        <5>2. CASE c.net # "ok"
          <6>1. j.guest \in 1 .. MaxSends BY <1>10, <4>1, GuestKnown
          <6> QED BY <1>5, <2>2, <5>2, <6>1, GuestFacts
        <5> QED BY <5>1, <5>2
      <4> QED BY <1>2, <1>5, <3>1, <4>1, <4>2 DEF OneGuest
    <3>3. CASE c.net \notin {"ok", "refused"}
      <4>1. j.guest = 0 /\ acked' = 0 BY <1>5, <1>6, <2>2, <3>3
      <4> QED BY <1>2, <3>1, <4>1 DEF OneGuest
    <3> QED BY <3>2, <3>3
  <2>3. CASE /\ jar.guest # 0 /\ acked <= latest[jar.guest]
             /\ \A x \in Tabs : Submits(call[x]) => call[x].guest = jar.guest
    <3>1. c.guest = jar.guest /\ j.guest = jar.guest BY <1>1, <1>5, <1>6, <2>3
    <3>2. \A x \in Tabs : Submits(call'[x]) => call'[x].guest = j.guest BY <1>7, <1>8, <2>3, <3>1
    <3>3. acked' <= latest[j.guest] BY <1>5, <1>9, <2>3, <3>1 DEF Stored
    <3> QED BY <1>2, <1>5, <2>3, <3>1, <3>2, <3>3 DEF OneGuest
  <2> QED BY <2>1, <2>2, <2>3 DEF GuestInv, OneGuest
<1> QED BY <1>14, <1>15, <1>16 DEF GuestInv

(***************************************************************************)
(* The whole step.                                                         *)
(***************************************************************************)
LEMMA WebKeeps ==
  ASSUME TokenInv, WebNext
  PROVE  TokenInv' /\ SubmitsKept
<1>1. ASSUME NEW t \in Tabs, NEW page \in Opened, Visit(t, page) PROVE TokenInv' /\ SubmitsKept
  BY <1>1, VisitKeeps, OpenedAssumption
<1>2. ASSUME NEW t \in Tabs, NEW form \in Forms, SendForm(t, form) PROVE TokenInv' /\ SubmitsKept
  BY <1>2, SendFormKeeps
<1>3. ASSUME NEW t \in Tabs, SendReset(t) PROVE TokenInv' /\ SubmitsKept
  <2>1. "reset" \in Forms BY DEF Forms
  <2> QED BY <1>2, <1>3, <2>1 DEF SendReset
<1>4. ASSUME NEW t \in Tabs, SendLogout(t) PROVE TokenInv' /\ SubmitsKept BY <1>4, SendLogoutKeeps
<1>5. ASSUME NEW t \in Tabs, SendApi(t) \/ PageLost(t) PROVE TokenInv' /\ SubmitsKept
  BY <1>5, SendApiKeeps, PageLostKeeps
<1>6. ASSUME NEW t \in Tabs, Goes(t) PROVE TokenInv' /\ SubmitsKept
  BY <1>6, ValidateKeeps, RefreshKeeps, FollowKeeps, RenderKeeps, DashboardKeeps,
     ApiServedKeeps, ApiReturnsKeeps, FormServedKeeps, FormFailsKeeps, FormReturnsKeeps, Zenon DEF Goes
<1>7. ASSUME NEW a \in fresh, Expires(a) PROVE TokenInv' /\ SubmitsKept BY <1>7, ExpiresKeeps
<1> QED BY <1>1, <1>2, <1>3, <1>4, <1>5, <1>6, <1>7, Zenon DEF WebNext

(* How often something was sent, and failed. *)
Counts ==
  /\ sends' = sends \/ (sends < MaxSends /\ sends' = sends + 1)
  /\ faults' = faults \/ faults' = faults + 1

LEMMA WebCounts == ASSUME WebNext PROVE Counts
<1>1. ASSUME NEW t \in Tabs, NEW page \in Opened, Visit(t, page) PROVE Counts
  BY <1>1 DEF Visit, VisitCounted, Counts
<1>2. ASSUME NEW t \in Tabs, NEW form \in Forms, SendForm(t, form) PROVE Counts
  BY <1>2 DEF SendForm, SendCounted, Counts
<1>3. ASSUME NEW t \in Tabs, SendReset(t) PROVE Counts
  BY <1>3 DEF SendReset, SendForm, SendCounted, Counts
<1>4. ASSUME NEW t \in Tabs, SendLogout(t) \/ SendApi(t) PROVE Counts
  BY <1>4 DEF SendLogout, SendApi, SendCounted, Counts
<1>5. ASSUME NEW t \in Tabs, PageLost(t) PROVE Counts
  BY <1>5 DEF PageLost, Fault, inputs, Counts
<1>6. ASSUME NEW t \in Tabs, Goes(t) PROVE Counts
  <2>1. CASE Validate(t) BY <2>1 DEF Validate, Fault, inputs, Counts
  <2>2. CASE RefreshReturns(t) BY <2>2 DEF RefreshReturns, Fault, inputs, Counts
  <2>3. CASE Follow(t) BY <2>3 DEF Follow, bounds, inputs, Counts
  <2>4. CASE RenderAuth(t) \/ RenderHome(t) BY <2>4 DEF RenderAuth, RenderHome, bounds, inputs, Counts
  <2>5. CASE RenderTryout(t) BY <2>5 DEF RenderTryout, Fault, inputs, Counts
  <2>6. CASE RenderDashboard(t) BY <2>6 DEF RenderDashboard, bounds, inputs, Counts
  <2>7. CASE FormServed(t) BY <2>7 DEF FormServed, Fault, inputs, Counts
  <2>8. CASE FormFails(t) \/ FormReturns(t) BY <2>8 DEF FormFails, FormReturns, bounds, inputs, Counts
  <2>9. CASE ApiServed(t) BY <2>9, Zenon DEF ApiServed, Fault, inputs, Counts
  <2>10. CASE ApiReturns(t) BY <2>10 DEF ApiReturns, bounds, inputs, Counts
  <2> QED BY <1>6, <2>1, <2>2, <2>3, <2>4, <2>5, <2>6, <2>7, <2>8, <2>9, <2>10 DEF Goes
<1>7. ASSUME NEW a \in fresh, Expires(a) PROVE Counts BY <1>7 DEF Expires, bounds, inputs, Counts
<1> QED BY <1>1, <1>2, <1>3, <1>4, <1>5, <1>6, <1>7, Zenon DEF WebNext

LEMMA CountsStay ==
  ASSUME TokenInv, GuestInv, Counts
  PROVE  sends' \in Nat /\ sends <= sends' /\ sends' <= MaxSends /\ faults' \in Nat
BY GuestFacts, WebAssumption DEF Counts

SessionInv == TokenInv /\ GuestInv

(* Nothing of the session changes. *)
LEMMA SessionUnmoved ==
  ASSUME SessionInv, UNCHANGED <<jar, tokenVars, call, tab, stranded>>,
         UNCHANGED <<serviceVars, acked, overlapped>>, Counts
  PROVE  SessionInv'
<1>1. TokenInv /\ GuestInv BY DEF SessionInv
<1>2. TokenInv' /\ SubmitsKept BY <1>1, Unmoved
<1>3. GuestInv' BY <1>1, <1>2, CountsStay, GuestsStay
<1> QED BY <1>2, <1>3 DEF SessionInv

(* The step touches the session, but no submit. *)
LEMMA SessionMoved ==
  ASSUME SessionInv, TokenInv', SubmitsKept, UNCHANGED <<serviceVars, acked, overlapped>>, Counts
  PROVE  SessionInv'
<1>1. TokenInv /\ GuestInv BY DEF SessionInv
<1>2. GuestInv' BY <1>1, CountsStay, GuestsStay
<1> QED BY <1>2 DEF SessionInv

LEMMA SessionStays == SessionInv /\ [Next]_vars => SessionInv'
<1> SUFFICES ASSUME SessionInv, [Next]_vars PROVE SessionInv' OBVIOUS
<1>1. TokenInv /\ GuestInv BY DEF SessionInv
<1>2. CASE WebNext /\ CareerStays
  <2>1. TokenInv' /\ SubmitsKept /\ Counts BY <1>1, <1>2, WebKeeps, WebCounts
  <2> QED BY <1>2, <2>1, SessionMoved DEF CareerStays
<1>3. ASSUME NEW t \in Tabs, SubmitRoute(t) PROVE SessionInv'
  <2>1. TokenInv' BY <1>1, <1>3, GuestFacts, SubmitRouteKeeps
  <2>2. GuestInv' BY <1>1, <1>3, RouteGuests
  <2> QED BY <2>1, <2>2 DEF SessionInv
<1>4. ASSUME NEW t \in Tabs, SubmitReturns(t) PROVE SessionInv'
  <2>1. TokenInv' BY <1>1, <1>4, SubmitReturnsKeeps
  <2>2. GuestInv' BY <1>1, <1>4, AnsweredGuests
  <2> QED BY <2>1, <2>2 DEF SessionInv
<1>5. ASSUME NEW t \in Tabs, RenderQuiz(t) PROVE SessionInv'
  <2>1. TokenInv' /\ SubmitsKept BY <1>1, <1>5, RenderQuizKeeps
  <2>2. Counts /\ UNCHANGED <<serviceVars, acked, overlapped>>
    BY <1>5 DEF RenderQuiz, Fault, inputs, careerVars, Counts
  <2> QED BY <2>1, <2>2, SessionMoved
<1>6. ASSUME NEW t \in Tabs, RenderResult(t) PROVE SessionInv'
  <2>1. LatestOf(call[t]) \in Nat \/ call[t].guest = 0
    BY <1>1, GuestFacts, GuestKnown DEF LatestOf
  <2>2. TokenInv' /\ SubmitsKept BY <1>1, <1>6, <2>1, RenderResultKeeps
  <2>3. Counts /\ UNCHANGED <<serviceVars, acked, overlapped>>
    BY <1>6 DEF RenderResult, Fault, inputs, careerVars, Counts
  <2> QED BY <2>2, <2>3, SessionMoved
<1>7. ASSUME NEW t \in Tabs, Mount(t) PROVE SessionInv'
  <2>1. TokenInv' /\ SubmitsKept BY <1>1, <1>7, ShowKeeps DEF Mount
  <2>2. Counts /\ UNCHANGED <<serviceVars, acked, overlapped>>
    BY <1>7 DEF Mount, Show, bounds, inputs, Counts
  <2> QED BY <2>1, <2>2, SessionMoved
<1>8. ASSUME NEW t \in Tabs, HandleSubmit(t) PROVE SessionInv'
  BY <1>1, <1>8, HandleSubmitKeeps, SubmitSentGuests DEF SessionInv
<1>9. ASSUME NEW t \in Tabs, HandleNext(t) \/ HandlePrev(t) PROVE SessionInv'
  BY <1>9, SessionUnmoved DEF HandleNext, HandlePrev, QuizStep, webVars, bounds, inputs, Counts
<1>10. ASSUME NEW t \in Tabs, NEW q \in Questions, NEW v \in Likert, SelectChoice(t, q, v)
       PROVE  SessionInv'
  BY <1>10, SessionUnmoved DEF SelectChoice, QuizStep, webVars, bounds, inputs, Counts
<1>11. ASSUME NEW t \in Tabs, NEW new, Slides(t, new), SendCounted \/ UNCHANGED inputs
       PROVE  SessionInv'
  <2>1. Counts BY <1>11 DEF Slides, SendCounted, inputs, Counts
  <2> QED BY <1>11, <2>1, SessionUnmoved DEF Slides
<1>12. ASSUME NEW t \in Tabs,
              Click(t) \/ Swipe(t) \/ AutoSlide(t) \/ Transition(t) \/ AnimationFrame(t)
       PROVE  SessionInv'
  <2>1. PICK new : Slides(t, new) /\ (SendCounted \/ UNCHANGED inputs)
    BY <1>12, Zenon DEF Click, Swipe, AutoSlide, Transition, AnimationFrame
  <2> QED BY <1>11, <2>1
<1>13. CASE UNCHANGED vars
  BY <1>13, SessionUnmoved DEF vars, webVars, careerVars, bounds, inputs, Counts
<1> QED BY <1>2, <1>3, <1>4, <1>5, <1>6, <1>7, <1>8, <1>9, <1>10, <1>12, <1>13, Zenon DEF Next, CareerGoes

LEMMA SessionAtFirst == Init => SessionInv
<1> SUFFICES ASSUME Init PROVE SessionInv OBVIOUS
<1>1. WebInit BY DEF Init
<1>2. PICK a \in {0, 1} : jar = [access |-> a, refresh |-> a, guest |-> 0] BY <1>1 DEF WebInit
<1>3. /\ issued = 1 /\ live = {1} /\ fresh \in {{}, {1}} /\ stranded = FALSE
      /\ call = [t \in Tabs |-> NoCall] /\ sends = 0 /\ faults = 0
  BY <1>1 DEF WebInit
<1>4. JarType BY <1>2, <1>3 DEF JarType, Jars
<1>5. TabType
  <2>1. /\ Blank \in [page : Pages \cup {"none"}, data : Nat]
        /\ AtQuiz \in [page : Pages \cup {"none"}, data : Nat]
    BY KindsAndSteps DEF Blank, AtQuiz
  <2> QED BY <1>1, <2>1 DEF WebInit, TabType
<1>6. TokenTypes
  <2>1. issued \in Tokens BY <1>3, WebAssumption DEF Tokens
  <2>2. live \subseteq 1 .. issued /\ fresh \subseteq 1 .. issued BY <1>3
  <2>3. call \in [Tabs -> Calls] BY <1>3, NoneUnderWay
  <2>4. stranded \in BOOLEAN BY <1>3
  <2> QED BY <1>4, <1>5, <2>1, <2>2, <2>3, <2>4 DEF TokenTypes
<1>7. CallsTrue BY <1>3, NoneUnderWay DEF CallsTrue, TrueOf, Forms
<1>8. FreshLive /\ OneFlight /\ WaitLed
  BY <1>3, NoneUnderWay DEF FreshLive, OneFlight, WaitLed
<1>9. SessionKept BY <1>2, <1>3 DEF SessionKept
<1>10. TokenInv BY <1>6, <1>7, <1>8, <1>9 DEF TokenInv
<1>11. /\ guests = 0 /\ attempts = 0 /\ latest = [g \in 1 .. MaxSends |-> 0]
       /\ acked = 0 /\ overlapped = FALSE
  BY DEF Init
<1>12. \A t \in Tabs : ~Submits(call[t]) /\ call[t].guest = 0
  BY <1>3, NoneUnderWay DEF Submits
<1>13. Cardinality(Unrouted) = 0
  <2>1. Unrouted = {} BY <1>12 DEF Unrouted
  <2> QED BY <2>1, FS_EmptySet
<1>14. GuestTypes
  <2>1. overlapped \in BOOLEAN BY <1>11
  <2>6. latest \in [1 .. MaxSends -> 0 .. attempts]
    <3>1. 0 \in 0 .. attempts BY <1>11
    <3> QED BY <1>11, <3>1
  <2>2. guests + Cardinality(Unrouted) <= sends /\ sends <= MaxSends
    BY <1>3, <1>11, <1>13, WebAssumption
  <2>3. jar.guest <= guests BY <1>2, <1>11
  <2>4. \A t \in Tabs : call[t].guest <= guests /\ ~Submits(call[t]) BY <1>11, <1>12
  <2>5. guests \in Nat /\ attempts \in Nat /\ sends \in Nat /\ faults \in Nat /\ acked \in 0 .. attempts
    BY <1>3, <1>11
  <2> QED BY <2>1, <2>2, <2>3, <2>4, <2>5, <2>6 DEF GuestTypes
<1>15. OneGuest BY <1>2, <1>11, <1>12 DEF OneGuest
<1>16. GuestInv BY <1>12, <1>14, <1>15 DEF GuestInv, Stored
<1> QED BY <1>10, <1>16 DEF SessionInv

(* The tokens of the browser, of its calls and of the middleware, and the
   guests and their attempts, agree whatever is called, lost and expires. *)
THEOREM SessionInvariant == Spec => []SessionInv
<1> QED BY SessionAtFirst, SessionStays, PTL DEF Spec

(* However many tabs exchange tokens at once, the browser keeps a token that can
   be exchanged, or one is on its way, unless an answer with one was lost. *)
THEOREM SessionIsKept == Spec => []SessionKept
<1>1. SessionInv => SessionKept BY DEF SessionInv, TokenInv
<1> QED BY <1>1, SessionInvariant, PTL

(* However many calls find their access token expired at once, the middleware
   has their refresh token exchanged once, and every one of them has part in
   that exchange: nobody waits for one that is over. *)
THEOREM ExchangesAreOne == Spec => []OneExchange
<1>1. ASSUME TokenInv PROVE OneExchange
  <2> SUFFICES ASSUME NEW t \in Tabs, call[t].step \in {"refresh", "wait"}
               PROVE  \E x \in Tabs :
                        {y \in Tabs : call[y].step = "refresh" /\ call[y].refresh = call[t].refresh} = {x}
    BY DEF OneExchange
  <2>1. PICK x \in Tabs : call[x].step = "refresh" /\ call[x].refresh = call[t].refresh
    BY <1>1 DEF TokenInv, WaitLed, InFlight
  <2>2. \A y \in Tabs : call[y].step = "refresh" /\ call[y].refresh = call[t].refresh => y = x
    BY <1>1, <2>1 DEF TokenInv, OneFlight
  <2> QED BY <2>1, <2>2
<1>2. SessionInv => OneExchange BY <1>1 DEF SessionInv
<1> QED BY <1>2, SessionInvariant, PTL

(* A page that is being rendered is answered by its own step only. *)
LEMMA OnlyRenders ==
  ASSUME SessionInv, [Next]_vars, NEW t \in Tabs,
         call[t].step = "render", call[t].kind = "page", call'[t] # call[t]
  PROVE  \/ RenderAuth(t) \/ RenderHome(t) \/ RenderTryout(t) \/ RenderDashboard(t)
         \/ RenderQuiz(t) \/ RenderResult(t)
<1>1. call \in [Tabs -> Calls] BY TokenFacts DEF SessionInv
<1>2. ASSUME NEW x \in Tabs, NEW new, call' = [call EXCEPT ![x] = new] PROVE x = t
  BY <1>1, <1>2
<1>3. ASSUME WebNext
      PROVE  \/ RenderAuth(t) \/ RenderHome(t) \/ RenderTryout(t) \/ RenderDashboard(t)
  <2>1. ASSUME NEW x \in Tabs, NEW page \in Opened, Visit(x, page) PROVE FALSE
    BY <1>2, <2>1 DEF Visit, Idle
  <2>2. ASSUME NEW x \in Tabs, NEW form \in Forms, SendForm(x, form) PROVE FALSE
    BY <1>2, <2>2 DEF SendForm, Idle
  <2>3. ASSUME NEW x \in Tabs, SendReset(x) PROVE FALSE
    BY <1>2, <2>3 DEF SendReset, SendForm, Idle
  <2>4. ASSUME NEW x \in Tabs, SendLogout(x) PROVE FALSE BY <1>2, <2>4 DEF SendLogout, Idle
  <2>5. ASSUME NEW x \in Tabs, SendApi(x) \/ PageLost(x) PROVE FALSE
    BY <1>2, <2>5 DEF SendApi, PageLost, Idle
  <2>6. ASSUME NEW x \in Tabs, Validate(x) PROVE FALSE
    <3>1. PICK new : call' = [call EXCEPT ![x] = new] BY <2>6, Zenon DEF Validate
    <3> QED BY <1>2, <2>6, <3>1 DEF Validate
  <2>7. ASSUME NEW x \in Tabs, RefreshReturns(x) PROVE FALSE
    <3>1. PICK n : call' = Settled(x, n) BY <2>7, Zenon DEF RefreshReturns
    <3>2. t \notin Joined(x) BY <2>7 DEF RefreshReturns, Joined
    <3> QED BY <3>1, <3>2 DEF Settled
  <2>8. ASSUME NEW x \in Tabs, Follow(x) PROVE FALSE BY <1>2, <2>8 DEF Follow
  <2>9. ASSUME NEW x \in Tabs, FormServed(x) PROVE FALSE
    <3>1. PICK new : call' = [call EXCEPT ![x] = new] BY <2>9, Zenon DEF FormServed
    <3> QED BY <1>2, <2>9, <3>1 DEF FormServed
  <2>10. ASSUME NEW x \in Tabs, FormFails(x) PROVE FALSE BY <1>2, <2>10 DEF FormFails
  <2>11. ASSUME NEW x \in Tabs, FormReturns(x) PROVE FALSE
    <3>1. PICK new : call' = [call EXCEPT ![x] = new] BY <2>11, Zenon DEF FormReturns
    <3> QED BY <1>2, <2>11, <3>1 DEF FormReturns
  <2>12. ASSUME NEW a \in fresh, Expires(a) PROVE FALSE BY <2>12 DEF Expires
  <2>13. ASSUME NEW x \in Tabs, RenderAuth(x) PROVE x = t
    <3>1. PICK new : call' = [call EXCEPT ![x] = new] BY <2>13, Zenon DEF RenderAuth, Rendered
    <3> QED BY <1>2, <3>1
  <2>14. ASSUME NEW x \in Tabs, RenderHome(x) \/ RenderTryout(x) \/ RenderDashboard(x) PROVE x = t
    <3>1. PICK new : call' = [call EXCEPT ![x] = new]
      BY <2>14, Zenon DEF RenderHome, RenderTryout, RenderDashboard, Rendered
    <3> QED BY <1>2, <3>1
  <2>15. ASSUME NEW x \in Tabs, ApiServed(x) PROVE FALSE
    <3>1. call[x].step = "api" BY <2>15 DEF ApiServed
    <3>2. PICK J, n, net : J \in Joining(x) \cup {{x}} /\ ApiAnswered(J, n, net)
      BY <2>15, Zenon DEF ApiServed
    <3>3. t \notin J BY <3>1, <3>2 DEF Joining
    <3> QED BY <3>2, <3>3 DEF ApiAnswered
  <2>16. ASSUME NEW x \in Tabs, ApiReturns(x) PROVE FALSE BY <1>2, <2>16 DEF ApiReturns
  <2> QED BY <1>3, <2>1, <2>2, <2>3, <2>4, <2>5, <2>6, <2>7, <2>8, <2>9, <2>10, <2>11, <2>12,
             <2>13, <2>14, <2>15, <2>16, Zenon DEF WebNext, Goes
<1>4. ASSUME NEW x \in Tabs, SubmitRoute(x) PROVE FALSE
  <2>1. PICK new : call' = [call EXCEPT ![x] = new] BY <1>4, Zenon DEF SubmitRoute
  <2> QED BY <1>2, <1>4, <2>1 DEF SubmitRoute
<1>5. ASSUME NEW x \in Tabs, SubmitReturns(x) PROVE FALSE
  <2>1. PICK new : call' = [call EXCEPT ![x] = new] BY <1>5, Zenon DEF SubmitReturns
  <2> QED BY <1>2, <1>5, <2>1 DEF SubmitReturns
<1>6. ASSUME NEW x \in Tabs, RenderQuiz(x) \/ RenderResult(x) PROVE x = t
  <2>1. PICK new : call' = [call EXCEPT ![x] = new]
    BY <1>6, Zenon DEF RenderQuiz, RenderResult, Rendered
  <2> QED BY <1>2, <2>1
<1>7. ASSUME NEW x \in Tabs, Mount(x) PROVE FALSE BY <1>2, <1>7 DEF Mount, Show
<1>8. ASSUME NEW x \in Tabs, HandleSubmit(x) PROVE FALSE
  BY <1>2, <1>8 DEF HandleSubmit, SubmitShown, Idle
<1>9. ASSUME NEW x \in Tabs, HandleNext(x) \/ HandlePrev(x) PROVE FALSE
  BY <1>9 DEF HandleNext, HandlePrev, webVars
<1>10. ASSUME NEW x \in Tabs, NEW q \in Questions, NEW v \in Likert, SelectChoice(x, q, v) PROVE FALSE
  BY <1>10 DEF SelectChoice, webVars
<1>11. ASSUME NEW x \in Tabs,
              Click(x) \/ Swipe(x) \/ AutoSlide(x) \/ Transition(x) \/ AnimationFrame(x)
       PROVE  FALSE
  BY <1>11 DEF Click, Swipe, AutoSlide, Transition, AnimationFrame, Slides
<1>12. ASSUME UNCHANGED vars PROVE FALSE BY <1>12 DEF vars, webVars
<1> QED BY <1>3, <1>4, <1>5, <1>6, <1>7, <1>8, <1>9, <1>10, <1>11, <1>12, Zenon DEF Next, CareerGoes

(* The token the middleware has just obtained is accepted by the pages of a
   test, with which the browser's cookies have nothing to do yet. *)
THEOREM TokensPassOn == Spec => TokenPassedOn
<1>1. ASSUME SessionInv, [Next]_vars, NEW t \in Tabs,
             Renders(t, {"tryout"}), call[t].session \in fresh, call'[t] # call[t]
      PROVE  faults' # faults \/ call'[t].served
  <2>1. call[t].step = "render" /\ call[t].kind = "page" /\ call[t].page = "tryout"
    BY <1>1 DEF Renders
  <2>2. RenderTryout(t)
    BY <1>1, <2>1, OnlyRenders DEF RenderAuth, RenderHome, RenderDashboard, RenderQuiz, RenderResult, Renders, AuthPages
  <2>3. TokenInv /\ GuestInv BY <1>1 DEF SessionInv
  <2>4. RequestToken(call[t]) = call[t].session
    <3>1. call[t].session # 0 BY <1>1, <2>3, TokenFacts
    <3> QED BY <3>1 DEF RequestToken
  <2>5. CASE Rendered(t, TRUE)
    <3>1. PICK c \in Calls : c = call[t] BY <2>3, TokenFacts
    <3>2. call'[t] = [c EXCEPT !.step = "reply", !.served = TRUE]
      BY <2>3, <2>5, <3>1, TokenFacts DEF Rendered
    <3> QED BY <3>2 DEF Calls
  <2>6. CASE Fault BY <2>3, <2>6, GuestFacts DEF Fault
  <2> QED BY <1>1, <2>2, <2>4, <2>5, <2>6 DEF RenderTryout
<1>2. SessionInv /\ [Next]_vars =>
        [\A t \in Tabs :
           Renders(t, {"tryout"}) /\ call[t].session \in fresh /\ call'[t] # call[t]
             => faults' # faults \/ call'[t].served]_webVars
  BY <1>1
<1> QED BY <1>2, SessionInvariant, PTL DEF Spec, TokenPassedOn

(* A result page shows the attempt that was last confirmed to the browser, or a
   later one, however many were refused, lost and repeated. *)
THEOREM ResultsAreLatest == Spec => ResultIsLatest
<1>1. ASSUME SessionInv, [Next]_vars, NEW t \in Tabs,
             Renders(t, {"result"}), call'[t] # call[t], call[t].guest = jar.guest
      PROVE  overlapped \/ faults' # faults \/ call'[t].data >= acked
  <2>1. call[t].step = "render" /\ call[t].kind = "page" /\ call[t].page = "result"
    BY <1>1 DEF Renders
  <2>2. RenderResult(t)
    BY <1>1, <2>1, OnlyRenders DEF RenderAuth, RenderHome, RenderDashboard, RenderQuiz, RenderTryout, Renders, AuthPages
  <2>3. TokenInv /\ GuestInv BY <1>1 DEF SessionInv
  <2>4. PICK c \in Calls : c = call[t] BY <2>3, TokenFacts
  <2>5. SUFFICES ASSUME ~overlapped, faults' = faults PROVE call'[t].data >= acked OBVIOUS
  <2>6. ~Fault BY <2>3, <2>5, GuestFacts DEF Fault
  <2>7. CASE ~IsGuest(c)
    <3>1. call'[t] = [c EXCEPT !.step = "reply", !.served = FALSE]
      BY <2>2, <2>3, <2>4, <2>7, TokenFacts DEF RenderResult, Rendered
    <3>2. call'[t].data = c.data /\ c.data \in Nat BY <3>1 DEF Calls
    <3>3. acked = 0 BY <1>1, <2>3, <2>4, <2>5, <2>7 DEF GuestInv, OneGuest, IsGuest
    <3> QED BY <3>2, <3>3
  <2>8. CASE IsGuest(c)
    <3>1. call' = [call EXCEPT ![t].step = "reply", ![t].served = TRUE,
                               ![t].data = LatestOf(call[t])]
      BY <2>2, <2>4, <2>6, <2>8, Zenon DEF RenderResult
    <3>2. PICK n : n = LatestOf(call[t]) OBVIOUS
    <3>3. call'[t] = [c EXCEPT !.step = "reply", !.served = TRUE, !.data = n]
      BY <2>3, <2>4, <3>1, <3>2, TokenFacts
    <3>4. call'[t].data = n BY <3>3 DEF Calls
    <3>5. n = latest[jar.guest] BY <1>1, <3>2 DEF LatestOf
    <3>6. jar.guest # 0 BY <1>1, <2>4, <2>8 DEF IsGuest
    <3>7. acked <= latest[jar.guest] BY <2>3, <2>5, <3>6 DEF GuestInv, OneGuest
    <3>8. jar.guest \in 1 .. MaxSends BY <2>3, <3>6, GuestKnown, GuestFacts
    <3>9. n \in Nat /\ acked \in Nat BY <2>3, <3>5, <3>8, GuestFacts
    <3> QED BY <3>4, <3>5, <3>7, <3>9
  <2> QED BY <2>7, <2>8
<1>2. SessionInv /\ [Next]_vars =>
        [\A t \in Tabs :
           Renders(t, {"result"}) /\ call'[t] # call[t] /\ call[t].guest = jar.guest
             => overlapped \/ faults' # faults \/ call'[t].data >= acked]_vars
  BY <1>1
<1> QED BY <1>2, SessionInvariant, PTL DEF Spec, ResultIsLatest

LEMMA SessionTyped == SessionInv => WebTypeOK
<1> SUFFICES ASSUME SessionInv PROVE WebTypeOK OBVIOUS
<1>1. TokenInv /\ GuestInv BY DEF SessionInv
<1>2. /\ issued \in Tokens /\ live \subseteq 1 .. issued /\ fresh \subseteq 1 .. issued
      /\ issued \in Nat
  BY <1>1, TokenFacts
<1>3. jar.access \in Tokens /\ jar.refresh \in Tokens /\ jar.guest \in Guests
  <2>1. jar.access \in Nat /\ jar.access = jar.refresh /\ jar.refresh <= issued
    BY <1>1, TokenFacts DEF JarType, Jars
  <2>2. jar.guest \in Nat /\ jar.guest <= MaxSends
    BY <1>1, GuestFacts, WebAssumption
  <2> QED BY <1>2, <2>1, <2>2, WebAssumption DEF Tokens, Guests
<1>4. ASSUME NEW t \in Tabs
      PROVE  /\ call[t].kind \in Kinds /\ call[t].page \in Pages
             /\ call[t].step \in {"none", "validate", "refresh", "wait", "render", "redirect",
                                   "api", "auth", "reply"}
             /\ call[t].session \in 0 .. issued /\ call[t].cookies \in 0 .. issued
             /\ call[t].net \in {"ok", "refused", "failed", "lost"}
             /\ tab[t].page \in Pages \cup {"none"}
  <2>1. PICK c \in Calls : c = call[t] BY <1>1, TokenFacts
  <2>2. TrueOf(c, issued, fresh, stranded) BY <1>1, <2>1, TokenFacts
  <2>3. c.session \in 0 .. issued BY <1>2, <2>2 DEF TrueOf, Calls
  <2>4. c.cookies \in 0 .. issued
    <3>1. c.cookies \in fresh \cup {0} BY <2>2 DEF TrueOf
    <3>2. 0 \in 0 .. issued /\ 1 .. issued \subseteq 0 .. issued BY <1>2
    <3> QED BY <1>2, <3>1, <3>2, Zenon
  <2>5. tab[t].page \in Pages \cup {"none"} BY <1>1, TokenFacts DEF TabType
  <2> QED BY <2>1, <2>3, <2>4, <2>5 DEF Calls, Steps
<1> QED BY <1>2, <1>3, <1>4, Zenon DEF WebTypeOK

(* The browser, its calls, the questionnaires, the carousels and what the
   service has stored have their types: a page of a questionnaire is one that
   there is, and a guest's result is an attempt that was stored. *)
THEOREM CareerTypes == Spec => []TypeOK
<1>1. SessionInv /\ QuizInv /\ SlideInv => TypeOK
  <2> SUFFICES ASSUME SessionInv, QuizInv, SlideInv PROVE TypeOK OBVIOUS
  <2>1. WebTypeOK BY SessionTyped
  <2>2. /\ guests \in Nat /\ attempts \in Nat
        /\ latest \in [1 .. MaxSends -> 0 .. attempts] /\ acked \in 0 .. attempts
    BY DEF SessionInv, GuestInv, GuestTypes
  <2>3. ASSUME NEW t \in Tabs
        PROVE  /\ quiz[t].page \in 0 .. TotalPages - 1 /\ quiz[t].answers \in Choices
               /\ slide[t].animating \in BOOLEAN /\ slide[t].moving \in BOOLEAN
    <3>1. quiz[t] \in Quizzes /\ slide[t] \in Rows
      BY DEF QuizInv, QuizType, SlideInv, SlideType
    <3> QED BY <3>1, Zenon DEF Quizzes, Rows
  <2> QED BY <2>1, <2>2, <2>3, Zenon DEF TypeOK
<1>2. Spec => []QuizInv BY QuizAtFirst, QuizStays, PTL DEF Spec
<1>3. Spec => []SlideInv BY SlideAtFirst, SlideStays, PTL DEF Spec
<1> QED BY <1>1, <1>2, <1>3, SessionInvariant, PTL
=============================================================================
