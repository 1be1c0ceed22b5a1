CONSTANTS
  t1 = t1 t2 = t2
  Tabs = {t1, t2}
  Opened = {"login", "forgot", "register", "reset", "dashboard", "tryout", "quiz", "result"}
  MaxTokens = 2 MaxVisits = 1 MaxSends = 2 MaxFaults = 1
  NumAlumni = 3
  NumQuestions = 2 QUESTIONS_PER_PAGE = 1
  Likert = {5}
SPECIFICATION Spec
INVARIANTS TypeOK SessionKept OneExchange NothingLeftBehind SlideRests
PROPERTIES TokenPassedOn ResultIsLatest CallsEnd
CHECK_DEADLOCK FALSE
