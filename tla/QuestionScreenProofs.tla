------------------------ MODULE QuestionScreenProofs ------------------------
(***************************************************************************)
(* Proofs about QuestionScreen, for any subtests, questions, calls at once *)
(* and bounds: what was typed is kept and handed in, but for what the save *)
(* of a screen that is gone writes over.                                   *)
(***************************************************************************)
EXTENDS QuestionScreen, TLAPS

(***************************************************************************)
(* Types.  TypeOK lets the entry of a question have an answer of another;  *)
(* the code never does that.                                               *)
(***************************************************************************)
Entries(q) == [jawaban : Answers(q), synced : BOOLEAN]
GoodSheets == {sheet \in Sheets : \A q \in DOMAIN sheet : sheet[q] \in Entries(q)}

AnySoal == UNION {Answers(q) : q \in Soal}
Typings == UNION {[Q -> AnySoal] : Q \in SUBSET Soal}

Screens ==
  [answers : GoodSheets, loaded : BOOLEAN, backend : 0 .. NumSubtests,
   submitting : BOOLEAN, loggingOut : BOOLEAN, autoSubmitted : BOOLEAN,
   timeUp : BOOLEAN, armed : BOOLEAN, flushed : BOOLEAN]

Tasks ==
  [kind : Kinds, mine : BOOLEAN, at : 0 .. NumSubtests, step : Steps, net : Nets,
   active : 0 .. NumSubtests + 1, answers : GoodSheets, pending : SUBSET Soal,
   left : GoodSheets, by : {"user", "late", "timer"}, wanted : Typings]

GoodPayload(payload) ==
  DOMAIN payload \subseteq Soal /\ \A q \in DOMAIN payload : payload[q] \in Wires(q)

LateRequest(r) ==
  r.step \in {"save", "submit"} /\ r.at \in Subtests /\ GoodPayload(r.payload)

ServerType ==
  /\ active \in 1 .. NumSubtests + 1
  /\ phase \in [Subtests -> Phases]
  /\ saved \in [Subtests -> [Soal -> UNION {Wires(q) : q \in Soal}]]
  /\ \A s \in Subtests, q \in Soal : saved[s][q] \in Wires(q)

ClientType ==
  /\ local \in [Subtests -> GoodSheets]
  /\ cache \in [Subtests -> GoodSheets \cup {NoCache}]
  /\ typed \in [Subtests -> Typings]
  /\ page \in Pages
  /\ screen \in Screens
  /\ task \in [Slots -> Tasks]
  /\ late # NoRequest => LateRequest(late)

(***************************************************************************)
(* The inductive invariant.                                                *)
(***************************************************************************)

(* No clock runs ahead of the subtest the attempt is in. *)
ClocksInTurn == \A s \in Subtests : s > active => phase[s] = "new"

LocalKept ==
  \A s \in Subtests \ overwritten : s >= active => Has(local[s], typed[s])

(* The screen has what was typed as long as its subtest is not closed, is about
   the subtest of its page, and says that the time is up when that is closed. *)
ScreenTrue ==
  /\ screen.backend <= active
  /\ ~screen.loaded => screen.answers = NoEntries
  /\ screen.loaded => Mounted /\ screen.backend = page
  /\ screen.loaded /\ page >= active /\ page \notin overwritten =>
       Has(screen.answers, typed[page])
  /\ ~screen.timeUp => screen.backend \in {0, page}
  /\ Mounted /\ screen.timeUp => page < active

(* What a call has learned of the server remains true: its subtest has begun,
   or is closed, and a subtest that had not begun does not expire meanwhile. *)
LearnedTrue(c) ==
  /\ c.active <= active
  /\ c.net = "order" => c.active \in Subtests
  /\ c.kind = "load" /\ c.step = "current" /\ c.net = "ok" =>
       c.active \in Subtests /\ (c.active < c.at => phase[c.at] \in {"new", "begun"})
  /\ c.kind # "none" /\ c.step \in {"start", "soal", "save", "submit"} =>
       c.at \in Subtests /\ c.at <= active
  /\ c.kind # "none" /\ c.step \in {"start", "save", "submit"} /\ c.net \in {"order", "over"} =>
       c.at < active
  /\ c.kind # "none" /\ c.step = "submit" /\ c.net \in {"ok", "committed"} => c.at < active

(* What a call carries is what was typed when it was made. *)
CarriesTyped(c) ==
  /\ c.at >= active => Has(c.answers, c.wanted)
  /\ c.step = "save" /\ (c.net = "sent" \/ c.kind = "submit") =>
       c.pending \subseteq DOMAIN c.answers

StepOfKind(c) ==
  CASE c.kind = "load"   -> c.step \in {"current", "start", "soal"} /\ c.at \in Subtests
    [] c.kind = "flush"  -> c.step = "save" /\ c.by = "user"
    [] c.kind = "submit" -> c.step \in {"save", "submit"}
    [] c.kind = "logout" -> c.step \in {"submit", "logout"}
    [] OTHER             -> TRUE

(* A call of the screen that is mounted is about its page. *)
OfScreen(c) ==
  c.mine =>
    /\ c.kind # "none" /\ Mounted
    /\ c.kind = "load" => c.at = page /\ ~screen.loaded
    /\ c.kind \in {"flush", "submit"} /\ c.step = "save" => c.at = page /\ screen.loaded
    /\ c.kind = "submit" /\ c.by = "timer" => c.at = page

TaskTrue(c) == LearnedTrue(c) /\ CarriesTyped(c) /\ StepOfKind(c) /\ OfScreen(c)

Loads(c) == c.mine /\ c.kind = "load"
OneLoad == \A t, x \in Slots : Loads(task[t]) /\ Loads(task[x]) => t = x

ScreenInv ==
  /\ ServerType /\ ClientType
  /\ ClocksInTurn /\ LocalKept /\ ScreenTrue /\ OneLoad
  /\ \A t \in Slots : TaskTrue(task[t])

(***************************************************************************)
(* Answers, their edits and their form on the wire.                        *)
(***************************************************************************)
LEMMA AnswerIntro ==
  ASSUME NEW q, NEW S \in SUBSET Items(q), NEW a \in [S -> BOOLEAN]
  PROVE  a \in Answers(q)
BY Zenon DEF Answers

LEMMA ChosenAnswer ==
  ASSUME NEW q, NEW S \in SUBSET Items(q)
  PROVE  Chosen(S) \in Answers(q)
<1>1. Chosen(S) \in [S -> BOOLEAN] BY DEF Chosen
<1> QED BY <1>1, AnswerIntro

LEMMA AnswerElim ==
  ASSUME NEW q, NEW a \in Answers(q)
  PROVE  DOMAIN a \in SUBSET Items(q) /\ a \in [DOMAIN a -> BOOLEAN]
<1>1. PICK S \in SUBSET Items(q) : a \in [S -> BOOLEAN] BY Zenon DEF Answers
<1> QED BY <1>1

LEMMA BlankAnswer == ASSUME NEW q PROVE Blank \in Answers(q)
<1>1. Blank \in [{} -> BOOLEAN] BY DEF Blank
<1> QED BY <1>1, AnswerIntro

LEMMA ChoiceEditsAnswers ==
  ASSUME NEW q, NEW a \in Answers(q), NEW e \in ChoiceEdits(q, a)
  PROVE  e \in Answers(q)
<1>1. DOMAIN a \subseteq Items(q) BY AnswerElim
<1>2. CASE Required(q) = 1
  <2>1. PICK o \in Items(q) : e = Chosen({o}) BY <1>2 DEF ChoiceEdits
  <2> QED BY <2>1, ChosenAnswer
<1>3. CASE Required(q) # 1
  <2>1. PICK o \in Items(q) : e = Toggle(q, a, o) BY <1>3 DEF ChoiceEdits
  <2>2. CASE o \in DOMAIN a
    <3>1. e = Chosen(DOMAIN a \ {o}) BY <2>1, <2>2 DEF Toggle
    <3> QED BY <1>1, <3>1, ChosenAnswer
  <2>3. CASE o \notin DOMAIN a
    <3>1. e = Chosen(DOMAIN a \cup {o}) BY <2>1, <2>3 DEF Toggle
    <3> QED BY <1>1, <2>1, <3>1, ChosenAnswer
  <2> QED BY <2>2, <2>3
<1> QED BY <1>2, <1>3

LEMMA StatementEditsAnswers ==
  ASSUME NEW q, NEW a \in Answers(q), NEW e \in StatementEdits(q, a)
  PROVE  e \in Answers(q)
<1>1. DOMAIN a \subseteq Items(q) /\ a \in [DOMAIN a -> BOOLEAN] BY AnswerElim
<1>2. PICK st \in Items(q), b \in BOOLEAN :
        e = [i \in DOMAIN a \cup {st} |-> IF i = st THEN b ELSE a[i]]
  BY DEF StatementEdits
<1>3. e \in [DOMAIN a \cup {st} -> BOOLEAN]
  <2>1. \A i \in DOMAIN a \cup {st} : (IF i = st THEN b ELSE a[i]) \in BOOLEAN BY <1>1, Zenon
  <2> QED BY <1>2, <2>1, Zenon
<1> QED BY <1>1, <1>3, AnswerIntro

LEMMA EditsAnswers ==
  ASSUME NEW q, NEW a \in Answers(q), NEW e \in Edits(q, a)
  PROVE  e \in Answers(q)
<1>1. Type(q) \in {"multiple_choice", "multiple_true_false", "short_answer"} BY DEF Type
<1>2. CASE Type(q) = "multiple_choice" BY <1>2, ChoiceEditsAnswers DEF Edits
<1>3. CASE Type(q) = "multiple_true_false" BY <1>3, StatementEditsAnswers DEF Edits
<1>4. CASE Type(q) = "short_answer"
  <2>1. e \in TextEdits(q) BY <1>4 DEF Edits
  <2>2. CASE e = Blank BY <2>2, BlankAnswer
  <2>3. CASE \E i \in Items(q) : e = Chosen({i}) BY <2>3, ChosenAnswer
  <2> QED BY <2>1, <2>2, <2>3 DEF TextEdits
<1> QED BY <1>1, <1>2, <1>3, <1>4

(* What the service has comes back as an answer. *)
LEMMA FromBackendAnswers ==
  ASSUME NEW q, NEW wire \in Wires(q)
  PROVE  FromBackend(q, wire) \in Answers(q)
<1>1. CASE OneStatement(q)
  <2> DEFINE S == {st \in Items(q) : wire # {}}
             f == [i \in S |-> wire = {"true"}]
  <2>1. FromBackend(q, wire) = f BY <1>1, Zenon DEF FromBackend
  <2>2. f \in [S -> BOOLEAN] BY Zenon
  <2> QED BY <2>1, <2>2, AnswerIntro
<1>2. CASE ~OneStatement(q)
  <2>1. PICK a \in Answers(q) : wire = ToPayload(q, a) BY DEF Wires
  <2>2. wire \subseteq DOMAIN a BY <1>2, <2>1 DEF ToPayload
  <2>3. wire \in SUBSET Items(q) BY <2>2, AnswerElim
  <2> QED BY <1>2, <2>3, ChosenAnswer DEF FromBackend
<1> QED BY <1>1, <1>2

LEMMA NothingIsWire == ASSUME NEW q PROVE {} \in Wires(q)
<1>1. DOMAIN Blank = {} BY DEF Blank
<1>2. {} = ToPayload(q, Blank) BY <1>1 DEF ToPayload
<1> QED BY <1>2, BlankAnswer DEF Wires

(***************************************************************************)
(* Sheets.                                                                 *)
(***************************************************************************)
LEMMA SheetIntro ==
  ASSUME NEW f, DOMAIN f \subseteq Soal, f = [q \in DOMAIN f |-> f[q]],
         \A q \in DOMAIN f : f[q] \in Entries(q)
  PROVE  f \in GoodSheets
<1> DEFINE Any == UNION {[jawaban : Answers(q), synced : BOOLEAN] : q \in Soal}
<1>1. \A q \in DOMAIN f : f[q] \in Any BY DEF Entries
<1>2. f \in [DOMAIN f -> Any] BY <1>1, Zenon
<1>3. f \in Sheets BY <1>2, Zenon DEF Sheets
<1> QED BY <1>3 DEF GoodSheets

LEMMA SheetElim ==
  ASSUME NEW f \in GoodSheets
  PROVE  /\ DOMAIN f \subseteq Soal
         /\ f = [q \in DOMAIN f |-> f[q]]
         /\ \A q \in DOMAIN f : /\ f[q] \in Entries(q)
                                /\ f[q].jawaban \in Answers(q) /\ f[q].synced \in BOOLEAN
<1> DEFINE Any == UNION {[jawaban : Answers(q), synced : BOOLEAN] : q \in Soal}
<1>1. f \in Sheets /\ \A q \in DOMAIN f : f[q] \in Entries(q) BY DEF GoodSheets
<1>2. PICK Q \in SUBSET Soal : f \in [Q -> Any] BY <1>1, Zenon DEF Sheets
<1> QED BY <1>1, <1>2 DEF Entries

LEMMA EntryGood ==
  ASSUME NEW q, NEW a \in Answers(q), NEW b \in BOOLEAN
  PROVE  Entry(a, b) \in Entries(q) /\ Entry(a, b).jawaban = a
BY DEF Entry, Entries

LEMMA NoEntriesGood == NoEntries \in GoodSheets /\ DOMAIN NoEntries = {}
<1>1. DOMAIN NoEntries = {} /\ NoEntries = [q \in DOMAIN NoEntries |-> NoEntries[q]]
  BY DEF NoEntries
<1> QED BY <1>1, SheetIntro

(* What is above stays. *)
LEMMA SpreadGood ==
  ASSUME NEW below \in GoodSheets, NEW above \in GoodSheets
  PROVE  /\ Spread(below, above) \in GoodSheets
         /\ \A w : Has(above, w) => Has(Spread(below, above), w)
<1> DEFINE f == Spread(below, above)
<1>1. /\ DOMAIN f = DOMAIN below \cup DOMAIN above
      /\ f = [q \in DOMAIN f |-> f[q]]
      /\ \A q \in DOMAIN f : f[q] = IF q \in DOMAIN above THEN above[q] ELSE below[q]
  BY DEF Spread
<1> HIDE DEF f
<1>2. DOMAIN f \subseteq Soal /\ \A q \in DOMAIN f : f[q] \in Entries(q)
  BY <1>1, SheetElim
<1>3. f \in GoodSheets BY <1>1, <1>2, SheetIntro
<1>4. ASSUME NEW w, Has(above, w) PROVE Has(f, w) BY <1>1, <1>4 DEF Has
<1> QED BY <1>3, <1>4 DEF f

(* An answer that is written replaces the one before, of its question only. *)
LEMMA WrittenGood ==
  ASSUME NEW sheet \in GoodSheets, NEW q \in Soal, NEW a \in Answers(q)
  PROVE  /\ Written(sheet, q, a) \in GoodSheets
         /\ \A w : Has(sheet, w) =>
              Has(Written(sheet, q, a), [x \in {q} \cup DOMAIN w |-> IF x = q THEN a ELSE w[x]])
<1> DEFINE one == [x \in {q} |-> Entry(a, FALSE)]
           f == Written(sheet, q, a)
<1>1. one \in GoodSheets
  <2>1. DOMAIN one = {q} /\ one = [x \in DOMAIN one |-> one[x]] /\ one[q] = Entry(a, FALSE)
    OBVIOUS
  <2> HIDE DEF one
  <2>2. one[q] \in Entries(q) BY <2>1, EntryGood
  <2> QED BY <2>1, <2>2, SheetIntro
<1>2. f = Spread(sheet, one) BY DEF Written
<1>3. f \in GoodSheets BY <1>1, <1>2, SpreadGood
<1>4. /\ DOMAIN f = DOMAIN sheet \cup {q}
      /\ \A x \in DOMAIN f : f[x] = IF x = q THEN Entry(a, FALSE) ELSE sheet[x]
  BY <1>2 DEF Spread
<1>5. Entry(a, FALSE).jawaban = a BY DEF Entry
<1> HIDE DEF f
<1>6. ASSUME NEW w, Has(sheet, w)
      PROVE  Has(f, [x \in {q} \cup DOMAIN w |-> IF x = q THEN a ELSE w[x]])
  BY <1>4, <1>5, <1>6 DEF Has
<1> QED BY <1>3, <1>6 DEF f

LEMMA MarkedGood ==
  ASSUME NEW sheet \in GoodSheets, NEW pending
  PROVE  /\ Marked(sheet, pending) \in GoodSheets
         /\ \A w : Has(sheet, w) => Has(Marked(sheet, pending), w)
<1> DEFINE f == Marked(sheet, pending)
<1>1. /\ DOMAIN f = DOMAIN sheet
      /\ f = [q \in DOMAIN f |-> f[q]]
      /\ \A q \in DOMAIN f :
           f[q] = IF q \in pending THEN [sheet[q] EXCEPT !.synced = TRUE] ELSE sheet[q]
  BY DEF Marked
<1> HIDE DEF f
<1>2. \A q \in DOMAIN f : f[q] \in Entries(q) /\ f[q].jawaban = sheet[q].jawaban
  <2> SUFFICES ASSUME NEW q \in DOMAIN f
               PROVE  f[q] \in Entries(q) /\ f[q].jawaban = sheet[q].jawaban
    OBVIOUS
  <2>1. sheet[q] \in Entries(q) BY <1>1, SheetElim
  <2>2. [sheet[q] EXCEPT !.synced = TRUE] \in Entries(q)
        /\ [sheet[q] EXCEPT !.synced = TRUE].jawaban = sheet[q].jawaban
    BY <2>1 DEF Entries
  <2> QED BY <1>1, <2>1, <2>2
<1>3. DOMAIN f \subseteq Soal BY <1>1, SheetElim
<1>4. f \in GoodSheets BY <1>1, <1>2, <1>3, SheetIntro
<1>5. ASSUME NEW w, Has(sheet, w) PROVE Has(f, w) BY <1>1, <1>2, <1>5 DEF Has
<1> QED BY <1>4, <1>5 DEF f

LEMMA BackendSheetGood ==
  ASSUME NEW answers, \A q \in Soal : answers[q] \in Wires(q)
  PROVE  BackendSheet(answers) \in GoodSheets
<1> DEFINE f == BackendSheet(answers)
<1>1. /\ DOMAIN f \subseteq Soal
      /\ f = [q \in DOMAIN f |-> f[q]]
      /\ \A q \in DOMAIN f : f[q] = Entry(FromBackend(q, answers[q]), TRUE)
  BY DEF BackendSheet
<1> HIDE DEF f
<1>2. \A q \in DOMAIN f : f[q] \in Entries(q) BY <1>1, FromBackendAnswers, EntryGood
<1>3. f \in GoodSheets BY <1>1, <1>2, SheetIntro
<1> QED BY <1>3 DEF f

(***************************************************************************)
(* What is sent.                                                           *)
(***************************************************************************)
LEMMA NoPayloadGood == GoodPayload(NoPayload) /\ DOMAIN NoPayload = {}
BY DEF NoPayload, GoodPayload

LEMMA PayloadGood ==
  ASSUME NEW sheet \in GoodSheets, NEW pending, pending \subseteq DOMAIN sheet
  PROVE  GoodPayload(Payload(sheet, pending))
<1> DEFINE f == Payload(sheet, pending)
<1>1. /\ DOMAIN f \subseteq pending
      /\ \A q \in DOMAIN f : f[q] = ToPayload(q, sheet[q].jawaban)
  BY DEF Payload
<1> HIDE DEF f
<1>2. \A q \in DOMAIN sheet : ToPayload(q, sheet[q].jawaban) \in Wires(q)
  BY SheetElim DEF Wires
<1>3. DOMAIN sheet \subseteq Soal BY SheetElim
<1>4. GoodPayload(f) BY <1>1, <1>2, <1>3 DEF GoodPayload
<1> QED BY <1>4 DEF f

(* Everything typed that is sent at all is in what is sent of a whole sheet. *)
LEMMA PayloadHas ==
  ASSUME NEW sheet \in GoodSheets, NEW w, Has(sheet, w), NEW q \in DOMAIN w,
         ToPayload(q, w[q]) # {}
  PROVE  /\ q \in DOMAIN Payload(sheet, DOMAIN sheet)
         /\ Payload(sheet, DOMAIN sheet)[q] = ToPayload(q, w[q])
<1> DEFINE f == Payload(sheet, DOMAIN sheet)
<1>1. /\ DOMAIN f = {x \in DOMAIN sheet : ToPayload(x, sheet[x].jawaban) # {}}
      /\ \A x \in DOMAIN f : f[x] = ToPayload(x, sheet[x].jawaban)
  BY DEF Payload
<1> HIDE DEF f
<1>2. q \in DOMAIN sheet /\ sheet[q].jawaban = w[q] BY DEF Has
<1>3. q \in DOMAIN f /\ f[q] = ToPayload(q, w[q]) BY <1>1, <1>2
<1> QED BY <1>3 DEF f

LEMMA UpsertWires ==
  ASSUME NEW answers, \A q \in Soal : answers[q] \in Wires(q),
         NEW payload, GoodPayload(payload)
  PROVE  /\ Upsert(answers, payload) \in [Soal -> UNION {Wires(q) : q \in Soal}]
         /\ \A q \in Soal : Upsert(answers, payload)[q] \in Wires(q)
         /\ \A q \in DOMAIN payload : Upsert(answers, payload)[q] = payload[q]
<1> DEFINE f == Upsert(answers, payload)
<1>1. \A q \in Soal : f[q] = IF q \in DOMAIN payload THEN payload[q] ELSE answers[q]
  BY DEF Upsert
<1>2. f = [q \in Soal |-> f[q]] BY DEF Upsert
<1> HIDE DEF f
<1>3. \A q \in Soal : f[q] \in Wires(q) BY <1>1 DEF GoodPayload
<1>4. \A q \in Soal : f[q] \in UNION {Wires(x) : x \in Soal} BY <1>3
<1>5. f \in [Soal -> UNION {Wires(q) : q \in Soal}] BY <1>2, <1>4
<1>6. \A q \in DOMAIN payload : f[q] = payload[q] BY <1>1 DEF GoodPayload
<1> QED BY <1>3, <1>5, <1>6 DEF f

(***************************************************************************)
(* The server moves on.                                                    *)
(***************************************************************************)
LEMMA ReconciledLater ==
  ASSUME ServerType
  PROVE  Reconciled \in 1 .. NumSubtests + 1 /\ active <= Reconciled
BY NumSubtestsAssumption DEF ServerType, Reconciled, Subtests

LEMMA Served ==
  ASSUME ServerType, ClocksInTurn, NEW step \in Steps, NEW s, NEW payload,
         step \in {"start", "save", "submit"} => s \in Subtests /\ GoodPayload(payload),
         Serve(step, s, payload)
  PROVE  /\ ServerType' /\ ClocksInTurn' /\ active <= active'
         /\ \A x \in Subtests : phase[x] \in {"new", "begun"} => phase'[x] \in {"new", "begun"}
         /\ step \notin {"soal", "logout"} => Reconciled <= active'
         /\ step = "current" => active' = Reconciled
         /\ step \in {"start", "save", "submit"} /\ Reconciled = s =>
              /\ saved'[s] = Upsert(saved[s], payload)
              /\ step = "submit" => active' = s + 1
<1>0. Reconciled \in 1 .. NumSubtests + 1 /\ active <= Reconciled BY ReconciledLater
<1>1. NumSubtests \in Nat /\ active \in Nat BY NumSubtestsAssumption DEF ServerType
<1>2. CASE step \in {"soal", "logout"}
  BY <1>1, <1>2 DEF Serve, server, ServerType, ClocksInTurn
<1>3. CASE step \notin {"soal", "logout"} /\ (step = "current" \/ Reconciled # s)
  <2>1. active' = Reconciled /\ phase' = phase /\ saved' = saved BY <1>3 DEF Serve
  <2> QED BY <1>0, <1>1, <1>3, <2>1 DEF ServerType, ClocksInTurn, Subtests
<1>4. CASE step \in {"start", "save", "submit"} /\ Reconciled = s
  <2>1. /\ active' = IF step = "submit" THEN s + 1 ELSE s
        /\ phase' = [phase EXCEPT ![s] = IF @ = "new" THEN "begun" ELSE @]
        /\ saved' = [saved EXCEPT ![s] = Upsert(saved[s], payload)]
    BY <1>4 DEF Serve
  <2>2. /\ Upsert(saved[s], payload) \in [Soal -> UNION {Wires(q) : q \in Soal}]
        /\ \A q \in Soal : Upsert(saved[s], payload)[q] \in Wires(q)
    BY <1>4, UpsertWires DEF ServerType
  <2>3. /\ saved' \in [Subtests -> [Soal -> UNION {Wires(q) : q \in Soal}]]
        /\ \A x \in Subtests, q \in Soal : saved'[x][q] \in Wires(q)
        /\ saved'[s] = Upsert(saved[s], payload)
    BY <1>4, <2>1, <2>2 DEF ServerType
  <2>4. /\ phase' \in [Subtests -> Phases]
        /\ \A x \in Subtests \ {s} : phase'[x] = phase[x]
        /\ phase[s] \in {"new", "begun"} => phase'[s] = "begun"
    BY <1>4, <2>1 DEF ServerType, Phases
  <2>5. active' \in 1 .. NumSubtests + 1 /\ s <= active'
    BY <1>1, <1>4, <2>1 DEF Subtests
  <2>6. ServerType' BY <2>3, <2>4, <2>5 DEF ServerType
  <2>7. ClocksInTurn'
    BY <1>0, <1>1, <1>4, <2>4, <2>5 DEF ClocksInTurn, Subtests
  <2> QED BY <1>0, <1>1, <1>4, <2>1, <2>3, <2>4, <2>5, <2>6, <2>7
<1> QED BY <1>2, <1>3, <1>4 DEF Steps

(* What is true of the screen, of what is stored and of a call remains true
   when the server moves on. *)
LEMMA ScreenLater ==
  ASSUME ScreenInv, ServerType', active <= active', UNCHANGED <<page, screen, local, typed, overwritten>>
  PROVE  LocalKept' /\ ScreenTrue'
<1>1. active \in Nat /\ active' \in Nat /\ NumSubtests \in Nat
  BY NumSubtestsAssumption DEF ScreenInv, ServerType
<1>2. screen \in Screens /\ page \in Pages BY DEF ScreenInv, ClientType
<1>3. screen.backend \in Nat BY <1>1, <1>2 DEF Screens
<1>4. LocalKept' BY <1>1 DEF ScreenInv, LocalKept, Subtests
<1>5. ScreenTrue' BY <1>1, <1>3 DEF ScreenInv, ScreenTrue, Mounted, Subtests
<1> QED BY <1>4, <1>5

LEMMA TaskLater ==
  ASSUME ScreenInv, ServerType', active <= active', UNCHANGED <<page, screen>>,
         NEW c \in Tasks, TaskTrue(c),
         c.kind # "none" =>
           \A s \in Subtests : phase[s] \in {"new", "begun"} => phase'[s] \in {"new", "begun"}
  PROVE  TaskTrue(c)'
<1>1. active \in Nat /\ active' \in Nat /\ NumSubtests \in Nat
  BY NumSubtestsAssumption DEF ScreenInv, ServerType
<1>2. c.at \in Nat /\ c.active \in Nat /\ (c.at \in Subtests \/ c.at = 0)
  BY <1>1 DEF Tasks, Subtests
<1>3. LearnedTrue(c)'
  <2>1. c.kind = "load" /\ c.step = "current" /\ c.net = "ok" =>
          c.active \in Subtests /\ (c.active < c.at => phase'[c.at] \in {"new", "begun"})
    BY <1>2 DEF TaskTrue, LearnedTrue, StepOfKind
  <2> QED BY <1>1, <1>2, <2>1 DEF TaskTrue, LearnedTrue
<1>4. CarriesTyped(c)' BY <1>1, <1>2 DEF TaskTrue, CarriesTyped
<1>5. StepOfKind(c)' BY DEF TaskTrue, StepOfKind
<1>6. OfScreen(c)' BY DEF TaskTrue, OfScreen, Mounted
<1> QED BY <1>3, <1>4, <1>5, <1>6 DEF TaskTrue

(* A step of the server that no call takes part in. *)
LEMMA ServerStep ==
  ASSUME ScreenInv, ServerType', ClocksInTurn', active <= active',
         UNCHANGED <<stores, page, screen, task, typed, overwritten>>,
         late' # NoRequest => LateRequest(late'),
         (\E t \in Slots : task[t].kind # "none") =>
           \A s \in Subtests : phase[s] \in {"new", "begun"} => phase'[s] \in {"new", "begun"}
  PROVE  ScreenInv'
<1>1. ClientType' BY DEF ScreenInv, ClientType, stores
<1>2. LocalKept' /\ ScreenTrue' BY ScreenLater DEF stores
<1>3. OneLoad' BY DEF ScreenInv, OneLoad, Loads
<1>4. ASSUME NEW t \in Slots PROVE TaskTrue(task[t])'
  <2>1. PICK c \in Tasks : c = task[t] /\ TaskTrue(c) BY DEF ScreenInv, ClientType
  <2>2. TaskTrue(c)' BY <2>1, TaskLater
  <2> QED BY <2>1, <2>2
<1> QED BY <1>1, <1>2, <1>3, <1>4 DEF ScreenInv

LEMMA ArrivesLateKeeps == ASSUME ScreenInv, ArrivesLate PROVE ScreenInv'
<1>1. late.step \in Steps /\ late.at \in Subtests /\ GoodPayload(late.payload)
      /\ Serve(late.step, late.at, late.payload)
  BY DEF ScreenInv, ClientType, LateRequest, ArrivesLate, Steps
<1>2. PICK step, s, payload :
        /\ step \in Steps /\ s \in Subtests /\ GoodPayload(payload)
        /\ Serve(step, s, payload)
  BY <1>1
<1>3. /\ ServerType' /\ ClocksInTurn' /\ active <= active'
      /\ \A x \in Subtests : phase[x] \in {"new", "begun"} => phase'[x] \in {"new", "begun"}
  BY <1>2, Served DEF ScreenInv
<1> QED BY <1>3, ServerStep DEF ArrivesLate, bounds

LEMMA DeviceSavesKeeps ==
  ASSUME ScreenInv, NEW q \in Soal, NEW wire \in Wires(q), DeviceSaves(q, wire)
  PROVE  ScreenInv'
<1> DEFINE payload == [x \in {q} |-> wire]
<1>1. active \in Subtests /\ Serve("save", active, payload) BY DEF DeviceSaves
<1>2. GoodPayload(payload) BY DEF GoodPayload
<1> HIDE DEF payload
<1>3. /\ ServerType' /\ ClocksInTurn' /\ active <= active'
      /\ \A x \in Subtests : phase[x] \in {"new", "begun"} => phase'[x] \in {"new", "begun"}
  BY <1>1, <1>2, Served DEF ScreenInv, Steps
<1>4. late' = late BY DEF DeviceSaves
<1> QED BY <1>3, <1>4, ServerStep DEF DeviceSaves, ScreenInv, ClientType

LEMMA DeviceSubmitsKeeps == ASSUME ScreenInv, DeviceSubmits PROVE ScreenInv'
<1>1. active \in Subtests /\ Serve("submit", active, NoPayload) BY DEF DeviceSubmits
<1>2. /\ ServerType' /\ ClocksInTurn' /\ active <= active'
      /\ \A x \in Subtests : phase[x] \in {"new", "begun"} => phase'[x] \in {"new", "begun"}
  BY <1>1, NoPayloadGood, Served DEF ScreenInv, Steps
<1>3. late' = late BY DEF DeviceSubmits
<1> QED BY <1>2, <1>3, ServerStep DEF DeviceSubmits, ScreenInv, ClientType

(* The time of a subtest that has just begun is up only after its calls. *)
LEMMA TimePassesKeeps ==
  ASSUME ScreenInv, NEW s \in Subtests, TimePasses(s)
  PROVE  ScreenInv'
<1>1. /\ phase[s] \in {"begun", "running", "due"}
      /\ (\E t \in Slots : task[t].kind # "none") => phase[s] \in {"running", "due"}
      /\ phase' = [phase EXCEPT ![s] =
           CASE @ = "begun" -> "running" [] @ = "running" -> "due" [] @ = "due" -> "past"]
      /\ UNCHANGED <<active, saved, stores, page, screen, task, late, typed, overwritten>>
  BY DEF TimePasses
<1>2. phase' \in [Subtests -> Phases] /\ \A x \in Subtests \ {s} : phase'[x] = phase[x]
  BY <1>1 DEF ScreenInv, ServerType, Phases
<1>3. ServerType' BY <1>1, <1>2 DEF ScreenInv, ServerType
<1>4. ClocksInTurn' BY <1>1, <1>2 DEF ScreenInv, ClocksInTurn
<1>5. active <= active' BY <1>1, NumSubtestsAssumption DEF ScreenInv, ServerType
<1>6. (\E t \in Slots : task[t].kind # "none") =>
        \A x \in Subtests : phase[x] \in {"new", "begun"} => phase'[x] \in {"new", "begun"}
  BY <1>1, <1>2
<1>7. late' # NoRequest => LateRequest(late') BY <1>1 DEF ScreenInv, ClientType
<1> QED BY <1>1, <1>3, <1>4, <1>5, <1>6, <1>7, ServerStep

(***************************************************************************)
(* The answers of the server.                                              *)
(***************************************************************************)
LEMMA NothingTypedGood == NothingTyped \in Typings /\ \A sheet : Has(sheet, NothingTyped)
<1>1. NothingTyped \in [{} -> AnySoal] /\ DOMAIN NothingTyped = {} BY DEF NothingTyped
<1>2. NothingTyped \in Typings BY <1>1, Zenon DEF Typings
<1> QED BY <1>1, <1>2 DEF Has

LEMMA CarriedGood ==
  ASSUME NEW c \in Tasks, CarriesTyped(c), c.net = "sent"
  PROVE  GoodPayload(Carried(c))
<1>1. /\ c.answers \in GoodSheets
      /\ c.step = "save" => c.pending \subseteq DOMAIN c.answers
  BY DEF Tasks, CarriesTyped
<1> QED BY <1>1, PayloadGood, NoPayloadGood DEF Carried

(* One call changes; what was true of the others still is. *)
LEMMA OneCallChanges ==
  ASSUME ScreenInv, NEW t \in Slots, NEW new \in Tasks, TaskTrue(new)',
         task' = [task EXCEPT ![t] = new], Loads(new) => Loads(task[t]),
         \A x \in Slots \ {t} : \A c \in Tasks : c = task[x] /\ TaskTrue(c) => TaskTrue(c)'
  PROVE  /\ task' \in [Slots -> Tasks] /\ OneLoad'
         /\ \A x \in Slots : TaskTrue(task[x])'
<1>1. task' \in [Slots -> Tasks] /\ task'[t] = new /\ \A x \in Slots \ {t} : task'[x] = task[x]
  BY DEF ScreenInv, ClientType
<1>2. OneLoad' BY <1>1 DEF ScreenInv, OneLoad, Loads
<1>3. ASSUME NEW x \in Slots PROVE TaskTrue(task[x])'
  <2>1. CASE x = t BY <1>1, <2>1
  <2>2. CASE x # t
    <3>1. PICK c \in Tasks : c = task[x] /\ TaskTrue(c) BY DEF ScreenInv, ClientType
    <3>2. TaskTrue(c)' BY <2>2, <3>1
    <3> QED BY <1>1, <2>2, <3>1, <3>2
  <2> QED BY <2>1, <2>2
<1> QED BY <1>1, <1>2, <1>3

LEMMA BackFields ==
  ASSUME ServerType, NEW c \in Tasks, c.step = "start" => c.at \in Subtests,
         NEW net \in Nets \ {"sent"}
  PROVE  LET b == Back(c, net)
             first == c.kind = "submit" /\ c.step = "save"
         IN  /\ b \in Tasks
             /\ b.kind = c.kind /\ b.mine = c.mine /\ b.at = c.at /\ b.step = c.step
             /\ b.by = c.by /\ b.net = net
             /\ b.active = IF net = "order" \/ (c.step = "current" /\ net = "ok")
                             THEN Reconciled ELSE 0
             /\ first => b.answers = c.answers /\ b.pending = c.pending /\ b.wanted = c.wanted
             /\ ~first => b.wanted = NothingTyped
<1> DEFINE b == Back(c, net)
           first == c.kind = "submit" /\ c.step = "save"
           got == IF net = "order" \/ (c.step = "current" /\ net = "ok") THEN Reconciled ELSE 0
           sheet == IF c.step = "start" /\ net = "ok" THEN BackendSheet(saved[c.at])
                    ELSE IF c.step = "soal" \/ first THEN c.answers ELSE NoEntries
           pending == IF c.step = "save" THEN c.pending ELSE {}
           wanted == IF first THEN c.wanted ELSE NothingTyped
<1>1. b = [c EXCEPT !.net = net, !.active = got, !.answers = sheet,
                    !.pending = pending, !.wanted = wanted]
  BY DEF Back
<1>2. got \in 0 .. NumSubtests + 1 BY ReconciledLater, NumSubtestsAssumption
<1>3. sheet \in GoodSheets BY NoEntriesGood, BackendSheetGood DEF ServerType, Tasks
<1>4. pending \in SUBSET Soal BY DEF Tasks
<1>5. wanted \in Typings BY NothingTypedGood DEF Tasks
<1>6. /\ first => sheet = c.answers /\ pending = c.pending /\ wanted = c.wanted
      /\ ~first => wanted = NothingTyped
  OBVIOUS
<1>7. got = IF net = "order" \/ (c.step = "current" /\ net = "ok") THEN Reconciled ELSE 0
  OBVIOUS
<1> HIDE DEF b, got, sheet, pending, wanted
<1>8. /\ b \in Tasks
      /\ b.kind = c.kind /\ b.mine = c.mine /\ b.at = c.at /\ b.step = c.step
      /\ b.by = c.by /\ b.net = net /\ b.active = got /\ b.answers = sheet
      /\ b.pending = pending /\ b.wanted = wanted
  BY <1>1, <1>2, <1>3, <1>4, <1>5 DEF Tasks
<1> QED BY <1>6, <1>7, <1>8 DEF b

(* What the server did is what its answer tells. *)
LEMMA BackTrue ==
  ASSUME ScreenInv, ServerType', ClocksInTurn', active <= active', UNCHANGED <<page, screen>>,
         NEW c \in Tasks, TaskTrue(c), c.kind # "none", c.net = "sent",
         NEW net \in Nets \ {"sent"}, NEW b, b = Back(c, net),
         net \notin {"fail", "auth"} =>
           /\ \/ net = Verdict(c.step, c.at)
              \/ net = "committed" /\ c.step = "submit" /\ Verdict(c.step, c.at) = "ok"
           /\ c.step \notin {"soal", "logout"} => Reconciled <= active'
           /\ c.step = "current" => active' = Reconciled
           /\ c.step = "submit" /\ Reconciled = c.at => active' = c.at + 1
  PROVE  b \in Tasks /\ b.kind = c.kind /\ b.mine = c.mine /\ TaskTrue(b)'
<1> DEFINE first == c.kind = "submit" /\ c.step = "save"
<1>1. NumSubtests \in Nat /\ active \in Nat /\ active' \in Nat /\ c.at \in Nat /\ Reconciled \in Nat
      /\ active <= Reconciled /\ Reconciled <= NumSubtests + 1
  BY NumSubtestsAssumption, ReconciledLater DEF ScreenInv, ServerType, Tasks
<1>2. c.step \in {"start", "soal", "save", "submit"} => c.at \in Subtests /\ c.at <= active
  BY DEF TaskTrue, LearnedTrue
<1>3. /\ b \in Tasks
      /\ b.kind = c.kind /\ b.mine = c.mine /\ b.at = c.at /\ b.step = c.step
      /\ b.by = c.by /\ b.net = net
      /\ b.active = IF net = "order" \/ (c.step = "current" /\ net = "ok") THEN Reconciled ELSE 0
      /\ first => b.answers = c.answers /\ b.pending = c.pending /\ b.wanted = c.wanted
      /\ ~first => b.wanted = NothingTyped
  BY <1>2, BackFields DEF ScreenInv
<1>4. LearnedTrue(b)'
  <2>1. CASE net \in {"fail", "auth"} BY <1>1, <1>2, <1>3, <2>1 DEF LearnedTrue
  <2>2. CASE net \notin {"fail", "auth"}
    <3>1. CASE c.step \in {"soal", "logout"}
      BY <1>1, <1>2, <1>3, <2>2, <3>1 DEF LearnedTrue, Verdict
    <3>2. CASE c.step = "current"
      <4>1. net = IF Reconciled \in Subtests THEN "ok" ELSE "none"
        BY <2>2, <3>2 DEF Verdict
      <4>2. c.kind = "load" /\ net = "ok" /\ Reconciled < c.at => phase'[c.at] = "new"
        <5> SUFFICES ASSUME c.kind = "load", Reconciled < c.at PROVE phase'[c.at] = "new"
          OBVIOUS
        <5>1. c.at \in Subtests BY DEF TaskTrue, StepOfKind
        <5>2. c.at > active' => phase'[c.at] = "new" BY <5>1 DEF ClocksInTurn
        <5> QED BY <1>1, <2>2, <3>2, <5>2
      <4> QED BY <1>1, <1>3, <2>2, <3>2, <4>1, <4>2 DEF LearnedTrue
    <3>3. CASE c.step \in {"start", "save", "submit"}
      <4>1. net = "order" \/ net = "over" \/ ((net = "ok" \/ net = "committed") /\ Reconciled = c.at)
        BY <2>2, <3>3 DEF Verdict
      <4>2. /\ net = "order" => Reconciled \in Subtests
            /\ net = "order" \/ net = "over" => Reconciled # c.at
        BY <2>2, <3>3 DEF Verdict
      <4> QED BY <1>1, <1>2, <1>3, <2>2, <3>3, <4>1, <4>2 DEF LearnedTrue
    <3> QED BY <3>1, <3>2, <3>3 DEF Tasks, Steps
  <2> QED BY <2>1, <2>2
<1>5. CarriesTyped(b)'
  BY <1>1, <1>3, NothingTypedGood DEF CarriesTyped, TaskTrue
<1>6. StepOfKind(b)' BY <1>3 DEF StepOfKind, TaskTrue
<1>7. OfScreen(b)' BY <1>3 DEF OfScreen, TaskTrue, Mounted
<1>8. TaskTrue(b)' BY <1>4, <1>5, <1>6, <1>7 DEF TaskTrue
<1> QED BY <1>3, <1>8

LEMMA AnsweredKeeps == ASSUME ScreenInv, NEW t \in Slots, Answered(t) PROVE ScreenInv'
<1>1. PICK c \in Tasks : c = task[t] /\ TaskTrue(c) BY DEF ScreenInv, ClientType
<1>2. /\ c.kind # "none" /\ c.net = "sent"
      /\ Serve(c.step, c.at, Carried(c))
      /\ UNCHANGED <<stores, page, screen, late, typed, overwritten>>
  BY <1>1 DEF Answered
<1>3. PICK net \in {Verdict(c.step, c.at), "fail"} \cup
                   (IF c.step = "submit" /\ Verdict(c.step, c.at) = "ok" /\ c.at = NumSubtests
                      THEN {"committed"} ELSE {}) :
        task' = [task EXCEPT ![t] = Back(c, net)]
  BY <1>1 DEF Answered
<1>4. net \in Nets \ {"sent"} BY <1>3 DEF Verdict, Nets
<1>5. c.step \in Steps /\ (c.step \in {"start", "save", "submit"} => c.at \in Subtests)
  BY <1>1, <1>2 DEF Tasks, TaskTrue, LearnedTrue
<1>6. PICK payload : payload = Carried(c) /\ GoodPayload(payload)
  BY <1>1, <1>2, CarriedGood DEF TaskTrue
<1>7. /\ ServerType' /\ ClocksInTurn' /\ active <= active'
      /\ \A x \in Subtests : phase[x] \in {"new", "begun"} => phase'[x] \in {"new", "begun"}
      /\ c.step \notin {"soal", "logout"} => Reconciled <= active'
      /\ c.step = "current" => active' = Reconciled
      /\ c.step = "submit" /\ Reconciled = c.at => active' = c.at + 1
  BY <1>2, <1>5, <1>6, Served DEF ScreenInv
<1>8. PICK b : b = Back(c, net) OBVIOUS
<1>9. b \in Tasks /\ b.kind = c.kind /\ b.mine = c.mine /\ TaskTrue(b)'
  BY <1>1, <1>2, <1>3, <1>4, <1>7, <1>8, BackTrue
<1>10. \A x \in Slots \ {t} : \A d \in Tasks : d = task[x] /\ TaskTrue(d) => TaskTrue(d)'
  BY <1>2, <1>7, TaskLater
<1>11. /\ task' \in [Slots -> Tasks] /\ OneLoad'
       /\ \A x \in Slots : TaskTrue(task[x])'
  BY <1>1, <1>3, <1>8, <1>9, <1>10, OneCallChanges DEF Loads
<1>12. LocalKept' /\ ScreenTrue' BY <1>2, <1>7, ScreenLater DEF stores
<1>13. ClientType' BY <1>2, <1>11 DEF ScreenInv, ClientType, stores
<1> QED BY <1>7, <1>11, <1>12, <1>13 DEF ScreenInv

(* A request that is on its way when its call gives up. *)
LEMMA LateGood ==
  ASSUME ScreenInv, NEW C,
         \A c \in C : Writes(c) => c.at \in Subtests /\ GoodPayload(Carried(c)),
         NEW r \in StillUnderWay(C)
  PROVE  r # NoRequest => LateRequest(r)
<1>1. CASE r = late BY <1>1 DEF ScreenInv, ClientType
<1>2. CASE \E c \in C : Writes(c) /\ r = Request(c)
  <2>1. PICK c \in C : Writes(c) /\ r = Request(c) BY <1>2
  <2>2. r.step = c.step /\ r.at = c.at /\ r.payload = Carried(c) BY <2>1 DEF Request
  <2> QED BY <2>1, <2>2 DEF LateRequest, Writes
<1> QED BY <1>1, <1>2 DEF StillUnderWay

LEMMA WritesGood ==
  ASSUME NEW c \in Tasks, TaskTrue(c), Writes(c)
  PROVE  c.at \in Subtests /\ GoodPayload(Carried(c))
BY CarriedGood DEF Writes, TaskTrue, LearnedTrue

LEMMA FailsKeeps == ASSUME ScreenInv, NEW t \in Slots, Fails(t) PROVE ScreenInv'
<1>1. PICK c \in Tasks : c = task[t] /\ TaskTrue(c) BY DEF ScreenInv, ClientType
<1>2. /\ c.kind # "none" /\ c.net = "sent"
      /\ late' \in StillUnderWay({c})
      /\ UNCHANGED <<server, stores, page, screen, typed, overwritten>>
  BY <1>1 DEF Fails
<1>3. PICK net \in {"fail", "auth"} : task' = [task EXCEPT ![t] = Back(c, net)]
  BY <1>1 DEF Fails
<1>4. /\ active' = active /\ phase' = phase /\ saved' = saved BY <1>2 DEF server
<1>5. ServerType' /\ ClocksInTurn' /\ active <= active'
  BY <1>4, NumSubtestsAssumption DEF ScreenInv, ServerType, ClocksInTurn
<1>6. PICK b : b = Back(c, net) OBVIOUS
<1>7. b \in Tasks /\ b.kind = c.kind /\ b.mine = c.mine /\ TaskTrue(b)'
  BY <1>1, <1>2, <1>3, <1>5, <1>6, BackTrue DEF Nets
<1>8. \A x \in Slots \ {t} : \A d \in Tasks : d = task[x] /\ TaskTrue(d) => TaskTrue(d)'
  BY <1>2, <1>4, <1>5, TaskLater
<1>9. /\ task' \in [Slots -> Tasks] /\ OneLoad'
      /\ \A x \in Slots : TaskTrue(task[x])'
  BY <1>1, <1>3, <1>6, <1>7, <1>8, OneCallChanges DEF Loads
<1>10. LocalKept' /\ ScreenTrue' BY <1>2, <1>5, ScreenLater DEF stores
<1>11. late' # NoRequest => LateRequest(late')
  BY <1>1, <1>2, WritesGood, LateGood
<1>12. ClientType' BY <1>2, <1>9, <1>11 DEF ScreenInv, ClientType, stores
<1> QED BY <1>5, <1>9, <1>10, <1>12 DEF ScreenInv

(***************************************************************************)
(* The client moves on.                                                    *)
(***************************************************************************)
(* What is stored: nothing changes, or what goes is of a closed subtest. *)
StoresGood ==
  /\ local' \in [Subtests -> GoodSheets]
  /\ cache' \in [Subtests -> GoodSheets \cup {NoCache}]
  /\ LocalKept'

LEMMA StoresStay ==
  ASSUME ScreenInv, UNCHANGED <<server, typed, overwritten, stores>>
  PROVE  StoresGood
BY DEF ScreenInv, ClientType, LocalKept, StoresGood, server, stores

LEMMA CacheGoes ==
  ASSUME ScreenInv, UNCHANGED <<server, typed, overwritten>>, NEW s, CacheRemoved(s)
  PROVE  StoresGood
<1>1. local' = local /\ cache' = [cache EXCEPT ![s] = NoCache] BY DEF CacheRemoved
<1>2. LocalKept' BY <1>1 DEF ScreenInv, LocalKept, server
<1> QED BY <1>1, <1>2 DEF ScreenInv, ClientType, StoresGood

LEMMA BothGo ==
  ASSUME ScreenInv, UNCHANGED <<server, typed, overwritten>>, NEW s \in Subtests, s < active, Removed(s)
  PROVE  StoresGood
<1>1. local' = [local EXCEPT ![s] = NoEntries] /\ cache' = [cache EXCEPT ![s] = NoCache]
  BY DEF Removed
<1>2. local' \in [Subtests -> GoodSheets] /\ cache' \in [Subtests -> GoodSheets \cup {NoCache}]
  BY <1>1, NoEntriesGood DEF ScreenInv, ClientType
<1>3. \A x \in Subtests : x >= active => local'[x] = local[x]
  BY <1>1, NumSubtestsAssumption DEF ScreenInv, ClientType, ServerType, Subtests
<1>4. LocalKept' BY <1>3 DEF ScreenInv, LocalKept, server
<1> QED BY <1>2, <1>4 DEF StoresGood

(***************************************************************************)
(* The screen.                                                             *)
(***************************************************************************)
LEMMA FreshGood ==
  /\ Fresh \in Screens /\ ~Fresh.loaded /\ ~Fresh.timeUp /\ Fresh.backend = 0
  /\ Fresh.answers = NoEntries
<1>1. 0 \in 0 .. NumSubtests BY NumSubtestsAssumption
<1>2. Fresh \in Screens BY <1>1, NoEntriesGood DEF Fresh, Screens
<1> QED BY <1>2 DEF Fresh

LEMMA FreshTrue ==
  ASSUME ScreenInv, UNCHANGED server, screen' = Fresh
  PROVE  ScreenTrue'
<1>1. active' = active /\ active \in Nat
  BY NumSubtestsAssumption DEF server, ScreenInv, ServerType
<1> QED BY <1>1, FreshGood DEF ScreenTrue

(* Neither what is shown nor the subtest changes, or the time turns out to be
   up, or the subtest is learned. *)
SameView(new) ==
  /\ new \in Screens /\ new.answers = screen.answers /\ new.loaded = screen.loaded
  /\ \/ new.backend = screen.backend
     \/ ~screen.loaded /\ new.backend <= active /\ (new.timeUp \/ new.backend = page)
  /\ new.timeUp = screen.timeUp \/ (new.timeUp /\ (Mounted => page < active))

LEMMA SameViewTrue ==
  ASSUME ScreenInv, UNCHANGED <<server, typed, overwritten, page>>, NEW new, SameView(new), screen' = new
  PROVE  screen' \in Screens /\ ScreenTrue'
<1>1. active' = active /\ page' = page /\ typed' = typed /\ overwritten' = overwritten
  BY DEF server
<1>2. screen' \in Screens /\ screen \in Screens BY DEF SameView, ScreenInv, ClientType
<1>3. screen'.backend <= active' BY <1>1 DEF SameView, ScreenInv, ScreenTrue
<1>4. ~screen'.loaded => screen'.answers = NoEntries
  BY <1>1 DEF SameView, ScreenInv, ScreenTrue
<1>5. screen'.loaded => Mounted' /\ screen'.backend = page'
  BY <1>1 DEF SameView, ScreenInv, ScreenTrue, Mounted
<1>6. screen'.loaded /\ page' >= active' /\ page' \notin overwritten' =>
        Has(screen'.answers, typed'[page'])
  BY <1>1 DEF SameView, ScreenInv, ScreenTrue
<1>7. ~screen'.timeUp => screen'.backend \in {0, page'}
  BY <1>1 DEF SameView, ScreenInv, ScreenTrue
<1>8. Mounted' /\ screen'.timeUp => page' < active'
  BY <1>1 DEF SameView, ScreenInv, ScreenTrue, Mounted
<1> QED BY <1>2, <1>3, <1>4, <1>5, <1>6, <1>7, <1>8 DEF ScreenTrue

(* A sheet with everything typed is shown and stored. *)
LEMMA ShowsGood ==
  ASSUME ScreenInv, UNCHANGED <<server, page, overwritten>>, page \in Subtests, page <= active,
         NEW new \in Screens, new.timeUp = screen.timeUp,
         NEW sheet \in GoodSheets, Shows(new, page, sheet),
         typed' \in [Subtests -> Typings],
         \A s \in Subtests \ {page} : typed'[s] = typed[s],
         page >= active /\ page \notin overwritten => Has(sheet, typed'[page])
  PROVE  StoresGood /\ screen' \in Screens /\ ScreenTrue' /\ screen'.loaded
<1> DEFINE armed == Unsynced(sheet) # {}
<1>1. armed \in BOOLEAN BY Zenon
<1>2. /\ screen' = [new EXCEPT !.answers = sheet, !.armed = armed, !.loaded = TRUE,
                               !.backend = page]
      /\ local' = [local EXCEPT ![page] = sheet]
      /\ cache' = [cache EXCEPT ![page] = sheet]
  BY Zenon DEF Shows
<1> HIDE DEF armed
<1>3. active' = active /\ page' = page BY DEF server
<1>4. local' \in [Subtests -> GoodSheets] /\ cache' \in [Subtests -> GoodSheets \cup {NoCache}]
  BY <1>2 DEF ScreenInv, ClientType
<1>5. local'[page] = sheet /\ \A s \in Subtests \ {page} : local'[s] = local[s]
  BY <1>2 DEF ScreenInv, ClientType
<1>6. LocalKept' BY <1>3, <1>5 DEF ScreenInv, LocalKept
<1>7. /\ screen' \in Screens /\ screen'.answers = sheet /\ screen'.loaded
      /\ screen'.backend = page /\ screen'.timeUp = screen.timeUp
  <2>1. page \in 0 .. NumSubtests BY NumSubtestsAssumption DEF Subtests
  <2>2. screen' \in Screens BY <1>1, <1>2, <2>1 DEF Screens
  <2>3. screen'.answers = sheet /\ screen'.loaded = TRUE /\ screen'.backend = page
    BY <1>2 DEF Screens
  <2>4. screen'.timeUp = new.timeUp BY <1>2 DEF Screens
  <2> QED BY <2>2, <2>3, <2>4
<1>8. ScreenTrue' BY <1>3, <1>7 DEF ScreenInv, ScreenTrue, Mounted
<1> QED BY <1>4, <1>6, <1>7, <1>8 DEF StoresGood

(***************************************************************************)
(* The calls.                                                              *)
(***************************************************************************)
LEMMA NoTaskType ==
  /\ NoTask \in Tasks /\ NoTask.kind = "none" /\ ~NoTask.mine /\ NoTask.active = 0
  /\ NoTask.net = "sent" /\ NoTask.wanted = NothingTyped /\ NoTask.step = "current"
BY NoEntriesGood, NothingTypedGood, NumSubtestsAssumption
   DEF NoTask, Tasks, Kinds, Steps, Nets

LEMMA NoTaskGood ==
  ASSUME ScreenInv, UNCHANGED server
  PROVE  NoTask \in Tasks /\ TaskTrue(NoTask)' /\ ~Loads(NoTask)
<1>1. /\ NoTask \in Tasks /\ NoTask.kind = "none" /\ ~NoTask.mine /\ NoTask.active = 0
      /\ NoTask.net = "sent" /\ NoTask.wanted = NothingTyped /\ NoTask.step = "current"
  BY NoTaskType
<1>2. active' = active /\ active \in Nat
  BY NumSubtestsAssumption DEF server, ScreenInv, ServerType
<1>3. LearnedTrue(NoTask)' BY <1>1, <1>2 DEF LearnedTrue
<1>4. CarriesTyped(NoTask)' BY <1>1, NothingTypedGood DEF CarriesTyped
<1>5. StepOfKind(NoTask)' /\ OfScreen(NoTask)' BY <1>1 DEF StepOfKind, OfScreen
<1> QED BY <1>1, <1>3, <1>4, <1>5 DEF TaskTrue, Loads

(* A call is about the screen as long as that stays and its load is not over. *)
LEMMA TaskStays ==
  ASSUME ScreenInv, UNCHANGED server, NEW c \in Tasks, TaskTrue(c),
         c.mine => /\ page' = page /\ (screen.loaded => screen'.loaded)
                   /\ c.kind = "load" => screen'.loaded = screen.loaded
  PROVE  TaskTrue(c)'
<1>1. active' = active /\ phase' = phase BY DEF server
<1>2. LearnedTrue(c)' /\ CarriesTyped(c)' /\ StepOfKind(c)'
  BY <1>1 DEF TaskTrue, LearnedTrue, CarriesTyped, StepOfKind
<1>3. OfScreen(c)' BY DEF TaskTrue, OfScreen, Mounted
<1> QED BY <1>2, <1>3 DEF TaskTrue

CallsGood ==
  task' \in [Slots -> Tasks] /\ OneLoad' /\ \A x \in Slots : TaskTrue(task[x])'

LEMMA CallsStay ==
  ASSUME ScreenInv, UNCHANGED <<server, page, task>>, screen'.loaded = screen.loaded
  PROVE  CallsGood
<1>1. task' = task /\ page' = page OBVIOUS
<1>2. task' \in [Slots -> Tasks] /\ OneLoad' BY <1>1 DEF ScreenInv, ClientType, OneLoad, Loads
<1>3. ASSUME NEW x \in Slots PROVE TaskTrue(task[x])'
  <2>1. PICK c \in Tasks : c = task[x] /\ TaskTrue(c) BY DEF ScreenInv, ClientType
  <2>2. TaskTrue(c)' BY <1>1, <2>1, TaskStays
  <2> QED BY <1>1, <2>1, <2>2
<1> QED BY <1>2, <1>3 DEF CallsGood

LEMMA CallChanges ==
  ASSUME ScreenInv, UNCHANGED <<server, page>>, NEW t \in Slots,
         NEW new \in Tasks, TaskTrue(new)', task' = [task EXCEPT ![t] = new],
         Loads(new) => Loads(task[t]),
         \/ screen'.loaded = screen.loaded
         \/ screen'.loaded /\ Loads(task[t])
  PROVE  CallsGood
<1>1. ASSUME NEW x \in Slots \ {t}, NEW c \in Tasks, c = task[x], TaskTrue(c)
      PROVE  TaskTrue(c)'
  <2>1. Loads(task[t]) => ~Loads(c) BY <1>1 DEF ScreenInv, OneLoad
  <2>2. c.mine /\ c.kind = "load" => screen'.loaded = screen.loaded BY <2>1 DEF Loads
  <2> QED BY <1>1, <2>2, TaskStays
<1> QED BY <1>1, OneCallChanges DEF CallsGood

LEMMA CallEnds ==
  ASSUME ScreenInv, UNCHANGED <<server, page>>, NEW t \in Slots, Ends(t),
         \/ screen'.loaded = screen.loaded
         \/ screen'.loaded /\ Loads(task[t])
  PROVE  CallsGood
<1>1. PICK n : n = NoTask OBVIOUS
<1>2. NoTask \in Tasks /\ TaskTrue(NoTask)' /\ ~Loads(NoTask) BY NoTaskGood
<1>3. n \in Tasks /\ TaskTrue(n)' /\ ~Loads(n) BY <1>1, <1>2
<1> QED BY <1>1, <1>3, CallChanges DEF Ends

(* A step of the tab that has kept everything. *)
LEMMA StepKeeps ==
  ASSUME ScreenInv, UNCHANGED <<server, late>>, typed' \in [Subtests -> Typings],
         page' \in Pages, screen' \in Screens, ScreenTrue', StoresGood, CallsGood
  PROVE  ScreenInv'
<1>1. active' = active /\ phase' = phase /\ saved' = saved /\ late' = late BY DEF server
<1>2. ServerType' /\ ClocksInTurn' BY <1>1 DEF ScreenInv, ServerType, ClocksInTurn
<1>3. ClientType' BY <1>1 DEF ScreenInv, ClientType, StoresGood, CallsGood
<1> QED BY <1>2, <1>3 DEF ScreenInv, StoresGood, CallsGood

(***************************************************************************)
(* The router shows another page.                                          *)
(***************************************************************************)
LEMMA CallFields ==
  ASSUME NEW kind \in Kinds, NEW s \in 0 .. NumSubtests, NEW step \in Steps,
         NEW c, c = Call(kind, s, step)
  PROVE  /\ c \in Tasks
         /\ c.kind = kind /\ c.mine /\ c.at = s /\ c.step = step /\ c.net = "sent"
         /\ c.active = 0 /\ c.answers = NoEntries /\ c.pending = {} /\ c.by = "user"
         /\ c.wanted = NothingTyped
<1>1. PICK n \in Tasks : n = NoTask BY NoTaskType
<1>2. /\ n.net = "sent" /\ n.active = 0 /\ n.answers = NoEntries /\ n.pending = {}
      /\ n.by = "user" /\ n.wanted = NothingTyped
  BY <1>1 DEF NoTask
<1>3. c = [n EXCEPT !.kind = kind, !.mine = TRUE, !.at = s, !.step = step]
  BY <1>1, Zenon DEF Call
<1> QED BY <1>2, <1>3 DEF Tasks

LEMMA LoadCallGood ==
  ASSUME ScreenInv, UNCHANGED server, NEW p \in Subtests, page' = p, ~screen'.loaded,
         NEW c, c = Call("load", p, "current")
  PROVE  c \in Tasks /\ TaskTrue(c)'
<1>1. p \in 0 .. NumSubtests /\ "load" \in Kinds /\ "current" \in Steps
  BY NumSubtestsAssumption DEF Subtests, Kinds, Steps
<1>2. /\ c \in Tasks
      /\ c.kind = "load" /\ c.at = p /\ c.step = "current" /\ c.net = "sent"
      /\ c.active = 0 /\ c.pending = {} /\ c.wanted = NothingTyped
  BY <1>1, CallFields
<1>3. active' = active /\ active \in Nat
  BY NumSubtestsAssumption DEF server, ScreenInv, ServerType
<1>4. LearnedTrue(c)' BY <1>2, <1>3 DEF LearnedTrue
<1>5. CarriesTyped(c)' BY <1>2, NothingTypedGood DEF CarriesTyped
<1>6. StepOfKind(c)' BY <1>2 DEF StepOfKind
<1>7. OfScreen(c)' BY <1>2 DEF OfScreen, Mounted
<1> QED BY <1>2, <1>4, <1>5, <1>6, <1>7 DEF TaskTrue

LEMMA ScreenType ==
  ASSUME ScreenInv
  PROVE  /\ screen \in Screens /\ screen.answers \in GoodSheets
         /\ typed \in [Subtests -> Typings] /\ page \in Pages
         /\ ~screen.loaded => screen.answers = NoEntries
         /\ NumSubtests \in Nat /\ active \in Nat
BY NumSubtestsAssumption
   DEF ScreenInv, ServerType, ClientType, ScreenTrue, Screens

LEMMA Arrives ==
  ASSUME ScreenInv, UNCHANGED server, NEW t \in Slots, NEW p \in Pages, Arrive(p, t)
  PROVE  page' \in Pages /\ screen' \in Screens /\ ScreenTrue' /\ CallsGood
<1>1. page' = p /\ screen' = Fresh BY DEF Arrive
<1>2. screen' \in Screens /\ ScreenTrue' /\ ~screen'.loaded BY <1>1, FreshGood, FreshTrue
<1>3. /\ task' = [x \in Slots |-> task'[x]]
      /\ \A x \in Slots \ {t} : task'[x] = Orphaned(task[x])
      /\ task'[t] = IF p \in Subtests THEN Call("load", p, "current") ELSE NoTask
  BY DEF Arrive
<1>4. ASSUME NEW x \in Slots
      PROVE  task'[x] \in Tasks /\ TaskTrue(task[x])' /\ (Loads(task'[x]) => x = t)
  <2>1. CASE x # t
    <3>1. PICK c \in Tasks : c = task[x] /\ TaskTrue(c) BY DEF ScreenInv, ClientType
    <3>2. PICK left \in GoodSheets :
            left = IF c.mine /\ Saves(c) THEN screen.answers ELSE c.left
      BY <3>1, ScreenType DEF Tasks
    <3>2a. PICK d : d = [c EXCEPT !.mine = FALSE, !.left = left] OBVIOUS
    <3>3. /\ d \in Tasks /\ ~d.mine
          /\ d.kind = c.kind /\ d.at = c.at /\ d.step = c.step /\ d.net = c.net
          /\ d.active = c.active /\ d.answers = c.answers /\ d.pending = c.pending
          /\ d.by = c.by /\ d.wanted = c.wanted
      BY <3>2a DEF Tasks
    <3>4. TaskTrue(d)
      BY <3>1, <3>3 DEF TaskTrue, LearnedTrue, CarriesTyped, StepOfKind, OfScreen
    <3>5. TaskTrue(d)' BY <3>3, <3>4, TaskStays
    <3>6. task'[x] = d BY <1>3, <2>1, <3>1, <3>2, <3>2a DEF Orphaned
    <3> QED BY <3>3, <3>5, <3>6 DEF Loads
  <2>2. CASE x = t /\ p \in Subtests
    <3>1. PICK c : c = Call("load", p, "current") OBVIOUS
    <3>2. c \in Tasks /\ TaskTrue(c)' BY <1>1, <1>2, <2>2, <3>1, LoadCallGood
    <3> QED BY <1>3, <2>2, <3>1, <3>2
  <2>3. CASE x = t /\ p \notin Subtests
    <3>1. PICK n : n = NoTask OBVIOUS
    <3>2. NoTask \in Tasks /\ TaskTrue(NoTask)' BY NoTaskGood
    <3> QED BY <1>3, <2>3, <3>1, <3>2
  <2> QED BY <2>1, <2>2, <2>3
<1>5. task' \in [Slots -> Tasks] BY <1>3, <1>4
<1>6. OneLoad' BY <1>4 DEF OneLoad, Loads
<1> QED BY <1>1, <1>2, <1>4, <1>5, <1>6 DEF CallsGood

LEMMA ArriveKeeps ==
  ASSUME ScreenInv, UNCHANGED <<server, late, typed, overwritten>>, NEW t \in Slots, NEW p \in Pages,
         Arrive(p, t), StoresGood
  PROVE  ScreenInv'
<1>1. typed' \in [Subtests -> Typings] BY DEF ScreenInv, ClientType
<1> QED BY <1>1, Arrives, StepKeeps

(* The server says which subtest is active: that is a page. *)
LEMMA RedirectKeeps ==
  ASSUME ScreenInv, UNCHANGED <<server, late, typed, overwritten>>, NEW t \in Slots,
         task[t].active \in Subtests, RedirectToActive(t)
  PROVE  ScreenInv'
<1>1. PICK p \in Pages : p = task[t].active BY DEF Pages
<1>2. CacheRemoved(task[t].at) /\ Arrive(p, t) BY <1>1 DEF RedirectToActive
<1>3. StoresGood BY <1>2, CacheGoes
<1> QED BY <1>2, <1>3, ArriveKeeps

LEMMA OpenKeeps ==
  ASSUME ScreenInv, NEW s \in Subtests, NEW t \in Slots, Open(s, t) PROVE ScreenInv'
<1>1. Arrive(s, t) /\ UNCHANGED <<server, stores, late, typed, overwritten>> BY DEF Open
<1>2. s \in Pages BY DEF Pages
<1> QED BY <1>1, <1>2, StoresStay, ArriveKeeps

LEMMA NavigateKeeps ==
  ASSUME ScreenInv, NEW t \in Slots, NavigateToQuestion(t) PROVE ScreenInv'
<1>1. UNCHANGED <<server, stores, late, typed, overwritten>> BY DEF NavigateToQuestion
<1>2. PICK p \in {page, Dashboard} : Arrive(p, t) BY DEF NavigateToQuestion
<1>3. p \in Pages BY <1>2 DEF Pages, ScreenInv, ClientType
<1> QED BY <1>1, <1>2, <1>3, StoresStay, ArriveKeeps

LEMMA DestPage == ASSUME NEW s PROVE Dest(s) \in Pages
BY DEF Dest, Pages

LEMMA ReturnToDashboardKeeps ==
  ASSUME ScreenInv, NEW t \in Slots, ReturnToDashboard(t) PROVE ScreenInv'
<1>1. PICK p \in Pages : p = Dest(screen.backend) BY DestPage
<1>2. Arrive(p, t) /\ UNCHANGED <<server, stores, late, typed, overwritten>>
  BY <1>1 DEF ReturnToDashboard
<1> QED BY <1>2, StoresStay, ArriveKeeps

(* The calls of the page are gone. *)
LEMMA UnloadKeeps ==
  ASSUME ScreenInv, UNCHANGED <<server, stores, typed, overwritten>>, page' \in Pages,
         NEW C, Unload(C), \A c \in C : Writes(c) => c.at \in Subtests /\ GoodPayload(Carried(c))
  PROVE  ScreenInv'
<1>1. screen' = Fresh /\ task' = [x \in Slots |-> NoTask] /\ late' \in StillUnderWay(C)
  BY DEF Unload
<1>2. screen' \in Screens /\ ScreenTrue' BY <1>1, FreshGood, FreshTrue
<1>3. NoTask \in Tasks /\ TaskTrue(NoTask)' /\ ~Loads(NoTask) BY NoTaskGood
<1>4. task' \in [Slots -> Tasks] /\ \A x \in Slots : TaskTrue(task[x])' BY <1>1, <1>3
<1>5. OneLoad' BY <1>1, <1>3 DEF OneLoad, Loads
<1>6. late' # NoRequest => LateRequest(late') BY <1>1, LateGood
<1>7. StoresGood BY StoresStay
<1>8. ServerType' /\ ClocksInTurn' BY DEF server, ScreenInv, ServerType, ClocksInTurn
<1>9. ClientType' BY <1>2, <1>4, <1>6, <1>7 DEF ScreenInv, ClientType, StoresGood
<1> QED BY <1>2, <1>4, <1>5, <1>7, <1>8, <1>9 DEF ScreenInv, StoresGood

LEMMA TasksWrite ==
  ASSUME ScreenInv, NEW t \in Slots, Writes(task[t])
  PROVE  task[t].at \in Subtests /\ GoodPayload(Carried(task[t]))
<1>1. PICK c \in Tasks : c = task[t] /\ TaskTrue(c) BY DEF ScreenInv, ClientType
<1> QED BY <1>1, WritesGood

(* What pagehide saves is what the screen has. *)
LEMMA PageHideKeeps == ASSUME ScreenInv, PageHide PROVE ScreenInv'
<1>1. PICK c : c = [Call("flush", page, "save") EXCEPT
                      !.answers = screen.answers, !.pending = DOMAIN screen.answers]
  OBVIOUS
<1>2. /\ Mounted /\ page' = Dashboard
      /\ Unload({task[t] : t \in Slots} \cup {c})
      /\ UNCHANGED <<server, stores, typed, overwritten>>
  BY <1>1 DEF PageHide
<1>3. PICK d : d = Call("flush", page, "save") OBVIOUS
<1>4. page \in 0 .. NumSubtests /\ "flush" \in Kinds /\ "save" \in Steps
  BY <1>2, NumSubtestsAssumption DEF Mounted, Subtests, Kinds, Steps
<1>5. d \in Tasks /\ d.at = page /\ d.step = "save" BY <1>3, <1>4, CallFields
<1>6. c = [d EXCEPT !.answers = screen.answers, !.pending = DOMAIN screen.answers]
  BY <1>1, <1>3
<1>7. c.at = page /\ c.step = "save" /\ c.answers = screen.answers
      /\ c.pending = DOMAIN screen.answers
  BY <1>5, <1>6 DEF Tasks
<1>8. GoodPayload(Carried(c))
  BY <1>7, PayloadGood DEF Carried, ScreenInv, ClientType, Screens
<1>9. c.at \in Subtests BY <1>2, <1>7 DEF Mounted
<1>10. \A x \in {task[t] : t \in Slots} \cup {c} :
         Writes(x) => x.at \in Subtests /\ GoodPayload(Carried(x))
  BY <1>8, <1>9, TasksWrite
<1>11. page' \in Pages BY <1>2 DEF Pages
<1> QED BY <1>2, <1>10, <1>11, UnloadKeeps

LEMMA LoggedOutKeeps == ASSUME ScreenInv, NEW t \in Slots, LoggedOut(t) PROVE ScreenInv'
<1>1. /\ page' = Login /\ Unload({task[x] : x \in Slots})
      /\ UNCHANGED <<server, stores, typed, overwritten>>
  BY DEF LoggedOut
<1>2. \A x \in {task[y] : y \in Slots} :
        Writes(x) => x.at \in Subtests /\ GoodPayload(Carried(x))
  BY TasksWrite
<1>3. page' \in Pages BY <1>1 DEF Pages
<1> QED BY <1>1, <1>2, <1>3, UnloadKeeps

(***************************************************************************)
(* The participant answers.                                                *)
(***************************************************************************)
LEMMA LoadedScreen ==
  ASSUME ScreenInv, screen.loaded
  PROVE  /\ page \in Subtests /\ page <= active /\ screen.backend = page
         /\ page >= active /\ page \notin overwritten => Has(screen.answers, typed[page])
BY DEF ScreenInv, ScreenTrue, Mounted

LEMMA TypingWritten ==
  ASSUME NEW w \in Typings, NEW q \in Soal, NEW a \in Answers(q)
  PROVE  [x \in {q} \cup DOMAIN w |-> IF x = q THEN a ELSE w[x]] \in Typings
<1>1. PICK Q \in SUBSET Soal : w \in [Q -> AnySoal] BY Zenon DEF Typings
<1>2. a \in AnySoal BY DEF AnySoal
<1>3. {q} \cup DOMAIN w \in SUBSET Soal BY <1>1
<1> DEFINE f == [x \in {q} \cup DOMAIN w |-> IF x = q THEN a ELSE w[x]]
<1>4. f \in [{q} \cup DOMAIN w -> AnySoal] BY <1>1, <1>2
<1> HIDE DEF f
<1>5. f \in Typings BY <1>3, <1>4, Zenon DEF Typings
<1> QED BY <1>5 DEF f

LEMMA AnswerKeeps ==
  ASSUME ScreenInv, NEW q \in Soal, NEW a \in Edits(q, Jawaban(screen.answers, q)), Answer(q, a)
  PROVE  ScreenInv'
<1> DEFINE now == [x \in {q} \cup DOMAIN typed[page] |-> IF x = q THEN a ELSE typed[page][x]]
<1>1. /\ screen.loaded
      /\ Shows(screen, page, Written(screen.answers, q, a))
      /\ typed' = [typed EXCEPT ![page] = now]
      /\ UNCHANGED <<server, page, task, late, overwritten>>
  BY DEF Answer
<1>2. /\ page \in Subtests /\ page <= active
      /\ page >= active /\ page \notin overwritten => Has(screen.answers, typed[page])
  BY <1>1, LoadedScreen
<1>3. screen \in Screens /\ screen.answers \in GoodSheets /\ typed \in [Subtests -> Typings]
  BY ScreenType
<1>4. Jawaban(screen.answers, q) \in Answers(q)
  BY <1>3, SheetElim, BlankAnswer DEF Jawaban
<1>5. a \in Answers(q) BY <1>4, EditsAnswers
<1>6. PICK sheet : sheet = Written(screen.answers, q, a) OBVIOUS
<1>7. sheet \in GoodSheets /\ \A w : Has(screen.answers, w) =>
        Has(sheet, [x \in {q} \cup DOMAIN w |-> IF x = q THEN a ELSE w[x]])
  BY <1>3, <1>5, <1>6, WrittenGood
<1>8. now \in Typings BY <1>2, <1>3, <1>5, TypingWritten
<1>9. Has(screen.answers, typed[page]) => Has(sheet, now) BY <1>7
<1> HIDE DEF now
<1>10. /\ typed' \in [Subtests -> Typings] /\ typed'[page] = now
       /\ \A s \in Subtests \ {page} : typed'[s] = typed[s]
  BY <1>1, <1>2, <1>3, <1>8
<1>11. StoresGood /\ screen' \in Screens /\ ScreenTrue' /\ screen'.loaded
  BY <1>1, <1>2, <1>3, <1>6, <1>7, <1>9, <1>10, ShowsGood
<1>12. CallsGood
  BY <1>1, <1>3, <1>11, CallsStay DEF Screens
<1> QED BY <1>1, <1>10, <1>11, <1>12, ScreenType, StepKeeps

(***************************************************************************)
(* Saving.                                                                 *)
(***************************************************************************)

(* The sheet that is shown, marked, is shown again. *)
LEMMA MarkedShown ==
  ASSUME ScreenInv, UNCHANGED <<server, page, typed, overwritten>>, screen.loaded, NEW pending,
         NEW new \in Screens, new.timeUp = screen.timeUp,
         NEW s, s = page, Shows(new, s, Marked(screen.answers, pending))
  PROVE  StoresGood /\ screen' \in Screens /\ ScreenTrue' /\ screen'.loaded = screen.loaded
<1>1. /\ page \in Subtests /\ page <= active
      /\ page >= active /\ page \notin overwritten => Has(screen.answers, typed[page])
  BY LoadedScreen
<1>2. screen.answers \in GoodSheets /\ typed \in [Subtests -> Typings] BY ScreenType
<1>3. PICK sheet : sheet = Marked(screen.answers, pending) OBVIOUS
<1>4. sheet \in GoodSheets /\ \A w : Has(screen.answers, w) => Has(sheet, w)
  BY <1>2, <1>3, MarkedGood
<1>5. Shows(new, page, sheet) /\ typed' = typed BY <1>3
<1>6. StoresGood /\ screen' \in Screens /\ ScreenTrue' /\ screen'.loaded
  BY <1>1, <1>2, <1>4, <1>5, ShowsGood
<1> QED BY <1>6, ScreenType DEF Screens

(* What a call that is made now carries. *)
LEMMA NewCallTrue ==
  ASSUME ScreenInv, UNCHANGED <<server, page>>, screen'.loaded = screen.loaded,
         NEW c \in Tasks, c.net = "sent", c.active = 0,
         c.kind # "load", c.kind # "none", c.at <= active, StepOfKind(c),
         c.step \in {"start", "soal", "save", "submit"} => c.at \in Subtests,
         c.answers = screen.answers, c.pending \subseteq DOMAIN screen.answers,
         \/ c.wanted = NothingTyped
         \/ screen.loaded /\ page \notin overwritten /\ c.at = page /\ c.wanted = typed[page],
         c.step = "save" => screen.loaded /\ c.at = page,
         c.kind = "submit" /\ c.by = "timer" => c.at = page,
         Mounted
  PROVE  TaskTrue(c)'
<1>1. active' = active /\ phase' = phase /\ page' = page BY DEF server
<1>2. active \in Nat BY ScreenType
<1>3. LearnedTrue(c)' BY <1>1, <1>2 DEF LearnedTrue
<1>4. c.at >= active => Has(c.answers, c.wanted) BY NothingTypedGood, LoadedScreen
<1>5. CarriesTyped(c)' BY <1>1, <1>4 DEF CarriesTyped
<1>6. StepOfKind(c)' BY DEF StepOfKind
<1>7. OfScreen(c)' BY <1>1 DEF OfScreen, Mounted
<1> QED BY <1>3, <1>5, <1>6, <1>7 DEF TaskTrue

LEMMA FlushKeeps ==
  ASSUME ScreenInv, UNCHANGED <<server, page, late, typed, overwritten>>, NEW t \in Slots,
         Mounted, NEW pending, pending \subseteq DOMAIN screen.answers,
         NEW new, SameView(new), new.timeUp = screen.timeUp, new.backend = screen.backend,
         Flush(t, pending, new)
  PROVE  ScreenInv'
<1>1. /\ screen \in Screens /\ screen.answers \in GoodSheets
      /\ typed' \in [Subtests -> Typings] /\ page' \in Pages
      /\ ~screen.loaded => DOMAIN screen.answers = {}
  BY ScreenType, NoEntriesGood
<1>2. CASE pending = {}
  <2>1. UNCHANGED <<screen, task, stores>> BY <1>2 DEF Flush
  <2>2. ScreenTrue' BY <2>1 DEF ScreenInv, ScreenTrue, Mounted, server
  <2>3. CallsGood BY <2>1, CallsStay
  <2> QED BY <1>1, <2>1, <2>2, <2>3, StoresStay, StepKeeps
<1>3. CASE pending # {} /\ DOMAIN Payload(screen.answers, pending) = {}
  <2>1. PICK n : n = [new EXCEPT !.flushed = TRUE] OBVIOUS
  <2>2. n \in Screens /\ n.timeUp = screen.timeUp BY <2>1 DEF SameView, Screens
  <2>3. Shows(n, page, Marked(screen.answers, pending)) /\ task' = task
    BY <1>3, <2>1 DEF Flush
  <2>4. screen.loaded BY <1>1, <1>3
  <2>5. StoresGood /\ screen' \in Screens /\ ScreenTrue' /\ screen'.loaded = screen.loaded
    BY <2>2, <2>3, <2>4, MarkedShown
  <2>6. CallsGood BY <2>3, <2>5, CallsStay
  <2> QED BY <1>1, <2>5, <2>6, StepKeeps
<1>4. CASE pending # {} /\ DOMAIN Payload(screen.answers, pending) # {}
  <2>1. PICK c : c = [Call("flush", page, "save") EXCEPT
                        !.answers = screen.answers, !.pending = pending]
    OBVIOUS
  <2>2. /\ Free(t) /\ task' = [task EXCEPT ![t] = c] /\ screen' = new
        /\ UNCHANGED stores
    BY <1>4, <2>1 DEF Flush
  <2>3. PICK d : d = Call("flush", page, "save") OBVIOUS
  <2>4. page \in 0 .. NumSubtests /\ "flush" \in Kinds /\ "save" \in Steps
    BY NumSubtestsAssumption DEF Mounted, Subtests, Kinds, Steps
  <2>5. /\ d \in Tasks
        /\ d.kind = "flush" /\ d.at = page /\ d.step = "save" /\ d.net = "sent"
        /\ d.active = 0 /\ d.by = "user" /\ d.wanted = NothingTyped
    BY <2>3, <2>4, CallFields
  <2>6. pending \in SUBSET Soal BY <1>1, SheetElim
  <2>7. c = [d EXCEPT !.answers = screen.answers, !.pending = pending] BY <2>1, <2>3
  <2>8. /\ c \in Tasks
        /\ c.kind = "flush" /\ c.at = page /\ c.step = "save" /\ c.net = "sent"
        /\ c.active = 0 /\ c.by = "user" /\ c.wanted = NothingTyped
        /\ c.answers = screen.answers /\ c.pending = pending
    BY <1>1, <2>5, <2>6, <2>7 DEF Tasks
  <2>9. screen.loaded BY <1>1, <1>4
  <2>10. page \in Subtests /\ page <= active BY <2>9, LoadedScreen
  <2>11. screen' \in Screens /\ ScreenTrue' /\ screen'.loaded = screen.loaded
    BY <2>2, SameViewTrue DEF SameView
  <2>12. StepOfKind(c) BY <2>8 DEF StepOfKind
  <2>13. TaskTrue(c)' BY <2>8, <2>9, <2>10, <2>11, <2>12, NewCallTrue
  <2>14. CallsGood BY <2>2, <2>8, <2>11, <2>13, CallChanges DEF Loads
  <2> QED BY <1>1, <2>2, <2>11, <2>14, StoresStay, StepKeeps
<1> QED BY <1>2, <1>3, <1>4

LEMMA DebounceKeeps == ASSUME ScreenInv, NEW t \in Slots, Debounce(t) PROVE ScreenInv'
<1>1. Mounted /\ UNCHANGED <<server, page, late, typed, overwritten>> BY DEF Debounce
<1>2. PICK new : new = [screen EXCEPT !.armed = FALSE] OBVIOUS
<1>3. screen \in Screens /\ typed' \in [Subtests -> Typings] /\ page' \in Pages
  BY <1>1, ScreenType
<1>4. SameView(new) /\ new.timeUp = screen.timeUp /\ new.backend = screen.backend
  BY <1>2, <1>3 DEF SameView, Screens
<1>5. CASE Flush(t, Unsynced(screen.answers), new)
  <2>1. Unsynced(screen.answers) \subseteq DOMAIN screen.answers BY DEF Unsynced
  <2> QED BY <1>1, <1>4, <1>5, <2>1, FlushKeeps
<1>6. CASE screen' = new /\ UNCHANGED <<task, stores>>
  <2>1. screen' \in Screens /\ ScreenTrue' BY <1>1, <1>4, <1>6, SameViewTrue
  <2>2. CallsGood BY <1>1, <1>4, <1>6, CallsStay DEF SameView
  <2> QED BY <1>1, <1>3, <1>6, <2>1, <2>2, StoresStay, StepKeeps
<1> QED BY <1>2, <1>5, <1>6 DEF Debounce

LEMMA HideKeeps == ASSUME ScreenInv, NEW t \in Slots, Hide(t) PROVE ScreenInv'
<1>1. /\ Mounted /\ UNCHANGED <<server, page, late, typed, overwritten>>
      /\ Flush(t, DOMAIN screen.answers, screen)
  BY DEF Hide
<1>2. SameView(screen) BY ScreenType DEF SameView
<1>3. PICK new : new = screen OBVIOUS
<1>4. SameView(new) /\ Flush(t, DOMAIN screen.answers, new) BY <1>1, <1>2, <1>3
<1> QED BY <1>1, <1>3, <1>4, FlushKeeps

LEMMA CallOf ==
  ASSUME ScreenInv, NEW t \in Slots
  PROVE  task[t] \in Tasks /\ TaskTrue(task[t])
BY DEF ScreenInv, ClientType

LEMMA SavedGood ==
  ASSUME ScreenInv, UNCHANGED <<server, page, typed>>, NEW t \in Slots,
         task[t].kind \in {"flush", "submit"}, task[t].step = "save", Saved(t)
  PROVE  StoresGood /\ screen' \in Screens /\ ScreenTrue' /\ screen'.loaded = screen.loaded
<1>1. CASE task[t].mine
  <2>1. screen.loaded /\ task[t].at = page BY <1>1, CallOf DEF TaskTrue, OfScreen
  <2>2. PICK n : n = [screen EXCEPT !.flushed = TRUE] OBVIOUS
  <2>3. n \in Screens /\ n.timeUp = screen.timeUp BY <2>2, ScreenType DEF Screens
  <2>4. Shows(n, page, Marked(screen.answers, task[t].pending))
    BY <1>1, <2>1, <2>2 DEF Saved, Mine, MarkedSheet
  <2>5. PICK pending : pending = task[t].pending OBVIOUS
  <2>6. PICK s : s = page OBVIOUS
  <2>7. Shows(n, s, Marked(screen.answers, pending)) BY <2>4, <2>5, <2>6
  <2>8. overwritten' = overwritten BY <1>1 DEF Saved, Mine
  <2> QED BY <2>1, <2>3, <2>6, <2>7, <2>8, MarkedShown
<1>2. CASE ~task[t].mine
  <2>1. PICK s \in Subtests : s = task[t].at BY CallOf DEF TaskTrue, LearnedTrue
  <2>2. PICK sheet : sheet = Marked(task[t].left, task[t].pending) OBVIOUS
  <2>3. sheet \in GoodSheets BY <2>2, CallOf, MarkedGood DEF Tasks
  <2>4. SavedGone(t) BY <1>2 DEF Saved, Mine
  <2>5. /\ screen' = screen /\ cache' = cache
        /\ \/ local' = local /\ overwritten' = overwritten
           \/ /\ local' = [local EXCEPT ![s] = sheet]
              /\ overwritten' = overwritten \cup {x \in {s} : ~Has(sheet, typed[x])}
    BY <2>1, <2>2, <2>4 DEF SavedGone
  <2>6. overwritten \subseteq overwritten' BY <2>5
  <2>7. ScreenTrue' BY <2>5, <2>6 DEF ScreenInv, ScreenTrue, Mounted, server
  <2>8. CASE local' = local /\ overwritten' = overwritten
    <3>1. StoresGood BY <2>5, <2>8, StoresStay DEF stores
    <3> QED BY <2>5, <2>7, <3>1, ScreenType
  <2>9. CASE /\ local' = [local EXCEPT ![s] = sheet]
             /\ overwritten' = overwritten \cup {x \in {s} : ~Has(sheet, typed[x])}
    <3>1. /\ local' \in [Subtests -> GoodSheets] /\ local'[s] = sheet
          /\ \A x \in Subtests \ {s} : local'[x] = local[x]
      BY <2>3, <2>9 DEF ScreenInv, ClientType
    <3>2. s \notin overwritten' => Has(sheet, typed[s]) BY <2>9
    <3>3. active' = active /\ typed' = typed BY DEF server
    <3>4. LocalKept' BY <2>6, <3>1, <3>2, <3>3 DEF ScreenInv, LocalKept
    <3>5. cache' \in [Subtests -> GoodSheets \cup {NoCache}]
      BY <2>5 DEF ScreenInv, ClientType
    <3>6. StoresGood BY <3>1, <3>4, <3>5 DEF StoresGood
    <3> QED BY <2>5, <2>7, <3>6, ScreenType
  <2> QED BY <2>5, <2>8, <2>9
<1> QED BY <1>1, <1>2

LEMMA FlushDoneKeeps == ASSUME ScreenInv, NEW t \in Slots, FlushDone(t) PROVE ScreenInv'
<1>1. /\ task[t].kind = "flush" /\ task[t].step = "save" /\ Saved(t) /\ Ends(t)
      /\ UNCHANGED <<server, page, late, typed>>
  BY DEF FlushDone, Got
<1>2. StoresGood /\ screen' \in Screens /\ ScreenTrue' /\ screen'.loaded = screen.loaded
  BY <1>1, SavedGood
<1>3. CallsGood BY <1>1, <1>2, CallEnds
<1> QED BY <1>1, <1>2, <1>3, ScreenType, StepKeeps

(* A call that ends and may set the screen's state. *)
LEMMA EndsSetting ==
  ASSUME ScreenInv, UNCHANGED <<server, page, late, typed, overwritten>>, NEW t \in Slots,
         NEW new, task[t].mine => SameView(new), Sets(t, new), Ends(t), StoresGood
  PROVE  ScreenInv'
<1>1. SameView(screen) BY ScreenType DEF SameView
<1>2. PICK n : n = screen OBVIOUS
<1>3. screen' \in Screens /\ ScreenTrue' /\ screen'.loaded = screen.loaded
  <2>1. CASE task[t].mine
    <3>1. screen' = new BY <2>1 DEF Sets, Mine
    <3> QED BY <2>1, <3>1, SameViewTrue DEF SameView
  <2>2. CASE ~task[t].mine
    <3>1. screen' = n BY <1>2, <2>2 DEF Sets, Mine
    <3>2. SameView(n) BY <1>1, <1>2
    <3> QED BY <1>2, <3>1, <3>2, SameViewTrue
  <2> QED BY <2>1, <2>2
<1>4. CallsGood BY <1>3, CallEnds
<1> QED BY <1>3, <1>4, ScreenType, StepKeeps

LEMMA SaveRefusedKeeps == ASSUME ScreenInv, NEW t \in Slots, SaveRefused(t) PROVE ScreenInv'
<1>1. /\ task[t].kind \in {"flush", "submit"} /\ task[t].step = "save"
      /\ task[t].net \in {"order", "over", "fail"}
      /\ UNCHANGED <<server, late, typed, overwritten>>
  BY DEF SaveRefused, Saves
<1>2. /\ task[t].at \in Subtests
      /\ task[t].net \in {"order", "over"} => task[t].at < active
      /\ task[t].net = "order" => task[t].active \in Subtests
      /\ task[t].mine => task[t].at = page
  BY <1>1, CallOf DEF TaskTrue, LearnedTrue, OfScreen
<1>3. CASE task[t].net = "order" /\ (task[t].by # "user" \/ Expired(task[t].at))
  <2>1. TimeUpFallback(t, task[t].at) BY <1>3 DEF SaveRefused
  <2>2. PICK new : new = [screen EXCEPT !.autoSubmitted = TRUE, !.timeUp = TRUE,
                                        !.submitting = FALSE]
    OBVIOUS
  <2>3. /\ Removed(task[t].at) /\ Sets(t, new) /\ Ends(t) /\ UNCHANGED page
    BY <2>1, <2>2 DEF TimeUpFallback
  <2>4. /\ new \in Screens /\ new.answers = screen.answers /\ new.loaded = screen.loaded
        /\ new.backend = screen.backend /\ new.timeUp
    BY <2>2, ScreenType DEF Screens
  <2>5. task[t].mine => SameView(new) BY <1>2, <1>3, <2>4 DEF SameView
  <2>6. PICK s \in Subtests : s = task[t].at BY <1>2
  <2>7. StoresGood BY <1>1, <1>2, <1>3, <2>3, <2>6, BothGo
  <2> QED BY <1>1, <2>3, <2>5, <2>7, EndsSetting
<1>4. CASE task[t].net = "order" /\ ~(task[t].by # "user" \/ Expired(task[t].at))
  <2>1. RedirectToActive(t) BY <1>4 DEF SaveRefused
  <2> QED BY <1>1, <1>2, <1>4, <2>1, RedirectKeeps
<1>5. CASE task[t].net = "over"
  <2>1. Arrive(Dashboard, t) /\ UNCHANGED stores BY <1>5 DEF SaveRefused
  <2>2. Dashboard \in Pages BY DEF Pages
  <2> QED BY <1>1, <2>1, <2>2, StoresStay, ArriveKeeps
<1>6. CASE task[t].net = "fail"
  <2>1. PICK b \in BOOLEAN : b = (screen.submitting /\ task[t].kind # "submit") OBVIOUS
  <2>2. PICK new : new = [screen EXCEPT !.submitting = b] OBVIOUS
  <2>3. /\ Sets(t, [screen EXCEPT !.submitting = @ /\ task[t].kind # "submit"])
        /\ Ends(t) /\ UNCHANGED <<stores, page>>
    BY <1>6 DEF SaveRefused
  <2>4. Sets(t, new) BY <2>1, <2>2, <2>3
  <2>5. SameView(new) BY <2>2, ScreenType DEF SameView, Screens
  <2> QED BY <1>1, <2>3, <2>4, <2>5, StoresStay, EndsSetting
<1> QED BY <1>1, <1>3, <1>4, <1>5, <1>6

(***************************************************************************)
(* Submitting.                                                             *)
(***************************************************************************)

(* The history of a call that hands in the screen. *)
LEMMA WantedGood ==
  ASSUME ScreenInv, Mounted,
         NEW w, w = Entered
  PROVE  /\ w \in Typings
         /\ \/ w = NothingTyped
            \/ screen.loaded /\ page \notin overwritten /\ screen.backend = page /\ w = typed[page]
BY NothingTypedGood, ScreenType, LoadedScreen DEF Mounted, Entered

LEMMA SubmitKeeps ==
  ASSUME ScreenInv, UNCHANGED <<server, page, late, typed, overwritten>>, NEW t \in Slots,
         Mounted, screen.backend # 0, NEW by \in {"user", "late", "timer"},
         by = "timer" => screen.loaded,
         NEW new, SameView(new), new.timeUp = screen.timeUp, new.backend = screen.backend,
         Submit(t, by, new)
  PROVE  ScreenInv'
<1>1. PICK w : w = Entered OBVIOUS
<1>2. PICK c : c = [Call("submit", screen.backend, "save") EXCEPT
                      !.answers = screen.answers, !.pending = DOMAIN screen.answers,
                      !.by = by, !.wanted = w]
  OBVIOUS
<1>3. PICK begun : begun = [new EXCEPT !.submitting = TRUE] OBVIOUS
<1>4. PICK e : e = IF DOMAIN Carried(c) = {} THEN [c EXCEPT !.step = "submit"] ELSE c OBVIOUS
<1>5. /\ Free(t)
      /\ IF DOMAIN Carried(c) = {} /\ DOMAIN screen.answers # {}
           THEN Shows(begun, page, Marked(screen.answers, c.pending))
           ELSE screen' = begun /\ UNCHANGED stores
      /\ task' = [task EXCEPT ![t] = e]
  BY <1>1, <1>2, <1>3, <1>4 DEF Submit
<1>6. /\ screen \in Screens /\ screen.answers \in GoodSheets
      /\ typed' \in [Subtests -> Typings] /\ page' \in Pages
      /\ ~screen.loaded => DOMAIN screen.answers = {}
  BY ScreenType, NoEntriesGood
<1>7. /\ screen.backend \in 0 .. NumSubtests /\ "submit" \in Kinds /\ "save" \in Steps
      /\ screen.backend \in Subtests /\ screen.backend <= active
  BY <1>6, ScreenType DEF Screens, Kinds, Steps, Subtests, ScreenInv, ScreenTrue
<1>8. PICK d : d = Call("submit", screen.backend, "save") OBVIOUS
<1>9. /\ d \in Tasks
      /\ d.kind = "submit" /\ d.at = screen.backend /\ d.step = "save" /\ d.net = "sent"
      /\ d.active = 0
  BY <1>7, <1>8, CallFields
<1>10. /\ w \in Typings
       /\ \/ w = NothingTyped
          \/ screen.loaded /\ page \notin overwritten /\ screen.backend = page /\ w = typed[page]
  BY <1>1, WantedGood
<1>11. DOMAIN screen.answers \in SUBSET Soal BY <1>6, SheetElim
<1>12. c = [d EXCEPT !.answers = screen.answers, !.pending = DOMAIN screen.answers,
                     !.by = by, !.wanted = w]
  BY <1>2, <1>8
<1>13. /\ c \in Tasks
       /\ c.kind = "submit" /\ c.at = screen.backend /\ c.step = "save" /\ c.net = "sent"
       /\ c.active = 0 /\ c.by = by /\ c.wanted = w
       /\ c.answers = screen.answers /\ c.pending = DOMAIN screen.answers
  BY <1>6, <1>9, <1>10, <1>11, <1>12 DEF Tasks
<1>14. /\ e \in Tasks
       /\ e.kind = "submit" /\ e.at = screen.backend /\ e.net = "sent"
       /\ e.active = 0 /\ e.by = by /\ e.wanted = w
       /\ e.answers = screen.answers /\ e.pending = DOMAIN screen.answers
       /\ e.step = IF DOMAIN Carried(c) = {} THEN "submit" ELSE "save"
  BY <1>4, <1>13 DEF Tasks, Steps
<1>15. /\ begun \in Screens /\ begun.timeUp = screen.timeUp /\ begun.backend = screen.backend
       /\ begun.answers = screen.answers /\ begun.loaded = screen.loaded
  BY <1>3 DEF SameView, Screens
<1>16. e.step = "save" => screen.loaded
  <2>1. Carried(c) = Payload(screen.answers, DOMAIN screen.answers) BY <1>13 DEF Carried
  <2>2. DOMAIN Carried(c) \subseteq DOMAIN screen.answers BY <2>1 DEF Payload
  <2> QED BY <1>6, <1>14, <2>2
<1>17. /\ StoresGood /\ screen' \in Screens /\ ScreenTrue' /\ screen'.loaded = screen.loaded
  <2>1. CASE DOMAIN Carried(c) = {} /\ DOMAIN screen.answers # {}
    <3>1. Shows(begun, page, Marked(screen.answers, c.pending)) BY <1>5, <2>1
    <3>2. screen.loaded BY <1>6, <2>1
    <3>3. PICK s : s = page OBVIOUS
    <3>4. Shows(begun, s, Marked(screen.answers, c.pending)) BY <3>1, <3>3
    <3> QED BY <1>15, <3>2, <3>3, <3>4, MarkedShown
  <2>2. CASE ~(DOMAIN Carried(c) = {} /\ DOMAIN screen.answers # {})
    <3>1. screen' = begun /\ UNCHANGED stores BY <1>5, <2>2
    <3>2. SameView(begun) BY <1>15 DEF SameView
    <3> QED BY <1>15, <3>1, <3>2, StoresStay, SameViewTrue
  <2> QED BY <2>1, <2>2
<1>18. StepOfKind(e) BY <1>14 DEF StepOfKind
<1>19. screen.loaded => screen.backend = page BY LoadedScreen
<1>20. TaskTrue(e)'
  BY <1>7, <1>10, <1>14, <1>16, <1>17, <1>18, <1>19, NewCallTrue
<1>21. CallsGood BY <1>5, <1>14, <1>17, <1>20, CallChanges DEF Loads
<1> QED BY <1>6, <1>17, <1>21, StepKeeps

LEMMA FinishKeeps == ASSUME ScreenInv, NEW t \in Slots, Finish(t) PROVE ScreenInv'
<1>1. PICK by \in {"user", "late"} : Submit(t, by, screen) BY DEF Finish
<1>2. Mounted /\ screen.backend # 0 /\ UNCHANGED <<server, page, late, typed, overwritten>> BY DEF Finish
<1>3. PICK new : new = screen OBVIOUS
<1>4. SameView(new) /\ Submit(t, by, new) BY <1>1, <1>3, ScreenType DEF SameView
<1> QED BY <1>1, <1>2, <1>3, <1>4, SubmitKeeps

LEMMA AutoSubmitKeeps == ASSUME ScreenInv, NEW t \in Slots, AutoSubmit(t) PROVE ScreenInv'
<1>1. /\ Mounted /\ screen.loaded /\ UNCHANGED <<server, page, late, typed, overwritten>>
  BY DEF AutoSubmit, TimeIsUp
<1>2. PICK new : new = [screen EXCEPT !.autoSubmitted = TRUE] OBVIOUS
<1>3. Submit(t, "timer", new) BY <1>2 DEF AutoSubmit
<1>4. SameView(new) /\ new.timeUp = screen.timeUp /\ new.backend = screen.backend
  BY <1>2, ScreenType DEF SameView, Screens
<1>5. screen.backend # 0
  BY <1>1, LoadedScreen DEF Subtests
<1> QED BY <1>1, <1>3, <1>4, <1>5, SubmitKeeps

(* A call that goes on to its next request. *)
LEMMA SendsTrue ==
  ASSUME ScreenInv, UNCHANGED <<server, page>>, screen'.loaded = screen.loaded,
         NEW t \in Slots, NEW step \in Steps \ {"save"}, Sends(t, step),
         NEW c, c = task[t], c.kind # "none", step # "current",
         step \in {"start", "soal", "submit"} => c.at \in Subtests /\ c.at <= active,
         c.kind = "load" => step \in {"start", "soal"},
         c.kind = "submit" => step = "submit",
         c.kind = "logout" => step = "logout",
         c.kind # "flush"
  PROVE  CallsGood
<1>1. c \in Tasks /\ TaskTrue(c) BY CallOf
<1>2. PICK d : d = [c EXCEPT !.step = step, !.net = "sent"] OBVIOUS
<1>3. /\ d \in Tasks /\ d.step = step /\ d.net = "sent"
      /\ d.kind = c.kind /\ d.mine = c.mine /\ d.at = c.at /\ d.active = c.active
      /\ d.answers = c.answers /\ d.pending = c.pending /\ d.by = c.by /\ d.wanted = c.wanted
  BY <1>1, <1>2 DEF Tasks, Nets
<1>4. task' = [task EXCEPT ![t] = d] BY <1>2 DEF Sends
<1>5. LearnedTrue(d) BY <1>1, <1>3 DEF TaskTrue, LearnedTrue
<1>6. CarriesTyped(d) BY <1>1, <1>3 DEF TaskTrue, CarriesTyped
<1>7. StepOfKind(d) BY <1>1, <1>3 DEF TaskTrue, StepOfKind
<1>8. OfScreen(d) BY <1>1, <1>3 DEF TaskTrue, OfScreen
<1>9. TaskTrue(d) BY <1>5, <1>6, <1>7, <1>8 DEF TaskTrue
<1>10. TaskTrue(d)' BY <1>3, <1>9, TaskStays
<1>11. Loads(d) => Loads(task[t]) BY <1>3 DEF Loads
<1> QED BY <1>3, <1>4, <1>10, <1>11, CallChanges

LEMMA SubmitSavedKeeps == ASSUME ScreenInv, NEW t \in Slots, SubmitSaved(t) PROVE ScreenInv'
<1>1. /\ task[t].kind = "submit" /\ task[t].step = "save" /\ Saved(t) /\ Sends(t, "submit")
      /\ UNCHANGED <<server, page, late, typed>>
  BY DEF SubmitSaved, Got
<1>2. StoresGood /\ screen' \in Screens /\ ScreenTrue' /\ screen'.loaded = screen.loaded
  BY <1>1, SavedGood
<1>3. task[t].at \in Subtests /\ task[t].at <= active
  BY <1>1, CallOf DEF TaskTrue, LearnedTrue
<1>4. PICK c : c = task[t] OBVIOUS
<1>5. "submit" \in Steps \ {"save"} BY DEF Steps
<1>6. CallsGood BY <1>1, <1>2, <1>3, <1>4, <1>5, SendsTrue
<1> QED BY <1>1, <1>2, <1>6, ScreenType, StepKeeps

LEMMA SubmitClosedKeeps == ASSUME ScreenInv, NEW t \in Slots, SubmitClosed(t) PROVE ScreenInv'
<1>1. /\ task[t].kind = "submit" /\ task[t].step = "submit"
      /\ task[t].net \in {"ok", "committed", "over", "order"}
      /\ Removed(task[t].at)
      /\ UNCHANGED <<server, late, typed, overwritten>>
  BY DEF SubmitClosed, Got, ClosedNets
<1>2. PICK s \in Subtests : s = task[t].at BY <1>1, CallOf DEF TaskTrue, LearnedTrue
<1>3. s < active BY <1>1, <1>2, CallOf DEF TaskTrue, LearnedTrue
<1>4. StoresGood BY <1>1, <1>2, <1>3, BothGo
<1>5. CASE task[t].by = "timer"
  <2>1. PICK new : new = [screen EXCEPT !.timeUp = TRUE, !.submitting = FALSE] OBVIOUS
  <2>2. Sets(t, new) /\ Ends(t) /\ UNCHANGED page BY <1>5, <2>1 DEF SubmitClosed
  <2>3. task[t].mine => page = s BY <1>1, <1>2, <1>5, CallOf DEF TaskTrue, OfScreen
  <2>4. task[t].mine => SameView(new)
    BY <1>3, <2>1, <2>3, ScreenType DEF SameView, Screens
  <2> QED BY <1>1, <1>4, <2>2, <2>4, EndsSetting
<1>6. CASE task[t].by # "timer"
  <2>1. PICK p \in Pages : p = Dest(task[t].at) BY DestPage
  <2>2. Arrive(p, t) BY <1>6, <2>1 DEF SubmitClosed
  <2> QED BY <1>1, <1>4, <2>2, ArriveKeeps
<1> QED BY <1>5, <1>6

LEMMA SubmitRefusedKeeps == ASSUME ScreenInv, NEW t \in Slots, SubmitRefused(t) PROVE ScreenInv'
<1>1. task[t].net \in {"order", "auth", "fail"} /\ UNCHANGED <<server, late, typed, overwritten>>
  BY DEF SubmitRefused, Got
<1>2. CASE task[t].net = "order"
  <2>1. RedirectToActive(t) BY <1>2 DEF SubmitRefused
  <2>2. task[t].active \in Subtests BY <1>2, CallOf DEF TaskTrue, LearnedTrue
  <2> QED BY <1>1, <2>1, <2>2, RedirectKeeps
<1>3. CASE task[t].net = "auth"
  <2>1. Arrive(Login, t) /\ UNCHANGED stores BY <1>3 DEF SubmitRefused
  <2>2. Login \in Pages BY DEF Pages
  <2> QED BY <1>1, <2>1, <2>2, StoresStay, ArriveKeeps
<1>4. CASE task[t].net = "fail"
  <2>1. PICK new : new = [screen EXCEPT !.submitting = FALSE] OBVIOUS
  <2>2. Sets(t, new) /\ Ends(t) /\ UNCHANGED <<stores, page>>
    BY <1>4, <2>1 DEF SubmitRefused
  <2>3. SameView(new) BY <2>1, ScreenType DEF SameView, Screens
  <2> QED BY <1>1, <2>2, <2>3, StoresStay, EndsSetting
<1> QED BY <1>1, <1>2, <1>3, <1>4

(***************************************************************************)
(* Logging out.                                                            *)
(***************************************************************************)
LEMMA LogoutKeeps == ASSUME ScreenInv, NEW t \in Slots, Logout(t) PROVE ScreenInv'
<1> DEFINE step == IF screen.backend = 0 THEN "logout" ELSE "submit"
<1>1. PICK w : w = Entered OBVIOUS
<1>2. PICK c : c = [Call("logout", screen.backend, step) EXCEPT
                      !.answers = screen.answers, !.pending = DOMAIN screen.answers,
                      !.wanted = w]
  OBVIOUS
<1>3. PICK new : new = [screen EXCEPT !.loggingOut = TRUE] OBVIOUS
<1>4. /\ Mounted /\ Free(t)
      /\ task' = [task EXCEPT ![t] = c] /\ screen' = new
      /\ CacheRemoved(page) \/ UNCHANGED stores
      /\ UNCHANGED <<server, page, late, typed, overwritten>>
  BY <1>1, <1>2, <1>3 DEF Logout
<1>5. /\ screen \in Screens /\ screen.answers \in GoodSheets
      /\ typed' \in [Subtests -> Typings] /\ page' \in Pages
  BY <1>4, ScreenType
<1>6. /\ screen.backend \in 0 .. NumSubtests /\ "logout" \in Kinds /\ step \in Steps
      /\ screen.backend # 0 => screen.backend \in Subtests
      /\ screen.backend <= active
  BY <1>5, ScreenType DEF Screens, Kinds, Steps, Subtests, ScreenInv, ScreenTrue
<1>7. step = "submit" => screen.backend # 0 OBVIOUS
<1>8. step \in {"submit", "logout"} OBVIOUS
<1> HIDE DEF step
<1>9. PICK d : d = Call("logout", screen.backend, step) OBVIOUS
<1>10. /\ d \in Tasks
       /\ d.kind = "logout" /\ d.at = screen.backend /\ d.step = step /\ d.net = "sent"
       /\ d.active = 0
  BY <1>6, <1>9, CallFields
<1>11. /\ w \in Typings
       /\ \/ w = NothingTyped
          \/ screen.loaded /\ page \notin overwritten /\ screen.backend = page /\ w = typed[page]
  BY <1>1, <1>4, WantedGood
<1>12. DOMAIN screen.answers \in SUBSET Soal BY <1>5, SheetElim
<1>13. c = [d EXCEPT !.answers = screen.answers, !.pending = DOMAIN screen.answers,
                     !.wanted = w]
  BY <1>2, <1>9
<1>14. /\ c \in Tasks
       /\ c.kind = "logout" /\ c.at = screen.backend /\ c.step = step /\ c.net = "sent"
       /\ c.active = 0 /\ c.wanted = w
       /\ c.answers = screen.answers /\ c.pending = DOMAIN screen.answers
  BY <1>5, <1>10, <1>11, <1>12, <1>13 DEF Tasks
<1>15. SameView(new) BY <1>3, <1>5 DEF SameView, Screens
<1>16. screen' \in Screens /\ ScreenTrue' /\ screen'.loaded = screen.loaded
  BY <1>4, <1>15, SameViewTrue DEF SameView
<1>17. StepOfKind(c) BY <1>8, <1>14 DEF StepOfKind
<1>18. TaskTrue(c)'
  BY <1>4, <1>6, <1>7, <1>8, <1>11, <1>14, <1>16, <1>17, NewCallTrue
<1>19. CallsGood BY <1>4, <1>14, <1>16, <1>18, CallChanges DEF Loads
<1>20. StoresGood BY <1>4, CacheGoes, StoresStay
<1> QED BY <1>4, <1>5, <1>16, <1>19, <1>20, StepKeeps

LEMMA LogoutSubmittedKeeps ==
  ASSUME ScreenInv, NEW t \in Slots, LogoutSubmitted(t) PROVE ScreenInv'
<1>1. /\ task[t].kind = "logout" /\ task[t].step = "submit"
      /\ IF task[t].net = "ok" THEN Removed(task[t].at) ELSE UNCHANGED stores
      /\ Sends(t, "logout")
      /\ UNCHANGED <<server, page, screen, late, typed, overwritten>>
  BY DEF LogoutSubmitted, Got
<1>2. PICK s \in Subtests : s = task[t].at BY <1>1, CallOf DEF TaskTrue, LearnedTrue
<1>3. task[t].net = "ok" => s < active BY <1>1, <1>2, CallOf DEF TaskTrue, LearnedTrue
<1>4. StoresGood BY <1>1, <1>2, <1>3, BothGo, StoresStay
<1>5. PICK c : c = task[t] OBVIOUS
<1>6. "logout" \in Steps \ {"save"} BY DEF Steps
<1>7. CallsGood BY <1>1, <1>5, <1>6, SendsTrue
<1>8. ScreenTrue' BY <1>1 DEF ScreenInv, ScreenTrue, Mounted, server
<1> QED BY <1>1, <1>4, <1>7, <1>8, ScreenType, StepKeeps

LEMMA LogoutFailsKeeps == ASSUME ScreenInv, NEW t \in Slots, LogoutFails(t) PROVE ScreenInv'
<1>1. PICK new : new = [screen EXCEPT !.loggingOut = FALSE] OBVIOUS
<1>2. Sets(t, new) /\ Ends(t) /\ UNCHANGED <<server, stores, page, late, typed, overwritten>>
  BY <1>1 DEF LogoutFails
<1>3. SameView(new) BY <1>1, ScreenType DEF SameView, Screens
<1> QED BY <1>2, <1>3, StoresStay, EndsSetting

(***************************************************************************)
(* Loading.                                                                *)
(***************************************************************************)
LEMMA LoadNoAttemptKeeps == ASSUME ScreenInv, NEW t \in Slots, LoadNoAttempt(t) PROVE ScreenInv'
<1>1. Arrive(Dashboard, t) /\ UNCHANGED <<server, stores, late, typed, overwritten>> BY DEF LoadNoAttempt
<1>2. Dashboard \in Pages BY DEF Pages
<1> QED BY <1>1, <1>2, StoresStay, ArriveKeeps

LEMMA LoadOtherSubtestKeeps ==
  ASSUME ScreenInv, NEW t \in Slots, LoadOtherSubtest(t) PROVE ScreenInv'
<1>1. /\ task[t].kind = "load" /\ task[t].step = "current" /\ task[t].net = "ok"
      /\ task[t].active # task[t].at
      /\ UNCHANGED <<server, late, typed, overwritten>>
  BY DEF LoadOtherSubtest, Got
<1>2. /\ task[t].active \in Subtests /\ task[t].active <= active
      /\ task[t].active < task[t].at => phase[task[t].at] \in {"new", "begun"}
      /\ task[t].at \in Subtests
      /\ task[t].mine => task[t].at = page /\ ~screen.loaded
  BY <1>1, CallOf DEF TaskTrue, LearnedTrue, StepOfKind, OfScreen
<1>3. CASE HasCache(task[t].at) /\ Expired(task[t].at)
  <2>1. task[t].at < active
    <3>1. ~(task[t].active < task[t].at) BY <1>2, <1>3 DEF Expired
    <3> QED BY <1>1, <1>2, <3>1, ScreenType DEF Subtests
  <2>2. PICK new : new = [screen EXCEPT !.backend = task[t].active,
                                        !.autoSubmitted = TRUE, !.timeUp = TRUE]
    OBVIOUS
  <2>3. /\ Removed(task[t].at) /\ Sets(t, new) /\ Ends(t) /\ UNCHANGED page
    BY <1>3, <2>2 DEF LoadOtherSubtest
  <2>4. task[t].active \in 0 .. NumSubtests BY <1>2, ScreenType DEF Subtests
  <2>5. /\ new \in Screens /\ new.answers = screen.answers /\ new.loaded = screen.loaded
        /\ new.backend = task[t].active /\ new.timeUp
    BY <2>2, <2>4, ScreenType DEF Screens
  <2>6. task[t].mine => SameView(new) BY <1>2, <2>1, <2>5 DEF SameView
  <2>7. PICK s \in Subtests : s = task[t].at BY <1>2
  <2>8. StoresGood BY <1>1, <2>1, <2>3, <2>7, BothGo
  <2> QED BY <1>1, <2>3, <2>6, <2>8, EndsSetting
<1>4. CASE ~(HasCache(task[t].at) /\ Expired(task[t].at))
  <2>1. RedirectToActive(t) BY <1>4 DEF LoadOtherSubtest
  <2> QED BY <1>1, <1>2, <2>1, RedirectKeeps
<1> QED BY <1>3, <1>4

(* What this browser has goes over the rest: the sheet has what was typed. *)
LEMMA MergedShown ==
  ASSUME ScreenInv, UNCHANGED <<server, page, late, typed, overwritten>>, NEW t \in Slots, Ends(t),
         task[t].kind = "load", task[t].at \in Subtests, task[t].at <= active,
         NEW below \in GoodSheets,
         IF Mine(t) THEN Shows(screen, task[t].at, Merged(task[t].at, below))
         ELSE UNCHANGED <<screen, stores>>
  PROVE  ScreenInv'
<1>1. CASE task[t].mine
  <2>1. task[t].at = page /\ Loads(task[t])
    BY <1>1, CallOf DEF TaskTrue, OfScreen, Loads
  <2>2. PICK sheet : sheet = Merged(page, below) OBVIOUS
  <2>3. Shows(screen, page, sheet) BY <1>1, <2>1, <2>2 DEF Mine
  <2>4. PICK above \in GoodSheets : above = local[page]
    BY <2>1 DEF ScreenInv, ClientType
  <2>5. sheet \in GoodSheets /\ \A w : Has(above, w) => Has(sheet, w)
    BY <2>2, <2>4, SpreadGood DEF Merged
  <2>6. page >= active /\ page \notin overwritten => Has(sheet, typed[page])
    BY <2>1, <2>4, <2>5 DEF ScreenInv, LocalKept
  <2>7. PICK new \in Screens : new = screen BY ScreenType
  <2>8. Shows(new, page, sheet) /\ new.timeUp = screen.timeUp BY <2>3, <2>7
  <2>9. typed' = typed /\ typed' \in [Subtests -> Typings] BY ScreenType
  <2>10. StoresGood /\ screen' \in Screens /\ ScreenTrue' /\ screen'.loaded
    BY <2>1, <2>5, <2>6, <2>8, <2>9, ShowsGood
  <2>11. CallsGood BY <2>1, <2>10, CallEnds
  <2> QED BY <2>9, <2>10, <2>11, ScreenType, StepKeeps
<1>2. CASE ~task[t].mine
  <2>1. UNCHANGED <<screen, stores>> BY <1>2 DEF Mine
  <2>2. ScreenTrue' BY <2>1 DEF ScreenInv, ScreenTrue, Mounted, server
  <2>3. CallsGood BY <2>1, CallEnds
  <2> QED BY <2>1, <2>2, <2>3, StoresStay, ScreenType, StepKeeps
<1> QED BY <1>1, <1>2

LEMMA LoadFromCacheKeeps == ASSUME ScreenInv, NEW t \in Slots, LoadFromCache(t) PROVE ScreenInv'
<1>1. /\ task[t].kind = "load" /\ task[t].step = "current" /\ task[t].net = "ok"
      /\ task[t].active = task[t].at
      /\ cache[task[t].at] # NoCache
      /\ Ends(t) /\ UNCHANGED <<server, page, late, typed, overwritten>>
  BY DEF LoadFromCache, Got, HasCache
<1>2. task[t].at \in Subtests /\ task[t].at <= active
  BY <1>1, CallOf DEF TaskTrue, LearnedTrue, StepOfKind
<1>3. PICK below \in GoodSheets : below = cache[task[t].at]
  BY <1>1, <1>2 DEF ScreenInv, ClientType
<1>4. IF Mine(t) THEN Shows(screen, task[t].at, Merged(task[t].at, below))
      ELSE UNCHANGED <<screen, stores>>
  BY <1>3 DEF LoadFromCache
<1> QED BY <1>1, <1>2, <1>4, MergedShown

LEMMA LoadFinishedKeeps == ASSUME ScreenInv, NEW t \in Slots, LoadFinished(t) PROVE ScreenInv'
<1>1. /\ task[t].kind = "load" /\ task[t].step = "soal"
      /\ Ends(t) /\ UNCHANGED <<server, page, late, typed, overwritten>>
  BY DEF LoadFinished, Got
<1>2. task[t].at \in Subtests /\ task[t].at <= active
  BY <1>1, CallOf DEF TaskTrue, LearnedTrue
<1>3. PICK below \in GoodSheets : below = task[t].answers BY CallOf DEF Tasks
<1>4. IF Mine(t) THEN Shows(screen, task[t].at, Merged(task[t].at, below))
      ELSE UNCHANGED <<screen, stores>>
  BY <1>3 DEF LoadFinished
<1> QED BY <1>1, <1>2, <1>4, MergedShown

LEMMA LoadFromServerKeeps ==
  ASSUME ScreenInv, NEW t \in Slots, LoadFromServer(t) PROVE ScreenInv'
<1>1. /\ task[t].kind = "load" /\ task[t].step = "current" /\ task[t].net = "ok"
      /\ task[t].active = task[t].at
      /\ Sends(t, "start")
      /\ UNCHANGED <<server, stores, page, late, typed, overwritten>>
  BY DEF LoadFromServer, Got
<1>2. /\ task[t].at \in Subtests /\ task[t].at <= active
      /\ task[t].mine => task[t].at = page /\ ~screen.loaded
  BY <1>1, CallOf DEF TaskTrue, LearnedTrue, StepOfKind, OfScreen
<1>3. PICK new : new = IF task[t].mine THEN [screen EXCEPT !.backend = task[t].at] ELSE screen
  OBVIOUS
<1>4. screen' = new BY <1>3 DEF LoadFromServer, Sets, Mine
<1>5. task[t].at \in 0 .. NumSubtests BY <1>2, ScreenType DEF Subtests
<1>6. SameView(new)
  <2>1. CASE task[t].mine
    <3>1. new = [screen EXCEPT !.backend = task[t].at] BY <1>3, <2>1
    <3>2. /\ new \in Screens /\ new.answers = screen.answers /\ new.loaded = screen.loaded
          /\ new.backend = task[t].at /\ new.timeUp = screen.timeUp
      BY <1>5, <3>1, ScreenType DEF Screens
    <3> QED BY <1>2, <2>1, <3>2 DEF SameView
  <2>2. CASE ~task[t].mine BY <1>3, <2>2, ScreenType DEF SameView
  <2> QED BY <2>1, <2>2
<1>7. screen' \in Screens /\ ScreenTrue' /\ screen'.loaded = screen.loaded
  BY <1>1, <1>4, <1>6, SameViewTrue DEF SameView
<1>8. PICK c : c = task[t] OBVIOUS
<1>9. "start" \in Steps \ {"save"} BY DEF Steps
<1>10. CallsGood BY <1>1, <1>2, <1>7, <1>8, <1>9, SendsTrue
<1> QED BY <1>1, <1>7, <1>10, StoresStay, ScreenType, StepKeeps

LEMMA LoadStartedKeeps == ASSUME ScreenInv, NEW t \in Slots, LoadStarted(t) PROVE ScreenInv'
<1>1. /\ task[t].kind = "load" /\ task[t].step = "start" /\ Sends(t, "soal")
      /\ UNCHANGED <<server, stores, page, screen, late, typed, overwritten>>
  BY DEF LoadStarted, Got
<1>2. task[t].at \in Subtests /\ task[t].at <= active
  BY <1>1, CallOf DEF TaskTrue, LearnedTrue
<1>3. PICK c : c = task[t] OBVIOUS
<1>4. "soal" \in Steps \ {"save"} BY DEF Steps
<1>5. CallsGood BY <1>1, <1>2, <1>3, <1>4, SendsTrue
<1>6. ScreenTrue' BY <1>1 DEF ScreenInv, ScreenTrue, Mounted, server
<1> QED BY <1>1, <1>5, <1>6, StoresStay, ScreenType, StepKeeps

LEMMA LoadFailsKeeps == ASSUME ScreenInv, NEW t \in Slots, LoadFails(t) PROVE ScreenInv'
<1>1. UNCHANGED <<server, late, typed, overwritten>> BY DEF LoadFails
<1>2. CASE ~Mine(t) \/ task[t].net = "fail"
  <2>1. Ends(t) /\ UNCHANGED <<stores, page, screen>> BY <1>2 DEF LoadFails
  <2>2. ScreenTrue' BY <1>1, <2>1 DEF ScreenInv, ScreenTrue, Mounted, server
  <2>3. CallsGood BY <1>1, <2>1, CallEnds
  <2> QED BY <1>1, <2>1, <2>2, <2>3, StoresStay, ScreenType, StepKeeps
<1>3. CASE ~(~Mine(t) \/ task[t].net = "fail") /\ task[t].net = "order"
  <2>1. RedirectToActive(t) BY <1>3 DEF LoadFails
  <2>2. task[t].active \in Subtests BY <1>3, CallOf DEF TaskTrue, LearnedTrue
  <2> QED BY <1>1, <2>1, <2>2, RedirectKeeps
<1>4. CASE ~(~Mine(t) \/ task[t].net = "fail") /\ task[t].net # "order"
  <2>1. PICK p \in {Login, Dashboard} : Arrive(p, t) BY <1>4 DEF LoadFails
  <2>2. UNCHANGED stores BY <1>4 DEF LoadFails
  <2>3. p \in Pages BY DEF Pages
  <2> QED BY <1>1, <2>1, <2>2, <2>3, StoresStay, ArriveKeeps
<1> QED BY <1>2, <1>3, <1>4

(***************************************************************************)
(* The invariant.                                                          *)
(***************************************************************************)
LEMMA InitHolds == Init => ScreenInv
<1> SUFFICES ASSUME Init PROVE ScreenInv OBVIOUS
<1>1. 1 \in 1 .. NumSubtests + 1 /\ NumSubtests \in Nat BY NumSubtestsAssumption
<1>2. ServerType
  <2>1. /\ active = 1 /\ phase = [s \in Subtests |-> "new"]
        /\ saved = [s \in Subtests |-> [q \in Soal |-> {}]]
    BY DEF Init
  <2>2. \A q \in Soal : {} \in Wires(q) /\ {} \in UNION {Wires(x) : x \in Soal}
    BY NothingIsWire
  <2>3. [q \in Soal |-> {}] \in [Soal -> UNION {Wires(x) : x \in Soal}] BY <2>2
  <2>4. saved \in [Subtests -> [Soal -> UNION {Wires(x) : x \in Soal}]] BY <2>1, <2>3
  <2>5. \A s \in Subtests, q \in Soal : saved[s][q] \in Wires(q) BY <2>1, <2>2
  <2> QED BY <1>1, <2>1, <2>4, <2>5 DEF ServerType, Phases
<1>3. screen = Fresh /\ page = Dashboard /\ task = [t \in Slots |-> NoTask] BY DEF Init
<1>4. screen \in Screens /\ ScreenTrue BY <1>1, <1>3, FreshGood DEF ScreenTrue, Init
<1>5. ClientType
  BY <1>3, <1>4, NoTaskType, NoEntriesGood, NothingTypedGood DEF Init, ClientType, Pages
<1>6. ClocksInTurn /\ LocalKept BY NothingTypedGood DEF Init, ClocksInTurn, LocalKept
<1>7. OneLoad BY <1>3, NoTaskType DEF OneLoad, Loads
<1>8. ASSUME NEW t \in Slots PROVE TaskTrue(task[t])
  <2>1. task[t] = NoTask BY <1>3
  <2>2. LearnedTrue(NoTask) BY <1>1, NoTaskType DEF LearnedTrue, Init
  <2>3. CarriesTyped(NoTask) BY NoTaskType, NothingTypedGood DEF CarriesTyped
  <2>4. StepOfKind(NoTask) /\ OfScreen(NoTask) BY NoTaskType DEF StepOfKind, OfScreen
  <2> QED BY <2>1, <2>2, <2>3, <2>4 DEF TaskTrue
<1> QED BY <1>2, <1>5, <1>4, <1>6, <1>7, <1>8 DEF ScreenInv

LEMMA StutterKeeps == ASSUME ScreenInv, UNCHANGED vars PROVE ScreenInv'
<1>1. /\ UNCHANGED <<server, stores, page, screen, task, late, typed, overwritten>> BY DEF vars
<1>2. ScreenTrue' BY <1>1 DEF ScreenInv, ScreenTrue, Mounted, server
<1>3. CallsGood BY <1>1, CallsStay
<1> QED BY <1>1, <1>2, <1>3, StoresStay, ScreenType, StepKeeps

LEMMA ReturnsKeeps == ASSUME ScreenInv, NEW t \in Slots, Returns(t) PROVE ScreenInv'
<1>1. CASE Load(t)
  BY <1>1, LoadNoAttemptKeeps, LoadOtherSubtestKeeps, LoadFromCacheKeeps,
     LoadFromServerKeeps, LoadStartedKeeps, LoadFinishedKeeps, LoadFailsKeeps DEF Load
<1>2. CASE FlushDone(t) \/ SaveRefused(t)
  BY <1>2, FlushDoneKeeps, SaveRefusedKeeps
<1>3. CASE SubmitSaved(t) \/ SubmitClosed(t) \/ SubmitRefused(t)
  BY <1>3, SubmitSavedKeeps, SubmitClosedKeeps, SubmitRefusedKeeps
<1>4. CASE LogoutSubmitted(t) \/ LogoutFails(t) \/ LoggedOut(t)
  BY <1>4, LogoutSubmittedKeeps, LogoutFailsKeeps, LoggedOutKeeps
<1> QED BY <1>1, <1>2, <1>3, <1>4 DEF Returns

LEMMA ParticipantKeeps == ASSUME ScreenInv, NEW t \in Slots, Participant(t) PROVE ScreenInv'
BY OpenKeeps, NavigateKeeps, HideKeeps, FinishKeeps, ReturnToDashboardKeeps, LogoutKeeps
   DEF Participant

LEMMA NextKeeps == ScreenInv /\ [Next]_vars => ScreenInv'
<1> SUFFICES ASSUME ScreenInv, [Next]_vars PROVE ScreenInv' OBVIOUS
<1>1. ASSUME NEW t \in Slots, Answered(t) \/ Fails(t) \/ Returns(t) PROVE ScreenInv'
  BY <1>1, AnsweredKeeps, FailsKeeps, ReturnsKeeps
<1>2. ASSUME NEW t \in Slots, Participant(t) \/ Debounce(t) \/ AutoSubmit(t) PROVE ScreenInv'
  BY <1>2, ParticipantKeeps, DebounceKeeps, AutoSubmitKeeps
<1>3. ASSUME NEW q \in Soal, NEW a \in Edits(q, Jawaban(screen.answers, q)), Answer(q, a)
      PROVE  ScreenInv'
  BY <1>3, AnswerKeeps
<1>4. CASE PageHide \/ ArrivesLate \/ DeviceSubmits
  BY <1>4, PageHideKeeps, ArrivesLateKeeps, DeviceSubmitsKeeps
<1>5. ASSUME NEW q \in Soal, NEW wire \in Wires(q), DeviceSaves(q, wire) PROVE ScreenInv'
  BY <1>5, DeviceSavesKeeps
<1>6. ASSUME NEW s \in Subtests, TimePasses(s) PROVE ScreenInv' BY <1>6, TimePassesKeeps
<1>7. CASE UNCHANGED vars BY <1>7, StutterKeeps
<1> QED BY <1>1, <1>2, <1>3, <1>4, <1>5, <1>6, <1>7 DEF Next

(* However its calls, those of screens that are gone, other devices and late
   requests interleave, the screen, localStorage and what the calls carry are
   as ScreenInv says. *)
THEOREM ScreenInvariant == Spec => []ScreenInv
BY InitHolds, NextKeeps, PTL DEF Spec

(* Every variable has its type. *)
THEOREM ScreenTypes == Spec => []TypeOK
<1>1. ScreenInv => TypeOK
  <2> SUFFICES ASSUME ScreenInv PROVE TypeOK OBVIOUS
  <2>1. GoodSheets \subseteq Sheets BY DEF GoodSheets
  <2>2. /\ active \in 1 .. NumSubtests + 1 /\ phase \in [Subtests -> Phases]
        /\ DOMAIN saved = Subtests
        /\ \A s \in Subtests, q \in Soal : saved[s][q] \in Wires(q)
    BY DEF ScreenInv, ServerType
  <2>3. local \in [Subtests -> Sheets] /\ cache \in [Subtests -> Sheets \cup {NoCache}]
    BY <2>1 DEF ScreenInv, ClientType
  <2>4. screen.answers \in Sheets /\ screen.backend \in 0 .. NumSubtests + 1 /\ page \in Pages
    BY <2>1, ScreenType DEF Screens
  <2>5. ASSUME NEW t \in Slots
        PROVE  /\ task[t].kind \in Kinds /\ task[t].step \in Steps /\ task[t].net \in Nets
               /\ task[t].at \in 0 .. NumSubtests /\ task[t].answers \in Sheets
    BY <2>1, CallOf DEF Tasks
  <2> QED BY <2>2, <2>3, <2>4, <2>5 DEF TypeOK
<1> QED BY <1>1, ScreenInvariant, PTL

(* What was typed is in localStorage as long as the attempt is in a subtest and
   no gone screen has written there: only what the server has closed is removed,
   and what is loaded never goes over what was typed. *)
THEOREM LostToGone == Spec => []LostOnlyToGone
<1>1. ScreenInv => LostOnlyToGone
  BY NumSubtestsAssumption
     DEF ScreenInv, ServerType, LocalKept, LostOnlyToGone, Subtests
<1> QED BY <1>1, ScreenInvariant, PTL

(* The modal of the time that is up is shown only over a closed subtest. *)
THEOREM TimeUpIsTrue == Spec => []TimeUpMeansClosed
<1>1. ScreenInv => TimeUpMeansClosed
  BY ScreenType DEF ScreenInv, ScreenTrue, TimeUpMeansClosed, Mounted, Subtests
<1> QED BY <1>1, ScreenInvariant, PTL

(***************************************************************************)
(* What is handed in.                                                      *)
(***************************************************************************)

(* Only the server's answer ends a call and moves the attempt in one step. *)
LEMMA OnlyAnswersMove ==
  ASSUME Next, ~UNCHANGED server
  PROVE  (\E t \in Slots : Answered(t)) \/ UNCHANGED task
<1>1. ASSUME NEW t \in Slots, Load(t) PROVE UNCHANGED server
  BY <1>1 DEF Load, LoadNoAttempt, LoadOtherSubtest, LoadFromCache, LoadFromServer,
              LoadStarted, LoadFinished, LoadFails
<1>2. ASSUME NEW t \in Slots, Returns(t) PROVE UNCHANGED server
  BY <1>1, <1>2 DEF Returns, FlushDone, SaveRefused, SubmitSaved, SubmitClosed, SubmitRefused,
              LogoutSubmitted, LogoutFails, LoggedOut
<1>3. ASSUME NEW t \in Slots, Participant(t) PROVE UNCHANGED server
  BY <1>3 DEF Participant, Open, NavigateToQuestion, Hide, Finish, ReturnToDashboard, Logout
<1>4. ASSUME NEW t \in Slots, Fails(t) \/ Debounce(t) \/ AutoSubmit(t) PROVE UNCHANGED server
  BY <1>4 DEF Fails, Debounce, AutoSubmit
<1>5. ASSUME NEW q, NEW a, Answer(q, a) PROVE UNCHANGED server BY <1>5 DEF Answer
<1>6. PageHide => UNCHANGED server BY DEF PageHide
<1>7. ArrivesLate \/ DeviceSubmits => UNCHANGED task BY DEF ArrivesLate, DeviceSubmits
<1>8. ASSUME NEW q, NEW wire, DeviceSaves(q, wire) PROVE UNCHANGED task
  BY <1>8 DEF DeviceSaves
<1>9. ASSUME NEW s, TimePasses(s) PROVE UNCHANGED task BY <1>9 DEF TimePasses
<1> QED BY <1>2, <1>3, <1>4, <1>5, <1>6, <1>7, <1>8, <1>9 DEF Next

LEMMA CommitHandsIn ==
  ASSUME ScreenInv, [Next]_vars, NEW t \in Slots, Commits(t)
  PROVE  HandedIn(t)
<1>1. PICK c \in Tasks : c = task[t] /\ TaskTrue(c) BY CallOf
<1>2. /\ c.kind # "none" /\ c.net = "sent" /\ c.step = "submit" /\ task'[t].net # "sent"
      /\ active = c.at /\ active' = c.at + 1 /\ Reconciled = c.at
  BY <1>1 DEF Commits
<1>3. active' # active /\ task' # task
  <2>1. active \in Nat BY ScreenType
  <2>2. active' # active BY <1>2, <2>1
  <2>3. task' # task BY <1>1, <1>2
  <2> QED BY <2>2, <2>3
<1>4. PICK x \in Slots : Answered(x)
  <2>1. Next /\ ~UNCHANGED server BY <1>3 DEF vars, server
  <2> QED BY <1>3, <2>1, OnlyAnswersMove
<1>5. x = t
  <2>1. PICK b : task' = [task EXCEPT ![x] = b] BY <1>4 DEF Answered
  <2>2. x # t => task'[t] = task[t] BY <2>1 DEF ScreenInv, ClientType
  <2> QED BY <1>1, <1>2, <2>2
<1>6. Serve(c.step, c.at, Carried(c)) BY <1>1, <1>4, <1>5 DEF Answered
<1>7. c.at \in Subtests BY <1>1, <1>2 DEF TaskTrue, LearnedTrue
<1>8. PICK payload : payload = Carried(c) /\ GoodPayload(payload)
  BY <1>1, <1>2, CarriedGood DEF TaskTrue
<1>9. c.step \in Steps BY DEF Tasks
<1>10. Serve(c.step, c.at, payload) BY <1>6, <1>8
<1>11. saved'[c.at] = Upsert(saved[c.at], payload)
  BY <1>2, <1>7, <1>8, <1>9, <1>10, Served DEF ScreenInv
<1>12. payload = Payload(c.answers, DOMAIN c.answers) BY <1>2, <1>8 DEF Carried
<1>13. c.answers \in GoodSheets /\ Has(c.answers, c.wanted)
  <2>1. c.at >= active BY <1>2, ScreenType
  <2> QED BY <1>1, <2>1 DEF TaskTrue, CarriesTyped, Tasks
<1>14. ASSUME NEW q \in DOMAIN c.wanted, ToPayload(q, c.wanted[q]) # {}
       PROVE  saved'[c.at][q] = ToPayload(q, c.wanted[q])
  <2>1. q \in DOMAIN payload /\ payload[q] = ToPayload(q, c.wanted[q])
    BY <1>12, <1>13, <1>14, PayloadHas
  <2>2. \A x1 \in Soal : saved[c.at][x1] \in Wires(x1) BY <1>7 DEF ScreenInv, ServerType
  <2>3. Upsert(saved[c.at], payload)[q] = payload[q] BY <1>8, <2>1, <2>2, UpsertWires
  <2> QED BY <1>11, <2>1, <2>3
<1> QED BY <1>1, <1>14 DEF HandedIn

(* A submit from a loaded screen that closes the subtest leaves the server with
   all that had been put in when it was called, unless a gone screen's write had
   lost some of it by then. *)
THEOREM SubmitHandsInAll == Spec => HandsInAll
<1>1. ScreenInv /\ [Next]_vars => [\A t \in Slots : Commits(t) => HandedIn(t)]_vars
  BY CommitHandsIn
<1> QED BY <1>1, ScreenInvariant, PTL DEF Spec, HandsInAll
=============================================================================
