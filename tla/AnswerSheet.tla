---------------------------- MODULE AnswerSheet -----------------------------
(***************************************************************************)
(* The questions of a subtest in the web client and the answers to them    *)
(* (tryout-question-screen.tsx): what the answer of a question can be, how *)
(* the participant edits it, when it counts as complete, and its form on   *)
(* the wire.                                                               *)
(*                                                                         *)
(* An answer says of some items of its question whether they are true: the *)
(* chosen options, the rated statements, or the text typed in.  The text   *)
(* the client keeps it in (lists, "id:value" pairs, words for yes and no)  *)
(* is left out, for ids hold no separators.                                *)
(***************************************************************************)
EXTENDS Integers, FiniteSets

CONSTANTS
  Soal,         \* the questions of a subtest
  BackendSoal   \* BackendSoal[q]: its options, statements, texts, and how many
                \* options it asks for

ASSUME BackendSoalAssumption ==
  \A q \in Soal :
    /\ IsFiniteSet(BackendSoal[q].pilihan_ganda)
    /\ IsFiniteSet(BackendSoal[q].true_false)
    /\ BackendSoal[q].required \in Nat \ {0}

(* mapBackendQuestionType *)
Type(q) ==
  IF BackendSoal[q].true_false # {} THEN "multiple_true_false"
  ELSE IF BackendSoal[q].uraian # {} THEN "short_answer" ELSE "multiple_choice"

Items(q) ==
  CASE Type(q) = "multiple_true_false" -> BackendSoal[q].true_false
    [] Type(q) = "short_answer"        -> BackendSoal[q].uraian
    [] Type(q) = "multiple_choice"     -> BackendSoal[q].pilihan_ganda

(* getRequiredMultipleChoiceSelections *)
Required(q) == IF Type(q) = "multiple_choice" THEN BackendSoal[q].required ELSE 1

OneStatement(q) ==
  Type(q) = "multiple_true_false" /\ Cardinality(BackendSoal[q].true_false) = 1

Answers(q) == UNION {[S -> BOOLEAN] : S \in SUBSET Items(q)}
Blank == [i \in {} |-> TRUE]
Chosen(S) == [i \in S |-> TRUE]

(***************************************************************************)
(* What one input event can make of the answer a.                          *)
(***************************************************************************)
Toggle(q, a, o) ==
  IF o \in DOMAIN a THEN Chosen(DOMAIN a \ {o}) ELSE Chosen(DOMAIN a \cup {o})

(* toggleOptionSelection: one option at a time, or as many as are asked for. *)
ChoiceEdits(q, a) ==
  IF Required(q) = 1 THEN {Chosen({o}) : o \in Items(q)}
  ELSE {Toggle(q, a, o) :
          o \in {i \in Items(q) : i \in DOMAIN a \/ Cardinality(DOMAIN a) < Required(q)}}

(* updateSelection *)
StatementEdits(q, a) ==
  {[i \in DOMAIN a \cup {st} |-> IF i = st THEN b ELSE a[i]] : st \in Items(q), b \in BOOLEAN}

TextEdits(q) == {Blank} \cup {Chosen({t}) : t \in Items(q)}

Edits(q, a) ==
  CASE Type(q) = "multiple_choice"     -> ChoiceEdits(q, a)
    [] Type(q) = "multiple_true_false" -> StatementEdits(q, a)
    [] Type(q) = "short_answer"        -> TextEdits(q)

(* getQuestionAnswerState *)
AnswerState(q, a) ==
  LET answered == Cardinality(DOMAIN a)
      needed == IF Type(q) = "multiple_true_false" THEN Cardinality(Items(q))
                ELSE Required(q)
  IN  IF answered = 0 THEN "empty"
      ELSE IF answered < needed THEN "partial" ELSE "complete"

(***************************************************************************)
(* The wire.  toPayloadAnswerValue sends the items that are true; of the   *)
(* statements rated false nothing is sent, except that a lone statement is *)
(* sent as a word.  The empty set stands for an answer that is not sent.   *)
(***************************************************************************)
Words == {"true", "false"}
Word(b) == IF b THEN "true" ELSE "false"

ToPayload(q, a) ==
  IF OneStatement(q) THEN {Word(a[i]) : i \in DOMAIN a}
  ELSE {i \in DOMAIN a : a[i]}

(* What loadQuestions makes of an answer the server has. *)
FromBackend(q, wire) ==
  IF OneStatement(q)
    THEN [i \in {st \in Items(q) : wire # {}} |-> wire = {"true"}]
    ELSE Chosen(wire)

(* The form on the wire of every answer. *)
Wires(q) == {ToPayload(q, a) : a \in Answers(q)}

(***************************************************************************)
(* Sheets.  LocalAnswerMap: an entry for every question that was answered  *)
(* here or on the server.                                                  *)
(***************************************************************************)
Entry(a, synced) == [jawaban |-> a, synced |-> synced]
NoEntries == [q \in {} |-> Entry(Blank, TRUE)]

Jawaban(sheet, q) == IF q \in DOMAIN sheet THEN sheet[q].jawaban ELSE Blank

(* {...below, ...above} *)
Spread(below, above) ==
  [q \in DOMAIN below \cup DOMAIN above |->
     IF q \in DOMAIN above THEN above[q] ELSE below[q]]

Written(sheet, q, a) == Spread(sheet, [x \in {q} |-> Entry(a, FALSE)])

Marked(sheet, pending) ==
  [q \in DOMAIN sheet |->
     IF q \in pending THEN [sheet[q] EXCEPT !.synced = TRUE] ELSE sheet[q]]

Unsynced(sheet) == {q \in DOMAIN sheet : ~sheet[q].synced}

Unanswered(sheet) == {q \in Soal : AnswerState(q, Jawaban(sheet, q)) # "complete"}

(* The answers of the questions in pending, as they are sent. *)
Payload(sheet, pending) ==
  [q \in {x \in pending : ToPayload(x, sheet[x].jawaban) # {}} |->
     ToPayload(q, sheet[q].jawaban)]

BackendSheet(saved) ==
  [q \in {x \in Soal : saved[x] # {}} |-> Entry(FromBackend(q, saved[q]), TRUE)]
=============================================================================
