-------------------------- MODULE LegacyTestProofs --------------------------
(***************************************************************************)
(* Proofs about LegacyTest, for any subtests, questions, calls at once and *)
(* bounds: what is marked as synced is saved, what is shown is handed in.  *)
(***************************************************************************)
EXTENDS LegacyTest, TLAPS

(***************************************************************************)
(* Types.  TypeOK lets the entry of a question have an answer of another;  *)
(* the code never does that.                                               *)
(***************************************************************************)
Own(q) == [jawaban : SUBSET Named(q), synced : BOOLEAN]
OwnSheets == {sheet \in Sheets : \A q \in DOMAIN sheet : sheet[q] \in Own(q)}

Tabs ==
  [page : Pages, at : Subtests, shown : BOOLEAN, starting : BOOLEAN, initial : OwnSheets,
   answers : OwnSheets, soal : Soal, grace : BOOLEAN, submitting : BOOLEAN,
   syncing : BOOLEAN, hasSubmitted : BOOLEAN, leaving : BOOLEAN, offer : 0 .. NumSubtests,
   ids : Values, emitted : Values, reverted : BOOLEAN]

Looks == UNION {[Q -> Values] : Q \in SUBSET Soal}

Tasks ==
  [kind : Kinds, mine : BOOLEAN, at : Subtests, step : Steps, net : Nets, began : BOOLEAN,
   active : 0 .. NumSubtests, sheet : OwnSheets, left : OwnSheets, shown : Looks]

ServerType ==
  /\ active \in 0 .. NumSubtests + 1
  /\ phase \in [Subtests -> {"new", "running", "grace", "over"}]
  /\ saved \in [Subtests -> [Soal -> Values]]
  /\ \A s \in Subtests, q \in Soal : saved[s][q] \subseteq Named(q)

ClientType ==
  /\ local \in [Subtests -> OwnSheets \cup {NoItem}]
  /\ tab \in Tabs
  /\ task \in [Slots -> Tasks]
  /\ tried \subseteq Subtests

(***************************************************************************)
(* The inductive invariant.                                                *)
(***************************************************************************)

(* What the sheet calls synced is what the server has. *)
Agrees(sheet, answers) ==
  \A q \in DOMAIN sheet :
    sheet[q].synced => sheet[q].jawaban = answers[q] /\ answers[q] # {}

(* The server has something for what the sheet calls synced. *)
Backed(sheet, answers) == \A q \in DOMAIN sheet : sheet[q].synced => answers[q] # {}

(* The sheet has all that the server has. *)
Whole(sheet, answers) ==
  \A q \in Soal : answers[q] # {} => q \in DOMAIN sheet /\ sheet[q].synced

(* What the item has of the questions of the sheet is still to be synced. *)
Pending(sheet, item) == \A q \in DOMAIN sheet : q \in DOMAIN item => ~item[q].synced

LocalSaved == \A s \in Subtests \ tried : local[s] # NoItem => Agrees(local[s], saved[s])

(* Nothing that is still to be synced in the item is called synced by the card. *)
Apart(item, answers) ==
  \A q \in DOMAIN item : q \in DOMAIN answers /\ answers[q].synced => item[q].synced

(* The card agrees with the server, though a card that is gone may have changed
   the item of localStorage under it. *)
InHand ==
  Testing /\ tab.at \notin tried =>
    IF local[tab.at] = NoItem THEN DOMAIN tab.answers = {} /\ DOMAIN tab.initial = {}
    ELSE Agrees(tab.answers, saved[tab.at]) /\ Apart(local[tab.at], tab.answers)

(* A question shows what its card has.  A rated one that no sync has changed may
   show nothing instead, and has passed on that or nothing last. *)
Shows(card) ==
  IF Variant(card.soal) = "true_false"
    THEN \/ card.reverted
         \/ /\ card.ids \in {{}, SavedAnswer(card)}
            /\ card.emitted \in {{}, SavedAnswer(card)}
    ELSE card.ids = SavedAnswer(card)

Faces ==
  /\ tab.ids \subseteq Named(tab.soal) /\ tab.emitted \subseteq Named(tab.soal)
  /\ Testing => Shows(tab)

CardTrue == Faces /\ InHand

(* The pages that load, and their calls. *)
Loaded == {"slug", "intro", "test"}
Loads(c) == c.mine /\ c.kind \in Loaded

(* The call carries what was shown. *)
Carries(c) ==
  \A q \in DOMAIN c.shown :
    c.shown[q] # {} => q \in DOMAIN c.sheet /\ c.sheet[q].jawaban = c.shown[q]

(* A call has a sheet only where it sends one or was given one. *)
StepTrue(c) ==
  /\ c.kind = "sync" <=> c.step = "save"
  /\ c.kind = "submit" <=> c.step = "submit"
  /\ c.kind = "begin" => c.step = "start"
  /\ c.step = "current" /\ c.net = "ok" => c.active \in Subtests
  /\ c.step \in {"finished", "current", "attempt"} => c.sheet = NoEntries
  /\ c.step = "start" /\ c.net # "ok" => c.sheet = NoEntries
  /\ c.step = "submit" /\ c.net = "sent" => Carries(c)

(* A call of the component that is mounted is about the page that is there. *)
OfTab(c) ==
  c.mine =>
    /\ c.kind \in Loaded => tab.page = c.kind
    /\ c.kind = "test" => ~tab.shown
    /\ c.kind = "sync" => Testing /\ tab.at = c.at

(* Until a submit is called, what a sync sent is not called synced before it is
   answered, and what a call was given is what the server has still. *)
SheetTrue(c) ==
  /\ c.kind = "submit" => c.at \in tried
  /\ c.kind = "sync" /\ c.at \notin tried =>
       /\ local[c.at] # NoItem
       /\ Backed(c.left, saved[c.at])
       /\ c.net = "sent" => /\ Pending(c.sheet, local[c.at])
                            /\ Testing /\ tab.at = c.at => Pending(c.sheet, tab.answers)
       /\ c.net # "sent" => Agrees(c.sheet, saved[c.at])
       /\ c.net = "ok" => Whole(c.sheet, saved[c.at])
  /\ c.kind = "test" /\ c.at \notin tried /\ local[c.at] = NoItem =>
       Agrees(c.sheet, saved[c.at])

TaskTrue(c) == StepTrue(c) /\ OfTab(c) /\ SheetTrue(c)

(* There is one sync at a time, and one call that loads the page. *)
OneEach ==
  \A t, x \in Slots :
    \/ task[t].kind = "sync" /\ task[x].kind = "sync"
    \/ Loads(task[t]) /\ Loads(task[x])
    => t = x

LegacyInv ==
  /\ ServerType /\ ClientType
  /\ LocalSaved /\ CardTrue /\ OneEach /\ NeverAhead
  /\ \A t \in Slots : TaskTrue(task[t])

(***************************************************************************)
(* Sheets.                                                                 *)
(***************************************************************************)
LEMMA NamedValues ==
  ASSUME NEW q \in Soal, NEW v, v \subseteq Named(q)
  PROVE  v \in Values
<1>1. v \in SUBSET Named(q) OBVIOUS
<1>2. SUBSET Named(q) \in {SUBSET Named(x) : x \in Soal} OBVIOUS
<1> QED BY <1>1, <1>2 DEF Values

LEMMA SheetIntro ==
  ASSUME NEW f, DOMAIN f \subseteq Soal, f = [q \in DOMAIN f |-> f[q]],
         \A q \in DOMAIN f : f[q] \in Own(q)
  PROVE  f \in OwnSheets
<1>1. \A q \in DOMAIN f : f[q] \in [jawaban : Values, synced : BOOLEAN]
  <2> SUFFICES ASSUME NEW q \in DOMAIN f
               PROVE  f[q] \in [jawaban : Values, synced : BOOLEAN]
    OBVIOUS
  <2>1. f[q] \in Own(q) /\ q \in Soal OBVIOUS
  <2>2. f[q].jawaban \in Values BY <2>1, NamedValues DEF Own
  <2> QED BY <2>1, <2>2 DEF Own
<1>2. f \in [DOMAIN f -> [jawaban : Values, synced : BOOLEAN]] BY <1>1, Zenon
<1>3. f \in Sheets BY <1>2, Zenon DEF Sheets
<1> QED BY <1>3 DEF OwnSheets

LEMMA SheetElim ==
  ASSUME NEW f \in OwnSheets
  PROVE  /\ DOMAIN f \subseteq Soal
         /\ f = [q \in DOMAIN f |-> f[q]]
         /\ \A q \in DOMAIN f : /\ f[q] \in Own(q)
                                /\ f[q].jawaban \subseteq Named(q) /\ f[q].synced \in BOOLEAN
<1>1. f \in Sheets /\ \A q \in DOMAIN f : f[q] \in Own(q) BY DEF OwnSheets
<1>2. PICK Q \in SUBSET Soal : f \in [Q -> [jawaban : Values, synced : BOOLEAN]]
  BY <1>1, Zenon DEF Sheets
<1> QED BY <1>1, <1>2 DEF Own

LEMMA SyncedEntry ==
  ASSUME NEW q, NEW v, v \subseteq Named(q)
  PROVE  /\ Entry(v, TRUE) \in Own(q)
         /\ Entry(v, TRUE).jawaban = v /\ Entry(v, TRUE).synced
BY DEF Entry, Own

LEMMA UnsyncedEntry ==
  ASSUME NEW q, NEW v, v \subseteq Named(q)
  PROVE  /\ Entry(v, FALSE) \in Own(q)
         /\ Entry(v, FALSE).jawaban = v /\ ~Entry(v, FALSE).synced
BY DEF Entry, Own

LEMMA NoEntriesOwn == NoEntries \in OwnSheets /\ DOMAIN NoEntries = {}
<1>1. DOMAIN NoEntries = {} /\ NoEntries = [q \in DOMAIN NoEntries |-> NoEntries[q]]
  BY DEF NoEntries
<1> QED BY <1>1, SheetIntro

LEMMA OwnIsItem == NoItem \notin OwnSheets
BY NoItemAssumption DEF OwnSheets

(* What both sheets call synced is saved, then, in the one made of them. *)
LEMMA SpreadOwn ==
  ASSUME NEW below \in OwnSheets, NEW above \in OwnSheets
  PROVE  /\ Spread(below, above) \in OwnSheets
         /\ DOMAIN Spread(below, above) = DOMAIN below \cup DOMAIN above
         /\ \A q \in DOMAIN Spread(below, above) :
              Spread(below, above)[q] = IF q \in DOMAIN above THEN above[q] ELSE below[q]
         /\ \A answers : Agrees(below, answers) /\ Agrees(above, answers) =>
              Agrees(Spread(below, above), answers)
<1> DEFINE f == Spread(below, above)
<1>1. /\ DOMAIN f = DOMAIN below \cup DOMAIN above
      /\ f = [q \in DOMAIN f |-> f[q]]
      /\ \A q \in DOMAIN f : f[q] = IF q \in DOMAIN above THEN above[q] ELSE below[q]
  BY DEF Spread
<1> HIDE DEF f
<1>2. DOMAIN f \subseteq Soal /\ \A q \in DOMAIN f : f[q] \in Own(q)
  BY <1>1, SheetElim
<1>3. f \in OwnSheets BY <1>1, <1>2, SheetIntro
<1>4. ASSUME NEW answers, Agrees(below, answers), Agrees(above, answers)
      PROVE  Agrees(f, answers)
  BY <1>1, <1>4 DEF Agrees
<1> QED BY <1>1, <1>3, <1>4 DEF f

(* The answer that is written is pending, like those that were. *)
LEMMA WrittenOwn ==
  ASSUME NEW sheet \in OwnSheets, NEW q \in Soal, NEW v, v \subseteq Named(q)
  PROVE  /\ Written(sheet, q, v) \in OwnSheets
         /\ q \in DOMAIN Written(sheet, q, v) /\ Written(sheet, q, v)[q].jawaban = v
         /\ \A answers : Agrees(sheet, answers) => Agrees(Written(sheet, q, v), answers)
         /\ \A sent : Pending(sent, sheet) => Pending(sent, Written(sheet, q, v))
<1> DEFINE one == [x \in {q} |-> Entry(v, FALSE)]
           f == Spread(sheet, one)
<1>1. DOMAIN one = {q} /\ one = [x \in DOMAIN one |-> one[x]] /\ one[q] = Entry(v, FALSE)
  OBVIOUS
<1> HIDE DEF one
<1>2. one[q] \in Own(q) /\ one[q].jawaban = v /\ ~one[q].synced BY <1>1, UnsyncedEntry
<1>3. one \in OwnSheets BY <1>1, <1>2, SheetIntro
<1>4. \A answers : Agrees(one, answers) BY <1>1, <1>2 DEF Agrees
<1>5. /\ f \in OwnSheets
      /\ \A answers : Agrees(sheet, answers) => Agrees(f, answers)
  BY <1>3, <1>4, SpreadOwn
<1>6. /\ DOMAIN f = DOMAIN sheet \cup {q}
      /\ \A x \in DOMAIN f : f[x] = IF x \in DOMAIN one THEN one[x] ELSE sheet[x]
  BY <1>1 DEF Spread
<1> HIDE DEF f
<1>7. /\ q \in DOMAIN f /\ f[q].jawaban = v /\ ~f[q].synced
  BY <1>1, <1>2, <1>6
<1>8. ASSUME NEW sent, Pending(sent, sheet) PROVE Pending(sent, f)
  BY <1>1, <1>2, <1>6, <1>8 DEF Pending
<1>9. f = Written(sheet, q, v) BY DEF f, one, Written
<1> QED BY <1>5, <1>7, <1>8, <1>9

LEMMA SyncedOwn ==
  ASSUME NEW answers, \A q \in Soal : answers[q] \subseteq Named(q)
  PROVE  /\ Synced(answers) \in OwnSheets
         /\ Agrees(Synced(answers), answers) /\ Whole(Synced(answers), answers)
<1> DEFINE f == Synced(answers)
<1>1. /\ DOMAIN f = {q \in Soal : answers[q] # {}}
      /\ f = [q \in DOMAIN f |-> f[q]]
      /\ \A q \in DOMAIN f : f[q] = Entry(answers[q], TRUE)
  BY DEF Synced
<1> HIDE DEF f
<1>2. ASSUME NEW q \in DOMAIN f
      PROVE  f[q] \in Own(q) /\ f[q].jawaban = answers[q] /\ f[q].synced
  <2>1. f[q] = Entry(answers[q], TRUE) /\ q \in Soal /\ answers[q] \subseteq Named(q)
    BY <1>1
  <2>2. PICK e : e = Entry(answers[q], TRUE) OBVIOUS
  <2>3. e \in Own(q) /\ e.jawaban = answers[q] /\ e.synced BY <2>1, <2>2, SyncedEntry
  <2> QED BY <2>1, <2>2, <2>3
<1>3. f \in OwnSheets BY <1>1, <1>2, SheetIntro
<1>4. Agrees(f, answers) BY <1>1, <1>2 DEF Agrees
<1>5. Whole(f, answers) BY <1>1, <1>2 DEF Whole
<1> QED BY <1>3, <1>4, <1>5 DEF f

(* What a sync sends. *)
LEMMA UnsyncedOwn ==
  ASSUME NEW item \in OwnSheets
  PROVE  LET sent == [q \in Unsynced(item) |-> item[q]]
         IN  sent \in OwnSheets /\ Pending(sent, item)
<1> DEFINE f == [q \in Unsynced(item) |-> item[q]]
<1>1. /\ DOMAIN f = Unsynced(item)
      /\ f = [q \in DOMAIN f |-> f[q]]
      /\ \A q \in DOMAIN f : f[q] = item[q]
  OBVIOUS
<1> HIDE DEF f
<1>2. \A q \in DOMAIN f : q \in DOMAIN item /\ ~item[q].synced BY <1>1 DEF Unsynced
<1>3. DOMAIN f \subseteq Soal /\ \A q \in DOMAIN f : f[q] \in Own(q) BY <1>1, <1>2, SheetElim
<1>4. f \in OwnSheets BY <1>1, <1>3, SheetIntro
<1>5. Pending(f, item) BY <1>2 DEF Pending
<1> QED BY <1>4, <1>5 DEF f

LEMMA NothingPending ==
  /\ \A answers : Agrees(NoEntries, answers)
  /\ \A answers : Backed(NoEntries, answers)
  /\ \A item : Pending(NoEntries, item)
BY NoEntriesOwn DEF Agrees, Backed, Pending

LEMMA EmptyValue == {} \in Values
<1>1. {} \subseteq Named(LastSoal) OBVIOUS
<1> QED BY <1>1, LegacyAssumption, NamedValues

(* What a card has for its question is an answer of it. *)
LEMMA SavedAnswerOwn ==
  ASSUME NEW card, card.answers \in OwnSheets, card.soal \in Soal
  PROVE  SavedAnswer(card) \subseteq Named(card.soal)
BY SheetElim DEF SavedAnswer

LEMMA NoEntriesLook == NoEntries \in Looks
<1>1. NoEntries \in [{} -> Values] BY NoEntriesOwn DEF NoEntries
<1>2. [{} -> Values] \in {[Q -> Values] : Q \in SUBSET Soal} OBVIOUS
<1> QED BY <1>1, <1>2 DEF Looks

(* Of an answer, what the participant makes of it is one of its question. *)
LEMMA ChangesOwn ==
  ASSUME NEW q \in Soal, NEW old, old \subseteq Named(q), NEW v \in Changes(q, old)
  PROVE  v \subseteq Named(q)
<1>1. CASE Variant(q) = "multiple_choice" BY <1>1 DEF Changes, Named
<1>2. CASE Variant(q) = "true_false" BY <1>2 DEF Changes, Named
<1>3. CASE Variant(q) = "uraian" BY <1>3 DEF Changes, Named
<1> QED BY <1>1, <1>2, <1>3 DEF Variant

(***************************************************************************)
(* Calls.                                                                  *)
(***************************************************************************)
LEMMA FirstSubtest == 1 \in Subtests /\ 1 <= NumSubtests
BY LegacyAssumption DEF Subtests

LEMMA NoTaskTrue ==
  /\ NoTask \in Tasks /\ TaskTrue(NoTask)
  /\ NoTask.kind = "none" /\ NoTask.mine = FALSE
<1>1. NoTask \in Tasks
  BY FirstSubtest, NoEntriesOwn, NoEntriesLook, LegacyAssumption
  DEF NoTask, Tasks, Kinds, Steps, Nets
<1>2. StepTrue(NoTask) BY DEF NoTask, StepTrue
<1>3. OfTab(NoTask) BY DEF NoTask, OfTab
<1>4. SheetTrue(NoTask) BY DEF NoTask, SheetTrue
<1> QED BY <1>1, <1>2, <1>3, <1>4 DEF TaskTrue, NoTask

LEMMA NoTaskLater == TaskTrue(NoTask)'
<1>2. StepTrue(NoTask)' BY DEF NoTask, StepTrue
<1>3. OfTab(NoTask)' BY DEF NoTask, OfTab
<1>4. SheetTrue(NoTask)' BY DEF NoTask, SheetTrue
<1> QED BY <1>2, <1>3, <1>4 DEF TaskTrue

LEMMA CallType ==
  ASSUME NEW kind \in Kinds, NEW s \in Subtests, NEW step \in Steps
  PROVE  /\ Call(kind, s, step) \in Tasks
         /\ Call(kind, s, step).kind = kind /\ Call(kind, s, step).at = s
         /\ Call(kind, s, step).step = step /\ Call(kind, s, step).net = "sent"
         /\ Call(kind, s, step).sheet = NoEntries /\ Call(kind, s, step).left = NoEntries
<1>1. NoTask \in Tasks BY NoTaskTrue
<1>2. NoTask.net = "sent" /\ NoTask.sheet = NoEntries /\ NoTask.left = NoEntries BY DEF NoTask
<1>3. Call(kind, s, step) = [NoTask EXCEPT !.kind = kind, !.mine = TRUE, !.at = s,
                               !.step = step]
  BY DEF Call
<1> QED BY <1>1, <1>2, <1>3 DEF Tasks

(* The card keeps its answers, or it is one that is mounted. *)
CardStays ==
  Testing' =>
    \/ Testing /\ tab'.at = tab.at /\ tab'.answers = tab.answers
    \/ local[tab'.at] # NoItem => tab'.answers = local[tab'.at]

(* Calls stay true when nothing they are about has changed. *)
LEMMA SheetStays ==
  ASSUME saved' = saved, tried \subseteq tried', CardStays,
         \A s \in Subtests \ tried' : local'[s] = local[s],
         NEW c \in Tasks, SheetTrue(c)
  PROVE  SheetTrue(c)'
<1>1. c.at \in Subtests BY DEF Tasks
<1>2. c.kind = "submit" => c.at \in tried' BY DEF SheetTrue
<1>3. ASSUME c.kind = "sync", c.at \notin tried'
      PROVE  /\ local'[c.at] # NoItem
             /\ Backed(c.left, saved'[c.at])
             /\ c.net = "sent" => /\ Pending(c.sheet, local'[c.at])
                                  /\ Testing' /\ tab'.at = c.at =>
                                       Pending(c.sheet, tab'.answers)
             /\ c.net # "sent" => Agrees(c.sheet, saved'[c.at])
             /\ c.net = "ok" => Whole(c.sheet, saved'[c.at])
  <2>1. c.at \notin tried /\ local'[c.at] = local[c.at] BY <1>1, <1>3
  <2>2. /\ local[c.at] # NoItem
        /\ Backed(c.left, saved[c.at])
        /\ c.net = "sent" => /\ Pending(c.sheet, local[c.at])
                             /\ Testing /\ tab.at = c.at => Pending(c.sheet, tab.answers)
        /\ c.net # "sent" => Agrees(c.sheet, saved[c.at])
        /\ c.net = "ok" => Whole(c.sheet, saved[c.at])
    BY <1>3, <2>1 DEF SheetTrue
  <2>3. c.net = "sent" /\ Testing' /\ tab'.at = c.at => Pending(c.sheet, tab'.answers)
    BY <2>2 DEF CardStays
  <2> QED BY <2>1, <2>2, <2>3
<1>4. c.kind = "test" /\ c.at \notin tried' /\ local'[c.at] = NoItem =>
        Agrees(c.sheet, saved'[c.at])
  BY <1>1 DEF SheetTrue
<1> QED BY <1>2, <1>3, <1>4 DEF SheetTrue, Pending, Agrees, Backed, Whole

LEMMA TabStays ==
  ASSUME tab'.page = tab.page, tab'.shown = tab.shown, tab'.at = tab.at, NEW c, OfTab(c)
  PROVE  OfTab(c)'
BY DEF OfTab, Testing

(* One call goes on to be the call new, the others remain what they are. *)
LEMMA OneChanges ==
  ASSUME LegacyInv, NEW t \in Slots, NEW new \in Tasks, TaskTrue(new)',
         task' = [task EXCEPT ![t] = new],
         new.kind = "sync" => task[t].kind = "sync" \/ NoSync,
         Loads(new) => Loads(task[t]),
         \A x \in Slots \ {t} : \A c \in Tasks : c = task[x] /\ TaskTrue(c) => TaskTrue(c)'
  PROVE  task' \in [Slots -> Tasks] /\ OneEach' /\ \A x \in Slots : TaskTrue(task[x])'
<1>1. task \in [Slots -> Tasks] BY DEF LegacyInv, ClientType
<1>2. task' \in [Slots -> Tasks] BY <1>1
<1>3. ASSUME NEW x \in Slots PROVE TaskTrue(task[x])'
  <2>1. CASE x = t
    <3>1. PICK n : n = new OBVIOUS
    <3>2. task'[x] = n /\ TaskTrue(n)' BY <1>1, <2>1, <3>1
    <3> QED BY <3>2
  <2>2. CASE x # t
    <3>1. PICK c \in Tasks : c = task[x] /\ TaskTrue(c) BY <1>1 DEF LegacyInv
    <3>2. TaskTrue(c)' BY <2>2, <3>1
    <3>3. task'[x] = c BY <1>1, <2>2, <3>1
    <3> QED BY <3>2, <3>3
  <2> QED BY <2>1, <2>2
<1>4. OneEach'
  <2> SUFFICES ASSUME NEW x \in Slots, NEW y \in Slots,
                      \/ task'[x].kind = "sync" /\ task'[y].kind = "sync"
                      \/ Loads(task'[x]) /\ Loads(task'[y])
               PROVE  x = y
    BY DEF OneEach, Loads
  <2>1. Loads(task'[x]) => Loads(task[x]) BY <1>1
  <2>2. Loads(task'[y]) => Loads(task[y]) BY <1>1
  <2>3. task'[x].kind = "sync" => task[x].kind = "sync" \/ (x = t /\ NoSync) BY <1>1
  <2>4. task'[y].kind = "sync" => task[y].kind = "sync" \/ (y = t /\ NoSync) BY <1>1
  <2> QED BY <2>1, <2>2, <2>3, <2>4 DEF LegacyInv, OneEach, NoSync
<1> QED BY <1>2, <1>3, <1>4

(* The calls of what was mounted go on, though nobody waits for them. *)
LEMMA OrphanedTrue ==
  ASSUME LegacyInv, NEW x \in Slots, saved' = saved, tried \subseteq tried', CardStays,
         \A s \in Subtests \ tried' : local'[s] = local[s]
  PROVE  /\ Orphaned(task[x]) \in Tasks
         /\ Orphaned(task[x]).kind = task[x].kind
         /\ ~Loads(Orphaned(task[x]))
         /\ \A d : d = Orphaned(task[x]) => TaskTrue(d)'
<1>1. PICK c \in Tasks : c = task[x] /\ TaskTrue(c) BY DEF LegacyInv, ClientType
<1>2. StepTrue(c) /\ OfTab(c) /\ SheetTrue(c) /\ c.at \in Subtests
  BY <1>1 DEF TaskTrue, Tasks
<1>3. tab.answers \in OwnSheets BY DEF LegacyInv, ClientType, Tabs
<1> DEFINE left == IF c.mine /\ c.kind = "sync" THEN tab.answers ELSE c.left
<1>4. PICK d : d = Orphaned(c) OBVIOUS
<1>5. d = [c EXCEPT !.mine = FALSE, !.left = left] BY <1>4 DEF Orphaned
<1>6. left \in OwnSheets BY <1>3 DEF Tasks
<1>7. c.kind = "sync" /\ c.at \notin tried => Backed(left, saved[c.at])
  <2>1. CASE c.mine /\ c.kind = "sync"
    <3>1. Testing /\ tab.at = c.at BY <1>2, <2>1 DEF OfTab
    <3>2. c.at \notin tried => local[c.at] # NoItem BY <1>2, <2>1 DEF SheetTrue
    <3>3. c.at \notin tried => Agrees(tab.answers, saved[c.at])
      BY <3>1, <3>2 DEF LegacyInv, CardTrue, InHand
    <3> QED BY <2>1, <3>3 DEF Agrees, Backed
  <2>2. CASE ~(c.mine /\ c.kind = "sync") BY <1>2, <2>2 DEF SheetTrue
  <2> QED BY <2>1, <2>2
<1> HIDE DEF left
<1>8. /\ d \in Tasks /\ d.kind = c.kind /\ ~d.mine /\ d.at = c.at /\ d.step = c.step
      /\ d.net = c.net /\ d.began = c.began /\ d.active = c.active /\ d.sheet = c.sheet
      /\ d.left = left /\ d.shown = c.shown
  BY <1>5, <1>6 DEF Tasks
<1>9. ~Loads(d) BY <1>8 DEF Loads
<1>10. StepTrue(d)' BY <1>2, <1>8 DEF StepTrue, Carries
<1>11. OfTab(d)' BY <1>8 DEF OfTab
<1>12. SheetTrue(d) BY <1>2, <1>7, <1>8 DEF SheetTrue
<1>13. SheetTrue(d)' BY <1>8, <1>12, SheetStays
<1>14. TaskTrue(d)' BY <1>10, <1>11, <1>13 DEF TaskTrue
<1> QED BY <1>1, <1>4, <1>8, <1>9, <1>14

(***************************************************************************)
(* The server.                                                             *)
(***************************************************************************)
LEMMA ReconciledType ==
  ASSUME ServerType
  PROVE  /\ Reconciled \in 0 .. NumSubtests + 1
         /\ active <= Reconciled
         /\ Reconciled = active \/ Reconciled = active + 1
BY LegacyAssumption DEF ServerType, Reconciled, Subtests

LEMMA UpsertOwn ==
  ASSUME NEW old \in [Soal -> Values], \A q \in Soal : old[q] \subseteq Named(q),
         NEW sheet \in OwnSheets
  PROVE  /\ Upsert(old, sheet) \in [Soal -> Values]
         /\ \A q \in Soal : Upsert(old, sheet)[q] \subseteq Named(q)
         /\ \A q \in Soal \ DOMAIN sheet : Upsert(old, sheet)[q] = old[q]
         /\ \A q \in Soal : old[q] # {} => Upsert(old, sheet)[q] # {}
         /\ \A q \in DOMAIN sheet : sheet[q].jawaban # {} =>
              Upsert(old, sheet)[q] = sheet[q].jawaban
         /\ DOMAIN sheet = {} => Upsert(old, sheet) = old
<1> DEFINE f == Upsert(old, sheet)
<1>1. /\ f = [q \in Soal |-> f[q]]
      /\ \A q \in Soal : f[q] = IF q \in DOMAIN sheet /\ sheet[q].jawaban # {}
                                  THEN sheet[q].jawaban ELSE old[q]
  BY DEF Upsert
<1> HIDE DEF f
<1>2. \A q \in Soal : f[q] \subseteq Named(q) BY <1>1, SheetElim
<1>3. \A q \in Soal : f[q] \in Values BY <1>2, NamedValues
<1>4. f \in [Soal -> Values] BY <1>1, <1>3
<1>5. DOMAIN sheet \subseteq Soal BY SheetElim
<1>6. ASSUME DOMAIN sheet = {} PROVE f = old
  <2>1. \A q \in Soal : f[q] = old[q] BY <1>1, <1>6
  <2> QED BY <1>4, <2>1
<1> QED BY <1>1, <1>2, <1>4, <1>5, <1>6 DEF f

(* Only the answers a call carries are written, to its own subtest. *)
LEMMA ServeKeeps ==
  ASSUME ServerType, NEW c \in Tasks, StepTrue(c), c.net = "sent", Serve(c)
  PROVE  /\ ServerType' /\ active <= active'
         /\ c.step \notin {"save", "submit"} => saved' = saved
         /\ c.step \in {"save", "submit"} =>
              \A s \in Subtests : \A q \in Soal :
                saved'[s][q] = saved[s][q] \/ (s = c.at /\ q \in DOMAIN c.sheet)
         /\ \A s \in Subtests : \A q \in Soal : saved[s][q] # {} => saved'[s][q] # {}
<1>1. CASE c.step \in {"finished", "soal"}
  BY <1>1, LegacyAssumption DEF Serve, server, ServerType
<1>2. CASE c.step = "attempt"
  <2>1. /\ active' = (IF active = 0 THEN 1 ELSE active)
        /\ UNCHANGED <<phase, saved>>
    BY <1>2 DEF Serve
  <2> QED BY <1>2, <2>1, FirstSubtest, LegacyAssumption DEF ServerType
<1>3. CASE c.step = "current" \/ (c.step \in {"start", "save", "submit"} /\ Reconciled # c.at)
  <2>1. active' = Reconciled /\ UNCHANGED <<phase, saved>> BY <1>3 DEF Serve
  <2>2. active' \in 0 .. NumSubtests + 1 /\ active <= active' BY <2>1, ReconciledType
  <2> QED BY <1>3, <2>1, <2>2 DEF ServerType
<1>4. CASE c.step \in {"start", "save", "submit"} /\ Reconciled = c.at
  <2>1. /\ active' = IF c.step = "submit" THEN c.at + 1 ELSE c.at
        /\ phase' = [phase EXCEPT ![c.at] = IF @ = "new" THEN "running" ELSE @]
        /\ saved' = [saved EXCEPT ![c.at] = Upsert(@, c.sheet)]
    BY <1>4 DEF Serve
  <2>2. c.at \in Subtests /\ c.sheet \in OwnSheets BY DEF Tasks
  <2>3. active' \in 0 .. NumSubtests + 1 /\ active <= active'
    BY <1>4, <2>1, <2>2, ReconciledType, LegacyAssumption DEF ServerType, Subtests
  <2>4. phase' \in [Subtests -> {"new", "running", "grace", "over"}]
    BY <2>1, <2>2 DEF ServerType
  <2> DEFINE new == Upsert(saved[c.at], c.sheet)
  <2>5. saved[c.at] \in [Soal -> Values] /\ \A q \in Soal : saved[c.at][q] \subseteq Named(q)
    BY <2>2 DEF ServerType
  <2>6. /\ new \in [Soal -> Values]
        /\ \A q \in Soal : new[q] \subseteq Named(q)
        /\ \A q \in Soal \ DOMAIN c.sheet : new[q] = saved[c.at][q]
        /\ \A q \in Soal : saved[c.at][q] # {} => new[q] # {}
        /\ DOMAIN c.sheet = {} => new = saved[c.at]
    BY <2>2, <2>5, UpsertOwn
  <2>7. saved' = [saved EXCEPT ![c.at] = new] BY <2>1
  <2>8. saved \in [Subtests -> [Soal -> Values]] BY DEF ServerType
  <2> HIDE DEF new
  <2>9. /\ saved' \in [Subtests -> [Soal -> Values]]
        /\ saved'[c.at] = new
        /\ \A s \in Subtests \ {c.at} : saved'[s] = saved[s]
    BY <2>2, <2>6, <2>7, <2>8
  <2>10. \A s \in Subtests, q \in Soal : saved'[s][q] \subseteq Named(q)
    BY <2>6, <2>9 DEF ServerType
  <2>11. ServerType' BY <2>3, <2>4, <2>9, <2>10 DEF ServerType
  <2>12. ASSUME c.step = "start" PROVE saved' = saved
    <3>1. DOMAIN c.sheet = {} BY <2>12, NoEntriesOwn DEF StepTrue
    <3>2. new = saved[c.at] BY <2>6, <3>1
    <3> QED BY <2>7, <2>8, <3>2
  <2>13. \A s \in Subtests : \A q \in Soal :
           saved'[s][q] = saved[s][q] \/ (s = c.at /\ q \in DOMAIN c.sheet)
    BY <2>6, <2>9
  <2>14. \A s \in Subtests : \A q \in Soal : saved[s][q] # {} => saved'[s][q] # {}
    BY <2>6, <2>9
  <2> QED BY <1>4, <2>3, <2>11, <2>12, <2>13, <2>14
<1>5. c.step \in Steps BY DEF Tasks
<1> QED BY <1>1, <1>2, <1>3, <1>4, <1>5 DEF Steps

(***************************************************************************)
(* A page that stays.                                                      *)
(***************************************************************************)
(* The page stays, or comes to be shown where no card is to be mounted. *)
SamePage ==
  /\ tab' \in Tabs
  /\ tab'.page = tab.page /\ tab'.at = tab.at /\ tab'.offer = tab.offer
  /\ tab'.answers = tab.answers /\ tab'.initial = tab.initial /\ tab'.soal = tab.soal
  /\ tab'.ids = tab.ids /\ tab'.emitted = tab.emitted /\ tab'.reverted = tab.reverted
  /\ tab'.shown = tab.shown \/ tab.page # "test"

LEMMA SamePageKeeps ==
  ASSUME LegacyInv, SamePage, UNCHANGED <<server, local, tried>>
  PROVE  /\ ServerType' /\ LocalSaved' /\ CardTrue' /\ NeverAhead'
         /\ local' \in [Subtests -> OwnSheets \cup {NoItem}] /\ tried' \subseteq Subtests
         /\ \A c \in Tasks : TaskTrue(c) => TaskTrue(c)'
<1>1. ServerType' /\ LocalSaved' /\ NeverAhead'
  BY DEF LegacyInv, ServerType, server, LocalSaved, NeverAhead, SamePage
<1>2. CardTrue'
  <2>1. Testing' <=> Testing BY DEF Testing, SamePage
  <2>2. Faces' BY <2>1 DEF LegacyInv, CardTrue, Faces, Shows, SavedAnswer, SamePage
  <2>3. InHand' BY <2>1 DEF LegacyInv, CardTrue, InHand, Agrees, Apart, SamePage, server
  <2> QED BY <2>2, <2>3 DEF CardTrue
<1>3. ASSUME NEW c \in Tasks, TaskTrue(c) PROVE TaskTrue(c)'
  <2>1. OfTab(c)' BY <1>3 DEF TaskTrue, OfTab, Loaded, Testing, SamePage
  <2>2. CardStays BY DEF CardStays, Testing, SamePage
  <2>3. SheetTrue(c)' BY <1>3, <2>2, SheetStays DEF TaskTrue, server
  <2> QED BY <1>3, <2>1, <2>3 DEF TaskTrue, StepTrue, Carries
<1> QED BY <1>1, <1>2, <1>3 DEF LegacyInv, ClientType

LEMMA SameTab == ASSUME LegacyInv, tab' = tab PROVE SamePage
BY DEF LegacyInv, ClientType, SamePage

(***************************************************************************)
(* Answers that come, calls that fail, time.                               *)
(***************************************************************************)

(* Before a submit is called, a subtest's answers change by a sync only, and by
   that only those it carries. *)
LEMMA SavedChanges ==
  ASSUME LegacyInv, NEW t \in Slots, NEW c \in Tasks, c = task[t], TaskTrue(c),
         c.net = "sent", Serve(c), NEW s \in Subtests, s \notin tried
  PROVE  \/ saved'[s] = saved[s]
         \/ /\ c.kind = "sync" /\ c.at = s /\ local[s] # NoItem
            /\ \A q \in Soal : saved'[s][q] = saved[s][q] \/ q \in DOMAIN c.sheet
<1>1. ServerType /\ StepTrue(c) BY DEF LegacyInv, TaskTrue
<1>2. /\ ServerType'
      /\ c.step \notin {"save", "submit"} => saved' = saved
      /\ c.step \in {"save", "submit"} =>
           \A x \in Subtests : \A q \in Soal :
             saved'[x][q] = saved[x][q] \/ (x = c.at /\ q \in DOMAIN c.sheet)
  BY <1>1, ServeKeeps
<1>3. CASE c.step \notin {"save", "submit"} BY <1>2, <1>3
<1>4. CASE c.step \in {"save", "submit"} /\ c.at # s
  <2>1. \A q \in Soal : saved'[s][q] = saved[s][q] BY <1>2, <1>4
  <2>2. saved[s] \in [Soal -> Values] /\ saved'[s] \in [Soal -> Values]
    BY <1>1, <1>2 DEF ServerType
  <2> QED BY <2>1, <2>2
<1>5. CASE c.step = "submit" /\ c.at = s
  BY <1>1, <1>5 DEF StepTrue, TaskTrue, SheetTrue
<1>6. CASE c.step = "save" /\ c.at = s
  <2>1. c.kind = "sync" /\ local[s] # NoItem
    BY <1>1, <1>6 DEF StepTrue, TaskTrue, SheetTrue
  <2> QED BY <1>2, <1>6, <2>1
<1> QED BY <1>3, <1>4, <1>5, <1>6

LEMMA ServedSheets ==
  ASSUME LegacyInv, NEW t \in Slots, NEW c \in Tasks, c = task[t], TaskTrue(c),
         c.net = "sent", Serve(c), UNCHANGED <<local, tab, tried>>
  PROVE  /\ LocalSaved' /\ CardTrue'
         /\ \A x \in Slots \ {t} : \A d \in Tasks :
              d = task[x] /\ SheetTrue(d) => SheetTrue(d)'
<1>1. LocalSaved'
  <2> SUFFICES ASSUME NEW s \in Subtests, s \notin tried, local[s] # NoItem
               PROVE  Agrees(local[s], saved'[s])
    BY DEF LocalSaved, Agrees
  <2>1. Agrees(local[s], saved[s]) BY DEF LegacyInv, LocalSaved
  <2>2. local[s] \in OwnSheets BY DEF LegacyInv, ClientType
  <2>3. DOMAIN local[s] \subseteq Soal BY <2>2, SheetElim
  <2>4. CASE saved'[s] = saved[s] BY <2>1, <2>4
  <2>5. CASE c.kind = "sync" /\ c.at = s
    <3>1. Pending(c.sheet, local[s]) BY <2>5 DEF TaskTrue, SheetTrue
    <3>2. \A q \in DOMAIN local[s] : local[s][q].synced => saved'[s][q] = saved[s][q]
      BY <2>3, <3>1, SavedChanges DEF Pending
    <3> QED BY <2>1, <3>2 DEF Agrees
  <2> QED BY <2>4, <2>5, SavedChanges
<1>2. ASSUME NEW x \in Slots \ {t}, NEW d \in Tasks, d = task[x], SheetTrue(d)
      PROVE  SheetTrue(d)'
  <2>1. local' = local /\ tab' = tab /\ tried' = tried OBVIOUS
  <2>2. CASE d.at \in tried BY <1>2, <2>1, <2>2 DEF SheetTrue
  <2>3. CASE d.at \notin tried
    <3>1. d.at \in Subtests BY DEF Tasks
    <3>2. CASE saved'[d.at] = saved[d.at]
      BY <1>2, <2>1, <2>3, <3>2 DEF SheetTrue, Testing, Pending, Agrees, Backed, Whole
    <3>3. CASE c.kind = "sync" /\ c.at = d.at /\ local[d.at] # NoItem
      <4>1. d.kind # "sync" BY <1>2, <3>3 DEF LegacyInv, OneEach
      <4> QED BY <1>2, <2>1, <3>3, <4>1 DEF SheetTrue
    <3> QED BY <2>3, <3>1, <3>2, <3>3, SavedChanges
  <2> QED BY <2>2, <2>3
<1>3. CardTrue'
  <2>1. Faces' BY DEF LegacyInv, CardTrue, Faces, Shows, SavedAnswer, Testing
  <2>2. InHand'
    <3> SUFFICES ASSUME Testing, tab.at \notin tried
                 PROVE  IF local[tab.at] = NoItem
                          THEN DOMAIN tab.answers = {} /\ DOMAIN tab.initial = {}
                          ELSE /\ Agrees(tab.answers, saved'[tab.at])
                               /\ Apart(local[tab.at], tab.answers)
      BY DEF InHand, Testing, Agrees, Apart
    <3>1. CASE local[tab.at] = NoItem BY <3>1 DEF LegacyInv, CardTrue, InHand
    <3>2. CASE local[tab.at] # NoItem
      <4>1. Agrees(tab.answers, saved[tab.at]) /\ Apart(local[tab.at], tab.answers)
        BY <3>2 DEF LegacyInv, CardTrue, InHand
      <4>2. tab.at \in Subtests /\ tab.answers \in OwnSheets
        BY DEF LegacyInv, ClientType, Tabs
      <4>3. DOMAIN tab.answers \subseteq Soal BY <4>2, SheetElim
      <4>4. CASE saved'[tab.at] = saved[tab.at] BY <3>2, <4>1, <4>4
      <4>5. CASE c.kind = "sync" /\ c.at = tab.at
        <5>1. Pending(c.sheet, tab.answers) BY <4>5 DEF TaskTrue, SheetTrue
        <5>2. \A q \in DOMAIN tab.answers : tab.answers[q].synced =>
                saved'[tab.at][q] = saved[tab.at][q]
          BY <4>2, <4>3, <5>1, SavedChanges DEF Pending
        <5> QED BY <3>2, <4>1, <5>2 DEF Agrees
      <4> QED BY <4>2, <4>4, <4>5, SavedChanges
    <3> QED BY <3>1, <3>2
  <2> QED BY <2>1, <2>2 DEF CardTrue
<1> QED BY <1>1, <1>2, <1>3

LEMMA VerdictType ==
  ASSUME NEW c
  PROVE  /\ Verdict(c) \in {"ok", "none", "refused"}
         /\ c.step = "current" /\ Verdict(c) = "ok" => Reconciled \in Subtests
BY DEF Verdict

LEMMA AnsweredKeeps == ASSUME LegacyInv, NEW t \in Slots, Answered(t) PROVE LegacyInv'
<1>1. PICK c \in Tasks : c = task[t] /\ TaskTrue(c) BY DEF LegacyInv, ClientType
<1>2. /\ c.kind # "none" /\ c.net = "sent" /\ Serve(c)
      /\ UNCHANGED <<local, tab, tried, inputs>>
  BY <1>1 DEF Answered
<1>3. PICK net \in {Verdict(c), "fail"} :
        task' = [task EXCEPT ![t].net = net,
                   ![t].active = IF c.step = "current" /\ net = "ok" THEN Reconciled ELSE @,
                   ![t].sheet = IF c.step \in {"start", "save"} /\ net = "ok"
                                  THEN Synced(saved'[c.at])
                                ELSE IF c.step = "soal" THEN @ ELSE NoEntries,
                   ![t].shown = NoEntries]
  BY <1>1 DEF Answered
<1> DEFINE known == IF c.step = "current" /\ net = "ok" THEN Reconciled ELSE c.active
           given == IF c.step \in {"start", "save"} /\ net = "ok" THEN Synced(saved'[c.at])
                    ELSE IF c.step = "soal" THEN c.sheet ELSE NoEntries
           b == [c EXCEPT !.net = net, !.active = known, !.sheet = given, !.shown = NoEntries]
<1>4. task \in [Slots -> Tasks] BY DEF LegacyInv, ClientType
<1>5. task' = [task EXCEPT ![t] = b] BY <1>1, <1>3, <1>4
<1>6. StepTrue(c) /\ OfTab(c) /\ SheetTrue(c) BY <1>1 DEF TaskTrue
<1>7. ServerType /\ ServerType' /\ active <= active' /\ c.at \in Subtests
  BY <1>1, <1>2, <1>6, ServeKeeps DEF LegacyInv, Tasks
<1>8. net \in {"ok", "none", "refused", "fail"} BY <1>3, VerdictType
<1>9. known \in 0 .. NumSubtests /\ (c.step = "current" /\ net = "ok" => known \in Subtests)
  <2>1. c.step = "current" /\ net = "ok" => Reconciled \in Subtests BY <1>3, VerdictType
  <2> QED BY <2>1, LegacyAssumption DEF Tasks, Subtests
<1>10. PICK owned \in OwnSheets : /\ owned = Synced(saved'[c.at])
                                 /\ Agrees(owned, saved'[c.at]) /\ Whole(owned, saved'[c.at])
  BY <1>7, SyncedOwn DEF ServerType
<1>11. given \in OwnSheets BY <1>10, NoEntriesOwn DEF Tasks
<1> HIDE DEF known, given
<1>12. b \in Tasks BY <1>8, <1>9, <1>11, NoEntriesLook DEF Tasks, Nets
<1>13. /\ b.kind = c.kind /\ b.mine = c.mine /\ b.at = c.at /\ b.step = c.step
       /\ b.net = net /\ b.active = known /\ b.sheet = given /\ b.left = c.left
  BY DEF Tasks
<1>14. PICK d \in Tasks : d = b BY <1>12
<1> HIDE DEF b
<1>15. StepTrue(d)'
  <2>1. d.step \in {"finished", "current", "attempt"} \/ (d.step = "start" /\ d.net # "ok")
          => d.sheet = NoEntries
    BY <1>13, <1>14 DEF given
  <2> QED BY <1>6, <1>8, <1>9, <1>13, <1>14, <2>1 DEF StepTrue
<1>16. OfTab(d)'
  <2>1. OfTab(d) BY <1>6, <1>13, <1>14 DEF OfTab
  <2> QED BY <1>2, <2>1, TabStays
<1>17. SheetTrue(d)'
  <2>1. local' = local /\ tried' = tried BY <1>2
  <2>2. d.kind = "submit" => d.at \in tried BY <1>6, <1>13, <1>14 DEF SheetTrue
  <2>3. CASE c.step = "soal"
    <3>1. saved' = saved BY <1>2, <1>6, <1>7, <2>3, ServeKeeps
    <3>2. c.kind # "sync" BY <1>6, <2>3 DEF StepTrue
    <3>3. d.sheet = c.sheet BY <1>13, <1>14, <2>3 DEF given
    <3> QED BY <1>6, <1>13, <1>14, <2>1, <2>2, <3>1, <3>2, <3>3 DEF SheetTrue, Agrees
  <2>4. CASE c.step # "soal"
    <3>1. given = Synced(saved'[c.at]) \/ given = NoEntries BY <2>4 DEF given
    <3>2. Agrees(given, saved'[c.at]) BY <1>10, <3>1, NothingPending
    <3>3. d.kind = "sync" /\ d.at \notin tried => local[d.at] # NoItem
      BY <1>6, <1>13, <1>14 DEF SheetTrue
    <3>4. d.net # "sent" BY <1>8, <1>13, <1>14
    <3>5. Agrees(d.sheet, saved[d.at])' BY <1>13, <1>14, <3>2 DEF Agrees
    <3>6. d.kind = "sync" /\ d.net = "ok" => Whole(d.sheet, saved[d.at])'
      <4>1. c.kind = "sync" /\ net = "ok" => given = owned BY <1>6, <1>10 DEF StepTrue, given
      <4> QED BY <1>10, <1>13, <1>14, <4>1 DEF Whole
    <3>7. d.kind = "sync" /\ d.at \notin tried => Backed(d.left, saved[d.at])'
      <4>1. d.kind = "sync" /\ d.at \notin tried => Backed(c.left, saved[c.at])
        BY <1>6, <1>13, <1>14 DEF SheetTrue
      <4>2. DOMAIN c.left \subseteq Soal BY SheetElim DEF Tasks
      <4>3. \A q \in Soal : saved[c.at][q] # {} => saved'[c.at][q] # {}
        BY <1>2, <1>6, <1>7, ServeKeeps
      <4> QED BY <1>13, <1>14, <4>1, <4>2, <4>3 DEF Backed
    <3> QED BY <2>1, <2>2, <3>3, <3>4, <3>5, <3>6, <3>7 DEF SheetTrue
  <2> QED BY <2>3, <2>4
<1>18. TaskTrue(d)' BY <1>15, <1>16, <1>17 DEF TaskTrue
<1>19. /\ LocalSaved' /\ CardTrue'
       /\ \A x \in Slots \ {t} : \A e \in Tasks : e = task[x] /\ SheetTrue(e) => SheetTrue(e)'
  BY <1>1, <1>2, ServedSheets
<1>20. ASSUME NEW x \in Slots \ {t}, NEW e \in Tasks, e = task[x], TaskTrue(e)
       PROVE  TaskTrue(e)'
  <2>1. OfTab(e)' BY <1>2, <1>20, TabStays DEF TaskTrue
  <2>2. SheetTrue(e)' BY <1>19, <1>20 DEF TaskTrue
  <2> QED BY <1>20, <2>1, <2>2 DEF TaskTrue, StepTrue, Carries
<1>21. /\ task' \in [Slots -> Tasks] /\ OneEach'
       /\ \A x \in Slots : TaskTrue(task[x])'
  <2>1. task' = [task EXCEPT ![t] = d] BY <1>5, <1>14
  <2>2. /\ d.kind = "sync" => task[t].kind = "sync"
        /\ Loads(d) => Loads(task[t])
    BY <1>1, <1>13, <1>14 DEF Loads
  <2> QED BY <1>18, <1>20, <2>1, <2>2, OneChanges
<1>22. CardTrue' BY <1>19
<1>23. NeverAhead'
  <2>1. tab' = tab /\ tab.offer \in 0 .. NumSubtests BY <1>2 DEF LegacyInv, ClientType, Tabs
  <2> QED BY <1>7, <2>1, LegacyAssumption DEF LegacyInv, NeverAhead, ServerType
<1> QED BY <1>2, <1>7, <1>19, <1>21, <1>22, <1>23 DEF LegacyInv, ClientType

LEMMA FailsKeeps == ASSUME LegacyInv, NEW t \in Slots, Fails(t) PROVE LegacyInv'
<1>1. PICK c \in Tasks : c = task[t] /\ TaskTrue(c) BY DEF LegacyInv, ClientType
<1>2. c.net = "sent" /\ UNCHANGED <<server, local, tab, tried, inputs>> BY <1>1 DEF Fails
<1>3. PICK net \in {"fail", "auth"} :
        task' = [task EXCEPT ![t].net = net, ![t].sheet = NoEntries, ![t].shown = NoEntries]
  <2>1. PICK net \in {"fail"} \cup (IF task[t].kind = "begin" THEN {"auth"} ELSE {}) :
          task' = [task EXCEPT ![t].net = net, ![t].sheet = NoEntries, ![t].shown = NoEntries]
    BY DEF Fails
  <2> QED BY <2>1
<1> DEFINE b == [c EXCEPT !.net = net, !.sheet = NoEntries, !.shown = NoEntries]
<1>4. task \in [Slots -> Tasks] BY DEF LegacyInv, ClientType
<1>5. task' = [task EXCEPT ![t] = b] BY <1>1, <1>3, <1>4
<1>6. StepTrue(c) /\ OfTab(c) /\ SheetTrue(c) BY <1>1 DEF TaskTrue
<1>7. b \in Tasks BY NoEntriesOwn, NoEntriesLook DEF Tasks, Nets
<1>8. PICK d \in Tasks : d = b BY <1>7
<1>9. /\ d.kind = c.kind /\ d.mine = c.mine /\ d.at = c.at /\ d.step = c.step
      /\ d.net = net /\ d.sheet = NoEntries /\ d.left = c.left
  BY <1>8 DEF Tasks
<1> HIDE DEF b
<1>10. StepTrue(d)' BY <1>6, <1>9 DEF StepTrue
<1>11. OfTab(d) BY <1>6, <1>9 DEF OfTab
<1>12. OfTab(d)' BY <1>2, <1>11, TabStays
<1>13. SheetTrue(d) BY <1>6, <1>9, NothingPending DEF SheetTrue
<1>14. CardStays BY <1>2 DEF CardStays, Testing
<1>19. SheetTrue(d)' BY <1>2, <1>13, <1>14, SheetStays DEF server
<1>15. ASSUME NEW x \in Slots \ {t}, NEW e \in Tasks, e = task[x], TaskTrue(e)
       PROVE  TaskTrue(e)'
  <2>1. OfTab(e)' BY <1>2, <1>15, TabStays DEF TaskTrue
  <2>2. SheetTrue(e)' BY <1>2, <1>14, <1>15, SheetStays DEF TaskTrue, server
  <2> QED BY <1>15, <2>1, <2>2 DEF TaskTrue, StepTrue, Carries
<1>16. /\ task' \in [Slots -> Tasks] /\ OneEach'
       /\ \A x \in Slots : TaskTrue(task[x])'
  <2>1. task' = [task EXCEPT ![t] = d] BY <1>5, <1>8
  <2>2. /\ d.kind = "sync" => task[t].kind = "sync"
        /\ Loads(d) => Loads(task[t])
    BY <1>1, <1>9 DEF Loads
  <2>3. TaskTrue(d)' BY <1>10, <1>12, <1>19 DEF TaskTrue
  <2> QED BY <1>15, <2>1, <2>2, <2>3, OneChanges
<1>17. SamePage BY <1>2, SameTab
<1>18. /\ ServerType' /\ LocalSaved' /\ CardTrue' /\ NeverAhead'
       /\ local' \in [Subtests -> OwnSheets \cup {NoItem}] /\ tried' \subseteq Subtests
  BY <1>2, <1>17, SamePageKeeps
<1> QED BY <1>2, <1>16, <1>18 DEF LegacyInv, ClientType

LEMMA TimePassesKeeps == ASSUME LegacyInv, NEW s \in Subtests, TimePasses(s) PROVE LegacyInv'
<1>1. UNCHANGED <<active, saved, local, tab, task, tried, bounds>> BY DEF TimePasses
<1>2. phase' \in [Subtests -> {"new", "running", "grace", "over"}]
  BY DEF TimePasses, LegacyInv, ServerType
<1>3. ServerType' BY <1>1, <1>2 DEF LegacyInv, ServerType
<1>4. ASSUME NEW t \in Slots PROVE TaskTrue(task[t])'
  <2>1. PICK c \in Tasks : c = task[t] /\ TaskTrue(c) BY DEF LegacyInv, ClientType
  <2>2. OfTab(c)' BY <1>1, <2>1, TabStays DEF TaskTrue
  <2>5. CardStays BY <1>1 DEF CardStays, Testing
  <2>3. SheetTrue(c)' BY <1>1, <2>1, <2>5, SheetStays DEF TaskTrue
  <2>4. TaskTrue(c)' BY <2>1, <2>2, <2>3 DEF TaskTrue, StepTrue, Carries
  <2> QED BY <1>1, <2>1, <2>4
<1>5. OneEach' /\ LocalSaved' /\ NeverAhead' /\ ClientType'
  BY <1>1 DEF LegacyInv, OneEach, Loads, LocalSaved, NeverAhead, ClientType
<1>6. CardTrue'
  BY <1>1 DEF LegacyInv, CardTrue, Faces, Shows, SavedAnswer, InHand, Testing, Agrees, Apart
<1> QED BY <1>3, <1>4, <1>5, <1>6 DEF LegacyInv

(***************************************************************************)
(* From page to page.                                                      *)
(***************************************************************************)

(* The start button leads to a subtest whose turn has come. *)
LEMMA OffersInTurn ==
  ASSUME ServerType, NEW s \in Offers
  PROVE  s \in 0 .. NumSubtests /\ (s > 1 => s <= active)
<1>1. CASE s \in {0, 1} BY <1>1, FirstSubtest, LegacyAssumption
<1>2. CASE s = NextTryoutRoute(ProgressRows) /\ active <= NumSubtests
  <2> DEFINE open == {x \in Subtests : ~ProgressRows[x].locked /\ ~ProgressRows[x].done}
             current == {x \in open : ProgressRows[x].current}
             target == IF current # {} THEN current ELSE open
  <2>1. s = IF target = {} THEN 1 ELSE CHOOSE x \in target : \A y \in target : x <= y
    BY <1>2 DEF NextTryoutRoute
  <2>2. \A x \in Subtests :
          /\ ProgressRows[x].done <=> x < active
          /\ ProgressRows[x].current <=> x = active
          /\ ProgressRows[x].locked <=>
               IF active \in Subtests THEN x > active ELSE active = 0 /\ x > 1
    BY DEF ProgressRows
  <2>3. CASE active \in Subtests
    <3>1. active \in open BY <2>2, <2>3, LegacyAssumption DEF Subtests
    <3>2. current = {active} BY <2>2, <3>1
    <3>3. target = {active} BY <3>2
    <3> HIDE DEF target
    <3>4. s = active BY <2>1, <2>3, <3>3, LegacyAssumption DEF Subtests
    <3> QED BY <2>3, <3>4, LegacyAssumption DEF Subtests
  <2>4. CASE active = 0
    <3>1. 0 \notin Subtests BY DEF Subtests
    <3>2. \A x \in Subtests : x \in open <=> x = 1
      BY <2>2, <2>4, <3>1, LegacyAssumption DEF Subtests
    <3>3. current = {} BY <2>2, <2>4, <3>1
    <3>4. target = {1} BY <3>2, <3>3, FirstSubtest
    <3> HIDE DEF target
    <3>5. s = 1 BY <2>1, <3>4
    <3> QED BY <3>5, FirstSubtest, LegacyAssumption
  <2> QED BY <1>2, <2>3, <2>4, LegacyAssumption DEF ServerType, Subtests
<1>3. active > NumSubtests \/ active <= NumSubtests BY LegacyAssumption DEF ServerType
<1> QED BY <1>1, <1>2, <1>3 DEF Offers

LEMMA FreshType ==
  ASSUME NEW page \in Pages, NEW s \in Subtests
  PROVE  /\ Fresh(page, s) \in Tabs
         /\ Fresh(page, s).page = page /\ Fresh(page, s).at = s
         /\ ~Fresh(page, s).shown /\ Fresh(page, s).offer = 0
         /\ Fresh(page, s).ids = {} /\ Fresh(page, s).emitted = {}
BY NoEntriesOwn, EmptyValue, LegacyAssumption DEF Fresh, Tabs

LEMMA DrawsType ==
  ASSUME ServerType, NEW page \in Pages, NEW new \in Draws(page)
  PROVE  /\ new \in Tabs /\ new.page = page /\ (new.offer > 1 => new.offer <= active)
         /\ new.ids = {} /\ new.emitted = {}
<1>1. /\ Settled(page) \in Tabs /\ Settled(page).page = page /\ Settled(page).offer = 0
      /\ Settled(page).ids = {} /\ Settled(page).emitted = {}
  <2>1. PICK f \in Tabs : /\ f = Fresh(page, 1) /\ f.page = page /\ f.offer = 0
                          /\ f.ids = {} /\ f.emitted = {}
    BY FirstSubtest, FreshType
  <2>2. Settled(page) = [f EXCEPT !.shown = TRUE] BY <2>1 DEF Settled
  <2> QED BY <2>1, <2>2 DEF Tabs
<1>2. CASE page = "dashboard"
  <2>1. PICK s \in Offers : new = [Settled(page) EXCEPT !.offer = s] BY <1>2 DEF Draws
  <2>2. s \in 0 .. NumSubtests /\ (s > 1 => s <= active) BY OffersInTurn
  <2> QED BY <1>1, <2>1, <2>2 DEF Tabs
<1>3. CASE page # "dashboard"
  <2>1. new = Settled(page) BY <1>3 DEF Draws
  <2> QED BY <1>1, <2>1
<1> QED BY <1>2, <1>3

LEMMA GoesKeeps ==
  ASSUME LegacyInv, NEW page \in Pages, NEW s \in Subtests, NEW t \in Slots,
         Goes(page, s, t), UNCHANGED <<server, local, tried>>
  PROVE  LegacyInv'
<1> DEFINE n == IF page \in Loaded THEN Call(page, s, FirstStep(page)) ELSE NoTask
<1>1. task' = [x \in Slots |-> IF x = t THEN n ELSE Orphaned(task[x])]
  BY DEF Goes, Loaded
<1>2. tab' \in Tabs /\ tab'.page = page /\ (page = "test" => ~tab'.shown)
      /\ (tab'.offer > 1 => tab'.offer <= active)
      /\ tab'.ids = {} /\ tab'.emitted = {}
  <2>1. CASE page \in Loaded
    <3>1. tab' = Fresh(page, s) BY <2>1 DEF Goes, Loaded
    <3> QED BY <3>1, FreshType
  <2>2. CASE page \notin Loaded
    <3>1. tab' \in Draws(page) BY <2>2 DEF Goes, Loaded
    <3> QED BY <2>2, <3>1, DrawsType DEF LegacyInv, Loaded
  <2> QED BY <2>1, <2>2
<1>3. n \in Tasks /\ n.kind # "sync" /\ \A d : d = n => TaskTrue(d)'
  <2>1. CASE page \in Loaded
    <3>1. page \in Kinds /\ FirstStep(page) \in {"finished", "current"}
      BY <2>1 DEF Loaded, Kinds, FirstStep
    <3>2. FirstStep(page) \in Steps BY <3>1 DEF Steps
    <3>3. PICK d \in Tasks :
            /\ d = Call(page, s, FirstStep(page))
            /\ d.kind = page /\ d.at = s /\ d.step = FirstStep(page)
            /\ d.net = "sent" /\ d.sheet = NoEntries
      <4>1. PICK kind \in Kinds : kind = page BY <3>1
      <4>2. PICK step \in Steps : step = FirstStep(page) BY <3>2
      <4>3. Call(kind, s, step) \in Tasks BY CallType
      <4>4. Call(kind, s, step).kind = kind /\ Call(kind, s, step).at = s
            /\ Call(kind, s, step).step = step
        BY CallType
      <4>5. Call(kind, s, step).net = "sent" /\ Call(kind, s, step).sheet = NoEntries
        BY CallType
      <4> QED BY <4>1, <4>2, <4>3, <4>4, <4>5
    <3>4. page \in Loaded /\ d.step \in {"finished", "current"} BY <2>1, <3>1, <3>3
    <3>5. StepTrue(d)' BY <3>3, <3>4 DEF StepTrue, Loaded
    <3>6. OfTab(d)' BY <1>2, <3>3, <3>4 DEF OfTab, Loaded
    <3>7. SheetTrue(d)' BY <3>3, <3>4, NothingPending DEF SheetTrue, Agrees, Loaded
    <3>8. TaskTrue(d)' BY <3>5, <3>6, <3>7 DEF TaskTrue
    <3>9. n = d BY <2>1, <3>3
    <3> QED BY <3>3, <3>4, <3>8, <3>9 DEF Loaded
  <2>2. CASE page \notin Loaded BY <2>2, NoTaskTrue, NoTaskLater
  <2> QED BY <2>1, <2>2
<1> HIDE DEF n
<1>9. CardStays BY <1>2 DEF CardStays, Testing
<1>4. ASSUME NEW x \in Slots
      PROVE  /\ task'[x] \in Tasks /\ TaskTrue(task[x])'
             /\ task'[x].kind = "sync" => task[x].kind = "sync"
             /\ Loads(task'[x]) => x = t
  <2>1. PICK d : d = task'[x] OBVIOUS
  <2>2. CASE x = t BY <1>1, <1>3, <2>1, <2>2
  <2>3. CASE x # t
    <3>1. d = Orphaned(task[x]) BY <1>1, <2>1, <2>3
    <3>2. d \in Tasks /\ d.kind = task[x].kind /\ ~Loads(d) /\ TaskTrue(d)'
      BY <1>9, <3>1, OrphanedTrue DEF server
    <3> QED BY <2>1, <3>2
  <2> QED BY <2>2, <2>3
<1>5. task' \in [Slots -> Tasks] BY <1>1, <1>4
<1>6. OneEach' BY <1>4 DEF LegacyInv, OneEach, Loads
<1>7. CardTrue' /\ NeverAhead'
  BY <1>2 DEF CardTrue, Faces, InHand, Testing, NeverAhead, server
<1>8. LocalSaved' BY DEF LegacyInv, LocalSaved, server
<1> QED BY <1>2, <1>4, <1>5, <1>6, <1>7, <1>8 DEF LegacyInv, ServerType, ClientType, server

(* On a page that stays, one call goes on. *)
LEMMA OneGoesOn ==
  ASSUME LegacyInv, SamePage, UNCHANGED <<server, local, tried>>,
         NEW t \in Slots, NEW new \in Tasks, TaskTrue(new), task' = [task EXCEPT ![t] = new],
         new.kind = "sync" => task[t].kind = "sync" \/ NoSync,
         Loads(new) => Loads(task[t])
  PROVE  LegacyInv'
<1>1. /\ ServerType' /\ LocalSaved' /\ CardTrue' /\ NeverAhead'
      /\ local' \in [Subtests -> OwnSheets \cup {NoItem}] /\ tried' \subseteq Subtests
      /\ \A c \in Tasks : TaskTrue(c) => TaskTrue(c)'
  BY SamePageKeeps
<1>2. PICK n \in Tasks : n = new /\ TaskTrue(n) OBVIOUS
<1>3. TaskTrue(n)' BY <1>1, <1>2
<1>4. task' \in [Slots -> Tasks] /\ OneEach' /\ \A x \in Slots : TaskTrue(task[x])'
  <2>1. task' = [task EXCEPT ![t] = n] BY <1>2
  <2>2. /\ n.kind = "sync" => task[t].kind = "sync" \/ NoSync
        /\ Loads(n) => Loads(task[t])
    BY <1>2
  <2> QED BY <1>1, <1>3, <2>1, <2>2, OneChanges
<1> QED BY <1>1, <1>4 DEF LegacyInv, ClientType, SamePage

LEMMA EndsKeeps ==
  ASSUME LegacyInv, SamePage, UNCHANGED <<server, local, tried>>, NEW t \in Slots, Ends(t)
  PROVE  LegacyInv'
<1>1. task' = [task EXCEPT ![t] = NoTask] BY DEF Ends
<1>2. ~Loads(NoTask) BY NoTaskTrue DEF Loads
<1> QED BY <1>1, <1>2, NoTaskTrue, OneGoesOn

(* The next request of a page that loads. *)
LEMMA GoesOnTrue ==
  ASSUME NEW c \in Tasks, TaskTrue(c), c.kind \in Loaded,
         NEW d \in Tasks, d.kind = c.kind, d.mine = c.mine, d.net = "sent", d.sheet = c.sheet,
         \/ d.step \in {"current", "attempt", "start"} /\ c.sheet = NoEntries
         \/ d.step = "soal" /\ d.at = c.at
  PROVE  TaskTrue(d)
<1>1. StepTrue(c) /\ OfTab(c) /\ SheetTrue(c) BY DEF TaskTrue
<1>2. StepTrue(d) BY DEF StepTrue, Loaded
<1>3. OfTab(d) BY <1>1 DEF OfTab, Loaded
<1>4. SheetTrue(d) BY <1>1, NothingPending DEF SheetTrue, Loaded
<1> QED BY <1>2, <1>3, <1>4 DEF TaskTrue

LEMMA SendsKeeps ==
  ASSUME LegacyInv, UNCHANGED <<server, local, tab, tried>>, NEW t \in Slots,
         task[t].kind \in Loaded, NEW step \in {"current", "attempt", "soal"},
         step # "soal" => task[t].sheet = NoEntries,
         \/ Sends(t, step)
         \/ task' = [task EXCEPT ![t].step = step, ![t].net = "sent", ![t].began = TRUE]
  PROVE  LegacyInv'
<1>1. PICK c \in Tasks : c = task[t] /\ TaskTrue(c) BY DEF LegacyInv, ClientType
<1>2. task \in [Slots -> Tasks] BY DEF LegacyInv, ClientType
<1> DEFINE b == [c EXCEPT !.step = step, !.net = "sent"]
           e == [c EXCEPT !.step = step, !.net = "sent", !.began = TRUE]
<1>3. task' = [task EXCEPT ![t] = b] \/ task' = [task EXCEPT ![t] = e]
  BY <1>1, <1>2 DEF Sends
<1>4. /\ b \in Tasks /\ b.kind = c.kind /\ b.mine = c.mine /\ b.at = c.at
      /\ b.step = step /\ b.net = "sent" /\ b.sheet = c.sheet
  BY DEF Tasks, Steps, Nets
<1>5. /\ e \in Tasks /\ e.kind = c.kind /\ e.mine = c.mine /\ e.at = c.at
      /\ e.step = step /\ e.net = "sent" /\ e.sheet = c.sheet
  BY DEF Tasks, Steps, Nets
<1> HIDE DEF b, e
<1>6. PICK d \in {b, e} : task' = [task EXCEPT ![t] = d] BY <1>3
<1>7. TaskTrue(d) /\ d \in Tasks /\ d.kind = c.kind /\ d.mine = c.mine
  BY <1>1, <1>4, <1>5, GoesOnTrue
<1>8. SamePage BY SameTab
<1>9. d.kind # "sync" /\ (Loads(d) => Loads(task[t])) BY <1>1, <1>7 DEF Loaded, Loads
<1> QED BY <1>6, <1>7, <1>8, <1>9, OneGoesOn

LEMMA SendsStartKeeps ==
  ASSUME LegacyInv, UNCHANGED <<server, local, tried>>, NEW t \in Slots,
         task[t].kind \in Loaded, task[t].step = "current", task[t].net = "ok", SendsStart(t)
  PROVE  LegacyInv'
<1>1. PICK c \in Tasks : c = task[t] /\ TaskTrue(c) BY DEF LegacyInv, ClientType
<1>2. c.active \in Subtests /\ c.sheet = NoEntries BY <1>1 DEF TaskTrue, StepTrue
<1> DEFINE b == [c EXCEPT !.step = "start", !.net = "sent", !.at = c.active, !.active = 0]
<1>3. task \in [Slots -> Tasks] BY DEF LegacyInv, ClientType
<1>4. task' = [task EXCEPT ![t] = b] BY <1>1, <1>3 DEF SendsStart
<1>5. /\ b \in Tasks /\ b.kind = c.kind /\ b.mine = c.mine
      /\ b.step = "start" /\ b.net = "sent" /\ b.sheet = c.sheet
  <2>1. 0 \in 0 .. NumSubtests BY LegacyAssumption
  <2> QED BY <1>2, <2>1 DEF Tasks, Steps, Nets
<1> HIDE DEF b
<1>6. TaskTrue(b) BY <1>1, <1>2, <1>5, GoesOnTrue
<1>7. SamePage BY SameTab DEF SendsStart
<1>8. b.kind # "sync" /\ (Loads(b) => Loads(task[t])) BY <1>1, <1>5 DEF Loaded, Loads
<1> QED BY <1>4, <1>5, <1>6, <1>7, <1>8, OneGoesOn

(* A page of the participant's is shown once it has loaded. *)
LEMMA ShowsKeeps ==
  ASSUME LegacyInv, UNCHANGED <<server, local, tried>>, NEW t \in Slots,
         task[t].kind \in {"slug", "intro"}, Ends(t),
         tab' = IF Mine(t) THEN [tab EXCEPT !.shown = TRUE] ELSE tab
  PROVE  LegacyInv'
<1>1. PICK c \in Tasks : c = task[t] /\ TaskTrue(c) BY DEF LegacyInv, ClientType
<1>2. SamePage
  <2>1. CASE Mine(t)
    <3>1. tab.page # "test" BY <1>1, <2>1 DEF TaskTrue, OfTab, Loaded, Mine
    <3> QED BY <2>1, <3>1 DEF LegacyInv, ClientType, Tabs, SamePage
  <2>2. CASE ~Mine(t) BY <2>2, SameTab
  <2> QED BY <2>1, <2>2
<1> QED BY <1>2, EndsKeeps

LEMMA GoesIfMineKeeps ==
  ASSUME LegacyInv, UNCHANGED <<server, local, tried>>, NEW t \in Slots,
         NEW page \in {"intro", "dashboard"}, GoesIfMine(page, t)
  PROVE  LegacyInv'
<1>1. CASE Mine(t)
  <2>1. Goes(page, 1, t) /\ page \in Pages BY <1>1 DEF GoesIfMine, Pages
  <2> QED BY <2>1, FirstSubtest, GoesKeeps
<1>2. CASE ~Mine(t)
  <2>1. Ends(t) /\ SamePage BY <1>2, SameTab DEF GoesIfMine
  <2> QED BY <2>1, EndsKeeps
<1> QED BY <1>1, <1>2

LEMMA VisitKeeps ==
  ASSUME LegacyInv, NEW page \in Pages, NEW s \in Subtests, NEW t \in Slots, Visit(page, s, t)
  PROVE  LegacyInv'
<1>1. Goes(page, s, t) /\ UNCHANGED <<server, local, tried>> BY DEF Visit
<1> QED BY <1>1, GoesKeeps

LEMMA FollowOfferKeeps == ASSUME LegacyInv, NEW t \in Slots, FollowOffer(t) PROVE LegacyInv'
<1>1. PICK s \in 0 .. NumSubtests : s = tab.offer /\ s # 0 /\ Visit("slug", s, t)
  BY DEF FollowOffer, LegacyInv, ClientType, Tabs
<1>2. s \in Subtests BY <1>1, LegacyAssumption DEF Subtests
<1>3. "slug" \in Pages BY DEF Pages
<1> QED BY <1>1, <1>2, <1>3, VisitKeeps

LEMMA SlugCurrentKeeps == ASSUME LegacyInv, NEW t \in Slots, SlugCurrent(t) PROVE LegacyInv'
<1>1. PICK c \in Tasks : c = task[t] /\ TaskTrue(c) BY DEF LegacyInv, ClientType
<1>2. /\ c.kind = "slug" /\ c.step = "current" /\ c.net # "sent"
      /\ UNCHANGED <<server, local, tried>>
  BY <1>1 DEF SlugCurrent, Got
<1>3. c.kind \in Loaded /\ c.sheet = NoEntries BY <1>1, <1>2 DEF Loaded, TaskTrue, StepTrue
<1>4. CASE c.net = "ok" /\ c.active # c.at /\ Mine(t)
  <2>1. Goes("slug", c.active, t) BY <1>1, <1>4 DEF SlugCurrent
  <2>2. c.active \in Subtests BY <1>1, <1>2, <1>4 DEF TaskTrue, StepTrue
  <2>3. "slug" \in Pages BY DEF Pages
  <2> QED BY <1>2, <2>1, <2>2, <2>3, GoesKeeps
<1>5. CASE c.net = "ok" /\ (c.active = c.at \/ ~Mine(t))
  <2>1. Ends(t) /\ tab' = IF Mine(t) THEN [tab EXCEPT !.shown = TRUE] ELSE tab
    BY <1>1, <1>5 DEF SlugCurrent
  <2> QED BY <1>1, <1>2, <2>1, ShowsKeeps
<1>6. CASE c.net # "ok" /\ ~c.began
  <2>1. SendsAttempt(t) /\ UNCHANGED tab BY <1>1, <1>6 DEF SlugCurrent
  <2>2. Sends(t, "attempt") BY <2>1 DEF SendsAttempt
  <2> QED BY <1>1, <1>2, <1>3, <2>1, <2>2, SendsKeeps
<1>7. CASE c.net # "ok" /\ c.began
  <2>1. Goes("intro", 1, t) BY <1>1, <1>7 DEF SlugCurrent
  <2>2. "intro" \in Pages BY DEF Pages
  <2> QED BY <1>2, <2>1, <2>2, FirstSubtest, GoesKeeps
<1> QED BY <1>4, <1>5, <1>6, <1>7

LEMMA SlugAttemptKeeps == ASSUME LegacyInv, NEW t \in Slots, SlugAttempt(t) PROVE LegacyInv'
<1>1. PICK c \in Tasks : c = task[t] /\ TaskTrue(c) BY DEF LegacyInv, ClientType
<1>2. /\ c.kind = "slug" /\ c.step = "attempt"
      /\ UNCHANGED <<server, local, tried>>
  BY <1>1 DEF SlugAttempt, Got
<1>3. c.kind \in Loaded /\ c.sheet = NoEntries BY <1>1, <1>2 DEF Loaded, TaskTrue, StepTrue
<1>4. CASE c.net = "ok"
  <2>1. task' = [task EXCEPT ![t].step = "current", ![t].net = "sent", ![t].began = TRUE]
        /\ UNCHANGED tab
    BY <1>1, <1>4 DEF SlugAttempt
  <2> QED BY <1>1, <1>2, <1>3, <2>1, SendsKeeps
<1>5. CASE c.net # "ok"
  <2>1. Ends(t) /\ tab' = IF Mine(t) THEN [tab EXCEPT !.shown = TRUE] ELSE tab
    BY <1>1, <1>5 DEF SlugAttempt
  <2> QED BY <1>1, <1>2, <2>1, ShowsKeeps
<1> QED BY <1>4, <1>5

LEMMA BeginKeeps == ASSUME LegacyInv, NEW t \in Slots, Begin(t) PROVE LegacyInv'
<1>1. /\ tab.page = "slug" /\ tab.shown /\ tab' = [tab EXCEPT !.starting = TRUE]
      /\ task' = [task EXCEPT ![t] = Call("begin", tab.at, "start")]
      /\ UNCHANGED <<server, local, tried>>
  BY DEF Begin
<1>2. tab.at \in Subtests BY DEF LegacyInv, ClientType, Tabs
<1>3. "begin" \in Kinds /\ "start" \in Steps BY DEF Kinds, Steps
<1>4. PICK d : d = Call("begin", tab.at, "start") OBVIOUS
<1>5. /\ d \in Tasks /\ d.kind = "begin" /\ d.step = "start" /\ d.net = "sent"
      /\ d.sheet = NoEntries
  BY <1>2, <1>3, <1>4, CallType
<1>6. TaskTrue(d)
  <2>1. StepTrue(d) BY <1>5 DEF StepTrue
  <2>2. OfTab(d) BY <1>5 DEF OfTab, Loaded
  <2>3. SheetTrue(d) BY <1>5 DEF SheetTrue
  <2> QED BY <2>1, <2>2, <2>3 DEF TaskTrue
<1>7. SamePage BY <1>1 DEF LegacyInv, ClientType, Tabs, SamePage
<1>8. ~Loads(d) BY <1>5 DEF Loads, Loaded
<1> QED BY <1>1, <1>4, <1>5, <1>6, <1>7, <1>8, OneGoesOn

LEMMA BegunKeeps == ASSUME LegacyInv, NEW t \in Slots, Begun(t) PROVE LegacyInv'
<1>1. UNCHANGED <<server, local, tried>> BY DEF Begun
<1>2. CASE task[t].net \in {"ok", "auth"}
  <2>1. Goes("screen", 1, t) \/ Goes("login", 1, t) BY <1>2 DEF Begun
  <2>2. "screen" \in Pages /\ "login" \in Pages BY DEF Pages
  <2> QED BY <1>1, <2>1, <2>2, FirstSubtest, GoesKeeps
<1>3. CASE task[t].net \notin {"ok", "auth"}
  <2>1. Ends(t) /\ tab' = IF Mine(t) THEN [tab EXCEPT !.starting = FALSE] ELSE tab
    BY <1>3 DEF Begun
  <2>2. SamePage BY <2>1 DEF LegacyInv, ClientType, Tabs, SamePage
  <2> QED BY <1>1, <2>1, <2>2, EndsKeeps
<1> QED BY <1>2, <1>3

LEMMA IntroStepKeeps == ASSUME LegacyInv, NEW t \in Slots, IntroStep(t) PROVE LegacyInv'
<1>1. PICK c \in Tasks : c = task[t] /\ TaskTrue(c) BY DEF LegacyInv, ClientType
<1>2. c.kind = "intro" /\ UNCHANGED <<server, local, tried>> BY <1>1 DEF IntroStep
<1>3. c.kind \in Loaded BY <1>2 DEF Loaded
<1>4. c.step \in {"current", "attempt"} => c.sheet = NoEntries BY <1>1 DEF TaskTrue, StepTrue
<1>5. CASE c.step = "current" /\ c.net = "ok"
  <2>1. SendsStart(t) BY <1>1, <1>5 DEF IntroStep
  <2> QED BY <1>1, <1>2, <1>3, <1>5, <2>1, SendsStartKeeps
<1>6. CASE c.step = "current" /\ c.net # "ok" /\ ~c.began
  <2>1. SendsAttempt(t) /\ UNCHANGED tab BY <1>1, <1>6 DEF IntroStep
  <2>2. Sends(t, "attempt") BY <2>1 DEF SendsAttempt
  <2> QED BY <1>1, <1>2, <1>3, <1>4, <1>6, <2>1, <2>2, SendsKeeps
<1>7. CASE c.step = "attempt" /\ c.net = "ok"
  <2>1. task' = [task EXCEPT ![t].step = "current", ![t].net = "sent", ![t].began = TRUE]
        /\ UNCHANGED tab
    BY <1>1, <1>7 DEF IntroStep
  <2> QED BY <1>1, <1>2, <1>3, <1>4, <1>7, <2>1, SendsKeeps
<1>8. CASE c.step = "start" /\ c.net = "ok"
  <2>1. Ends(t) /\ tab' = IF Mine(t) THEN [tab EXCEPT !.shown = TRUE] ELSE tab
    BY <1>1, <1>8 DEF IntroStep
  <2> QED BY <1>1, <1>2, <2>1, ShowsKeeps
<1>9. CASE /\ ~(c.step = "current" /\ (c.net = "ok" \/ ~c.began))
           /\ ~(c.step \in {"attempt", "start"} /\ c.net = "ok")
  <2>1. GoesIfMine("dashboard", t) BY <1>1, <1>9 DEF IntroStep
  <2> QED BY <1>2, <2>1, GoesIfMineKeeps
<1> QED BY <1>5, <1>6, <1>7, <1>8, <1>9

LEMMA LayoutStepKeeps == ASSUME LegacyInv, NEW t \in Slots, LayoutStep(t) PROVE LegacyInv'
<1>1. PICK c \in Tasks : c = task[t] /\ TaskTrue(c) BY DEF LegacyInv, ClientType
<1>2. c.kind = "test" /\ UNCHANGED <<server, local, tried>> BY <1>1 DEF LayoutStep
<1>3. c.kind \in Loaded BY <1>2 DEF Loaded
<1>4. c.step = "finished" => c.sheet = NoEntries BY <1>1 DEF TaskTrue, StepTrue
<1>5. CASE c.step = "finished" /\ c.net # "ok"
  <2>1. Sends(t, "current") /\ UNCHANGED tab BY <1>1, <1>5 DEF LayoutStep
  <2> QED BY <1>1, <1>2, <1>3, <1>4, <1>5, <2>1, SendsKeeps
<1>6. CASE c.step = "current" /\ c.net = "ok"
  <2>1. SendsStart(t) BY <1>1, <1>6 DEF LayoutStep
  <2> QED BY <1>1, <1>2, <1>3, <1>6, <2>1, SendsStartKeeps
<1>7. CASE c.step = "current" /\ c.net # "ok"
  <2>1. GoesIfMine("intro", t) BY <1>1, <1>7 DEF LayoutStep
  <2> QED BY <1>2, <2>1, GoesIfMineKeeps
<1>8. CASE c.step = "start" /\ c.net = "ok"
  <2>1. Sends(t, "soal") /\ UNCHANGED tab BY <1>1, <1>8 DEF LayoutStep
  <2> QED BY <1>1, <1>2, <1>3, <2>1, SendsKeeps
<1>9. CASE /\ c.step # "current" /\ ~(c.step = "finished" /\ c.net # "ok")
           /\ ~(c.step = "start" /\ c.net = "ok")
  <2>1. GoesIfMine("dashboard", t) BY <1>1, <1>9 DEF LayoutStep
  <2> QED BY <1>2, <2>1, GoesIfMineKeeps
<1> QED BY <1>5, <1>6, <1>7, <1>8, <1>9

LEMMA LeftKeeps == ASSUME LegacyInv, Left PROVE LegacyInv'
<1>1. /\ tab' \in Draws("dashboard")
      /\ task' = [t \in Slots |-> Orphaned(task[t])]
      /\ UNCHANGED <<server, local, tried>>
  BY DEF Left
<1>2. /\ tab' \in Tabs /\ tab'.page = "dashboard" /\ (tab'.offer > 1 => tab'.offer <= active)
      /\ tab'.ids = {} /\ tab'.emitted = {}
  <2>1. "dashboard" \in Pages BY DEF Pages
  <2> QED BY <1>1, <2>1, DrawsType DEF LegacyInv
<1>7. CardStays BY <1>2 DEF CardStays, Testing
<1>3. ASSUME NEW x \in Slots
      PROVE  task'[x] \in Tasks /\ TaskTrue(task[x])' /\ task'[x].kind = task[x].kind
             /\ ~Loads(task'[x])
  <2>1. PICK d : d = Orphaned(task[x]) OBVIOUS
  <2>2. d \in Tasks /\ d.kind = task[x].kind /\ ~Loads(d) /\ TaskTrue(d)'
    BY <1>1, <1>7, <2>1, OrphanedTrue DEF server
  <2> QED BY <1>1, <2>1, <2>2
<1>4. task' \in [Slots -> Tasks] BY <1>1, <1>3
<1>5. OneEach' BY <1>3 DEF LegacyInv, OneEach, Loads
<1>6. CardTrue' /\ NeverAhead' /\ LocalSaved'
  BY <1>1, <1>2 DEF CardTrue, Faces, InHand, Testing, NeverAhead, LegacyInv, LocalSaved, server
<1> QED BY <1>1, <1>2, <1>3, <1>4, <1>5, <1>6 DEF LegacyInv, ServerType, ClientType, server

LEMMA GraceBeginsKeeps == ASSUME LegacyInv, GraceBegins PROVE LegacyInv'
<1>1. tab' = [tab EXCEPT !.grace = TRUE] /\ UNCHANGED <<server, local, task, tried>>
  BY DEF GraceBegins
<1>2. SamePage BY <1>1 DEF LegacyInv, ClientType, Tabs, SamePage
<1>3. /\ ServerType' /\ LocalSaved' /\ CardTrue' /\ NeverAhead'
      /\ \A c \in Tasks : TaskTrue(c) => TaskTrue(c)'
  BY <1>1, <1>2, SamePageKeeps
<1>4. ASSUME NEW x \in Slots PROVE TaskTrue(task[x])'
  <2>1. PICK c \in Tasks : c = task[x] /\ TaskTrue(c) BY DEF LegacyInv, ClientType
  <2>2. TaskTrue(c)' BY <1>3, <2>1
  <2> QED BY <1>1, <2>1, <2>2
<1> QED BY <1>1, <1>2, <1>3, <1>4 DEF LegacyInv, ClientType, OneEach, Loads, SamePage

(***************************************************************************)
(* The answer card.                                                        *)
(***************************************************************************)

(* A card that is mounted has the item of localStorage, or makes it. *)
LEMMA MountsKeeps ==
  ASSUME LegacyInv, NEW new \in Tabs, new.page = "test", new.shown, Mounts(new),
         UNCHANGED <<server, tried>>, new.offer > 1 => new.offer <= active,
         new.at \notin tried /\ local[new.at] = NoItem => Agrees(new.initial, saved[new.at])
  PROVE  /\ tab' \in Tabs /\ tab'.page = "test" /\ tab'.shown /\ tab'.at = new.at
         /\ local' \in [Subtests -> OwnSheets \cup {NoItem}]
         /\ ServerType' /\ LocalSaved' /\ CardTrue' /\ NeverAhead' /\ CardStays
         /\ \A s \in Subtests :
              \/ local'[s] = local[s]
              \/ /\ s = new.at /\ local[s] = NoItem /\ local'[s] # NoItem
                 /\ DOMAIN new.initial # {}
<1> DEFINE item == local[new.at]
           shown == IF item = NoItem THEN new.initial ELSE item
           kept == IF item = NoItem /\ DOMAIN new.initial # {} THEN new.initial ELSE item
<1>1. PICK card : /\ card = [new EXCEPT !.answers = shown]
                  /\ tab' = [card EXCEPT !.ids = SavedAnswer(card), !.emitted = {},
                                          !.reverted = FALSE]
                  /\ local' = [local EXCEPT ![new.at] = kept]
  BY DEF Mounts
<1>2. /\ new.at \in Subtests /\ new.initial \in OwnSheets /\ new.soal \in Soal
      /\ local \in [Subtests -> OwnSheets \cup {NoItem}]
  BY DEF LegacyInv, ClientType, Tabs
<1>3. shown \in OwnSheets /\ kept \in OwnSheets \cup {NoItem} BY <1>2
<1> HIDE DEF shown, kept
<1>4. /\ tab' \in Tabs /\ tab'.page = "test" /\ tab'.shown /\ tab'.at = new.at
      /\ tab'.answers = shown /\ tab'.initial = new.initial /\ tab'.offer = new.offer
      /\ Faces'
  <2>1. /\ card \in Tabs /\ card.page = "test" /\ card.shown /\ card.at = new.at
        /\ card.answers = shown /\ card.initial = new.initial /\ card.offer = new.offer
        /\ card.soal = new.soal
    BY <1>1, <1>3 DEF Tabs
  <2>2. PICK v : v = SavedAnswer(card) OBVIOUS
  <2>3. v \subseteq Named(new.soal) BY <1>2, <1>3, <2>1, <2>2, SavedAnswerOwn
  <2>4. v \in Values BY <1>2, <2>3, NamedValues
  <2>5. tab' = [card EXCEPT !.ids = v, !.emitted = {}, !.reverted = FALSE] BY <1>1, <2>2
  <2>6. /\ tab' \in Tabs /\ tab'.page = "test" /\ tab'.shown /\ tab'.at = new.at
        /\ tab'.answers = shown /\ tab'.initial = new.initial /\ tab'.offer = new.offer
        /\ tab'.soal = new.soal /\ tab'.ids = v /\ tab'.emitted = {}
    BY <2>1, <2>4, <2>5, EmptyValue DEF Tabs
  <2>7. SavedAnswer(tab)' = v BY <2>1, <2>2, <2>6 DEF SavedAnswer
  <2>8. Faces' BY <2>3, <2>6, <2>7 DEF Faces, Shows
  <2> QED BY <2>6, <2>8
<1>5. /\ local' \in [Subtests -> OwnSheets \cup {NoItem}]
      /\ local'[new.at] = kept
      /\ \A s \in Subtests \ {new.at} : local'[s] = local[s]
  BY <1>1, <1>2, <1>3
<1>6. /\ kept = item
      \/ /\ item = NoItem /\ kept = new.initial /\ kept # NoItem
         /\ DOMAIN new.initial # {}
  BY <1>2, OwnIsItem DEF kept
<1>7. LocalSaved'
  <2> SUFFICES ASSUME NEW s \in Subtests, s \notin tried, local'[s] # NoItem
               PROVE  Agrees(local'[s], saved[s])
    BY DEF LocalSaved, Agrees, server
  <2>1. CASE local'[s] = local[s] BY <2>1 DEF LegacyInv, LocalSaved
  <2>2. CASE s = new.at /\ item = NoItem /\ kept = new.initial BY <1>5, <2>2
  <2> QED BY <1>5, <1>6, <2>1, <2>2
<1>8. CardTrue'
  <2>1. IF kept = NoItem THEN DOMAIN shown = {} /\ DOMAIN new.initial = {} ELSE shown = kept
    BY <1>2, OwnIsItem DEF shown, kept
  <2>2. ASSUME new.at \notin tried, kept # NoItem PROVE Agrees(kept, saved[new.at])
    BY <1>2, <1>5, <1>7, <2>2 DEF LocalSaved, Agrees, server
  <2>3. new.at \notin tried =>
          IF kept = NoItem THEN DOMAIN shown = {} /\ DOMAIN new.initial = {}
          ELSE Agrees(shown, saved[new.at]) /\ Apart(kept, shown)
    BY <2>1, <2>2 DEF Apart
  <2>4. PICK now, has : now = shown /\ has = kept OBVIOUS
  <2>5. /\ tab'.answers = now /\ local'[tab'.at] = has /\ saved' = saved /\ tried' = tried
        /\ tab'.at = new.at /\ tab'.initial = new.initial
    BY <1>4, <1>5, <2>4 DEF server
  <2>6. InHand' BY <2>3, <2>4, <2>5 DEF InHand, Agrees, Apart
  <2> QED BY <1>4, <2>6 DEF CardTrue
<1>9. NeverAhead' BY <1>4 DEF NeverAhead, server
<1>10. ServerType' BY DEF LegacyInv, ServerType, server
<1>11. CardStays BY <1>4 DEF CardStays, shown
<1> QED BY <1>4, <1>5, <1>6, <1>7, <1>8, <1>9, <1>10, <1>11

LEMMA LayoutDoneKeeps == ASSUME LegacyInv, NEW t \in Slots, LayoutDone(t) PROVE LegacyInv'
<1>1. PICK c \in Tasks : c = task[t] /\ TaskTrue(c) BY DEF LegacyInv, ClientType
<1>2. c.kind = "test" /\ Ends(t) /\ UNCHANGED <<server, tried>>
  BY <1>1 DEF LayoutDone, Got
<1>3. CASE ~Mine(t)
  <2>1. tab' = tab /\ local' = local BY <1>3 DEF LayoutDone
  <2> QED BY <1>2, <2>1, SameTab, EndsKeeps
<1>4. CASE Mine(t)
  <2> DEFINE new == [tab EXCEPT !.shown = TRUE, !.at = c.at, !.initial = c.sheet]
  <2>1. Mounts(new) BY <1>1, <1>4 DEF LayoutDone
  <2>2. c.mine /\ tab.page = "test" /\ ~tab.shown
    BY <1>1, <1>2, <1>4 DEF Mine, TaskTrue, OfTab, Loaded
  <2>3. tab \in Tabs /\ c.at \in Subtests /\ c.sheet \in OwnSheets
    BY DEF LegacyInv, ClientType, Tasks
  <2>4. /\ new \in Tabs /\ new.page = "test" /\ new.shown /\ new.at = c.at
        /\ new.initial = c.sheet /\ new.offer = tab.offer
    BY <2>2, <2>3 DEF Tabs
  <2> HIDE DEF new
  <2>5. c.at \notin tried /\ local[c.at] = NoItem => Agrees(c.sheet, saved[c.at])
    BY <1>1, <1>2 DEF TaskTrue, SheetTrue
  <2>6. /\ tab' \in Tabs /\ tab'.page = "test" /\ tab'.shown /\ tab'.at = c.at
        /\ local' \in [Subtests -> OwnSheets \cup {NoItem}]
        /\ ServerType' /\ LocalSaved' /\ CardTrue' /\ NeverAhead' /\ CardStays
        /\ \A s \in Subtests :
             \/ local'[s] = local[s]
             \/ s = c.at /\ local[s] = NoItem /\ local'[s] # NoItem
    <3>1. new.offer > 1 => new.offer <= active BY <2>4 DEF LegacyInv, NeverAhead
    <3> QED BY <1>2, <2>1, <2>4, <2>5, <3>1, MountsKeeps
  <2>7. ASSUME NEW x \in Slots \ {t}, NEW d \in Tasks, d = task[x], TaskTrue(d)
        PROVE  TaskTrue(d)'
    <3>1. StepTrue(d) /\ OfTab(d) /\ SheetTrue(d) /\ d.at \in Subtests
      BY <2>7 DEF TaskTrue, Tasks
    <3>2. ~Loads(d) BY <1>1, <1>2, <2>2, <2>7 DEF Loads, Loaded, LegacyInv, OneEach
    <3>3. ~(d.mine /\ d.kind = "sync") BY <2>2, <3>1 DEF OfTab, Testing
    <3>4. OfTab(d)' BY <3>2, <3>3 DEF OfTab, Loads, Loaded
    <3>5. SheetTrue(d)'
      <4>1. ASSUME d.kind = "sync", d.at \notin tried
            PROVE  /\ local'[d.at] = local[d.at]
                   /\ Testing' /\ tab'.at = d.at => tab'.answers = local[d.at]
        <5>1. local[d.at] # NoItem BY <3>1, <4>1 DEF SheetTrue
        <5>2. local'[d.at] = local[d.at] BY <2>6, <3>1, <5>1
        <5> QED BY <2>2, <2>6, <5>1, <5>2 DEF CardStays, Testing
      <4>2. local'[d.at] = NoItem => local[d.at] = NoItem BY <2>6, <3>1
      <4> QED BY <1>2, <3>1, <4>1, <4>2
            DEF SheetTrue, Pending, Agrees, Backed, Whole, server
    <3> QED BY <3>1, <3>4, <3>5 DEF TaskTrue, StepTrue, Carries
  <2>8. task' = [task EXCEPT ![t] = NoTask] BY <1>2 DEF Ends
  <2>9. ~Loads(NoTask) /\ NoTask \in Tasks /\ NoTask.kind # "sync" /\ TaskTrue(NoTask)'
    BY NoTaskTrue, NoTaskLater DEF Loads
  <2>10. task' \in [Slots -> Tasks] /\ OneEach' /\ \A x \in Slots : TaskTrue(task[x])'
    BY <2>7, <2>8, <2>9, OneChanges
  <2> QED BY <1>2, <2>6, <2>10 DEF LegacyInv, ClientType
<1> QED BY <1>3, <1>4

LEMMA TurnsKeeps == ASSUME LegacyInv, NEW q \in Soal, Turns(q) PROVE LegacyInv'
<1>1. /\ Testing /\ UNCHANGED <<server, tried>>
      /\ Mounts([Fresh("test", tab.at) EXCEPT !.shown = TRUE, !.initial = tab.initial,
                                              !.soal = q])
      /\ task' = [t \in Slots |-> Orphaned(task[t])]
  BY DEF Turns
<1> DEFINE new == [Fresh("test", tab.at) EXCEPT !.shown = TRUE, !.initial = tab.initial,
                                                !.soal = q]
<1>2. tab \in Tabs /\ tab.at \in Subtests /\ tab.initial \in OwnSheets
  BY DEF LegacyInv, ClientType, Tabs
<1>3. /\ new \in Tabs /\ new.page = "test" /\ new.shown /\ new.at = tab.at
      /\ new.initial = tab.initial /\ new.offer = 0
  <2>1. "test" \in Pages BY DEF Pages
  <2>2. PICK f \in Tabs : /\ f = Fresh("test", tab.at)
                          /\ f.page = "test" /\ f.at = tab.at /\ f.offer = 0
    BY <1>2, <2>1, FreshType
  <2>3. new = [f EXCEPT !.shown = TRUE, !.initial = tab.initial, !.soal = q] BY <2>2
  <2> QED BY <1>2, <2>2, <2>3 DEF Tabs
<1>4. Mounts(new) BY <1>1
<1> HIDE DEF new
<1>5. tab.at \notin tried /\ local[tab.at] = NoItem => DOMAIN tab.initial = {}
  BY <1>1 DEF LegacyInv, CardTrue, InHand
<1>6. /\ tab' \in Tabs
      /\ local' \in [Subtests -> OwnSheets \cup {NoItem}]
      /\ ServerType' /\ LocalSaved' /\ CardTrue' /\ NeverAhead' /\ CardStays
      /\ \A s \in Subtests :
           local'[s] = local[s] \/ (s = tab.at /\ local[s] = NoItem /\ DOMAIN tab.initial # {})
  <2>1. tab.at \notin tried /\ local[tab.at] = NoItem => Agrees(tab.initial, saved[tab.at])
    BY <1>5 DEF Agrees
  <2> QED BY <1>1, <1>3, <1>4, <2>1, MountsKeeps
<1>7. \A s \in Subtests \ tried' : local'[s] = local[s] BY <1>1, <1>5, <1>6
<1>8. ASSUME NEW x \in Slots
      PROVE  /\ task'[x] \in Tasks /\ TaskTrue(task[x])' /\ task'[x].kind = task[x].kind
             /\ ~Loads(task'[x])
  <2>1. PICK d : d = Orphaned(task[x]) OBVIOUS
  <2>2. d \in Tasks /\ d.kind = task[x].kind /\ ~Loads(d) /\ TaskTrue(d)'
    BY <1>1, <1>6, <1>7, <2>1, OrphanedTrue DEF server
  <2> QED BY <1>1, <2>1, <2>2
<1>9. task' \in [Slots -> Tasks] BY <1>1, <1>8
<1>10. OneEach' BY <1>8 DEF LegacyInv, OneEach, Loads
<1> QED BY <1>1, <1>6, <1>8, <1>9, <1>10 DEF LegacyInv, ClientType

(* What the card writes, it writes to the item of localStorage too. *)
LEMMA WriteKeeps ==
  ASSUME LegacyInv, Testing, NEW item \in OwnSheets, UNCHANGED <<server, tried>>,
         tab' \in Tabs, tab'.page = tab.page, tab'.shown = tab.shown, tab'.at = tab.at,
         tab'.offer = tab.offer, tab'.answers = item, Faces',
         local' = [local EXCEPT ![tab.at] = item],
         tab.at \notin tried => Agrees(item, saved[tab.at])
  PROVE  /\ local' \in [Subtests -> OwnSheets \cup {NoItem}]
         /\ ServerType' /\ LocalSaved' /\ CardTrue' /\ NeverAhead'
         /\ \A c \in Tasks :
              /\ TaskTrue(c)
              /\ c.kind = "sync" /\ c.at = tab.at /\ c.at \notin tried /\ c.net = "sent" =>
                   Pending(c.sheet, item)
              => TaskTrue(c)'
<1>1. tab.at \in Subtests /\ local \in [Subtests -> OwnSheets \cup {NoItem}]
  BY DEF LegacyInv, ClientType, Tabs
<1>2. /\ local' \in [Subtests -> OwnSheets \cup {NoItem}]
      /\ local'[tab.at] = item /\ item # NoItem
      /\ \A s \in Subtests \ {tab.at} : local'[s] = local[s]
  BY <1>1, OwnIsItem
<1>3. LocalSaved'
  <2> SUFFICES ASSUME NEW s \in Subtests, s \notin tried, local'[s] # NoItem
               PROVE  Agrees(local'[s], saved[s])
    BY DEF LocalSaved, Agrees, server
  <2>1. CASE s = tab.at BY <1>2, <2>1
  <2>2. CASE s # tab.at BY <1>2, <2>2 DEF LegacyInv, LocalSaved
  <2> QED BY <2>1, <2>2
<1>4. CardTrue'
  <2>1. InHand' BY <1>2 DEF InHand, Agrees, Apart, server
  <2> QED BY <2>1 DEF CardTrue
<1>5. NeverAhead' /\ ServerType' BY DEF LegacyInv, NeverAhead, ServerType, server
<1>6. ASSUME NEW c \in Tasks, TaskTrue(c),
             c.kind = "sync" /\ c.at = tab.at /\ c.at \notin tried /\ c.net = "sent" =>
               Pending(c.sheet, item)
      PROVE  TaskTrue(c)'
  <2>1. StepTrue(c) /\ OfTab(c) /\ SheetTrue(c) /\ c.at \in Subtests
    BY <1>6 DEF TaskTrue, Tasks
  <2>2. OfTab(c)' BY <2>1, TabStays
  <2>3. SheetTrue(c)'
    <3>1. CASE c.at # tab.at
      BY <1>2, <2>1, <3>1 DEF SheetTrue, Pending, Agrees, Backed, Whole, server
    <3>2. CASE c.at = tab.at
      BY <1>2, <1>6, <2>1, <3>2 DEF SheetTrue, Pending, Agrees, Backed, Whole, server
    <3> QED BY <3>1, <3>2
  <2> QED BY <2>1, <2>2, <2>3 DEF TaskTrue, StepTrue, Carries
<1> QED BY <1>2, <1>3, <1>4, <1>5, <1>6

LEMMA CardAgrees ==
  ASSUME LegacyInv, Testing, tab.at \notin tried
  PROVE  Agrees(tab.answers, saved[tab.at])
BY DEF LegacyInv, CardTrue, InHand, Agrees

(* What is passed on the card has. *)
LEMMA EmitsOwn ==
  ASSUME NEW card \in Tabs, NEW v, v \subseteq Named(card.soal)
  PROVE  LET new == Emits(card, v)
         IN  /\ new \in Tabs /\ new.page = card.page /\ new.shown = card.shown
             /\ new.at = card.at /\ new.offer = card.offer /\ new.soal = card.soal
             /\ new.ids = card.ids /\ new.emitted = v /\ new.reverted = card.reverted
             /\ SavedAnswer(new) = v
             /\ \A answers : Agrees(card.answers, answers) => Agrees(new.answers, answers)
             /\ \A sent : Pending(sent, card.answers) => Pending(sent, new.answers)
<1> DEFINE updated == Written(card.answers, card.soal, v)
<1>1. card.answers \in OwnSheets /\ card.soal \in Soal BY DEF Tabs
<1>2. /\ updated \in OwnSheets
      /\ card.soal \in DOMAIN updated /\ updated[card.soal].jawaban = v
      /\ \A answers : Agrees(card.answers, answers) => Agrees(updated, answers)
      /\ \A sent : Pending(sent, card.answers) => Pending(sent, updated)
  BY <1>1, WrittenOwn
<1>3. v \in Values BY <1>1, NamedValues
<1>4. PICK new : new = Emits(card, v) OBVIOUS
<1>5. new = [card EXCEPT !.emitted = v, !.answers = updated] BY <1>4 DEF Emits
<1> HIDE DEF updated
<1>6. /\ new \in Tabs /\ new.page = card.page /\ new.shown = card.shown
      /\ new.at = card.at /\ new.offer = card.offer /\ new.soal = card.soal
      /\ new.ids = card.ids /\ new.emitted = v /\ new.reverted = card.reverted
      /\ new.answers = updated
  BY <1>2, <1>3, <1>5 DEF Tabs
<1>7. SavedAnswer(new) = v BY <1>2, <1>6 DEF SavedAnswer
<1> QED BY <1>2, <1>4, <1>6, <1>7

LEMMA UpdateAnswerKeeps ==
  ASSUME LegacyInv, NEW v \in Changes(tab.soal, tab.ids), UpdateAnswer(v)
  PROVE  LegacyInv'
<1>1. Testing /\ UNCHANGED <<server, task, tried>> BY DEF UpdateAnswer
<1>2. tab \in Tabs /\ tab.soal \in Soal /\ Faces
  BY DEF LegacyInv, ClientType, Tabs, CardTrue
<1>3. v \subseteq Named(tab.soal) /\ v \in Values
  <2>1. tab.ids \subseteq Named(tab.soal) BY <1>2 DEF Faces
  <2>2. v \subseteq Named(tab.soal) BY <1>2, <2>1, ChangesOwn
  <2> QED BY <1>2, <2>2, NamedValues
<1> DEFINE card == [tab EXCEPT !.ids = v]
<1>4. /\ card \in Tabs /\ card.page = tab.page /\ card.shown = tab.shown
      /\ card.at = tab.at /\ card.offer = tab.offer /\ card.soal = tab.soal
      /\ card.ids = v /\ card.emitted = tab.emitted /\ card.reverted = tab.reverted
      /\ card.answers = tab.answers /\ card.initial = tab.initial
  BY <1>2, <1>3 DEF Tabs
<1> HIDE DEF card
<1>5. CASE tab' = Emits(card, v) /\ local' = [local EXCEPT ![tab.at] = tab'.answers]
  <2>1. /\ tab' \in Tabs /\ tab'.page = tab.page /\ tab'.shown = tab.shown
        /\ tab'.at = tab.at /\ tab'.offer = tab.offer /\ tab'.soal = tab.soal
        /\ tab'.ids = v /\ tab'.emitted = v /\ SavedAnswer(tab') = v
        /\ \A answers : Agrees(tab.answers, answers) => Agrees(tab'.answers, answers)
        /\ \A sent : Pending(sent, tab.answers) => Pending(sent, tab'.answers)
    <3>1. PICK new : new = Emits(card, v) OBVIOUS
    <3>2. v \subseteq Named(card.soal) BY <1>3, <1>4
    <3>3. /\ new \in Tabs /\ new.page = card.page /\ new.shown = card.shown
          /\ new.at = card.at /\ new.offer = card.offer /\ new.soal = card.soal
          /\ new.ids = card.ids /\ new.emitted = v /\ SavedAnswer(new) = v
          /\ \A answers : Agrees(card.answers, answers) => Agrees(new.answers, answers)
          /\ \A sent : Pending(sent, card.answers) => Pending(sent, new.answers)
      BY <1>4, <3>1, <3>2, EmitsOwn
    <3>4. tab' = new BY <1>5, <3>1
    <3> QED BY <1>4, <3>3, <3>4
  <2>2. PICK item \in OwnSheets : item = tab'.answers BY <2>1 DEF Tabs
  <2>3. Faces' BY <1>3, <2>1 DEF Faces, Shows
  <2>4. tab.at \notin tried => Agrees(item, saved[tab.at]) BY <1>1, <2>1, <2>2, CardAgrees
  <2>5. /\ local' \in [Subtests -> OwnSheets \cup {NoItem}]
        /\ ServerType' /\ LocalSaved' /\ CardTrue' /\ NeverAhead'
        /\ \A c \in Tasks :
             /\ TaskTrue(c)
             /\ c.kind = "sync" /\ c.at = tab.at /\ c.at \notin tried /\ c.net = "sent" =>
                  Pending(c.sheet, item)
             => TaskTrue(c)'
    BY <1>1, <1>5, <2>1, <2>2, <2>3, <2>4, WriteKeeps
  <2>6. ASSUME NEW x \in Slots PROVE TaskTrue(task[x])'
    <3>1. PICK c \in Tasks : c = task[x] /\ TaskTrue(c) BY DEF LegacyInv, ClientType
    <3>2. c.kind = "sync" /\ c.at = tab.at /\ c.at \notin tried /\ c.net = "sent" =>
            Pending(c.sheet, item)
      BY <1>1, <2>1, <2>2, <3>1 DEF TaskTrue, SheetTrue
    <3>3. TaskTrue(c)' BY <2>5, <3>1, <3>2
    <3> QED BY <1>1, <3>1, <3>3
  <2> QED BY <1>1, <2>1, <2>5, <2>6 DEF LegacyInv, ClientType, OneEach, Loads
<1>6. CASE HoldsBack(tab, v) /\ tab' = card /\ local' = local
  <2>1. /\ tab' \in Tabs /\ tab'.page = tab.page /\ tab'.shown = tab.shown
        /\ tab'.at = tab.at /\ tab'.offer = tab.offer /\ tab'.soal = tab.soal
        /\ tab'.ids = v /\ tab'.emitted = tab.emitted /\ tab'.reverted = tab.reverted
        /\ tab'.answers = tab.answers /\ tab'.initial = tab.initial
    BY <1>4, <1>6
  <2>2. SavedAnswer(tab') = SavedAnswer(tab) BY <2>1 DEF SavedAnswer
  <2>3. Shows(tab') BY <1>1, <1>2, <1>6, <2>1, <2>2 DEF Faces, Shows, HoldsBack
  <2>4. Faces' BY <1>2, <1>3, <2>1, <2>3 DEF Faces
  <2>5. Testing' <=> Testing BY <2>1 DEF Testing
  <2>6. CardTrue'
    <3>1. InHand'
      BY <1>1, <1>6, <2>1, <2>5 DEF LegacyInv, CardTrue, InHand, Agrees, Apart, server
    <3> QED BY <2>4, <3>1 DEF CardTrue
  <2>7. CardStays BY <2>1, <2>5 DEF CardStays
  <2>8. ASSUME NEW x \in Slots PROVE TaskTrue(task[x])'
    <3>1. PICK c \in Tasks : c = task[x] /\ TaskTrue(c) BY DEF LegacyInv, ClientType
    <3>2. OfTab(c)' BY <2>1, <3>1, TabStays DEF TaskTrue
    <3>3. SheetTrue(c)' BY <1>1, <1>6, <2>7, <3>1, SheetStays DEF TaskTrue, server
    <3>4. TaskTrue(c)' BY <3>1, <3>2, <3>3 DEF TaskTrue, StepTrue, Carries
    <3> QED BY <1>1, <3>1, <3>4
  <2>9. ServerType' /\ LocalSaved' /\ NeverAhead'
    BY <1>1, <1>6, <2>1 DEF LegacyInv, ServerType, LocalSaved, NeverAhead, server
  <2> QED BY <1>1, <1>6, <2>1, <2>6, <2>8, <2>9 DEF LegacyInv, ClientType, OneEach, Loads
<1> QED BY <1>5, <1>6 DEF UpdateAnswer, card

LEMMA SyncKeeps == ASSUME LegacyInv, NEW t \in Slots, Sync(t) PROVE LegacyInv'
<1>1. PICK item \in OwnSheets : item = local[tab.at]
  BY DEF Sync, LegacyInv, ClientType, Tabs
<1> DEFINE sent == [q \in Unsynced(item) |-> item[q]]
           b == [Call("sync", tab.at, "save") EXCEPT !.sheet = sent]
<1>2. /\ Testing /\ NoSync /\ local[tab.at] # NoItem
      /\ tab' = [tab EXCEPT !.syncing = TRUE]
      /\ task' = [task EXCEPT ![t] = b]
      /\ UNCHANGED <<server, local, tried>>
  BY <1>1 DEF Sync
<1>3. sent \in OwnSheets /\ Pending(sent, item) BY UnsyncedOwn
<1>8. tab.at \notin tried => Pending(sent, tab.answers)
  <2>1. tab.at \notin tried => Apart(item, tab.answers)
    BY <1>1, <1>2 DEF LegacyInv, CardTrue, InHand
  <2> QED BY <2>1 DEF Apart, Pending, Unsynced
<1>4. PICK d \in Tasks :
        /\ d = b /\ d.kind = "sync" /\ d.at = tab.at /\ d.step = "save" /\ d.net = "sent"
        /\ d.sheet = sent /\ d.left = NoEntries
  <2>1. tab.at \in Subtests BY DEF LegacyInv, ClientType, Tabs
  <2>2. "sync" \in Kinds /\ "save" \in Steps BY DEF Kinds, Steps
  <2>3. PICK f : f = Call("sync", tab.at, "save") OBVIOUS
  <2>4. /\ f \in Tasks /\ f.kind = "sync" /\ f.at = tab.at /\ f.step = "save"
        /\ f.net = "sent" /\ f.left = NoEntries
    BY <2>1, <2>2, <2>3, CallType
  <2>5. b = [f EXCEPT !.sheet = sent] BY <2>3
  <2> HIDE DEF sent
  <2> QED BY <1>3, <2>4, <2>5 DEF Tasks
<1> HIDE DEF sent, b
<1>5. TaskTrue(d)
  <2>1. StepTrue(d) BY <1>4 DEF StepTrue
  <2>2. OfTab(d) BY <1>2, <1>4 DEF OfTab, Loaded
  <2>3. SheetTrue(d) BY <1>1, <1>2, <1>3, <1>4, <1>8, NothingPending DEF SheetTrue
  <2> QED BY <2>1, <2>2, <2>3 DEF TaskTrue
<1>6. SamePage BY <1>2 DEF LegacyInv, ClientType, Tabs, SamePage
<1>7. ~Loads(d) BY <1>4 DEF Loads, Loaded
<1> QED BY <1>2, <1>4, <1>5, <1>6, <1>7, OneGoesOn

(* What a card that is gone writes to the item of localStorage is true as well:
   what its sync did not bring is not called synced. *)
LEMMA GoneWriteKeeps ==
  ASSUME LegacyInv, NEW t \in Slots, NEW c \in Tasks, c = task[t], TaskTrue(c),
         c.kind = "sync", c.net = "ok", Ends(t), UNCHANGED <<server, tab, tried>>,
         local' = [local EXCEPT ![c.at] = Spread(c.left, c.sheet)]
  PROVE  LegacyInv'
<1> DEFINE f == Spread(c.left, c.sheet)
<1>1. c.at \in Subtests /\ c.left \in OwnSheets /\ c.sheet \in OwnSheets BY DEF Tasks
<1>2. /\ f \in OwnSheets
      /\ DOMAIN f = DOMAIN c.left \cup DOMAIN c.sheet
      /\ \A q \in DOMAIN f : f[q] = IF q \in DOMAIN c.sheet THEN c.sheet[q] ELSE c.left[q]
  <2>1. PICK a, b : a = c.left /\ b = c.sheet OBVIOUS
  <2>2. a \in OwnSheets /\ b \in OwnSheets BY <1>1, <2>1
  <2> DEFINE s == Spread(a, b)
  <2>3. /\ s \in OwnSheets /\ DOMAIN s = DOMAIN a \cup DOMAIN b
        /\ \A q \in DOMAIN s : s[q] = IF q \in DOMAIN b THEN b[q] ELSE a[q]
    BY <2>2, SpreadOwn, Zenon
  <2>4. s = f BY <2>1
  <2> HIDE DEF s, f
  <2> QED BY <2>1, <2>3, <2>4
<1> HIDE DEF f
<1>3. f # NoItem BY <1>2, OwnIsItem
<1>4. local \in [Subtests -> OwnSheets \cup {NoItem}] BY DEF LegacyInv, ClientType
<1>5. /\ local' \in [Subtests -> OwnSheets \cup {NoItem}]
      /\ local'[c.at] = f
      /\ \A s \in Subtests \ {c.at} : local'[s] = local[s]
  BY <1>1, <1>2, <1>4 DEF f
<1>6. c.at \notin tried =>
        /\ local[c.at] # NoItem
        /\ Backed(c.left, saved[c.at])
        /\ Agrees(c.sheet, saved[c.at]) /\ Whole(c.sheet, saved[c.at])
  BY DEF TaskTrue, SheetTrue
<1>7. ASSUME c.at \notin tried
      PROVE  /\ Agrees(f, saved[c.at])
             /\ \A q \in DOMAIN f : saved[c.at][q] # {} => f[q].synced
  <2>1. DOMAIN f \subseteq Soal BY <1>2, SheetElim
  <2>2. \A q \in DOMAIN f : saved[c.at][q] # {} => q \in DOMAIN c.sheet /\ c.sheet[q].synced
    BY <1>6, <1>7, <2>1 DEF Whole
  <2>3. \A q \in DOMAIN c.left : c.left[q].synced => saved[c.at][q] # {}
    BY <1>6, <1>7 DEF Backed
  <2>4. \A q \in DOMAIN c.sheet : c.sheet[q].synced =>
          c.sheet[q].jawaban = saved[c.at][q] /\ saved[c.at][q] # {}
    BY <1>6, <1>7 DEF Agrees
  <2>5. ASSUME NEW q \in DOMAIN f, f[q].synced
        PROVE  f[q].jawaban = saved[c.at][q] /\ saved[c.at][q] # {}
    <3>1. CASE q \in DOMAIN c.sheet BY <1>2, <2>4, <2>5, <3>1
    <3>2. CASE q \notin DOMAIN c.sheet BY <1>2, <2>2, <2>3, <2>5, <3>2
    <3> QED BY <3>1, <3>2
  <2>6. Agrees(f, saved[c.at]) BY <2>5 DEF Agrees
  <2> QED BY <1>2, <2>2, <2>6
<1>8. LocalSaved'
  <2> SUFFICES ASSUME NEW s \in Subtests, s \notin tried, local'[s] # NoItem
               PROVE  Agrees(local'[s], saved[s])
    BY DEF LocalSaved, Agrees, server
  <2>1. CASE s = c.at BY <1>5, <1>7, <2>1
  <2>2. CASE s # c.at BY <1>5, <2>2 DEF LegacyInv, LocalSaved
  <2> QED BY <2>1, <2>2
<1>9. CardTrue'
  <2>1. Faces' BY DEF LegacyInv, CardTrue, Faces, Shows, SavedAnswer, Testing
  <2>2. InHand'
    <3> SUFFICES ASSUME Testing, tab.at \notin tried
                 PROVE  IF local'[tab.at] = NoItem
                          THEN DOMAIN tab.answers = {} /\ DOMAIN tab.initial = {}
                          ELSE /\ Agrees(tab.answers, saved[tab.at])
                               /\ Apart(local'[tab.at], tab.answers)
      BY DEF InHand, Testing, Agrees, Apart, server
    <3>1. Agrees(tab.answers, saved[tab.at]) BY CardAgrees
    <3>2. CASE tab.at = c.at
      <4>1. Apart(f, tab.answers) BY <1>7, <3>1, <3>2 DEF Apart, Agrees
      <4> QED BY <1>3, <1>5, <3>1, <3>2, <4>1
    <3>3. CASE tab.at # c.at
      <4>1. tab.at \in Subtests BY DEF LegacyInv, ClientType, Tabs
      <4> QED BY <1>5, <3>3, <4>1 DEF LegacyInv, CardTrue, InHand
    <3> QED BY <3>2, <3>3
  <2> QED BY <2>1, <2>2 DEF CardTrue
<1>10. ASSUME NEW x \in Slots \ {t}, NEW d \in Tasks, d = task[x], TaskTrue(d)
       PROVE  TaskTrue(d)'
  <2>1. d.kind # "sync" BY <1>10 DEF LegacyInv, OneEach
  <2>2. OfTab(d)' BY <1>10, TabStays DEF TaskTrue
  <2>3. d.at \in Subtests /\ SheetTrue(d) BY <1>10 DEF Tasks, TaskTrue
  <2>4. d.at \notin tried /\ local'[d.at] = NoItem => local[d.at] = NoItem
    BY <1>3, <1>5, <2>3
  <2>5. SheetTrue(d)' BY <2>1, <2>3, <2>4 DEF SheetTrue, Agrees, server
  <2> QED BY <1>10, <2>2, <2>5 DEF TaskTrue, StepTrue, Carries
<1>11. task' = [task EXCEPT ![t] = NoTask] BY DEF Ends
<1>12. ~Loads(NoTask) /\ NoTask \in Tasks /\ NoTask.kind # "sync" /\ TaskTrue(NoTask)'
  BY NoTaskTrue, NoTaskLater DEF Loads
<1>13. task' \in [Slots -> Tasks] /\ OneEach' /\ \A x \in Slots : TaskTrue(task[x])'
  BY <1>10, <1>11, <1>12, OneChanges
<1>14. ServerType' /\ NeverAhead' BY DEF LegacyInv, ServerType, NeverAhead, server
<1> QED BY <1>5, <1>8, <1>9, <1>13, <1>14 DEF LegacyInv, ClientType

(* A question follows its card. *)
LEMMA FollowsOwn ==
  ASSUME NEW card \in Tabs, card.soal = tab.soal, card.ids = tab.ids,
         card.emitted = tab.emitted, card.reverted = tab.reverted,
         tab.ids \subseteq Named(tab.soal), tab.emitted \subseteq Named(tab.soal),
         Shows(tab), NEW new \in Follows(card)
  PROVE  /\ new \in Tabs /\ new.page = card.page /\ new.shown = card.shown
         /\ new.at = card.at /\ new.offer = card.offer
         /\ new.ids \subseteq Named(new.soal) /\ new.emitted \subseteq Named(new.soal)
         /\ Shows(new)
         /\ \A answers : Agrees(card.answers, answers) => Agrees(new.answers, answers)
<1> DEFINE now == SavedAnswer(card)
           taken == [card EXCEPT !.ids = now, !.reverted = TRUE]
           kept == [taken EXCEPT !.ids = card.ids]
<1>1. card.soal \in Soal /\ card.answers \in OwnSheets BY DEF Tabs
<1>2. now \subseteq Named(card.soal) BY <1>1, SavedAnswerOwn
<1>3. now \in Values /\ card.ids \in Values BY <1>1, <1>2, NamedValues
<1>4. \/ now = SavedAnswer(tab) /\ new = card
      \/ /\ Variant(card.soal) # "true_false" \/ card.ids \in {card.emitted, now}
         /\ new = taken
      \/ /\ Variant(card.soal) = "true_false"
         /\ new \in {[taken EXCEPT !.emitted = card.ids], Emits(taken, card.ids),
                    Emits(kept, now)}
  BY Zenon DEF Follows
<1>5. now = SavedAnswer(card) OBVIOUS
<1> HIDE DEF now
<1>6. /\ taken \in Tabs /\ taken.page = card.page /\ taken.shown = card.shown
      /\ taken.at = card.at /\ taken.offer = card.offer /\ taken.soal = card.soal
      /\ taken.ids = now /\ taken.emitted = card.emitted /\ taken.reverted
      /\ taken.answers = card.answers
  BY <1>3 DEF Tabs
<1>7. /\ kept \in Tabs /\ kept.page = card.page /\ kept.shown = card.shown
      /\ kept.at = card.at /\ kept.offer = card.offer /\ kept.soal = card.soal
      /\ kept.ids = card.ids /\ kept.reverted
      /\ kept.answers = card.answers
  BY <1>3, <1>6 DEF Tabs
<1> HIDE DEF taken, kept
<1>8. SavedAnswer(taken) = now BY <1>5, <1>6 DEF SavedAnswer
<1>9. CASE now = SavedAnswer(tab) /\ new = card
  BY <1>5, <1>9 DEF Shows
<1>10. CASE new = taken
  BY <1>2, <1>6, <1>8, <1>10 DEF Shows
<1>11. CASE Variant(card.soal) = "true_false" /\ new = [taken EXCEPT !.emitted = card.ids]
  <2>1. /\ new \in Tabs /\ new.page = card.page /\ new.shown = card.shown
        /\ new.at = card.at /\ new.offer = card.offer /\ new.soal = card.soal
        /\ new.ids = now /\ new.emitted = card.ids /\ new.reverted
        /\ new.answers = card.answers
    BY <1>3, <1>6, <1>11 DEF Tabs
  <2> QED BY <1>2, <1>11, <2>1 DEF Shows
<1>12. CASE Variant(card.soal) = "true_false" /\ new = Emits(taken, card.ids)
  <2>1. card.ids \subseteq Named(taken.soal) BY <1>6
  <2>2. /\ new \in Tabs /\ new.page = taken.page /\ new.shown = taken.shown
        /\ new.at = taken.at /\ new.offer = taken.offer /\ new.soal = taken.soal
        /\ new.ids = taken.ids /\ new.emitted = card.ids /\ new.reverted = taken.reverted
        /\ \A answers : Agrees(taken.answers, answers) => Agrees(new.answers, answers)
    <3>1. PICK e, v : e = Emits(taken, v) /\ v = card.ids OBVIOUS
    <3>2. /\ e \in Tabs /\ e.page = taken.page /\ e.shown = taken.shown
          /\ e.at = taken.at /\ e.offer = taken.offer /\ e.soal = taken.soal
          /\ e.ids = taken.ids /\ e.emitted = v /\ e.reverted = taken.reverted
          /\ \A answers : Agrees(taken.answers, answers) => Agrees(e.answers, answers)
      <4>1. taken \in Tabs /\ v \subseteq Named(taken.soal) BY <1>6, <2>1, <3>1
      <4> QED BY <3>1, <4>1, EmitsOwn
    <3> QED BY <1>12, <3>1, <3>2
  <2> QED BY <1>2, <1>6, <1>12, <2>2 DEF Shows
<1>13. CASE Variant(card.soal) = "true_false" /\ new = Emits(kept, now)
  <2>1. now \subseteq Named(kept.soal) BY <1>2, <1>7
  <2>2. /\ new \in Tabs /\ new.page = kept.page /\ new.shown = kept.shown
        /\ new.at = kept.at /\ new.offer = kept.offer /\ new.soal = kept.soal
        /\ new.ids = kept.ids /\ new.emitted = now /\ new.reverted = kept.reverted
        /\ \A answers : Agrees(kept.answers, answers) => Agrees(new.answers, answers)
    BY <1>7, <1>13, <2>1, EmitsOwn
  <2> QED BY <1>2, <1>7, <1>13, <2>2 DEF Shows
<1> QED BY <1>4, <1>9, <1>10, <1>11, <1>12, <1>13

LEMMA SyncDoneKeeps == ASSUME LegacyInv, NEW t \in Slots, SyncDone(t) PROVE LegacyInv'
<1>1. PICK c \in Tasks : c = task[t] /\ TaskTrue(c) BY DEF LegacyInv, ClientType
<1>2. c.kind = "sync" /\ c.net # "sent" /\ Ends(t) /\ UNCHANGED <<server, tried>>
  BY <1>1 DEF SyncDone, Got
<1>3. tab \in Tabs BY DEF LegacyInv, ClientType
<1>4. CASE ~Mine(t) /\ UNCHANGED <<tab, local>>
  <2>1. tab' = tab /\ local' = local BY <1>4
  <2> QED BY <1>2, <2>1, SameTab, EndsKeeps
<1>5. CASE ~Mine(t) /\ c.net = "ok" /\ tab' = tab
           /\ local' = [local EXCEPT ![c.at] = Spread(c.left, c.sheet)]
  BY <1>1, <1>2, <1>5, GoneWriteKeeps
<1>6. CASE Mine(t) /\ c.net # "ok"
  <2>1. tab' = [tab EXCEPT !.syncing = FALSE] /\ local' = local BY <1>1, <1>6 DEF SyncDone
  <2>2. SamePage BY <1>3, <2>1 DEF Tabs, SamePage
  <2> QED BY <1>2, <2>1, <2>2, EndsKeeps
<1>7. CASE Mine(t) /\ c.net = "ok"
  <2> DEFINE merged == Spread(tab.answers, c.sheet)
             card == [tab EXCEPT !.syncing = FALSE, !.answers = merged]
  <2>1. /\ tab' \in Follows(card)
        /\ local' = [local EXCEPT ![tab.at] = tab'.answers]
    BY <1>1, <1>7 DEF SyncDone, Merged
  <2>2. Testing /\ tab.at = c.at BY <1>1, <1>2, <1>7 DEF Mine, TaskTrue, OfTab
  <2>3. tab.answers \in OwnSheets /\ c.sheet \in OwnSheets /\ tab.at \in Subtests
    BY <1>3 DEF Tabs, Tasks
  <2>4. merged \in OwnSheets
        /\ \A answers : Agrees(tab.answers, answers) /\ Agrees(c.sheet, answers) =>
             Agrees(merged, answers)
    BY <2>3, SpreadOwn
  <2>5. ASSUME tab.at \notin tried PROVE Agrees(merged, saved[tab.at])
    <3>1. Agrees(c.sheet, saved[tab.at])
      BY <1>1, <1>2, <2>2, <2>5 DEF TaskTrue, SheetTrue
    <3>2. Agrees(tab.answers, saved[tab.at]) BY <2>2, <2>5, CardAgrees
    <3> QED BY <2>4, <3>1, <3>2
  <2> HIDE DEF merged
  <2>6. /\ card \in Tabs /\ card.page = tab.page /\ card.shown = tab.shown
        /\ card.at = tab.at /\ card.offer = tab.offer /\ card.soal = tab.soal
        /\ card.ids = tab.ids /\ card.emitted = tab.emitted /\ card.reverted = tab.reverted
        /\ card.answers = merged
    BY <1>3, <2>4 DEF Tabs
  <2> HIDE DEF card
  <2>7. /\ tab' \in Tabs /\ tab'.page = tab.page /\ tab'.shown = tab.shown
        /\ tab'.at = tab.at /\ tab'.offer = tab.offer
        /\ tab'.ids \subseteq Named(tab'.soal) /\ tab'.emitted \subseteq Named(tab'.soal)
        /\ Shows(tab')
        /\ \A answers : Agrees(merged, answers) => Agrees(tab'.answers, answers)
    <3>1. Faces BY DEF LegacyInv, CardTrue
    <3>2. PICK new : new = tab' /\ new \in Follows(card) BY <2>1
    <3>3. /\ tab.ids \subseteq Named(tab.soal) /\ tab.emitted \subseteq Named(tab.soal)
          /\ Shows(tab)
      BY <2>2, <3>1 DEF Faces
    <3>4. /\ new \in Tabs /\ new.page = card.page /\ new.shown = card.shown
          /\ new.at = card.at /\ new.offer = card.offer
          /\ new.ids \subseteq Named(new.soal) /\ new.emitted \subseteq Named(new.soal)
          /\ Shows(new)
          /\ \A answers : Agrees(card.answers, answers) => Agrees(new.answers, answers)
      BY <2>6, <3>2, <3>3, FollowsOwn
    <3> QED BY <2>6, <3>2, <3>4
  <2>8. PICK item \in OwnSheets : item = tab'.answers BY <2>7 DEF Tabs
  <2>9. Faces' BY <2>7 DEF Faces
  <2>10. tab.at \notin tried => Agrees(item, saved[tab.at]) BY <2>5, <2>7, <2>8
  <2>11. /\ local' \in [Subtests -> OwnSheets \cup {NoItem}]
         /\ ServerType' /\ LocalSaved' /\ CardTrue' /\ NeverAhead'
         /\ \A d \in Tasks :
              /\ TaskTrue(d)
              /\ d.kind = "sync" /\ d.at = tab.at /\ d.at \notin tried /\ d.net = "sent" =>
                   Pending(d.sheet, item)
              => TaskTrue(d)'
    BY <1>2, <2>1, <2>2, <2>7, <2>8, <2>9, <2>10, WriteKeeps
  <2>12. ASSUME NEW x \in Slots \ {t}, NEW d \in Tasks, d = task[x], TaskTrue(d)
         PROVE  TaskTrue(d)'
    <3>1. d.kind # "sync" BY <1>1, <1>2, <2>12 DEF LegacyInv, OneEach
    <3> QED BY <2>11, <2>12, <3>1
  <2>13. task' = [task EXCEPT ![t] = NoTask] BY <1>2 DEF Ends
  <2>14. ~Loads(NoTask) /\ NoTask \in Tasks /\ NoTask.kind # "sync" /\ TaskTrue(NoTask)'
    BY NoTaskTrue, NoTaskLater DEF Loads
  <2>15. task' \in [Slots -> Tasks] /\ OneEach' /\ \A x \in Slots : TaskTrue(task[x])'
    BY <2>12, <2>13, <2>14, OneChanges
  <2> QED BY <1>2, <2>7, <2>11, <2>15 DEF LegacyInv, ClientType
<1>8. \/ ~Mine(t) /\ UNCHANGED <<tab, local>>
      \/ /\ ~Mine(t) /\ c.net = "ok" /\ tab' = tab
         /\ local' = [local EXCEPT ![c.at] = Spread(c.left, c.sheet)]
      \/ Mine(t)
  BY <1>1 DEF SyncDone
<1> QED BY <1>4, <1>5, <1>6, <1>7, <1>8

LEMMA ShownLook ==
  ASSUME LegacyInv
  PROVE  Shown \in Looks
<1>1. tab \in Tabs /\ Faces BY DEF LegacyInv, ClientType, CardTrue
<1>2. tab.answers \in OwnSheets /\ tab.soal \in Soal /\ tab.ids \in Values
  BY <1>1 DEF Tabs
<1> DEFINE Q == (DOMAIN tab.answers \cup {tab.soal}) \ Doubtful
<1>3. Q \in SUBSET Soal BY <1>2, SheetElim
<1>4. \A q \in Q \ {tab.soal} : tab.answers[q].jawaban \in Values
  BY <1>2, SheetElim, NamedValues
<1>5. Shown \in [Q -> Values] BY <1>2, <1>4 DEF Shown
<1> HIDE DEF Q
<1>6. [Q -> Values] \in {[R -> Values] : R \in SUBSET Soal} BY <1>3
<1> QED BY <1>5, <1>6 DEF Looks

(* What is shown the card has. *)
LEMMA ShownCarried ==
  ASSUME LegacyInv, Testing
  PROVE  \A q \in DOMAIN Shown :
           Shown[q] # {} => q \in DOMAIN tab.answers /\ tab.answers[q].jawaban = Shown[q]
<1> SUFFICES ASSUME NEW q \in DOMAIN Shown, Shown[q] # {}
             PROVE  q \in DOMAIN tab.answers /\ tab.answers[q].jawaban = Shown[q]
  OBVIOUS
<1>1. /\ q \in DOMAIN tab.answers \cup {tab.soal} /\ q \notin Doubtful
      /\ Shown[q] = IF q = tab.soal THEN tab.ids ELSE tab.answers[q].jawaban
  BY DEF Shown
<1>2. CASE q = tab.soal
  <2>1. Shows(tab) BY DEF LegacyInv, CardTrue, Faces
  <2>2. tab.ids \in {{}, SavedAnswer(tab)} BY <1>1, <1>2, <2>1 DEF Shows, Doubtful
  <2>3. SavedAnswer(tab) = tab.ids /\ tab.ids # {} BY <1>1, <1>2, <2>2
  <2> QED BY <1>1, <1>2, <2>3 DEF SavedAnswer
<1>3. CASE q # tab.soal BY <1>1, <1>3
<1> QED BY <1>2, <1>3

LEMMA SubmitAllAnswersKeeps ==
  ASSUME LegacyInv, NEW t \in Slots, SubmitAllAnswers(t) PROVE LegacyInv'
<1> DEFINE b == [Call("submit", tab.at, "submit") EXCEPT !.sheet = tab.answers,
                                                         !.shown = Shown]
<1>1. /\ tab' = [tab EXCEPT !.submitting = TRUE, !.syncing = TRUE]
      /\ task' = [task EXCEPT ![t] = b]
      /\ tried' = tried \cup {tab.at}
      /\ UNCHANGED <<server, local>>
  BY DEF SubmitAllAnswers, ToSubmit
<1>2. tab \in Tabs /\ tab.at \in Subtests /\ tab.answers \in OwnSheets /\ tried \subseteq Subtests
  BY DEF LegacyInv, ClientType, Tabs
<1>3. PICK d \in Tasks :
        /\ d = b /\ d.kind = "submit" /\ d.at = tab.at /\ d.step = "submit" /\ d.net = "sent"
        /\ d.sheet = tab.answers /\ d.shown = Shown
  <2>1. "submit" \in Kinds /\ "submit" \in Steps BY DEF Kinds, Steps
  <2>2. PICK f : f = Call("submit", tab.at, "submit") OBVIOUS
  <2>3. /\ f \in Tasks /\ f.kind = "submit" /\ f.at = tab.at /\ f.step = "submit"
        /\ f.net = "sent"
    BY <1>2, <2>1, <2>2, CallType
  <2>4. b = [f EXCEPT !.sheet = tab.answers, !.shown = Shown] BY <2>2
  <2>5. PICK look \in Looks : look = Shown BY ShownLook
  <2>6. b = [f EXCEPT !.sheet = tab.answers, !.shown = look] BY <2>4, <2>5
  <2> QED BY <1>2, <2>3, <2>5, <2>6 DEF Tasks
<1> HIDE DEF b
<1>4. TaskTrue(d)'
  <2>1. Carries(d)
    <3>1. Testing BY DEF SubmitAllAnswers
    <3> QED BY <1>3, <3>1, ShownCarried DEF Carries
  <2>4. StepTrue(d)' BY <1>3, <2>1 DEF StepTrue, Carries
  <2>2. OfTab(d)' BY <1>3 DEF OfTab, Loaded
  <2>3. SheetTrue(d)' BY <1>1, <1>3 DEF SheetTrue
  <2> QED BY <2>2, <2>3, <2>4 DEF TaskTrue
<1>5. tab' \in Tabs /\ tab'.page = tab.page /\ tab'.shown = tab.shown /\ tab'.at = tab.at
      /\ tab'.offer = tab.offer /\ tab'.answers = tab.answers /\ tab'.initial = tab.initial
      /\ tab'.soal = tab.soal /\ tab'.ids = tab.ids /\ tab'.emitted = tab.emitted
      /\ tab'.reverted = tab.reverted
  BY <1>1, <1>2 DEF Tabs
<1>6. ASSUME NEW x \in Slots \ {t}, NEW e \in Tasks, e = task[x], TaskTrue(e)
      PROVE  TaskTrue(e)'
  <2>1. OfTab(e)' BY <1>5, <1>6, TabStays DEF TaskTrue
  <2>2. CardStays BY <1>5 DEF CardStays, Testing
  <2>3. SheetTrue(e)' BY <1>1, <1>6, <2>2, SheetStays DEF TaskTrue, server
  <2> QED BY <1>6, <2>1, <2>3 DEF TaskTrue, StepTrue, Carries
<1>7. task' \in [Slots -> Tasks] /\ OneEach' /\ \A x \in Slots : TaskTrue(task[x])'
  <2>1. task' = [task EXCEPT ![t] = d] /\ d.kind # "sync" /\ ~Loads(d)
    BY <1>1, <1>3 DEF Loads, Loaded
  <2> QED BY <1>4, <1>6, <2>1, OneChanges
<1>8. LocalSaved' /\ NeverAhead'
  BY <1>1, <1>5 DEF LegacyInv, LocalSaved, NeverAhead, server
<1>9. CardTrue'
  <2>1. Testing' <=> Testing BY <1>5 DEF Testing
  <2>2. Faces' BY <1>5, <2>1 DEF LegacyInv, CardTrue, Faces, Shows, SavedAnswer
  <2>3. InHand'
    BY <1>1, <1>5, <2>1 DEF LegacyInv, CardTrue, InHand, Agrees, Apart, server
  <2> QED BY <2>2, <2>3 DEF CardTrue
<1> QED BY <1>1, <1>2, <1>5, <1>7, <1>8, <1>9 DEF LegacyInv, ServerType, ClientType, server

LEMMA SubmitReturnsKeeps ==
  ASSUME LegacyInv, NEW t \in Slots, SubmitReturns(t) PROVE LegacyInv'
<1>1. PICK c \in Tasks : c = task[t] /\ TaskTrue(c) BY DEF LegacyInv, ClientType
<1>2. /\ c.kind = "submit" /\ Ends(t) /\ UNCHANGED <<server, tried>>
      /\ local' = [local EXCEPT ![c.at] = NoItem]
  BY <1>1 DEF SubmitReturns, Got
<1>3. c.at \in tried /\ c.at \in Subtests BY <1>1, <1>2 DEF TaskTrue, SheetTrue, Tasks
<1>4. tab \in Tabs /\ local \in [Subtests -> OwnSheets \cup {NoItem}]
  BY DEF LegacyInv, ClientType
<1>5. local' \in [Subtests -> OwnSheets \cup {NoItem}]
      /\ \A s \in Subtests \ tried' : local'[s] = local[s]
  BY <1>2, <1>3, <1>4
<1>6. tab' \in Tabs /\ tab'.page = tab.page /\ tab'.shown = tab.shown /\ tab'.at = tab.at
      /\ tab'.offer = tab.offer /\ tab'.answers = tab.answers /\ tab'.initial = tab.initial
      /\ tab'.soal = tab.soal /\ tab'.ids = tab.ids /\ tab'.emitted = tab.emitted
      /\ tab'.reverted = tab.reverted
  <2>1. CASE Mine(t)
    <3>1. PICK done \in BOOLEAN :
            tab' = [tab EXCEPT !.submitting = FALSE, !.syncing = FALSE, !.leaving = TRUE,
                               !.hasSubmitted = done]
      <4>1. (tab.hasSubmitted \/ task[t].net = "ok") \in BOOLEAN OBVIOUS
      <4> QED BY <2>1, <4>1, Zenon DEF SubmitReturns
    <3> QED BY <1>4, <3>1 DEF Tabs
  <2>2. CASE ~Mine(t)
    <3>1. tab' = [tab EXCEPT !.leaving = TRUE] BY <2>2 DEF SubmitReturns
    <3> QED BY <1>4, <3>1 DEF Tabs
  <2> QED BY <2>1, <2>2
<1>7. LocalSaved' /\ NeverAhead'
  BY <1>2, <1>5, <1>6 DEF LegacyInv, LocalSaved, NeverAhead, server
<1>8. CardTrue'
  <2>1. tab.at \in Subtests BY <1>4 DEF Tabs
  <2>2. Testing' <=> Testing BY <1>6 DEF Testing
  <2>3. Faces' BY <1>6, <2>2 DEF LegacyInv, CardTrue, Faces, Shows, SavedAnswer
  <2>4. InHand'
    BY <1>2, <1>5, <1>6, <2>1, <2>2 DEF LegacyInv, CardTrue, InHand, Agrees, Apart, server
  <2> QED BY <2>3, <2>4 DEF CardTrue
<1>9. ASSUME NEW x \in Slots \ {t}, NEW d \in Tasks, d = task[x], TaskTrue(d)
      PROVE  TaskTrue(d)'
  <2>1. OfTab(d)' BY <1>6, <1>9, TabStays DEF TaskTrue
  <2>2. CardStays BY <1>6 DEF CardStays, Testing
  <2>3. SheetTrue(d)' BY <1>2, <1>5, <1>9, <2>2, SheetStays DEF TaskTrue, server
  <2> QED BY <1>9, <2>1, <2>3 DEF TaskTrue, StepTrue, Carries
<1>10. task' = [task EXCEPT ![t] = NoTask] BY <1>2 DEF Ends
<1>11. ~Loads(NoTask) /\ NoTask \in Tasks /\ NoTask.kind # "sync" /\ TaskTrue(NoTask)'
  BY NoTaskTrue, NoTaskLater DEF Loads
<1>12. task' \in [Slots -> Tasks] /\ OneEach' /\ \A x \in Slots : TaskTrue(task[x])'
  BY <1>9, <1>10, <1>11, OneChanges
<1> QED BY <1>2, <1>5, <1>6, <1>7, <1>8, <1>12 DEF LegacyInv, ServerType, ClientType, server

(***************************************************************************)
(* The invariant of the specification.                                     *)
(***************************************************************************)
LEMMA InitHolds == Init => LegacyInv
<1> SUFFICES ASSUME Init PROVE LegacyInv OBVIOUS
<1>1. PICK now \in {"new", "running"}, v \in Values :
        /\ phase = [s \in Subtests |-> IF s < active THEN "over"
                                       ELSE IF s = active THEN now ELSE "new"]
        /\ saved = [s \in Subtests |-> [q \in Soal |->
                      IF s = active /\ now = "running" /\ v \subseteq Items(q) THEN v ELSE {}]]
  BY DEF Init
<1>2. ServerType
  <2>1. \A q \in Soal : Items(q) \subseteq Named(q)
    <3> SUFFICES ASSUME NEW q \in Soal PROVE Items(q) \subseteq Named(q) OBVIOUS
    <3>1. Type(q) \in {"multiple_true_false", "short_answer", "multiple_choice"} BY DEF Type
    <3>2. CASE Type(q) = "multiple_true_false" BY <3>2 DEF Items, Named
    <3>3. CASE Type(q) = "short_answer" BY <3>3 DEF Items, Named
    <3>4. CASE Type(q) = "multiple_choice" BY <3>4 DEF Items, Named
    <3> QED BY <3>1, <3>2, <3>3, <3>4
  <2> DEFINE had(s, q) ==
               IF s = active /\ now = "running" /\ v \subseteq Items(q) THEN v ELSE {}
  <2>2. ASSUME NEW s \in Subtests, NEW q \in Soal
        PROVE  had(s, q) \subseteq Named(q) /\ had(s, q) \in Values
    <3>1. had(s, q) \subseteq Named(q) BY <2>1
    <3> HIDE DEF had
    <3> QED BY <3>1, NamedValues
  <2>3. saved = [s \in Subtests |-> [q \in Soal |-> had(s, q)]] BY <1>1
  <2> HIDE DEF had
  <2>4. saved \in [Subtests -> [Soal -> Values]] BY <2>2, <2>3
  <2>5. \A s \in Subtests, q \in Soal : saved[s][q] \subseteq Named(q) BY <2>2, <2>3
  <2>6. phase \in [Subtests -> {"new", "running", "grace", "over"}] BY <1>1
  <2>7. active \in 0 .. NumSubtests + 1 BY DEF Init
  <2> QED BY <2>4, <2>5, <2>6, <2>7 DEF ServerType
<1>3. /\ tab \in Tabs /\ tab.page = "dashboard" /\ (tab.offer > 1 => tab.offer <= active)
      /\ tab.ids = {} /\ tab.emitted = {}
  <2>1. tab \in Draws("dashboard") /\ "dashboard" \in Pages BY DEF Init, Pages
  <2> QED BY <1>2, <2>1, DrawsType
<1>4. local = [s \in Subtests |-> NoItem] /\ task = [t \in Slots |-> NoTask] /\ tried = {}
  BY DEF Init
<1>5. \A t \in Slots : task[t] = NoTask BY <1>4
<1>6. ClientType BY <1>3, <1>4, NoTaskTrue DEF ClientType
<1>7. \A t \in Slots : TaskTrue(task[t]) BY <1>5, NoTaskTrue
<1>8. OneEach BY <1>5, NoTaskTrue DEF OneEach, Loads
<1>9. LocalSaved /\ CardTrue /\ NeverAhead
  BY <1>3, <1>4 DEF LocalSaved, CardTrue, Faces, InHand, Testing, NeverAhead
<1> QED BY <1>2, <1>6, <1>7, <1>8, <1>9 DEF LegacyInv

LEMMA StutterKeeps == ASSUME LegacyInv, UNCHANGED vars PROVE LegacyInv'
<1>1. UNCHANGED <<server, local, tab, task, tried>> BY DEF vars
<1>2. SamePage BY <1>1, SameTab
<1>3. /\ ServerType' /\ LocalSaved' /\ CardTrue' /\ NeverAhead'
      /\ \A c \in Tasks : TaskTrue(c) => TaskTrue(c)'
  BY <1>1, <1>2, SamePageKeeps
<1>4. ASSUME NEW x \in Slots PROVE TaskTrue(task[x])'
  <2>1. PICK c \in Tasks : c = task[x] /\ TaskTrue(c) BY DEF LegacyInv, ClientType
  <2>2. TaskTrue(c)' BY <1>3, <2>1
  <2> QED BY <1>1, <2>1, <2>2
<1> QED BY <1>1, <1>3, <1>4 DEF LegacyInv, ClientType, OneEach, Loads

LEMMA ReturnsKeeps == ASSUME LegacyInv, NEW t \in Slots, Returns(t) PROVE LegacyInv'
BY SlugCurrentKeeps, SlugAttemptKeeps, BegunKeeps, IntroStepKeeps, LayoutStepKeeps,
   LayoutDoneKeeps, SyncDoneKeeps, SubmitReturnsKeeps DEF Returns

LEMMA ParticipantKeeps == ASSUME LegacyInv, NEW t \in Slots, Participant(t) PROVE LegacyInv'
<1>1. ASSUME NEW s \in Subtests, Visit("slug", s, t) PROVE LegacyInv'
  <2>1. "slug" \in Pages BY DEF Pages
  <2> QED BY <1>1, <2>1, VisitKeeps
<1>2. ASSUME NEW page \in {"intro", "test"}, Visit(page, 1, t) PROVE LegacyInv'
  <2>1. page \in Pages BY DEF Pages
  <2> QED BY <1>2, <2>1, FirstSubtest, VisitKeeps
<1>3. CASE FollowOffer(t) BY <1>3, FollowOfferKeeps
<1>4. CASE Begin(t) BY <1>4, BeginKeeps
<1>5. CASE Submit(t)
  <2>1. SubmitAllAnswers(t) BY <1>5 DEF Submit
  <2> QED BY <2>1, SubmitAllAnswersKeeps
<1> QED BY <1>1, <1>2, <1>3, <1>4, <1>5 DEF Participant

LEMMA NextKeeps == LegacyInv /\ [Next]_vars => LegacyInv'
<1> SUFFICES ASSUME LegacyInv, [Next]_vars PROVE LegacyInv' OBVIOUS
<1>1. ASSUME NEW t \in Slots, Answered(t) \/ Fails(t) \/ Returns(t) PROVE LegacyInv'
  BY <1>1, AnsweredKeeps, FailsKeeps, ReturnsKeeps
<1>2. ASSUME NEW t \in Slots, Participant(t) \/ Sync(t) \/ AutoSubmit(t) PROVE LegacyInv'
  <2>1. AutoSubmit(t) => SubmitAllAnswers(t) BY DEF AutoSubmit
  <2> QED BY <1>2, <2>1, ParticipantKeeps, SyncKeeps, SubmitAllAnswersKeeps
<1>3. ASSUME NEW q \in Soal, Move(q) \/ Pick(q) PROVE LegacyInv'
  <2>1. Turns(q) BY <1>3 DEF Move, Pick
  <2> QED BY <2>1, TurnsKeeps
<1>4. ASSUME NEW v \in Changes(tab.soal, tab.ids), UpdateAnswer(v) PROVE LegacyInv'
  BY <1>4, UpdateAnswerKeeps
<1>5. CASE GraceBegins \/ Left BY <1>5, GraceBeginsKeeps, LeftKeeps
<1>6. ASSUME NEW s \in Subtests, TimePasses(s) PROVE LegacyInv' BY <1>6, TimePassesKeeps
<1>7. CASE UNCHANGED vars BY <1>7, StutterKeeps
<1> QED BY <1>1, <1>2, <1>3, <1>4, <1>5, <1>6, <1>7 DEF Next

(* In every state the card, the item of localStorage and the calls agree with
   the server on what is synced, and there is one sync and one load at a time. *)
THEOREM LegacyInvariant == Spec => []LegacyInv
<1> QED BY InitHolds, NextKeeps, PTL DEF Spec

(* Every state of the pages and of their calls is one the code can be in. *)
THEOREM LegacyTypes == Spec => []TypeOK
<1>1. LegacyInv => TypeOK
  <2> SUFFICES ASSUME LegacyInv PROVE TypeOK OBVIOUS
  <2>1. OwnSheets \subseteq Sheets BY DEF OwnSheets
  <2>2. tab \in Tabs /\ task \in [Slots -> Tasks] /\ tried \subseteq Subtests
        /\ local \in [Subtests -> OwnSheets \cup {NoItem}]
    BY DEF LegacyInv, ClientType
  <2>3. local \in [Subtests -> Sheets \cup {NoItem}] BY <2>1, <2>2
  <2>4. /\ tab.page \in Pages /\ tab.at \in Subtests /\ tab.soal \in Soal
        /\ tab.answers \in Sheets /\ tab.initial \in Sheets
        /\ tab.offer \in 0 .. NumSubtests
        /\ tab.ids \in Values /\ tab.emitted \in Values
    BY <2>1, <2>2 DEF Tabs
  <2>5. ASSUME NEW t \in Slots
        PROVE  /\ task[t].kind \in Kinds /\ task[t].step \in Steps /\ task[t].net \in Nets
               /\ task[t].at \in Subtests /\ task[t].sheet \in Sheets
               /\ task[t].left \in Sheets
    BY <2>1, <2>2 DEF Tasks
  <2> QED BY <2>2, <2>3, <2>4, <2>5 DEF TypeOK, LegacyInv, ServerType
<1> QED BY <1>1, LegacyInvariant, PTL

(* An answer marked as synced is the one the server has, until a submit: edits
   during a sync, cards mounted anew and lost answers do not make it untrue. *)
THEOREM SyncedAreSaved == Spec => []SyncedIsSaved
<1>1. LegacyInv => SyncedIsSaved
  <2> SUFFICES ASSUME LegacyInv, Testing, tab.at \notin tried
               PROVE  Agrees(tab.answers, saved[tab.at])
    BY DEF SyncedIsSaved, Agrees
  <2> QED BY CardAgrees
<1> QED BY <1>1, LegacyInvariant, PTL

(* The start button of the dashboard, however old, leads to no subtest before
   its turn. *)
THEOREM OffersNeverAhead == Spec => []NeverAhead
<1>1. LegacyInv => NeverAhead BY DEF LegacyInv
<1> QED BY <1>1, LegacyInvariant, PTL

(***************************************************************************)
(* What is handed in.                                                      *)
(***************************************************************************)

(* Only the server's answers move the attempt on. *)
LEMMA OnlyAnswersMove ==
  ASSUME [Next]_vars
  PROVE  active' = active \/ \E t \in Slots : Answered(t)
<1>1. ASSUME NEW t \in Slots, Fails(t) \/ Returns(t) PROVE active' = active
  BY <1>1 DEF Fails, Returns, SlugCurrent, SlugAttempt, Begun, IntroStep, LayoutStep,
       LayoutDone, SyncDone, SubmitReturns, server
<1>2. ASSUME NEW t \in Slots, Participant(t) \/ Sync(t) \/ AutoSubmit(t)
      PROVE  active' = active
  BY <1>2 DEF Participant, Visit, FollowOffer, Begin, Submit, Sync, AutoSubmit,
       SubmitAllAnswers, server
<1>3. ASSUME NEW q \in Soal, Move(q) \/ Pick(q) PROVE active' = active
  BY <1>3 DEF Move, Pick, Turns, server
<1>4. ASSUME NEW v, UpdateAnswer(v) PROVE active' = active
  BY <1>4 DEF UpdateAnswer, server
<1>5. CASE GraceBegins \/ Left BY <1>5 DEF GraceBegins, Left, server
<1>6. ASSUME NEW s \in Subtests, TimePasses(s) PROVE active' = active
  BY <1>6 DEF TimePasses
<1>7. CASE UNCHANGED vars BY <1>7 DEF vars, server
<1> QED BY <1>1, <1>2, <1>3, <1>4, <1>5, <1>6, <1>7 DEF Next

LEMMA CommitHandsIn ==
  ASSUME LegacyInv, [Next]_vars, NEW t \in Slots, Commits(t),
         NEW q \in DOMAIN task[t].shown, task[t].shown[q] # {}
  PROVE  saved'[task[t].at][q] = task[t].shown[q]
<1>1. PICK c \in Tasks : c = task[t] /\ TaskTrue(c) BY DEF LegacyInv, ClientType
<1>2. /\ c.kind = "submit" /\ c.net = "sent" /\ task'[t].net # "sent"
      /\ Reconciled = c.at /\ active' = c.at + 1
  BY <1>1 DEF Commits
<1>3. /\ c.step = "submit" /\ c.sheet \in OwnSheets /\ c.at \in Subtests
      /\ q \in DOMAIN c.sheet /\ c.sheet[q].jawaban = c.shown[q]
  BY <1>1, <1>2 DEF TaskTrue, StepTrue, Carries, Tasks
<1>4. active' # active
  <2>1. Reconciled \in 0 .. NumSubtests + 1 /\ active <= Reconciled
    BY ReconciledType DEF LegacyInv
  <2>2. active \in 0 .. NumSubtests + 1 BY DEF LegacyInv, ServerType
  <2> QED BY <1>2, <2>1, <2>2, LegacyAssumption
<1>5. PICK x \in Slots : Answered(x) BY <1>4, OnlyAnswersMove
<1>6. x = t
  <2>1. PICK f : task' = [task EXCEPT ![x] = f] BY <1>5 DEF Answered
  <2>2. task \in [Slots -> Tasks] BY DEF LegacyInv, ClientType
  <2> QED BY <1>1, <1>2, <2>1, <2>2
<1>7. Serve(c) BY <1>1, <1>5, <1>6 DEF Answered
<1>8. saved' = [saved EXCEPT ![c.at] = Upsert(@, c.sheet)] BY <1>2, <1>3, <1>7 DEF Serve
<1>9. saved \in [Subtests -> [Soal -> Values]]
      /\ \A y \in Soal : saved[c.at][y] \subseteq Named(y)
  BY <1>3 DEF LegacyInv, ServerType
<1>10. saved'[c.at] = Upsert(saved[c.at], c.sheet) BY <1>3, <1>8, <1>9
<1>11. Upsert(saved[c.at], c.sheet)[q] = c.sheet[q].jawaban
  <2>1. saved[c.at] \in [Soal -> Values] BY <1>3, <1>9
  <2> QED BY <1>1, <1>3, <1>9, <2>1, UpsertOwn
<1> QED BY <1>1, <1>3, <1>10, <1>11

(* A submit that closes a subtest leaves the server with what was shown, though
   a sync, another card or another page is under way, but for a rated question
   that a sync has changed on the screen. *)
THEOREM SubmitHandsInShown == Spec => HandsInShown
<1>1. LegacyInv /\ [Next]_vars =>
        [\A t \in Slots : Commits(t) =>
           \A q \in DOMAIN task[t].shown :
             LET v == task[t].shown[q]
             IN  v # {} => saved'[task[t].at][q] = v]_vars
  BY CommitHandsIn
<1> QED BY <1>1, LegacyInvariant, PTL DEF Spec, HandsInShown
=============================================================================
