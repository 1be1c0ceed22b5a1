-------------------------------- MODULE Exam --------------------------------
(***************************************************************************)
(* What a tryout promises a participant, whatever requests the browser     *)
(* sends and however the server interleaves them.                          *)
(*                                                                         *)
(* An attempt goes through the subtests in order.  The clock of a subtest  *)
(* starts once, when the subtest is first touched, and gives the subtest   *)
(* its whole duration plus what the previous subtest had left.  Answers go *)
(* to the subtest the attempt is in, never after its deadline.  A subtest  *)
(* that is left is never entered or written again.                         *)
(*                                                                         *)
(* TryoutAttempt is the service that has to keep this promise.             *)
(***************************************************************************)
EXTENDS Integers

CONSTANTS
  Attempts,         \* the attempts there can be
  NumSubtests,      \* subtests 1 .. NumSubtests, in the order they are sat
  SubtestDuration,  \* SubtestDuration[s]: the time a subtest lasts
  Sheets,           \* the possible answer sheets of a subtest
  EmptySheet        \* the sheet nobody has written on

Subtests == 1 .. NumSubtests
NotBegun == 0
Over == NumSubtests + 1

VARIABLES
  clock,      \* the time
  stage,      \* stage[a]: NotBegun, the subtest a is in, or Over
  deadline,   \* deadline[a][s]: when subtest s of a ends, 0 before it starts
  sheet       \* sheet[a][s]: the answers of a in subtest s

vars == <<clock, stage, deadline, sheet>>

Init ==
  /\ clock \in Nat \ {0}
  /\ stage = [a \in Attempts |-> NotBegun]
  /\ deadline = [a \in Attempts |-> [s \in Subtests |-> 0]]
  /\ sheet = [a \in Attempts |-> [s \in Subtests |-> EmptySheet]]

TimePasses ==
  /\ clock' > clock
  /\ UNCHANGED <<stage, deadline, sheet>>

BeginAttempt(a) ==
  /\ stage[a] = NotBegun
  /\ stage' = [stage EXCEPT ![a] = 1]
  /\ UNCHANGED <<clock, deadline, sheet>>

(* The deadline of subtest s of a: fixed once set; when it is first set, the
   time the previous subtest had left is carried over. *)
DeadlineOf(a, s) ==
  IF deadline[a][s] # 0 THEN deadline[a][s]
  ELSE SubtestDuration[s] +
         IF s > 1 /\ deadline[a][s - 1] > clock THEN deadline[a][s - 1] ELSE clock

SetDeadline(a, s) ==
  deadline' = [deadline EXCEPT ![a][s] = DeadlineOf(a, s)]

(* The participant answers in time, and may leave the subtest or the exam. *)
Answer(a, s) ==
  /\ stage[a] = s
  /\ clock <= DeadlineOf(a, s)
  /\ SetDeadline(a, s)
  /\ \E new \in Sheets : sheet' = [sheet EXCEPT ![a][s] = new]
  /\ \E next \in {s, s + 1, Over} : stage' = [stage EXCEPT ![a] = next]
  /\ UNCHANGED clock

(* The time of a subtest is up: it is left, with the answers it had. *)
Expire(a, s) ==
  /\ stage[a] = s
  /\ clock > DeadlineOf(a, s)
  /\ stage' = [stage EXCEPT ![a] = s + 1]
  /\ UNCHANGED <<clock, deadline, sheet>>

Next ==
  \/ TimePasses
  \/ \E a \in Attempts : BeginAttempt(a)
  \/ \E a \in Attempts, s \in Subtests : Answer(a, s) \/ Expire(a, s)

Spec == Init /\ [][Next]_vars
=============================================================================
