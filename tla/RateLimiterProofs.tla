------------------------- MODULE RateLimiterProofs --------------------------
(***************************************************************************)
(* Proofs about RateLimiter, for any limit and any number of concurrent    *)
(* requests.                                                               *)
(***************************************************************************)
EXTENDS RateLimiter, FiniteSetTheorems, TLAPS

(* The requests that were let through when they read the count, and have not
   counted themselves yet. *)
Racing == {r \in Requests : pc[r] = "incr"}

(* Overshoot is not inductive: the count may have reached the limit with
   requests still racing.  The one that got it there races no more, or has
   counted itself without getting through. *)
RaceInv ==
  /\ TypeOK
  /\ passed <= count
  /\ count >= Limit => passed + Cardinality(Racing) <= Limit + Cardinality(Requests) - 1

(* There are no more racing requests than requests, and one fewer if some
   request does not race. *)
RacingFew ==
  /\ IsFiniteSet(Racing) /\ Cardinality(Racing) \in Nat
  /\ Cardinality(Requests) \in Nat /\ Cardinality(Racing) <= Cardinality(Requests)
  /\ \A r \in Requests \ Racing : Cardinality(Racing) <= Cardinality(Requests) - 1

LEMMA RacingSize == RacingFew
<1>1. Racing \subseteq Requests BY DEF Racing
<1>2. IsFiniteSet(Requests) BY RequestsAssumption
<1>3. IsFiniteSet(Racing) /\ Cardinality(Racing) <= Cardinality(Requests)
  BY <1>1, <1>2, FS_Subset
<1>4. Cardinality(Racing) \in Nat /\ Cardinality(Requests) \in Nat
  BY <1>2, <1>3, FS_CardinalityType
<1>5. ASSUME NEW r \in Requests \ Racing
      PROVE  Cardinality(Racing) <= Cardinality(Requests) - 1
  <2>1. Racing # Requests BY <1>5
  <2>2. Cardinality(Racing) # Cardinality(Requests) BY <1>1, <1>2, <2>1, FS_Subset
  <2> QED BY <1>3, <1>4, <2>2
<1> QED BY <1>3, <1>4, <1>5 DEF RacingFew

(* Answering takes a request out of the race, if it was in. *)
LEMMA AnswerEndsRace ==
  ASSUME TypeOK, NEW r \in Requests, NEW a, Answer(r, a)
  PROVE  Racing' = Racing \ {r}
BY DEF TypeOK, Answer, Racing

LEMMA NextType == TypeOK /\ [Next]_vars => TypeOK'
<1> SUFFICES ASSUME TypeOK, [Next]_vars PROVE TypeOK' OBVIOUS
<1> USE DEF TypeOK, key, Answer, SetKey, IncrKey, NoKey, Never
<1>1. CASE Tick BY <1>1 DEF Tick
<1>2. ASSUME NEW r \in Requests, Get(r) PROVE TypeOK' BY <1>2 DEF Get, Send
<1>3. ASSUME NEW r \in Requests, Set(r) PROVE TypeOK' BY <1>3, ExpirationAssumption DEF Set
<1>4. ASSUME NEW r \in Requests, Incr(r) PROVE TypeOK' BY <1>4 DEF Incr
<1>5. ASSUME NEW r \in Requests, ReplyLost(r) PROVE TypeOK'
  BY <1>5, ExpirationAssumption DEF ReplyLost
<1>6. ASSUME NEW r \in Requests, CommandFails(r) PROVE TypeOK' BY <1>6 DEF CommandFails
<1>7. CASE UNCHANGED vars BY <1>7 DEF vars
<1> QED BY <1>1, <1>2, <1>3, <1>4, <1>5, <1>6, <1>7 DEF Next

(* The race, step by step: a request joins it below the limit only, and
   leaves it when it gets through. *)
LEMMA NextRace == RaceInv /\ [Next]_vars => RaceInv'
<1> SUFFICES ASSUME RaceInv, [Next]_vars PROVE RaceInv' OBVIOUS
<1>0. TypeOK /\ TypeOK' BY NextType DEF RaceInv
<1> DEFINE N == Cardinality(Requests)
           I == Cardinality(Racing)
           Bound == count >= Limit => passed + I <= Limit + N - 1
<1>1. /\ passed <= count /\ Bound /\ I \in Nat /\ N \in Nat /\ I' \in Nat /\ I' <= N
      /\ Limit \in Nat /\ Limit >= 1 /\ count \in Nat /\ passed \in Nat
      /\ \A r \in Requests \ Racing' : I' <= N - 1
  <2>1. RacingFew /\ RacingFew' BY RacingSize, PTL
  <2> QED BY <1>0, <2>1, LimitAssumption DEF RaceInv, TypeOK, RacingFew
<1>2. SUFFICES passed' <= count' /\ Bound' BY <1>0 DEF RaceInv
<1>3. CASE UNCHANGED vars
  BY <1>1, <1>3 DEF vars, key, Racing
<1>4. CASE Tick
  <2>1. Racing' = Racing BY <1>4 DEF Tick, Racing
  <2> QED BY <1>1, <1>4, <2>1, LimitAssumption DEF Tick, key, NoKey
<1>5. ASSUME NEW r \in Requests, Get(r) PROVE passed' <= count' /\ Bound'
  <2>1. count' = count /\ passed' = passed BY <1>5 DEF Get, key
  <2>2. CASE ~AtLimit \/ count = NoKey
    BY <1>1, <2>1, <2>2 DEF AtLimit, NoKey
  <2>3. CASE Answer(r, "refused")
    <3>1. Racing' = Racing BY <1>0, <1>5, <2>3 DEF Answer, Racing, TypeOK, Get
    <3> QED BY <1>1, <2>1, <3>1
  <2> QED BY <1>5, <2>2, <2>3 DEF Get
<1>6. ASSUME NEW r \in Requests, Set(r) PROVE passed' <= count' /\ Bound'
  <2>1. r \notin Racing' BY <1>0, <1>6, AnswerEndsRace DEF Set
  <2> QED BY <1>1, <1>6, <2>1 DEF Set, SetKey
<1>7. ASSUME NEW r \in Requests, Racing' = Racing \ {r}, r \in Racing
      PROVE  I' = I - 1
  BY <1>7, RacingSize, FS_RemoveElement DEF RacingFew
<1>8. ASSUME NEW r \in Requests, Incr(r) PROVE passed' <= count' /\ Bound'
  <2>1. r \in Racing BY <1>8 DEF Incr, Racing
  <2>2. I' = I - 1 BY <1>0, <1>7, <1>8, <2>1, AnswerEndsRace DEF Incr
  <2>3. passed' = passed + 1 /\ count' = count + 1 BY <1>8 DEF Incr, IncrKey
  <2>4. I <= N BY RacingSize DEF RacingFew
  <2> QED BY <1>1, <2>2, <2>3, <2>4
<1>9. ASSUME NEW r \in Requests, ReplyLost(r) PROVE passed' <= count' /\ Bound'
  <2>1. Racing' \in {Racing, Racing \ {r}}
    BY <1>0, <1>9, AnswerEndsRace DEF ReplyLost, Racing
  <2>2. I' <= I
    <3>1. IsFiniteSet(Racing) BY RacingSize DEF RacingFew
    <3> QED BY <1>1, <2>1, <3>1, FS_Subset
  <2>3. CASE pc[r] = "set" /\ SetKey /\ passed' = 0
    <3>1. r \notin Racing BY <2>3 DEF Racing
    <3>2. r \notin Racing' BY <2>1, <3>1
    <3> QED BY <1>1, <2>3, <3>2 DEF SetKey
  <2>4. CASE pc[r] = "incr" /\ IncrKey /\ UNCHANGED passed
    BY <1>1, <2>2, <2>4 DEF IncrKey
  <2> QED BY <1>9, <2>3, <2>4 DEF ReplyLost
<1>10. ASSUME NEW r \in Requests, CommandFails(r) PROVE passed' <= count' /\ Bound'
  <2>1. Racing' = Racing \ {r} BY <1>0, <1>10, AnswerEndsRace DEF CommandFails
  <2>2. I' <= I
    <3>1. IsFiniteSet(Racing) BY RacingSize DEF RacingFew
    <3> QED BY <2>1, <3>1, FS_Subset
  <2> QED BY <1>1, <1>10, <2>2 DEF CommandFails, key
<1> QED BY <1>3, <1>4, <1>5, <1>6, <1>8, <1>9, <1>10 DEF Next

(* Counts and times stay numbers, and a request is always at one of its
   commands, whatever the store or the connection does to it. *)
THEOREM LimiterTypeCorrect == Spec => []TypeOK
<1>1. Init => TypeOK BY DEF Init, TypeOK, key, NoKey, Never
<1> QED BY <1>1, NextType, PTL DEF Spec

(* No more requests get through on one count than the limit and, beyond it,
   one fewer than run at once. *)
THEOREM OvershootBounded == Spec => []Overshoot
<1>1. Init => RaceInv
  <2> SUFFICES ASSUME Init PROVE RaceInv OBVIOUS
  <2>1. TypeOK BY DEF Init, TypeOK, NoKey, Never
  <2> QED BY <2>1, LimitAssumption DEF Init, RaceInv, NoKey
<1>2. RaceInv => Overshoot
  <2> SUFFICES ASSUME RaceInv PROVE Overshoot OBVIOUS
  <2>1. /\ Cardinality(Racing) \in Nat /\ Cardinality(Requests) \in Nat
        /\ passed \in Nat /\ count \in Nat /\ Limit \in Nat
    BY RacingSize, LimitAssumption DEF RaceInv, TypeOK, RacingFew
  <2>2. Cardinality(Requests) >= 1
    <3>1. PICK r : r \in Requests BY RequestsAssumption
    <3>2. Cardinality(Requests) # 0 BY <3>1, RequestsAssumption, FS_EmptySet
    <3> QED BY <2>1, <3>2
  <2> QED BY <2>1, <2>2 DEF RaceInv, Overshoot
<1> QED BY <1>1, <1>2, NextRace, PTL DEF Spec
=============================================================================
