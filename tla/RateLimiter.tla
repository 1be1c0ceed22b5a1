---------------------------- MODULE RateLimiter -----------------------------
(***************************************************************************)
(* RedisRateLimiter of api-gateway (redis_rate_limiter.go): the requests   *)
(* of one client and the key in Redis that counts them.                    *)
(*                                                                         *)
(* A request sends GET and then, by what it has read, SET with a time to   *)
(* live, INCR, or neither.  Between its commands other requests go on and  *)
(* the key may expire.  The limiters of the gateway have keys of their own *)
(* and do not interact.  The EXPIRE the code sends when it has read 0 is   *)
(* left out: no key ever holds 0.                                          *)
(***************************************************************************)
EXTENDS Integers, FiniteSets

CONSTANTS
  Requests,    \* the request slots: how many requests run at once
  Limit,       \* config.Max
  Expiration,  \* config.Expiration
  MaxTime,     \* bound of the clock
  MaxCount     \* bound of what repeated commands count

ASSUME RequestsAssumption == IsFiniteSet(Requests) /\ Requests # {}
ASSUME LimitAssumption == Limit \in Nat \ {0}
ASSUME ExpirationAssumption == Expiration \in Nat \ {0}
ASSUME MaxTimeAssumption == MaxTime \in Nat /\ MaxCount \in Nat

NoKey == 0     \* count: the key is not there
Never == 0     \* expires: the key has no time to live

VARIABLES
  now,      \* the clock of Redis
  count,    \* the value of the key, or NoKey
  expires,  \* when the key goes away, or Never
  pc,       \* pc[r]: the command r sends next
  answer,   \* answer[r]: how the last request in slot r was answered
  passed    \* how many requests got through since the count began

key == <<count, expires>>
vars == <<now, key, pc, answer, passed>>

TypeOK ==
  /\ now \in Nat
  /\ count \in Nat
  /\ expires \in Nat
  /\ pc \in [Requests -> {"get", "set", "incr"}]
  /\ answer \in [Requests -> {"none", "next", "refused", "error"}]
  /\ passed \in Nat

Init ==
  /\ now = 0
  /\ count = NoKey
  /\ expires = Never
  /\ pc = [r \in Requests |-> "get"]
  /\ answer = [r \in Requests |-> "none"]
  /\ passed = 0

Answer(r, a) ==
  /\ pc' = [pc EXCEPT ![r] = "get"]
  /\ answer' = [answer EXCEPT ![r] = a]

(* Faulty: one request more than the limit. *)
AtLimitTooLate == count > Limit

AtLimit == count >= Limit

Send(r, command) ==
  /\ pc' = [pc EXCEPT ![r] = command]
  /\ answer' = [answer EXCEPT ![r] = "none"]

Get(r) ==
  /\ pc[r] = "get"
  /\ \/ count = NoKey /\ Send(r, "set")
     \/ count # NoKey /\ ~AtLimit /\ Send(r, "incr")
     \/ count # NoKey /\ AtLimit /\ Answer(r, "refused")
  /\ UNCHANGED <<now, key, passed>>

(* Whatever the key holds by now, SET replaces it: the count begins again. *)
SetKey ==
  /\ count' = 1
  /\ expires' = now + Expiration
  /\ UNCHANGED now

Set(r) ==
  /\ pc[r] = "set"
  /\ SetKey
  /\ passed' = 1
  /\ Answer(r, "next")

(* Faulty: the limit is counted down, from nothing when the key is not there. *)
DecrKey ==
  /\ count' = count - 1
  /\ UNCHANGED <<now, expires>>

(* INCR keeps the time to live; a key that is not there it makes, without. *)
IncrKey ==
  /\ count' = count + 1
  /\ UNCHANGED <<now, expires>>

Incr(r) ==
  /\ pc[r] = "incr"
  /\ IncrKey
  /\ passed' = passed + 1
  /\ Answer(r, "next")

(* The command is carried out but its reply is lost: the Redis client sends
   the command again, or the request ends with status 500. *)
ReplyLost(r) ==
  /\ \/ pc[r] = "set" /\ SetKey /\ passed' = 0
     \/ pc[r] = "incr" /\ count < MaxCount /\ IncrKey /\ UNCHANGED passed
  /\ \/ UNCHANGED <<pc, answer>>
     \/ Answer(r, "error")

(* Redis is not reached: the request ends with status 500. *)
CommandFails(r) ==
  /\ Answer(r, "error")
  /\ UNCHANGED <<now, key, passed>>

Tick ==
  /\ now < MaxTime
  /\ now' = now + 1
  /\ IF expires = now'
       THEN count' = NoKey /\ expires' = Never /\ passed' = 0
       ELSE UNCHANGED <<key, passed>>
  /\ UNCHANGED <<pc, answer>>

Next ==
  \/ Tick
  \/ \E r \in Requests : Get(r) \/ Set(r) \/ Incr(r) \/ ReplyLost(r) \/ CommandFails(r)

Spec == Init /\ [][Next]_vars

(***************************************************************************)
(* Properties.                                                             *)
(***************************************************************************)

(* Requests that read the count before others wrote it get through beyond the
   limit, but fewer of them than run at once, however the commands interleave,
   are repeated or fail: the one that reaches the limit is not among them. *)
Overshoot == passed <= Limit + Cardinality(Requests) - 1

(* What a refused client is told (retry_after, "try again later"): a key at
   the limit is gone after Expiration. *)
RetryAfter == AtLimit => expires # Never /\ expires <= now + Expiration
=============================================================================
