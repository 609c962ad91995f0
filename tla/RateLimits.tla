------------------------------ MODULE RateLimits ------------------------------
(***************************************************************************)
(* Rate limits of the server: ave-server/src/lib/rate-limit.ts.            *)
(*                                                                         *)
(* A request is checked against several rules at once.  Each rule has a    *)
(* bucket in a Durable Object and, for when that does not answer, one in   *)
(* the memory of the worker; a rule that fails closed does without.  A     *)
(* check of an object may count although its answer is lost, and a bucket  *)
(* in memory is read, awaited and written.                                 *)
(*                                                                         *)
(* Abstracted: all rules have one quota and one window, one worker, and    *)
(* the key of a rule is its name.  A tick is a fraction of a second.  A    *)
(* rule that fails closed tells the client to wait thirty seconds.         *)
(***************************************************************************)
EXTENDS Naturals, FiniteSets

CONSTANTS
  Requests,  \* calls of enforceRateLimits
  Rules,     \* rules, each with a bucket
  Traffic,   \* sets of <<request, rule>>: the rules each request may bring
  FailClosed,  \* those with failClosed
  Quota,     \* limit
  Window,    \* windowMs, in ticks
  Second,    \* ticks of a second
  Horizon    \* bound: ticks that pass

VARIABLES
  now,
  brought,  \* the traffic there is; other checks are never made
  bound,    \* the worker has the RATE_LIMITER binding
  bucket,   \* the bucket of each rule in its object; reset 0 before the first
  memory,   \* memoryFallback
  check,    \* where each check is
  next,     \* the bucket it is to write, or was answered with
  from,     \* where its answer comes from
  time,     \* when it was counted
  wait,     \* seconds it was told to wait
  reply,    \* the answer to each request
  crossed   \* history: rules of which two checks met in memory

checkVars == <<check, next, from, time, wait>>
vars == <<now, brought, bound, bucket, memory, checkVars, reply, crossed>>

RuleChecks == Requests \X Rules
ChecksOf(q) == {c \in brought : c[1] = q}
Buckets == [count : 0..Cardinality(Requests), reset : 0..(Horizon + Window)]
Nothing == [count |-> 0, reset |-> 0]
Settled == {"allowed", "refused", "unavailable"}

TypeOK ==
  /\ now \in 0..Horizon /\ brought \in Traffic /\ bound \in BOOLEAN
  /\ bucket \in [Rules -> Buckets] /\ memory \in [Rules -> Buckets]
  /\ check \in [RuleChecks -> {"idle", "asked", "counted", "storing"} \cup Settled]
  /\ next \in [RuleChecks -> Buckets]
  /\ from \in [RuleChecks -> {"nowhere", "object", "memory"}]
  /\ time \in [RuleChecks -> 0..Horizon]
  /\ wait \in [RuleChecks -> 0..(Window + 1)]
  /\ reply \in [Requests -> {"none", "checked", "admitted", "limited", "unavailable", "native"}]
  /\ crossed \subseteq Rules

Init ==
  /\ now = 1 /\ brought \in Traffic /\ bound \in BOOLEAN
  /\ bucket = [r \in Rules |-> Nothing] /\ memory = [r \in Rules |-> Nothing]
  /\ check = [c \in RuleChecks |-> "idle"] /\ next = [c \in RuleChecks |-> Nothing]
  /\ from = [c \in RuleChecks |-> "nowhere"]
  /\ time = [c \in RuleChecks |-> 0] /\ wait = [c \in RuleChecks |-> 0]
  /\ reply = [q \in Requests |-> "none"]
  /\ crossed = {}

-----------------------------------------------------------------------------
(* updateBucket.                                                           *)

\* The bucket as it counts now: a window that has passed begins anew.
Active(b) == IF b.reset > now THEN b ELSE [count |-> 0, reset |-> now + Window]

Counted(b) == [Active(b) EXCEPT !.count = @ + 1]

RetryAfterBug(b, t) ==  \* rounds down
  LET seconds == (b.reset - t) \div Second
  IN  IF seconds < 1 THEN 1 ELSE seconds

\* Math.max(1, Math.ceil(...)).
RetryAfter(b, t) ==
  LET seconds == (b.reset - t + Second - 1) \div Second
  IN  IF seconds < 1 THEN 1 ELSE seconds

Verdict(b) == IF b.count <= Quota THEN "allowed" ELSE "refused"

\* The checks C read the bucket in memory, or give up: the end of checkRule.
FallBack(C) ==
  /\ check' = [c \in RuleChecks |-> IF c \notin C THEN check[c]
                                ELSE IF c[2] \in FailClosed THEN "unavailable" ELSE "storing"]
  /\ next' = [c \in RuleChecks |-> IF c \notin C THEN next[c]
                               ELSE IF c[2] \in FailClosed THEN Nothing ELSE Counted(memory[c[2]])]
  /\ from' = [c \in RuleChecks |-> IF c \in C THEN "nowhere" ELSE from[c]]
  /\ time' = [c \in RuleChecks |-> IF c \notin C THEN time[c]
                               ELSE IF c[2] \in FailClosed THEN 0 ELSE now]
  /\ UNCHANGED wait

-----------------------------------------------------------------------------
\* enforceRateLimits asks for all its rules before it waits for any.
Enforce(q) ==
  LET C == ChecksOf(q)
  IN  /\ reply[q] = "none"
      /\ reply' = [reply EXCEPT ![q] = "checked"]
      /\ IF bound
         THEN /\ check' = [c \in RuleChecks |-> IF c \in C THEN "asked" ELSE check[c]]
              /\ UNCHANGED <<next, from, time, wait>>
         ELSE FallBack(C)
      /\ UNCHANGED <<now, brought, bound, bucket, memory, crossed>>

\* RateLimitDurableObject.fetch: one transaction.
Serve(c) ==
  LET b == Counted(bucket[c[2]])
  IN  /\ check[c] = "asked"
      /\ bucket' = [bucket EXCEPT ![c[2]] = b]
      /\ check' = [check EXCEPT ![c] = "counted"]
      /\ next' = [next EXCEPT ![c] = b]
      /\ time' = [time EXCEPT ![c] = now]
      /\ UNCHANGED <<now, brought, bound, memory, from, wait, reply, crossed>>

\* Its answer arrives, with the time to wait as it was when it was counted.
Hear(c) ==
  /\ check[c] = "counted"
  /\ wait' = [wait EXCEPT ![c] = IF Verdict(next[c]) = "refused"
                                 THEN RetryAfter(next[c], time[c]) ELSE 0]
  /\ check' = [check EXCEPT ![c] = Verdict(next[c])]
  /\ from' = [from EXCEPT ![c] = "object"]
  /\ next' = [next EXCEPT ![c] = Nothing]
  /\ UNCHANGED <<now, brought, bound, bucket, memory, time, reply, crossed>>

\* The fetch fails, before or after the object has counted.
Miss(c) ==
  /\ check[c] \in {"asked", "counted"}
  /\ FallBack({c})
  /\ UNCHANGED <<now, brought, bound, bucket, memory, reply, crossed>>

\* The continuation after await updateBucket(...).
Store(c) ==
  /\ check[c] = "storing"
  /\ memory' = [memory EXCEPT ![c[2]] = next[c]]
  /\ check' = [check EXCEPT ![c] = Verdict(next[c])]
  /\ wait' = [wait EXCEPT ![c] = IF Verdict(next[c]) = "refused"
                                 THEN RetryAfter(next[c], time[c]) ELSE 0]
  /\ from' = [from EXCEPT ![c] = "memory"]
  /\ next' = [next EXCEPT ![c] = Nothing]
  /\ crossed' = IF \E d \in RuleChecks \ {c} : d[2] = c[2] /\ check[d] = "storing"
                THEN crossed \cup {c[2]} ELSE crossed
  /\ UNCHANGED <<now, brought, bound, bucket, time, reply>>

\* The results in the order of the rules, whichever that is.
Answer(q) ==
  /\ reply[q] = "checked"
  /\ \A c \in ChecksOf(q) : check[c] \in Settled
  /\ \/ /\ \A c \in ChecksOf(q) : check[c] = "allowed"
        /\ reply' = [reply EXCEPT ![q] = "admitted"]
     \/ \E c \in ChecksOf(q) :
          /\ check[c] # "allowed"
          /\ reply' = [reply EXCEPT ![q] = IF check[c] = "refused"
                                           THEN "limited" ELSE "unavailable"]
  /\ UNCHANGED <<now, brought, bound, bucket, memory, checkVars, crossed>>

\* enforceNativeRateLimits: the platform's limiter decides; when it is missing
\* or fails, the request goes the way of Enforce.
Native(q) ==
  /\ reply[q] = "none"
  /\ \E decision \in {"native", "limited"} : reply' = [reply EXCEPT ![q] = decision]
  /\ UNCHANGED <<now, brought, bound, bucket, memory, checkVars, crossed>>

\* No time passes between a read of the memory and its continuation.
Tick ==
  /\ now < Horizon /\ \A c \in RuleChecks : check[c] # "storing"
  /\ now' = now + 1
  /\ UNCHANGED <<brought, bound, bucket, memory, checkVars, reply, crossed>>

Next ==
  \/ Tick
  \/ \E q \in Requests : Enforce(q) \/ Answer(q) \/ Native(q)
  \/ \E c \in brought : Serve(c) \/ Hear(c) \/ Miss(c) \/ Store(c)

Spec == Init /\ [][Next]_vars

-----------------------------------------------------------------------------
(* Properties.                                                             *)

\* RuleChecks of rule r that were allowed in the ticks t to t + Window - 1.
AllowedIn(r, t, source) ==
  {c \in RuleChecks : c[2] = r /\ check[c] = "allowed" /\ from[c] = source
                  /\ time[c] \in t..(t + Window - 1)}

\* What a quota is worth: windows are fixed, so any span as long as one has at
\* most two quotas from the object, and as many from memory while no two checks
\* met there.
SpansHold ==
  \A r \in Rules : \A t \in 0..Horizon :
    /\ Cardinality(AllowedIn(r, t, "object")) <= 2 * Quota
    /\ r \notin crossed => Cardinality(AllowedIn(r, t, "memory")) <= 2 * Quota

\* A request with a rule that fails closed gets in only when the object of that
\* rule has counted and allowed it, whatever answers were lost.
ClosedHolds ==
  \A q \in Requests : reply[q] = "admitted" =>
    \A c \in ChecksOf(q) : c[2] \in FailClosed => check[c] = "allowed" /\ from[c] = "object"

\* A client that waits as long as it was told is not refused on account of the
\* window that refused it: the bucket has begun anew since.
RetryHelps ==
  \A c \in RuleChecks :
    /\ check[c] = "refused" /\ from[c] = "object"
    /\ now >= time[c] + wait[c] * Second
    /\ bucket[c[2]].reset > now
    => bucket[c[2]].reset - Window > time[c]

LimitsHold == SpansHold /\ ClosedHolds /\ RetryHelps
=============================================================================
