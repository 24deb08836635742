----------------------------- MODULE RateLimit ------------------------------
(***************************************************************************)
(* The sliding window that limits sign-ups, sign-ins and exports           *)
(* (portal/app/ratelimit.py), for one client and one route.                *)
(*                                                                         *)
(* A handler reads the clock before it takes the lock, so the hits enter   *)
(* the queue in the order of the lock and not of their stamps; only the    *)
(* front of the queue is ever looked at for expiry.                        *)
(***************************************************************************)
EXTENDS Handlers, Sequences

CONSTANTS
  Limit,       \* limit
  Window,      \* window_s
  MaxClock     \* bound on time

VARIABLES
  clock,       \* time.monotonic()
  hits,        \* the queue of stamps
  admitted     \* the stamps let in, in the order of the lock (a history)

ASSUME RateLimitAssumption == Limit \in Nat /\ Window \in Nat /\ MaxClock \in Nat

rateVars == <<clock, hits, admitted>>

Tock == clock < MaxClock /\ clock' = clock + 1 /\ UNCHANGED <<hits, admitted, handlerVars>>

\* rate_limited, allow: the clock is read ...
ReadClock(t) == Start(t, [pc |-> "lock", stamp |-> clock]) /\ UNCHANGED rateVars

\* A variant for mutation: the window is taken as milliseconds.
ExpiredMs(hit, stamp) == hit <= stamp - 1000 * Window

Expired(hit, stamp) == hit <= stamp - Window

\* the front of the queue goes as long as it has expired
Purged(stamp) ==
  LET kept == {i \in DOMAIN hits : \E j \in 1 .. i : ~Expired(hits[j], stamp)}
  IN SubSeq(hits, Len(hits) - Cardinality(kept) + 1, Len(hits))

\* A variant for mutation: one more than the limit gets in.
FullByOne(q) == Len(q) > Limit

IsFull(q) == Len(q) >= Limit

\* ... then everything else happens under the lock
Allow(t) ==
  LET stamp == jobs[t].stamp
      q == Purged(stamp)
  IN /\ At(t, "lock")
     /\ IF IsFull(q)
        THEN /\ hits' = q /\ Goto(t, "refused")
             /\ UNCHANGED admitted
        ELSE /\ hits' = Append(q, stamp) /\ Finish(t)
             /\ admitted' = Append(admitted, stamp)
     /\ UNCHANGED clock

\* 429
Refuse(t) == At(t, "refused") /\ Finish(t) /\ UNCHANGED rateVars

RateInit == clock = 0 /\ hits = << >> /\ admitted = << >>

RateNext == Tock \/ \E t \in Threads : ReadClock(t) \/ Allow(t) \/ Refuse(t)

RateSpec == HandlersInit /\ RateInit /\ [][RateNext]_<<rateVars, handlerVars>>

-----------------------------------------------------------------------------
LetIn(from, to) ==
  Cardinality({i \in DOMAIN admitted : from <= admitted[i] /\ admitted[i] <= to})

(***************************************************************************)
(* In any span of the window's length no more than the limit get in, and   *)
(* one more for each other handler that had read an earlier clock when a   *)
(* later one cleared the queue (allow).                                    *)
(***************************************************************************)
WindowKept ==
  \A n \in 0 .. MaxClock :
    LetIn(n - Window + 1, n) <= Limit + Cardinality(Threads) - 1

(***************************************************************************)
(* Nobody is refused for hits that are over, except for those that hide in *)
(* the queue behind a later one: one for each other handler (allow).       *)
(***************************************************************************)
RefusedWhenFull ==
  \A t \in {t \in Threads : At(t, "refused")} :
    LetIn(jobs[t].stamp - Window + 1, MaxClock) >= Limit - (Cardinality(Threads) - 1)
=============================================================================
