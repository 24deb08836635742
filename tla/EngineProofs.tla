---------------------------- MODULE EngineProofs ----------------------------
(***************************************************************************)
(* Proofs about what the portal lets through to the engine and what        *)
(* becomes of it there: calls of a client (TbSession), the rate limiter    *)
(* (RateLimit) and alert rules with their chain (Alerts), a specification  *)
(* each.                                                                   *)
(***************************************************************************)
EXTENDS TbSession, RateLimit, Alerts, FiniteSetTheorems, SequenceTheorems,
        WellFoundedInduction, TLAPS

-----------------------------------------------------------------------------
(* Calls of a TbClient (module TbSession).                                 *)

Call ==
  [pc : {"header", "refresh", "login", "send", "answered", "unanswered", "denied"},
   access : {"none", "good", "near", "expired", "revoked"},
   renewal : {"none", "good", "dead"}, password : BOOLEAN,
   attempt : Nat, again : BOOLEAN, next : {"send", "header"},
   executed : Nat, lost : Nat, smooth : BOOLEAN]

\* What was carried out is what was lost, until the engine's answer is there.
Counted(j) == j.executed = j.lost + (IF j.pc = "answered" THEN 1 ELSE 0)

\* Nothing stands in the way of a smooth call: its user may log in, one of the
\* two ways to new tokens is open, and a refused token is refused once.
OnCourse(j) ==
  /\ j.pc \notin {"unanswered", "denied"}
  /\ j.pc # "answered" =>
       /\ userEnabled /\ (j.password \/ j.renewal = "good")
       /\ j.access = "none" => j.renewal = "none"
       /\ j.pc = "login" => j.password
       /\ j.pc = "send" => j.access \in {"good", "revoked"}
       /\ j.pc \in {"send", "header"} /\ j.again => j.access = "good"

CallInv(j) ==
  \/ j = Free
  \/ j \in Call /\ Counted(j) /\ (j.smooth => OnCourse(j))

SessionInv ==
  /\ jobs = [t \in Threads |-> jobs[t]]
  /\ \A t \in Threads : CallInv(jobs[t])

\* One call moves.
LEMMA CallMoves ==
  ASSUME SessionInv, NEW t \in Threads, NEW k, Become(t, k), CallInv(k), UNCHANGED userEnabled
  PROVE  SessionInv'
<1>1. DOMAIN jobs = Threads /\ jobs' = [jobs EXCEPT ![t] = k]
  BY DEF SessionInv, Become
<1>2. jobs'[t] = k /\ \A s \in Threads \ {t} : jobs'[s] = jobs[s]
  BY <1>1
<1>3. \A s \in Threads : CallInv(jobs'[s])
  BY <1>2 DEF SessionInv
<1>4. \A s \in Threads : CallInv(jobs[s])'
  BY <1>3 DEF CallInv, OnCourse, Counted
<1>5. jobs' = [s \in Threads |-> jobs'[s]]
  BY <1>1
<1> QED
  BY <1>4, <1>5 DEF SessionInv

LEMMA CallAt ==
  ASSUME SessionInv, NEW t \in Threads, jobs[t].pc # "idle"
  PROVE  jobs[t] \in Call /\ Counted(jobs[t]) /\ (jobs[t].smooth => OnCourse(jobs[t]))
  BY DEF SessionInv, CallInv, Free

LEMMA NoAnswerKeeps ==
  ASSUME NEW t \in Threads, NEW j \in Call, SessionInv, NoAnswer(t, j), UNCHANGED userEnabled,
         j.executed = j.lost
  PROVE  SessionInv'
<1> DEFINE k == [j EXCEPT !.smooth = FALSE]
<1>1. k \in Call /\ k.executed = k.lost /\ ~k.smooth
  BY DEF Call
<1>2. Become(t, Retried(k)) \/ Become(t, Ended(k, "unanswered"))
  BY DEF NoAnswer
<1> HIDE DEF k
<1>3. /\ Ended(k, "unanswered") \in Call /\ Ended(k, "unanswered").pc = "unanswered"
      /\ Ended(k, "unanswered").executed = k.executed /\ Ended(k, "unanswered").lost = k.lost
      /\ ~Ended(k, "unanswered").smooth
  BY <1>1 DEF Ended, Call
<1>4. /\ Retried(k) \in Call /\ Retried(k).pc \in {"header", "unanswered"}
      /\ Retried(k).executed = k.executed /\ Retried(k).lost = k.lost
      /\ ~Retried(k).smooth
  <2> DEFINE a == [k EXCEPT !.pc = "header", !.attempt = @ + 1, !.again = FALSE]
             b == [k EXCEPT !.pc = "unanswered"]
  <2>1. a \in Call /\ a.pc = "header" /\ a.executed = k.executed /\ a.lost = k.lost /\ ~a.smooth
    <3>1. k.attempt + 1 \in Nat
      BY <1>1 DEF Call
    <3> DEFINE c == [k EXCEPT !.pc = "header", !.again = FALSE]
    <3>2. /\ c \in Call /\ c.pc = "header" /\ c.executed = k.executed /\ c.lost = k.lost /\ ~c.smooth
          /\ a = [c EXCEPT !.attempt = k.attempt + 1]
      BY <1>1 DEF Call
    <3> HIDE DEF c
    <3> QED BY <3>1, <3>2 DEF Call
  <2>2. b \in Call /\ b.pc = "unanswered" /\ b.executed = k.executed /\ b.lost = k.lost /\ ~b.smooth
    BY <1>1 DEF Call
  <2>3. Retried(k) = a \/ Retried(k) = b
    BY DEF Retried
  <2> HIDE DEF a, b
  <2> QED BY <2>1, <2>2, <2>3
<1>5. CallInv(Ended(k, "unanswered")) /\ CallInv(Retried(k))
  BY <1>1, <1>3, <1>4 DEF CallInv, Counted, Call
<1> QED
  BY <1>2, <1>5, CallMoves

LEMMA SessionStep ==
  ASSUME SessionInv, NEW t \in Threads,
         Header(t) \/ Renew(t) \/ TbLogin(t) \/ Send(t) \/ EndCall(t) \/ BeginCall(t)
  PROVE  SessionInv'
<1> DEFINE j == jobs[t]
<1>f. CallInv(Free)
  BY DEF CallInv
<1>1. CASE Header(t)
  <2>1. /\ j \in Call /\ Counted(j) /\ (j.smooth => OnCourse(j)) /\ j.pc = "header"
        /\ UNCHANGED userEnabled
    BY <1>1, CallAt DEF Header, At, sessionVars
  <2> DEFINE to(pc, next) == [j EXCEPT !.pc = pc, !.next = next]
  <2>2. /\ j.access = "none" => Become(t, to("login", "header"))
        /\ j.access \in {"near", "expired"} => Become(t, to("refresh", "send"))
        /\ j.access \in {"good", "revoked"} => Become(t, to("send", "send"))
    BY <1>1, Zenon DEF Header
  <2>3. \A pc \in {"login", "refresh", "send"}, next \in {"send", "header"} :
          /\ to(pc, next) \in Call /\ to(pc, next).pc = pc /\ to(pc, next).next = next
          /\ to(pc, next).access = j.access /\ to(pc, next).renewal = j.renewal
          /\ to(pc, next).password = j.password /\ to(pc, next).again = j.again
          /\ to(pc, next).executed = j.executed /\ to(pc, next).lost = j.lost
          /\ to(pc, next).smooth = j.smooth
    BY <2>1 DEF Call
  <2> HIDE DEF to
  <2>4. j.access = "none" => CallInv(to("login", "header"))
    BY <2>1, <2>3 DEF CallInv, Counted, OnCourse
  <2>5. j.access \in {"near", "expired"} => CallInv(to("refresh", "send"))
    BY <2>1, <2>3 DEF CallInv, Counted, OnCourse
  <2>6. j.access \in {"good", "revoked"} => CallInv(to("send", "send"))
    BY <2>1, <2>3 DEF CallInv, Counted, OnCourse
  <2>7. j.access \in {"none", "good", "near", "expired", "revoked"}
    BY <2>1 DEF Call
  <2> QED BY <2>1, <2>2, <2>4, <2>5, <2>6, <2>7, CallMoves
<1>2. CASE Renew(t)
  <2>1. /\ j \in Call /\ Counted(j) /\ (j.smooth => OnCourse(j)) /\ j.pc = "refresh"
        /\ UNCHANGED userEnabled
    BY <1>2, CallAt DEF Renew, At, sessionVars
  <2> DEFINE k == [NewTokens(j) EXCEPT !.pc = j.next]
             l == [j EXCEPT !.pc = "login"]
  <2>2. \/ j.renewal = "good" /\ userEnabled /\ Become(t, k)
        \/ ~(j.renewal = "good" /\ userEnabled) /\ Become(t, l)
        \/ NoAnswer(t, j)
    BY <1>2 DEF Renew
  <2>3. CallInv(k)
    <3>1. /\ k \in Call /\ k.pc = j.next /\ k.access = "good" /\ k.renewal = "good"
          /\ k.executed = j.executed /\ k.lost = j.lost /\ k.smooth = j.smooth
          /\ j.next \in {"send", "header"}
      BY <2>1 DEF Call, NewTokens
    <3> HIDE DEF k
    <3> QED BY <2>1, <3>1 DEF CallInv, Counted, OnCourse
  <2>4. ~(j.renewal = "good" /\ userEnabled) => CallInv(l)
    <3>1. /\ l \in Call /\ l.pc = "login" /\ l.access = j.access /\ l.renewal = j.renewal
          /\ l.password = j.password
          /\ l.executed = j.executed /\ l.lost = j.lost /\ l.smooth = j.smooth
      BY <2>1 DEF Call
    <3> HIDE DEF l
    <3> QED BY <2>1, <3>1 DEF CallInv, Counted, OnCourse
  <2>5. j.executed = j.lost
    BY <2>1 DEF Counted, Call
  <2> HIDE DEF k, l
  <2> QED BY <2>1, <2>2, <2>3, <2>4, <2>5, CallMoves, NoAnswerKeeps
<1>3. CASE TbLogin(t)
  <2>1. /\ j \in Call /\ Counted(j) /\ (j.smooth => OnCourse(j)) /\ j.pc = "login"
        /\ UNCHANGED userEnabled
    BY <1>3, CallAt DEF TbLogin, At, sessionVars
  <2> DEFINE k == [NewTokens(j) EXCEPT !.pc = j.next]
             l == Ended(j, "denied")
  <2>2. \/ j.password /\ userEnabled /\ Become(t, k)
        \/ ~(j.password /\ userEnabled) /\ Become(t, l)
        \/ NoAnswer(t, j)
    BY <1>3 DEF TbLogin
  <2>3. CallInv(k)
    <3>1. /\ k \in Call /\ k.pc = j.next /\ k.access = "good" /\ k.renewal = "good"
          /\ k.executed = j.executed /\ k.lost = j.lost /\ k.smooth = j.smooth
          /\ j.next \in {"send", "header"}
      BY <2>1 DEF Call, NewTokens
    <3> HIDE DEF k
    <3> QED BY <2>1, <3>1 DEF CallInv, Counted, OnCourse
  <2>4. ~(j.password /\ userEnabled) => CallInv(l)
    <3>1. /\ l \in Call /\ l.pc = "denied"
          /\ l.executed = j.executed /\ l.lost = j.lost /\ l.smooth = j.smooth
      BY <2>1 DEF Call, Ended
    <3> HIDE DEF l
    <3> QED BY <2>1, <3>1 DEF CallInv, Counted, OnCourse
  <2>5. j.executed = j.lost
    BY <2>1 DEF Counted, Call
  <2> HIDE DEF k, l
  <2> QED BY <2>1, <2>2, <2>3, <2>4, <2>5, CallMoves, NoAnswerKeeps
<1>4. CASE Send(t)
  <2>1. /\ j \in Call /\ Counted(j) /\ (j.smooth => OnCourse(j)) /\ j.pc = "send"
        /\ UNCHANGED userEnabled
    BY <1>4, CallAt DEF Send, At, sessionVars
  <2> DEFINE accepted == j.access \in {"good", "near"} /\ userEnabled
             l == [j EXCEPT !.lost = @ + 1]
             k == [j EXCEPT !.pc = "refresh", !.next = "header", !.again = TRUE]
  <2>2. \/ accepted /\ Done(t, j)
        \/ NoAnswer(t, CarriesOut(l))
        \/ NoAnswer(t, j)
        \/ ~accepted /\ j.again /\ Become(t, Ended(j, "denied"))
        \/ ~j.again /\ Become(t, k)
    BY <1>4 DEF Send
  <2>3. j.executed = j.lost
    BY <2>1 DEF Counted, Call
  <2>4. CarriesOut(l) \in Call /\ CarriesOut(l).executed = CarriesOut(l).lost
    <3>1. l \in Call /\ l.lost = j.lost + 1 /\ l.executed = j.executed
      BY <2>1 DEF Call
    <3> HIDE DEF l
    <3> QED BY <2>3, <3>1 DEF CarriesOut, Call
  <2>5. accepted /\ Done(t, j) => SessionInv'
    <3> DEFINE e == Ended(j, "answered")
               d == CarriesOut(e)
    <3>1. e \in Call /\ e.pc = "answered" /\ e.executed = j.executed /\ e.lost = j.lost
      BY <2>1 DEF Ended, Call
    <3> HIDE DEF e
    <3>2. d \in Call /\ d.pc = "answered" /\ d.executed = j.executed + 1 /\ d.lost = j.lost
      BY <3>1 DEF CarriesOut, Call
    <3>3. Done(t, j) => Become(t, d)
      BY DEF Done, e
    <3> HIDE DEF d
    <3>4. CallInv(d)
      BY <2>3, <3>2 DEF CallInv, Counted, OnCourse
    <3> QED BY <2>1, <3>3, <3>4, CallMoves
  <2>6. ~accepted /\ j.again => CallInv(Ended(j, "denied"))
    <3> DEFINE d == Ended(j, "denied")
    <3>1. /\ d \in Call /\ d.pc = "denied"
          /\ d.executed = j.executed /\ d.lost = j.lost /\ d.smooth = j.smooth
      BY <2>1 DEF Call, Ended
    <3> HIDE DEF d
    <3>2. ~accepted /\ j.again => CallInv(d)
      BY <2>1, <3>1 DEF CallInv, Counted, OnCourse
    <3> QED BY <3>2 DEF d
  <2>7. CallInv(k)
    <3>1. /\ k \in Call /\ k.pc = "refresh" /\ k.access = j.access /\ k.renewal = j.renewal
          /\ k.password = j.password
          /\ k.executed = j.executed /\ k.lost = j.lost /\ k.smooth = j.smooth
      BY <2>1 DEF Call
    <3> HIDE DEF k
    <3> QED BY <2>1, <3>1 DEF CallInv, Counted, OnCourse
  <2> HIDE DEF accepted, k, l
  <2> QED BY <2>1, <2>2, <2>3, <2>4, <2>5, <2>6, <2>7, CallMoves, NoAnswerKeeps
<1>5. CASE EndCall(t)
  BY <1>5, <1>f, CallMoves DEF EndCall, Finish, sessionVars
<1>6. CASE BeginCall(t)
  <2>1. PICK access \in {"none", "good", "near", "expired", "revoked"},
             renewal \in {"none", "good", "dead"}, password \in BOOLEAN :
          /\ (access = "none") = (renewal = "none")
          /\ access = "none" => password
          /\ Start(t, [pc |-> "header", access |-> access, renewal |-> renewal,
                    password |-> password, attempt |-> 1, again |-> FALSE, next |-> "send",
                    executed |-> 0, lost |-> 0,
                    smooth |-> userEnabled /\ (password \/ renewal = "good")])
    BY <1>6, Zenon DEF BeginCall
  <2> DEFINE k == [pc |-> "header", access |-> access, renewal |-> renewal,
                    password |-> password, attempt |-> 1, again |-> FALSE, next |-> "send",
                    executed |-> 0, lost |-> 0,
                    smooth |-> userEnabled /\ (password \/ renewal = "good")]
  <2>2. k \in Call
    BY DEF Call
  <2>3. /\ k.pc = "header" /\ k.executed = 0 /\ k.lost = 0 /\ k.again = FALSE
        /\ k.access = access /\ k.renewal = renewal /\ k.password = password
        /\ k.smooth => userEnabled /\ (password \/ renewal = "good")
    OBVIOUS
  <2>4. Become(t, k) /\ UNCHANGED userEnabled /\ (access = "none" <=> renewal = "none")
    BY <1>6, <2>1 DEF Start, BeginCall, sessionVars
  <2>5. CallInv(k)
    <3> HIDE DEF k
    <3> QED BY <2>2, <2>3, <2>4 DEF CallInv, Counted, OnCourse
  <2> HIDE DEF k
  <2> QED BY <2>4, <2>5, CallMoves
<1> QED
  BY <1>1, <1>2, <1>3, <1>4, <1>5, <1>6

LEMMA SessionAround ==
  ASSUME SessionInv, Disable \/ Enable \/ \E t \in Threads : AccessAges(t) \/ RefreshDies(t)
  PROVE  SessionInv'
<1>1. ASSUME NEW t \in Threads, NEW field \in {"access", "renewal"},
             NEW state \in {"near", "expired", "revoked", "dead"},
             field = "access" => state # "dead", field = "renewal" => state = "dead",
             Dims(t, field, state)
      PROVE  SessionInv'
  <2> DEFINE j == jobs[t]
             k == [j EXCEPT ![field] = state, !.smooth = FALSE]
  <2>1. j \in Call /\ Counted(j) /\ UNCHANGED userEnabled /\ Become(t, k)
    BY <1>1, CallAt DEF Dims, Calling, sessionVars
  <2>2. /\ k \in Call /\ ~k.smooth
        /\ k.pc = j.pc /\ k.executed = j.executed /\ k.lost = j.lost
    BY <1>1, <2>1 DEF Call
  <2> HIDE DEF k
  <2>3. CallInv(k)
    BY <2>1, <2>2 DEF CallInv, Counted
  <2> QED BY <2>1, <2>3, CallMoves
<1>2. CASE Enable
  <2>1. userEnabled' = TRUE /\ UNCHANGED jobs
    BY <1>2 DEF Enable, handlerVars
  <2> QED BY <2>1 DEF SessionInv, CallInv, Counted, OnCourse
<1>3. CASE Disable
  <2>1. jobs' = [t \in Threads |->
                   IF Calling(t) THEN [jobs[t] EXCEPT !.smooth = FALSE] ELSE jobs[t]]
    BY <1>3 DEF Disable
  <2>2. ASSUME NEW t \in Threads PROVE CallInv(jobs[t])'
    <3>1. CASE Calling(t)
      <4> DEFINE k == [jobs[t] EXCEPT !.smooth = FALSE]
      <4>1. jobs[t] \in Call /\ Counted(jobs[t])
        BY <3>1, CallAt DEF Calling
      <4>2. /\ k \in Call /\ ~k.smooth
            /\ k.pc = jobs[t].pc /\ k.executed = jobs[t].executed /\ k.lost = jobs[t].lost
        BY <4>1 DEF Call
      <4>3. jobs'[t] = k
        BY <2>1, <3>1
      <4> HIDE DEF k
      <4> QED BY <4>1, <4>2, <4>3 DEF CallInv, Counted
    <3>2. CASE ~Calling(t)
      <4>1. jobs'[t] = jobs[t]
        BY <2>1, <3>2
      <4>2. CallInv(jobs[t])
        BY DEF SessionInv
      <4> QED BY <3>2, <4>1, <4>2 DEF CallInv, Counted, OnCourse, Calling, Call
    <3> QED BY <3>1, <3>2
  <2>3. jobs' = [t \in Threads |-> jobs'[t]]
    BY <2>1
  <2> QED BY <2>2, <2>3 DEF SessionInv
<1> QED
  BY <1>1, <1>2, <1>3 DEF AccessAges, RefreshDies

LEMMA SessionAlways == SessionSpec => []SessionInv
<1>1. HandlersInit /\ SessionInit => SessionInv
  BY DEF HandlersInit, SessionInv, CallInv
<1>2. SessionInv /\ [SessionNext]_<<handlerVars, sessionVars>> => SessionInv'
  <2>1. SessionInv /\ SessionNext => SessionInv'
    BY SessionStep, SessionAround DEF SessionNext
  <2>2. SessionInv /\ UNCHANGED <<handlerVars, sessionVars>> => SessionInv'
    BY DEF SessionInv, CallInv, Counted, OnCourse, handlerVars, sessionVars
  <2> QED BY <2>1, <2>2
<1> QED
  BY <1>1, <1>2, PTL DEF SessionSpec

(***************************************************************************)
(* However many attempts, renewals and lost answers one call of a client   *)
(* goes through, and with whatever tokens it began: it was carried out     *)
(* once for each answer that was lost, and once more if it was answered    *)
(* (_request, retried by tenacity).                                        *)
(***************************************************************************)
THEOREM RepeatsCounted == SessionSpec => []RepeatedOnlyIfLost
<1>1. SessionInv => RepeatedOnlyIfLost
  BY CallAt DEF RepeatedOnlyIfLost, Counted, At
<1> QED
  BY <1>1, SessionAlways, PTL

(***************************************************************************)
(* A client that can still renew its tokens, with a user who stays         *)
(* enabled and no request left without an answer, gets the engine's        *)
(* answer, whichever of its tokens were refused on the way (_auth_header,  *)
(* refresh, login).                                                        *)
(***************************************************************************)
THEOREM SmoothAnswered == SessionSpec => []SmoothCallsSucceed
<1>1. SessionInv => SmoothCallsSucceed
  BY CallAt DEF SmoothCallsSucceed, OnCourse
<1> QED
  BY <1>1, SessionAlways, PTL

-----------------------------------------------------------------------------
(* Handlers are finitely many, and of any numbers there is a least one.    *)

LEMMA FiniteThreads ==
  /\ IsFiniteSet(Threads) /\ Cardinality(Threads) \in Nat \ {0}
  /\ \A S \in SUBSET Threads :
       IsFiniteSet(S) /\ Cardinality(S) \in Nat /\ Cardinality(S) <= Cardinality(Threads)
  BY HandlersAssumption, FS_Subset, FS_CardinalityType, FS_EmptySet

\* of any numbers there is a least one
LEMMA LeastNumber ==
  ASSUME NEW S \in SUBSET Nat, S # {}
  PROVE  \E n \in S : \A l \in S : n <= l
  <1> DEFINE R == OpToRel(<, Nat)
  <1>1. IsWellFoundedOn(R, Nat) BY NatLessThanWellFounded
  <1>2. \A x, y \in Nat : x < y => <<x, y>> \in R BY DEF OpToRel
  <1> HIDE DEF R
  <1>3. PICK n \in S : \A y \in S : <<y, n>> \notin R
    BY <1>1, WFMin
  <1>4. ASSUME NEW l \in S, ~(n <= l) PROVE FALSE
    <2>1. l < n /\ l \in Nat /\ n \in Nat BY <1>4
    <2>2. <<l, n>> \in R BY <1>2, <2>1
    <2> QED BY <1>3, <2>2
  <1> QED BY <1>4

-----------------------------------------------------------------------------
(* The rate limiter (module RateLimit).                                    *)

RateJobs == [pc : {"lock", "refused"}, stamp : Nat]

\* how many of those let in have left the queue, which always holds the last
Gone == Len(admitted) - Len(hits)

RateTypes ==
  /\ jobs \in [Threads -> {Free} \cup RateJobs]
  /\ clock \in 0 .. MaxClock
  /\ \A t \in Threads : jobs[t].pc # "idle" => jobs[t].stamp <= clock
  /\ admitted \in Seq(Nat) /\ \A i \in 1 .. Len(admitted) : admitted[i] <= clock
  /\ hits \in Seq(Nat) /\ Len(hits) <= Limit /\ Len(hits) <= Len(admitted)
  /\ \A i \in 1 .. Len(hits) : hits[i] = admitted[Gone + i]

\* the handlers that wait for the lock with a stamp before n
Waiting(n) == {t \in Threads : At(t, "lock") /\ jobs[t].stamp < n}

\* those let in after the j-th with an earlier stamp
Overtaken(j) == {i \in 1 .. Len(admitted) : j < i /\ admitted[i] < admitted[j]}

Spare == Cardinality(Threads) - 1

\* A handler is overtaken by no more than all the others.
Overtakings ==
  \A j \in 1 .. Len(admitted) :
    Cardinality(Overtaken(j)) + Cardinality(Waiting(admitted[j])) <= Spare

Span(n) == {i \in 1 .. Len(admitted) : n - Window + 1 <= admitted[i] /\ admitted[i] <= n}

\* All of the window that ends at n is still in the queue, or somebody with a
\* later clock dropped some of it, and those still to come into it are the others.
Kept(n) ==
  \/ \A i \in Span(n) : Gone < i
  \/ n < clock /\ Cardinality(Span(n)) + Cardinality(Waiting(n + 1)) <= Limit + Spare

RateInv == RateTypes /\ Overtakings /\ \A n \in 0 .. MaxClock : Kept(n)

LEMMA RateShape ==
  ASSUME RateTypes, NEW t \in Threads
  PROVE  /\ jobs[t] = Free \/ jobs[t] \in RateJobs
         /\ jobs[t].pc \in {"idle", "lock", "refused"}
         /\ jobs[t].pc # "idle" => jobs[t] \in RateJobs /\ jobs[t].stamp \in 0 .. clock
  BY DEF RateTypes, RateJobs, Free

LEMMA RateFinite ==
  ASSUME RateTypes
  PROVE  /\ Limit \in Nat /\ Window \in Nat /\ MaxClock \in Nat /\ clock \in Nat
         /\ Spare \in Nat /\ Len(hits) \in Nat /\ Len(admitted) \in Nat /\ Gone \in Nat
         /\ Gone + Len(hits) = Len(admitted)
         /\ \A i \in 1 .. Len(admitted) : admitted[i] \in 0 .. clock
         /\ \A S \in SUBSET (1 .. Len(admitted)) : IsFiniteSet(S) /\ Cardinality(S) \in Nat
         /\ \A n : Waiting(n) \in SUBSET Threads
         /\ \A j : Overtaken(j) \in SUBSET (1 .. Len(admitted))
         /\ \A n : Span(n) \in SUBSET (1 .. Len(admitted))
  <1>1. /\ Limit \in Nat /\ Window \in Nat /\ MaxClock \in Nat /\ clock \in Nat
        /\ Len(hits) \in Nat /\ Len(admitted) \in Nat /\ Gone \in Nat
        /\ Gone + Len(hits) = Len(admitted)
    BY RateLimitAssumption DEF RateTypes, Gone
  <1>2. Spare \in Nat BY FiniteThreads DEF Spare
  <1>3. \A i \in 1 .. Len(admitted) : admitted[i] \in 0 .. clock BY <1>1 DEF RateTypes
  <1>4. \A S \in SUBSET (1 .. Len(admitted)) : IsFiniteSet(S) /\ Cardinality(S) \in Nat
    <2> TAKE S \in SUBSET (1 .. Len(admitted))
    <2>1. IsFiniteSet(1 .. Len(admitted)) BY <1>1, FS_Interval
    <2> QED BY <2>1, FS_Subset, FS_CardinalityType
  <1>5. /\ \A n : Waiting(n) \in SUBSET Threads
        /\ \A j : Overtaken(j) \in SUBSET (1 .. Len(admitted))
        /\ \A n : Span(n) \in SUBSET (1 .. Len(admitted))
    BY DEF Waiting, Overtaken, Span
  <1> QED BY <1>1, <1>2, <1>3, <1>4, <1>5

\* clearing the queue drops its front, up to the first hit that is not over
LEMMA Purging ==
  ASSUME RateTypes, NEW s \in Nat
  PROVE  \E m \in 0 .. Len(hits) :
           /\ Purged(s) = SubSeq(hits, m + 1, Len(hits))
           /\ \A i \in 1 .. m : hits[i] <= s - Window
           /\ m < Len(hits) => s - Window < hits[m + 1]
  <1> DEFINE N == Len(hits)
             kept == {i \in DOMAIN hits : \E j \in 1 .. i : ~Expired(hits[j], s)}
  <1>0. /\ N \in Nat /\ DOMAIN hits = 1 .. N /\ Window \in Nat
        /\ \A i \in 1 .. N : hits[i] \in Nat
    BY RateLimitAssumption DEF RateTypes
  <1>1. Purged(s) = SubSeq(hits, N - Cardinality(kept) + 1, N) BY DEF Purged
  <1>2. CASE kept = {}
    <2>1. Cardinality(kept) = 0 BY <1>2, FS_EmptySet
    <2>2. \A i \in 1 .. N : Expired(hits[i], s)
      <3> TAKE i \in 1 .. N
      <3>1. i \in DOMAIN hits /\ i \in 1 .. i BY <1>0
      <3> QED BY <1>2, <3>1
    <2> HIDE DEF kept, N
    <2>3. Purged(s) = SubSeq(hits, N + 1, N) BY <1>0, <1>1, <2>1
    <2> QED BY <1>0, <2>2, <2>3 DEF Expired, N
  <1>3. CASE kept # {}
    <2>1. kept \in SUBSET Nat BY <1>0
    <2>2. PICK l \in kept : \A i \in kept : l <= i
      <3> HIDE DEF kept
      <3> QED BY <1>3, <2>1, LeastNumber
    <2>3. l \in 1 .. N /\ (\E j \in 1 .. l : ~Expired(hits[j], s)) BY <1>0, <2>2
    <2>4. \A i \in 1 .. (l - 1) : Expired(hits[i], s)
      <3> SUFFICES ASSUME NEW i \in 1 .. (l - 1), ~Expired(hits[i], s) PROVE FALSE OBVIOUS
      <3>1. i \in 1 .. N /\ i \in 1 .. i /\ i < l BY <1>0, <2>3
      <3>2. i \in kept BY <1>0, <3>1
      <3> QED BY <2>2, <3>1, <3>2
    <2>5. ~Expired(hits[l], s)
      <3>1. PICK j \in 1 .. l : ~Expired(hits[j], s) BY <2>3
      <3>2. j = l BY <2>3, <2>4, <3>1
      <3> QED BY <3>1, <3>2
    <2>6. kept = l .. N
      <3>1. ASSUME NEW i \in l .. N PROVE i \in kept
        <4>1. i \in DOMAIN hits /\ l \in 1 .. i BY <1>0, <2>3
        <4> QED BY <2>5, <4>1
      <3>2. ASSUME NEW i \in kept PROVE i \in l .. N
        BY <1>0, <2>2, <2>3
      <3> QED BY <3>1, <3>2
    <2> HIDE DEF kept, N
    <2>7. Cardinality(kept) = N - l + 1
      <3>1. l \in Int /\ N \in Int /\ ~(l > N) BY <1>0, <2>3
      <3>2. Cardinality(l .. N) = N - l + 1 BY <3>1, FS_Interval
      <3> QED BY <2>6, <3>2
    <2>8. l - 1 \in 0 .. N /\ N - Cardinality(kept) + 1 = (l - 1) + 1 /\ (l - 1) + 1 = l
      BY <1>0, <2>3, <2>7
    <2>9. Purged(s) = SubSeq(hits, (l - 1) + 1, N) BY <1>1, <2>8
    <2>10. s - Window < hits[l] BY <1>0, <2>3, <2>5 DEF Expired
    <2>11. \A i \in 1 .. (l - 1) : hits[i] <= s - Window BY <2>4 DEF Expired
    <2> QED BY <2>8, <2>9, <2>10, <2>11 DEF N
  <1> QED BY <1>2, <1>3

\* what the lock does: the queue loses its front up to d, and takes the stamp in
AllowMoves(t, s, d) ==
  /\ At(t, "lock") /\ s = jobs[t].stamp /\ s \in 0 .. clock
  /\ d \in Gone .. Len(admitted)
  /\ \A i \in (Gone + 1) .. d : admitted[i] <= s - Window
  /\ d < Len(admitted) => s - Window < admitted[d + 1]
  /\ \A u \in Threads \ {t} : jobs'[u] = jobs[u]
  /\ clock' = clock /\ Gone' = d
  /\ \/ /\ jobs'[t].pc = "refused" /\ jobs'[t].stamp = s
        /\ admitted' = admitted /\ Len(admitted) - d >= Limit
     \/ /\ jobs'[t].pc = "idle"
        /\ Len(admitted') = Len(admitted) + 1 /\ admitted'[Len(admitted) + 1] = s
        /\ \A i \in 1 .. Len(admitted) : admitted'[i] = admitted[i]

LEMMA AllowStep ==
  ASSUME RateTypes, NEW t \in Threads, Allow(t)
  PROVE  RateTypes' /\ \E s, d \in Nat : AllowMoves(t, s, d)
  <1> DEFINE s == jobs[t].stamp
             N == Len(hits)
             L == Len(admitted)
  <1>0. /\ s \in 0 .. clock /\ s \in Nat /\ jobs[t] \in RateJobs
        /\ N \in Nat /\ L \in Nat /\ Gone \in Nat /\ Gone + N = L
        /\ Window \in Nat /\ Limit \in Nat /\ clock \in Nat
        /\ hits \in Seq(Nat) /\ admitted \in Seq(Nat)
        /\ At(t, "lock") /\ clock' = clock
    BY RateShape, RateFinite DEF Allow, At, RateTypes
  <1>1. PICK m \in 0 .. N :
          /\ Purged(s) = SubSeq(hits, m + 1, N)
          /\ \A i \in 1 .. m : hits[i] <= s - Window
          /\ m < N => s - Window < hits[m + 1]
    BY <1>0, Purging
  <1> DEFINE q == Purged(s)
             d == Gone + m
  <1>2. /\ q \in Seq(Nat) /\ Len(q) = N - m
        /\ \A i \in 1 .. (N - m) : q[i] = hits[m + i]
    <2>1. m + 1 \in 1 .. (Len(hits) + 1) /\ m \in Nat BY <1>0
    <2>2. Purged(s) = SubSeq(hits, m + 1, N) BY <1>1
    <2>3. \A i \in (m + 1) .. N : hits[i] \in Nat BY <1>0, <2>1
    <2>4. (m + 1) \in Int /\ N \in Int BY <1>0, <2>1
    <2>5. /\ SubSeq(hits, m + 1, N) \in Seq(Nat)
          /\ Len(SubSeq(hits, m + 1, N)) = IF m + 1 <= N THEN N - (m + 1) + 1 ELSE 0
          /\ \A i \in 1 .. (N - (m + 1) + 1) : SubSeq(hits, m + 1, N)[i] = hits[(m + 1) + i - 1]
      <3> HIDE DEF N
      <3> QED BY <2>3, <2>4, SubSeqProperties
    <2>6. /\ N - (m + 1) + 1 = N - m /\ (m + 1 <= N \/ N - m = 0)
          /\ \A i \in 1 .. (N - m) : (m + 1) + i - 1 = m + i
      BY <1>0, <2>1
    <2> HIDE DEF s, N, q
    <2>7. q = SubSeq(hits, m + 1, N) BY <2>2 DEF q
    <2> QED BY <2>5, <2>6, <2>7
  <1>3. \A i \in 1 .. N : hits[i] = admitted[Gone + i] BY DEF RateTypes
  <1>4. /\ d \in Gone .. L /\ L - d = N - m /\ d \in Nat
        /\ \A i \in (Gone + 1) .. d : admitted[i] <= s - Window
        /\ d < L => s - Window < admitted[d + 1]
    <2>1. d \in Gone .. L /\ L - d = N - m /\ d \in Nat BY <1>0
    <2>2. ASSUME NEW i \in (Gone + 1) .. d PROVE admitted[i] <= s - Window
      <3>1. i - Gone \in 1 .. m /\ i - Gone \in 1 .. N /\ Gone + (i - Gone) = i BY <1>0
      <3> HIDE DEF s, d, L, N
      <3> QED BY <1>1, <1>3, <3>1
    <2>3. ASSUME d < L PROVE s - Window < admitted[d + 1]
      <3>1. m < N /\ m + 1 \in 1 .. N /\ Gone + (m + 1) = d + 1 BY <1>0, <2>3
      <3> HIDE DEF s, d, L, N
      <3> QED BY <1>1, <1>3, <3>1
    <2> QED BY <2>1, <2>2, <2>3
  <1> HIDE DEF q
  <1>5. CASE IsFull(q)
    <2>1. hits' = q /\ Goto(t, "refused") /\ admitted' = admitted
      BY <1>5 DEF Allow, q, s
    <2>2. Len(q) >= Limit BY <1>5 DEF IsFull
    <2>3. Gone' = d
      <3>1. Gone' = Len(admitted') - Len(hits') BY DEF Gone
      <3> HIDE DEF d
      <3>2. L - d = N - m /\ d \in Nat BY <1>4
      <3> QED BY <1>0, <1>2, <2>1, <3>1, <3>2
    <2>4. /\ jobs' = [jobs EXCEPT ![t].pc = "refused"]
          /\ jobs'[t] = [jobs[t] EXCEPT !.pc = "refused"]
          /\ \A u \in Threads \ {t} : jobs'[u] = jobs[u]
      BY <2>1 DEF Goto, RateTypes
    <2>5. jobs'[t] \in RateJobs /\ jobs'[t].pc = "refused" /\ jobs'[t].stamp = s
      BY <1>0, <2>4 DEF RateJobs
    <2>6. jobs' \in [Threads -> {Free} \cup RateJobs] BY <2>4, <2>5 DEF RateTypes
    <2>7. AllowMoves(t, s, d)
      <3>1. L - d >= Limit BY <1>2, <1>4, <2>2
      <3> QED BY <1>0, <1>4, <2>1, <2>3, <2>4, <2>5, <3>1 DEF AllowMoves
    <2>8. RateTypes'
      <3>1. \A u \in Threads : jobs'[u].pc # "idle" => jobs'[u].stamp <= clock'
        BY <1>0, <2>4, <2>5 DEF RateTypes
      <3>2. Len(hits') <= Limit /\ Len(hits') <= Len(admitted')
        BY <1>0, <1>2, <2>1 DEF RateTypes
      <3>3. ASSUME NEW i \in 1 .. Len(hits') PROVE hits'[i] = admitted'[Gone' + i]
        <4>1. i \in 1 .. (N - m) /\ m + i \in 1 .. N /\ d + i = Gone + (m + i)
          BY <1>0, <1>2, <2>1
        <4>2. Gone' + i = Gone + (m + i) BY <2>3, <4>1
        <4> HIDE DEF d
        <4>3. hits'[i] = hits[m + i] BY <1>2, <2>1, <4>1
        <4> QED BY <1>3, <2>1, <4>1, <4>2, <4>3
      <3>4. hits' \in Seq(Nat) /\ admitted' \in Seq(Nat) BY <1>0, <1>2, <2>1
      <3>5. \A i \in 1 .. Len(admitted') : admitted'[i] <= clock'
        BY <1>0, <2>1 DEF RateTypes
      <3>6. clock' \in 0 .. MaxClock BY <1>0 DEF RateTypes
      <3> QED BY <2>6, <3>1, <3>2, <3>3, <3>4, <3>5, <3>6 DEF RateTypes
    <2> QED BY <1>0, <1>4, <2>7, <2>8
  <1>6. CASE ~IsFull(q)
    <2>1. hits' = Append(q, s) /\ Finish(t) /\ admitted' = Append(admitted, s)
      BY <1>6 DEF Allow, q, s
    <2>2. Len(q) < Limit
      <3>1. Len(q) \in Nat BY <1>2
      <3> QED BY <1>0, <1>6, <3>1 DEF IsFull
    <2>3. /\ hits' \in Seq(Nat) /\ Len(hits') = (N - m) + 1 /\ hits'[(N - m) + 1] = s
          /\ \A i \in 1 .. (N - m) : hits'[i] = q[i]
          /\ admitted' \in Seq(Nat) /\ Len(admitted') = L + 1 /\ admitted'[L + 1] = s
          /\ \A i \in 1 .. L : admitted'[i] = admitted[i]
      <3> HIDE DEF s, N, L
      <3>1. admitted \in Seq(Nat) /\ Len(admitted) = L /\ s \in Nat BY <1>0 DEF L
      <3>2. q \in Seq(Nat) /\ Len(q) = N - m BY <1>2
      <3>3. /\ hits' \in Seq(Nat) /\ Len(hits') = Len(q) + 1 /\ hits'[Len(q) + 1] = s
            /\ \A i \in 1 .. Len(q) : hits'[i] = q[i]
        BY <2>1, <3>1, <3>2, AppendProperties
      <3>4. /\ admitted' \in Seq(Nat) /\ Len(admitted') = L + 1 /\ admitted'[L + 1] = s
            /\ \A i \in 1 .. L : admitted'[i] = admitted[i]
        BY <2>1, <3>1, AppendProperties
      <3> QED BY <3>2, <3>3, <3>4
    <2>4. Gone' = d
      <3>1. Gone' = Len(admitted') - Len(hits') BY DEF Gone
      <3>2. L - d = N - m /\ d \in Nat BY <1>4
      <3> HIDE DEF d, L, N
      <3>3. Gone' = (L + 1) - ((N - m) + 1) BY <2>3, <3>1
      <3> QED BY <1>0, <3>2, <3>3
    <2>5. /\ jobs' = [jobs EXCEPT ![t] = Free] /\ jobs'[t] = Free
          /\ \A u \in Threads \ {t} : jobs'[u] = jobs[u]
      BY <2>1 DEF Finish, Become, RateTypes
    <2>6. jobs' \in [Threads -> {Free} \cup RateJobs] /\ jobs'[t].pc = "idle"
      BY <2>5 DEF RateTypes, Free
    <2>7. AllowMoves(t, s, d)
      BY <1>0, <1>4, <2>3, <2>4, <2>5, <2>6 DEF AllowMoves
    <2>8. RateTypes'
      <3>1. \A u \in Threads : jobs'[u].pc # "idle" => jobs'[u].stamp <= clock'
        BY <1>0, <2>5, <2>6 DEF RateTypes
      <3>2. Len(hits') <= Limit /\ Len(hits') <= Len(admitted')
        <4>1. N - m < Limit /\ N - m \in Nat BY <1>0, <1>2, <2>2
        <4>2. Len(hits') = (N - m) + 1 /\ Len(admitted') = L + 1 BY <2>3
        <4>3. N - m <= L BY <1>0
        <4> HIDE DEF L, N
        <4> QED BY <1>0, <4>1, <4>2, <4>3
      <3>3. ASSUME NEW i \in 1 .. Len(hits') PROVE hits'[i] = admitted'[Gone' + i]
        <4>1. CASE i \in 1 .. (N - m)
          <5>1. m + i \in 1 .. N /\ d + i = Gone + (m + i) /\ d + i \in 1 .. L
            BY <1>0, <4>1
          <5>2. Gone' + i = Gone + (m + i) BY <2>4, <5>1
          <5> HIDE DEF d, N, L
          <5>3. hits'[i] = hits[m + i] BY <1>2, <2>3, <4>1
          <5>4. admitted'[Gone' + i] = admitted[Gone + (m + i)] BY <2>3, <5>1, <5>2
          <5> QED BY <1>3, <5>1, <5>3, <5>4
        <4>2. CASE i = (N - m) + 1
          <5>1. Gone' + i = L + 1
            <6>1. L - d = N - m /\ d \in Nat BY <1>4
            <6> HIDE DEF d, L, N
            <6> QED BY <1>0, <2>4, <4>2, <6>1
          <5> HIDE DEF d, N, L
          <5> QED BY <2>3, <4>2, <5>1
        <4>3. i \in 1 .. (N - m) \/ i = (N - m) + 1
          <5>1. N - m \in Nat /\ Len(hits') = (N - m) + 1 BY <1>0, <2>3
          <5> HIDE DEF N
          <5> QED BY <5>1
        <4> QED BY <4>1, <4>2, <4>3
      <3>4. \A i \in 1 .. Len(admitted') : admitted'[i] <= clock'
        <4> TAKE i \in 1 .. Len(admitted')
        <4>1. i \in 1 .. L \/ i = L + 1 BY <1>0, <2>3
        <4>2. \A j \in 1 .. L : admitted[j] <= clock BY DEF RateTypes
        <4>3. s <= clock BY <1>0
        <4> HIDE DEF s, L
        <4> QED BY <1>0, <2>3, <4>1, <4>2, <4>3
      <3>5. clock' \in 0 .. MaxClock BY <1>0 DEF RateTypes
      <3> QED BY <2>3, <2>6, <3>1, <3>2, <3>3, <3>4, <3>5 DEF RateTypes
    <2> QED BY <1>0, <1>4, <2>7, <2>8
  <1> QED BY <1>5, <1>6

\* The other steps leave the log and the queue, and bring nobody to the lock
\* with a stamp before the clock.
QuietMoves ==
  /\ admitted' = admitted /\ hits' = hits /\ clock' \in Nat /\ clock <= clock'
  /\ \A u \in Threads :
       /\ jobs'[u].pc = "lock" => jobs'[u] = jobs[u] \/ jobs'[u].stamp = clock
       /\ jobs'[u].pc = "refused" => jobs'[u] = jobs[u]

LEMMA QuietStep ==
  ASSUME RateTypes,
         \/ Tock
         \/ \E t \in Threads : ReadClock(t) \/ Refuse(t)
         \/ UNCHANGED <<rateVars, handlerVars>>
  PROVE  RateTypes' /\ QuietMoves
  <1> USE RateFinite
  <1>1. CASE Tock
    <2>1. clock' \in 0 .. MaxClock /\ clock' = clock + 1 BY <1>1 DEF Tock, RateTypes
    <2>2. \A t \in Threads : jobs'[t].pc # "idle" => jobs'[t].stamp <= clock'
      BY <1>1, <2>1, RateShape DEF Tock, handlerVars
    <2>3. \A i \in 1 .. Len(admitted) : admitted[i] <= clock' BY <2>1
    <2> QED BY <1>1, <2>1, <2>2, <2>3 DEF Tock, RateTypes, QuietMoves, handlerVars, Gone
  <1>2. ASSUME NEW t \in Threads, ReadClock(t) PROVE RateTypes' /\ QuietMoves
    <2> DEFINE j == [pc |-> "lock", stamp |-> clock]
    <2>1. j \in RateJobs /\ j.stamp = clock BY DEF RateJobs
    <2> HIDE DEF j
    <2>2. /\ jobs' \in [Threads -> {Free} \cup RateJobs] /\ jobs'[t] = j
          /\ \A u \in Threads \ {t} : jobs'[u] = jobs[u]
      BY <1>2, <2>1 DEF ReadClock, Start, Become, RateTypes, j
    <2>3. clock' = clock /\ hits' = hits /\ admitted' = admitted
      BY <1>2 DEF ReadClock, rateVars
    <2>4. j.pc = "lock" BY DEF j
    <2>5. Gone' = Gone BY <2>3 DEF Gone
    <2>6. QuietMoves
      <3>1. \A u \in Threads :
              /\ jobs'[u].pc = "lock" => jobs'[u] = jobs[u] \/ jobs'[u].stamp = clock
              /\ jobs'[u].pc = "refused" => jobs'[u] = jobs[u]
        BY <2>1, <2>2, <2>4
      <3> QED BY <2>3, <3>1 DEF QuietMoves
    <2>7. \A u \in Threads : jobs'[u].pc # "idle" => jobs'[u].stamp <= clock'
      BY <2>1, <2>2, <2>3 DEF RateTypes
    <2> QED BY <2>2, <2>3, <2>5, <2>6, <2>7 DEF RateTypes
  <1>3. ASSUME NEW t \in Threads, Refuse(t) PROVE RateTypes' /\ QuietMoves
    <2>1. /\ jobs' \in [Threads -> {Free} \cup RateJobs] /\ jobs'[t] = Free
          /\ \A u \in Threads \ {t} : jobs'[u] = jobs[u]
      BY <1>3 DEF Refuse, Finish, Become, RateTypes
    <2>2. clock' = clock /\ hits' = hits /\ admitted' = admitted
      BY <1>3 DEF Refuse, rateVars
    <2>3. Free.pc = "idle" BY DEF Free
    <2>4. Gone' = Gone BY <2>2 DEF Gone
    <2>5. QuietMoves
      <3>1. \A u \in Threads :
              jobs'[u].pc \in {"lock", "refused"} => jobs'[u] = jobs[u]
        BY <2>1, <2>3
      <3> QED BY <2>2, <3>1 DEF QuietMoves
    <2>6. \A u \in Threads : jobs'[u].pc # "idle" => jobs'[u].stamp <= clock'
      BY <2>1, <2>2, <2>3 DEF RateTypes
    <2> QED BY <2>1, <2>2, <2>4, <2>5, <2>6 DEF RateTypes
  <1>4. CASE UNCHANGED <<rateVars, handlerVars>>
    BY <1>4 DEF rateVars, handlerVars, RateTypes, QuietMoves, Gone
  <1> QED BY <1>1, <1>2, <1>3, <1>4

LEMMA QuietInv ==
  ASSUME RateTypes, RateTypes', QuietMoves, Overtakings, \A n \in 0 .. MaxClock : Kept(n),
         RefusedWhenFull
  PROVE  Overtakings' /\ (\A n \in 0 .. MaxClock : Kept(n)') /\ RefusedWhenFull'
  <1> USE RateFinite
  <1>1. ASSUME NEW n \in 0 .. clock
        PROVE  Waiting(n)' \in SUBSET Waiting(n) /\ Cardinality(Waiting(n)') <= Cardinality(Waiting(n))
               /\ Cardinality(Waiting(n)') \in Nat /\ Cardinality(Waiting(n)) \in Nat
    <2>1. Waiting(n)' \in SUBSET Waiting(n)
      <3> SUFFICES ASSUME NEW u \in Threads, jobs'[u].pc = "lock", jobs'[u].stamp < n
                   PROVE  jobs[u].pc = "lock" /\ jobs[u].stamp < n
        BY DEF Waiting, At
      <3>1. jobs'[u] = jobs[u] \/ jobs'[u].stamp = clock BY DEF QuietMoves
      <3>2. clock \in Nat /\ n <= clock /\ n \in Nat OBVIOUS
      <3>3. ~(clock < n) BY <3>2
      <3> QED BY <3>1, <3>3
    <2>2. IsFiniteSet(Waiting(n)) /\ Waiting(n) \in SUBSET Threads /\ Waiting(n)' \in SUBSET Threads
      BY <2>1, FiniteThreads
    <2> QED BY <2>1, <2>2, FiniteThreads, FS_Subset
  <1>2. Overtakings'
    <2>1. SUFFICES ASSUME NEW j \in 1 .. Len(admitted)
                   PROVE  (Cardinality(Overtaken(j)) + Cardinality(Waiting(admitted[j])) <= Spare)'
      BY DEF QuietMoves, Overtakings
    <2>2. PICK n \in 0 .. clock : n = admitted[j] BY <2>1
    <2>3. Overtaken(j)' = Overtaken(j) /\ admitted'[j] = n
      BY <2>2 DEF QuietMoves, Overtaken
    <2>4. Cardinality(Overtaken(j)) + Cardinality(Waiting(n)) <= Spare
      BY <2>2 DEF Overtakings
    <2>5. Cardinality(Overtaken(j)) \in Nat OBVIOUS
    <2>6. Cardinality(Overtaken(j)) + Cardinality(Waiting(n)') <= Spare
      BY <1>1, <2>4, <2>5
    <2>7. (Waiting(admitted[j]))' = Waiting(n)' BY <2>3 DEF Waiting
    <2> QED BY <2>3, <2>6, <2>7 DEF Spare
  <1>3. ASSUME NEW n \in 0 .. MaxClock PROVE Kept(n)'
    <2>1. Span(n)' = Span(n) /\ Gone' = Gone BY DEF Span, QuietMoves, Gone
    <2>2. CASE \A i \in Span(n) : Gone < i BY <2>1, <2>2 DEF Kept
    <2>3. CASE n < clock /\ Cardinality(Span(n)) + Cardinality(Waiting(n + 1)) <= Limit + Spare
      <3>1. n + 1 \in 0 .. clock /\ n < clock' BY <2>3 DEF QuietMoves
      <3>2. PICK m \in 0 .. clock : m = n + 1 BY <3>1
      <3>3. Cardinality(Span(n)) \in Nat OBVIOUS
      <3>4. Cardinality(Span(n)) + Cardinality(Waiting(m)') <= Limit + Spare
        <4>1. Cardinality(Span(n)) + Cardinality(Waiting(m)) <= Limit + Spare BY <2>3, <3>2
        <4>2. /\ Cardinality(Waiting(m)') \in Nat /\ Cardinality(Waiting(m)) \in Nat
              /\ Cardinality(Waiting(m)') <= Cardinality(Waiting(m))
          BY <1>1, <3>2
        <4> QED BY <3>3, <4>1, <4>2
      <3>5. Waiting(n + 1)' = Waiting(m)' BY <3>2
      <3> QED BY <2>1, <3>1, <3>4, <3>5 DEF Kept, Spare
    <2> QED BY <2>2, <2>3 DEF Kept
  <1>4. RefusedWhenFull'
    <2>1. SUFFICES ASSUME NEW t \in Threads, At(t, "refused")'
                   PROVE  (LetIn(jobs[t].stamp - Window + 1, MaxClock) >= Limit - (Cardinality(Threads) - 1))'
      BY DEF RefusedWhenFull
    <2>2. jobs'[t] = jobs[t] /\ At(t, "refused") BY <2>1 DEF QuietMoves, At
    <2>3. PICK m : m = jobs[t].stamp - Window + 1 OBVIOUS
    <2>4. LetIn(m, MaxClock) >= Limit - (Cardinality(Threads) - 1)
      BY <2>2, <2>3 DEF RefusedWhenFull
    <2>5. LetIn(m, MaxClock)' = LetIn(m, MaxClock) BY DEF LetIn, QuietMoves
    <2>6. jobs'[t].stamp - Window + 1 = m BY <2>2, <2>3
    <2>7. (LetIn(jobs[t].stamp - Window + 1, MaxClock))' = LetIn(m, MaxClock)'
      BY <2>6 DEF LetIn
    <2> QED BY <2>4, <2>5, <2>7
  <1> QED BY <1>2, <1>3, <1>4

\* whoever goes on leaves the lock
LEMMA AllowWaiting ==
  ASSUME RateTypes, NEW t \in Threads, NEW s \in Nat, NEW d \in Nat, AllowMoves(t, s, d), NEW n
  PROVE  /\ Waiting(n)' = Waiting(n) \ {t}
         /\ t \in Waiting(n) <=> s < n
         /\ IsFiniteSet(Waiting(n)) /\ Cardinality(Waiting(n)) \in Nat
         /\ Cardinality(Waiting(n)') \in Nat
         /\ Cardinality(Waiting(n)') <= Spare
         /\ Cardinality(Waiting(n)') =
              IF s < n THEN Cardinality(Waiting(n)) - 1 ELSE Cardinality(Waiting(n))
  <1>1. Waiting(n)' = Waiting(n) \ {t}
    BY DEF AllowMoves, Waiting, At
  <1>2. t \in Waiting(n) <=> s < n BY DEF AllowMoves, Waiting, At
  <1>3. Waiting(n) \in SUBSET Threads BY RateFinite
  <1>4. IsFiniteSet(Waiting(n)) /\ Cardinality(Waiting(n)) \in Nat BY <1>3, FiniteThreads
  <1>5. Cardinality(Waiting(n)') =
          IF t \in Waiting(n) THEN Cardinality(Waiting(n)) - 1 ELSE Cardinality(Waiting(n))
    BY <1>1, <1>4, FS_RemoveElement
  <1>6. Waiting(n)' \in SUBSET (Threads \ {t}) BY <1>1, <1>3
  <1>7. IsFiniteSet(Threads \ {t}) /\ Cardinality(Threads \ {t}) = Spare
    BY FiniteThreads, FS_RemoveElement DEF Spare
  <1>8. Cardinality(Waiting(n)') <= Spare BY <1>6, <1>7, FS_Subset
  <1>9. Cardinality(Waiting(n)') \in Nat BY <1>6, FiniteThreads
  <1> QED BY <1>1, <1>2, <1>4, <1>5, <1>8, <1>9

LEMMA AllowOvertakings ==
  ASSUME RateTypes, NEW t \in Threads, NEW s \in Nat, NEW d \in Nat, AllowMoves(t, s, d),
         Overtakings
  PROVE  Overtakings'
  <1> DEFINE L == Len(admitted)
  <1>0. L \in Nat /\ Spare \in Nat BY RateFinite
  <1>1. CASE admitted' = admitted
    <2> SUFFICES ASSUME NEW j \in 1 .. L
                 PROVE  (Cardinality(Overtaken(j)) + Cardinality(Waiting(admitted[j])) <= Spare)'
      BY <1>1 DEF Overtakings
    <2>1. PICK n : n = admitted[j] OBVIOUS
    <2>2. /\ Overtaken(j)' = Overtaken(j) /\ Cardinality(Overtaken(j)) \in Nat
          /\ (Waiting(admitted[j]))' = Waiting(n)'
      BY <1>1, <2>1, RateFinite DEF Overtaken, Waiting
    <2>3. Cardinality(Overtaken(j)) + Cardinality(Waiting(n)) <= Spare
      BY <2>1 DEF Overtakings
    <2>4. /\ Cardinality(Waiting(n)') \in Nat /\ Cardinality(Waiting(n)) \in Nat
          /\ Cardinality(Waiting(n)') <= Cardinality(Waiting(n))
      <3>1. /\ Cardinality(Waiting(n)) \in Nat /\ Cardinality(Waiting(n)') \in Nat
            /\ Cardinality(Waiting(n)') =
                 IF s < n THEN Cardinality(Waiting(n)) - 1 ELSE Cardinality(Waiting(n))
        BY AllowWaiting
      <3> QED BY <3>1
    <2> QED BY <1>0, <2>2, <2>3, <2>4 DEF Spare
  <1>2. CASE /\ Len(admitted') = L + 1 /\ admitted'[L + 1] = s
             /\ \A i \in 1 .. L : admitted'[i] = admitted[i]
    <2> SUFFICES ASSUME NEW j \in 1 .. (L + 1)
                 PROVE  (Cardinality(Overtaken(j)) + Cardinality(Waiting(admitted[j])) <= Spare)'
      BY <1>2 DEF Overtakings
    <2>1. PICK n : n = admitted'[j] OBVIOUS
    <2>2. (Waiting(admitted[j]))' = Waiting(n)' BY <2>1 DEF Waiting
    <2>3. /\ Cardinality(Waiting(n)) \in Nat /\ Cardinality(Waiting(n)') \in Nat
          /\ Cardinality(Waiting(n)') <= Spare
          /\ Cardinality(Waiting(n)') =
               IF s < n THEN Cardinality(Waiting(n)) - 1 ELSE Cardinality(Waiting(n))
      BY AllowWaiting
    <2>4. CASE j = L + 1
      <3>1. Overtaken(j)' = {} BY <1>0, <1>2, <2>4 DEF Overtaken
      <3>2. Cardinality(Overtaken(j)') = 0 BY <3>1, FS_EmptySet
      <3> QED BY <1>0, <2>2, <2>3, <3>2 DEF Spare
    <2>5. CASE j \in 1 .. L
      <3>1. n = admitted[j] /\ n \in Nat BY <1>2, <2>1, <2>5, RateFinite
      <3>2. Cardinality(Overtaken(j)) + Cardinality(Waiting(n)) <= Spare
        BY <2>5, <3>1 DEF Overtakings
      <3>3. Overtaken(j)' = IF s < n THEN Overtaken(j) \cup {L + 1} ELSE Overtaken(j)
        <4>1. \A i : i \in 1 .. (L + 1) <=> i \in 1 .. L \/ i = L + 1 BY <1>0
        <4>2. j < L + 1 BY <1>0, <2>5
        <4>3. admitted'[j] = n /\ admitted[j] = n BY <2>1, <3>1
        <4> QED BY <1>2, <4>1, <4>2, <4>3 DEF Overtaken
      <3>4. /\ IsFiniteSet(Overtaken(j)) /\ Cardinality(Overtaken(j)) \in Nat
            /\ L + 1 \notin Overtaken(j)
        <4>1. Overtaken(j) \in SUBSET (1 .. L) BY RateFinite
        <4> QED BY <1>0, <4>1, RateFinite
      <3>5. Cardinality(Overtaken(j)') =
              IF s < n THEN Cardinality(Overtaken(j)) + 1 ELSE Cardinality(Overtaken(j))
        BY <3>3, <3>4, FS_AddElement
      <3>6. Cardinality(Overtaken(j)') + Cardinality(Waiting(n)') <= Spare
        <4> HIDE DEF L
        <4> QED BY <1>0, <2>3, <3>2, <3>4, <3>5
      <3> QED BY <2>2, <3>6 DEF Spare
    <2> QED BY <1>0, <2>4, <2>5
  <1> QED BY <1>1, <1>2 DEF AllowMoves

LEMMA AllowKept ==
  ASSUME RateTypes, NEW t \in Threads, NEW s \in Nat, NEW d \in Nat, AllowMoves(t, s, d),
         NEW n \in 0 .. MaxClock, Kept(n)
  PROVE  Kept(n)'
  <1> DEFINE L == Len(admitted)
             before == Cardinality(Span(n))
             after == Cardinality(Span(n)')
             to == Cardinality(Waiting(n + 1))
             left == Cardinality(Waiting(n + 1)')
  <1>0. /\ L \in Nat /\ Spare \in Nat /\ Limit \in Nat /\ Window \in Nat /\ n \in Nat
        /\ Gone \in Nat /\ L - Gone <= Limit /\ clock \in Nat /\ s <= clock /\ clock' = clock
        /\ Gone' = d /\ d \in Gone .. L
        /\ Span(n) \in SUBSET (1 .. L) /\ IsFiniteSet(Span(n)) /\ before \in Nat
    <2>1. /\ L \in Nat /\ Spare \in Nat /\ Limit \in Nat /\ Window \in Nat /\ Gone \in Nat
          /\ Gone + Len(hits) = L /\ clock \in Nat /\ Len(hits) \in Nat
          /\ Span(n) \in SUBSET (1 .. L) /\ IsFiniteSet(Span(n)) /\ before \in Nat
      BY RateFinite
    <2>2. Len(hits) <= Limit /\ MaxClock \in Nat BY RateLimitAssumption DEF RateTypes
    <2>3. s \in 0 .. clock /\ clock' = clock /\ Gone' = d /\ d \in Gone .. L
      BY DEF AllowMoves
    <2> HIDE DEF L, before
    <2> QED BY <2>1, <2>2, <2>3
  <1>1. /\ to \in Nat /\ left \in Nat /\ left <= Spare
        /\ left = IF s < n + 1 THEN to - 1 ELSE to
    <2>1. PICK m : m = n + 1 OBVIOUS
    <2>2. /\ Cardinality(Waiting(m)) \in Nat /\ Cardinality(Waiting(m)') \in Nat
          /\ Cardinality(Waiting(m)') <= Spare
          /\ Cardinality(Waiting(m)') =
               IF s < m THEN Cardinality(Waiting(m)) - 1 ELSE Cardinality(Waiting(m))
      BY AllowWaiting
    <2> QED BY <2>1, <2>2
  \* the window takes the stamp in if it holds it
  <1>2. /\ after \in Nat
        /\ \/ Span(n)' = Span(n) /\ after = before
           \/ /\ s < n + 1 /\ n - Window + 1 <= s
              /\ Span(n)' = Span(n) \cup {L + 1} /\ after = before + 1
    <2>1. CASE admitted' = admitted
      BY <1>0, <2>1 DEF Span
    <2>2. CASE /\ Len(admitted') = L + 1 /\ admitted'[L + 1] = s
               /\ \A i \in 1 .. L : admitted'[i] = admitted[i]
      <3>1. \A i : i \in 1 .. (L + 1) <=> i \in 1 .. L \/ i = L + 1 BY <1>0
      <3>2. Span(n)' = IF n - Window + 1 <= s /\ s <= n THEN Span(n) \cup {L + 1} ELSE Span(n)
        BY <2>2, <3>1 DEF Span
      <3>3. L + 1 \notin Span(n) BY <1>0
      <3>4. Cardinality(Span(n) \cup {L + 1}) = before + 1 BY <1>0, <3>3, FS_AddElement
      <3> QED BY <1>0, <3>2, <3>4
    <2> QED BY <2>1, <2>2 DEF AllowMoves
  <1> HIDE DEF L, before, after, to, left
  <1>3. CASE n < clock /\ before + to <= Limit + Spare
    <2>1. after + left <= Limit + Spare BY <1>0, <1>1, <1>2, <1>3
    <2> QED BY <1>0, <1>3, <2>1 DEF Kept, after, left, Spare
  <1>4. CASE \A i \in Span(n) : Gone < i
    \* all of the window was in the queue
    <2>1. before <= Limit
      <3>1. Span(n) \in SUBSET ((Gone + 1) .. L) BY <1>0, <1>4
      <3>2. /\ IsFiniteSet((Gone + 1) .. L)
            /\ Cardinality((Gone + 1) .. L) = IF Gone + 1 > L THEN 0 ELSE L - (Gone + 1) + 1
        BY <1>0, FS_Interval
      <3>3. before <= Cardinality((Gone + 1) .. L) BY <3>1, <3>2, FS_Subset DEF before
      <3> QED BY <1>0, <3>2, <3>3
    <2>2. CASE \A i \in Span(n) : d < i
      <3>1. \A i \in Span(n)' : d < i BY <1>0, <1>2, <2>2
      <3> QED BY <1>0, <3>1 DEF Kept
    <2>3. CASE ~ \A i \in Span(n) : d < i
      <3>1. PICK i \in Span(n) : ~(d < i) BY <2>3
      <3>2. i \in (Gone + 1) .. d BY <1>0, <1>4, <3>1
      <3>3. admitted[i] <= s - Window BY <3>2 DEF AllowMoves
      <3>4. n - Window + 1 <= admitted[i] BY <3>1 DEF Span
      <3>5. admitted[i] \in Nat BY <1>0, <3>1, RateFinite DEF L
      <3>6. n < s BY <1>0, <3>3, <3>4, <3>5
      <3>7. after = before BY <1>0, <1>2, <3>6
      <3>8. n < clock /\ after + left <= Limit + Spare BY <1>0, <1>1, <2>1, <3>6, <3>7
      <3> QED BY <1>0, <3>8 DEF Kept, after, left, Spare
    <2> QED BY <2>2, <2>3
  <1> QED BY <1>3, <1>4 DEF Kept, before, to

LEMMA AllowRefusals ==
  ASSUME RateTypes, RateTypes', NEW t \in Threads, NEW s \in Nat, NEW d \in Nat,
         AllowMoves(t, s, d), Overtakings, RefusedWhenFull
  PROVE  RefusedWhenFull'
  <1> DEFINE L == Len(admitted)
  <1>0. /\ L \in Nat /\ Spare \in Nat /\ Limit \in Nat /\ Window \in Nat /\ d \in 0 .. L
        /\ \A i \in 1 .. L : admitted[i] \in Nat /\ admitted[i] <= MaxClock
        /\ MaxClock \in Nat /\ DOMAIN admitted = 1 .. L
        /\ IsFiniteSet(DOMAIN admitted') /\ L <= Len(admitted')
        /\ DOMAIN admitted' = 1 .. Len(admitted') /\ Len(admitted') \in Nat
        /\ \A i \in 1 .. L : admitted'[i] = admitted[i]
    <2>1. DOMAIN admitted' = 1 .. Len(admitted') /\ Len(admitted') \in Nat BY DEF RateTypes
    <2>2. IsFiniteSet(1 .. Len(admitted')) BY <2>1, FS_Interval
    <2>3. ASSUME NEW i \in 1 .. L PROVE admitted[i] \in Nat /\ admitted[i] <= MaxClock
      <3>1. admitted[i] \in 0 .. clock /\ clock \in Nat /\ MaxClock \in Nat BY RateFinite
      <3>2. clock <= MaxClock BY DEF RateTypes
      <3> HIDE DEF L
      <3> QED BY <3>1, <3>2
    <2>4. /\ L \in Nat /\ Spare \in Nat /\ Limit \in Nat /\ Window \in Nat /\ Gone \in Nat
          /\ MaxClock \in Nat /\ DOMAIN admitted = 1 .. L
      BY RateFinite DEF RateTypes
    <2>5. d \in 0 .. L BY <2>4 DEF AllowMoves
    <2>6. L <= Len(admitted') /\ \A i \in 1 .. L : admitted'[i] = admitted[i]
      <3>1. CASE admitted' = admitted BY <2>4, <3>1
      <3>2. CASE Len(admitted') = L + 1 /\ \A i \in 1 .. L : admitted'[i] = admitted[i]
        BY <2>4, <3>2
      <3> QED BY <3>1, <3>2 DEF AllowMoves
    <2> QED BY <2>1, <2>2, <2>3, <2>4, <2>5, <2>6
  <1>1. SUFFICES ASSUME NEW u \in Threads, At(u, "refused")'
                 PROVE  (LetIn(jobs[u].stamp - Window + 1, MaxClock) >= Limit - (Cardinality(Threads) - 1))'
    BY DEF RefusedWhenFull
  <1>2. PICK m : m = jobs'[u].stamp - Window + 1 OBVIOUS
  <1>3. (LetIn(jobs[u].stamp - Window + 1, MaxClock))' = LetIn(m, MaxClock)'
    BY <1>2 DEF LetIn
  <1>4. IsFiniteSet({i \in DOMAIN admitted' : m <= admitted'[i] /\ admitted'[i] <= MaxClock})
    BY <1>0, FS_Subset
  <1>5. ASSUME NEW S \in SUBSET (1 .. L), \A i \in S : m <= admitted[i]
        PROVE  Cardinality(S) <= LetIn(m, MaxClock)' /\ LetIn(m, MaxClock)' \in Nat
    <2>1. S \in SUBSET {i \in DOMAIN admitted' : m <= admitted'[i] /\ admitted'[i] <= MaxClock}
      <3>1. ASSUME NEW i \in S PROVE i \in DOMAIN admitted' /\ m <= admitted'[i] /\ admitted'[i] <= MaxClock
        <4>1. i \in 1 .. L /\ i \in 1 .. Len(admitted') BY <1>0
        <4> QED BY <1>0, <1>5, <4>1
      <3> QED BY <3>1
    <2> QED BY <1>4, <2>1, FS_Subset, FS_CardinalityType DEF LetIn
  <1>6. CASE u = t
    <2>1. m = s - Window + 1 /\ L - d >= Limit
      BY <1>1, <1>2, <1>6 DEF AllowMoves, At
    <2>2. CASE d = L
      <3>1. Limit = 0 BY <1>0, <2>1, <2>2
      <3>2. LetIn(m, MaxClock)' \in Nat BY <1>5
      <3> QED BY <1>0, <1>3, <3>1, <3>2 DEF Spare
    <2>3. CASE d < L
      <3> DEFINE j == d + 1
                 S == (j .. L) \ Overtaken(j)
      <3>1. s - Window < admitted[j] /\ j \in 1 .. L /\ admitted[j] \in Nat
        <4>1. s - Window < admitted[d + 1] BY <2>3 DEF AllowMoves
        <4>2. d + 1 \in 1 .. L
          <5> HIDE DEF L
          <5> QED BY <1>0, <2>3
        <4> QED BY <1>0, <4>1, <4>2
      <3>2. \A i \in S : m <= admitted[i]
        <4> TAKE i \in S
        <4>1. i \in 1 .. L /\ (i = j \/ j < i) /\ admitted[i] \in Nat BY <1>0, <3>1
        <4>2. ~(j < i /\ admitted[i] < admitted[j]) BY <4>1 DEF Overtaken
        <4>3. admitted[j] <= admitted[i] BY <3>1, <4>1, <4>2
        <4> HIDE DEF j
        <4> QED BY <1>0, <2>1, <3>1, <4>1, <4>3
      <3>3. /\ IsFiniteSet(j .. L) /\ Cardinality(j .. L) = L - d
        BY <1>0, <2>3, FS_Interval
      <3>4. /\ IsFiniteSet(S) /\ Cardinality(S) \in Nat
            /\ Cardinality(S) = Cardinality(j .. L) - Cardinality((j .. L) \cap Overtaken(j))
        BY <3>3, FS_Difference, FS_CardinalityType
      <3>5. Cardinality(Overtaken(j)) <= Spare /\ Cardinality(Overtaken(j)) \in Nat
        <4>1. Cardinality(Overtaken(j)) + Cardinality(Waiting(admitted[j])) <= Spare
          BY <3>1 DEF Overtakings
        <4>2. Cardinality(Overtaken(j)) \in Nat BY RateFinite
        <4>3. Cardinality(Waiting(admitted[j])) \in Nat BY RateFinite, FiniteThreads
        <4> HIDE DEF j
        <4> QED BY <1>0, <4>1, <4>2, <4>3
      <3>6. /\ Cardinality((j .. L) \cap Overtaken(j)) <= Cardinality(Overtaken(j))
            /\ Cardinality((j .. L) \cap Overtaken(j)) \in Nat
        <4>1. IsFiniteSet(Overtaken(j)) BY RateFinite
        <4> HIDE DEF j
        <4> QED BY <4>1, FS_Intersection, FS_CardinalityType
      <3>7. S \in SUBSET (1 .. L) BY <1>0, <3>1
      <3> HIDE DEF S, j
      <3>8. Cardinality(S) <= LetIn(m, MaxClock)' /\ LetIn(m, MaxClock)' \in Nat
        BY <1>5, <3>2, <3>7
      <3>9. LetIn(m, MaxClock)' >= Limit - Spare
        BY <1>0, <2>1, <3>3, <3>4, <3>5, <3>6, <3>8
      <3> QED BY <1>3, <3>9 DEF Spare
    <2>4. d = L \/ d < L
      <3> HIDE DEF L
      <3> QED BY <1>0
    <2> QED BY <2>2, <2>3, <2>4
  <1>7. CASE u # t
    <2>1. jobs'[u] = jobs[u] /\ At(u, "refused") BY <1>1, <1>7 DEF AllowMoves, At
    <2>2. LetIn(m, MaxClock) >= Limit - (Cardinality(Threads) - 1)
      BY <1>2, <2>1 DEF RefusedWhenFull
    <2> DEFINE S == {i \in DOMAIN admitted : m <= admitted[i] /\ admitted[i] <= MaxClock}
    <2>3. S \in SUBSET (1 .. L) /\ \A i \in S : m <= admitted[i] BY <1>0
    <2>4. Cardinality(S) <= LetIn(m, MaxClock)' /\ LetIn(m, MaxClock)' \in Nat
      <3> HIDE DEF S
      <3> QED BY <1>5, <2>3
    <2>5. Cardinality(S) = LetIn(m, MaxClock) BY DEF LetIn
    <2>6. Cardinality(S) \in Nat
      <3> HIDE DEF S
      <3> QED BY <2>3, RateFinite
    <2> HIDE DEF S
    <2> QED BY <1>0, <1>3, <2>2, <2>4, <2>5, <2>6 DEF Spare
  <1> QED BY <1>6, <1>7

LEMMA RateAlways == RateSpec => [](RateInv /\ RefusedWhenFull)
  <1>1. HandlersInit /\ RateInit => RateInv /\ RefusedWhenFull
    <2> SUFFICES ASSUME HandlersInit, RateInit PROVE RateInv /\ RefusedWhenFull OBVIOUS
    <2>1. /\ \A t \in Threads : jobs[t] = Free /\ jobs[t].pc = "idle"
          /\ jobs = [t \in Threads |-> jobs[t]]
      BY DEF HandlersInit, Free
    <2>2. Len(admitted) = 0 /\ Len(hits) = 0 /\ clock = 0 /\ hits \in Seq(Nat) /\ admitted \in Seq(Nat)
      BY DEF RateInit
    <2>3. RateTypes BY <2>1, <2>2, RateLimitAssumption DEF RateTypes, Gone
    <2>4. Overtakings BY <2>2 DEF Overtakings
    <2>5. \A n \in 0 .. MaxClock : Kept(n) BY <2>2 DEF Kept, Span
    <2>6. RefusedWhenFull BY <2>1 DEF RefusedWhenFull, At
    <2> QED BY <2>3, <2>4, <2>5, <2>6 DEF RateInv
  <1>2. RateInv /\ RefusedWhenFull /\ [RateNext]_<<rateVars, handlerVars>>
        => (RateInv /\ RefusedWhenFull)'
    <2> SUFFICES ASSUME RateInv, RefusedWhenFull, [RateNext]_<<rateVars, handlerVars>>
                 PROVE  (RateInv /\ RefusedWhenFull)'
      OBVIOUS
    <2>0. RateTypes /\ Overtakings /\ \A n \in 0 .. MaxClock : Kept(n) BY DEF RateInv
    <2>1. ASSUME NEW t \in Threads, Allow(t) PROVE (RateInv /\ RefusedWhenFull)'
      <3>1. RateTypes' BY <2>0, <2>1, AllowStep
      <3>2. PICK s \in Nat, d \in Nat : AllowMoves(t, s, d) BY <2>0, <2>1, AllowStep
      <3>3. Overtakings' BY <2>0, <3>2, AllowOvertakings
      <3>4. \A n \in 0 .. MaxClock : Kept(n)' BY <2>0, <3>2, AllowKept
      <3>5. RefusedWhenFull' BY <2>0, <3>1, <3>2, AllowRefusals
      <3> QED BY <3>1, <3>3, <3>4, <3>5 DEF RateInv
    <2>2. CASE \/ Tock
               \/ \E t \in Threads : ReadClock(t) \/ Refuse(t)
               \/ UNCHANGED <<rateVars, handlerVars>>
      <3>1. RateTypes' /\ QuietMoves BY <2>0, <2>2, QuietStep
      <3> QED BY <2>0, <3>1, QuietInv DEF RateInv
    <2> QED BY <2>1, <2>2 DEF RateNext
  <1> QED BY <1>1, <1>2, PTL DEF RateSpec

(***************************************************************************)
(* However many handlers arrive at once and however long each waits for    *)
(* the lock, no span of the window's length lets in more than the limit    *)
(* and one for each other handler (RateLimiter.allow).                     *)
(***************************************************************************)
THEOREM WindowHolds == RateSpec => []WindowKept
  <1>1. RateInv => WindowKept
    <2> SUFFICES ASSUME RateInv, NEW n \in 0 .. MaxClock
                 PROVE  LetIn(n - Window + 1, n) <= Limit + Spare
      BY DEF WindowKept, Spare
    <2>0. RateTypes /\ Kept(n) BY DEF RateInv
    <2>1. LetIn(n - Window + 1, n) = Cardinality(Span(n))
      <3>1. DOMAIN admitted = 1 .. Len(admitted) BY <2>0 DEF RateTypes
      <3> QED BY <3>1 DEF LetIn, Span
    <2>2. /\ Len(admitted) \in Nat /\ Gone \in Nat /\ Len(admitted) - Gone <= Limit
          /\ Limit \in Nat /\ Spare \in Nat
          /\ Span(n) \in SUBSET (1 .. Len(admitted)) /\ Cardinality(Span(n)) \in Nat
          /\ Waiting(n + 1) \in SUBSET Threads
      BY <2>0, RateFinite DEF RateTypes
    <2>3. CASE \A i \in Span(n) : Gone < i
      <3>1. Span(n) \in SUBSET ((Gone + 1) .. Len(admitted)) BY <2>2, <2>3
      <3>2. /\ IsFiniteSet((Gone + 1) .. Len(admitted))
            /\ Cardinality((Gone + 1) .. Len(admitted)) =
                 IF Gone + 1 > Len(admitted) THEN 0 ELSE Len(admitted) - (Gone + 1) + 1
        <4>1. Gone + 1 \in Int /\ Len(admitted) \in Int BY <2>2
        <4> QED BY <4>1, FS_Interval
      <3>3. Cardinality(Span(n)) <= Cardinality((Gone + 1) .. Len(admitted))
        BY <3>1, <3>2, FS_Subset
      <3> QED BY <2>1, <2>2, <3>2, <3>3
    <2>4. CASE Cardinality(Span(n)) + Cardinality(Waiting(n + 1)) <= Limit + Spare
      <3>1. Cardinality(Waiting(n + 1)) \in Nat BY <2>2, FiniteThreads
      <3> QED BY <2>1, <2>2, <2>4, <3>1
    <2> QED BY <2>0, <2>3, <2>4 DEF Kept
  <1> QED BY RateAlways, <1>1, PTL

(***************************************************************************)
(* However many handlers arrive at once and in whatever order the lock     *)
(* takes them: whoever is refused had, from the start of its own window    *)
(* on, the limit let in but for one for each other handler                 *)
(* (RateLimiter.allow).                                                    *)
(***************************************************************************)
THEOREM RefusalsDue == RateSpec => []RefusedWhenFull
  BY RateAlways, PTL

-----------------------------------------------------------------------------
(* Alert rules (module Alerts).                                            *)

AlertPlaces == {"insert", "erase", "read", "find", "save", "push", "default", "audit"}
AlertJobs ==
  [pc : AlertPlaces, rule : RuleIds \cup {None}, rows : SUBSET RuleIds,
   chain : ChainIds \cup {None}, alone : BOOLEAN]

AlertTypes ==
  /\ jobs \in [Threads -> {Free} \cup AlertJobs]
  /\ \A t \in Threads : jobs[t].pc \in {"push", "default"} => jobs[t].chain \in ChainIds
  /\ alertRules \in SUBSET RuleIds /\ IsFiniteSet(alertRules)
  /\ \A t \in Threads : jobs[t].pc \in {"find", "save", "push"} => IsFiniteSet(jobs[t].rows)
  /\ DOMAIN chains = ChainIds

\* who has counted the rules and not inserted his
Inserting == {t \in Threads : At(t, "insert")}
CountsAhead ==
  Cardinality(alertRules) + Cardinality(Inserting) <= RuleLimit + Cardinality(Threads) - 1

LEMMA AlertShape ==
  ASSUME AlertTypes, NEW t \in Threads
  PROVE  /\ jobs[t] = Free \/ jobs[t] \in AlertJobs
         /\ jobs[t].pc \in AlertPlaces \cup {"idle"}
         /\ jobs[t].pc # "idle" => jobs[t] \in AlertJobs
  BY DEF AlertTypes, AlertJobs, Free

\* the other handlers keep their places and locals, but for being alone
LEMMA Disturbed ==
  ASSUME AlertTypes, NEW t \in Threads, NEW job \in AlertJobs \cup {Free}, Disturb(t, job)
  PROVE  /\ jobs' \in [Threads -> {Free} \cup AlertJobs]
         /\ jobs'[t] = job
         /\ \A s \in Threads \ {t} :
              /\ jobs'[s].pc = jobs[s].pc
              /\ jobs[s].pc # "idle" =>
                   /\ ~jobs'[s].alone
                   /\ jobs'[s].rows = jobs[s].rows /\ jobs'[s].chain = jobs[s].chain
  <1>1. ASSUME NEW s \in Threads \ {t}
        PROVE  /\ jobs'[s] \in {Free} \cup AlertJobs /\ jobs'[s].pc = jobs[s].pc
               /\ jobs[s].pc # "idle" =>
                    /\ ~jobs'[s].alone
                    /\ jobs'[s].rows = jobs[s].rows /\ jobs'[s].chain = jobs[s].chain
    <2>1. CASE jobs[s].pc = "idle"
      BY <2>1, AlertShape DEF Disturb, At
    <2>2. CASE jobs[s].pc # "idle"
      <3>1. jobs[s] \in AlertJobs BY <2>2, AlertShape
      <3>2. jobs'[s] = [jobs[s] EXCEPT !.alone = FALSE] BY <2>2 DEF Disturb, At
      <3> QED BY <3>1, <3>2 DEF AlertJobs
    <2> QED BY <2>1, <2>2
  <1>2. jobs'[t] = job BY DEF Disturb
  <1>3. jobs' = [s \in Threads |-> jobs'[s]] BY DEF Disturb
  <1>4. \A s \in Threads : jobs'[s] \in {Free} \cup AlertJobs BY <1>1, <1>2
  <1> QED BY <1>1, <1>2, <1>3, <1>4

LEMMA Becomes ==
  ASSUME AlertTypes, NEW t \in Threads, NEW job \in AlertJobs \cup {Free}, Become(t, job)
  PROVE  /\ jobs' \in [Threads -> {Free} \cup AlertJobs]
         /\ jobs'[t] = job
         /\ \A s \in Threads \ {t} : jobs'[s] = jobs[s]
  BY DEF Become, AlertTypes

\* what each step makes of its handler
LEMMA AlertSteps ==
  ASSUME AlertTypes, NEW t \in Threads, NEW r \in RuleIds
  PROVE  /\ CountRules(t) => /\ Become(t, AlertJob("insert", None))
                             /\ AlertJob("insert", None) \in AlertJobs
         /\ LoadRule(t, r) => /\ Become(t, AlertJob("erase", r))
                              /\ AlertJob("erase", r) \in AlertJobs
         /\ AuditAlert(t) \/ AlertFails(t) => Become(t, Free)
         /\ \A place \in AlertPlaces :
              jobs[t].pc # "idle" => [jobs[t] EXCEPT !.pc = place] \in AlertJobs
  BY AlertShape DEF CountRules, LoadRule, AuditAlert, AlertFails, Start, Finish, Killed,
                    AlertJob, AlertJobs, AlertPlaces

LEMMA AlertTypesInit == HandlersInit /\ AlertsInit => AlertTypes
  BY FS_EmptySet DEF HandlersInit, AlertsInit, AlertTypes, Free

LEMMA AlertTypesStep == AlertTypes /\ [AlertsNext]_<<alertVars, handlerVars>> => AlertTypes'
  <1> SUFFICES ASSUME AlertTypes, AlertsNext PROVE AlertTypes'
    BY DEF AlertTypes, alertVars, handlerVars
  <1> DEFINE Fits(j) == /\ j \in AlertJobs \cup {Free}
                        /\ j.pc \in {"push", "default"} => j.chain \in ChainIds
                        /\ j.pc \in {"find", "save", "push"} => IsFiniteSet(j.rows)
  <1>0. \A t \in Threads : Fits(jobs[t]) BY DEF AlertTypes
  <1>f. Fits(Free) BY DEF Free
  <1>a. ASSUME NEW t \in Threads, NEW j, Fits(j), Become(t, j), alertRules' \in SUBSET RuleIds,
               IsFiniteSet(alertRules'), DOMAIN chains' = ChainIds
        PROVE  AlertTypes'
    <2>1. \A s \in Threads : Fits(jobs'[s]) BY <1>0, <1>a, Becomes
    <2> QED BY <1>a, <2>1, Becomes DEF AlertTypes
  <1>b. ASSUME NEW t \in Threads, NEW j, Fits(j), Disturb(t, j), alertRules' \in SUBSET RuleIds,
               IsFiniteSet(alertRules'), UNCHANGED chains
        PROVE  AlertTypes'
    <2>0. j \in AlertJobs \cup {Free} BY <1>b
    <2>1. ASSUME NEW s \in Threads, s # t PROVE Fits(jobs'[s])
      <3>1. CASE jobs[s].pc = "idle"
        BY <2>0, <1>b, <2>1, <3>1, Disturbed
      <3>2. CASE jobs[s].pc # "idle"
        BY <2>0, <1>b, <1>0, <2>1, <3>2, Disturbed
      <3> QED BY <3>1, <3>2
    <2>2. \A s \in Threads : Fits(jobs'[s]) BY <2>0, <1>b, <2>1, Disturbed
    <2>3. jobs' \in [Threads -> {Free} \cup AlertJobs] BY <2>0, <1>b, Disturbed
    <2> QED BY <1>b, <2>2, <2>3 DEF AlertTypes
  <1>c. alertRules \in SUBSET RuleIds /\ IsFiniteSet(alertRules) /\ DOMAIN chains = ChainIds
    BY DEF AlertTypes
  <1>1. ASSUME NEW t \in Threads, NEW r \in RuleIds, InsertRule(t, r) PROVE AlertTypes'
    <2>1. Fits([jobs[t] EXCEPT !.pc = "read"])
      BY <1>1, AlertShape DEF InsertRule, At, AlertJobs, AlertPlaces
    <2>2. IsFiniteSet(alertRules') BY <1>1, <1>c, FS_AddElement DEF InsertRule
    <2> HIDE DEF Fits
    <2> QED BY <1>b, <1>c, <1>1, <2>1, <2>2 DEF InsertRule
  <1>2. ASSUME NEW t \in Threads, NEW r \in RuleIds, LoadRule(t, r) PROVE AlertTypes'
    <2>1. Fits(AlertJob("erase", r)) BY DEF AlertJob, AlertJobs, AlertPlaces
    <2> HIDE DEF Fits
    <2> QED BY <1>a, <1>c, <1>2, <2>1 DEF LoadRule, Start, alertVars
  <1>3. ASSUME NEW t \in Threads, CountRules(t) PROVE AlertTypes'
    <2>1. Fits(AlertJob("insert", None)) BY DEF AlertJob, AlertJobs, AlertPlaces
    <2> HIDE DEF Fits
    <2> QED BY <1>a, <1>c, <1>3, <2>1 DEF CountRules, Start, alertVars
  <1>4. ASSUME NEW t \in Threads, EraseRule(t) PROVE AlertTypes'
    <2>1. Fits([jobs[t] EXCEPT !.pc = "read", !.rule = None])
      BY <1>4, AlertShape DEF EraseRule, At, AlertJobs, AlertPlaces
    <2>2. IsFiniteSet(alertRules') BY <1>4, <1>c, FS_RemoveElement DEF EraseRule
    <2> HIDE DEF Fits
    <2> QED BY <1>b, <1>c, <1>4, <2>1, <2>2 DEF EraseRule
  <1>5. ASSUME NEW t \in Threads, ReadRules(t) PROVE AlertTypes'
    <2> DEFINE alone == \A s \in Threads \ {t} : ~Applying(s)
    <2> HIDE DEF alone
    <2>0. PICK b \in BOOLEAN : b = alone BY DEF alone
    <2>1. Fits([jobs[t] EXCEPT !.pc = "find", !.rows = alertRules, !.alone = b])
      BY <1>5, <1>c, AlertShape DEF ReadRules, At, AlertJobs, AlertPlaces
    <2>2. Disturb(t, [jobs[t] EXCEPT !.pc = "find", !.rows = alertRules, !.alone = b])
      BY <1>5, <2>0 DEF ReadRules, alone
    <2> HIDE DEF Fits
    <2> QED BY <1>b, <1>c, <1>5, <2>1, <2>2 DEF ReadRules, alertVars
  <1>6. ASSUME NEW t \in Threads, FindChain(t) PROVE AlertTypes'
    <2>1. jobs[t] \in AlertJobs /\ IsFiniteSet(jobs[t].rows)
      BY <1>0, <1>6, AlertShape DEF FindChain, At
    <2>2. Fits([jobs[t] EXCEPT !.pc = "save"]) /\
          \A c \in ChainIds : Fits([jobs[t] EXCEPT !.pc = "push", !.chain = c])
      BY <2>1 DEF AlertJobs, AlertPlaces
    <2>3. \E j : Fits(j) /\ Become(t, j)
      BY <1>6, <2>2 DEF FindChain, Chains
    <2> HIDE DEF Fits
    <2> QED BY <1>a, <1>c, <1>6, <2>3 DEF FindChain, alertVars
  <1>7. ASSUME NEW t \in Threads, SaveChain(t) PROVE AlertTypes'
    <2>1. jobs[t] \in AlertJobs /\ IsFiniteSet(jobs[t].rows)
      BY <1>0, <1>7, AlertShape DEF SaveChain, At
    <2>2. \A c \in ChainIds : Fits([jobs[t] EXCEPT !.pc = "push", !.chain = c])
      BY <2>1 DEF AlertJobs, AlertPlaces
    <2>3. (\E j : Fits(j) /\ Become(t, j)) /\ DOMAIN chains' = ChainIds
      BY <1>7, <1>c, <2>2 DEF SaveChain
    <2> HIDE DEF Fits
    <2> QED BY <1>a, <1>c, <1>7, <2>3 DEF SaveChain
  <1>8. ASSUME NEW t \in Threads, PushChain(t) PROVE AlertTypes'
    <2>1. jobs[t] \in AlertJobs /\ jobs[t].chain \in ChainIds
      BY <1>0, <1>8, AlertShape DEF PushChain, At
    <2>2. Fits([jobs[t] EXCEPT !.pc = "default", !.rows = {}])
      BY <2>1 DEF AlertJobs, AlertPlaces
    <2>3. DOMAIN chains' = ChainIds BY <1>8, <1>c DEF PushChain
    <2> HIDE DEF Fits
    <2> QED BY <1>a, <1>c, <1>8, <2>2, <2>3 DEF PushChain
  <1>9. ASSUME NEW t \in Threads, SetDefault(t) PROVE AlertTypes'
    <2>1. jobs[t] \in AlertJobs BY <1>9, AlertShape DEF SetDefault, At
    <2>2. Fits([jobs[t] EXCEPT !.pc = "audit", !.chain = None])
      BY <2>1 DEF AlertJobs, AlertPlaces
    <2> HIDE DEF Fits
    <2> QED BY <1>a, <1>c, <1>9, <2>2 DEF SetDefault
  <1>10. ASSUME NEW t \in Threads, AuditAlert(t) \/ AlertFails(t) PROVE AlertTypes'
    BY <1>a, <1>c, <1>f, <1>10 DEF AuditAlert, AlertFails, Finish, Killed, alertVars
  <1> QED BY <1>1, <1>2, <1>3, <1>4, <1>5, <1>6, <1>7, <1>8, <1>9, <1>10 DEF AlertsNext

LEMMA CountsInit == HandlersInit /\ AlertsInit => CountsAhead
  <1> SUFFICES ASSUME HandlersInit, AlertsInit PROVE CountsAhead OBVIOUS
  <1>1. Inserting = {} /\ alertRules = {}
    BY DEF Inserting, At, HandlersInit, AlertsInit, Free
  <1> QED BY <1>1, FS_EmptySet, FiniteThreads, AlertsAssumption DEF CountsAhead

LEMMA CountsStep ==
  AlertTypes /\ CountsAhead /\ [AlertsNext]_<<alertVars, handlerVars>> => CountsAhead'
  <1> SUFFICES ASSUME AlertTypes, CountsAhead, [AlertsNext]_<<alertVars, handlerVars>>
               PROVE  CountsAhead'
    OBVIOUS
  <1> DEFINE rules == Cardinality(alertRules)
             ahead == Cardinality(Inserting)
  <1>0. /\ rules \in Nat /\ ahead \in Nat /\ RuleLimit \in Nat
        /\ Inserting' \in SUBSET Threads /\ Cardinality(Inserting') \in Nat
        /\ IsFiniteSet(Inserting) /\ IsFiniteSet(alertRules)
    BY FiniteThreads, FS_CardinalityType, AlertsAssumption DEF Inserting, AlertTypes
  <1>a. ASSUME Inserting' \subseteq Inserting, alertRules' \subseteq alertRules PROVE CountsAhead'
    <2>1. Cardinality(Inserting') <= ahead BY <1>0, <1>a, FS_Subset
    <2>2. Cardinality(alertRules') <= rules /\ Cardinality(alertRules') \in Nat
      BY <1>0, <1>a, FS_Subset, FS_CardinalityType
    <2> QED BY <1>0, <2>1, <2>2, FiniteThreads DEF CountsAhead
  <1>b. ASSUME NEW t \in Threads, NEW j \in AlertJobs \cup {Free},
               Become(t, j) \/ Disturb(t, j), j.pc # "insert"
        PROVE  Inserting' = Inserting \ {t}
    <2>1. /\ jobs'[t] = j
          /\ \A s \in Threads \ {t} : jobs'[s].pc = jobs[s].pc
      BY <1>b, Becomes, Disturbed
    <2> QED BY <1>b, <2>1 DEF Inserting, At
  <1>1. ASSUME NEW t \in Threads, CountRules(t) PROVE CountsAhead'
    <2>1. rules < RuleLimit /\ UNCHANGED alertRules
      BY <1>0, <1>1 DEF CountRules, Full, alertVars
    <2> QED BY <1>0, <2>1, FiniteThreads DEF CountsAhead
  <1>2. ASSUME NEW t \in Threads, NEW r \in RuleIds, InsertRule(t, r) PROVE CountsAhead'
    <2>1. [jobs[t] EXCEPT !.pc = "read"] \in AlertJobs /\ [jobs[t] EXCEPT !.pc = "read"].pc = "read"
      BY <1>2, AlertShape DEF InsertRule, At, AlertJobs, AlertPlaces
    <2>2. Inserting' = Inserting \ {t} BY <1>2, <1>b, <2>1 DEF InsertRule
    <2>3. t \in Inserting BY <1>2 DEF InsertRule, Inserting
    <2>4. Cardinality(Inserting') = ahead - 1 BY <1>0, <2>2, <2>3, FS_RemoveElement
    <2>5. /\ Cardinality(alertRules') <= rules + 1 /\ Cardinality(alertRules') \in Nat
      <3>1. alertRules' = alertRules \cup {r} BY <1>2 DEF InsertRule
      <3>2. /\ IsFiniteSet(alertRules')
            /\ Cardinality(alertRules') = IF r \in alertRules THEN rules ELSE rules + 1
        BY <1>0, <3>1, FS_AddElement
      <3> QED BY <1>0, <3>2
    <2> QED BY <1>0, <2>4, <2>5, FiniteThreads DEF CountsAhead
  <1>3. ASSUME NEW t \in Threads, NEW r \in RuleIds, LoadRule(t, r) PROVE CountsAhead'
    <2>1. AlertJob("erase", r) \in AlertJobs /\ AlertJob("erase", r).pc = "erase"
      BY DEF AlertJob, AlertJobs, AlertPlaces
    <2> QED BY <1>a, <1>b, <1>3, <2>1 DEF LoadRule, Start, alertVars
  <1>4. ASSUME NEW t \in Threads, EraseRule(t) PROVE CountsAhead'
    <2> DEFINE j == [jobs[t] EXCEPT !.pc = "read", !.rule = None]
    <2>1. j \in AlertJobs /\ j.pc = "read"
      BY <1>4, AlertShape DEF EraseRule, At, AlertJobs, AlertPlaces
    <2> HIDE DEF j
    <2>2. Inserting' = Inserting \ {t} BY <1>4, <1>b, <2>1 DEF EraseRule, j
    <2> QED BY <1>a, <1>4, <2>2 DEF EraseRule
  <1>5. ASSUME NEW t \in Threads, ReadRules(t) PROVE CountsAhead'
    <2>1. PICK b \in BOOLEAN : b = (\A s \in Threads \ {t} : ~Applying(s)) OBVIOUS
    <2> DEFINE j == [jobs[t] EXCEPT !.pc = "find", !.rows = alertRules, !.alone = b]
    <2>2. j \in AlertJobs /\ j.pc = "find"
      BY <1>5, AlertShape DEF ReadRules, At, AlertJobs, AlertPlaces, AlertTypes
    <2>3. Disturb(t, j) BY <1>5, <2>1 DEF ReadRules
    <2> HIDE DEF j
    <2>4. Inserting' = Inserting \ {t} BY <1>b, <2>2, <2>3
    <2> QED BY <1>a, <1>5, <2>4 DEF ReadRules, alertVars
  <1>6. ASSUME NEW t \in Threads,
               FindChain(t) \/ SaveChain(t) \/ PushChain(t) \/ SetDefault(t)
        PROVE  CountsAhead'
    <2>1. \E j : Become(t, j) /\ j.pc # "insert"
      <3>1. jobs[t] \in AlertJobs
        BY <1>6, AlertShape DEF FindChain, SaveChain, PushChain, SetDefault, At
      <3>2. /\ [jobs[t] EXCEPT !.pc = "save"].pc = "save"
            /\ \A c : [jobs[t] EXCEPT !.pc = "push", !.chain = c].pc = "push"
            /\ [jobs[t] EXCEPT !.pc = "default", !.rows = {}].pc = "default"
            /\ [jobs[t] EXCEPT !.pc = "audit", !.chain = None].pc = "audit"
        BY <3>1 DEF AlertJobs
      <3> QED BY <1>6, <3>2 DEF FindChain, SaveChain, PushChain, SetDefault
    <2>2. Inserting' \subseteq Inserting BY <2>1 DEF Become, Inserting, At, AlertTypes
    <2> QED BY <1>a, <1>6, <2>2 DEF FindChain, SaveChain, PushChain, SetDefault, alertVars
  <1>7. ASSUME NEW t \in Threads, AuditAlert(t) \/ AlertFails(t) PROVE CountsAhead'
    <2>1. Free.pc = "idle" BY DEF Free
    <2>2. Inserting' = Inserting \ {t}
      BY <1>7, <1>b, <2>1 DEF AuditAlert, AlertFails, Finish, Killed
    <2> QED BY <1>a, <1>7, <2>2 DEF AuditAlert, AlertFails, alertVars
  <1>8. CASE UNCHANGED <<alertVars, handlerVars>>
    BY <1>a, <1>8 DEF alertVars, handlerVars, Inserting, At
  <1> QED BY <1>1, <1>2, <1>3, <1>4, <1>5, <1>6, <1>7, <1>8 DEF AlertsNext

(***************************************************************************)
(* Whatever the number of rules and handlers and however creations,        *)
(* deletions and failures interleave, a project has at most the limit of   *)
(* alert rules and one more for each further handler (create_alert, which  *)
(* counts, then commits).                                                  *)
(***************************************************************************)
THEOREM LimitNearlyKept == AlertsSpec => []RulesBounded
  <1>1. AlertTypes /\ CountsAhead => RulesBounded
    <2> SUFFICES ASSUME AlertTypes, CountsAhead PROVE RulesBounded OBVIOUS
    <2>1. Cardinality(Inserting) \in Nat /\ Cardinality(alertRules) \in Nat
      BY FiniteThreads, FS_CardinalityType DEF Inserting, AlertTypes
    <2> QED BY <2>1, FiniteThreads, AlertsAssumption DEF CountsAhead, RulesBounded
  <1> QED BY AlertTypesInit, AlertTypesStep, CountsInit, CountsStep, <1>1, PTL DEF AlertsSpec

-----------------------------------------------------------------------------
(* The rendered chain.                                                     *)

Kinds == {"switch", "timeseries", "attributes", "filter", "alarm", "compose", "send", "call"}
Labels == {"Post telemetry", "Post attributes", "Success", "True", "Created"}
Nodes == Kinds \X (RuleIds \cup {None})
Metadata == [nodes : Seq(Nodes), links : SUBSET (Nat \X Nat \X Labels)]

\* what a chain for the rules in R looks like
Renders(m, R) ==
  /\ m \in Metadata /\ IsTree(m)
  /\ Len(m.nodes) >= 3 /\ m.nodes[2] = <<"timeseries", None>>
  /\ \A n \in DOMAIN m.nodes : m.nodes[n][2] \in R \cup {None}
  /\ \A r \in R : Carries(m, r)

\* a node that hangs from one it may hang from
LEMMA HangKeepsTree ==
  ASSUME NEW m \in Metadata, IsTree(m), NEW parent \in DOMAIN m.nodes,
         NEW label \in Labels, NEW kind \in Kinds, NEW r \in RuleIds,
         m.nodes[parent][1] = Above[kind], m.nodes[parent][2] \in {r, None}
  PROVE  LET h == Hang(m, parent, label, kind, r)
         IN /\ h \in Metadata /\ IsTree(h)
            /\ Len(h.nodes) = Len(m.nodes) + 1
            /\ h.nodes[Len(m.nodes) + 1] = <<kind, r>>
            /\ \A n \in 1 .. Len(m.nodes) : h.nodes[n] = m.nodes[n]
            /\ \A x : KindsOf(h, x) = KindsOf(m, x) \cup (IF x = r THEN {kind} ELSE {})
  <1> DEFINE h == Hang(m, parent, label, kind, r)
             k == Len(m.nodes) + 1
             link == <<parent, k, label>>
  <1>0. /\ m.nodes \in Seq(Nodes) /\ Len(m.nodes) \in Nat /\ DOMAIN m.nodes = 1 .. Len(m.nodes)
        /\ <<kind, r>> \in Nodes /\ parent \in Nat /\ parent < k /\ k \in Nat
    BY DEF Metadata, Nodes
  <1>1. /\ h.nodes \in Seq(Nodes) /\ Len(h.nodes) = k /\ DOMAIN h.nodes = 1 .. k
        /\ h.nodes[k] = <<kind, r>>
        /\ \A n \in 1 .. Len(m.nodes) : h.nodes[n] = m.nodes[n]
    BY <1>0, AppendProperties DEF Hang
  <1>2. h.links = m.links \cup {link} /\ link \in Nat \X Nat \X Labels
    BY <1>0 DEF Hang
  <1>3. h \in Metadata
    <2>1. h = [nodes |-> h.nodes, links |-> h.links] BY DEF Hang
    <2>2. h.links \in SUBSET (Nat \X Nat \X Labels) BY <1>2 DEF Metadata
    <2> QED BY <1>1, <2>1, <2>2 DEF Metadata
  <1>4. /\ \A l \in m.links : l[1] \in 1 .. Len(m.nodes) /\ l[2] \in 1 .. Len(m.nodes)
        /\ link[1] = parent /\ link[2] = k
    BY <1>0 DEF IsTree
  <1>5. \A l \in h.links : {l[1], l[2]} \subseteq DOMAIN h.nodes
    BY <1>0, <1>1, <1>2, <1>4
  <1>6. ASSUME NEW n \in DOMAIN h.nodes \ {1}
        PROVE  LET up == {l[1] : l \in {l \in h.links : l[2] = n}} IN
               \E p \in up : /\ up = {p} /\ p < n
                             /\ h.nodes[p][1] = Above[h.nodes[n][1]]
                             /\ h.nodes[p][2] \in {h.nodes[n][2], None}
    <2>1. CASE n = k
      <3>1. {l[1] : l \in {l \in h.links : l[2] = n}} = {parent}
        BY <1>0, <1>2, <1>4, <2>1
      <3>2. h.nodes[parent] = m.nodes[parent] /\ h.nodes[n] = <<kind, r>>
        BY <1>0, <1>1, <2>1
      <3>3. h.nodes[n][1] = kind /\ h.nodes[n][2] = r BY <3>2
      <3>4. /\ parent < n /\ h.nodes[parent][1] = Above[h.nodes[n][1]]
            /\ h.nodes[parent][2] \in {h.nodes[n][2], None}
        BY <1>0, <2>1, <3>2, <3>3
      <3> HIDE DEF h
      <3> QED BY <3>1, <3>4
    <2>2. CASE n # k
      <3>1. n \in DOMAIN m.nodes \ {1} BY <1>0, <1>1, <2>2
      <3>2. {l \in h.links : l[2] = n} = {l \in m.links : l[2] = n}
        BY <1>2, <1>4, <2>2
      <3>3. PICK p \in {l[1] : l \in {l \in m.links : l[2] = n}} :
               /\ {l[1] : l \in {l \in m.links : l[2] = n}} = {p} /\ p < n
               /\ m.nodes[p][1] = Above[m.nodes[n][1]]
               /\ m.nodes[p][2] \in {m.nodes[n][2], None}
        BY <3>1 DEF IsTree
      <3>4. p \in 1 .. Len(m.nodes) /\ n \in 1 .. Len(m.nodes) BY <1>0, <1>4, <3>1, <3>3
      <3>5. h.nodes[p] = m.nodes[p] /\ h.nodes[n] = m.nodes[n] BY <1>1, <3>4
      <3> HIDE DEF h
      <3> QED BY <3>2, <3>3, <3>5
    <2> QED BY <2>1, <2>2
  <1>7. IsTree(h) BY <1>5, <1>6 DEF IsTree
  <1>8. ASSUME NEW x PROVE KindsOf(h, x) = KindsOf(m, x) \cup (IF x = r THEN {kind} ELSE {})
    <2> HIDE DEF h
    <2>1. \A n \in 1 .. Len(m.nodes) : h.nodes[n][1] = m.nodes[n][1] /\ h.nodes[n][2] = m.nodes[n][2]
      BY <1>1
    <2>2. h.nodes[k][1] = kind /\ h.nodes[k][2] = r BY <1>1
    <2>3. DOMAIN h.nodes = DOMAIN m.nodes \cup {k} BY <1>0, <1>1
    <2> QED BY <1>0, <2>1, <2>2, <2>3 DEF KindsOf
  <1> HIDE DEF h
  <1> QED BY <1>1, <1>3, <1>7, <1>8 DEF h

LEMMA SpineRenders == Spine \in Metadata /\ Renders(Spine, {})
  <1> DEFINE nodes == << <<"switch", None>>, <<"timeseries", None>>, <<"attributes", None>> >>
             a == <<1, 2, "Post telemetry">>
             b == <<1, 3, "Post attributes">>
  <1>1. Spine.nodes = nodes /\ Spine.links = {a, b} /\ Spine = [nodes |-> nodes, links |-> {a, b}]
    BY DEF Spine
  <1>2. /\ nodes \in Seq(Nodes) /\ Len(nodes) = 3 /\ DOMAIN nodes = 1 .. 3
        /\ nodes[1] = <<"switch", None>> /\ nodes[2] = <<"timeseries", None>>
        /\ nodes[3] = <<"attributes", None>>
    BY DEF Nodes, Kinds
  <1>3. a \in Nat \X Nat \X Labels /\ b \in Nat \X Nat \X Labels BY DEF Labels
  <1>4. a[1] = 1 /\ a[2] = 2 /\ b[1] = 1 /\ b[2] = 3 OBVIOUS
  <1> HIDE DEF nodes, a, b
  <1>5. Spine \in Metadata BY <1>1, <1>2, <1>3 DEF Metadata
  <1>6. ASSUME NEW n \in DOMAIN nodes \ {1}
        PROVE  \E p \in {l[1] : l \in {l \in {a, b} : l[2] = n}} :
                 /\ {l[1] : l \in {l \in {a, b} : l[2] = n}} = {p} /\ p < n
                 /\ nodes[p][1] = Above[nodes[n][1]]
                 /\ nodes[p][2] \in {nodes[n][2], None}
    <2>1. n \in {2, 3} BY <1>2
    <2>2. {l[1] : l \in {l \in {a, b} : l[2] = n}} = {1} BY <1>4, <2>1
    <2>3. nodes[1][1] = Above[nodes[n][1]] /\ nodes[1][2] = None BY <1>2, <2>1 DEF Above
    <2> QED BY <2>1, <2>2, <2>3
  <1>7. \A l \in {a, b} : {l[1], l[2]} \subseteq DOMAIN nodes BY <1>2, <1>4
  <1>8. IsTree(Spine) BY <1>1, <1>6, <1>7 DEF IsTree
  <1>9. \A n \in DOMAIN nodes : nodes[n][2] = None BY <1>2
  <1> QED BY <1>1, <1>2, <1>5, <1>8, <1>9 DEF Renders

\* g is m with n more nodes of the rule r, of these kinds, the last one of kind last
Grown(m, r, g, n, kinds, last) ==
  /\ g \in Metadata /\ IsTree(g) /\ Len(g.nodes) = Len(m.nodes) + n
  /\ \A i \in 1 .. Len(m.nodes) : g.nodes[i] = m.nodes[i]
  /\ \A i \in Len(m.nodes) + 1 .. Len(m.nodes) + n : g.nodes[i][2] = r
  /\ n > 0 => g.nodes[Len(m.nodes) + n] = <<last, r>>
  /\ \A x : KindsOf(g, x) = KindsOf(m, x) \cup (IF x = r THEN kinds ELSE {})

\* a node of this kind of the rule r may hang from the parent
MayHang(m, parent, kind, r) ==
  m.nodes[parent][1] = Above[kind] /\ m.nodes[parent][2] \in {r, None}

LEMMA GrownByOne ==
  ASSUME NEW m \in Metadata, NEW r \in RuleIds, NEW h, NEW n \in Nat, NEW kinds, NEW last,
         Grown(m, r, h, n, kinds, last), NEW parent \in 1 .. Len(m.nodes) + n, NEW label \in Labels,
         NEW kind \in Kinds, MayHang(h, parent, kind, r), NEW g, g = Hang(h, parent, label, kind, r),
         NEW n1 \in Nat, n1 = n + 1, NEW kinds1, kinds1 = kinds \cup {kind}
  PROVE  Grown(m, r, g, n1, kinds1, kind)
  <1> DEFINE k == Len(m.nodes)
  <1>0. k \in Nat BY DEF Metadata
  <1>1. h \in Metadata /\ IsTree(h) /\ Len(h.nodes) = k + n BY DEF Grown
  <1>2. parent \in DOMAIN h.nodes
    <2>1. h.nodes \in Seq(Nodes) BY <1>1 DEF Metadata
    <2> QED BY <1>0, <1>1, <2>1
  <1>3. /\ g \in Metadata /\ IsTree(g)
        /\ Len(g.nodes) = Len(h.nodes) + 1
        /\ g.nodes[Len(h.nodes) + 1] = <<kind, r>>
        /\ \A i \in 1 .. Len(h.nodes) : g.nodes[i] = h.nodes[i]
        /\ \A x : KindsOf(g, x) = KindsOf(h, x) \cup (IF x = r THEN {kind} ELSE {})
    <2>1. h.nodes[parent][1] = Above[kind] /\ h.nodes[parent][2] \in {r, None} BY DEF MayHang
    <2> QED BY <1>1, <1>2, <2>1, HangKeepsTree
  <1>n. k + n1 = k + n + 1
    <2> HIDE DEF k
    <2> QED BY <1>0
  <1>4. Len(g.nodes) = k + n1 /\ g.nodes[k + n1] = <<kind, r>>
    <2>1. Len(h.nodes) + 1 = k + n1 BY <1>1, <1>n
    <2> QED BY <1>3, <2>1
  <1>5. ASSUME NEW i \in k + 1 .. k + n1 PROVE g.nodes[i][2] = r
    <2>1. CASE i = k + n1
      <3>1. g.nodes[i] = <<kind, r>> BY <1>4, <2>1
      <3> QED BY <3>1
    <2>2. CASE i # k + n1
      <3>1. i \in k + 1 .. k + n /\ i \in 1 .. Len(h.nodes)
        <4> HIDE DEF k
        <4> QED BY <1>0, <1>1, <1>n, <2>2
      <3> QED BY <1>3, <3>1 DEF Grown
    <2> QED BY <2>1, <2>2
  <1>6. ASSUME NEW i \in 1 .. k PROVE g.nodes[i] = m.nodes[i]
    <2>1. i \in 1 .. Len(h.nodes) BY <1>0, <1>1
    <2> QED BY <1>3, <2>1 DEF Grown
  <1>7. ASSUME NEW x PROVE KindsOf(g, x) = KindsOf(m, x) \cup (IF x = r THEN kinds1 ELSE {})
    <2>1. KindsOf(h, x) = KindsOf(m, x) \cup (IF x = r THEN kinds ELSE {}) BY DEF Grown
    <2>2. KindsOf(g, x) = KindsOf(h, x) \cup (IF x = r THEN {kind} ELSE {}) BY <1>3
    <2> QED BY <2>1, <2>2
  <1> QED BY <1>3, <1>4, <1>5, <1>6, <1>7 DEF Grown

LEMMA AddRuleRenders ==
  ASSUME NEW R \in SUBSET RuleIds, NEW m, Renders(m, R), NEW r \in RuleIds \ R
  PROVE  Renders(AddRule(m, r), R \cup {r})
  <1> DEFINE k == Len(m.nodes)
             filter == Hang(m, 2, "Success", "filter", r)
             alarm == Hang(filter, k + 1, "True", "alarm", r)
             compose == Hang(alarm, k + 2, "Created", "compose", r)
             send == Hang(compose, k + 3, "Success", "send", r)
             call == Hang(alarm, k + 2, "Created", "call", r)
  <1>0. /\ m \in Metadata /\ IsTree(m) /\ k \in Nat /\ k >= 3 /\ None \notin RuleIds
        /\ DOMAIN m.nodes = 1 .. k /\ m.nodes[2] = <<"timeseries", None>>
    BY AlertsAssumption DEF Renders, Metadata
  <1>1. KindsOf(m, r) = {} BY <1>0 DEF KindsOf, Renders
  <1>2. Grown(m, r, m, 0, {}, "none") BY <1>0 DEF Grown
  <1>k. /\ {"filter", "alarm", "compose", "send", "call"} \subseteq Kinds
        /\ {"Success", "True", "Created"} \subseteq Labels
    BY DEF Kinds, Labels
  <1>3. Grown(m, r, filter, 1, {"filter"}, "filter")
    <2>1. 2 \in 1 .. k + 0 /\ MayHang(m, 2, "filter", r) BY <1>0 DEF Above, MayHang
    <2>2. 1 \in Nat /\ 0 \in Nat /\ 1 = 0 + 1 OBVIOUS
    <2>3. {"filter"} = {} \cup {"filter"} OBVIOUS
    <2>4. "Success" \in Labels /\ "filter" \in Kinds BY <1>k
    <2>5. filter = Hang(m, 2, "Success", "filter", r) OBVIOUS
    <2> HIDE DEF filter
    <2> QED BY <1>0, <1>2, <2>1, <2>2, <2>3, <2>4, <2>5, GrownByOne
  <1> HIDE DEF filter
  <1>4. Grown(m, r, alarm, 2, {"filter", "alarm"}, "alarm")
    <2>0. filter.nodes[k + 1] = <<"filter", r>> BY <1>3 DEF Grown
    <2>1. k + 1 \in 1 .. k + 1 /\ MayHang(filter, k + 1, "alarm", r)
      BY <1>0, <2>0 DEF Above, MayHang
    <2>2. 2 \in Nat /\ 1 \in Nat /\ 2 = 1 + 1 OBVIOUS
    <2>3. {"filter", "alarm"} = {"filter"} \cup {"alarm"} OBVIOUS
    <2>4. "True" \in Labels /\ "alarm" \in Kinds BY <1>k
    <2>5. alarm = Hang(filter, k + 1, "True", "alarm", r) OBVIOUS
    <2> HIDE DEF alarm
    <2> QED BY <1>0, <1>3, <2>1, <2>2, <2>3, <2>4, <2>5, GrownByOne
  <1> HIDE DEF alarm
  <1>5. Grown(m, r, call, 3, {"filter", "alarm", "call"}, "call")
    <2>0. alarm.nodes[k + 2] = <<"alarm", r>> BY <1>4 DEF Grown
    <2>1. k + 2 \in 1 .. k + 2 /\ MayHang(alarm, k + 2, "call", r)
      BY <1>0, <2>0 DEF Above, MayHang
    <2>2. 3 \in Nat /\ 2 \in Nat /\ 3 = 2 + 1 OBVIOUS
    <2>3. {"filter", "alarm", "call"} = {"filter", "alarm"} \cup {"call"} OBVIOUS
    <2>4. "Created" \in Labels /\ "call" \in Kinds BY <1>k
    <2>5. call = Hang(alarm, k + 2, "Created", "call", r) OBVIOUS
    <2> HIDE DEF call
    <2> QED BY <1>0, <1>4, <2>1, <2>2, <2>3, <2>4, <2>5, GrownByOne
  <1> HIDE DEF call
  <1>6. Grown(m, r, compose, 3, {"filter", "alarm", "compose"}, "compose")
    <2>0. alarm.nodes[k + 2] = <<"alarm", r>> BY <1>4 DEF Grown
    <2>1. k + 2 \in 1 .. k + 2 /\ MayHang(alarm, k + 2, "compose", r)
      BY <1>0, <2>0 DEF Above, MayHang
    <2>2. 3 \in Nat /\ 2 \in Nat /\ 3 = 2 + 1 OBVIOUS
    <2>3. {"filter", "alarm", "compose"} = {"filter", "alarm"} \cup {"compose"} OBVIOUS
    <2>4. "Created" \in Labels /\ "compose" \in Kinds BY <1>k
    <2>5. compose = Hang(alarm, k + 2, "Created", "compose", r) OBVIOUS
    <2> HIDE DEF compose
    <2> QED BY <1>0, <1>4, <2>1, <2>2, <2>3, <2>4, <2>5, GrownByOne
  <1> HIDE DEF compose
  <1>7. Grown(m, r, send, 4, {"filter", "alarm", "compose", "send"}, "send")
    <2>0. compose.nodes[k + 3] = <<"compose", r>> BY <1>6 DEF Grown
    <2>1. k + 3 \in 1 .. k + 3 /\ MayHang(compose, k + 3, "send", r)
      BY <1>0, <2>0 DEF Above, MayHang
    <2>2. 4 \in Nat /\ 3 \in Nat /\ 4 = 3 + 1 OBVIOUS
    <2>3. {"filter", "alarm", "compose", "send"} = {"filter", "alarm", "compose"} \cup {"send"} OBVIOUS
    <2>4. "Success" \in Labels /\ "send" \in Kinds BY <1>k
    <2>5. send = Hang(compose, k + 3, "Success", "send", r) OBVIOUS
    <2> HIDE DEF send
    <2> QED BY <1>0, <1>6, <2>1, <2>2, <2>3, <2>4, <2>5, GrownByOne
  <1> HIDE DEF send
  <1>8. AddRule(m, r) = [alarm |-> alarm, webhook |-> call, email |-> send][ActionOf[r]]
    <2>1. Len(filter.nodes) = k + 1 BY <1>3 DEF Grown
    <2>2. Len(alarm.nodes) = k + 2 BY <1>4 DEF Grown
    <2>3. k + 2 + 1 = k + 3 BY <1>0
    <2> QED BY <2>1, <2>2, <2>3 DEF AddRule, filter, alarm, compose, send, call
  <1>9. ActionOf[r] \in {"alarm", "email", "webhook"} BY AlertsAssumption
  <1>10. PICK n \in Nat, last \in Kinds : Grown(m, r, AddRule(m, r), n, Wanted(ActionOf[r]), last)
    <2>1. CASE ActionOf[r] = "alarm"
      <3>1. AddRule(m, r) = alarm /\ Wanted(ActionOf[r]) = {"filter", "alarm"}
        BY <1>8, <2>1 DEF Wanted
      <3> QED BY <1>4, <1>k, <3>1
    <2>2. CASE ActionOf[r] = "webhook"
      <3>1. AddRule(m, r) = call /\ Wanted(ActionOf[r]) = {"filter", "alarm", "call"}
        BY <1>8, <2>2 DEF Wanted
      <3> QED BY <1>5, <1>k, <3>1
    <2>3. CASE ActionOf[r] = "email"
      <3>1. AddRule(m, r) = send /\ Wanted(ActionOf[r]) = {"filter", "alarm", "compose", "send"}
        BY <1>8, <2>3 DEF Wanted
      <3> QED BY <1>7, <1>k, <3>1
    <2> QED BY <1>9, <2>1, <2>2, <2>3
  <1> DEFINE h == AddRule(m, r)
  <1> HIDE DEF h
  <1>11. Grown(m, r, h, n, Wanted(ActionOf[r]), last) BY <1>10 DEF h
  <1>12. DOMAIN h.nodes = 1 .. k + n /\ Len(h.nodes) = k + n
    <2>1. h.nodes \in Seq(Nodes) BY <1>11 DEF Grown, Metadata
    <2> QED BY <1>11, <2>1 DEF Grown
  <1>13. ASSUME NEW i \in DOMAIN h.nodes PROVE h.nodes[i][2] \in R \cup {r} \cup {None}
    <2>1. CASE i \in 1 .. k
      <3>1. h.nodes[i] = m.nodes[i] BY <1>11, <2>1 DEF Grown
      <3> QED BY <1>0, <2>1, <3>1 DEF Renders
    <2>2. CASE i \notin 1 .. k
      <3>1. i \in k + 1 .. k + n BY <1>0, <1>12, <2>2
      <3> QED BY <1>11, <3>1 DEF Grown
    <2> QED BY <2>1, <2>2
  <1>14. ASSUME NEW x \in R \cup {r} PROVE Carries(h, x)
    <2>1. KindsOf(h, x) = KindsOf(m, x) \cup (IF x = r THEN Wanted(ActionOf[r]) ELSE {})
      BY <1>11 DEF Grown
    <2>2. CASE x = r BY <1>1, <2>1, <2>2 DEF Carries
    <2>3. CASE x # r BY <2>1, <2>3 DEF Carries, Renders
    <2> QED BY <2>2, <2>3
  <1>15. Len(h.nodes) >= 3 /\ h.nodes[2] = <<"timeseries", None>>
    BY <1>0, <1>11, <1>12 DEF Grown
  <1> QED BY <1>11, <1>13, <1>14, <1>15 DEF Renders, Grown, h

\* the recursive definition of Rendered defines what it says
LEMMA RenderedDef ==
  ASSUME NEW order \in Seq(RuleIds)
  PROVE  /\ Rendered(order)[0] = Spine
         /\ \A n \in 1 .. Len(order) :
              Rendered(order)[n] = AddRule(Rendered(order)[n - 1], order[n])
  <1> DEFINE N == Len(order)
             Builds(g, k) ==
               g = [n \in 0 .. k |-> IF n = 0 THEN Spine ELSE AddRule(g[n - 1], order[n])]
             Bad == {k \in 0 .. N : ~\E g : Builds(g, k)}
  <1>0. N \in Nat OBVIOUS
  <1>1. ASSUME NEW k \in Bad, \A l \in Bad : k <= l PROVE FALSE
    <2>1. CASE k = 0
      <3> DEFINE g == [n \in 0 .. 0 |-> Spine]
      <3>1. Builds(g, 0) OBVIOUS
      <3> QED BY <2>1, <3>1
    <2>2. CASE k # 0
      <3>0. k \in 0 .. N BY <1>1
      <3>1. k - 1 \in 0 .. N /\ k - 1 \notin Bad
        <4> HIDE DEF Bad
        <4> QED BY <1>0, <1>1, <2>2, <3>0
      <3>2. PICK g : Builds(g, k - 1) BY <3>1
      <3> DEFINE h == [n \in 0 .. k |-> IF n = k THEN AddRule(g[k - 1], order[k]) ELSE g[n]]
      <3>3. ASSUME NEW n \in 0 .. k
            PROVE  h[n] = IF n = 0 THEN Spine ELSE AddRule(h[n - 1], order[n])
        <4>1. CASE n = k
          <5>1. k - 1 \in 0 .. k /\ k - 1 # k BY <2>2
          <5>2. h[k - 1] = g[k - 1] BY <5>1
          <5> QED BY <2>2, <4>1, <5>2
        <4>2. CASE n # k
          <5>1. n \in 0 .. k - 1 /\ k - 1 \in Nat BY <1>0, <2>2, <4>2
          <5>2. g[n] = IF n = 0 THEN Spine ELSE AddRule(g[n - 1], order[n])
            BY <3>2, <5>1
          <5>3. n # 0 => n - 1 \in 0 .. k /\ n - 1 # k BY <5>1
          <5>4. n # 0 => h[n - 1] = g[n - 1] BY <5>3
          <5> QED BY <4>2, <5>2, <5>4
        <4> QED BY <4>1, <4>2
      <3>4. Builds(h, k) BY <3>3
      <3> QED BY <3>4
    <2> QED BY <2>1, <2>2
  <1>2. Bad = {}
    <2>1. Bad \in SUBSET Nat OBVIOUS
    <2> HIDE DEF Bad
    <2>2. SUFFICES ASSUME Bad # {} PROVE FALSE OBVIOUS
    <2>3. \E n \in Bad : \A l \in Bad : n <= l BY <2>1, <2>2, LeastNumber
    <2> QED BY <1>1, <2>3
  <1>3. \E g : Builds(g, N) BY <1>0, <1>2
  <1>4. Rendered(order) = CHOOSE g : Builds(g, N) BY DEF Rendered
  <1>5. Builds(Rendered(order), N) BY <1>3, <1>4
  <1> DEFINE f == Rendered(order)
  <1> HIDE DEF f
  <1>6. f = [n \in 0 .. N |-> IF n = 0 THEN Spine ELSE AddRule(f[n - 1], order[n])]
    BY <1>5 DEF f
  <1>7. f[0] = Spine BY <1>0, <1>6
  <1>8. ASSUME NEW n \in 1 .. N PROVE f[n] = AddRule(f[n - 1], order[n])
    <2>1. n \in 0 .. N /\ n # 0 BY <1>0
    <2> QED BY <1>6, <2>1
  <1> QED BY <1>7, <1>8 DEF f

\* whatever the order the rows come in
LEMMA BuildRenders ==
  ASSUME NEW rows \in SUBSET RuleIds, IsFiniteSet(rows)
  PROVE  Renders(BuildMetadata(rows), rows)
  <1> DEFINE order == SetToSeq(rows)
             N == Cardinality(rows)
             Upto(n) == {order[i] : i \in 1 .. n}
  <1>0. N \in Nat /\ IsFiniteSet(1 .. N) /\ Cardinality(1 .. N) = N
    BY FS_CardinalityType, FS_Interval
  <1>1. order \in [1 .. N -> rows] /\ IsInjective(order)
    <2>1. PICK f \in [1 .. N -> rows] : IsInjective(f)
      BY FS_CardinalityType DEF ExistsBijection, Bijection, Injection
    <2> QED BY <2>1 DEF SetToSeq
  <1> HIDE DEF order
  <1>2. order \in Surjection(1 .. N, rows)
    BY <1>0, <1>1, FS_Injection DEF Injection
  <1>3. Upto(N) = rows BY <1>2 DEF Surjection
  <1>4. order \in Seq(RuleIds) /\ Len(order) = N BY <1>0, <1>1
  <1> DEFINE f == Rendered(order)
             Bad == {n \in 0 .. N : ~Renders(f[n], Upto(n))}
  <1>5. f[0] = Spine /\ \A n \in 1 .. N : f[n] = AddRule(f[n - 1], order[n])
    BY <1>4, RenderedDef
  <1> HIDE DEF f
  <1>6. ASSUME NEW n \in Bad, \A l \in Bad : n <= l PROVE FALSE
    <2>1. CASE n = 0
      <3>1. Upto(0) = {} OBVIOUS
      <3> QED BY <1>5, <2>1, <3>1, SpineRenders
    <2>2. CASE n # 0
      <3>0. n \in 0 .. N BY <1>6
      <3>1. n - 1 \in 0 .. N /\ n - 1 \notin Bad /\ n \in 1 .. N
        <4> HIDE DEF Bad
        <4> QED BY <1>0, <1>6, <2>2, <3>0
      <3>2. Renders(f[n - 1], Upto(n - 1)) BY <3>1
      <3>3. Upto(n - 1) \in SUBSET RuleIds /\ order[n] \in RuleIds
        BY <1>0, <1>1, <3>1
      <3>4. order[n] \notin Upto(n - 1) BY <1>0, <1>1, <3>1 DEF IsInjective
      <3>5. Upto(n) = Upto(n - 1) \cup {order[n]}
        <4>1. 1 .. n = 1 .. n - 1 \cup {n} BY <3>1
        <4> QED BY <4>1
      <3> HIDE DEF Upto
      <3>6. Renders(AddRule(f[n - 1], order[n]), Upto(n - 1) \cup {order[n]})
        BY <3>2, <3>3, <3>4, AddRuleRenders
      <3> QED BY <1>5, <3>1, <3>5, <3>6
    <2> QED BY <2>1, <2>2
  <1>7. Bad = {}
    <2>1. Bad \in SUBSET Nat OBVIOUS
    <2> HIDE DEF Bad
    <2>2. SUFFICES ASSUME Bad # {} PROVE FALSE OBVIOUS
    <2>3. \E n \in Bad : \A l \in Bad : n <= l BY <2>1, <2>2, LeastNumber
    <2> QED BY <1>6, <2>3
  <1>8. Renders(f[N], Upto(N))
    <2>1. N \in 0 .. N BY <1>0
    <2>2. N \notin Bad
      <3> HIDE DEF Bad
      <3> QED BY <1>7
    <2> HIDE DEF Upto
    <2> QED BY <2>1, <2>2
  <1> HIDE DEF Upto
  <1> QED BY <1>3, <1>8 DEF BuildMetadata, f, order

-----------------------------------------------------------------------------
(* What is in the engine.                                                  *)

TreesInv == \A c \in ChainIds : chains[c] # None => IsTree(chains[c])

\* c is a chain that carries out the rules
Carried(c) == c \in ChainIds /\ chains[c] # None /\ Renders(chains[c], alertRules)

\* how far a handler has come that nobody disturbed since it read the rules
PushAlone(t) ==
  (jobs[t].pc # "idle" /\ jobs[t].alone) =>
    /\ jobs[t].pc \notin {"insert", "erase", "read"}
    /\ \A s \in Threads \ {t} : ~Applying(s)
    /\ jobs[t].pc \in {"find", "save", "push"} => jobs[t].rows = alertRules
    /\ jobs[t].pc = "default" => Carried(jobs[t].chain)
    /\ jobs[t].pc = "audit" => Carried(defaultChain)

PushInv == \A t \in Threads : PushAlone(t)

LEMMA TreesStep ==
  AlertTypes /\ TreesInv /\ [AlertsNext]_<<alertVars, handlerVars>> => TreesInv'
  <1> SUFFICES ASSUME AlertTypes, TreesInv, AlertsNext PROVE TreesInv'
    BY DEF TreesInv, alertVars, handlerVars
  <1>1. ASSUME NEW t \in Threads, SaveChain(t) PROVE TreesInv'
    <2>1. IsTree(Spine) BY SpineRenders DEF Renders
    <2> DEFINE c == Cardinality(Chains) + 1
    <2>2. \A d \in ChainIds : chains'[d] = chains[d] \/ chains'[d] = Spine
      <3>1. \/ chains' = [chains EXCEPT ![c] = Spine]
            \/ chains' = [chains EXCEPT ![c] = Spine, ![c + 1] = Spine]
        BY <1>1 DEF SaveChain
      <3> HIDE DEF c
      <3> QED BY <3>1 DEF AlertTypes
    <2> QED BY <2>1, <2>2 DEF TreesInv
  <1>2. ASSUME NEW t \in Threads, PushChain(t) PROVE TreesInv'
    <2>1. jobs[t] \in AlertJobs /\ IsFiniteSet(jobs[t].rows) /\ jobs[t].rows \in SUBSET RuleIds
      BY <1>2, AlertShape DEF PushChain, At, AlertTypes, AlertJobs
    <2>2. IsTree(BuildMetadata(jobs[t].rows)) BY <2>1, BuildRenders DEF Renders
    <2> QED BY <1>2, <2>2 DEF PushChain, TreesInv, AlertTypes
  <1>3. CASE UNCHANGED chains BY <1>3 DEF TreesInv
  <1> QED BY <1>1, <1>2, <1>3
       DEF AlertsNext, InsertRule, LoadRule, CountRules, EraseRule, ReadRules, FindChain,
           SetDefault, AuditAlert, AlertFails, alertVars

(***************************************************************************)
(* However many rules there are and however handlers that save chains      *)
(* interleave: every chain in the engine is a tree in which each node of   *)
(* a rule hangs, through nodes of the same rule only, from that rule's     *)
(* own filter (build_metadata).                                            *)
(***************************************************************************)
THEOREM Trees == AlertsSpec => []ChainWellFormed
  <1>1. HandlersInit /\ AlertsInit => TreesInv BY DEF AlertsInit, TreesInv
  <1>2. TreesInv => ChainWellFormed BY DEF TreesInv, ChainWellFormed, Chains
  <1> QED BY AlertTypesInit, AlertTypesStep, <1>1, TreesStep, <1>2, PTL DEF AlertsSpec

\* a step that disturbs the others
LEMMA PushDisturbed ==
  ASSUME AlertTypes, NEW t \in Threads, NEW job \in AlertJobs, Disturb(t, job),
         job.alone => /\ job.pc = "find" /\ job.rows = alertRules'
                      /\ \A s \in Threads \ {t} : ~Applying(s)
  PROVE  PushInv'
  <1>1. ASSUME NEW s \in Threads \ {t} PROVE PushAlone(s)'
    <2>1. jobs'[s].pc # "idle" => ~jobs'[s].alone BY Disturbed
    <2> QED BY <2>1 DEF PushAlone
  <1>2. PushAlone(t)'
    <2>1. jobs'[t] = job /\ \A s \in Threads \ {t} : jobs'[s].pc = jobs[s].pc BY Disturbed
    <2> QED BY <2>1 DEF PushAlone, Applying
  <1> QED BY <1>1, <1>2 DEF PushInv

\* a step of a handler beside those that apply the rules
LEMMA PushBeside ==
  ASSUME AlertTypes, PushInv, NEW t \in Threads, NEW job \in AlertJobs \cup {Free},
         Become(t, job), UNCHANGED alertVars, ~Applying(t) \/ job = Free,
         job.pc # "idle" => ~job.alone /\ job.pc \in {"insert", "erase"}
  PROVE  PushInv'
  <1>1. jobs'[t] = job /\ \A s \in Threads \ {t} : jobs'[s] = jobs[s] BY Becomes
  <1>2. ~Applying(t)' BY <1>1 DEF Applying, Free
  <1>3. PushAlone(t)' BY <1>1 DEF PushAlone, Free
  <1>4. ASSUME NEW s \in Threads \ {t} PROVE PushAlone(s)'
    <2>1. PushAlone(s) BY DEF PushInv
    <2>2. \A x \in Threads \ {s} : Applying(x)' => Applying(x)
      BY <1>1, <1>2 DEF Applying
    <2>3. jobs'[s] = jobs[s] BY <1>1
    <2> QED BY <2>1, <2>2, <2>3 DEF PushAlone, Carried, alertVars
  <1> QED BY <1>3, <1>4 DEF PushInv

\* a step of one that applies them
LEMMA PushApplies ==
  ASSUME AlertTypes, PushInv, NEW t \in Threads, NEW job \in AlertJobs,
         Become(t, job), UNCHANGED alertRules, Applying(t), job.alone = jobs[t].alone,
         job.pc \in {"save", "push", "default", "audit"},
         job.alone /\ PushAlone(t) =>
           /\ job.pc \in {"find", "save", "push"} => job.rows = alertRules
           /\ job.pc = "default" => Carried(job.chain)'
           /\ job.pc = "audit" => Carried(defaultChain)'
  PROVE  PushInv'
  <1>1. jobs'[t] = job /\ \A s \in Threads \ {t} : jobs'[s] = jobs[s] BY Becomes
  <1>2. ASSUME NEW s \in Threads \ {t} PROVE PushAlone(s)'
    BY <1>1 DEF PushInv, PushAlone
  <1>3. PushAlone(t)'
    <2>1. PushAlone(t) /\ jobs[t].pc # "idle" BY DEF PushInv, Applying
    <2>2. \A s \in Threads \ {t} : Applying(s)' <=> Applying(s) BY <1>1 DEF Applying
    <2>3. job.alone => \A s \in Threads \ {t} : ~Applying(s)
      BY <2>1 DEF PushAlone
    <2> QED BY <1>1, <2>1, <2>2, <2>3 DEF PushAlone
  <1> QED BY <1>2, <1>3 DEF PushInv

LEMMA PushStep ==
  AlertTypes /\ PushInv /\ [AlertsNext]_<<alertVars, handlerVars>> => PushInv'
  <1> SUFFICES ASSUME AlertTypes, PushInv, [AlertsNext]_<<alertVars, handlerVars>> PROVE PushInv'
    OBVIOUS
  <1>1. ASSUME NEW t \in Threads, NEW r \in RuleIds, InsertRule(t, r) PROVE PushInv'
    <2> DEFINE job == [jobs[t] EXCEPT !.pc = "read"]
    <2>1. jobs[t] \in AlertJobs /\ jobs[t].pc = "insert" BY <1>1, AlertShape DEF InsertRule, At
    <2>2. job \in AlertJobs /\ job.alone = jobs[t].alone BY <2>1 DEF AlertJobs, AlertPlaces
    <2>3. ~jobs[t].alone BY <2>1 DEF PushInv, PushAlone
    <2> HIDE DEF job
    <2> QED BY <1>1, <2>2, <2>3, PushDisturbed DEF InsertRule, job
  <1>2. ASSUME NEW t \in Threads, EraseRule(t) PROVE PushInv'
    <2> DEFINE job == [jobs[t] EXCEPT !.pc = "read", !.rule = None]
    <2>1. jobs[t] \in AlertJobs /\ jobs[t].pc = "erase" BY <1>2, AlertShape DEF EraseRule, At
    <2>2. job \in AlertJobs /\ job.alone = jobs[t].alone BY <2>1 DEF AlertJobs, AlertPlaces
    <2>3. ~jobs[t].alone BY <2>1 DEF PushInv, PushAlone
    <2>4. Disturb(t, job) BY <1>2 DEF EraseRule
    <2> HIDE DEF job
    <2> QED BY <2>2, <2>3, <2>4, PushDisturbed
  <1>3. ASSUME NEW t \in Threads, ReadRules(t) PROVE PushInv'
    <2>0. PICK b \in BOOLEAN : b = (\A s \in Threads \ {t} : ~Applying(s)) OBVIOUS
    <2> DEFINE job == [jobs[t] EXCEPT !.pc = "find", !.rows = alertRules, !.alone = b]
    <2>1. jobs[t] \in AlertJobs BY <1>3, AlertShape DEF ReadRules, At
    <2>2. job \in AlertJobs /\ job.alone = b /\ job.pc = "find" /\ job.rows = alertRules
      BY <2>1 DEF AlertJobs, AlertPlaces, AlertTypes
    <2>3. Disturb(t, job) BY <1>3, <2>0 DEF ReadRules
    <2>4. alertRules' = alertRules BY <1>3 DEF ReadRules, alertVars
    <2> HIDE DEF job
    <2> QED BY <2>0, <2>2, <2>3, <2>4, PushDisturbed
  <1>4. ASSUME NEW t \in Threads, CountRules(t) PROVE PushInv'
    <2> DEFINE job == AlertJob("insert", None)
    <2>1. job \in AlertJobs /\ job.pc = "insert" /\ ~job.alone
      BY DEF AlertJob, AlertJobs, AlertPlaces
    <2>2. Become(t, job) /\ UNCHANGED alertVars /\ ~Applying(t)
      BY <1>4 DEF CountRules, Start, At, Applying
    <2> HIDE DEF job
    <2> QED BY <2>1, <2>2, PushBeside
  <1>5. ASSUME NEW t \in Threads, NEW r \in RuleIds, LoadRule(t, r) PROVE PushInv'
    <2> DEFINE job == AlertJob("erase", r)
    <2>1. job \in AlertJobs /\ job.pc = "erase" /\ ~job.alone
      BY DEF AlertJob, AlertJobs, AlertPlaces
    <2>2. Become(t, job) /\ UNCHANGED alertVars /\ ~Applying(t)
      BY <1>5 DEF LoadRule, Start, At, Applying
    <2> HIDE DEF job
    <2> QED BY <2>1, <2>2, PushBeside
  <1>6. ASSUME NEW t \in Threads, AuditAlert(t) \/ AlertFails(t) PROVE PushInv'
    BY <1>6, PushBeside DEF AuditAlert, AlertFails, Finish, Killed, Free
  <1>7. ASSUME NEW t \in Threads, FindChain(t) PROVE PushInv'
    <2>1. jobs[t] \in AlertJobs /\ jobs[t].pc = "find" BY <1>7, AlertShape DEF FindChain, At
    <2>2. PICK job : /\ Become(t, job)
                     /\ \/ job = [jobs[t] EXCEPT !.pc = "save"]
                        \/ \E c \in ChainIds : job = [jobs[t] EXCEPT !.pc = "push", !.chain = c]
      BY <1>7 DEF FindChain, Chains
    <2>3. /\ job \in AlertJobs /\ job.alone = jobs[t].alone /\ job.rows = jobs[t].rows
          /\ job.pc \in {"save", "push"}
      BY <2>1, <2>2 DEF AlertJobs, AlertPlaces
    <2>4. UNCHANGED alertRules /\ Applying(t) BY <1>7, <2>1 DEF FindChain, alertVars, Applying
    <2> QED BY <2>1, <2>2, <2>3, <2>4, PushApplies DEF PushAlone
  <1>8. ASSUME NEW t \in Threads, SaveChain(t) PROVE PushInv'
    <2>1. jobs[t] \in AlertJobs /\ jobs[t].pc = "save" BY <1>8, AlertShape DEF SaveChain, At
    <2>2. PICK c \in ChainIds : Become(t, [jobs[t] EXCEPT !.pc = "push", !.chain = c])
      BY <1>8 DEF SaveChain
    <2> DEFINE job == [jobs[t] EXCEPT !.pc = "push", !.chain = c]
    <2>3. /\ job \in AlertJobs /\ job.alone = jobs[t].alone /\ job.rows = jobs[t].rows
          /\ job.pc = "push"
      BY <2>1 DEF AlertJobs, AlertPlaces
    <2>4. UNCHANGED alertRules /\ Applying(t) BY <1>8, <2>1 DEF SaveChain, Applying
    <2> HIDE DEF job
    <2> QED BY <2>1, <2>2, <2>3, <2>4, PushApplies DEF PushAlone, job
  <1>9. ASSUME NEW t \in Threads, PushChain(t) PROVE PushInv'
    <2>1. jobs[t] \in AlertJobs /\ jobs[t].pc = "push" BY <1>9, AlertShape DEF PushChain, At
    <2>2. PICK job, c, rows :
            /\ job = [jobs[t] EXCEPT !.pc = "default", !.rows = {}]
            /\ c = jobs[t].chain /\ rows = jobs[t].rows
      OBVIOUS
    <2>3. /\ job \in AlertJobs /\ job.alone = jobs[t].alone /\ job.chain = c
          /\ job.pc = "default"
      BY <2>1, <2>2 DEF AlertJobs, AlertPlaces
    <2>4. UNCHANGED alertRules /\ Applying(t) BY <1>9, <2>1 DEF PushChain, Applying
    <2>5. c \in ChainIds /\ IsFiniteSet(rows) /\ rows \in SUBSET RuleIds /\ DOMAIN chains = ChainIds
      BY <2>1, <2>2 DEF AlertTypes, AlertJobs
    <2>6. chains'[c] = BuildMetadata(rows) BY <1>9, <2>2, <2>5 DEF PushChain
    <2>7. Renders(chains'[c], rows) /\ chains'[c] # None
      BY <2>5, <2>6, BuildRenders, ChainsAreNotNull
    <2>8. job.alone /\ PushAlone(t) => rows = alertRules BY <2>1, <2>2, <2>3 DEF PushAlone
    <2>9. job.alone /\ PushAlone(t) => Carried(job.chain)'
      BY <2>3, <2>4, <2>5, <2>7, <2>8 DEF Carried
    <2>10. Become(t, job) BY <1>9, <2>2 DEF PushChain
    <2> QED BY <2>3, <2>4, <2>9, <2>10, PushApplies
  <1>10. ASSUME NEW t \in Threads, SetDefault(t) PROVE PushInv'
    <2> DEFINE job == [jobs[t] EXCEPT !.pc = "audit", !.chain = None]
    <2>1. jobs[t] \in AlertJobs /\ jobs[t].pc = "default" BY <1>10, AlertShape DEF SetDefault, At
    <2>2. job \in AlertJobs /\ job.alone = jobs[t].alone /\ job.pc = "audit"
      BY <2>1 DEF AlertJobs, AlertPlaces
    <2>3. UNCHANGED alertRules /\ Applying(t) BY <1>10, <2>1 DEF SetDefault, Applying
    <2>4. Become(t, job) BY <1>10 DEF SetDefault
    <2>5. job.alone /\ PushAlone(t) => Carried(jobs[t].chain) BY <2>1, <2>2 DEF PushAlone
    <2>6. defaultChain' = jobs[t].chain /\ UNCHANGED <<chains, alertRules>>
      BY <1>10 DEF SetDefault
    <2>7. job.alone /\ PushAlone(t) => Carried(defaultChain)' BY <2>5, <2>6 DEF Carried
    <2> HIDE DEF job
    <2> QED BY <2>2, <2>3, <2>4, <2>7, PushApplies
  <1>11. CASE UNCHANGED <<alertVars, handlerVars>>
    BY <1>11 DEF PushInv, PushAlone, Carried, Applying, alertVars, handlerVars
  <1> QED BY <1>1, <1>2, <1>3, <1>4, <1>5, <1>6, <1>7, <1>8, <1>9, <1>10, <1>11 DEF AlertsNext

(***************************************************************************)
(* However creations and deletions interleave, fail or are killed: a       *)
(* handler that applied the rules while no other committed or applied any  *)
(* leaves as default a chain that carries out exactly the rows, whatever   *)
(* chains it found there (apply_rules).                                    *)
(***************************************************************************)
THEOREM PushIsCurrent == AlertsSpec => []AlonePushIsCurrent
  <1>1. HandlersInit /\ AlertsInit => PushInv
    BY DEF HandlersInit, PushInv, PushAlone, Free
  <1>2. PushInv => AlonePushIsCurrent
    <2> SUFFICES ASSUME PushInv, NEW t \in Threads, At(t, "audit"), jobs[t].alone
                 PROVE  /\ defaultChain \in Chains
                        /\ LET m == chains[defaultChain] IN
                           /\ \A r \in alertRules : Carries(m, r)
                           /\ \A n \in DOMAIN m.nodes : m.nodes[n][2] \in alertRules \cup {None}
      BY DEF AlonePushIsCurrent
    <2>1. Carried(defaultChain) BY DEF PushInv, PushAlone, At
    <2> QED BY <2>1 DEF Carried, Renders, Chains
  <1> QED BY AlertTypesInit, AlertTypesStep, <1>1, PushStep, <1>2, PTL DEF AlertsSpec
=============================================================================
