----------------------------- MODULE TbSession ------------------------------
(***************************************************************************)
(* One call of a TbClient (portal/app/tb_client.py): how it gets a token,  *)
(* what it does with a refused one and which failures it repeats.  A       *)
(* client belongs to one handler; its tokens are the handler's locals.     *)
(*                                                                         *)
(* A token is good; or near its end, when the engine still takes it but    *)
(* the client (REFRESH_SKEW_S) refreshes it first; or dead, when the       *)
(* engine refuses it and, in one that was revoked, the client cannot tell. *)
(***************************************************************************)
EXTENDS Handlers

CONSTANT MaxAttempts   \* stop_after_attempt (4)

ASSUME TbSessionAssumption == MaxAttempts \in Nat \ {0}

VARIABLE userEnabled   \* the engine: the principal may log in

sessionVars == <<userEnabled>>

Calling(t) == jobs[t].pc \in {"header", "refresh", "login", "send"}

-----------------------------------------------------------------------------
(* The environment.                                                        *)

\* tokens of calls in progress; a call that meets this is no longer smooth
Dims(t, field, state) ==
  /\ Calling(t) /\ jobs[t][field] \notin {state, "none"}
  /\ Become(t, [jobs[t] EXCEPT ![field] = state, !.smooth = FALSE])
  /\ Fault /\ UNCHANGED sessionVars

\* time passes, or the engine is restarted, or the user changed or disabled
AccessAges(t) == \E s \in {"near", "expired", "revoked"} : Dims(t, "access", s)
RefreshDies(t) == Dims(t, "renewal", "dead")
Disable ==
  /\ userEnabled /\ userEnabled' = FALSE
  /\ jobs' = [t \in Threads |-> IF Calling(t) THEN [jobs[t] EXCEPT !.smooth = FALSE] ELSE jobs[t]]
  /\ UNCHANGED faults
Enable == ~userEnabled /\ userEnabled' = TRUE /\ UNCHANGED handlerVars

-----------------------------------------------------------------------------
(* The call.                                                               *)

\* _request begins, in whatever state the client's tokens are.  An
\* impersonated client has no password and always has tokens.
BeginCall(t) ==
  /\ \E access \in {"none", "good", "near", "expired", "revoked"},
        renewal \in {"none", "good", "dead"}, password \in BOOLEAN :
       /\ (access = "none") = (renewal = "none")
       /\ access = "none" => password
       /\ Start(t, [pc |-> "header", access |-> access, renewal |-> renewal,
                    password |-> password, attempt |-> 1, again |-> FALSE, next |-> "send",
                    executed |-> 0, lost |-> 0,
                    smooth |-> userEnabled /\ (password \/ renewal = "good")])
  /\ UNCHANGED sessionVars

\* transport errors and 502-504 are repeated, from the first line of _request
Retried(j) == IF j.attempt < MaxAttempts
              THEN [j EXCEPT !.pc = "header", !.attempt = @ + 1, !.again = FALSE]
              ELSE [j EXCEPT !.pc = "unanswered"]
Ended(j, pc) == [j EXCEPT !.pc = pc]

\* a request without an answer, or with a server error; it may have been
\* carried out.  Another error than those above ends the call.
NoAnswer(t, j) ==
  LET k == [j EXCEPT !.smooth = FALSE] IN
  Fault /\ (Become(t, Retried(k)) \/ Become(t, Ended(k, "unanswered")))

\* _auth_header: what comes first, and where it leads
Header(t) ==
  LET to(pc, next) == Become(t, [jobs[t] EXCEPT !.pc = pc, !.next = next]) IN
  /\ At(t, "header")
  /\ CASE jobs[t].access = "none" -> to("login", "header")
       [] jobs[t].access \in {"near", "expired"} -> to("refresh", "send")
       [] OTHER -> to("send", "send")
  /\ UNCHANGED <<sessionVars, faults>>

NewTokens(j) == [j EXCEPT !.access = "good", !.renewal = "good"]

\* A variant for mutation: a refused refresh ends the call.
RenewOnly(t) ==
  LET j == jobs[t] IN
  /\ At(t, "refresh")
  /\ \/ /\ UNCHANGED faults
        /\ IF j.renewal = "good" /\ userEnabled
           THEN Become(t, [NewTokens(j) EXCEPT !.pc = j.next])
           ELSE Become(t, Ended(j, "denied"))
     \/ NoAnswer(t, j)
  /\ UNCHANGED sessionVars

\* refresh: a 401 leads to a login
Renew(t) ==
  LET j == jobs[t] IN
  /\ At(t, "refresh")
  /\ \/ /\ UNCHANGED faults
        /\ IF j.renewal = "good" /\ userEnabled
           THEN Become(t, [NewTokens(j) EXCEPT !.pc = j.next])
           ELSE Become(t, [j EXCEPT !.pc = "login"])
     \/ NoAnswer(t, j)
  /\ UNCHANGED sessionVars

\* login; without a password it is refused on the spot
TbLogin(t) ==
  LET j == jobs[t] IN
  /\ At(t, "login")
  /\ \/ /\ UNCHANGED faults
        /\ IF j.password /\ userEnabled
           THEN Become(t, [NewTokens(j) EXCEPT !.pc = j.next])
           ELSE Become(t, Ended(j, "denied"))
     \/ j.password /\ NoAnswer(t, j)
  /\ UNCHANGED sessionVars

CarriesOut(j) == [j EXCEPT !.executed = @ + 1]

\* A variant for mutation: also other errors than 502-504 are repeated.
DoneMaybe(t, j) ==
  Become(t, CarriesOut(Ended(j, "answered"))) \/ Become(t, Retried(CarriesOut(j)))

\* carried out and answered, with success or an error of the application
Done(t, j) == Become(t, CarriesOut(Ended(j, "answered")))

\* _request; a 401 leads to a refresh and a second try, once per attempt
Send(t) ==
  LET j == jobs[t]
      accepted == j.access \in {"good", "near"} /\ userEnabled
  IN /\ At(t, "send")
     /\ \/ accepted /\ Done(t, j) /\ UNCHANGED faults
        \/ accepted /\ NoAnswer(t, CarriesOut([j EXCEPT !.lost = @ + 1]))
        \/ NoAnswer(t, j)
        \/ /\ ~accepted /\ UNCHANGED faults
           /\ IF j.again THEN Become(t, Ended(j, "denied"))
              ELSE Become(t, [j EXCEPT !.pc = "refresh", !.next = "header", !.again = TRUE])
     /\ UNCHANGED sessionVars

EndCall(t) == jobs[t].pc \in {"answered", "unanswered", "denied"} /\ Finish(t) /\ UNCHANGED sessionVars

SessionInit == userEnabled \in BOOLEAN

SessionNext ==
  \/ Disable \/ Enable
  \/ \E t \in Threads :
       \/ BeginCall(t) \/ Header(t) \/ Renew(t) \/ TbLogin(t) \/ Send(t) \/ EndCall(t)
       \/ AccessAges(t) \/ RefreshDies(t)

SessionSpec ==
  HandlersInit /\ SessionInit /\ [][SessionNext]_<<handlerVars, sessionVars>>

-----------------------------------------------------------------------------
(***************************************************************************)
(* A call is carried out again only after an answer was lost, so at most   *)
(* once more than that; one that ends otherwise than with the engine's     *)
(* answer was carried out only as often as answers were lost (_request).   *)
(***************************************************************************)
RepeatedOnlyIfLost ==
  \A t \in {t \in Threads : jobs[t].pc \in {"answered", "unanswered", "denied"}} :
    jobs[t].executed = jobs[t].lost + (IF At(t, "answered") THEN 1 ELSE 0)

(***************************************************************************)
(* Whatever became of its tokens before, a client that can still renew     *)
(* them gets its answer, if the user stays enabled, no token ends under    *)
(* way and no request goes without an answer (_auth_header, refresh).      *)
(***************************************************************************)
SmoothCallsSucceed ==
  \A t \in Threads : jobs[t].pc \in {"unanswered", "denied"} => ~jobs[t].smooth
=============================================================================
