------------------------------- MODULE Setup --------------------------------
(***************************************************************************)
(* A deployment (deploy/scripts/deploy.sh) and the scripts it runs one     *)
(* after the other to configure the services: rotate_tb_sysadmin,          *)
(* setup_keycloak, setup_tb_oauth2, setup_tb_mail, setup_chirpstack and    *)
(* setup_status_page of portal/scripts.                                    *)
(*                                                                         *)
(* Each of them finds a thing and updates or creates it, with nothing held *)
(* in between and no call repeated.  A failure ends the deployment, except *)
(* in the last two scripts, where it is swallowed, and in three look-ups,  *)
(* where an error is taken for an answer.  Mail and LoRaWAN are configured *)
(* only when .env asks for them.  Deployments overlap when two people, or  *)
(* a workstation and CI, run one.                                          *)
(***************************************************************************)
EXTENDS Handlers

CONSTANT MaxEdition   \* bound on editions of the settings

ASSUME SetupAssumption == MaxEdition \in Nat /\ None \notin BOOLEAN

VARIABLES
  envFile,     \* .env: "none", "raw" (fresh from ci-env.sh) or "ready"
  edition,     \* .env: the edition of its settings and of its password, and whether
               \* it names a mail server and enables LoRaWAN
  sysadmin,    \* the engine: edition of its password, 0 for the default one
  copies,      \* how many there are of each thing
  versions,    \* the edition of the settings that each updated thing was written with
  tokenStored, \* lora_settings has the API token
  overlapped   \* two deployments were under way at once (a history)

setupVars == <<envFile, edition, sysadmin, copies, versions, tokenStored, overlapped>>
services == <<sysadmin, copies, versions, tokenStored>>

Things == {"realm", "roles", "clients", "profile", "oauth2", "domain", "mail", "chirpstack", "key",
           "monitors", "page"}
Lora == {"chirpstack", "key"}
\* the services refuse a second one of the same name
Unique == {"realm", "roles", "clients", "domain", "mail", "page"}
\* written again by every deployment; the others are left as they are
Updated == {"realm", "clients", "oauth2", "domain", "mail", "page"}
\* what .env e asks for
Asked(e) == Things \ ((IF e.mail THEN {} ELSE {"mail"}) \cup (IF e.lora THEN {} ELSE Lora))

\* a handler at a thing has not looked for it yet (seen = None), or has
GoesTo(t, place) == jobs' = [jobs EXCEPT ![t].pc = place, ![t].seen = None]
Rejected(t) == GoesTo(t, "rejected")
Over == {"done", "stopped", "rejected"}

-----------------------------------------------------------------------------
(* .env.                                                                   *)

\* what .env says then: the development defaults, among them a mail server and the
\* engine's first password, with the secrets merged into them
Unadapted ==
  [edition EXCEPT !.settings = 0, !.password = IF @ = 1 THEN 0 ELSE @, !.mail = TRUE]

BeginDeploy(t) ==
  LET others == {s \in Threads \ {t} : ~At(s, "idle")} IN
  /\ At(t, "idle")
  /\ jobs' = [jobs EXCEPT ![t] =
       [pc |-> IF envFile = "none" THEN "adapt" ELSE "rotate", seen |-> None, stored |-> FALSE,
        target |-> IF envFile = "raw" THEN Unadapted ELSE edition, unsure |-> {}]]
  /\ envFile' = IF envFile = "none" THEN "raw" ELSE envFile
  /\ overlapped' = (overlapped \/ others # {})
  /\ UNCHANGED <<edition, services, faults>>

\* ... and the sed that makes it one for production
AdaptEnv(t) ==
  /\ At(t, "adapt") /\ envFile' = "ready" /\ GoesTo(t, "rotate")
  /\ UNCHANGED <<edition, services, overlapped, faults>>

\* secrets.<domain>.env, merged by the next deployment
EditSecrets(password, mail, lora) ==
  /\ \A t \in Threads : At(t, "idle")
  /\ edition.settings < MaxEdition
  /\ edition' = [settings |-> edition.settings + 1, mail |-> mail, lora |-> lora,
                 password |-> IF password THEN edition.settings + 1 ELSE edition.password]
  /\ UNCHANGED <<envFile, services, overlapped, handlerVars>>

-----------------------------------------------------------------------------
(* The scripts, in their order.                                            *)

\* rotate_tb_sysadmin: the target works, or the default does and is changed
Rotate(t) ==
  /\ At(t, "rotate")
  /\ IF sysadmin \in {0, jobs[t].target.password}
     THEN sysadmin' = jobs[t].target.password /\ GoesTo(t, "realm")
     ELSE Rejected(t) /\ UNCHANGED sysadmin
  /\ UNCHANGED <<envFile, edition, copies, versions, tokenStored, overlapped, faults>>

\* A variant for mutation: an OAuth2 client is looked for by what it contains.
FindByContent(t, thing) ==
  /\ At(t, thing) /\ jobs[t].seen = None
  /\ jobs' = [jobs EXCEPT ![t].seen =
       copies[thing] > 0 /\ (thing = "oauth2" => versions[thing] = jobs[t].target.settings)]
  /\ UNCHANGED <<setupVars, faults>>

\* A variant for mutation: everything is created without a look.
FindNothing(t, thing) ==
  /\ At(t, thing) /\ jobs[t].seen = None
  /\ jobs' = [jobs EXCEPT ![t].seen = FALSE]
  /\ UNCHANGED <<setupVars, faults>>

\* one round trip looks for the thing ...
Find(t, thing) ==
  /\ At(t, thing) /\ jobs[t].seen = None
  /\ jobs' = [jobs EXCEPT ![t].seen = copies[thing] > 0]
  /\ UNCHANGED <<setupVars, faults>>

\* what a write does: the profile is one setting, adapted or not
Wrote(t, thing) ==
  /\ copies' = [copies EXCEPT ![thing] =
       IF jobs[t].seen THEN @ ELSE IF thing = "profile" THEN 1 ELSE @ + 1]
  /\ versions' = IF thing \in Updated
                 THEN [versions EXCEPT ![thing] = jobs[t].target.settings] ELSE versions

\* a unique one is there that was not seen
Clashes(t, thing) == ~jobs[t].seen /\ copies[thing] > 0 /\ thing \in Unique

\* ... the next one writes it, and is refused when it clashes
Write(t, thing, next) ==
  /\ At(t, thing) /\ jobs[t].seen # None
  /\ IF Clashes(t, thing) THEN Rejected(t) /\ UNCHANGED <<copies, versions>>
     ELSE GoesTo(t, next) /\ Wrote(t, thing)
  /\ UNCHANGED <<envFile, edition, sysadmin, tokenStored, overlapped, faults>>

Ensure(t, thing, next) == Find(t, thing) \/ Write(t, thing, next)

\* the script is left out
Skip(t, next) == GoesTo(t, next) /\ UNCHANGED <<setupVars, faults>>

EnsureRealm(t) == Ensure(t, "realm", "roles")
EnsureRealmRoles(t) == Ensure(t, "roles", "clients")
\* also the client's service account roles and mappers
EnsureClient(t) == Ensure(t, "clients", "profile")
EnsureUserProfile(t) == Ensure(t, "profile", "oauth2")
EnsureOauth2Client(t) == Ensure(t, "oauth2", "domain")
\* and its link to the client
EnsureDomain(t) == Ensure(t, "domain", "mail")

\* nothing to do without SMTP_HOST
ConfigureMail(t) ==
  At(t, "mail") /\ IF jobs[t].target.mail THEN Ensure(t, "mail", "lora") ELSE Skip(t, "lora")

\* LORA_ENABLED is looked at before the script is run; the script first reads
\* whether an API token is stored
ReadToken(t) ==
  /\ At(t, "lora")
  /\ IF jobs[t].target.lora
     THEN /\ jobs' = [jobs EXCEPT ![t].pc = "chirpstack", ![t].seen = None,
                             ![t].stored = tokenStored]
          /\ UNCHANGED <<setupVars, faults>>
     ELSE Skip(t, "monitors")

\* tenant, application and device profile
EnsureChirpstack(t) == Ensure(t, "chirpstack", "key")

\* create_admin_api_key, which does not look for one ...
CreateKey(t) ==
  /\ At(t, "key") /\ GoesTo(t, "commit")
  /\ copies' = [copies EXCEPT !["key"] = IF jobs[t].stored THEN @ ELSE @ + 1]
  /\ UNCHANGED <<envFile, edition, sysadmin, versions, tokenStored, overlapped, faults>>

\* ... and its token stored with the last commit
StoreToken(t) ==
  /\ At(t, "commit") /\ tokenStored' = TRUE /\ GoesTo(t, "monitors")
  /\ UNCHANGED <<envFile, edition, sysadmin, copies, versions, overlapped, faults>>

EnsureMonitors(t) == Ensure(t, "monitors", "page")
PublishPage(t) == Ensure(t, "page", "done")

-----------------------------------------------------------------------------
(* Failures.                                                               *)

\* what a failed call leads to: the last two scripts are followed by || echo
OnFailure(t) ==
  LET goes(place, unsure) ==
        Become(t, [jobs[t] EXCEPT !.pc = place, !.seen = None, !.unsure = @ \cup unsure])
  IN \/ jobs[t].pc \in {"lora", "commit"} \cup Lora /\ goes("monitors", Lora)
     \/ jobs[t].pc \in {"monitors", "page"} /\ goes("done", {"monitors", "page"})
     \/ jobs[t].pc \in ({"rotate"} \cup Things) \ (Lora \cup {"monitors", "page"})
        /\ goes("stopped", {})

\* the call that failed was carried out all the same: its answer was lost
Lost(t) ==
  \/ \E thing \in Things \ {"key"} :
       /\ At(t, thing) /\ jobs[t].seen # None /\ ~Clashes(t, thing) /\ Wrote(t, thing)
       /\ UNCHANGED <<sysadmin, tokenStored>>
  \/ /\ At(t, "rotate") /\ sysadmin = 0 /\ sysadmin' = jobs[t].target.password
     /\ UNCHANGED <<copies, versions, tokenStored>>
  \/ /\ At(t, "key") /\ ~jobs[t].stored /\ copies' = [copies EXCEPT !["key"] = @ + 1]
     /\ UNCHANGED <<sysadmin, versions, tokenStored>>
  \/ At(t, "commit") /\ tokenStored' = TRUE /\ UNCHANGED <<sysadmin, copies, versions>>

\* an error taken for an answer: any but 404 means that the roles are there, one
\* without attributes that the profile is adapted, one without an id that there
\* are no mail settings
Misread(t) ==
  \E thing \in {"roles", "profile", "mail"} :
    /\ At(t, thing) /\ jobs[t].seen = None
    /\ jobs' = [jobs EXCEPT ![t].seen = thing # "mail", ![t].unsure = @ \cup {thing}]

\* a call fails, its answer is lost, or ssh is cut off
DeployFails(t) ==
  /\ jobs[t].pc \notin {"idle"} \cup Over /\ Fault
  /\ \/ (Become(t, Free) \/ Misread(t) \/ OnFailure(t)) /\ UNCHANGED services
     \/ OnFailure(t) /\ Lost(t)
  /\ UNCHANGED <<envFile, edition, overlapped>>

DeployEnds(t) == jobs[t].pc \in Over /\ Finish(t) /\ UNCHANGED setupVars

\* a fresh host
SetupInit ==
  /\ envFile = "none" /\ sysadmin = 0 /\ tokenStored = FALSE /\ overlapped = FALSE
  /\ edition \in [settings : {1}, password : {1}, mail : BOOLEAN, lora : BOOLEAN]
  /\ copies = [x \in Things |-> 0] /\ versions = [x \in Updated |-> 0]

SetupNext ==
  \/ \E password, mail, lora \in BOOLEAN : EditSecrets(password, mail, lora)
  \/ \E t \in Threads :
       \/ BeginDeploy(t) \/ AdaptEnv(t) \/ Rotate(t) \/ DeployFails(t) \/ DeployEnds(t)
       \/ EnsureRealm(t) \/ EnsureRealmRoles(t) \/ EnsureClient(t) \/ EnsureUserProfile(t)
       \/ EnsureOauth2Client(t) \/ EnsureDomain(t) \/ ConfigureMail(t)
       \/ ReadToken(t) \/ EnsureChirpstack(t) \/ CreateKey(t) \/ StoreToken(t)
       \/ EnsureMonitors(t) \/ PublishPage(t)

SetupSpec == HandlersInit /\ SetupInit /\ [][SetupNext]_<<handlerVars, setupVars>>

-----------------------------------------------------------------------------
(***************************************************************************)
(* "Idempotent" (every script): as long as no two deployments overlapped   *)
(* there is never a second one of anything, wherever earlier ones were cut *)
(* off or failed; and of what the services keep unique there never is.     *)
(* The exception is the portal's admin key in ChirpStack, created without  *)
(* a look and known only by a row committed later (setup_chirpstack.main): *)
(* each failure may leave one more behind, and nothing else does.          *)
(***************************************************************************)
NoDuplicates ==
  \A x \in Things :
    \/ copies[x] <= IF x = "key" THEN 1 + faults ELSE 1
    \/ overlapped /\ x \notin Unique

(***************************************************************************)
(* The script called idempotent (setup_chirpstack) mints the portal's      *)
(* admin key once: as long as no two deployments overlapped there is one   *)
(* at most.                                                                *)
(***************************************************************************)
OneKey == copies["key"] <= 1 \/ overlapped

(***************************************************************************)
(* A deployment that ends, alone, leaves everything there that .env asks   *)
(* for, and what it updates in the edition of .env, whatever earlier ones  *)
(* left behind; unless the very first one was cut off between writing .env *)
(* and adapting it, which no later one does.  Excepted is what it could    *)
(* not be sure of though it went on: the roles and the profile when the    *)
(* look for them failed, and what the last two scripts do when they fail.  *)
(* Mail settings and LoRaWAN that .env does not ask for stay as they were. *)
(* It is refused only if the password in .env was changed once more after  *)
(* the engine had its first one: rotate_tb_sysadmin knows no other; or if  *)
(* mail settings were there and the look for them failed.                  *)
(***************************************************************************)
DeployConverges ==
  (~overlapped /\ envFile = "ready") =>
    \A t \in Threads :
      /\ At(t, "done") =>
           /\ sysadmin = edition.password
           /\ \A x \in Asked(edition) \ jobs[t].unsure :
                /\ copies[x] > 0 /\ (x = "key" => tokenStored)
                /\ x \in Updated => versions[x] = edition.settings
      /\ At(t, "rejected") =>
           \/ sysadmin \notin {0, edition.password}
           \/ "mail" \in jobs[t].unsure
=============================================================================
