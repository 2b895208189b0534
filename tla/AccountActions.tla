--------------------------- MODULE AccountActions ---------------------------
(***************************************************************************)
(* The life of one account: registration, confirmation of mailed codes        *)
(* (views/, serializers/ and models/authenticated_actions.py), captchas, a    *)
(* TOTP factor, a login session, and the operator's commands, by concurrent   *)
(* workers.  A code carries the state of the account it was made for and is    *)
(* compared with the instance a request has loaded; the instance is saved      *)
(* later, with all its columns.                                              *)
(*                                                                          *)
(* Abstractions: the columns of a user that make a difference are is_active,  *)
(* credentials_changed and needs_captcha; a user that is loaded and saved by   *)
(* one statement after the other (BaseFactor) is saved in one step; every code *)
(* may arrive at any time or never, which covers its validity period; there is *)
(* one factor (a second one needs no code once MFA is enabled).                *)
(***************************************************************************)
EXTENDS Naturals

CONSTANTS
  Worker, Captcha,
  Step,             \* numbers of the time steps of TOTP codes
  NoUser, NoFactor, NoCode, NoCaptcha,
  MaxRequests       \* bound on the requests

ASSUME StepAssumption == Step \subseteq Nat \ {0} /\ MaxRequests \in Nat

Stateful == {"activate", "email", "reset", "totp", "delete"}  \* AuthenticatedUserAction
CodeKind == Stateful \cup {"confirm"}
Kind == CodeKind \cup {"register", "askreset", "settings", "verify", "unfactor"}
UserType == [active : {"pending", "yes", "no"}, changed : Nat, captcha : BOOLEAN]
FactorType == [used : BOOLEAN, last : Step \cup {0}]
CodeType == [kind : CodeKind, active : {"pending", "yes", "no"}, changed : Nat,
             domain : BOOLEAN, epoch : Nat]

ASSUME NoneAssumption ==
  NoUser \notin UserType /\ NoFactor \notin FactorType /\ NoCaptcha \notin Captcha

VARIABLES
  user,             \* row of User: is_active, credentials_changed, needs_captcha
  owns,             \* the user has a domain
  factor,           \* row of TOTPFactor: last_used is set, last_verified_timestep
  session,          \* the login token: "none", "login" (mfa = False), "mfa" (mfa = True)
  captchas,         \* rows of Captcha
  codes,            \* codes that were mailed
  job,              \* what each worker is doing
  chores,           \* the chores command has selected the account for deletion
  num,              \* number of requests so far
  epoch,            \* history: number of changes of credentials and activation
  ended,            \* history: what was locked, deleted or logged out
  raced,            \* history: rows saved from an instance that was no longer current
  solved,           \* history: how often each captcha was accepted
  accepted,         \* history: how often the code of each step was accepted
  human             \* history: a captcha was solved for the account

rows == <<user, owns, factor, session, captchas>>
history == <<epoch, ended, raced, solved, accepted, human>>
vars == <<rows, codes, job, chores, num, history>>

Idle == [stage |-> "idle", kind |-> "confirm", code |-> NoCode, user |-> NoUser,
         factor |-> NoFactor, captcha |-> NoCaptcha, passed |-> FALSE, step |-> 0, auth |-> FALSE]

At(w, stage) == job[w].stage = stage
Is(w, kind) == job[w].kind = kind
Goto(w, stage) == job' = [job EXCEPT ![w].stage = stage]
Finish(w) == job' = [job EXCEPT ![w] = Idle]

Active == user # NoUser /\ user.active = "yes"
mfa_enabled == factor # NoFactor /\ factor.used

\* What a stateful code is bound to; its kind tells what it is for.
Code(kind, u, domain) ==
  [kind |-> kind, active |-> u.active, changed |-> u.changed, domain |-> domain, epoch |-> epoch]
NoopCode == [kind |-> "confirm", active |-> "yes", changed |-> 0, domain |-> FALSE, epoch |-> 0]

Account(active, captcha) == [active |-> active, changed |-> 0, captcha |-> captcha]
\* No account yet, one that waits for its activation, and one in use.
Init ==
  /\ owns = FALSE /\ captchas = Captcha
  /\ \/ user = NoUser /\ codes = {} /\ factor = NoFactor /\ human = FALSE
     \/ \E domain \in BOOLEAN :
          /\ user = Account("pending", TRUE) /\ factor = NoFactor /\ human = FALSE
          /\ codes = {[kind |-> "activate", active |-> "pending", changed |-> 0,
                       domain |-> domain, epoch |-> 0]}
     \/ /\ user = Account("yes", FALSE) /\ codes = {} /\ human = TRUE
        /\ factor \in {NoFactor} \cup [used : BOOLEAN, last : {0}]
  /\ session = "none"
  /\ job = [w \in Worker |-> Idle] /\ chores = FALSE /\ num = 0
  /\ epoch = 0 /\ ended = {} /\ raced = {}
  /\ solved = [c \in Captcha |-> 0] /\ accepted = [s \in Step |-> 0]

-----------------------------------------------------------------------------
(* Rows                                                                     *)

\* user.save(): all columns; a row that is gone is inserted again.
SaveUser(w, new) ==
  /\ user' = new
  /\ raced' = IF job[w].user = user THEN raced ELSE raced \cup {"user"}

RemoveUserOnly ==                       \* mutant: the token stays
  /\ ~owns
  /\ user' = NoUser /\ factor' = NoFactor
  /\ ended' = ended \cup {"user"}
  /\ UNCHANGED <<owns, captchas, session>>
\* user.delete(): tokens and factors go with the user, domains protect it.
RemoveUser ==
  /\ ~owns
  /\ user' = NoUser /\ factor' = NoFactor /\ session' = "none"
  /\ ended' = ended \cup {"user"}
  /\ UNCHANGED <<owns, captchas>>

Request(w, j) ==
  /\ At(w, "idle") /\ num < MaxRequests
  /\ num' = num + 1 /\ job' = [job EXCEPT ![w] = j]
  /\ UNCHANGED <<rows, codes, chores, history>>

\* A request that carries the solution of a captcha has loaded its row.
With(j, c, next) ==
  IF c = NoCaptcha THEN [j EXCEPT !.stage = next] ELSE [j EXCEPT !.stage = "solve", !.captcha = c]

Register(w) ==
  \E c \in captchas \cup {NoCaptcha} :
    user = NoUser /\ "user" \notin ended /\ Request(w, With([Idle EXCEPT !.kind = "register"], c, "create"))

AskReset(w) ==
  \E c \in captchas : Request(w, With([Idle EXCEPT !.kind = "askreset"], c, "solve"))

AfterSolve(w) ==
  CASE Is(w, "register") -> "create" [] Is(w, "askreset") -> "issue" [] OTHER -> "act"
SolveKeeps(w) ==                        \* mutant: the captcha stays
  LET c == job[w].captcha IN
  /\ At(w, "solve")
  /\ solved' = [solved EXCEPT ![c] = @ + 1]
  /\ raced' = IF c \in captchas THEN raced ELSE raced \cup {c}
  /\ job' = [job EXCEPT ![w] = [@ EXCEPT !.passed = TRUE, !.captcha = NoCaptcha, !.stage = AfterSolve(w)]]
  /\ UNCHANGED <<rows, codes, chores, num, epoch, ended, accepted, human>>
\* verify() deletes the row and judges by the instance.
Solve(w) ==
  LET c == job[w].captcha IN
  /\ At(w, "solve")
  /\ captchas' = captchas \ {c}
  /\ solved' = [solved EXCEPT ![c] = @ + 1]
  /\ raced' = IF c \in captchas THEN raced ELSE raced \cup {c}
  /\ job' = [job EXCEPT ![w] = [@ EXCEPT !.passed = TRUE, !.captcha = NoCaptcha, !.stage = AfterSolve(w)]]
  /\ UNCHANGED <<user, owns, factor, session, codes, chores, num, epoch, ended, accepted, human>>

\* The solution is wrong or too old.
SolveFails(w) ==
  /\ At(w, "solve")
  /\ captchas' = captchas \ {job[w].captcha}
  /\ Finish(w)
  /\ UNCHANGED <<user, owns, factor, session, codes, chores, num, history>>

CreateWithoutCaptcha(w) ==              \* mutant: needs_captcha is never set
  /\ At(w, "create") /\ Finish(w)
  /\ IF user = NoUser /\ "user" \notin ended
     THEN /\ user' = [active |-> "pending", changed |-> epoch, captcha |-> FALSE]
          /\ human' = job[w].passed
          /\ \E domain \in BOOLEAN : codes' = codes \cup {Code("activate", user', domain)}
     ELSE UNCHANGED <<user, human, codes>>
  /\ UNCHANGED <<owns, factor, session, captchas, chores, num, epoch, ended, raced, solved, accepted>>
\* RegisterAccountSerializer.create, then the mail with the code.
Create(w) ==
  /\ At(w, "create") /\ Finish(w)
  /\ IF user = NoUser /\ "user" \notin ended
     THEN /\ user' = [active |-> "pending", changed |-> epoch, captcha |-> ~job[w].passed]
          /\ human' = job[w].passed
          /\ \E domain \in BOOLEAN : codes' = codes \cup {Code("activate", user', domain)}
     ELSE UNCHANGED <<user, human, codes>>
  /\ UNCHANGED <<owns, factor, session, captchas, chores, num, epoch, ended, raced, solved, accepted>>

-----------------------------------------------------------------------------
(* Mails                                                                    *)

IssueReset(w) ==
  /\ At(w, "issue") /\ Finish(w)
  /\ codes' = IF Active THEN codes \cup {Code("reset", user, FALSE)} ELSE codes
  /\ UNCHANGED <<rows, chores, num, history>>

Mail(code) ==
  /\ num < MaxRequests /\ num' = num + 1
  /\ codes' = codes \cup {code}
  /\ UNCHANGED <<rows, job, chores, history>>

\* Requests of the user that are answered by a mail.
AskDelete == Active /\ ~owns /\ Mail(Code("delete", user, FALSE))
AskEmail == Active /\ Mail(Code("email", user, FALSE))
AskFactor == Active /\ session # "none" /\ ~mfa_enabled /\ Mail(Code("totp", user, FALSE))

\* outreach-email: a code without state.
Outreach == user # NoUser /\ Mail(NoopCode)

-----------------------------------------------------------------------------
(* Confirmation of a code                                                   *)

\* AuthenticatedBasicUserActionAuthentication loads the user ...
Authenticate(w, code) ==
  /\ user # NoUser
  /\ Request(w, [Idle EXCEPT !.stage = "verified", !.kind = code.kind, !.code = code, !.user = user])

\* ... and saves email_verified before it looks at is_active.
Admitted(w) ==
  /\ job[w].user.active # "no"
  /\ Is(w, "activate") \/ job[w].user.active = "yes"
  /\ Is(w, "delete") => ~owns
SaveVerified(w) ==
  /\ At(w, "verified")
  /\ SaveUser(w, job[w].user)
  /\ IF Admitted(w) THEN Goto(w, "load") ELSE Finish(w)
  /\ UNCHANGED <<owns, factor, session, captchas, codes, chores, num, epoch, ended, solved, accepted, human>>

\* The view's serializer loads the user again.
Load(w) ==
  /\ At(w, "load")
  /\ IF user = NoUser THEN Finish(w)
     ELSE \E c \in IF Is(w, "activate") THEN captchas \cup {NoCaptcha} ELSE {NoCaptcha} :
            IF c = NoCaptcha /\ Is(w, "activate") /\ user.captcha THEN Finish(w)
            ELSE job' = [job EXCEPT ![w] = With([@ EXCEPT !.user = user], c, "act")]
  /\ UNCHANGED <<rows, codes, chores, num, history>>

\* AuthenticatedUserAction._state_fields
StateMatchesUnlocked(w) ==              \* mutant: is_active is not part of the state
  job[w].kind \in Stateful => job[w].code.changed = job[w].user.changed
StateMatches(w) ==
  job[w].kind \in Stateful =>
    job[w].code.changed = job[w].user.changed /\ job[w].code.active = job[w].user.active

ActRefused(w) ==
  /\ At(w, "act") /\ ~StateMatches(w)
  /\ Finish(w)
  /\ UNCHANGED <<rows, codes, chores, num, history>>

Acting(w, kind) == At(w, "act") /\ Is(w, kind) /\ StateMatches(w)
Bump == epoch' = epoch + 1

Activate(w) ==
  /\ Acting(w, "activate") /\ Bump
  /\ SaveUser(w, [job[w].user EXCEPT !.active = "yes", !.captcha = FALSE])
  /\ human' = (human \/ job[w].passed)
  /\ IF job[w].code.domain
     THEN Goto(w, "domain") /\ UNCHANGED codes
     ELSE /\ Finish(w)                  \* a mail if there is no password yet
          /\ codes' = codes \/ codes' = codes \cup {[Code("reset", user', FALSE) EXCEPT !.epoch = epoch']}
  /\ UNCHANGED <<owns, factor, session, captchas, chores, num, ended, solved, accepted>>

ChangeCredentialsQuietly(w) ==          \* mutant: credentials_changed is forgotten
  /\ Acting(w, "email") \/ Acting(w, "reset")
  /\ Bump /\ SaveUser(w, job[w].user)
  /\ Finish(w)
  /\ UNCHANGED <<owns, factor, session, captchas, codes, chores, num, ended, solved, accepted, human>>
\* change_email, change_password
ChangeCredentials(w) ==
  /\ Acting(w, "email") \/ Acting(w, "reset")
  /\ Bump /\ SaveUser(w, [job[w].user EXCEPT !.changed = epoch'])
  /\ Finish(w)
  /\ UNCHANGED <<owns, factor, session, captchas, codes, chores, num, ended, solved, accepted, human>>

\* TOTPFactor.save while MFA is not enabled: the user is saved first (inserted again
\* if it is gone); the code carries the name of the factor, which is unique.
CreateFactor(w) ==
  /\ Acting(w, "totp") /\ factor = NoFactor
  /\ Bump /\ SaveUser(w, [job[w].user EXCEPT !.changed = epoch'])
  /\ factor' = [used |-> FALSE, last |-> 0]
  /\ ended' = ended \ {"factor"} /\ accepted' = [s \in Step |-> 0]
  /\ Finish(w)
  /\ UNCHANGED <<owns, session, captchas, codes, chores, num, solved, human>>

DeleteUser(w) ==
  /\ Acting(w, "delete") /\ Bump /\ RemoveUser
  /\ Finish(w)
  /\ UNCHANGED <<codes, chores, num, raced, solved, accepted, human>>

\* Also: nothing to do, an address or a name that is taken, a protected domain.
ActEnds(w) ==
  /\ At(w, "act") /\ StateMatches(w) /\ job[w].kind \in {"confirm", "email", "totp", "delete"}
  /\ Finish(w)
  /\ UNCHANGED <<rows, codes, chores, num, history>>

\* _create_domain: a name that is not available costs the account.
CreateDomain(w) ==
  /\ At(w, "domain") /\ Finish(w)
  /\ \/ user # NoUser /\ owns' = TRUE /\ UNCHANGED <<user, factor, session, captchas, ended>>
     \/ RemoveUser
     \/ UNCHANGED <<rows, ended>>
  /\ UNCHANGED <<codes, chores, num, epoch, raced, solved, accepted, human>>

-----------------------------------------------------------------------------
(* The session, its user's settings and second factor                       *)

Login ==
  /\ Active /\ session = "none" /\ "session" \notin ended
  /\ session' = "login"
  /\ UNCHANGED <<user, owns, factor, captchas, codes, job, chores, num, history>>

Logout ==
  /\ session # "none"
  /\ session' = "none" /\ ended' = ended \cup {"session"}
  /\ UNCHANGED <<user, owns, factor, captchas, codes, job, chores, num, epoch, raced, solved, accepted, human>>

\* The user's domains, by other requests.
ChangeDomains ==
  /\ Active /\ owns' = ~owns
  /\ UNCHANGED <<user, factor, session, captchas, codes, job, chores, num, history>>

\* AccountView and the limit command save a user they have loaded before.
Settings(w) ==
  /\ user # NoUser
  /\ Request(w, [Idle EXCEPT !.stage = "save", !.kind = "settings", !.user = user])

Save(w) ==
  /\ At(w, "save") /\ Finish(w)
  /\ SaveUser(w, job[w].user)
  /\ UNCHANGED <<owns, factor, session, captchas, codes, chores, num, epoch, ended, solved, accepted, human>>

\* A new factor is verified by anybody who has its code.
Verify(w, s, auth) ==
  /\ factor # NoFactor /\ (factor.used => auth) /\ (auth => Active /\ session # "none")
  /\ Request(w, [Idle EXCEPT !.stage = "factor", !.kind = "verify", !.step = s,
                             !.auth = auth /\ factor.used])

LoadFactorLax(w) ==                     \* mutant: the last step is accepted again
  /\ At(w, "factor")
  /\ IF factor # NoFactor /\ factor.last <= job[w].step
     THEN job' = [job EXCEPT ![w] = [@ EXCEPT !.stage = "accept", !.factor = factor]]
     ELSE Finish(w)
  /\ UNCHANGED <<rows, codes, chores, num, history>>
LoadFactor(w) ==
  /\ At(w, "factor")
  /\ IF factor # NoFactor /\ factor.last < job[w].step
     THEN job' = [job EXCEPT ![w] = [@ EXCEPT !.stage = "accept", !.factor = factor]]
     ELSE Finish(w)
  /\ UNCHANGED <<rows, codes, chores, num, history>>

\* BaseFactor.save: enabling MFA changes the credentials.
Accept(w) ==
  /\ At(w, "accept")
  /\ IF user = NoUser THEN Finish(w) /\ UNCHANGED <<user, factor, epoch, raced, accepted>>
     ELSE /\ IF mfa_enabled THEN UNCHANGED <<user, epoch>>
             ELSE Bump /\ user' = [user EXCEPT !.changed = epoch']
          /\ factor' = [used |-> TRUE, last |-> job[w].step]
          /\ raced' = IF factor = job[w].factor THEN raced ELSE raced \cup {"factor"}
          /\ accepted' = [accepted EXCEPT ![job[w].step] = @ + 1]
          /\ IF job[w].auth THEN Goto(w, "stepup") ELSE Finish(w)
  /\ UNCHANGED <<owns, session, captchas, codes, chores, num, ended, solved, human>>

\* request.auth.save(): a session that was logged out is inserted again.
StepUp(w) ==
  /\ At(w, "stepup") /\ Finish(w)
  /\ IF user = NoUser THEN UNCHANGED <<session, raced>>
     ELSE /\ session' = "mfa"
          /\ raced' = IF session = "none" THEN raced \cup {"session"} ELSE raced
  /\ UNCHANGED <<user, owns, factor, captchas, codes, chores, num, epoch, ended, solved, accepted, human>>

Unfactor(w) ==
  /\ Active /\ factor # NoFactor /\ session # "none" /\ (mfa_enabled => session = "mfa")
  /\ Request(w, [Idle EXCEPT !.stage = "unfactor", !.kind = "unfactor", !.factor = factor])

\* BaseFactor.delete: disabling MFA changes the credentials.
DeleteFactor(w) ==
  /\ At(w, "unfactor") /\ user # NoUser /\ Finish(w)
  /\ IF job[w].factor.used \/ mfa_enabled THEN Bump ELSE UNCHANGED epoch
  /\ user' = IF job[w].factor.used THEN [user EXCEPT !.changed = epoch'] ELSE user
  /\ raced' = IF factor = job[w].factor THEN raced ELSE raced \cup {"factor"}
  /\ factor' = NoFactor /\ ended' = ended \cup {"factor"}
  /\ UNCHANGED <<owns, session, captchas, codes, chores, num, solved, accepted, human>>

\* The user is gone when the factor is saved or deleted: nothing happens.
DeleteFactorFails(w) ==
  /\ At(w, "unfactor") /\ user = NoUser /\ Finish(w)
  /\ UNCHANGED <<rows, codes, chores, num, history>>

-----------------------------------------------------------------------------
(* The operator                                                             *)

\* stop-abuse: users.update(is_active=False)
Lock ==
  /\ user # NoUser /\ user.active # "no"
  /\ user' = [user EXCEPT !.active = "no"] /\ Bump
  /\ ended' = ended \cup {"lock"}
  /\ UNCHANGED <<owns, factor, session, captchas, codes, job, chores, num, raced, solved, accepted, human>>

\* delete_never_activated_users selects the rows, then deletes them.
SelectNeverActivated ==
  /\ user # NoUser /\ user.active = "pending" /\ ~chores
  /\ chores' = TRUE
  /\ UNCHANGED <<rows, codes, job, num, history>>

DeleteNeverActivated ==
  /\ chores /\ chores' = FALSE
  /\ RemoveUser \/ UNCHANGED <<rows, ended>>
  /\ UNCHANGED <<codes, job, num, epoch, raced, solved, accepted, human>>

DeleteExpiredCaptcha ==
  /\ \E c \in captchas : captchas' = captchas \ {c}
  /\ UNCHANGED <<user, owns, factor, session, codes, job, chores, num, history>>

-----------------------------------------------------------------------------
Start(w) ==
  \/ Register(w) \/ AskReset(w) \/ Settings(w) \/ Unfactor(w)
  \/ \E code \in codes : Authenticate(w, code)
  \/ \E s \in Step, auth \in BOOLEAN : Verify(w, s, auth)

Continue(w) ==
  \/ Solve(w) \/ SolveFails(w) \/ Create(w) \/ IssueReset(w)
  \/ SaveVerified(w) \/ Load(w) \/ ActRefused(w) \/ Activate(w) \/ ChangeCredentials(w)
  \/ CreateFactor(w) \/ DeleteUser(w) \/ ActEnds(w) \/ CreateDomain(w)
  \/ Save(w) \/ LoadFactor(w) \/ Accept(w) \/ StepUp(w) \/ DeleteFactor(w) \/ DeleteFactorFails(w)

Commands == Lock \/ SelectNeverActivated \/ DeleteNeverActivated \/ DeleteExpiredCaptcha

Next ==
  \/ \E w \in Worker : Start(w) \/ Continue(w)
  \/ AskDelete \/ AskEmail \/ AskFactor \/ Outreach
  \/ Login \/ Logout \/ ChangeDomains \/ Commands

Spec == Init /\ [][Next]_vars

-----------------------------------------------------------------------------
(* Properties                                                               *)

JobType ==
  [stage : {"idle", "solve", "create", "issue", "verified", "load", "act", "domain", "save",
            "factor", "accept", "stepup", "unfactor"},
   kind : Kind, code : CodeType \cup {NoCode}, user : UserType \cup {NoUser},
   factor : FactorType \cup {NoFactor}, captcha : Captcha \cup {NoCaptcha},
   passed : BOOLEAN, step : Step \cup {0}, auth : BOOLEAN]
\* The types; factors, sessions and domains belong to an account.
TypeOK ==
  /\ user = NoUser => factor = NoFactor /\ session = "none" /\ ~owns
  /\ user \in UserType \cup {NoUser} /\ owns \in BOOLEAN
  /\ factor \in FactorType \cup {NoFactor} /\ session \in {"none", "login", "mfa"}
  /\ captchas \subseteq Captcha /\ codes \subseteq CodeType
  /\ job \in [Worker -> JobType] /\ chores \in BOOLEAN /\ num \in 0 .. MaxRequests
  /\ epoch \in Nat /\ ended \subseteq {"lock", "user", "session", "factor"}
  /\ raced \subseteq {"user", "session", "factor"} \cup Captcha
  /\ solved \in [Captcha -> Nat] /\ accepted \in [Step -> Nat] /\ human \in BOOLEAN

\* What was locked, deleted or logged out remains so, whatever codes and requests
\* are still around, unless a row was saved from an instance that had been
\* loaded before (User.save, Token.save and BaseFactor.save write all columns).
Lasting ==
  /\ "user" \notin raced =>
       /\ "lock" \in ended => user = NoUser \/ user.active = "no"
       /\ "user" \in ended => user = NoUser
  /\ "session" \in ended \ raced => session = "none"
  /\ "factor" \in ended \ raced => factor = NoFactor

\* A code acts only if neither credentials nor activation have changed since it
\* was made, thus at most once, unless the instance it was compared with is no
\* longer current.
CodesExpire ==
  [][\A w \in Worker :
       At(w, "act") /\ job'[w] # job[w] /\ epoch' # epoch =>
         \/ job[w].code.epoch = epoch \/ job[w].user # user
         \/ raced \cap {"user", "factor"} # {}]_vars

\* One captcha admits one request, unless two have loaded it before either is done.
CaptchaOnce == \A c \in Captcha \ raced : solved[c] <= 1

\* The code of a time step is accepted once by a factor, unless two verifications
\* have loaded it at the same time.
StepOnce == "factor" \in raced \/ \A s \in Step : accepted[s] <= 1

\* No account becomes active without a captcha, given at registration or with the code.
HumanFirst == Active => human
=============================================================================
