------------------------ MODULE AccountActionsProofs ------------------------
(***************************************************************************)
(* Proofs about AccountActions, for every number of workers, captchas, time   *)
(* steps and requests.  What makes the properties inductive: what an instance  *)
(* loaded by a worker says about the account (JobsOK), that no code is bound   *)
(* to a locked account and that every change of credentials or activation      *)
(* leaves the codes of the state before behind (CodeInv), and that nothing is  *)
(* left of an account before it exists (NoAccount).                           *)
(***************************************************************************)
EXTENDS AccountActions, TLAPS

\* What a worker has at a stage.
Confirming(j) == j.stage = "solve" /\ j.kind = "activate"
HasUser(j) == j.stage \in {"verified", "act", "domain", "save"} \/ Confirming(j)
HasCode(j) == j.stage \in {"verified", "load", "act"} \/ Confirming(j)
JobOK(j) ==
  /\ HasUser(j) => j.user \in UserType
  /\ HasCode(j) => j.code \in codes /\ j.code.kind = j.kind
  /\ j.stage = "solve" => j.captcha \in Captcha /\ j.kind \in {"register", "askreset", "activate"}
  /\ j.stage \in {"factor", "accept"} => j.step \in Step
  /\ j.stage \in {"accept", "unfactor"} => j.factor \in FactorType
  /\ j.stage = "accept" => j.factor.last < j.step
JobsOK == \A w \in Worker : JobOK(job[w])

\* Before there is an account, nobody has anything of it.
NoAccount ==
  user = NoUser /\ "user" \notin ended =>
    codes = {} /\ "lock" \notin ended /\ \A w \in Worker : ~HasUser(job[w])

\* An account, or an instance of it, that needs no captcha any more.
Cleared(u) == u.captcha => u.active = "yes"
HumanInv ==
  /\ user # NoUser /\ Cleared(user) => human
  /\ \A w \in Worker :
       /\ HasUser(job[w]) /\ Cleared(job[w].user) => human
       /\ At(w, "act") /\ Is(w, "activate") /\ job[w].user.captcha => job[w].passed

CaptchaInv == CaptchaOnce /\ \A c \in captchas : solved[c] = 0

StepInv ==
  "factor" \notin raced =>
    \A s \in Step :
      accepted[s] <= 1 /\ (accepted[s] > 0 /\ factor # NoFactor => s <= factor.last)

\* Codes and the state of the account.
CodesOK ==
  \A code \in codes :
    /\ code.kind \in Stateful => code.active \in {"pending", "yes"}
    /\ code.kind = "activate" => code.active = "pending"
Current ==
  raced \cap {"user", "factor"} = {} =>
    /\ user # NoUser => user.changed <= epoch
    /\ \A code \in codes :
         /\ code.changed <= epoch
         /\ code.kind \in Stateful /\ user # NoUser =>
              /\ user.active = "pending" => code.active = "pending"
              /\ code.changed = user.changed /\ code.active = user.active => code.epoch = epoch
IInv == TypeOK /\ JobsOK /\ NoAccount /\ HumanInv /\ CaptchaInv /\ StepInv /\ CodesOK /\ Current /\ Lasting
-----------------------------------------------------------------------------
(* Workers                                                                  *)

Workers == job \in [Worker -> JobType] /\ JobsOK

LEMMA IdleOK == Idle \in JobType /\ JobOK(Idle) /\ ~HasUser(Idle) /\ ~HasCode(Idle)
BY NoneAssumption DEF Idle, JobType, JobOK, HasUser, HasCode, Confirming, Kind, CodeKind

\* One worker moves; codes are never forgotten.
LEMMA WorkerMoves ==
  ASSUME Workers, codes \subseteq codes', NEW w \in Worker, NEW j \in JobType,
         job' = [job EXCEPT ![w] = j], JobOK(j)
  PROVE  Workers' /\ job'[w] = j
<1>1. job' \in [Worker -> JobType] /\ job'[w] = j
  BY DEF Workers
<1>2. \A v \in Worker : job'[v] = job[v] \/ job'[v] = j
  BY DEF Workers
<1>3. \A v \in Worker : JobOK(job'[v])
  BY <1>2 DEF Workers, JobsOK
<1>4. ASSUME NEW i, JobOK(i) PROVE JobOK(i)'
  BY <1>4 DEF JobOK
<1>5. JobsOK'
  BY <1>3, <1>4 DEF JobsOK, JobOK
<1>6. QED BY <1>1, <1>5 DEF Workers

LEMMA WorkersStay == ASSUME Workers, job' = job, codes \subseteq codes' PROVE Workers'
<1>1. ASSUME NEW i, JobOK(i) PROVE JobOK(i)'
  BY <1>1 DEF JobOK
<1>2. QED BY <1>1 DEF Workers, JobsOK, JobOK

LEMMA WorkerFinishes ==
  ASSUME Workers, codes \subseteq codes', NEW w \in Worker, Finish(w)
  PROVE  Workers' /\ job'[w] = Idle
BY WorkerMoves, IdleOK DEF Finish

\* A worker goes on to a stage that requires no more than the one before.
LEMMA WorkerGoes ==
  ASSUME Workers, codes \subseteq codes', NEW w \in Worker,
         NEW stage \in {"load", "domain", "stepup"}, Goto(w, stage),
         stage = "load" => HasCode(job[w]), stage = "domain" => HasUser(job[w])
  PROVE  Workers' /\ job'[w] = [job[w] EXCEPT !.stage = stage]
<1> DEFINE j == [job[w] EXCEPT !.stage = stage]
<1>1. job[w] \in JobType /\ JobOK(job[w])
  BY DEF Workers, JobsOK
<1>2. j \in JobType
  BY <1>1 DEF JobType
<1>3. /\ j.stage = stage /\ j.kind = job[w].kind /\ j.user = job[w].user
      /\ j.code = job[w].code
  BY <1>1 DEF JobType
<1>4. JobOK(j)
  BY <1>1, <1>3 DEF JobOK, HasUser, HasCode, Confirming
<1>5. job' = [job EXCEPT ![w] = j]
  BY DEF Goto
<1> HIDE DEF j
<1>6. QED BY <1>2, <1>4, <1>5, WorkerMoves DEF j

LEMMA WorkerRequests ==
  ASSUME Workers, NEW w \in Worker, NEW j \in JobType, Request(w, j), JobOK(j)
  PROVE  Workers' /\ job'[w] = j
BY WorkerMoves DEF Request
\* What the steps that load something load.
LEMMA WithOK ==
  ASSUME NEW j \in JobType, JobOK(j), ~HasUser(j), ~HasCode(j), NEW c \in captchas \cup {NoCaptcha},
         captchas \subseteq Captcha, NEW next \in {"create", "solve"},
         c = NoCaptcha => next = "create", j.kind \in {"register", "askreset"}
  PROVE  With(j, c, next) \in JobType /\ JobOK(With(j, c, next))
<1>1. CASE c = NoCaptcha
  BY <1>1 DEF With, JobType, JobOK, HasUser, HasCode, Confirming
<1>2. CASE c # NoCaptcha
  BY <1>2 DEF With, JobType, JobOK, HasUser, HasCode, Confirming
<1>3. QED BY <1>1, <1>2

LEMMA StartWorkers ==
  ASSUME TypeOK, JobsOK, NEW w \in Worker, Start(w)
  PROVE  Workers'
<1>1. Workers
  BY DEF Workers, TypeOK
<1>2. CASE Register(w)
  <2> DEFINE i == [Idle EXCEPT !.kind = "register"]
  <2>1. PICK c \in captchas \cup {NoCaptcha} : Request(w, With(i, c, "create"))
    BY <1>2 DEF Register
  <2>2. i \in JobType /\ i.kind = "register" /\ i.stage = "idle"
    BY IdleOK DEF Idle, JobType, Kind
  <2>3. JobOK(i) /\ ~HasUser(i) /\ ~HasCode(i)
    BY <2>2 DEF JobOK, HasUser, HasCode, Confirming
  <2> HIDE DEF i
  <2>4. With(i, c, "create") \in JobType /\ JobOK(With(i, c, "create"))
    BY <2>2, <2>3, WithOK DEF TypeOK
  <2>5. QED BY <1>1, <2>1, <2>4, WorkerRequests
<1>3. CASE AskReset(w)
  <2> DEFINE i == [Idle EXCEPT !.kind = "askreset"]
  <2>1. PICK c \in captchas : Request(w, With(i, c, "solve"))
    BY <1>3 DEF AskReset
  <2>2. i \in JobType /\ i.kind = "askreset" /\ i.stage = "idle"
    BY IdleOK DEF Idle, JobType, Kind
  <2>3. JobOK(i) /\ ~HasUser(i) /\ ~HasCode(i)
    BY <2>2 DEF JobOK, HasUser, HasCode, Confirming
  <2> HIDE DEF i
  <2>4. c # NoCaptcha
    BY NoneAssumption DEF TypeOK
  <2>5. With(i, c, "solve") \in JobType /\ JobOK(With(i, c, "solve"))
    BY <2>2, <2>3, <2>4, WithOK DEF TypeOK
  <2>6. QED BY <1>1, <2>1, <2>5, WorkerRequests
<1>4. CASE Settings(w)
  <2> DEFINE j == [Idle EXCEPT !.stage = "save", !.kind = "settings", !.user = user]
  <2>1. j \in JobType
    BY <1>4, IdleOK DEF Settings, Idle, JobType, Kind, TypeOK
  <2>2. j.stage = "save" /\ j.user \in UserType
    BY <1>4 DEF Settings, Idle, TypeOK
  <2>3. JobOK(j)
    BY <2>2 DEF JobOK, HasCode, Confirming
  <2>4. Request(w, j)
    BY <1>4 DEF Settings
  <2> HIDE DEF j
  <2>5. QED BY <1>1, <2>1, <2>3, <2>4, WorkerRequests
<1>5. CASE Unfactor(w)
  <2> DEFINE j == [Idle EXCEPT !.stage = "unfactor", !.kind = "unfactor", !.factor = factor]
  <2>1. j \in JobType
    BY <1>5, IdleOK DEF Unfactor, Idle, JobType, Kind, TypeOK
  <2>2. j.stage = "unfactor" /\ j.factor \in FactorType
    BY <1>5 DEF Unfactor, Idle, TypeOK
  <2>3. JobOK(j)
    BY <2>2 DEF JobOK, HasUser, HasCode, Confirming
  <2>4. Request(w, j)
    BY <1>5 DEF Unfactor
  <2> HIDE DEF j
  <2>5. QED BY <1>1, <2>1, <2>3, <2>4, WorkerRequests
<1>6. ASSUME NEW code \in codes, Authenticate(w, code) PROVE Workers'
  <2> DEFINE j == [Idle EXCEPT !.stage = "verified", !.kind = code.kind, !.code = code, !.user = user]
  <2>1. code \in CodeType /\ user \in UserType
    BY <1>6 DEF Authenticate, TypeOK
  <2>2. j \in JobType
    BY <2>1, IdleOK DEF Idle, JobType, Kind, CodeType
  <2>3. j.stage = "verified" /\ j.user = user /\ j.code = code /\ j.kind = code.kind
    BY DEF Idle
  <2>4. JobOK(j)
    BY <1>6, <2>1, <2>3 DEF JobOK
  <2>5. Request(w, j)
    BY <1>6 DEF Authenticate
  <2> HIDE DEF j
  <2>6. QED BY <1>1, <2>2, <2>4, <2>5, WorkerRequests
<1>7. ASSUME NEW s \in Step, NEW auth \in BOOLEAN, Verify(w, s, auth) PROVE Workers'
  <2> DEFINE strong == auth /\ factor.used
             j == [Idle EXCEPT !.stage = "factor", !.kind = "verify", !.step = s,
                               !.auth = strong]
  <2>1. strong \in BOOLEAN /\ Request(w, j)
    BY <1>7 DEF Verify
  <2> HIDE DEF strong
  <2>2. j \in JobType
    BY <2>1, IdleOK DEF JobType, Kind
  <2>3. j.stage = "factor" /\ j.step = s
    BY DEF Idle
  <2>4. JobOK(j)
    BY <2>3 DEF JobOK, HasUser, HasCode, Confirming
  <2> HIDE DEF j
  <2>5. QED BY <1>1, <2>1, <2>2, <2>4, WorkerRequests
<1>8. QED BY <1>2, <1>3, <1>4, <1>5, <1>6, <1>7 DEF Start

LEMMA SolveWorkers ==
  ASSUME TypeOK, JobsOK, NEW w \in Worker, Solve(w)
  PROVE  /\ Workers' /\ job'[w].user = job[w].user /\ job'[w].kind = job[w].kind
         /\ \A v \in Worker : v # w => job'[v] = job[v]
         /\ job'[w].passed /\ (HasUser(job'[w]) => HasUser(job[w]))
         /\ job[w].captcha \in Captcha
<1> DEFINE next == AfterSolve(w)
           j == [job[w] EXCEPT !.passed = TRUE, !.captcha = NoCaptcha, !.stage = next]
<1>1. job[w] \in JobType /\ JobOK(job[w]) /\ Workers /\ job[w].stage = "solve"
  BY DEF Workers, TypeOK, JobsOK, Solve, At
<1>2. /\ job[w].kind = "register" => next = "create"
      /\ job[w].kind = "askreset" => next = "issue"
      /\ job[w].kind = "activate" => next = "act"
  BY DEF Is, AfterSolve
<1>3. job[w].kind \in {"register", "askreset", "activate"} /\ job[w].captcha \in Captcha
  BY <1>1 DEF JobOK
<1>4. job' = [job EXCEPT ![w] = j]
  BY DEF Solve
<1> HIDE DEF next
<1>5. j \in JobType
  BY <1>1, <1>2, <1>3 DEF JobType
<1>6. /\ j.stage = next /\ j.user = job[w].user /\ j.kind = job[w].kind /\ j.code = job[w].code
      /\ j.passed = TRUE
  BY <1>1 DEF JobType
<1>7. HasUser(j) => HasUser(job[w])
  BY <1>1, <1>2, <1>3, <1>6 DEF HasUser, Confirming
<1>8. JobOK(j)
  BY <1>1, <1>2, <1>3, <1>6 DEF JobOK, HasUser, HasCode, Confirming
<1> HIDE DEF j
<1>9. Workers' /\ job'[w] = j
  BY <1>1, <1>4, <1>5, <1>8, WorkerMoves DEF Solve
<1>10. QED BY <1>1, <1>3, <1>4, <1>6, <1>7, <1>9
\* The second load of a confirmation replaces the instance.
LEMMA LoadWorkers ==
  ASSUME TypeOK, JobsOK, NEW w \in Worker, Load(w)
  PROVE  /\ Workers' /\ (HasUser(job'[w]) => job'[w].user = user /\ user # NoUser)
         /\ \A v \in Worker : v # w => job'[v] = job[v]
         /\ job'[w].stage = "act" /\ job'[w].kind = "activate" => ~user.captcha
<1>1. job[w] \in JobType /\ JobOK(job[w]) /\ Workers /\ job[w].stage = "load"
  BY DEF Workers, TypeOK, JobsOK, Load, At
<1>2. job' \in [Worker -> JobType] /\ \A v \in Worker : v # w => job'[v] = job[v]
  <2>1. \E j : job' = [job EXCEPT ![w] = j] /\ j \in JobType
    <3>1. CASE Finish(w)
      BY <3>1, IdleOK DEF Finish
    <3>2. ASSUME NEW c \in captchas \cup {NoCaptcha}, user # NoUser,
                 job' = [job EXCEPT ![w] = With([@ EXCEPT !.user = user], c, "act")]
          PROVE  \E j : job' = [job EXCEPT ![w] = j] /\ j \in JobType
      <4>1. With([job[w] EXCEPT !.user = user], c, "act") \in JobType
        BY <1>1, <3>2 DEF With, JobType, TypeOK
      <4>2. QED BY <3>2, <4>1
    <3>3. QED BY <3>1, <3>2 DEF Load
  <2>2. QED BY <1>1, <2>1 DEF Workers
<1>3. CASE Finish(w)
  <2>1. Workers' /\ job'[w] = Idle
    BY <1>1, <1>3, WorkerFinishes DEF Load
  <2>2. Idle.stage = "idle"
    BY DEF Idle
  <2>3. QED BY <1>2, <2>1, <2>2, IdleOK
<1>4. ASSUME NEW c \in captchas \cup {NoCaptcha}, user # NoUser,
             c # NoCaptcha => Is(w, "activate"),
             c = NoCaptcha /\ Is(w, "activate") => ~user.captcha,
             job' = [job EXCEPT ![w] = With([@ EXCEPT !.user = user], c, "act")]
      PROVE  /\ Workers' /\ (HasUser(job'[w]) => job'[w].user = user /\ user # NoUser)
             /\ job'[w].stage = "act" /\ job'[w].kind = "activate" => ~user.captcha
  <2> DEFINE i == [job[w] EXCEPT !.user = user]
             j == With(i, c, "act")
  <2>1. i \in JobType /\ i.user = user /\ i.kind = job[w].kind /\ i.code = job[w].code
    BY <1>1, <1>4 DEF JobType, TypeOK
  <2>2. HasCode(job[w])
    BY <1>1 DEF HasCode
  <2> HIDE DEF i
  <2>3. /\ j \in JobType /\ j.user = user /\ j.kind = i.kind /\ j.code = i.code
        /\ j.stage = IF c = NoCaptcha THEN "act" ELSE "solve"
        /\ c # NoCaptcha => j.captcha = c
    BY <2>1 DEF With, JobType, TypeOK
  <2>4. c # NoCaptcha => c \in Captcha
    BY DEF TypeOK
  <2>5. JobOK(j)
    BY <1>1, <1>4, <2>1, <2>2, <2>3, <2>4 DEF JobOK, HasUser, HasCode, Confirming, TypeOK, Is
  <2>6. job' = [job EXCEPT ![w] = j]
    BY <1>4 DEF i
  <2>7. codes \subseteq codes'
    BY DEF Load
  <2> HIDE DEF j
  <2>8. Workers' /\ job'[w] = j
    BY <1>1, <2>3, <2>5, <2>6, <2>7, WorkerMoves
  <2>9. QED BY <1>4, <2>1, <2>3, <2>8 DEF Is
<1>5. QED BY <1>2, <1>3, <1>4 DEF Load

LEMMA LoadFactorWorkers ==
  ASSUME TypeOK, JobsOK, NEW w \in Worker, LoadFactor(w)
  PROVE  Workers'
<1>1. job[w] \in JobType /\ JobOK(job[w]) /\ Workers /\ job[w].stage = "factor"
  BY DEF Workers, TypeOK, JobsOK, LoadFactor, At
<1>2. CASE Finish(w)
  BY <1>1, <1>2, WorkerFinishes DEF LoadFactor
<1>3. CASE factor # NoFactor /\ factor.last < job[w].step
  <2> DEFINE j == [job[w] EXCEPT !.stage = "accept", !.factor = factor]
  <2>1. factor \in FactorType /\ job[w].step \in Step
    BY <1>1, <1>3 DEF TypeOK, JobOK
  <2>2. j \in JobType /\ j.stage = "accept" /\ j.factor = factor /\ j.step = job[w].step
    BY <1>1, <2>1 DEF JobType
  <2>3. job' = [job EXCEPT ![w] = j] /\ codes' = codes
    BY <1>3 DEF LoadFactor
  <2> HIDE DEF j
  <2>4. JobOK(j)
    BY <1>3, <2>1, <2>2 DEF JobOK, HasUser, HasCode, Confirming
  <2>5. QED BY <1>1, <2>2, <2>3, <2>4, WorkerMoves
<1>4. QED BY <1>2, <1>3 DEF LoadFactor

\* The other steps end a request, or go on with what they have.
Ends(w) == Finish(w) \/ \E stage \in {"load", "domain", "stepup"} :
                          /\ Goto(w, stage)
                          /\ stage = "load" => HasCode(job[w])
                          /\ stage = "domain" => HasUser(job[w])

LEMMA ContinueEnds ==
  ASSUME NEW w \in Worker, Continue(w), ~Solve(w), ~Load(w), ~LoadFactor(w)
  PROVE  Ends(w) /\ codes \subseteq codes'
<1>1. CASE SaveVerified(w)
  BY <1>1 DEF SaveVerified, Ends, At, HasCode
<1>2. CASE Activate(w)
  BY <1>2 DEF Activate, Acting, Ends, At, HasUser
<1>3. CASE Accept(w)
  BY <1>3 DEF Accept, Ends
<1>4. CASE SolveFails(w) \/ ActRefused(w) \/ ChangeCredentials(w) \/ CreateFactor(w)
  BY <1>4 DEF SolveFails, ActRefused, ChangeCredentials, CreateFactor, Ends
<1>5. CASE DeleteUser(w) \/ ActEnds(w) \/ CreateDomain(w) \/ Save(w) \/ StepUp(w)
  BY <1>5 DEF DeleteUser, ActEnds, CreateDomain, Save, StepUp, Ends
<1>6. CASE DeleteFactor(w) \/ DeleteFactorFails(w) \/ Create(w) \/ IssueReset(w)
  BY <1>6 DEF DeleteFactor, DeleteFactorFails, Create, IssueReset, Ends
<1>7. QED BY <1>1, <1>2, <1>3, <1>4, <1>5, <1>6 DEF Continue

LEMMA EndsWorkers ==
  ASSUME Workers, NEW w \in Worker, Ends(w), codes \subseteq codes'
  PROVE  /\ Workers'
         /\ \A v \in Worker : v # w => job'[v] = job[v]
         /\ HasUser(job'[w]) => HasUser(job[w]) /\ job'[w].user = job[w].user
         /\ job'[w].stage # "act"
<1>1. CASE Finish(w)
  BY <1>1, WorkerFinishes, IdleOK DEF Finish, Workers, Idle
<1>2. ASSUME NEW stage \in {"load", "domain", "stepup"}, Goto(w, stage),
             stage = "load" => HasCode(job[w]), stage = "domain" => HasUser(job[w])
      PROVE  /\ Workers'
             /\ \A v \in Worker : v # w => job'[v] = job[v]
             /\ HasUser(job'[w]) => HasUser(job[w]) /\ job'[w].user = job[w].user
             /\ job'[w].stage # "act"
  <2>1. Workers' /\ job'[w] = [job[w] EXCEPT !.stage = stage]
    BY <1>2, WorkerGoes
  <2>2. job[w] \in JobType
    BY DEF Workers
  <2>3. job'[w].stage = stage /\ job'[w].user = job[w].user
    BY <2>1, <2>2 DEF JobType
  <2>4. \A v \in Worker : v # w => job'[v] = job[v]
    BY <1>2 DEF Goto, Workers
  <2>5. HasUser(job'[w]) => HasUser(job[w])
    BY <1>2, <2>3 DEF HasUser, Confirming
  <2>6. QED BY <2>1, <2>3, <2>4, <2>5
<1>3. QED BY <1>1, <1>2 DEF Ends

LEMMA WorkersStep == TypeOK /\ JobsOK /\ [Next]_vars => Workers'
<1> SUFFICES ASSUME TypeOK, JobsOK, [Next]_vars PROVE Workers'
  OBVIOUS
<1>1. Workers
  BY DEF Workers, TypeOK
<1>2. ASSUME NEW w \in Worker, Start(w) PROVE Workers'
  BY <1>2, StartWorkers
<1>3. ASSUME NEW w \in Worker, Continue(w) PROVE Workers'
  BY <1>1, <1>3, SolveWorkers, LoadWorkers, LoadFactorWorkers, ContinueEnds, EndsWorkers
<1>4. CASE AskDelete \/ AskEmail \/ AskFactor \/ Outreach
  <2>1. job' = job /\ codes \subseteq codes'
    BY <1>4 DEF AskDelete, AskEmail, AskFactor, Outreach, Mail
  <2>2. QED BY <1>1, <2>1, WorkersStay
<1>5. CASE Login \/ Logout \/ ChangeDomains \/ Commands
  <2>1. job' = job /\ codes \subseteq codes'
    BY <1>5 DEF Login, Logout, ChangeDomains, Commands, Lock, SelectNeverActivated,
                DeleteNeverActivated, DeleteExpiredCaptcha
  <2>2. QED BY <1>1, <2>1, WorkersStay
<1>6. CASE UNCHANGED vars
  BY <1>1, <1>6, WorkersStay DEF vars
<1>7. QED BY <1>2, <1>3, <1>4, <1>5, <1>6 DEF Next
-----------------------------------------------------------------------------
(* Types                                                                    *)

LEMMA InitOK == Init => TypeOK /\ JobsOK
<1> SUFFICES ASSUME Init PROVE TypeOK /\ JobsOK
  OBVIOUS
<1>1. \A w \in Worker : job[w] = Idle
  BY DEF Init
<1>2. JobsOK
  BY <1>1, IdleOK DEF JobsOK
<1>3. job \in [Worker -> JobType]
  BY IdleOK DEF Init
<1>4. user \in UserType \cup {NoUser} /\ codes \subseteq CodeType
  <2>1. Account("yes", FALSE) \in UserType /\ Account("pending", TRUE) \in UserType
    BY DEF Account, UserType
  <2>2. \A domain \in BOOLEAN : [kind |-> "activate", active |-> "pending", changed |-> 0,
                                 domain |-> domain, epoch |-> 0] \in CodeType
    BY DEF CodeType, CodeKind, Stateful
  <2>3. user \in UserType \cup {NoUser}
    BY <2>1 DEF Init
  <2>4. codes \subseteq CodeType
    BY <2>2 DEF Init
  <2>5. QED BY <2>3, <2>4
<1>5. factor \in FactorType \cup {NoFactor}
  BY DEF Init, FactorType
<1>6. user = NoUser => factor = NoFactor /\ session = "none" /\ ~owns
  <2>1. user = NoUser \/ user \in UserType
    BY <1>4
  <2>2. Account("yes", FALSE) \in UserType /\ Account("pending", TRUE) \in UserType
    BY DEF Account, UserType
  <2>3. QED BY <2>2, NoneAssumption DEF Init
<1>7. num \in 0 .. MaxRequests
  BY StepAssumption DEF Init
<1>8. /\ owns \in BOOLEAN /\ session \in {"none", "login", "mfa"} /\ captchas \subseteq Captcha
      /\ chores \in BOOLEAN /\ epoch \in Nat /\ ended = {} /\ raced = {} /\ human \in BOOLEAN
      /\ solved \in [Captcha -> Nat] /\ accepted \in [Step -> Nat]
  BY DEF Init
<1>9. QED BY <1>2, <1>3, <1>4, <1>5, <1>6, <1>7, <1>8 DEF TypeOK

LEMMA CodeTyped ==
  ASSUME NEW kind \in Stateful, NEW u \in UserType, NEW domain \in BOOLEAN, epoch \in Nat
  PROVE  Code(kind, u, domain) \in CodeType
BY DEF Code, CodeType, UserType, CodeKind

LEMMA UserTyped ==
  ASSUME NEW u \in UserType, NEW n \in Nat
  PROVE  [u EXCEPT !.changed = n] \in UserType
BY DEF UserType

LEMMA ContinueTypes ==
  ASSUME TypeOK, JobsOK, NEW w \in Worker, Continue(w), Workers'
  PROVE  TypeOK'
<1>1. job[w] \in JobType /\ JobOK(job[w]) /\ job' \in [Worker -> JobType]
  BY DEF Workers, TypeOK, JobsOK
<1>2. HasUser(job[w]) => job[w].user \in UserType /\ job[w].user # NoUser
  BY <1>1, NoneAssumption DEF JobOK
<1>3. CASE Solve(w)
  <2>1. job[w].captcha \in Captcha
    BY <1>1, <1>3 DEF Solve, At, JobOK
  <2>2. QED BY <1>1, <1>3, <2>1 DEF Solve, TypeOK
<1>4. CASE SolveFails(w)
  BY <1>1, <1>4 DEF SolveFails, TypeOK, history
<1>5. CASE Create(w)
  <2>1. CASE user = NoUser /\ "user" \notin ended
    <3>1. user' \in UserType /\ user' # NoUser /\ human' \in BOOLEAN
      <4> DEFINE new == [active |-> "pending", changed |-> epoch, captcha |-> ~job[w].passed]
      <4>1. job[w].passed \in BOOLEAN
        BY <1>1 DEF JobType
      <4>2. new \in UserType
        BY <4>1 DEF UserType, TypeOK
      <4>3. user' = new /\ human' = job[w].passed
        BY <1>5, <2>1 DEF Create
      <4>4. QED BY <4>1, <4>2, <4>3, NoneAssumption
    <3>2. codes' \subseteq CodeType
      <4>1. PICK domain \in BOOLEAN : codes' = codes \cup {Code("activate", user', domain)}
        BY <1>5, <2>1 DEF Create
      <4>2. Code("activate", user', domain) \in CodeType
        BY <3>1, CodeTyped DEF TypeOK, Stateful
      <4>3. QED BY <4>1, <4>2 DEF TypeOK
    <3>3. QED BY <1>1, <1>5, <3>1, <3>2 DEF Create, TypeOK
  <2>2. CASE ~(user = NoUser /\ "user" \notin ended)
    BY <1>1, <1>5, <2>2 DEF Create, TypeOK
  <2>3. QED BY <2>1, <2>2
<1>6. CASE IssueReset(w)
  <2>1. Active => Code("reset", user, FALSE) \in CodeType
    BY CodeTyped DEF TypeOK, Active, Stateful
  <2>2. codes' \subseteq CodeType
    BY <1>6, <2>1 DEF IssueReset, TypeOK
  <2>3. QED BY <1>1, <1>6, <2>2 DEF IssueReset, TypeOK, rows, history
<1>7. CASE SaveVerified(w) \/ Save(w)
  <2>1. user' \in UserType /\ user' # NoUser /\ raced' \in {raced, raced \cup {"user"}}
    BY <1>2, <1>7 DEF SaveVerified, Save, SaveUser, HasUser, At
  <2>2. UNCHANGED <<owns, factor, session, captchas, codes, chores, num, epoch, ended, solved, accepted, human>>
    BY <1>7 DEF SaveVerified, Save
  <2>3. QED BY <1>1, <2>1, <2>2 DEF TypeOK
<1>8. CASE Load(w) \/ ActRefused(w) \/ ActEnds(w) \/ LoadFactor(w) \/ DeleteFactorFails(w)
  BY <1>1, <1>8 DEF Load, ActRefused, ActEnds, LoadFactor, DeleteFactorFails, TypeOK, rows, history
<1>9. CASE Activate(w)
  <2>1. user' \in UserType /\ user' # NoUser /\ raced' \in {raced, raced \cup {"user"}}
    <3> DEFINE new == [job[w].user EXCEPT !.active = "yes", !.captcha = FALSE]
    <3>1. HasUser(job[w])
      BY <1>9 DEF Activate, Acting, HasUser, At
    <3>2. new \in UserType
      BY <1>2, <3>1 DEF UserType
    <3>3. user' = new /\ raced' \in {raced, raced \cup {"user"}}
      BY <1>9 DEF Activate, SaveUser
    <3>4. QED BY <3>2, <3>3, NoneAssumption
  <2>2. epoch' \in Nat /\ human' \in BOOLEAN
    BY <1>1, <1>9 DEF Activate, Bump, TypeOK, JobType
  <2>3. codes' \subseteq CodeType
    <3> DEFINE code == [Code("reset", user', FALSE) EXCEPT !.epoch = epoch']
    <3>1. code \in CodeType
      BY <2>1, <2>2 DEF Code, CodeType, CodeKind, Stateful, UserType
    <3>2. QED BY <1>9, <3>1 DEF Activate, TypeOK
  <2>4. QED BY <1>1, <1>9, <2>1, <2>2, <2>3 DEF Activate, TypeOK
<1>10. CASE ChangeCredentials(w)
  <2>1. epoch' \in Nat /\ HasUser(job[w])
    BY <1>10 DEF ChangeCredentials, Acting, HasUser, At, Bump, TypeOK
  <2>2. user' \in UserType /\ user' # NoUser /\ raced' \in {raced, raced \cup {"user"}}
    BY <1>2, <1>10, <2>1, UserTyped, NoneAssumption DEF ChangeCredentials, SaveUser
  <2>3. QED BY <1>1, <1>10, <2>1, <2>2 DEF ChangeCredentials, TypeOK
<1>11. CASE CreateFactor(w)
  <2>1. epoch' \in Nat /\ HasUser(job[w])
    BY <1>11 DEF CreateFactor, Acting, HasUser, At, Bump, TypeOK
  <2>2. user' \in UserType /\ user' # NoUser /\ raced' \in {raced, raced \cup {"user"}}
    BY <1>2, <1>11, <2>1, UserTyped, NoneAssumption DEF CreateFactor, SaveUser
  <2>3. factor' \in FactorType /\ accepted' \in [Step -> Nat]
    BY <1>11 DEF CreateFactor, FactorType
  <2>4. QED BY <1>1, <1>11, <2>1, <2>2, <2>3 DEF CreateFactor, TypeOK
<1>12. CASE DeleteUser(w)
  <2>1. epoch' \in Nat
    BY <1>12 DEF DeleteUser, Bump, TypeOK
  <2>2. QED BY <1>1, <1>12, <2>1 DEF DeleteUser, RemoveUser, TypeOK
<1>13. CASE CreateDomain(w)
  <2>1. UNCHANGED <<codes, chores, num, epoch, raced, solved, accepted, human>>
    BY <1>13 DEF CreateDomain
  <2>2. CASE user # NoUser /\ owns' = TRUE /\ UNCHANGED <<user, factor, session, captchas, ended>>
    BY <1>1, <2>1, <2>2 DEF TypeOK
  <2>3. CASE RemoveUser
    BY <1>1, <2>1, <2>3 DEF RemoveUser, TypeOK
  <2>4. CASE UNCHANGED <<rows, ended>>
    BY <1>1, <2>1, <2>4 DEF rows, TypeOK
  <2>5. QED BY <1>13, <2>2, <2>3, <2>4 DEF CreateDomain
<1>14. CASE Accept(w)
  <2>1. CASE user = NoUser
    BY <1>1, <1>14, <2>1 DEF Accept, TypeOK
  <2>2. CASE user # NoUser
    <3>1. job[w].step \in Step
      BY <1>1, <1>14 DEF Accept, At, JobOK
    <3>2. user' \in UserType /\ user' # NoUser /\ epoch' \in Nat
      <4>1. user \in UserType /\ epoch \in Nat
        BY <2>2 DEF TypeOK
      <4>2. CASE mfa_enabled
        BY <1>14, <2>2, <4>1, <4>2 DEF Accept
      <4>3. CASE ~mfa_enabled
        <5>1. epoch' = epoch + 1 /\ user' = [user EXCEPT !.changed = epoch']
          BY <1>14, <2>2, <4>3 DEF Accept, Bump
        <5>2. epoch' \in Nat
          BY <4>1, <5>1
        <5>3. QED BY <4>1, <5>1, <5>2, UserTyped, NoneAssumption
      <4>4. QED BY <4>2, <4>3
    <3>3. factor' \in FactorType /\ accepted' \in [Step -> Nat]
      <4>1. /\ factor' = [used |-> TRUE, last |-> job[w].step]
            /\ accepted' = [accepted EXCEPT ![job[w].step] = @ + 1]
        BY <1>14, <2>2 DEF Accept
      <4>2. factor' \in FactorType
        BY <3>1, <4>1 DEF FactorType
      <4>3. accepted' \in [Step -> Nat]
        BY <3>1, <4>1 DEF TypeOK
      <4>4. QED BY <4>2, <4>3
    <3>4. raced' \in {raced, raced \cup {"factor"}}
      BY <1>14, <2>2 DEF Accept
    <3>5. QED BY <1>1, <1>14, <3>2, <3>3, <3>4 DEF Accept, TypeOK
  <2>3. QED BY <2>1, <2>2
<1>15. CASE StepUp(w)
  <2>1. raced' \in {raced, raced \cup {"session"}}
    BY <1>15 DEF StepUp
  <2>2. QED BY <1>1, <1>15, <2>1 DEF StepUp, TypeOK
<1>16. CASE DeleteFactor(w)
  <2>1. user \in UserType /\ epoch' \in Nat
    BY <1>16 DEF DeleteFactor, Bump, TypeOK
  <2>2. user' \in UserType /\ user' # NoUser
    BY <1>16, <2>1, UserTyped, NoneAssumption DEF DeleteFactor
  <2>3. raced' \in {raced, raced \cup {"factor"}}
    BY <1>16 DEF DeleteFactor
  <2>4. QED BY <1>1, <1>16, <2>1, <2>2, <2>3 DEF DeleteFactor, TypeOK
<1>17. QED
  BY <1>3, <1>4, <1>5, <1>6, <1>7, <1>8, <1>9, <1>10, <1>11, <1>12, <1>13, <1>14, <1>15,
     <1>16 DEF Continue

LEMMA MailTypes ==
  ASSUME TypeOK, AskDelete \/ AskEmail \/ AskFactor \/ Outreach
  PROVE  TypeOK'
<1>1. PICK code \in CodeType : Mail(code)
  <2>1. CASE Outreach
    BY <2>1 DEF Outreach, NoopCode, CodeType, CodeKind
  <2>2. CASE AskDelete \/ AskEmail \/ AskFactor
    <3>1. user \in UserType
      BY <2>2 DEF AskDelete, AskEmail, AskFactor, Active, TypeOK
    <3>2. \A kind \in Stateful : Code(kind, user, FALSE) \in CodeType
      BY <3>1, CodeTyped DEF TypeOK
    <3>3. QED BY <2>2, <3>2 DEF AskDelete, AskEmail, AskFactor, Stateful
  <2>3. QED BY <2>1, <2>2
<1>2. num' \in 0 .. MaxRequests
  BY <1>1, StepAssumption DEF Mail, TypeOK
<1>3. QED BY <1>1, <1>2 DEF Mail, TypeOK, rows, history

LEMMA TypeStep == TypeOK /\ JobsOK /\ [Next]_vars => TypeOK' /\ JobsOK'
<1> SUFFICES ASSUME TypeOK, JobsOK, [Next]_vars PROVE TypeOK' /\ JobsOK'
  OBVIOUS
<1>1. Workers'
  BY WorkersStep
<1> SUFFICES TypeOK'
  BY <1>1 DEF Workers
<1>2. ASSUME NEW w \in Worker, Start(w) PROVE TypeOK'
  <2>1. num < MaxRequests /\ num' = num + 1 /\ UNCHANGED <<rows, codes, chores, history>>
    BY <1>2 DEF Start, Register, AskReset, Settings, Unfactor, Authenticate, Verify, Request
  <2>2. num' \in 0 .. MaxRequests
    BY <2>1, StepAssumption DEF TypeOK
  <2>3. QED BY <1>1, <2>1, <2>2 DEF Workers, TypeOK, rows, history
<1>3. ASSUME NEW w \in Worker, Continue(w) PROVE TypeOK'
  BY <1>1, <1>3, ContinueTypes
<1>4. CASE AskDelete \/ AskEmail \/ AskFactor \/ Outreach
  BY <1>4, MailTypes
<1>5. CASE Login \/ Logout \/ ChangeDomains
  BY <1>5 DEF Login, Logout, ChangeDomains, Active, TypeOK, history
<1>6. CASE Commands
  <2>1. CASE Lock
    <3>1. user' \in UserType /\ user' # NoUser /\ epoch' \in Nat
      <4>1. user \in UserType /\ user' = [user EXCEPT !.active = "no"] /\ epoch' = epoch + 1
        BY <2>1 DEF Lock, Bump, TypeOK
      <4>2. epoch' \in Nat
        BY <4>1 DEF TypeOK
      <4>3. [user EXCEPT !.active = "no"] \in UserType
        BY <4>1 DEF UserType
      <4>4. QED BY <4>1, <4>2, <4>3, NoneAssumption
    <3>2. ended' = ended \cup {"lock"}
          /\ UNCHANGED <<owns, factor, session, captchas, codes, job, chores, num, raced, solved,
                         accepted, human>>
      BY <2>1 DEF Lock
    <3>3. QED BY <1>1, <3>1, <3>2 DEF TypeOK
  <2>2. CASE SelectNeverActivated \/ DeleteExpiredCaptcha
    <3>1. /\ captchas' \subseteq captchas /\ chores' \in BOOLEAN
          /\ UNCHANGED <<user, owns, factor, session, codes, job, num, history>>
      BY <2>2 DEF SelectNeverActivated, DeleteExpiredCaptcha, TypeOK, rows
    <3>2. QED BY <1>1, <3>1 DEF TypeOK, history
  <2>3. CASE DeleteNeverActivated
    <3>1. /\ chores' \in BOOLEAN
          /\ UNCHANGED <<codes, job, num, epoch, raced, solved, accepted, human>>
      BY <2>3 DEF DeleteNeverActivated
    <3>2. CASE RemoveUser
      BY <3>1, <3>2 DEF RemoveUser, TypeOK
    <3>3. CASE UNCHANGED <<rows, ended>>
      BY <3>1, <3>3 DEF rows, TypeOK
    <3>4. QED BY <2>3, <3>2, <3>3 DEF DeleteNeverActivated
  <2>4. QED BY <1>6, <2>1, <2>2, <2>3 DEF Commands
<1>7. CASE UNCHANGED vars
  BY <1>7 DEF vars, rows, history, TypeOK
<1>8. QED BY <1>1, <1>2, <1>3, <1>4, <1>5, <1>6, <1>7 DEF Next, Workers
-----------------------------------------------------------------------------
(* What a step can do to the account and its codes                          *)

Kept == \A e \in {"user", "lock"} : e \in ended' <=> e \in ended

Quiet == UNCHANGED <<user, codes, epoch, human>> /\ Kept
Mails ==
  /\ user # NoUser /\ UNCHANGED <<user, epoch, human>> /\ Kept
  /\ \E code : /\ codes' = codes \cup {code}
               /\ \/ code = NoopCode
                  \/ /\ user.active = "yes"
                     /\ \E kind \in Stateful \ {"activate"} : code = Code(kind, user, FALSE)
Creates(w) == Create(w) /\ user = NoUser /\ "user" \notin ended
Saves(w) ==
  HasUser(job[w]) /\ SaveUser(w, job[w].user) /\ UNCHANGED <<codes, epoch, human>> /\ Kept
Changes(w) ==
  /\ At(w, "act") /\ job[w].kind \in Stateful /\ StateMatches(w)
  /\ epoch' = epoch + 1 /\ SaveUser(w, [job[w].user EXCEPT !.changed = epoch'])
  /\ UNCHANGED <<codes, human>> /\ Kept
Rekeys ==
  /\ user # NoUser /\ epoch' = epoch + 1 /\ user' = [user EXCEPT !.changed = epoch']
  /\ UNCHANGED <<codes, human>> /\ Kept
Races == "factor" \in raced' /\ epoch' = epoch + 1 /\ UNCHANGED <<user, codes, human>> /\ Kept
Deletes ==
  /\ user' = NoUser /\ "user" \in ended' /\ ("lock" \in ended' <=> "lock" \in ended)
  /\ UNCHANGED <<codes, human>> /\ epoch' \in {epoch, epoch + 1}

Effect ==
  /\ raced \subseteq raced'
  /\ \/ Quiet \/ Mails \/ Rekeys \/ Races \/ Deletes \/ Lock
     \/ \E w \in Worker : Creates(w) \/ Saves(w) \/ Changes(w) \/ Activate(w)

LEMMA ContinueEffect ==
  ASSUME TypeOK, JobsOK, NEW w \in Worker, Continue(w)
  PROVE  Effect
<1>1. CASE Solve(w) \/ SolveFails(w)
  BY <1>1 DEF Solve, SolveFails, history, Effect, Quiet, Kept
<1>2. CASE Create(w)
  <2>1. CASE user = NoUser /\ "user" \notin ended
    BY <1>2, <2>1 DEF Create, Effect, Creates
  <2>2. CASE ~(user = NoUser /\ "user" \notin ended)
    BY <1>2, <2>2 DEF Create, Effect, Quiet, Kept
  <2>3. QED BY <2>1, <2>2
<1>3. CASE IssueReset(w)
  <2>1. CASE Active
    <3>1. "reset" \in Stateful \ {"activate"}
      BY DEF Stateful
    <3>2. codes' = codes \cup {Code("reset", user, FALSE)} /\ UNCHANGED <<user, history>>
      BY <1>3, <2>1 DEF IssueReset, rows
    <3>3. Mails
      BY <2>1, <3>1, <3>2 DEF Mails, Active, history, Kept
    <3>4. QED BY <3>2, <3>3 DEF Effect, history
  <2>2. CASE ~Active
    BY <1>3, <2>2 DEF IssueReset, rows, history, Effect, Quiet, Kept
  <2>3. QED BY <2>1, <2>2
<1>4. CASE SaveVerified(w) \/ Save(w)
  <2>1. Saves(w) /\ raced \subseteq raced'
    BY <1>4 DEF SaveVerified, Save, Saves, SaveUser, HasUser, At, Kept
  <2>2. QED BY <2>1 DEF Effect
<1>5. CASE Load(w) \/ ActRefused(w) \/ ActEnds(w) \/ LoadFactor(w) \/ DeleteFactorFails(w)
  BY <1>5 DEF Load, ActRefused, ActEnds, LoadFactor, DeleteFactorFails, rows, history,
              Effect, Quiet, Kept
<1>6. CASE Activate(w)
  BY <1>6 DEF Effect, Activate, SaveUser
<1>7. CASE ChangeCredentials(w)
  <2>1. Changes(w) /\ raced \subseteq raced'
    BY <1>7 DEF ChangeCredentials, Acting, Is, Bump, SaveUser, Changes, Stateful, Kept
  <2>2. QED BY <2>1 DEF Effect
<1>8. CASE CreateFactor(w)
  <2>1. Changes(w) /\ raced \subseteq raced'
    BY <1>8 DEF CreateFactor, Acting, Is, Bump, SaveUser, Changes, Stateful, Kept
  <2>2. QED BY <2>1 DEF Effect
<1>9. CASE DeleteUser(w)
  <2>1. Deletes /\ raced \subseteq raced'
    BY <1>9 DEF DeleteUser, RemoveUser, Bump, Deletes
  <2>2. QED BY <2>1 DEF Effect
<1>10. CASE CreateDomain(w)
  <2>1. CASE RemoveUser
    BY <1>10, <2>1 DEF CreateDomain, RemoveUser, Deletes, Effect
  <2>2. CASE ~RemoveUser
    BY <1>10, <2>2 DEF CreateDomain, Effect, Quiet, rows, Kept
  <2>3. QED BY <2>1, <2>2
<1>11. CASE Accept(w)
  <2>1. raced \subseteq raced' /\ UNCHANGED <<codes, human, ended>>
    BY <1>11 DEF Accept
  <2>2. CASE user = NoUser \/ mfa_enabled
    BY <1>11, <2>1, <2>2 DEF Accept, Effect, Quiet, Kept
  <2>3. CASE user # NoUser /\ ~mfa_enabled
    BY <1>11, <2>1, <2>3 DEF Accept, Bump, Effect, Rekeys, Kept
  <2>4. QED BY <2>2, <2>3
<1>12. CASE StepUp(w)
  BY <1>12 DEF StepUp, Effect, Quiet, Kept
<1>13. CASE DeleteFactor(w)
  <2>1. raced \subseteq raced' /\ Kept /\ UNCHANGED <<codes, human>> /\ user # NoUser
    BY <1>13 DEF DeleteFactor, Kept
  <2>2. CASE job[w].factor.used
    BY <1>13, <2>1, <2>2 DEF DeleteFactor, Bump, Effect, Rekeys
  <2>3. CASE ~job[w].factor.used /\ mfa_enabled
    <3>1. Races
      BY <1>13, <2>1, <2>3 DEF DeleteFactor, Bump, Races, mfa_enabled
    <3>2. QED BY <2>1, <3>1 DEF Effect
  <2>4. CASE ~job[w].factor.used /\ ~mfa_enabled
    BY <1>13, <2>1, <2>4 DEF DeleteFactor, Effect, Quiet
  <2>5. QED BY <2>2, <2>3, <2>4
<1>14. QED
  BY <1>1, <1>2, <1>3, <1>4, <1>5, <1>6, <1>7, <1>8, <1>9, <1>10, <1>11, <1>12, <1>13
  DEF Continue

LEMMA StepEffect == TypeOK /\ JobsOK /\ [Next]_vars => Effect
<1> SUFFICES ASSUME TypeOK, JobsOK, [Next]_vars PROVE Effect
  OBVIOUS
<1>1. ASSUME NEW w \in Worker, Start(w) PROVE Effect
  <2>1. UNCHANGED <<rows, codes, history>>
    BY <1>1 DEF Start, Register, AskReset, Settings, Unfactor, Authenticate, Verify, Request
  <2>2. QED BY <2>1 DEF rows, history, Effect, Quiet, Kept
<1>2. ASSUME NEW w \in Worker, Continue(w) PROVE Effect
  BY <1>2, ContinueEffect
<1>3. CASE AskDelete \/ AskEmail \/ AskFactor \/ Outreach
  <2>1. Mails
    BY <1>3 DEF AskDelete, AskEmail, AskFactor, Outreach, Mail, Active, Mails, Stateful, rows,
                history, Kept
  <2>2. raced' = raced
    BY <1>3 DEF AskDelete, AskEmail, AskFactor, Outreach, Mail, history
  <2>3. QED BY <2>1, <2>2 DEF Effect
<1>4. CASE Login \/ Logout \/ ChangeDomains
  BY <1>4 DEF Login, Logout, ChangeDomains, history, Effect, Quiet, Kept
<1>5. CASE Commands
  <2>1. CASE Lock
    BY <2>1 DEF Lock, Effect
  <2>2. CASE SelectNeverActivated \/ DeleteExpiredCaptcha
    BY <2>2 DEF SelectNeverActivated, DeleteExpiredCaptcha, rows, history, Effect, Quiet, Kept
  <2>3. CASE DeleteNeverActivated
    <3>1. CASE RemoveUser
      BY <2>3, <3>1 DEF DeleteNeverActivated, RemoveUser, Deletes, Effect
    <3>2. CASE ~RemoveUser
      BY <2>3, <3>2 DEF DeleteNeverActivated, Effect, Quiet, rows, Kept
    <3>3. QED BY <3>1, <3>2
  <2>4. QED BY <1>5, <2>1, <2>2, <2>3 DEF Commands
<1>6. CASE UNCHANGED vars
  BY <1>6 DEF vars, rows, history, Effect, Quiet, Kept
<1>7. QED BY <1>1, <1>2, <1>3, <1>4, <1>5, <1>6 DEF Next
\* The instances: what a worker has, it had before or has just loaded.
LEMMA Instances ==
  ASSUME TypeOK, JobsOK, [Next]_vars, NEW v \in Worker
  PROVE  /\ HasUser(job'[v]) => \/ HasUser(job[v]) /\ job'[v].user = job[v].user
                                \/ user # NoUser /\ job'[v].user = user
         /\ job'[v].stage = "act" /\ job'[v].kind = "activate" /\ job'[v].user.captcha =>
              job'[v] = job[v] \/ job'[v].passed
<1> DEFINE Fine ==
      /\ HasUser(job'[v]) => \/ HasUser(job[v]) /\ job'[v].user = job[v].user
                             \/ user # NoUser /\ job'[v].user = user
      /\ job'[v].stage = "act" /\ job'[v].kind = "activate" /\ job'[v].user.captcha =>
           job'[v] = job[v] \/ job'[v].passed
<1>1. Workers
  BY DEF Workers, TypeOK
<1>2. CASE job'[v] = job[v]
  BY <1>2
<1>3. ASSUME NEW w \in Worker, NEW j, Request(w, j), HasUser(j) => user # NoUser /\ j.user = user,
             j.stage # "act"
      PROVE  Fine
  <2>1. job'[w] = j /\ (v # w => job'[v] = job[v])
    BY <1>1, <1>3 DEF Request, Workers
  <2>2. QED BY <1>3, <2>1
<1>4. ASSUME NEW w \in Worker, Start(w) PROVE Fine
  <2>1. Idle.stage = "idle"
    BY DEF Idle
  <2>2. CASE Register(w)
    <3>1. PICK c \in captchas \cup {NoCaptcha} :
            Request(w, With([Idle EXCEPT !.kind = "register"], c, "create"))
      BY <2>2 DEF Register
    <3>2. With([Idle EXCEPT !.kind = "register"], c, "create").stage \in {"create", "solve"}
          /\ With([Idle EXCEPT !.kind = "register"], c, "create").kind = "register"
      BY DEF With, Idle
    <3>3. QED BY <1>3, <3>1, <3>2 DEF HasUser, Confirming
  <2>3. CASE AskReset(w)
    <3>1. PICK c \in captchas : Request(w, With([Idle EXCEPT !.kind = "askreset"], c, "solve"))
      BY <2>3 DEF AskReset
    <3>2. With([Idle EXCEPT !.kind = "askreset"], c, "solve").stage = "solve"
          /\ With([Idle EXCEPT !.kind = "askreset"], c, "solve").kind = "askreset"
      BY DEF With, Idle
    <3>3. QED BY <1>3, <3>1, <3>2 DEF HasUser, Confirming
  <2>4. CASE Settings(w)
    <3> DEFINE j == [Idle EXCEPT !.stage = "save", !.kind = "settings", !.user = user]
    <3>1. j.stage = "save" /\ j.user = user
      BY DEF Idle
    <3>2. Request(w, j) /\ user # NoUser
      BY <2>4 DEF Settings
    <3> HIDE DEF j
    <3>3. QED BY <1>3, <3>1, <3>2
  <2>5. CASE Unfactor(w)
    <3> DEFINE j == [Idle EXCEPT !.stage = "unfactor", !.kind = "unfactor", !.factor = factor]
    <3>1. j.stage = "unfactor" /\ ~HasUser(j)
      BY DEF Idle, HasUser, Confirming
    <3>2. Request(w, j)
      BY <2>5 DEF Unfactor
    <3> HIDE DEF j
    <3>3. QED BY <1>3, <3>1, <3>2
  <2>6. ASSUME NEW code \in codes, Authenticate(w, code) PROVE Fine
    <3> DEFINE j == [Idle EXCEPT !.stage = "verified", !.kind = code.kind, !.code = code, !.user = user]
    <3>1. j.stage = "verified" /\ j.user = user
      BY DEF Idle
    <3>2. Request(w, j) /\ user # NoUser
      BY <2>6 DEF Authenticate
    <3> HIDE DEF j
    <3>3. QED BY <1>3, <3>1, <3>2
  <2>7. ASSUME NEW s \in Step, NEW auth \in BOOLEAN, Verify(w, s, auth) PROVE Fine
    <3> DEFINE j == [Idle EXCEPT !.stage = "factor", !.kind = "verify", !.step = s,
                                 !.auth = auth /\ factor.used]
    <3>1. j.stage = "factor" /\ ~HasUser(j)
      BY DEF Idle, HasUser, Confirming
    <3>2. Request(w, j)
      BY <2>7 DEF Verify
    <3> HIDE DEF j
    <3>3. QED BY <1>3, <3>1, <3>2
  <2>8. QED BY <1>4, <2>2, <2>3, <2>4, <2>5, <2>6, <2>7 DEF Start
<1>5. ASSUME NEW w \in Worker, Continue(w) PROVE Fine
  <2>1. CASE Solve(w)
    BY <1>2, <2>1, SolveWorkers
  <2>2. CASE Load(w)
    <3>1. CASE v # w
      BY <1>2, <2>2, <3>1, LoadWorkers
    <3>2. CASE v = w
      <4>1. HasUser(job'[v]) => job'[v].user = user /\ user # NoUser
        BY <2>2, <3>2, LoadWorkers
      <4>2. job'[v].stage = "act" /\ job'[v].kind = "activate" => ~user.captcha /\ HasUser(job'[v])
        BY <2>2, <3>2, LoadWorkers DEF HasUser
      <4>3. QED BY <4>1, <4>2
    <3>3. QED BY <3>1, <3>2
  <2>3. CASE LoadFactor(w)
    <3>1. CASE Finish(w)
      <4>1. job'[w] = Idle /\ (v # w => job'[v] = job[v])
        BY <1>1, <3>1 DEF Finish, Workers
      <4>2. Idle.stage = "idle"
        BY DEF Idle
      <4>3. QED BY <1>2, <4>1, <4>2, IdleOK
    <3>2. CASE ~Finish(w)
      <4>1. job' = [job EXCEPT ![w] = [@ EXCEPT !.stage = "accept", !.factor = factor]]
        BY <2>3, <3>2 DEF LoadFactor
      <4>2. v # w => job'[v] = job[v]
        BY <1>1, <4>1 DEF Workers
      <4>3. job'[w].stage = "accept"
        BY <1>1, <4>1 DEF Workers, JobType
      <4>4. QED BY <1>2, <4>2, <4>3 DEF HasUser, Confirming
    <3>3. QED BY <3>1, <3>2
  <2>4. CASE ~Solve(w) /\ ~Load(w) /\ ~LoadFactor(w)
    BY <1>1, <1>2, <1>5, <2>4, ContinueEnds, EndsWorkers
  <2>5. QED BY <2>1, <2>2, <2>3, <2>4
<1>6. CASE job' = job
  BY <1>2, <1>6
<1>7. CASE AskDelete \/ AskEmail \/ AskFactor \/ Outreach \/ Login \/ Logout \/ ChangeDomains \/ Commands
  BY <1>6, <1>7 DEF AskDelete, AskEmail, AskFactor, Outreach, Mail, Login, Logout, ChangeDomains,
     Commands, Lock, SelectNeverActivated, DeleteNeverActivated, DeleteExpiredCaptcha
<1>8. QED BY <1>4, <1>5, <1>6, <1>7 DEF Next, vars
-----------------------------------------------------------------------------
(* The account                                                              *)

\* An instance is a user.
LEMMA InstanceTyped ==
  ASSUME TypeOK, JobsOK, NEW w \in Worker, HasUser(job[w])
  PROVE  job[w].user \in UserType /\ job[w].user # NoUser
BY NoneAssumption DEF JobsOK, JobOK

LEMMA NoAccountStep == TypeOK /\ JobsOK /\ NoAccount /\ [Next]_vars => NoAccount'
<1> SUFFICES ASSUME TypeOK, JobsOK, NoAccount, [Next]_vars, user' = NoUser, "user" \notin ended'
             PROVE  codes' = {} /\ "lock" \notin ended' /\ \A w \in Worker : ~HasUser(job'[w])
  BY DEF NoAccount, HasUser, Confirming
<1>1. Effect /\ TypeOK' /\ JobsOK'
  BY StepEffect, TypeStep
<1>2. ~(\E w \in Worker : Saves(w) \/ Changes(w) \/ Activate(w) \/ Creates(w))
  <2>1. ASSUME NEW w \in Worker, Saves(w) PROVE FALSE
    BY <2>1, InstanceTyped DEF Saves, SaveUser
  <2>2. ASSUME NEW w \in Worker, Changes(w) PROVE FALSE
    <3>1. HasUser(job[w]) /\ epoch' \in Nat
      BY <2>2 DEF Changes, At, HasUser, TypeOK
    <3>2. QED BY <2>2, <3>1, InstanceTyped, UserTyped, NoneAssumption DEF Changes, SaveUser
  <2>3. ASSUME NEW w \in Worker, Activate(w) PROVE FALSE
    <3>1. HasUser(job[w])
      BY <2>3 DEF Activate, Acting, At, HasUser
    <3>2. [job[w].user EXCEPT !.active = "yes", !.captcha = FALSE] \in UserType
      BY <3>1, InstanceTyped DEF UserType
    <3>3. QED BY <2>3, <3>2, NoneAssumption DEF Activate, SaveUser
  <2>4. ASSUME NEW w \in Worker, Creates(w) PROVE FALSE
    <3>1. job[w].passed \in BOOLEAN /\ epoch \in Nat
      BY DEF TypeOK, JobType
    <3>2. [active |-> "pending", changed |-> epoch, captcha |-> ~job[w].passed] \in UserType
      BY <3>1 DEF UserType
    <3>3. QED BY <2>4, <3>2, NoneAssumption DEF Creates, Create
  <2>5. QED BY <2>1, <2>2, <2>3, <2>4
<1>3. ~Mails /\ ~Deletes
  BY DEF Mails, Deletes
<1>4. ~Rekeys
  <2>1. ASSUME Rekeys PROVE FALSE
    <3>1. user \in UserType /\ epoch' \in Nat
      BY <2>1 DEF Rekeys, TypeOK
    <3>2. QED BY <2>1, <3>1, UserTyped, NoneAssumption DEF Rekeys
  <2>2. QED BY <2>1
<1>5. ~Lock
  <2>1. ASSUME Lock PROVE FALSE
    <3>1. user \in UserType
      BY <2>1 DEF Lock, TypeOK
    <3>2. [user EXCEPT !.active = "no"] \in UserType
      BY <3>1 DEF UserType
    <3>3. QED BY <2>1, <3>2, NoneAssumption DEF Lock
  <2>2. QED BY <2>1
<1>6. user = NoUser /\ codes' = codes /\ Kept
  BY <1>1, <1>2, <1>3, <1>4, <1>5 DEF Effect, Quiet, Races
<1>7. codes = {} /\ "lock" \notin ended /\ \A w \in Worker : ~HasUser(job[w])
  BY <1>6 DEF NoAccount, Kept
<1>8. QED BY <1>6, <1>7, Instances DEF Kept
LEMMA HumanStep == TypeOK /\ JobsOK /\ NoAccount /\ HumanInv /\ [Next]_vars => HumanInv'
<1> SUFFICES ASSUME TypeOK, JobsOK, NoAccount, HumanInv, [Next]_vars PROVE HumanInv'
  OBVIOUS
<1>1. Effect
  BY StepEffect
<1>2. ASSUME NEW w \in Worker, Creates(w) PROVE HumanInv'
  <2>1. ASSUME NEW v \in Worker PROVE ~HasUser(job'[v])
    BY <1>2, Instances DEF Creates, NoAccount
  <2>2. user'.active = "pending" /\ user'.captcha = ~job[w].passed /\ human' = job[w].passed
    BY <1>2 DEF Creates, Create
  <2>3. job[w].passed \in BOOLEAN
    BY DEF TypeOK, JobType
  <2>4. Cleared(user') => human'
    BY <2>2, <2>3 DEF Cleared
  <2>5. QED BY <2>1, <2>4 DEF HumanInv, HasUser, Confirming, At, Cleared
<1>3. ASSUME human => human', user' # NoUser /\ Cleared(user') => human' PROVE HumanInv'
  <2>1. ASSUME NEW v \in Worker, HasUser(job'[v]), Cleared(job'[v].user) PROVE human'
    BY <1>3, <2>1, Instances DEF HumanInv
  <2>2. ASSUME NEW v \in Worker, job'[v].stage = "act", job'[v].kind = "activate", job'[v].user.captcha
        PROVE  job'[v].passed
    BY <2>2, Instances DEF HumanInv, At, Is
  <2>3. QED BY <1>3, <2>1, <2>2 DEF HumanInv, At, Is, HasUser, Confirming, Cleared
<1>4. CASE Quiet \/ Mails \/ Races \/ Deletes
  BY <1>3, <1>4 DEF Quiet, Mails, Races, Deletes, HumanInv
<1>5. CASE Rekeys \/ Lock
  <2>1. user # NoUser /\ human' = human
    BY <1>5 DEF Rekeys, Lock
  <2>2. user \in UserType
    BY <2>1 DEF TypeOK
  <2>3. user'.captcha = user.captcha /\ (user'.active = "yes" => user.active = "yes")
    BY <1>5, <2>2 DEF Rekeys, Lock, UserType
  <2>4. Cleared(user') => Cleared(user)
    BY <2>3 DEF Cleared
  <2>5. QED BY <1>3, <2>1, <2>4 DEF HumanInv
<1>6. ASSUME NEW w \in Worker, Saves(w) \/ Changes(w) PROVE HumanInv'
  <2>1. HasUser(job[w]) /\ human' = human
    BY <1>6 DEF Saves, Changes, At, HasUser
  <2>2. user' = job[w].user \/ user' = [job[w].user EXCEPT !.changed = epoch']
    BY <1>6 DEF Saves, Changes, SaveUser
  <2>3. user'.captcha = job[w].user.captcha /\ user'.active = job[w].user.active
    BY <2>1, <2>2, InstanceTyped DEF UserType
  <2>4. Cleared(user') => Cleared(job[w].user)
    BY <2>3 DEF Cleared
  <2>5. QED BY <1>3, <2>1, <2>4 DEF HumanInv
<1>7. ASSUME NEW w \in Worker, Activate(w) PROVE HumanInv'
  <2>1. At(w, "act") /\ Is(w, "activate") /\ HasUser(job[w])
    BY <1>7 DEF Activate, Acting, At, HasUser
  <2>2. human' = (human \/ job[w].passed)
    BY <1>7 DEF Activate
  <2>3. human'
    BY <2>1, <2>2 DEF HumanInv, Cleared
  <2>4. QED BY <1>3, <2>3
<1>8. QED BY <1>1, <1>2, <1>4, <1>5, <1>6, <1>7 DEF Effect
-----------------------------------------------------------------------------
(* Codes                                                                    *)

LEMMA CodesStep == TypeOK /\ JobsOK /\ CodesOK /\ [Next]_vars => CodesOK'
<1> SUFFICES ASSUME TypeOK, JobsOK, CodesOK, [Next]_vars PROVE CodesOK'
  OBVIOUS
<1>1. Effect
  BY StepEffect
<1>2. CASE codes' = codes
  BY <1>2 DEF CodesOK
<1>3. ASSUME NEW code, codes' = codes \cup {code},
             code.kind \in Stateful => code.active \in {"pending", "yes"},
             code.kind = "activate" => code.active = "pending"
      PROVE  CodesOK'
  BY <1>3 DEF CodesOK
<1>4. CASE Mails
  <2>1. PICK code : /\ codes' = codes \cup {code}
                    /\ \/ code = NoopCode
                       \/ /\ user.active = "yes"
                          /\ \E kind \in Stateful \ {"activate"} : code = Code(kind, user, FALSE)
    BY <1>4 DEF Mails
  <2>2. code.active = "yes" /\ code.kind # "activate"
    BY <2>1 DEF NoopCode, Code
  <2>3. QED BY <1>3, <2>1, <2>2
<1>5. ASSUME NEW w \in Worker, Creates(w) PROVE CodesOK'
  <2>1. user'.active = "pending"
    BY <1>5 DEF Creates, Create
  <2>2. PICK domain \in BOOLEAN : codes' = codes \cup {Code("activate", user', domain)}
    BY <1>5 DEF Creates, Create
  <2>3. Code("activate", user', domain).active = "pending"
    BY <2>1 DEF Code
  <2>4. QED BY <1>3, <2>2, <2>3
<1>6. ASSUME NEW w \in Worker, Activate(w) PROVE CodesOK'
  <2> DEFINE code == [Code("reset", user', FALSE) EXCEPT !.epoch = epoch']
  <2>1. job[w].user \in UserType
    BY <1>6, InstanceTyped DEF Activate, Acting, At, HasUser
  <2>2. user'.active = "yes"
    BY <1>6, <2>1 DEF Activate, SaveUser, UserType
  <2>3. code.active = "yes" /\ code.kind = "reset"
    BY <2>2 DEF Code
  <2>4. codes' = codes \/ codes' = codes \cup {code}
    BY <1>6 DEF Activate
  <2> HIDE DEF code
  <2>5. QED BY <1>2, <1>3, <2>3, <2>4
<1>7. QED
  BY <1>1, <1>2, <1>4, <1>5, <1>6
  DEF Effect, Quiet, Rekeys, Races, Deletes, Lock, Saves, Changes
\* Steps whose instance is current.
LEMMA CurrentInstance ==
  ASSUME TypeOK, JobsOK, CodesOK, NEW w \in Worker, "user" \notin raced'
  PROVE  /\ Saves(w) => user' = user
         /\ Changes(w) => Rekeys
         /\ Activate(w) => /\ user \in UserType /\ user.active = "pending"
                           /\ user' = [user EXCEPT !.active = "yes", !.captcha = FALSE]
<1>1. ASSUME Saves(w) PROVE user' = user
  BY <1>1 DEF Saves, SaveUser
<1>2. ASSUME Changes(w) PROVE Rekeys
  <2>1. job[w].user = user /\ user # NoUser
    BY <1>2, InstanceTyped DEF Changes, SaveUser, At, HasUser
  <2>2. QED BY <1>2, <2>1 DEF Changes, SaveUser, Rekeys
<1>3. ASSUME Activate(w)
      PROVE  /\ user \in UserType /\ user.active = "pending"
             /\ user' = [user EXCEPT !.active = "yes", !.captcha = FALSE]
  <2>1. At(w, "act") /\ Is(w, "activate") /\ StateMatches(w)
    BY <1>3 DEF Activate, Acting
  <2>2. user' = [job[w].user EXCEPT !.active = "yes", !.captcha = FALSE] /\ job[w].user = user
    BY <1>3 DEF Activate, SaveUser
  <2>3. user \in UserType
    BY <2>1, <2>2, InstanceTyped DEF At, HasUser
  <2>4. job[w].code \in codes /\ job[w].code.kind = "activate"
    BY <2>1 DEF JobsOK, JobOK, HasCode, At, Is
  <2>5. job[w].code.active = "pending"
    BY <2>4 DEF CodesOK
  <2>6. user.active = "pending"
    BY <2>1, <2>2, <2>5 DEF StateMatches, Is, Stateful
  <2>7. QED BY <2>2, <2>3, <2>6
<1>4. QED BY <1>1, <1>2, <1>3

LEMMA CurrentStep ==
  TypeOK /\ JobsOK /\ NoAccount /\ CodesOK /\ Current /\ [Next]_vars => Current'
<1> SUFFICES ASSUME TypeOK, JobsOK, NoAccount, CodesOK, Current, [Next]_vars,
                    raced' \cap {"user", "factor"} = {}
             PROVE  Current'
  BY DEF Current
<1>1. Effect
  BY StepEffect
<1>2. /\ user # NoUser => user \in UserType /\ user.changed <= epoch
      /\ \A code \in codes :
           /\ code.changed <= epoch
           /\ code.kind \in Stateful /\ user # NoUser =>
                /\ user.active = "pending" => code.active = "pending"
                /\ code.changed = user.changed /\ code.active = user.active => code.epoch = epoch
  BY <1>1 DEF Effect, Current, TypeOK
<1>3. epoch \in Nat /\ codes \subseteq CodeType
  BY DEF TypeOK
<1>4. CASE UNCHANGED <<user, codes, epoch>>
  BY <1>2, <1>4 DEF Current
<1>5. CASE Mails
  <2>1. PICK code : /\ codes' = codes \cup {code}
                    /\ \/ code = NoopCode
                       \/ /\ user.active = "yes"
                          /\ \E kind \in Stateful \ {"activate"} : code = Code(kind, user, FALSE)
    BY <1>5 DEF Mails
  <2>2. user' = user /\ epoch' = epoch /\ user # NoUser
    BY <1>5 DEF Mails
  <2>3. CASE code = NoopCode
    <3>1. code.kind \notin Stateful /\ code.changed = 0
      BY <2>3 DEF NoopCode, Stateful
    <3>2. QED BY <1>2, <1>3, <2>1, <2>2, <3>1 DEF Current
  <2>4. CASE code # NoopCode
    <3>1. user.active = "yes" /\ code.epoch = epoch /\ code.changed = user.changed
      BY <2>1, <2>4 DEF Code
    <3>2. QED BY <1>2, <1>3, <2>1, <2>2, <3>1 DEF Current
  <2>5. QED BY <2>3, <2>4
<1>6. ASSUME NEW w \in Worker, Creates(w) PROVE Current'
  <2>1. codes = {} /\ epoch' = epoch
    BY <1>6 DEF Creates, Create, NoAccount
  <2>2. user'.active = "pending" /\ user'.changed = epoch
    BY <1>6 DEF Creates, Create
  <2>3. PICK domain \in BOOLEAN : codes' = {Code("activate", user', domain)}
    BY <1>6, <2>1 DEF Creates, Create
  <2> DEFINE code == Code("activate", user', domain)
  <2>4. code.active = "pending" /\ code.changed = epoch /\ code.epoch = epoch
    BY <2>2 DEF Code
  <2> HIDE DEF code
  <2>5. codes' = {code}
    BY <2>3 DEF code
  <2>6. QED BY <1>3, <2>1, <2>2, <2>4, <2>5 DEF Current
<1>7. CASE Rekeys
  <2>1. user \in UserType /\ codes' = codes /\ epoch' = epoch + 1
    BY <1>7 DEF Rekeys, TypeOK
  <2>2. user'.active = user.active /\ user'.changed = epoch'
    BY <1>7, <2>1 DEF Rekeys, UserType
  <2>3. \A code \in codes : code.changed \in Nat
    BY <1>3 DEF CodeType
  <2>4. \A code \in codes' : code.changed # epoch' /\ code.changed <= epoch'
    BY <1>2, <1>3, <2>1, <2>3
  <2>5. \A code \in codes' : code.kind \in Stateful =>
            (user'.active = "pending" => code.active = "pending")
    BY <1>2, <1>7, <2>1, <2>2 DEF Rekeys
  <2>6. QED BY <1>3, <2>1, <2>2, <2>4, <2>5 DEF Current
<1>8. CASE Races
  BY <1>8 DEF Races
<1>9. ASSUME codes' = codes, epoch' \in {epoch, epoch + 1} PROVE \A code \in codes' : code.changed <= epoch'
  <2>1. \A code \in codes : code.changed \in Nat
    BY <1>3 DEF CodeType
  <2>2. QED BY <1>2, <1>3, <1>9, <2>1
<1>10. CASE Deletes
  BY <1>9, <1>10 DEF Deletes, Current
<1>11. CASE Lock
  <2>1. user \in UserType /\ user' = [user EXCEPT !.active = "no"] /\ epoch' = epoch + 1 /\ codes' = codes
    BY <1>11 DEF Lock, Bump, TypeOK
  <2>2. user'.active = "no" /\ user'.changed = user.changed /\ user.changed \in Nat
    BY <2>1 DEF UserType
  <2>3. user'.changed <= epoch'
    BY <1>2, <1>3, <1>11, <2>1, <2>2 DEF Lock
  <2>4. \A code \in codes' : code.kind \in Stateful => code.active # "no"
    BY <2>1 DEF CodesOK
  <2>5. QED BY <1>9, <2>1, <2>2, <2>3, <2>4 DEF Current
<1>12. ASSUME NEW w \in Worker, Activate(w) PROVE Current'
  <2>1. /\ user \in UserType /\ user.active = "pending" /\ epoch' = epoch + 1
        /\ user' = [user EXCEPT !.active = "yes", !.captcha = FALSE]
    BY <1>12, CurrentInstance DEF Activate, Bump
  <2>2. user'.active = "yes" /\ user'.changed = user.changed /\ user.changed \in Nat /\ user # NoUser
    BY <2>1, NoneAssumption DEF UserType
  <2>3. user'.changed <= epoch'
    BY <1>2, <1>3, <2>1, <2>2
  <2>4. \A code \in codes : code.changed \in Nat
    BY <1>3 DEF CodeType
  <2>5. \A code \in codes : code.changed <= epoch' /\ (code.kind \in Stateful => code.active = "pending")
    BY <1>2, <1>3, <2>1, <2>2, <2>4
  <2> DEFINE new == [Code("reset", user', FALSE) EXCEPT !.epoch = epoch']
  <2>6. new.changed = user'.changed /\ new.epoch = epoch'
    BY DEF Code
  <2>7. codes' \subseteq codes \cup {new}
    BY <1>12 DEF Activate
  <2> HIDE DEF new
  <2>8. \A code \in codes' : code.changed <= epoch'
    BY <2>3, <2>5, <2>6, <2>7
  <2>9. \A code \in codes' : code.kind \in Stateful => code.active = "pending" \/ code.epoch = epoch'
    BY <2>5, <2>6, <2>7
  <2>10. QED BY <2>2, <2>3, <2>8, <2>9 DEF Current
<1>13. ASSUME NEW w \in Worker, Saves(w) \/ Changes(w) PROVE Current'
  BY <1>4, <1>7, <1>13, CurrentInstance DEF Saves
<1>14. QED
  BY <1>1, <1>4, <1>5, <1>6, <1>7, <1>8, <1>10, <1>11, <1>12, <1>13 DEF Effect, Quiet

LEMMA UserLastsStep ==
  ASSUME TypeOK, JobsOK, NoAccount, CodesOK, Lasting, [Next]_vars, "user" \notin raced'
  PROVE  /\ "lock" \in ended' => user' = NoUser \/ user'.active = "no"
         /\ "user" \in ended' => user' = NoUser
<1> DEFINE Lasts == /\ "lock" \in ended' => user' = NoUser \/ user'.active = "no"
                    /\ "user" \in ended' => user' = NoUser
<1>1. Effect
  BY StepEffect
<1>2. /\ "lock" \in ended => user = NoUser \/ user.active = "no"
      /\ "user" \in ended => user = NoUser
  BY <1>1 DEF Effect, Lasting
<1>3. ASSUME user' = user, Kept PROVE Lasts
  BY <1>2, <1>3 DEF Kept
<1>4. ASSUME NEW w \in Worker, Creates(w) PROVE Lasts
  BY <1>4 DEF Creates, Create, NoAccount
<1>5. CASE Rekeys
  <2>1. user \in UserType /\ user # NoUser /\ user' = [user EXCEPT !.changed = epoch'] /\ Kept
    BY <1>5 DEF Rekeys, TypeOK
  <2>2. user'.active = user.active
    BY <2>1 DEF UserType
  <2>3. QED BY <1>2, <2>1, <2>2 DEF Kept
<1>6. CASE Deletes
  BY <1>6 DEF Deletes
<1>7. CASE Lock
  <2>1. user \in UserType /\ user # NoUser /\ user' = [user EXCEPT !.active = "no"]
        /\ ended' = ended \cup {"lock"}
    BY <1>7 DEF Lock, TypeOK
  <2>2. user'.active = "no"
    BY <2>1 DEF UserType
  <2>3. QED BY <1>2, <2>1, <2>2
<1>8. ASSUME NEW w \in Worker, Activate(w) PROVE Lasts
  <2>1. user \in UserType /\ user.active = "pending" /\ ended' = ended
    BY <1>8, CurrentInstance DEF Activate
  <2>2. QED BY <1>2, <2>1, NoneAssumption
<1>9. ASSUME NEW w \in Worker, Saves(w) \/ Changes(w) PROVE Lasts
  BY <1>3, <1>5, <1>9, CurrentInstance DEF Saves
<1>10. QED
  BY <1>1, <1>3, <1>4, <1>5, <1>6, <1>7, <1>8, <1>9 DEF Effect, Quiet, Mails, Races
-----------------------------------------------------------------------------
(* The session, the factor and the captchas                                 *)

Remains(e) == e \in ended' <=> e \in ended
SessionEffect ==
  \/ session' = session /\ Remains("session")
  \/ session' = "none" \/ Login \/ \E w \in Worker : StepUp(w)
FactorEffect ==
  \/ UNCHANGED <<factor, accepted>> /\ Remains("factor")
  \/ factor' = NoFactor /\ accepted' = accepted
  \/ \E w \in Worker : CreateFactor(w) \/ (Accept(w) /\ user # NoUser)
CaptchaEffect ==
  \/ captchas' \subseteq captchas /\ solved' = solved
  \/ \E w \in Worker : Solve(w)
RowEffect == SessionEffect /\ FactorEffect /\ CaptchaEffect

LEMMA RemovalEffect ==
  ASSUME RemoveUser, UNCHANGED <<solved, accepted>>
  PROVE  RowEffect
BY DEF RemoveUser, RowEffect, SessionEffect, FactorEffect, CaptchaEffect

LEMMA NoRowEffect ==
  ASSUME UNCHANGED <<session, factor, captchas, solved, accepted>>,
         Remains("session"), Remains("factor")
  PROVE  RowEffect
BY DEF RowEffect, SessionEffect, FactorEffect, CaptchaEffect

LEMMA StepRowEffect == [Next]_vars => RowEffect
<1> SUFFICES ASSUME [Next]_vars PROVE RowEffect
  OBVIOUS
<1>1. ASSUME NEW w \in Worker, Start(w) PROVE RowEffect
  BY <1>1, NoRowEffect DEF Start, Register, AskReset, Settings, Unfactor, Authenticate, Verify,
     Request, rows, history, Remains
<1>2. ASSUME NEW w \in Worker, Continue(w) PROVE RowEffect
  <2>1. CASE Solve(w) \/ SolveFails(w)
    BY <2>1 DEF Solve, SolveFails, history, RowEffect, SessionEffect, FactorEffect, CaptchaEffect,
                Remains
  <2>2. CASE Create(w) \/ IssueReset(w) \/ SaveVerified(w) \/ Save(w) \/ Load(w) \/ ActRefused(w)
    BY <2>2, NoRowEffect DEF Create, IssueReset, SaveVerified, Save, Load, ActRefused, rows, history,
                             Remains
  <2>3. CASE ActEnds(w) \/ LoadFactor(w) \/ DeleteFactorFails(w) \/ Activate(w)
             \/ ChangeCredentials(w)
    BY <2>3, NoRowEffect DEF ActEnds, LoadFactor, DeleteFactorFails, Activate, ChangeCredentials,
                             rows, history, Remains
  <2>4. CASE CreateFactor(w)
    BY <2>4 DEF CreateFactor, RowEffect, SessionEffect, FactorEffect, CaptchaEffect, Remains
  <2>5. CASE DeleteUser(w)
    BY <2>5, RemovalEffect DEF DeleteUser
  <2>6. CASE CreateDomain(w)
    <3>1. CASE RemoveUser
      BY <2>6, <3>1, RemovalEffect DEF CreateDomain
    <3>2. CASE ~RemoveUser
      BY <2>6, <3>2, NoRowEffect DEF CreateDomain, rows, Remains
    <3>3. QED BY <3>1, <3>2
  <2>7. CASE Accept(w)
    <3>1. UNCHANGED <<session, captchas, ended, solved>>
      BY <2>7 DEF Accept
    <3>2. FactorEffect
      <4>1. CASE user = NoUser
        BY <2>7, <3>1, <4>1 DEF Accept, FactorEffect, Remains
      <4>2. CASE user # NoUser
        BY <2>7, <4>2 DEF FactorEffect
      <4>3. QED BY <4>1, <4>2
    <3>3. QED BY <3>1, <3>2 DEF RowEffect, SessionEffect, CaptchaEffect, Remains
  <2>8. CASE StepUp(w)
    BY <2>8 DEF StepUp, RowEffect, SessionEffect, FactorEffect, CaptchaEffect, Remains
  <2>9. CASE DeleteFactor(w)
    BY <2>9 DEF DeleteFactor, RowEffect, SessionEffect, FactorEffect, CaptchaEffect, Remains
  <2>10. QED
    BY <1>2, <2>1, <2>2, <2>3, <2>4, <2>5, <2>6, <2>7, <2>8, <2>9 DEF Continue
<1>3. CASE AskDelete \/ AskEmail \/ AskFactor \/ Outreach \/ ChangeDomains
  BY <1>3, NoRowEffect DEF AskDelete, AskEmail, AskFactor, Outreach, ChangeDomains, Mail, rows,
                           history, Remains
<1>4. CASE Login \/ Logout
  BY <1>4 DEF Login, Logout, history, RowEffect, SessionEffect, FactorEffect, CaptchaEffect, Remains
<1>5. CASE Commands
  <2>1. CASE Lock \/ SelectNeverActivated
    BY <2>1, NoRowEffect DEF Lock, SelectNeverActivated, rows, history, Remains
  <2>2. CASE DeleteExpiredCaptcha
    BY <2>2 DEF DeleteExpiredCaptcha, history, RowEffect, SessionEffect, FactorEffect,
                CaptchaEffect, Remains
  <2>3. CASE DeleteNeverActivated
    <3>1. CASE RemoveUser
      BY <2>3, <3>1, RemovalEffect DEF DeleteNeverActivated
    <3>2. CASE ~RemoveUser
      BY <2>3, <3>2, NoRowEffect DEF DeleteNeverActivated, rows, Remains
    <3>3. QED BY <3>1, <3>2
  <2>4. QED BY <1>5, <2>1, <2>2, <2>3 DEF Commands
<1>6. CASE UNCHANGED vars
  BY <1>6, NoRowEffect DEF vars, rows, history, Remains
<1>7. QED BY <1>1, <1>2, <1>3, <1>4, <1>5, <1>6 DEF Next

\* A verification whose instance of the factor is current.
LEMMA CurrentFactor ==
  ASSUME TypeOK, JobsOK, NEW w \in Worker, Accept(w), user # NoUser, "factor" \notin raced'
  PROVE  /\ factor # NoFactor /\ factor.last < job[w].step
         /\ job[w].step \in Step
         /\ factor' = [used |-> TRUE, last |-> job[w].step]
         /\ accepted' = [accepted EXCEPT ![job[w].step] = @ + 1]
<1>1. job[w].factor \in FactorType /\ job[w].factor.last < job[w].step /\ job[w].step \in Step
  BY DEF Accept, At, JobsOK, JobOK
<1>2. factor = job[w].factor
  BY DEF Accept
<1>3. QED BY <1>1, <1>2, NoneAssumption DEF Accept

LEMMA LastingStep ==
  TypeOK /\ JobsOK /\ NoAccount /\ CodesOK /\ Lasting /\ [Next]_vars => Lasting'
<1> SUFFICES ASSUME TypeOK, JobsOK, NoAccount, CodesOK, Lasting, [Next]_vars PROVE Lasting'
  OBVIOUS
<1>1. raced \subseteq raced' /\ RowEffect
  BY StepEffect, StepRowEffect DEF Effect
<1>2. ASSUME "session" \in ended' \ raced' PROVE session' = "none"
  <2>1. CASE session' = session /\ Remains("session")
    BY <1>1, <1>2, <2>1 DEF Lasting, Remains
  <2>2. CASE Login
    BY <1>2, <2>2 DEF Login, history
  <2>3. ASSUME NEW w \in Worker, StepUp(w) PROVE session' = "none"
    <3>1. ended' = ended
      BY <2>3 DEF StepUp
    <3>2. session = "none"
      BY <1>1, <1>2, <3>1 DEF Lasting
    <3>3. QED BY <1>2, <2>3, <3>2 DEF StepUp
  <2>4. QED BY <1>1, <2>1, <2>2, <2>3 DEF RowEffect, SessionEffect
<1>3. ASSUME "factor" \in ended' \ raced' PROVE factor' = NoFactor
  <2>1. CASE factor' = factor /\ Remains("factor")
    BY <1>1, <1>3, <2>1 DEF Lasting, Remains
  <2>2. ASSUME NEW w \in Worker, CreateFactor(w) PROVE factor' = NoFactor
    BY <1>3, <2>2 DEF CreateFactor
  <2>3. ASSUME NEW w \in Worker, Accept(w), user # NoUser PROVE factor' = NoFactor
    <3>1. ended' = ended
      BY <2>3 DEF Accept
    <3>2. factor = NoFactor
      BY <1>1, <1>3, <3>1 DEF Lasting
    <3>3. QED BY <1>3, <2>3, <3>2, CurrentFactor
  <2>4. QED BY <1>1, <2>1, <2>2, <2>3 DEF RowEffect, FactorEffect
<1>4. QED BY <1>2, <1>3, UserLastsStep DEF Lasting

LEMMA CaptchaStep == TypeOK /\ JobsOK /\ CaptchaInv /\ [Next]_vars => CaptchaInv'
<1> SUFFICES ASSUME TypeOK, JobsOK, CaptchaInv, [Next]_vars PROVE CaptchaInv'
  OBVIOUS
<1>1. raced \subseteq raced' /\ CaptchaEffect
  BY StepEffect, StepRowEffect DEF Effect, RowEffect
<1>2. CASE captchas' \subseteq captchas /\ solved' = solved
  BY <1>1, <1>2 DEF CaptchaInv, CaptchaOnce
<1>3. ASSUME NEW w \in Worker, Solve(w) PROVE CaptchaInv'
  <2> DEFINE c == job[w].captcha
  <2>1. c \in Captcha
    BY <1>3, SolveWorkers
  <2>2. /\ captchas' = captchas \ {c} /\ solved' = [solved EXCEPT ![c] = @ + 1]
        /\ c \in captchas \/ c \in raced'
    BY <1>3 DEF Solve
  <2> HIDE DEF c
  <2>3. \A d \in Captcha : d # c => solved'[d] = solved[d]
    BY <2>2 DEF TypeOK
  <2>4. c \in captchas => solved'[c] = 1
    BY <2>1, <2>2 DEF TypeOK, CaptchaInv
  <2>5. \A d \in captchas' : solved'[d] = 0
    BY <2>2, <2>3 DEF TypeOK, CaptchaInv
  <2>6. \A d \in Captcha \ raced' : solved'[d] <= 1
    BY <1>1, <2>2, <2>3, <2>4 DEF CaptchaInv, CaptchaOnce
  <2>7. QED BY <2>5, <2>6 DEF CaptchaInv, CaptchaOnce
<1>4. QED BY <1>1, <1>2, <1>3 DEF CaptchaEffect

LEMMA TimeStep == TypeOK /\ JobsOK /\ StepInv /\ [Next]_vars => StepInv'
<1> SUFFICES ASSUME TypeOK, JobsOK, StepInv, [Next]_vars, "factor" \notin raced' PROVE StepInv'
  BY DEF StepInv
<1>1. raced \subseteq raced' /\ FactorEffect
  BY StepEffect, StepRowEffect DEF Effect, RowEffect
<1>2. \A s \in Step :
        accepted[s] <= 1 /\ (accepted[s] > 0 /\ factor # NoFactor => s <= factor.last)
  BY <1>1 DEF StepInv
<1>3. CASE UNCHANGED <<factor, accepted>> \/ (factor' = NoFactor /\ accepted' = accepted)
  BY <1>2, <1>3 DEF StepInv
<1>4. ASSUME NEW w \in Worker, CreateFactor(w) PROVE StepInv'
  BY <1>4 DEF CreateFactor, StepInv
<1>5. ASSUME NEW w \in Worker, Accept(w), user # NoUser PROVE StepInv'
  <2>1. /\ factor # NoFactor /\ factor.last < job[w].step /\ job[w].step \in Step
        /\ factor'.last = job[w].step /\ accepted' = [accepted EXCEPT ![job[w].step] = @ + 1]
    BY <1>5, CurrentFactor
  <2>2. factor.last \in Nat /\ Step \subseteq Nat
    <3>1. factor \in FactorType
      BY <2>1 DEF TypeOK
    <3>2. factor.last \in Step \cup {0}
      BY <3>1 DEF FactorType
    <3>3. Step \cup {0} \subseteq Nat
      BY StepAssumption
    <3>4. factor.last \in Nat
      BY <3>2, <3>3
    <3>5. QED BY <3>3, <3>4
  <2>3. ASSUME NEW s \in Step
        PROVE  accepted'[s] <= 1 /\ (accepted'[s] > 0 => s <= factor'.last)
    <3>1. accepted[s] \in Nat
      BY DEF TypeOK
    <3>2. CASE s = job[w].step
      <4>1. ~(accepted[s] > 0)
        BY <1>2, <2>1, <2>2, <3>2
      <4>2. accepted'[s] = accepted[s] + 1
        BY <2>1, <3>2 DEF TypeOK
      <4>3. QED BY <2>1, <2>2, <3>1, <3>2, <4>1, <4>2
    <3>3. CASE s # job[w].step
      <4>1. accepted'[s] = accepted[s]
        BY <2>1, <3>3 DEF TypeOK
      <4>2. QED BY <1>2, <2>1, <2>2, <4>1
    <3>4. QED BY <3>2, <3>3
  <2>4. QED BY <2>3 DEF StepInv
<1>6. QED BY <1>1, <1>3, <1>4, <1>5 DEF FactorEffect
\* A worker that has begun is moved by itself only.
LEMMA MovesAlone ==
  ASSUME TypeOK, JobsOK, [Next]_vars, NEW w \in Worker, At(w, "act"), job'[w] # job[w]
  PROVE  Continue(w)
<1>1. job \in [Worker -> JobType] /\ Workers
  BY DEF TypeOK, Workers
<1>2. ASSUME NEW v \in Worker, Start(v) PROVE FALSE
  <2>1. PICK j : Request(v, j)
    BY <1>2 DEF Start, Register, AskReset, Settings, Unfactor, Authenticate, Verify
  <2>2. v # w
    BY <2>1 DEF Request, At
  <2>3. QED BY <1>1, <2>1, <2>2 DEF Request
<1>3. ASSUME NEW v \in Worker, Continue(v), v # w PROVE FALSE
  <2>1. CASE Solve(v)
    BY <1>3, <2>1, SolveWorkers
  <2>2. CASE Load(v)
    BY <1>3, <2>2, LoadWorkers
  <2>3. CASE LoadFactor(v)
    BY <1>1, <1>3, <2>3 DEF LoadFactor, Finish
  <2>4. CASE ~Solve(v) /\ ~Load(v) /\ ~LoadFactor(v)
    BY <1>1, <1>3, <2>4, ContinueEnds, EndsWorkers
  <2>5. QED BY <2>1, <2>2, <2>3, <2>4
<1>4. job' = job \/ \E v \in Worker : Start(v) \/ Continue(v)
  BY DEF Next, AskDelete, AskEmail, AskFactor, Outreach, Mail, Login, Logout, ChangeDomains,
     Commands, Lock, SelectNeverActivated, DeleteNeverActivated, DeleteExpiredCaptcha, vars
<1>5. QED BY <1>2, <1>3, <1>4
-----------------------------------------------------------------------------
(* Theorems                                                                 *)

LEMMA IInvInit == Init => IInv
<1> SUFFICES ASSUME Init PROVE IInv
  OBVIOUS
<1>1. TypeOK /\ JobsOK
  BY InitOK
<1>2. \A w \in Worker : job[w] = Idle /\ ~HasUser(job[w])
  BY IdleOK DEF Init
<1>3. Idle.stage = "idle"
  BY DEF Idle
<1>4. raced = {} /\ ended = {} /\ epoch = 0
      /\ (\A c \in Captcha : solved[c] = 0) /\ (\A s \in Step : accepted[s] = 0)
  BY DEF Init
<1>5. NoAccount /\ CaptchaInv /\ StepInv /\ Lasting
  <2>1. user = NoUser => codes = {}
    <3>1. Account("yes", FALSE) \in UserType /\ Account("pending", TRUE) \in UserType
      BY DEF Account, UserType
    <3>2. QED BY <3>1, NoneAssumption DEF Init
  <2>2. QED BY <1>1, <1>2, <1>4, <2>1 DEF NoAccount, CaptchaInv, CaptchaOnce, StepInv, Lasting, TypeOK
<1>6. HumanInv
  <2>1. user # NoUser /\ Cleared(user) => human
    BY DEF Init, Account, Cleared
  <2>2. QED BY <1>2, <1>3, <2>1 DEF HumanInv, At
<1>7. CASE codes = {}
  <2>1. user # NoUser => user.changed = 0
    BY <1>7 DEF Init, Account
  <2>2. QED BY <1>1, <1>4, <1>5, <1>6, <1>7, <2>1 DEF IInv, CodesOK, Current
<1>8. CASE codes # {}
  <2>1. PICK domain \in BOOLEAN :
          codes = {[kind |-> "activate", active |-> "pending", changed |-> 0,
                    domain |-> domain, epoch |-> 0]}
    BY <1>8 DEF Init
  <2>2. user # NoUser => user.changed = 0
    BY <1>8 DEF Init, Account
  <2>3. \A code \in codes : code.active = "pending" /\ code.changed = 0 /\ code.epoch = 0
    BY <2>1
  <2>4. CodesOK /\ Current
    BY <1>4, <2>2, <2>3 DEF CodesOK, Current
  <2>5. QED BY <1>1, <1>5, <1>6, <2>4 DEF IInv
<1>9. QED BY <1>7, <1>8

LEMMA IInvStep == IInv /\ [Next]_vars => IInv'
<1> SUFFICES ASSUME IInv, [Next]_vars PROVE IInv'
  OBVIOUS
<1>1. TypeOK' /\ JobsOK'
  BY TypeStep DEF IInv
<1>2. NoAccount' /\ HumanInv' /\ CodesOK' /\ Current'
  BY NoAccountStep, HumanStep, CodesStep, CurrentStep DEF IInv
<1>3. CaptchaInv' /\ StepInv' /\ Lasting'
  BY CaptchaStep, TimeStep, LastingStep DEF IInv
<1>4. QED BY <1>1, <1>2, <1>3 DEF IInv

LEMMA IInvHolds == Spec => []IInv
BY IInvInit, IInvStep, PTL DEF Spec

\* The types; what belongs to an account goes with it.
THEOREM AccountTypeOK == Spec => []TypeOK
<1>1. IInv => TypeOK
  BY DEF IInv
<1>2. QED BY <1>1, IInvHolds, PTL

\* A lock, a deletion, a logout and the removal of a factor last, unless a row is
\* saved from an instance that is no longer current.
THEOREM EndsLast == Spec => []Lasting
<1>1. IInv => Lasting
  BY DEF IInv
<1>2. QED BY <1>1, IInvHolds, PTL

\* One captcha admits one request, unless two have loaded its row.
THEOREM CaptchasAreSpent == Spec => []CaptchaOnce
<1>1. IInv => CaptchaOnce
  BY DEF IInv, CaptchaInv
<1>2. QED BY <1>1, IInvHolds, PTL

\* The code of a time step is accepted once, unless two verifications have loaded
\* the factor.
THEOREM StepsAreSpent == Spec => []StepOnce
<1>1. IInv => StepOnce
  BY DEF IInv, StepInv, StepOnce
<1>2. QED BY <1>1, IInvHolds, PTL

\* An account is active only after a captcha.
THEOREM HumansFirst == Spec => []HumanFirst
<1>1. IInv => HumanFirst
  BY DEF IInv, HumanInv, HumanFirst, Active, Cleared
<1>2. QED BY <1>1, IInvHolds, PTL

\* A code does nothing once the credentials or the activation of its account have
\* changed: not twice, and not after another code of the same state.
THEOREM CodesAreSpent == Spec => CodesExpire
<1> DEFINE Expire(w) ==
      At(w, "act") /\ job'[w] # job[w] /\ epoch' # epoch =>
        \/ job[w].code.epoch = epoch \/ job[w].user # user
        \/ raced \cap {"user", "factor"} # {}
<1>1. ASSUME IInv, [Next]_vars, NEW w \in Worker PROVE Expire(w)
  <2> SUFFICES ASSUME At(w, "act"), job'[w] # job[w], epoch' # epoch, job[w].user = user,
                      raced \cap {"user", "factor"} = {}
               PROVE  job[w].code.epoch = epoch
    OBVIOUS
  <2>1. TypeOK /\ JobsOK /\ Current /\ Workers
    BY <1>1 DEF IInv, Workers, TypeOK
  <2>2. job[w].code \in codes /\ job[w].code.kind = job[w].kind /\ user # NoUser
    BY <2>1, InstanceTyped DEF At, HasUser, HasCode, JobsOK, JobOK
  <2>3. StateMatches(w) /\ job[w].kind \in Stateful
    <3>1. Continue(w)
      BY <1>1, <2>1, MovesAlone
    <3>2. QED
      BY <3>1 DEF Continue, At, Solve, SolveFails, Create, IssueReset, SaveVerified, Load, ActRefused,
         Activate, ChangeCredentials, CreateFactor, DeleteUser, ActEnds, CreateDomain, Save,
         LoadFactor, Accept, StepUp, DeleteFactor, DeleteFactorFails, Acting, Is, Stateful, history
  <2>4. QED BY <2>1, <2>2, <2>3 DEF StateMatches, Current
<1>2. IInv /\ [Next]_vars => [\A w \in Worker : Expire(w)]_vars
  BY <1>1
<1>3. QED BY <1>2, IInvHolds, PTL DEF Spec, CodesExpire
=============================================================================
