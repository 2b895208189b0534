------------------------------- MODULE Renewal -------------------------------
(***************************************************************************)
(* Expiry of domains under a local public suffix: scavenge-unused renews     *)
(* what was used lately, announces the deletion of the rest twice, deletes,  *)
(* and at last removes the delegations.  Users change records, confirm their  *)
(* domains, delete and register them at any point of a run, and a run may end *)
(* at any point by an exception.                                             *)
(*                                                                          *)
(* Abstractions: a time is kept as its age in days, up to the age beyond      *)
(* which the program makes no difference; owners are not locked; that the     *)
(* transactions of DomainLifecycle succeed or fail is one step here.          *)
(***************************************************************************)
EXTENDS Naturals

CONSTANTS
  Domain, User,
  FreshDays,      \* fresh_days
  NotifyDays,     \* notice_days_notify
  WarnDays,       \* notice_days_warn
  InitialOwner    \* the owner of each domain at the start

ASSUME DaysAssumption ==
  /\ FreshDays \in Nat /\ NotifyDays \in Nat /\ WarnDays \in Nat
  /\ 0 < WarnDays /\ WarnDays < NotifyDays /\ NotifyDays <= FreshDays
ASSUME OwnerAssumption == InitialOwner \in [Domain -> User]

VARIABLES
  live, owner, users,     \* rows of Domain, their owners, rows of User
  state,                  \* renewal_state
  changed, active,        \* ages of renewal_changed and of last_active
  newer,                  \* domains whose last_active is after renewal_changed
  zones, delegated,       \* on pdns
  pending, confirming,    \* publications and confirmations under way
  stage, picked, gone,    \* scavenge-unused: where it is, the domains it has
                          \* selected, the ones it has deleted
  leaving,                \* the owner of the domain it has just deleted
  stale,                  \* selected ones that their owners have deleted since
  care, notice,           \* history: ages of the owner's last use, and of the first mail
  excused,                \* history: domains used while a run had selected them
  botched                 \* history: domains that a run left half deleted

rows == <<live, owner, users>>
renewal == <<state, changed, active, newer>>
pdns == <<zones, delegated>>
requests == <<pending, confirming>>
run == <<stage, picked, gone, leaving, stale>>
history == <<care, notice, excused, botched>>
vars == <<rows, renewal, pdns, requests, run, history>>

Fresh == 1
Notified == 2
Warned == 3
Lifetime == FreshDays + NotifyDays

Older(age, cap) == IF age < cap THEN age + 1 ELSE cap
Marked(set, d, flag) == IF flag THEN set \cup {d} ELSE set \ {d}
Picked(d) == \E u \in User : <<d, u>> \in picked

Init ==
  /\ live = Domain /\ owner = InitialOwner /\ users = User
  /\ state = [d \in Domain |-> Fresh]
  /\ changed = [d \in Domain |-> 0] /\ active = changed /\ newer = Domain
  /\ zones = Domain /\ delegated = Domain
  /\ pending = {} /\ confirming = {}
  /\ stage = "idle" /\ picked = {} /\ gone = {} /\ leaving = {} /\ stale = {}
  /\ care = changed /\ notice = changed /\ excused = {} /\ botched = {}

NextDay ==
  /\ changed' = [d \in Domain |-> Older(changed[d], FreshDays)]
  /\ active' = [d \in Domain |-> Older(active[d], Lifetime)]
  /\ care' = [d \in Domain |-> Older(care[d], Lifetime)]
  /\ notice' = [d \in Domain |-> Older(notice[d], NotifyDays)]
  /\ UNCHANGED <<rows, state, newer, pdns, requests, run, excused, botched>>

-----------------------------------------------------------------------------
(* Owners                                                                   *)

\* touched or published is set to the present.
Use(d) ==
  /\ active' = [active EXCEPT ![d] = 0] /\ newer' = newer \cup {d}
  /\ care' = [care EXCEPT ![d] = 0]
  /\ excused' = Marked(excused, d, stage = "delete" /\ Picked(d))
  /\ UNCHANGED <<state, changed, notice, botched>>

WriteRRset(d) ==
  /\ d \in live \ pending
  /\ pending' = pending \cup {d}
  /\ Use(d)
  /\ UNCHANGED <<rows, pdns, confirming, run>>

\* A row that is gone has no touched: the publication has to tell.
RemoveRRset(d) ==
  /\ d \in live \ pending
  /\ pending' = pending \cup {d}
  /\ care' = [care EXCEPT ![d] = 0] /\ excused' = excused \cup {d}
  /\ UNCHANGED <<rows, renewal, pdns, confirming, run, notice, botched>>

Publish(d) ==
  /\ d \in pending
  /\ pending' = pending \ {d}
  /\ IF d \in live THEN Use(d) ELSE UNCHANGED <<renewal, history>>
  /\ UNCHANGED <<rows, pdns, confirming, run>>

\* nsmaster refuses the AXFR request, or the process dies before it.
PublishFails(d) ==
  /\ d \in pending
  /\ pending' = pending \ {d}
  /\ UNCHANGED <<rows, renewal, pdns, confirming, run, history>>

\* The link of a mail is bound to renewal_changed, thus to the last mail.
ConfirmLoad(d) ==
  /\ d \in live \ confirming /\ state[d] # Fresh
  /\ confirming' = confirming \cup {d}
  /\ UNCHANGED <<rows, renewal, pdns, pending, run, history>>

Confirm(d) ==
  /\ d \in confirming
  /\ confirming' = confirming \ {d}
  /\ state' = [state EXCEPT ![d] = Fresh] /\ changed' = [changed EXCEPT ![d] = 0]
  /\ newer' = newer \ {d}
  /\ care' = [care EXCEPT ![d] = 0] /\ excused' = Marked(excused, d, Picked(d))
  /\ UNCHANGED <<rows, active, pdns, pending, run, notice, botched>>

Register(u, d) ==
  /\ u \in users /\ d \notin live
  /\ live' = live \cup {d} /\ owner' = [owner EXCEPT ![d] = u]
  /\ state' = [state EXCEPT ![d] = Fresh] /\ changed' = [changed EXCEPT ![d] = 0]
  /\ active' = [active EXCEPT ![d] = 0] /\ newer' = newer \cup {d}
  /\ zones' = zones \cup {d} /\ delegated' = delegated \cup {d}
  /\ care' = [care EXCEPT ![d] = 0]
  /\ excused' = excused \ {d} /\ botched' = botched \ {d}
  /\ UNCHANGED <<users, requests, run, notice>>

\* A confirmation under way finds no row to save.
Delete(d) ==
  /\ d \in live \cap zones
  /\ live' = live \ {d} /\ confirming' = confirming \ {d}
  /\ zones' = zones \ {d} /\ delegated' = delegated \ {d}
  /\ stale' = Marked(stale, d, Picked(d))
  /\ UNCHANGED <<owner, users, renewal, pending, stage, picked, gone, leaving, history>>

-----------------------------------------------------------------------------
(* scavenge-unused                                                          *)

Goto(next) == stage' = next

RenewTouched(D) ==
  /\ state' = [d \in Domain |-> IF d \in D THEN Fresh ELSE state[d]]
  /\ changed' = [d \in Domain |-> IF d \in D THEN active[d] ELSE changed[d]]
  /\ newer' = newer \ D

Renew ==
  /\ stage = "idle" /\ Goto("renewed")
  /\ RenewTouched({d \in live \cap newer : active[d] <= FreshDays})
  /\ UNCHANGED <<rows, active, pdns, requests, picked, gone, leaving, stale, history>>

\* Selected once, with the instances as they are now.
Select(D) ==
  /\ picked' = {<<d, owner[d]>> : d \in D} /\ stale' = {}
  /\ UNCHANGED <<rows, renewal, pdns, requests, gone, leaving, history>>

SelectFresh ==
  /\ stage = "renewed" /\ Goto("notify")
  /\ Select({d \in live : state[d] = Fresh /\ changed[d] >= FreshDays})

SelectNotified ==
  /\ stage = "notify" /\ picked = {} /\ Goto("warn")
  /\ Select({d \in live : state[d] = Notified /\ changed[d] >= NotifyDays - WarnDays})

ExpiredSoon(d) ==                       \* mutant: last_active is not looked at
  state[d] = Warned /\ changed[d] >= WarnDays
Expired(d) ==
  state[d] = Warned /\ changed[d] >= WarnDays /\ active[d] >= Lifetime

SelectExpired ==
  /\ stage = "warn" /\ picked = {} /\ Goto("delete")
  /\ Select({d \in live : Expired(d)})

\* One transaction per owner; the states are those of the instances, plus one.
AnnounceNotifies(u) ==                  \* mutant: NOTIFIED again
  LET D == {d \in Domain : <<d, u>> \in picked} IN
  /\ stage \in {"notify", "warn"} /\ D # {} /\ D \cap stale = {}
  /\ state' = [d \in Domain |-> IF d \in D THEN Notified ELSE state[d]]
  /\ changed' = [d \in Domain |-> IF d \in D THEN 0 ELSE changed[d]]
  /\ newer' = newer \ D /\ picked' = picked \ (D \X {u})
  /\ UNCHANGED <<rows, active, pdns, requests, stage, gone, leaving, stale, history>>
Announce(u) ==
  LET D == {d \in Domain : <<d, u>> \in picked} IN
  /\ stage \in {"notify", "warn"} /\ D # {} /\ D \cap stale = {}
  /\ state' = [d \in Domain |-> IF d \in D THEN IF stage = "notify" THEN Notified ELSE Warned
                                ELSE state[d]]
  /\ changed' = [d \in Domain |-> IF d \in D THEN 0 ELSE changed[d]]
  /\ newer' = newer \ D
  /\ notice' = [d \in Domain |-> IF d \in D /\ stage = "notify" THEN 0 ELSE notice[d]]
  /\ picked' = picked \ (D \X {u})
  /\ UNCHANGED <<rows, active, pdns, requests, stage, gone, leaving, stale, care, excused,
                 botched>>

\* pdns refuses to delete a zone that is not there, which ends the run (Abort).
DeleteDomain(d, u) ==
  /\ stage = "delete" /\ leaving = {} /\ <<d, u>> \in picked \ (stale \X User) /\ d \in zones
  /\ live' = live \ {d} /\ zones' = zones \ {d}
  /\ picked' = picked \ {<<d, u>>} /\ gone' = gone \cup {d} /\ leaving' = {u}
  /\ confirming' = confirming \ {d}
  /\ UNCHANGED <<owner, users, renewal, delegated, pending, stage, stale, history>>

\* The instance's row was deleted and the name registered again: the row stays,
\* the zone of that name goes.
DeleteStale(d, u) ==
  /\ stage = "delete" /\ leaving = {} /\ <<d, u>> \in picked /\ d \in stale \cap zones
  /\ zones' = zones \ {d} /\ botched' = botched \cup {d}
  /\ picked' = picked \ {<<d, u>>} /\ gone' = gone \cup {d} /\ leaving' = {u}
  /\ UNCHANGED <<rows, renewal, delegated, requests, stage, stale, care, notice, excused>>

DeleteOwnerAlways(u) ==                 \* mutant: other domains are not asked for
  /\ leaving = {u} /\ leaving' = {} /\ users' = users \ {u}
  /\ UNCHANGED <<live, owner, renewal, pdns, requests, stage, picked, gone, stale, history>>
\* After the commit of the deletion: the owner goes with the last domain.
DeleteOwner(u) ==
  /\ leaving = {u} /\ leaving' = {}
  /\ users' = IF \E e \in live : owner[e] = u THEN users ELSE users \ {u}
  /\ UNCHANGED <<live, owner, renewal, pdns, requests, stage, picked, gone, stale, history>>

UndelegateAgain ==                      \* mutant: the domains are selected again
  /\ stage = "delete" /\ picked = {} /\ leaving = {} /\ Goto("idle")
  /\ delegated' = delegated \ {d \in live : Expired(d)}
  /\ gone' = {} /\ botched' = botched \cup (gone \cap live)
  /\ UNCHANGED <<rows, renewal, zones, requests, picked, leaving, stale, care, notice,
                 excused>>
Undelegate ==
  /\ stage = "delete" /\ picked = {} /\ leaving = {} /\ Goto("idle")
  /\ delegated' = delegated \ gone
  /\ gone' = {} /\ botched' = botched \cup (gone \cap live)
  /\ UNCHANGED <<rows, renewal, zones, requests, picked, leaving, stale, care, notice,
                 excused>>

\* Mail or pdns fails, a row has vanished: the open transaction is rolled back,
\* the rest of the run does not take place.
Abort ==
  /\ stage # "idle" /\ Goto("idle")
  /\ picked' = {} /\ gone' = {} /\ leaving' = {} /\ stale' = {}
  /\ botched' = botched \cup gone
  /\ UNCHANGED <<rows, renewal, pdns, requests, care, notice, excused>>

-----------------------------------------------------------------------------
Owner ==
  \E d \in Domain :
    \/ WriteRRset(d) \/ RemoveRRset(d) \/ Publish(d) \/ PublishFails(d)
    \/ ConfirmLoad(d) \/ Confirm(d) \/ Delete(d)
    \/ \E u \in User : Register(u, d)

Scavenge ==
  \/ Renew \/ SelectFresh \/ SelectNotified \/ SelectExpired
  \/ \E u \in User : Announce(u) \/ DeleteOwner(u)
  \/ \E d \in Domain, u \in User : DeleteDomain(d, u) \/ DeleteStale(d, u)
  \/ Undelegate

Next == NextDay \/ Owner \/ Scavenge \/ Abort

\* Days pass, and cron starts the command, which does not stop half-way.
Fairness == WF_vars(NextDay) /\ WF_vars(Scavenge)
Spec == Init /\ [][Next]_vars /\ Fairness

-----------------------------------------------------------------------------
(* Properties                                                               *)

Days(cap) == [Domain -> 0 .. cap]
\* The types; a domain has an owner with an account.
TypeOK ==
  /\ live \subseteq Domain /\ owner \in [Domain -> User] /\ users \subseteq User
  /\ \A d \in live : owner[d] \in users
  /\ state \in [Domain -> {Fresh, Notified, Warned}]
  /\ changed \in Days(FreshDays) /\ active \in Days(Lifetime) /\ newer \subseteq Domain
  /\ zones \subseteq Domain /\ delegated \subseteq Domain
  /\ pending \subseteq Domain /\ confirming \subseteq live
  /\ stage \in {"idle", "renewed", "notify", "warn", "delete"}
  /\ picked \subseteq Domain \X User /\ leaving \subseteq User
  /\ gone \subseteq Domain /\ stale \subseteq Domain
  /\ care \in Days(Lifetime) /\ notice \in Days(NotifyDays)
  /\ excused \subseteq Domain /\ botched \subseteq Domain

\* scavenge-unused deletes no domain that was used or confirmed within its
\* lifetime, and none before the date that the first mail named, unless the
\* domain was used while the run had it selected (or by a change that was never
\* published).
NotDeletedEarly ==
  [][\A d \in (gone' \ gone) \ live' :
       d \in excused \/ (care[d] = Lifetime /\ notice[d] = NotifyDays)]_vars

\* Between runs a domain has a zone and a delegation iff it is stored, unless
\* a run ended after it had deleted it, or it was registered again during a run.
NothingLeftBehind ==
  stage = "idle" =>
    \A d \in Domain \ botched : (d \in live <=> d \in zones) /\ (d \in zones <=> d \in delegated)

\* A domain that nobody uses is deleted in the end, if runs are completed.
Expires ==
  \A d \in Domain :
    <>[](care[d] = Lifetime) /\ []<>(stage = "delete" /\ picked = {}) ~> d \notin live
=============================================================================
