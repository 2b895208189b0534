---------------------------- MODULE RenewalProofs ----------------------------
(***************************************************************************)
(* Proofs about Renewal, for any domains, users and numbers of days: what the *)
(* rows, the zones and the delegations say of each other, and that the state  *)
(* of the renewal and the ages of its times bound the age of the owner's last *)
(* use and of the first mail from below, also for what a run has selected     *)
(* and the owner has not touched since.                                       *)
(***************************************************************************)
EXTENDS Renewal, TLAPS

\* The age that the state of a domain implies for its last use.
Due(d) ==
  IF state[d] = Fresh THEN changed[d]
  ELSE IF state[d] = Notified THEN FreshDays + changed[d]
  ELSE FreshDays + NotifyDays - WarnDays + changed[d]

CareOK(d) == care[d] >= active[d] \/ care[d] = Lifetime \/ care[d] >= Due(d)

NoticeOK(d) ==
  /\ state[d] = Notified => notice[d] = NotifyDays \/ notice[d] >= changed[d]
  /\ state[d] = Warned => \/ notice[d] = NotifyDays
                          \/ notice[d] >= NotifyDays - WarnDays + changed[d]

AgeOK(d) ==
  /\ d \notin excused => CareOK(d)
  /\ NoticeOK(d)
  /\ d \in newer => active[d] <= changed[d] \/ changed[d] = FreshDays

AgeInv == \A d \in live : AgeOK(d)

\* What holds of a selected domain until the run comes to it.
PickOK(d) ==
  /\ d \in live
  /\ stage = "notify" => d \in excused \/ care[d] >= active[d] \/ care[d] >= FreshDays
  /\ stage = "warn" =>
       /\ notice[d] >= NotifyDays - WarnDays
       /\ \/ d \in excused \/ care[d] >= active[d]
          \/ care[d] >= FreshDays + NotifyDays - WarnDays
  /\ stage = "delete" => notice[d] = NotifyDays /\ (d \in excused \/ care[d] = Lifetime)

PickInv ==
  /\ picked # {} => stage \in {"notify", "warn", "delete"}
  /\ \A d \in Domain, u, v \in User : <<d, u>> \in picked /\ <<d, v>> \in picked => u = v
  /\ \A d \in Domain, u \in User : <<d, u>> \in picked /\ d \notin stale => PickOK(d)

LeftInv ==
  /\ \A d \in Domain \ (botched \cup gone) :
       (d \in live <=> d \in zones) /\ (d \in zones <=> d \in delegated)
  /\ \A d \in gone \ botched : d \in live <=> d \in zones
  /\ zones \subseteq live
  /\ stage # "delete" => gone = {}

IInv == TypeOK /\ LeftInv /\ AgeInv /\ PickInv

USE DEF rows, renewal, pdns, requests, run, history, vars, Fresh, Notified, Warned, Lifetime

-----------------------------------------------------------------------------
(* Types                                                                    *)

LEMMA OlderType ==
  ASSUME NEW cap \in Nat, NEW age \in 0 .. cap
  PROVE  /\ Older(age, cap) \in 0 .. cap /\ Older(age, cap) >= age
         /\ age < cap => Older(age, cap) = age + 1
         /\ age = cap => Older(age, cap) = cap
BY DEF Older

LEMMA TypeInit == Init => TypeOK
BY DaysAssumption, OwnerAssumption DEF Init, TypeOK, Days

LEMMA TypeStep == TypeOK /\ [Next]_vars => TypeOK'
<1> SUFFICES ASSUME TypeOK, [Next]_vars PROVE TypeOK'
  OBVIOUS
<1> USE DaysAssumption
<1>1. CASE NextDay
  <2>1. \A cap \in Nat : \A f \in Days(cap) :
          [d \in Domain |-> Older(f[d], cap)] \in Days(cap)
    BY OlderType DEF Days
  <2>2. FreshDays \in Nat /\ NotifyDays \in Nat /\ Lifetime \in Nat
    OBVIOUS
  <2>3. changed' \in Days(FreshDays)
    BY <1>1, <2>1, <2>2 DEF NextDay, TypeOK
  <2>4. active' \in Days(Lifetime) /\ care' \in Days(Lifetime)
    BY <1>1, <2>1, <2>2 DEF NextDay, TypeOK
  <2>5. notice' \in Days(NotifyDays)
    BY <1>1, <2>1, <2>2 DEF NextDay, TypeOK
  <2> QED BY <1>1, <2>3, <2>4, <2>5 DEF NextDay, TypeOK
<1>2. ASSUME NEW d \in Domain, WriteRRset(d) PROVE TypeOK'
  BY <1>2 DEF WriteRRset, Use, Marked, TypeOK, Days
<1>3. ASSUME NEW d \in Domain, RemoveRRset(d) PROVE TypeOK'
  BY <1>3 DEF RemoveRRset, TypeOK, Days
<1>4. ASSUME NEW d \in Domain, Publish(d) PROVE TypeOK'
  BY <1>4 DEF Publish, Use, Marked, TypeOK, Days
<1>5. ASSUME NEW d \in Domain, PublishFails(d) PROVE TypeOK'
  BY <1>5 DEF PublishFails, TypeOK
<1>6. ASSUME NEW d \in Domain, ConfirmLoad(d) PROVE TypeOK'
  BY <1>6 DEF ConfirmLoad, TypeOK
<1>7. ASSUME NEW d \in Domain, Confirm(d) PROVE TypeOK'
  BY <1>7 DEF Confirm, Marked, TypeOK, Days
<1>8. ASSUME NEW d \in Domain, Delete(d) PROVE TypeOK'
  BY <1>8 DEF Delete, Marked, TypeOK
<1>9. ASSUME NEW d \in Domain, NEW u \in User, Register(u, d) PROVE TypeOK'
  BY <1>9 DEF Register, TypeOK, Days
<1>10. CASE Renew
  BY <1>10 DEF Renew, RenewTouched, Goto, TypeOK, Days
<1>11. CASE SelectFresh
  BY <1>11 DEF SelectFresh, Select, Goto, TypeOK
<1>12. CASE SelectNotified
  BY <1>12 DEF SelectNotified, Select, Goto, TypeOK
<1>13. CASE SelectExpired
  BY <1>13 DEF SelectExpired, Select, Goto, TypeOK
<1>14. ASSUME NEW u \in User, Announce(u) PROVE TypeOK'
  BY <1>14 DEF Announce, TypeOK, Days
<1>15. ASSUME NEW d \in Domain, NEW u \in User, DeleteDomain(d, u) PROVE TypeOK'
  BY <1>15 DEF DeleteDomain, TypeOK
<1>16. ASSUME NEW d \in Domain, NEW u \in User, DeleteStale(d, u) PROVE TypeOK'
  BY <1>16 DEF DeleteStale, TypeOK
<1>16a. ASSUME NEW u \in User, DeleteOwner(u) PROVE TypeOK'
  BY <1>16a DEF DeleteOwner, TypeOK
<1>17. CASE Undelegate
  BY <1>17 DEF Undelegate, Goto, TypeOK
<1>18. CASE Abort
  BY <1>18 DEF Abort, Goto, TypeOK
<1>19. CASE UNCHANGED vars
  BY <1>19 DEF TypeOK
<1>20. QED
  BY <1>1, <1>2, <1>3, <1>4, <1>5, <1>6, <1>7, <1>8, <1>9, <1>10, <1>11, <1>12, <1>13,
     <1>14, <1>15, <1>16, <1>16a, <1>17, <1>18, <1>19 DEF Next, Owner, Scavenge

-----------------------------------------------------------------------------
(* Rows, zones and delegations                                              *)

LEMMA LeftInit == Init => LeftInv
BY DEF Init, LeftInv

LEMMA LeftStep == TypeOK /\ LeftInv /\ [Next]_vars => LeftInv'
<1> SUFFICES ASSUME TypeOK, LeftInv, [Next]_vars PROVE LeftInv'
  OBVIOUS
<1>1. ASSUME UNCHANGED <<live, zones, delegated, stage, gone, botched>> PROVE LeftInv'
  BY <1>1 DEF LeftInv
<1>2. CASE NextDay
  BY <1>1, <1>2 DEF NextDay
<1>3. ASSUME NEW d \in Domain,
             WriteRRset(d) \/ RemoveRRset(d) \/ PublishFails(d) \/ ConfirmLoad(d) \/ Confirm(d)
      PROVE  LeftInv'
  BY <1>1, <1>3 DEF WriteRRset, Use, RemoveRRset, PublishFails, ConfirmLoad, Confirm
<1>4. ASSUME NEW d \in Domain, Publish(d) PROVE LeftInv'
  BY <1>1, <1>4 DEF Publish, Use
<1>5. ASSUME NEW d \in Domain, Delete(d) PROVE LeftInv'
  BY <1>5 DEF Delete, LeftInv, TypeOK
<1>6. ASSUME NEW d \in Domain, NEW u \in User, Register(u, d) PROVE LeftInv'
  BY <1>6 DEF Register, LeftInv, TypeOK
<1>7. CASE Renew
  BY <1>7 DEF Renew, RenewTouched, Goto, LeftInv
<1>8. CASE SelectFresh
  BY <1>8 DEF SelectFresh, Select, Goto, LeftInv
<1>9. CASE SelectNotified
  BY <1>9 DEF SelectNotified, Select, Goto, LeftInv
<1>10. CASE SelectExpired
  BY <1>10 DEF SelectExpired, Select, Goto, LeftInv
<1>11. ASSUME NEW u \in User, Announce(u) PROVE LeftInv'
  BY <1>1, <1>11 DEF Announce
<1>12. ASSUME NEW d \in Domain, NEW u \in User, DeleteDomain(d, u) PROVE LeftInv'
  BY <1>12 DEF DeleteDomain, LeftInv, TypeOK
<1>13. ASSUME NEW d \in Domain, NEW u \in User, DeleteStale(d, u) PROVE LeftInv'
  BY <1>13 DEF DeleteStale, LeftInv, TypeOK
<1>13a. ASSUME NEW u \in User, DeleteOwner(u) PROVE LeftInv'
  BY <1>1, <1>13a DEF DeleteOwner
<1>14. CASE Undelegate
  BY <1>14 DEF Undelegate, Goto, LeftInv, TypeOK
<1>15. CASE Abort
  BY <1>15 DEF Abort, Goto, LeftInv, TypeOK
<1>16. CASE UNCHANGED vars
  BY <1>1, <1>16
<1>17. QED
  BY <1>2, <1>3, <1>4, <1>5, <1>6, <1>7, <1>8, <1>9, <1>10, <1>11, <1>12, <1>13, <1>14,
     <1>13a, <1>15, <1>16 DEF Next, Owner, Scavenge
-----------------------------------------------------------------------------
(* Ages                                                                     *)

LEMMA Ages ==
  ASSUME TypeOK, NEW d \in Domain
  PROVE  /\ care[d] \in 0 .. Lifetime /\ active[d] \in 0 .. Lifetime
         /\ changed[d] \in 0 .. FreshDays /\ notice[d] \in 0 .. NotifyDays
         /\ state[d] \in {Fresh, Notified, Warned}
BY DEF TypeOK, Days

\* A domain whose times stay what they are.
LEMMA AgeKept ==
  ASSUME NEW d \in Domain, AgeOK(d),
         state'[d] = state[d], changed'[d] = changed[d], active'[d] = active[d],
         care'[d] = care[d], notice'[d] = notice[d],
         d \in excused => d \in excused', d \in newer' => d \in newer
  PROVE  AgeOK(d)'
BY DEF AgeOK, CareOK, NoticeOK, Due

\* The same if all rows that are left have been there.
LEMMA AgesKept ==
  ASSUME AgeInv, TypeOK, live' \subseteq live, UNCHANGED <<renewal, care, notice>>,
         excused \subseteq excused'
  PROVE  AgeInv'
BY AgeKept DEF AgeInv, TypeOK

LEMMA AgeInit == Init => AgeInv
<1> SUFFICES ASSUME Init, NEW d \in Domain PROVE AgeOK(d)
  BY DEF AgeInv, Init
<1>1. state[d] = Fresh /\ changed[d] = 0 /\ active[d] = 0 /\ care[d] = 0
  BY DEF Init
<1>2. QED BY <1>1 DEF AgeOK, CareOK, NoticeOK

LEMMA OneMoreDay ==
  ASSUME TypeOK, NextDay, NEW d \in Domain
  PROVE  /\ care'[d] \in 0 .. Lifetime /\ active'[d] \in 0 .. Lifetime
         /\ changed'[d] \in 0 .. FreshDays /\ notice'[d] \in 0 .. NotifyDays
         /\ care'[d] = IF care[d] < Lifetime THEN care[d] + 1 ELSE Lifetime
         /\ active'[d] = IF active[d] < Lifetime THEN active[d] + 1 ELSE Lifetime
         /\ changed'[d] = IF changed[d] < FreshDays THEN changed[d] + 1 ELSE FreshDays
         /\ notice'[d] = IF notice[d] < NotifyDays THEN notice[d] + 1 ELSE NotifyDays
         /\ state' = state /\ newer' = newer /\ excused' = excused /\ live' = live
BY DaysAssumption DEF NextDay, TypeOK, Days, Older

LEMMA AgeNextDay == TypeOK /\ AgeInv /\ NextDay => AgeInv'
<1> SUFFICES ASSUME TypeOK, AgeInv, NextDay, NEW d \in Domain, d \in live
             PROVE  AgeOK(d)'
  BY OneMoreDay DEF AgeInv, TypeOK, NextDay
<1> USE DaysAssumption, OneMoreDay, Ages
<1>1. AgeOK(d)
  BY DEF AgeInv
<1>2. d \notin excused => CareOK(d)'
  BY <1>1 DEF AgeOK, CareOK, Due
<1>3. NoticeOK(d)'
  BY <1>1 DEF AgeOK, NoticeOK
<1>4. d \in newer => active'[d] <= changed'[d] \/ changed'[d] = FreshDays
  BY <1>1 DEF AgeOK
<1>5. QED BY <1>2, <1>3, <1>4 DEF AgeOK

\* touched or published: the owner's last use is the present.
LEMMA AgeUse ==
  ASSUME TypeOK, AgeInv, NEW d \in Domain, Use(d), live' = live
  PROVE  AgeInv'
<1> SUFFICES ASSUME NEW e \in Domain, e \in live PROVE AgeOK(e)'
  BY DEF AgeInv, TypeOK
<1>1. AgeOK(e)
  BY DEF AgeInv
<1>2. CASE e = d
  <2>1. active'[d] = 0 /\ care'[d] = 0
    BY DEF Use, TypeOK, Days
  <2>2. changed'[d] = changed[d] /\ changed[d] \in 0 .. FreshDays
    BY Ages DEF Use
  <2>3. CareOK(d)'
    BY <2>1 DEF CareOK
  <2>4. NoticeOK(d)'
    BY <1>1, <1>2 DEF Use, AgeOK, NoticeOK
  <2>5. QED BY <1>2, <2>1, <2>2, <2>3, <2>4, DaysAssumption DEF AgeOK
<1>3. CASE e # d
  <2>1. e \in excused => e \in excused'
    BY <1>3 DEF Use, Marked
  <2>2. QED BY <1>1, <1>3, <2>1, AgeKept DEF Use, TypeOK
<1>4. QED BY <1>2, <1>3

LEMMA AgeStep == TypeOK /\ AgeInv /\ PickInv /\ [Next]_vars => AgeInv'
<1> SUFFICES ASSUME TypeOK, AgeInv, PickInv, [Next]_vars PROVE AgeInv'
  OBVIOUS
<1>1. CASE NextDay
  BY <1>1, AgeNextDay
<1>2. ASSUME NEW d \in Domain, WriteRRset(d) PROVE AgeInv'
  BY <1>2, AgeUse DEF WriteRRset
<1>3. ASSUME NEW d \in Domain, RemoveRRset(d) PROVE AgeInv'
  <2> SUFFICES ASSUME NEW e \in Domain, e \in live PROVE AgeOK(e)'
    BY <1>3 DEF AgeInv, TypeOK, RemoveRRset
  <2>1. AgeOK(e)
    BY DEF AgeInv
  <2>2. CASE e = d
    BY <1>3, <2>1, <2>2 DEF RemoveRRset, AgeOK, NoticeOK
  <2>3. CASE e # d
    BY <1>3, <2>1, <2>3, AgeKept DEF RemoveRRset, TypeOK
  <2>4. QED BY <2>2, <2>3
<1>4. ASSUME NEW d \in Domain, Publish(d) PROVE AgeInv'
  <2>1. CASE d \in live
    BY <1>4, <2>1, AgeUse DEF Publish
  <2>2. CASE d \notin live
    BY <1>4, <2>2, AgesKept DEF Publish
  <2>3. QED BY <2>1, <2>2
<1>5. ASSUME NEW d \in Domain, PublishFails(d) \/ ConfirmLoad(d) PROVE AgeInv'
  BY <1>5, AgesKept DEF PublishFails, ConfirmLoad
<1>6. ASSUME NEW d \in Domain, Confirm(d) PROVE AgeInv'
  <2> SUFFICES ASSUME NEW e \in Domain, e \in live PROVE AgeOK(e)'
    BY <1>6 DEF AgeInv, TypeOK, Confirm
  <2>1. AgeOK(e)
    BY DEF AgeInv
  <2>2. CASE e = d
    <3>1. state'[d] = Fresh /\ changed'[d] = 0 /\ care'[d] = 0 /\ d \notin newer'
      BY <1>6 DEF Confirm, TypeOK, Days
    <3>2. QED BY <2>2, <3>1 DEF AgeOK, CareOK, NoticeOK, Due
  <2>3. CASE e # d
    BY <1>6, <2>1, <2>3, AgeKept DEF Confirm, TypeOK, Marked
  <2>4. QED BY <2>2, <2>3
<1>7. ASSUME NEW d \in Domain, Delete(d) PROVE AgeInv'
  BY <1>7, AgesKept DEF Delete
<1>8. ASSUME NEW d \in Domain, NEW u \in User, Register(u, d) PROVE AgeInv'
  <2> SUFFICES ASSUME NEW e \in Domain, e \in live' PROVE AgeOK(e)'
    BY <1>8 DEF AgeInv, TypeOK, Register
  <2>1. CASE e = d
    <3>1. state'[d] = Fresh /\ changed'[d] = 0 /\ active'[d] = 0 /\ care'[d] = 0
      BY <1>8 DEF Register, TypeOK, Days
    <3>2. QED BY <2>1, <3>1 DEF AgeOK, CareOK, NoticeOK
  <2>2. CASE e # d
    <3>1. e \in live /\ AgeOK(e)
      BY <1>8, <2>2 DEF Register, AgeInv
    <3>2. QED BY <1>8, <2>2, <3>1, AgeKept DEF Register, TypeOK
  <2>3. QED BY <2>1, <2>2
<1>9. CASE Renew
  <2> DEFINE D == {d \in live \cap newer : active[d] <= FreshDays}
  <2> SUFFICES ASSUME NEW e \in Domain, e \in live PROVE AgeOK(e)'
    BY <1>9 DEF AgeInv, TypeOK, Renew
  <2>1. AgeOK(e)
    BY DEF AgeInv
  <2>2. CASE e \in D
    <3>1. state'[e] = Fresh /\ changed'[e] = active[e] /\ e \notin newer'
      BY <1>9, <2>2 DEF Renew, RenewTouched
    <3>2. active' = active /\ care' = care /\ notice' = notice /\ excused' = excused
      BY <1>9 DEF Renew
    <3>3. e \notin excused => care[e] >= active[e]
      <4>1. /\ active[e] <= FreshDays
            /\ active[e] <= changed[e] \/ changed[e] = FreshDays
        BY <2>1, <2>2 DEF AgeOK
      <4>2. QED BY <2>1, <4>1, Ages, DaysAssumption DEF AgeOK, CareOK, Due
    <3>4. QED BY <3>1, <3>2, <3>3 DEF AgeOK, CareOK, NoticeOK
  <2>3. CASE e \notin D
    <3>1. /\ state'[e] = state[e] /\ changed'[e] = changed[e] /\ newer' \subseteq newer
          /\ active' = active /\ care' = care /\ notice' = notice /\ excused' = excused
      BY <1>9, <2>3 DEF Renew, RenewTouched
    <3>2. QED BY <2>1, <3>1, AgeKept
  <2>4. QED BY <2>2, <2>3
<1>10. CASE SelectFresh \/ SelectNotified \/ SelectExpired
  BY <1>10, AgesKept DEF SelectFresh, SelectNotified, SelectExpired, Select
<1>11. ASSUME NEW u \in User, Announce(u) PROVE AgeInv'
  <2> DEFINE D == {d \in Domain : <<d, u>> \in picked}
  <2> SUFFICES ASSUME NEW e \in Domain, e \in live PROVE AgeOK(e)'
    BY <1>11 DEF AgeInv, TypeOK, Announce
  <2>1. AgeOK(e)
    BY DEF AgeInv
  <2>2. /\ stage \in {"notify", "warn"} /\ D \cap stale = {}
        /\ active' = active /\ care' = care /\ excused' = excused
    BY <1>11 DEF Announce
  <2>3. CASE e \in D /\ stage = "notify"
    <3>1. state'[e] = Notified /\ changed'[e] = 0 /\ notice'[e] = 0 /\ e \notin newer'
      BY <1>11, <2>3 DEF Announce
    <3>2. e \in excused \/ care[e] >= active[e] \/ care[e] >= FreshDays
      BY <2>2, <2>3 DEF PickInv, PickOK
    <3>3. QED BY <2>2, <3>1, <3>2, Ages, DaysAssumption DEF AgeOK, CareOK, NoticeOK, Due
  <2>4. CASE e \in D /\ stage = "warn"
    <3>1. state'[e] = Warned /\ changed'[e] = 0 /\ notice'[e] = notice[e] /\ e \notin newer'
      BY <1>11, <2>4 DEF Announce
    <3>2. /\ notice[e] >= NotifyDays - WarnDays
          /\ e \in excused \/ care[e] >= active[e] \/ care[e] >= FreshDays + NotifyDays - WarnDays
      BY <2>2, <2>4 DEF PickInv, PickOK
    <3>3. QED BY <2>2, <3>1, <3>2, Ages, DaysAssumption DEF AgeOK, CareOK, NoticeOK, Due
  <2>5. CASE e \notin D
    <3>1. /\ state'[e] = state[e] /\ changed'[e] = changed[e] /\ notice'[e] = notice[e]
          /\ newer' \subseteq newer
      BY <1>11, <2>5 DEF Announce
    <3>2. QED BY <2>1, <2>2, <3>1, AgeKept
  <2>6. QED BY <2>2, <2>3, <2>4, <2>5
<1>12. ASSUME NEW d \in Domain, NEW u \in User, DeleteDomain(d, u) PROVE AgeInv'
  BY <1>12, AgesKept DEF DeleteDomain
<1>13. ASSUME NEW d \in Domain, NEW u \in User, DeleteStale(d, u) PROVE AgeInv'
  BY <1>13, AgesKept DEF DeleteStale
<1>13a. ASSUME NEW u \in User, DeleteOwner(u) PROVE AgeInv'
  BY <1>13a, AgesKept DEF DeleteOwner
<1>14. CASE Undelegate
  BY <1>14, AgesKept DEF Undelegate
<1>15. CASE Abort
  BY <1>15, AgesKept DEF Abort
<1>16. CASE UNCHANGED vars
  BY <1>16, AgesKept
<1>17. QED
  BY <1>1, <1>2, <1>3, <1>4, <1>5, <1>6, <1>7, <1>8, <1>9, <1>10, <1>11, <1>12, <1>13,
     <1>13a, <1>14, <1>15, <1>16 DEF Next, Owner, Scavenge
-----------------------------------------------------------------------------
(* What a run has selected                                                  *)

LEMMA PickInit == Init => PickInv
BY DEF Init, PickInv

\* A selected domain that is not used meanwhile.
LEMMA PickKept ==
  ASSUME NEW d \in Domain, PickOK(d), d \in live', stage' = stage,
         active'[d] = active[d], care'[d] = care[d], notice'[d] = notice[d],
         d \in excused => d \in excused'
  PROVE  PickOK(d)'
BY DEF PickOK

\* The same for all of them: rows that go are no longer selected, or stale.
LEMMA PicksKept ==
  ASSUME PickInv, TypeOK, stage' = stage, picked' \subseteq picked,
         \A d \in Domain, u \in User : <<d, u>> \in picked' /\ d \in stale => d \in stale',
         UNCHANGED <<active, care, notice>>, excused \subseteq excused',
         \A d \in Domain, u \in User : <<d, u>> \in picked' /\ d \in live => d \in live' \cup stale'
  PROVE  PickInv'
<1>1. picked' # {} => stage' \in {"notify", "warn", "delete"}
  BY DEF PickInv
<1>2. \A d \in Domain, u, v \in User : <<d, u>> \in picked' /\ <<d, v>> \in picked' => u = v
  BY DEF PickInv
<1>3. ASSUME NEW d \in Domain, NEW u \in User, <<d, u>> \in picked', d \notin stale'
      PROVE  PickOK(d)'
  <2>1. PickOK(d) /\ d \in live
    BY <1>3 DEF PickInv, PickOK
  <2>2. d \in live'
    BY <1>3, <2>1
  <2>3. QED BY <2>1, <2>2, PickKept
<1>4. QED BY <1>1, <1>2, <1>3 DEF PickInv

LEMMA PickNextDay == TypeOK /\ PickInv /\ NextDay => PickInv'
<1> SUFFICES ASSUME TypeOK, PickInv, NextDay PROVE PickInv'
  OBVIOUS
<1>1. stage' = stage /\ picked' = picked /\ stale' = stale
  BY DEF NextDay
<1>2. ASSUME NEW d \in Domain, PickOK(d) PROVE PickOK(d)'
  BY <1>1, <1>2, OneMoreDay, Ages, DaysAssumption DEF PickOK
<1>3. QED BY <1>1, <1>2 DEF PickInv

LEMMA PickUse ==
  ASSUME TypeOK, PickInv, NEW d \in Domain, Use(d), UNCHANGED <<live, stage, picked, stale>>
  PROVE  PickInv'
<1>1. ASSUME NEW e \in Domain, NEW u \in User, <<e, u>> \in picked, e \notin stale
      PROVE  PickOK(e)'
  <2>1. PickOK(e)
    BY <1>1 DEF PickInv
  <2>2. CASE e = d
    <3>1. active'[d] = 0 /\ care'[d] = 0 /\ notice' = notice
      BY DEF Use, TypeOK, Days
    <3>2. stage = "delete" => d \in excused'
      BY <1>1, <2>2 DEF Use, Marked, Picked
    <3>3. QED BY <2>1, <2>2, <3>1, <3>2 DEF PickOK
  <2>3. CASE e # d
    <3>1. e \in excused => e \in excused'
      BY <2>3 DEF Use, Marked
    <3>2. e \in live'
      BY <2>1 DEF PickOK
    <3>3. QED BY <2>1, <2>3, <3>1, <3>2, PickKept DEF Use, TypeOK, Days
  <2>4. QED BY <2>2, <2>3
<1>2. QED BY <1>1 DEF PickInv

\* A selection starts with what its stage requires of every domain.
LEMMA PickSelect ==
  ASSUME TypeOK, NEW D \in SUBSET live, Select(D), stage' \in {"notify", "warn", "delete"},
         \A d \in D : PickOK(d)'
  PROVE  PickInv'
<1>1. picked' = {<<d, owner[d]>> : d \in D} /\ stale' = {}
  BY DEF Select
<1>2. \A d \in Domain, u \in User : <<d, u>> \in picked' => d \in D /\ u = owner[d]
  BY <1>1
<1>3. QED BY <1>2 DEF PickInv

LEMMA PickStep == TypeOK /\ AgeInv /\ PickInv /\ [Next]_vars => PickInv'
<1> SUFFICES ASSUME TypeOK, AgeInv, PickInv, [Next]_vars PROVE PickInv'
  OBVIOUS
<1>1. CASE NextDay
  BY <1>1, PickNextDay
<1>2. ASSUME NEW d \in Domain, WriteRRset(d) PROVE PickInv'
  BY <1>2, PickUse DEF WriteRRset
<1>3. ASSUME NEW d \in Domain, RemoveRRset(d) PROVE PickInv'
  <2>1. ASSUME NEW e \in Domain, NEW u \in User, <<e, u>> \in picked, e \notin stale
        PROVE  PickOK(e)'
    <3>1. PickOK(e)
      BY <2>1 DEF PickInv
    <3>2. CASE e = d
      BY <1>3, <3>1, <3>2 DEF RemoveRRset, PickOK
    <3>3. CASE e # d
      BY <1>3, <3>1, <3>3 DEF RemoveRRset, PickOK, TypeOK, Days
    <3>4. QED BY <3>2, <3>3
  <2>2. QED BY <1>3, <2>1 DEF RemoveRRset, PickInv
<1>4. ASSUME NEW d \in Domain, Publish(d) PROVE PickInv'
  <2>1. CASE d \in live
    BY <1>4, <2>1, PickUse DEF Publish
  <2>2. CASE d \notin live
    BY <1>4, <2>2, PicksKept DEF Publish
  <2>3. QED BY <2>1, <2>2
<1>5. ASSUME NEW d \in Domain, PublishFails(d) \/ ConfirmLoad(d) PROVE PickInv'
  BY <1>5, PicksKept DEF PublishFails, ConfirmLoad
<1>6. ASSUME NEW d \in Domain, Confirm(d) PROVE PickInv'
  <2>1. ASSUME NEW e \in Domain, NEW u \in User, <<e, u>> \in picked, e \notin stale
        PROVE  PickOK(e)'
    <3>1. PickOK(e)
      BY <2>1 DEF PickInv
    <3>2. CASE e = d
      <4>1. d \in excused'
        BY <1>6, <2>1, <3>2 DEF Confirm, Marked, Picked
      <4>2. QED BY <1>6, <3>1, <3>2, <4>1 DEF Confirm, PickOK
    <3>3. CASE e # d
      BY <1>6, <3>1, <3>3 DEF Confirm, Marked, PickOK, TypeOK, Days
    <3>4. QED BY <3>2, <3>3
  <2>2. QED BY <1>6, <2>1 DEF Confirm, PickInv
<1>7. ASSUME NEW d \in Domain, Delete(d) PROVE PickInv'
  <2>1. \A u \in User : <<d, u>> \in picked => d \in stale'
    BY <1>7 DEF Delete, Marked, Picked
  <2>2. \A e \in stale : e # d => e \in stale'
    BY <1>7 DEF Delete, Marked
  <2>3. QED BY <1>7, <2>1, <2>2, PicksKept DEF Delete
<1>8. ASSUME NEW d \in Domain, NEW u \in User, Register(u, d) PROVE PickInv'
  <2>1. ASSUME NEW e \in Domain, NEW v \in User, <<e, v>> \in picked, e \notin stale
        PROVE  PickOK(e)'
    <3>1. PickOK(e)
      BY <2>1 DEF PickInv
    <3>2. e \in live /\ e # d
      BY <1>8, <3>1 DEF Register, PickOK
    <3>3. QED BY <1>8, <3>1, <3>2, PickKept DEF Register, TypeOK, Days
  <2>2. QED BY <1>8, <2>1 DEF Register, PickInv
<1>9. CASE Renew
  BY <1>9 DEF Renew, Goto, PickInv
<1>10. CASE SelectFresh
  <2> DEFINE D == {d \in live : state[d] = Fresh /\ changed[d] >= FreshDays}
  <2>1. Select(D) /\ stage' = "notify"
    BY <1>10 DEF SelectFresh, Goto
  <2>2. ASSUME NEW d \in D PROVE PickOK(d)'
    <3>1. d \in Domain /\ AgeOK(d)
      BY DEF AgeInv, TypeOK
    <3>2. d \in excused \/ care[d] >= active[d] \/ care[d] >= FreshDays
      BY <3>1, Ages, DaysAssumption DEF AgeOK, CareOK, Due
    <3>3. QED BY <2>1, <3>2 DEF Select, PickOK
  <2>3. QED BY <2>1, <2>2, PickSelect
<1>11. CASE SelectNotified
  <2> DEFINE D == {d \in live : state[d] = Notified /\ changed[d] >= NotifyDays - WarnDays}
  <2>1. Select(D) /\ stage' = "warn"
    BY <1>11 DEF SelectNotified, Goto
  <2>2. ASSUME NEW d \in D PROVE PickOK(d)'
    <3>1. d \in Domain /\ AgeOK(d)
      BY DEF AgeInv, TypeOK
    <3>2. /\ notice[d] >= NotifyDays - WarnDays
          /\ \/ d \in excused \/ care[d] >= active[d]
             \/ care[d] >= FreshDays + NotifyDays - WarnDays
      BY <3>1, Ages, DaysAssumption DEF AgeOK, CareOK, NoticeOK, Due
    <3>3. QED BY <2>1, <3>2 DEF Select, PickOK
  <2>3. QED BY <2>1, <2>2, PickSelect
<1>12. CASE SelectExpired
  <2> DEFINE D == {d \in live : Expired(d)}
  <2>1. Select(D) /\ stage' = "delete"
    BY <1>12 DEF SelectExpired, Goto
  <2>2. ASSUME NEW d \in D PROVE PickOK(d)'
    <3>1. d \in Domain /\ AgeOK(d) /\ Expired(d)
      BY DEF AgeInv, TypeOK
    <3>2. notice[d] = NotifyDays /\ (d \in excused \/ care[d] = Lifetime)
      BY <3>1, Ages, DaysAssumption DEF AgeOK, CareOK, NoticeOK, Due, Expired
    <3>3. QED BY <2>1, <3>2 DEF Select, PickOK
  <2>3. QED BY <2>1, <2>2, PickSelect
<1>13. ASSUME NEW u \in User, Announce(u) PROVE PickInv'
  <2> DEFINE D == {d \in Domain : <<d, u>> \in picked}
  <2>1. /\ picked' = picked \ (D \X {u}) /\ stage' = stage /\ stale' = stale
        /\ live' = live /\ active' = active /\ care' = care /\ excused' = excused
        /\ stage \in {"notify", "warn"}
    BY <1>13 DEF Announce
  <2>2. ASSUME NEW e \in Domain, NEW v \in User, <<e, v>> \in picked', e \notin stale
        PROVE  PickOK(e)'
    <3>1. PickOK(e) /\ <<e, v>> \in picked
      BY <2>1, <2>2 DEF PickInv
    <3>2. e \notin D
      BY <2>1, <2>2, <3>1 DEF PickInv
    <3>3. notice'[e] = notice[e]
      BY <1>13, <3>2 DEF Announce
    <3>4. QED BY <2>1, <3>1, <3>3 DEF PickOK
  <2>3. QED BY <2>1, <2>2 DEF PickInv
<1>14. ASSUME NEW d \in Domain, NEW u \in User, DeleteDomain(d, u) PROVE PickInv'
  <2>1. /\ picked' = picked \ {<<d, u>>} /\ live' = live \ {d} /\ <<d, u>> \in picked
    BY <1>14 DEF DeleteDomain
  <2>2. \A e \in Domain, v \in User : <<e, v>> \in picked' => e # d
    BY <2>1 DEF PickInv
  <2>3. QED BY <1>14, <2>1, <2>2, PicksKept DEF DeleteDomain
<1>15. ASSUME NEW d \in Domain, NEW u \in User, DeleteStale(d, u) PROVE PickInv'
  BY <1>15, PicksKept DEF DeleteStale
<1>15a. ASSUME NEW u \in User, DeleteOwner(u) PROVE PickInv'
  BY <1>15a, PicksKept DEF DeleteOwner
<1>16. CASE Undelegate
  BY <1>16 DEF Undelegate, Goto, PickInv
<1>17. CASE Abort
  BY <1>17 DEF Abort, Goto, PickInv
<1>18. CASE UNCHANGED vars
  BY <1>18, PicksKept
<1>19. QED
  BY <1>1, <1>2, <1>3, <1>4, <1>5, <1>6, <1>7, <1>8, <1>9, <1>10, <1>11, <1>12, <1>13,
     <1>14, <1>15, <1>15a, <1>16, <1>17, <1>18 DEF Next, Owner, Scavenge

-----------------------------------------------------------------------------
(* Theorems                                                                 *)

LEMMA Invariance == Spec => []IInv
<1>1. Init => IInv
  BY TypeInit, LeftInit, AgeInit, PickInit DEF IInv
<1>2. IInv /\ [Next]_vars => IInv'
  BY TypeStep, LeftStep, AgeStep, PickStep DEF IInv
<1>3. QED BY <1>1, <1>2, PTL DEF Spec

\* The types; a domain always has an owner with an account.
THEOREM RenewalTypeOK == Spec => []TypeOK
<1>1. IInv => TypeOK
  BY DEF IInv
<1>2. QED BY <1>1, Invariance, PTL

\* Between runs rows, zones and delegations agree except where a run was cut off.
THEOREM RunsLeaveNothing == Spec => []NothingLeftBehind
<1>1. IInv => NothingLeftBehind
  BY DEF IInv, LeftInv, NothingLeftBehind
<1>2. QED BY <1>1, Invariance, PTL

\* No domain is deleted before its lifetime and the announced time have passed.
THEOREM DeletionsAreDue == Spec => NotDeletedEarly
<1>1. ASSUME IInv, [Next]_vars, NEW d \in (gone' \ gone) \ live'
      PROVE  d \in excused \/ (care[d] = Lifetime /\ notice[d] = NotifyDays)
  <2>1. CASE \E e \in Domain, u \in User : DeleteDomain(e, u)
    <3>1. PICK u \in User : DeleteDomain(d, u) /\ d \in Domain
      BY <1>1, <2>1 DEF DeleteDomain
    <3>2. <<d, u>> \in picked /\ d \notin stale /\ stage = "delete"
      BY <3>1 DEF DeleteDomain
    <3>3. PickOK(d)
      BY <1>1, <3>1, <3>2 DEF IInv, PickInv
    <3>4. QED BY <3>2, <3>3 DEF PickOK
  <2>2. CASE \E e \in Domain, u \in User : DeleteStale(e, u)
    BY <1>1, <2>2 DEF DeleteStale, IInv, LeftInv
  <2>3. CASE gone' \subseteq gone
    BY <1>1, <2>3
  <2>4. QED
    BY <1>1, <2>1, <2>2, <2>3
       DEF Next, Owner, Scavenge, NextDay, WriteRRset, RemoveRRset, Publish, PublishFails,
           ConfirmLoad, Confirm, Delete, Register, Renew, SelectFresh, SelectNotified,
           SelectExpired, Select, Announce, DeleteOwner, Undelegate, Abort
<1>2. IInv /\ [Next]_vars =>
        [\A d \in (gone' \ gone) \ live' :
           d \in excused \/ (care[d] = Lifetime /\ notice[d] = NotifyDays)]_vars
  BY <1>1
<1>3. QED BY <1>2, Invariance, PTL DEF Spec, NotDeletedEarly
=============================================================================
