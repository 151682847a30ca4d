-------------------------- MODULE MaintenanceProofs --------------------------
(***************************************************************************)
(* Proofs about Maintenance, for any processes, visits and changes, and any *)
(* number of failures and restarts. Two arguments, one invariant:           *)
(* ReadsAreCurrent: while Redis answers, what a request has in hand is what *)
(* is stored unless another has written since its first read; and           *)
(* NothingToggled: with the toggle never set, no tier, copy or request      *)
(* holds a configuration with it on, so that only the window can refuse.    *)
(***************************************************************************)
EXTENDS Maintenance, TLAPS

Untoggled(c) == "enabled" \in DOMAIN c => ~ c["enabled"]

NothingToggled ==
  ~ toggled =>
    /\ redis # NoEntry => Untoggled(redis)
    /\ \A p \in Processes :
         /\ fallback[p] # NoEntry => Untoggled(fallback[p])
         /\ Untoggled(copy[p])
    /\ \A r \in Requests : Untoggled(job[r].cfg) /\ Untoggled(job[r].want)

(* Only toggle carries anything over, and only the allowlist. *)
OnlyAllowsIsCarried ==
  \A r \in Requests :
    /\ DOMAIN job[r].carry \subseteq {"allows"}
    /\ pc[r] \in Over \cup {"get"} => DOMAIN job[r].carry = {}

LateIsAfter == late # {} => clock = "after"

(* A call is repeated only after a failure, and a request that has written *)
(* without one has written to Redis, which keeps a value until it fails.   *)
WritesHaveLanded ==
  troubles = 0 => \A r \in Requests :
    /\ pc[r] \notin {"disarmAgain", "saveAgain"}
    /\ pc[r] \in {"disarmed", "saved"} => redis # NoEntry

(* As long as Redis has no value, the copies are what they were at first. *)
AbsentIsUntouched ==
  troubles = 0 /\ redis = NoEntry => \A p \in Processes : copy[p] = Off

ReadsAreCurrent ==
  troubles = 0 /\ ~ lost => \A r \in Requests \ overlapped :
    /\ pc[r] \in {"refresh", "have", "disarm", "save"} => job[r].cfg = Stored
    /\ pc[r] = "disarmed" => Disarmed(job[r].cfg) = Stored
    /\ pc[r] \in Reading \cup {"disarm", "disarmed", "save"} =>
         \A f \in DOMAIN job[r].carry : job[r].carry[f] = Stored[f]

(* What a visit has in hand was stored while it was under way: what called   *)
(* for refusal was then calling for it, and so with what spares it.          *)
VerdictsAreBacked ==
  troubles = 0 => \A v \in Visits :
    LET c == job[v].cfg
    IN /\ pc[v] \in {"refresh", "have", "disarm"} =>
            /\ c["enabled"] \/ c["armed"] => v \in calledFor
            /\ ~ c["enabled"] /\ (~ c["armed"] \/ clock = "before") => v \in spared
       /\ pc[v] = "disarmed" => v \in IF c["enabled"] THEN calledFor ELSE spared

IInv ==
  /\ TypeOK
  /\ NothingToggled /\ LateIsAfter /\ WindowEnds
  /\ OnlyAllowsIsCarried /\ WritesHaveLanded /\ AbsentIsUntouched
  /\ ReadsAreCurrent /\ LostOnlyByOverlap
  /\ VerdictsAreBacked /\ VerdictIsCurrent
------------------------------------------------------------------------------
(* Operators *)

(* Spreading some fields over a configuration gives a configuration, which  *)
(* has the toggle on only if one of the two has.                            *)
LEMMA SpreadKeeps ==
  ASSUME NEW c \in Config, NEW w \in Partial
  PROVE  /\ Spread(c, w) \in Config
         /\ Untoggled(c) /\ Untoggled(w) => Untoggled(Spread(c, w))
BY DEF Spread, Config, Partial, Untoggled, Fields

(* Spreading what is there already changes nothing. *)
LEMMA SpreadOfOwn ==
  ASSUME NEW c \in Config, NEW w \in Partial, \A f \in DOMAIN w : w[f] = c[f]
  PROVE  Spread(c, w) = c
BY DEF Spread, Config

(* Disarming clears one field. *)
LEMMA DisarmedKeeps ==
  ASSUME NEW c \in Config
  PROVE  /\ Disarmed(c) \in Config
         /\ Disarmed(c)["enabled"] = c["enabled"]
         /\ Disarmed(c)["allows"] = c["allows"]
         /\ ~ Disarmed(c)["armed"]
         /\ Untoggled(c) => Untoggled(Disarmed(c))
BY DEF Disarmed, Config, Untoggled, Fields

LEMMA OffIsConfig == Off \in Config /\ Untoggled(Off)
BY DEF Off, Config, Untoggled, Fields

LEMMA NothingIsPartial == Nothing \in Partial /\ DOMAIN Nothing = {} /\ Untoggled(Nothing)
BY DEF Nothing, Partial, Untoggled

LEMMA ConfigIsPartial == Config \subseteq Partial
BY DEF Config, Partial

LEMMA LookIsJob == Look \in Job
BY OffIsConfig, NothingIsPartial DEF Look, Job

LEMMA NoEntryIsNoConfig == NoEntry \notin Config
BY NoEntryAssumption

(* What setConfig stores. *)
LEMMA MergeKeeps ==
  ASSUME NEW r \in Requests, job[r] \in Job, NEW c \in Config,
         DOMAIN job[r].carry \subseteq {"allows"}
  PROVE  /\ Merge(r, c) \in Config
         /\ Untoggled(c) /\ Untoggled(job[r].want) => Untoggled(Merge(r, c))
<1>1. job[r].carry \in Partial /\ job[r].want \in Partial
  BY DEF Job
<1>2. Untoggled(job[r].carry)
  BY DEF Untoggled
<1>3. Spread(c, job[r].carry) \in Config
      /\ (Untoggled(c) => Untoggled(Spread(c, job[r].carry)))
  BY <1>1, <1>2, SpreadKeeps
<1> QED
  BY <1>1, <1>3, SpreadKeeps DEF Merge

(* What is asked for has its type. *)
LEMMA JobsAreTyped ==
  ASSUME NEW j \in Jobs
  PROVE  j.kind \in {"set", "schedule", "toggle", "editIps"} /\ j.want \in Partial
<1>1. \A D \in SUBSET Fields : [D -> BOOLEAN] \subseteq Partial
  BY DEF Partial
<1>2. {} \in SUBSET Fields /\ {"enabled"} \in SUBSET Fields /\ {"allows"} \in SUBSET Fields
      /\ {"armed"} \in SUBSET Fields /\ {"enabled", "allows"} \in SUBSET Fields
      /\ Fields \in SUBSET Fields
  BY DEF Fields
<1>3. PICK o \in Operations : j \in JobsOf[o]
  BY DEF Jobs
<1>4. o \in {"form", "put", "on", "off", "message", "clear", "schedule", "toggle", "allowIp", "removeIp"}
  BY <1>3, MaintenanceAssumption
<1>5. [{"enabled"} -> {FALSE}] \subseteq [{"enabled"} -> BOOLEAN]
      /\ [{"armed"} -> {FALSE}] \subseteq [{"armed"} -> BOOLEAN]
      /\ [{"armed"} -> {TRUE}] \subseteq [{"armed"} -> BOOLEAN]
      /\ [{"allows"} -> {TRUE}] \subseteq [{"allows"} -> BOOLEAN]
      /\ [{"allows"} -> {FALSE}] \subseteq [{"allows"} -> BOOLEAN]
  OBVIOUS
<1>6. [{"enabled"} -> BOOLEAN] \subseteq Partial /\ [{"allows"} -> BOOLEAN] \subseteq Partial
      /\ [{"armed"} -> BOOLEAN] \subseteq Partial /\ [{"enabled", "allows"} -> BOOLEAN] \subseteq Partial
  BY <1>1, <1>2
<1>7. CASE o = "form"
  BY <1>3, <1>5, <1>6, <1>7, ConfigIsPartial, NothingIsPartial DEF JobsOf
<1>8. CASE o = "put"
  BY <1>3, <1>5, <1>6, <1>8, ConfigIsPartial, NothingIsPartial DEF JobsOf
<1>9. CASE o = "on"
  BY <1>3, <1>5, <1>6, <1>9, ConfigIsPartial, NothingIsPartial DEF JobsOf
<1>10. CASE o = "off"
  BY <1>3, <1>5, <1>6, <1>10, ConfigIsPartial, NothingIsPartial DEF JobsOf
<1>11. CASE o = "message"
  BY <1>3, <1>5, <1>6, <1>11, ConfigIsPartial, NothingIsPartial DEF JobsOf
<1>12. CASE o = "clear"
  BY <1>3, <1>5, <1>6, <1>12, ConfigIsPartial, NothingIsPartial DEF JobsOf
<1>13. CASE o = "schedule"
  BY <1>3, <1>5, <1>6, <1>13, ConfigIsPartial, NothingIsPartial DEF JobsOf
<1>14. CASE o = "toggle"
  BY <1>3, <1>5, <1>6, <1>14, ConfigIsPartial, NothingIsPartial DEF JobsOf
<1>15. CASE o = "allowIp"
  BY <1>3, <1>5, <1>6, <1>15, ConfigIsPartial, NothingIsPartial DEF JobsOf
<1>16. CASE o = "removeIp"
  BY <1>3, <1>5, <1>6, <1>16, ConfigIsPartial, NothingIsPartial DEF JobsOf
<1> QED
  BY <1>4, <1>7, <1>8, <1>9, <1>10, <1>11, <1>12, <1>13, <1>14, <1>15, <1>16
------------------------------------------------------------------------------
(* What getConfig's callers do next, in one place: they end, they read once *)
(* more with at most the allowlist in hand, or they are ready to save.      *)
Ended(r) ==
  /\ job' = [job EXCEPT ![r] = Look]
  /\ \/ pc' = [pc EXCEPT ![r] = "passed"]
     \/ pc' = [pc EXCEPT ![r] = "done"]

Condemned(r, c) ==
  /\ InForce(c)
  /\ job' = [job EXCEPT ![r] = Look]
  /\ \/ pc' = [pc EXCEPT ![r] = "refused"]
     \/ pc' = [pc EXCEPT ![r] = "exempt"]

ReadsAgain(r, c) ==
  /\ pc' = [pc EXCEPT ![r] = "getAgain"]
  /\ \E carry \in Partial :
       /\ DOMAIN carry \subseteq {"allows"}
       /\ \A f \in DOMAIN carry : carry[f] = c[f]
       /\ job' = [job EXCEPT ![r] = [kind |-> "set", want |-> job[r].want, carry |-> carry, cfg |-> Off]]

GoesOn(r, c) ==
  /\ pc' = [pc EXCEPT ![r] = "save"]
  /\ job' = [job EXCEPT ![r] = [kind |-> "set", want |-> job[r].want, carry |-> job[r].carry, cfg |-> c]]

LEMMA DecideIs ==
  ASSUME NEW r \in Requests, NEW c \in Config, job \in [Requests -> Job], Decide(r, c)
  PROVE  Ended(r) \/ Condemned(r, c) \/ ReadsAgain(r, c) \/ GoesOn(r, c)
<1>1. ASSUME Judge(r, c) PROVE Ended(r) \/ Condemned(r, c)
  BY <1>1 DEF Judge, End, Goto, Ended, Condemned
<1>2. ASSUME NEW carry \in Partial, SetConfig(r, carry),
             DOMAIN carry \subseteq {"allows"}, \A f \in DOMAIN carry : carry[f] = c[f]
      PROVE  ReadsAgain(r, c)
  BY <1>2 DEF SetConfig, Goto, ReadsAgain
<1>3. ASSUME Toggle(r, c) PROVE ReadsAgain(r, c)
  <2> DEFINE carry == [f \in {"allows"} |-> c[f]]
  <2>1. carry \in [{"allows"} -> BOOLEAN] /\ {"allows"} \in SUBSET Fields
    BY DEF Config, Fields
  <2>2. carry \in Partial
    BY <2>1 DEF Partial
  <2>3. DOMAIN carry \subseteq {"allows"} /\ \A f \in DOMAIN carry : carry[f] = c[f]
    OBVIOUS
  <2>4. SetConfig(r, carry)
    BY <1>3 DEF Toggle
  <2> HIDE DEF carry
  <2> QED
    BY <1>2, <2>2, <2>3, <2>4
<1>4. ASSUME SetConfig(r, Nothing) PROVE ReadsAgain(r, c)
  BY <1>2, <1>4, NothingIsPartial
<1>5. ASSUME Schedule(r) PROVE ReadsAgain(r, c)
  BY <1>4, <1>5 DEF Schedule
<1>6. ASSUME EditIps(r, c) PROVE Ended(r) \/ ReadsAgain(r, c)
  BY <1>4, <1>6 DEF EditIps, End, Goto, Ended
<1>7. ASSUME Prepare(r, c) PROVE GoesOn(r, c)
  <2>1. [job[r] EXCEPT !.cfg = c]
          = [kind |-> "set", want |-> job[r].want, carry |-> job[r].carry, cfg |-> c]
    BY <1>7 DEF Job, Prepare
  <2>2. job' = [job EXCEPT ![r] = [job[r] EXCEPT !.cfg = c]]
    BY <1>7 DEF Prepare
  <2> QED
    BY <1>7, <2>1, <2>2 DEF Prepare, Goto, GoesOn
<1> QED
  BY <1>1, <1>3, <1>5, <1>6, <1>7 DEF Decide
------------------------------------------------------------------------------
Label == Over \cup Reading \cup Writing

(* Observe only adds visits. *)
LEMMA ObserveKeepsType ==
  ASSUME TypeOK, Observe
  PROVE  calledFor' \subseteq Visits /\ spared' \subseteq Visits
BY DEF TypeOK, Observe

LEMMA RequestsAre == Visits \subseteq Requests /\ Changes \subseteq Requests
BY DEF Requests

(* Whatever the callers do next, it keeps the types. *)
LEMMA DecideKeepsType ==
  ASSUME TypeOK, NEW r \in Requests, NEW c \in Config, Decide(r, c)
  PROVE  pc' \in [Requests -> Label] /\ job' \in [Requests -> Job]
<1>1. pc \in [Requests -> Label] /\ job \in [Requests -> Job] /\ job[r] \in Job
  BY DEF TypeOK, Label
<1>2. CASE Ended(r) \/ Condemned(r, c)
  BY <1>1, <1>2, LookIsJob DEF Ended, Condemned, Label, Over
<1>3. CASE ReadsAgain(r, c)
  <2>1. PICK carry \in Partial :
          job' = [job EXCEPT ![r] = [kind |-> "set", want |-> job[r].want, carry |-> carry, cfg |-> Off]]
    BY <1>3 DEF ReadsAgain
  <2>2. [kind |-> "set", want |-> job[r].want, carry |-> carry, cfg |-> Off] \in Job
    BY <1>1, OffIsConfig DEF Job
  <2> QED
    BY <1>1, <1>3, <2>1, <2>2 DEF ReadsAgain, Label, Reading
<1>4. CASE GoesOn(r, c)
  <2>1. [kind |-> "set", want |-> job[r].want, carry |-> job[r].carry, cfg |-> c] \in Job
    BY <1>1 DEF Job
  <2> QED
    BY <1>1, <1>4, <2>1 DEF GoesOn, Label, Writing
<1> QED
  BY <1>1, <1>2, <1>3, <1>4, DecideIs

(* A write to Redis, and one that fails. *)
LEMMA WriteKeepsType ==
  ASSUME TypeOK, NEW r \in Requests, NEW c \in Config, NEW i \in Config,
         NEW done \in Label, NEW again \in Label, Write(r, c, i, done, again)
  PROVE  /\ redis' \in Config \cup {NoEntry} /\ intent' \in Config
         /\ overlapped' \subseteq Requests /\ lost' \in BOOLEAN
         /\ troubles' \in 0..MaxTroubles
         /\ pc' \in [Requests -> Label]
<1>1. pc \in [Requests -> Label]
  BY DEF TypeOK, Label
<1>2. Trouble => troubles' \in 0..MaxTroubles
  BY MaintenanceAssumption DEF Trouble, TypeOK
<1>3. Goto(r, done) \/ Goto(r, again) => pc' \in [Requests -> Label]
  BY <1>1 DEF Goto
<1>4. Land(r, c, i) => /\ redis' \in Config \cup {NoEntry} /\ intent' \in Config
                      /\ overlapped' \subseteq Requests /\ lost' \in BOOLEAN
  BY DEF Land, TypeOK
<1> QED
  BY <1>2, <1>3, <1>4 DEF Write, TypeOK

LEMMA TypeIsKept ==
  ASSUME TypeOK, OnlyAllowsIsCarried, [Next]_vars
  PROVE  TypeOK'
<1> USE RequestsAre
<1>0. pc \in [Requests -> Label] /\ job \in [Requests -> Job] /\ troubles \in 0..MaxTroubles
  BY DEF TypeOK, Label
<1>a. ASSUME Observe, redis' \in Config \cup {NoEntry},
             fallback' \in [Processes -> Config \cup {NoEntry}],
             copy' \in [Processes -> Config], onList' \in [Processes -> BOOLEAN],
             clock' \in {"before", "during", "after"},
             pc' \in [Requests -> Label], at' \in [Requests -> Processes],
             job' \in [Requests -> Job], toggled' \in BOOLEAN, intent' \in Config,
             troubles' \in 0..MaxTroubles, restarts' \in 0..MaxRestarts,
             overlapped' \subseteq Requests, lost' \in BOOLEAN, late' \subseteq Visits
      PROVE  TypeOK'
  BY <1>a, ObserveKeepsType DEF TypeOK, Label
<1>b. Trouble => troubles' \in 0..MaxTroubles
  BY <1>0, MaintenanceAssumption DEF Trouble
<1>c. ASSUME NEW r \in Requests
      PROVE  /\ job[r] \in Job /\ at[r] \in Processes /\ job[r].cfg \in Config
             /\ Disarmed(job[r].cfg) \in Config /\ Merge(r, job[r].cfg) \in Config
             /\ Disarmed(intent) \in Config /\ Intended(r) \in Config
  <2>1. job[r] \in Job /\ job[r].cfg \in Config /\ job[r].want \in Partial /\ at[r] \in Processes
    BY <1>0 DEF Job, TypeOK
  <2>2. DOMAIN job[r].carry \subseteq {"allows"}
    BY DEF OnlyAllowsIsCarried
  <2>3. intent \in Config
    BY DEF TypeOK
  <2> QED
    BY <2>1, <2>2, <2>3, MergeKeeps, DisarmedKeeps, SpreadKeeps DEF Intended
<1>d. \A c \in Config : c["allows"] \in BOOLEAN
  BY DEF Config, Fields
<1>1. ASSUME NEW v \in Visits, Visit(v), Observe PROVE TypeOK'
  <2>1. pc' \in [Requests -> Label] /\ late' \subseteq Visits
    BY <1>0, <1>1 DEF Visit, Goto, TypeOK, Label, Over, Reading
  <2> QED
    BY <1>0, <1>1, <1>a, <2>1 DEF Visit, service, TypeOK
<1>2. ASSUME NEW q \in Changes, Ask(q), Observe PROVE TypeOK'
  <2>1. PICK j \in Jobs :
          job' = [job EXCEPT ![q] = [kind |-> j.kind, want |-> j.want, carry |-> Nothing, cfg |-> Off]]
    BY <1>2 DEF Ask
  <2>2. [kind |-> j.kind, want |-> j.want, carry |-> Nothing, cfg |-> Off] \in Job
    BY JobsAreTyped, NothingIsPartial, OffIsConfig DEF Job
  <2>3. job' \in [Requests -> Job]
    BY <1>0, <2>1, <2>2
  <2>4. toggled' \in BOOLEAN
    <3>1. PICK i \in Jobs : toggled' = (toggled \/ ("enabled" \in DOMAIN i.want /\ i.want["enabled"]))
      BY <1>2 DEF Ask
    <3>2. "enabled" \in DOMAIN i.want => i.want["enabled"] \in BOOLEAN
      BY JobsAreTyped DEF Partial
    <3> QED
      BY <3>1, <3>2 DEF TypeOK
  <2>5. pc' \in [Requests -> Label]
    BY <1>0, <1>2 DEF Ask, Goto, Label, Reading
  <2> QED
    BY <1>2, <1>a, <2>3, <2>4, <2>5 DEF Ask, service, TypeOK
<1>3. ASSUME NEW r \in Requests, Get(r), Observe PROVE TypeOK'
  <2>1. ASSUME NEW e \in Config \cup {NoEntry}, Read(r, e)
        PROVE  pc' \in [Requests -> Label] /\ job' \in [Requests -> Job]
    <3>1. copy[at[r]] \in Config
      BY <1>c DEF TypeOK
    <3>2. PICK c \in Config : job' = [job EXCEPT ![r].cfg = c]
      BY <2>1, <3>1 DEF Read
    <3>3. pc' \in [Requests -> Label]
      BY <1>0, <2>1 DEF Read, Goto, Label, Reading
    <3> QED
      BY <1>0, <3>2, <3>3 DEF Job
  <2>2. redis \in Config \cup {NoEntry} /\ fallback[at[r]] \in Config \cup {NoEntry}
    BY <1>c DEF TypeOK
  <2>3. pc' \in [Requests -> Label] /\ job' \in [Requests -> Job]
    BY <1>3, <2>1, <2>2 DEF Get
  <2>4. troubles' \in 0..MaxTroubles
    BY <1>0, <1>3, <1>b DEF Get
  <2> QED
    BY <1>3, <1>a, <2>3, <2>4 DEF Get, Read, service, TypeOK
<1>4. ASSUME NEW r \in Requests, Take(r), Observe, redis' = redis PROVE TypeOK'
  <2>1. pc' \in [Requests -> Label] /\ job' \in [Requests -> Job]
    BY <1>0, <1>4, <1>c, DecideKeepsType DEF Take, Goto, Label, Writing
  <2>2. onList' \in [Processes -> BOOLEAN]
    BY <1>4, <1>c, <1>d DEF Take, TypeOK
  <2> QED
    BY <1>0, <1>4, <1>a, <2>1, <2>2 DEF Take, TypeOK
<1>5. ASSUME NEW r \in Requests, TakeCopy(r), Observe PROVE TypeOK'
  BY <1>4, <1>5 DEF TakeCopy
<1>6. ASSUME NEW r \in Requests, Refresh(r), Observe PROVE TypeOK'
  BY <1>4, <1>6 DEF Refresh
<1>7. ASSUME NEW r \in Requests, Disarm(r), Observe PROVE TypeOK'
  <2>1. "disarmed" \in Label /\ "disarmAgain" \in Label
    BY DEF Label, Writing
  <2>2. Write(r, Disarmed(job[r].cfg), Disarmed(intent), "disarmed", "disarmAgain")
    BY <1>7 DEF Disarm
  <2>3. /\ redis' \in Config \cup {NoEntry} /\ intent' \in Config
        /\ overlapped' \subseteq Requests /\ lost' \in BOOLEAN
        /\ troubles' \in 0..MaxTroubles /\ pc' \in [Requests -> Label]
    BY <1>c, <2>1, <2>2, WriteKeepsType
  <2> QED
    BY <1>0, <1>7, <1>a, <2>3 DEF Disarm, TypeOK
<1>8. ASSUME NEW r \in Requests, Save(r), Observe PROVE TypeOK'
  <2>1. "saved" \in Label /\ "saveAgain" \in Label
    BY DEF Label, Writing
  <2>2. Write(r, Merge(r, job[r].cfg), Intended(r), "saved", "saveAgain")
    BY <1>8 DEF Save
  <2>3. /\ redis' \in Config \cup {NoEntry} /\ intent' \in Config
        /\ overlapped' \subseteq Requests /\ lost' \in BOOLEAN
        /\ troubles' \in 0..MaxTroubles /\ pc' \in [Requests -> Label]
    BY <1>c, <2>1, <2>2, WriteKeepsType
  <2> QED
    BY <1>0, <1>8, <1>a, <2>3 DEF Save, TypeOK
<1>9. ASSUME NEW r \in Requests, Replay(r), Observe PROVE TypeOK'
  <2>1. pc' \in [Requests -> Label] /\ fallback' \in [Processes -> Config \cup {NoEntry}]
    BY <1>0, <1>9, <1>c DEF Replay, Goto, Label, Writing, TypeOK
  <2> QED
    BY <1>0, <1>9, <1>a, <2>1 DEF Replay, TypeOK
<1>10. ASSUME NEW r \in Requests, NEW c \in Config, Keep(r, c)
       PROVE  copy' \in [Processes -> Config] /\ onList' \in [Processes -> BOOLEAN]
  BY <1>10, <1>c, <1>d DEF Keep, TypeOK
<1>11. ASSUME NEW r \in Requests, AfterDisarm(r), Observe PROVE TypeOK'
  <2>1. pc' \in [Requests -> Label] /\ job' \in [Requests -> Job]
    BY <1>11, <1>c, DecideKeepsType DEF AfterDisarm
  <2>2. copy' \in [Processes -> Config] /\ onList' \in [Processes -> BOOLEAN]
    BY <1>10, <1>11, <1>c DEF AfterDisarm
  <2> QED
    BY <1>0, <1>11, <1>a, <2>1, <2>2 DEF AfterDisarm, TypeOK
<1>12. ASSUME NEW r \in Requests, AfterSave(r), Observe PROVE TypeOK'
  <2>1. pc' \in [Requests -> Label] /\ job' \in [Requests -> Job]
    BY <1>0, <1>12, LookIsJob DEF AfterSave, End, Goto, Label, Over
  <2>2. copy' \in [Processes -> Config] /\ onList' \in [Processes -> BOOLEAN]
    BY <1>10, <1>12, <1>c DEF AfterSave
  <2> QED
    BY <1>0, <1>12, <1>a, <2>1, <2>2 DEF AfterSave, TypeOK
<1>13. ASSUME NEW p \in Processes, Restart(p), Observe PROVE TypeOK'
  <2>1. copy' \in [Processes -> Config] /\ troubles' \in 0..MaxTroubles
    BY <1>0, <1>13, <1>b, OffIsConfig DEF Restart, Remembered, TypeOK
  <2>2. pc' \in [Requests -> Label] /\ job' \in [Requests -> Job]
    BY <1>0, <1>13, LookIsJob DEF Restart, Label, Over
  <2>3. restarts' \in 0..MaxRestarts
    BY <1>13, MaintenanceAssumption DEF Restart, TypeOK
  <2> QED
    BY <1>13, <1>a, <2>1, <2>2, <2>3 DEF Restart, TypeOK
<1>14. ASSUME Expire, Observe PROVE TypeOK'
  BY <1>0, <1>14, <1>a, <1>b DEF Expire, requests, TypeOK
<1>15. ASSUME Tick, Observe PROVE TypeOK'
  BY <1>0, <1>15, <1>a DEF Tick, service, requests, TypeOK
<1>16. CASE UNCHANGED vars
  BY <1>16 DEF vars, TypeOK
<1> QED
  BY <1>1, <1>2, <1>3, <1>5, <1>6, <1>7, <1>8, <1>9, <1>11, <1>12, <1>13, <1>14, <1>15, <1>16
     DEF Next, Step
------------------------------------------------------------------------------
(* What is carried is the allowlist, and nothing before the first read. *)
LEMMA CarriesAreKept ==
  ASSUME TypeOK, OnlyAllowsIsCarried, [Next]_vars
  PROVE  OnlyAllowsIsCarried'
<1> USE RequestsAre DEF OnlyAllowsIsCarried
<1>0. pc \in [Requests -> Label] /\ job \in [Requests -> Job]
      /\ \A r \in Requests : job[r] \in Job
  BY DEF TypeOK, Label
<1>a. DOMAIN Look.carry = {} /\ DOMAIN Nothing = {}
  BY NothingIsPartial DEF Look
<1>b. UNCHANGED <<pc, job>> => OnlyAllowsIsCarried'
  OBVIOUS
<1>c. ASSUME NEW r \in Requests, NEW label \in (Reading \cup Writing) \ {"get"}, Goto(r, label), UNCHANGED job
      PROVE  OnlyAllowsIsCarried'
  BY <1>0, <1>c DEF Goto, Reading, Writing, Over
<1>d. ASSUME NEW r \in Requests, NEW label, pc' = [pc EXCEPT ![r] = label], job' = [job EXCEPT ![r] = Look]
      PROVE  OnlyAllowsIsCarried'
  BY <1>0, <1>a, <1>d
<1>e. ASSUME NEW r \in Requests, NEW c \in Config, Decide(r, c), pc[r] \notin Over \cup {"get"}
      PROVE  OnlyAllowsIsCarried'
  <2>1. CASE Ended(r) \/ Condemned(r, c)
    BY <1>d, <2>1 DEF Ended, Condemned
  <2>2. CASE ReadsAgain(r, c)
    BY <1>0, <2>2 DEF ReadsAgain, Over
  <2>3. CASE GoesOn(r, c)
    BY <1>0, <2>3 DEF GoesOn, Over
  <2> QED
    BY <1>0, <1>e, <2>1, <2>2, <2>3, DecideIs
<1>1. ASSUME NEW v \in Visits, Visit(v) PROVE OnlyAllowsIsCarried'
  BY <1>0, <1>1 DEF Visit, Goto, Over
<1>2. ASSUME NEW q \in Changes, Ask(q) PROVE OnlyAllowsIsCarried'
  <2>1. PICK j \in Jobs :
          job' = [job EXCEPT ![q] = [kind |-> j.kind, want |-> j.want, carry |-> Nothing, cfg |-> Off]]
    BY <1>2 DEF Ask
  <2> QED
    BY <1>0, <1>2, <1>a, <2>1 DEF Ask, Goto
<1>3. ASSUME NEW r \in Requests, Get(r) PROVE OnlyAllowsIsCarried'
  <2>1. /\ \E c : job' = [job EXCEPT ![r].cfg = c]
        /\ Goto(r, "have") \/ Goto(r, "refresh")
    BY <1>3 DEF Get, Read
  <2> QED
    BY <1>0, <2>1 DEF Goto, Over, Job
<1>4. ASSUME NEW r \in Requests, Take(r), pc[r] \in {"have", "refresh"} PROVE OnlyAllowsIsCarried'
  <2>1. CASE Goto(r, "disarm") /\ UNCHANGED job
    BY <1>c, <2>1 DEF Writing
  <2>2. CASE Decide(r, job[r].cfg)
    BY <1>0, <1>4, <1>e, <2>2 DEF Over, Job
  <2> QED
    BY <1>4, <2>1, <2>2 DEF Take
<1>5. ASSUME NEW r \in Requests, TakeCopy(r) \/ Refresh(r) PROVE OnlyAllowsIsCarried'
  BY <1>4, <1>5 DEF TakeCopy, Refresh
<1>6. ASSUME NEW r \in Requests, Disarm(r) \/ Save(r) \/ Replay(r) PROVE OnlyAllowsIsCarried'
  BY <1>6, <1>c DEF Disarm, Save, Replay, Write, Writing
<1>7. ASSUME NEW r \in Requests, AfterDisarm(r) PROVE OnlyAllowsIsCarried'
  <2>1. Disarmed(job[r].cfg) \in Config
    BY <1>0, DisarmedKeeps DEF Job
  <2> QED
    BY <1>0, <1>7, <1>e, <2>1 DEF AfterDisarm, Over
<1>8. ASSUME NEW r \in Requests, AfterSave(r) PROVE OnlyAllowsIsCarried'
  BY <1>8, <1>d DEF AfterSave, End, Goto
<1>9. ASSUME NEW p \in Processes, Restart(p) PROVE OnlyAllowsIsCarried'
  BY <1>0, <1>9, <1>a DEF Restart, Over
<1>10. CASE Expire \/ Tick \/ UNCHANGED vars
  BY <1>10, <1>b DEF Expire, Tick, requests, vars
<1> QED
  BY <1>1, <1>2, <1>3, <1>5, <1>6, <1>7, <1>8, <1>9, <1>10 DEF Next, Step

(* As long as nobody asks for the toggle, no configuration has it. *)
LEMMA TogglesAreKept ==
  ASSUME TypeOK, OnlyAllowsIsCarried, NothingToggled, [Next]_vars
  PROVE  NothingToggled'
<1> SUFFICES ASSUME ~ toggled' PROVE NothingToggled'
  BY DEF NothingToggled
<1> USE RequestsAre
<1>0. /\ pc \in [Requests -> Label] /\ job \in [Requests -> Job] /\ at \in [Requests -> Processes]
      /\ fallback \in [Processes -> Config \cup {NoEntry}] /\ copy \in [Processes -> Config]
      /\ redis \in Config \cup {NoEntry}
      /\ \A r \in Requests : job[r] \in Job /\ job[r].cfg \in Config
  BY DEF TypeOK, Label, Job
<1>t. ~ toggled
  <2>1. CASE UNCHANGED toggled
    BY <2>1
  <2>2. CASE \E q \in Changes : Ask(q)
    BY <2>2 DEF Ask
  <2> QED
    BY <2>1, <2>2 DEF Next, Step, Visit, Get, Read, TakeCopy, Refresh, Take, Disarm, Save, Replay,
                       AfterDisarm, AfterSave, Restart, Expire, Tick, vars
<1>s. /\ redis # NoEntry => Untoggled(redis)
      /\ \A p \in Processes : (fallback[p] # NoEntry => Untoggled(fallback[p])) /\ Untoggled(copy[p])
      /\ \A r \in Requests : Untoggled(job[r].cfg) /\ Untoggled(job[r].want)
  BY <1>t DEF NothingToggled
<1>k. Untoggled(Look.cfg) /\ Untoggled(Look.want)
  BY NothingIsPartial, OffIsConfig DEF Look
<1>m. ASSUME NEW r \in Requests
      PROVE  Untoggled(Merge(r, job[r].cfg)) /\ Untoggled(Disarmed(job[r].cfg)) /\ Disarmed(job[r].cfg) \in Config
  <2>1. DOMAIN job[r].carry \subseteq {"allows"}
    BY DEF OnlyAllowsIsCarried
  <2> QED
    BY <1>0, <1>s, <2>1, MergeKeeps, DisarmedKeeps
<1> DEFINE Clean(j) == Untoggled(j.cfg) /\ Untoggled(j.want)
<1>w. ASSUME UNCHANGED redis, UNCHANGED fallback, UNCHANGED copy, \A r \in Requests : Clean(job'[r]) PROVE NothingToggled'
  BY <1>s, <1>w DEF NothingToggled
<1>d. ASSUME NEW r \in Requests, NEW c \in Config, Untoggled(c), Decide(r, c)
      PROVE  \A x \in Requests : Clean(job'[x])
  <2>1. CASE Ended(r) \/ Condemned(r, c)
    BY <1>0, <1>s, <1>k, <2>1 DEF Ended, Condemned
  <2>2. CASE ReadsAgain(r, c)
    BY <1>0, <1>s, <2>2, OffIsConfig DEF ReadsAgain
  <2>3. CASE GoesOn(r, c)
    BY <1>0, <1>d, <1>s, <2>3 DEF GoesOn
  <2> QED
    BY <1>0, <1>d, <2>1, <2>2, <2>3, DecideIs
<1>1. ASSUME NEW v \in Visits, Visit(v) PROVE NothingToggled'
  BY <1>1, <1>s, <1>w DEF Visit, service
<1>2. ASSUME NEW q \in Changes, Ask(q) PROVE NothingToggled'
  <2>1. PICK j \in Jobs :
          /\ job' = [job EXCEPT ![q] = [kind |-> j.kind, want |-> j.want, carry |-> Nothing, cfg |-> Off]]
          /\ toggled' = (toggled \/ ("enabled" \in DOMAIN j.want /\ j.want["enabled"]))
    BY <1>2 DEF Ask
  <2>2. Untoggled(j.want)
    BY <2>1 DEF Untoggled
  <2>3. \A r \in Requests : Clean(job'[r])
    BY <1>0, <1>s, <2>1, <2>2, OffIsConfig
  <2> QED
    BY <1>2, <1>w, <2>3 DEF Ask, service
<1>3. ASSUME NEW r \in Requests, Get(r) PROVE NothingToggled'
  <2>1. ASSUME NEW e \in Config \cup {NoEntry}, Read(r, e), e # NoEntry => Untoggled(e)
        PROVE  \A x \in Requests : Clean(job'[x])
    <3>1. Untoggled(copy[at[r]])
      BY <1>0, <1>s
    <3>2. PICK c : job' = [job EXCEPT ![r].cfg = c] /\ Untoggled(c)
      BY <2>1, <3>1 DEF Read
    <3> QED
      BY <1>0, <1>s, <3>2 DEF Job
  <2>2. at[r] \in Processes
    BY <1>0
  <2>3. \A x \in Requests : Clean(job'[x])
    BY <1>0, <1>3, <1>s, <2>1, <2>2 DEF Get
  <2> QED
    BY <1>3, <1>w, <2>3 DEF Get, Read, service
<1>4. ASSUME NEW r \in Requests, Take(r), UNCHANGED redis PROVE NothingToggled'
  <2>1. \A x \in Requests : Clean(job'[x])
    BY <1>0, <1>4, <1>s, <1>d DEF Take
  <2> QED
    BY <1>4, <1>w, <2>1 DEF Take
<1>5. ASSUME NEW r \in Requests, TakeCopy(r) \/ Refresh(r) PROVE NothingToggled'
  BY <1>4, <1>5 DEF TakeCopy, Refresh
<1>6. ASSUME NEW r \in Requests, NEW c, NEW i, NEW done, NEW again, Write(r, c, i, done, again), Untoggled(c),
             UNCHANGED <<fallback, copy, job>>
      PROVE  NothingToggled'
  BY <1>6, <1>s DEF Write, Land, NothingToggled
<1>7. ASSUME NEW r \in Requests, Disarm(r) \/ Save(r) PROVE NothingToggled'
  BY <1>6, <1>7, <1>m DEF Disarm, Save
<1>8. ASSUME NEW r \in Requests, Replay(r) PROVE NothingToggled'
  <2>1. PICK c : fallback' = [fallback EXCEPT ![at[r]] = c] /\ Untoggled(c)
    BY <1>8, <1>m DEF Replay
  <2> QED
    BY <1>0, <1>8, <1>s, <2>1 DEF Replay, NothingToggled
<1>9. ASSUME NEW r \in Requests, AfterDisarm(r) PROVE NothingToggled'
  <2>1. \A x \in Requests : Clean(job'[x])
    BY <1>9, <1>d, <1>m DEF AfterDisarm
  <2> QED
    BY <1>0, <1>9, <1>m, <1>s, <2>1 DEF AfterDisarm, Keep, NothingToggled
<1>10. ASSUME NEW r \in Requests, AfterSave(r) PROVE NothingToggled'
  <2>1. \A x \in Requests : Clean(job'[x])
    BY <1>0, <1>10, <1>k, <1>s DEF AfterSave, End
  <2> QED
    BY <1>0, <1>10, <1>m, <1>s, <2>1 DEF AfterSave, Keep, NothingToggled
<1>11. ASSUME NEW p \in Processes, Restart(p) PROVE NothingToggled'
  <2>1. \A x \in Requests : Clean(job'[x])
    BY <1>0, <1>11, <1>k, <1>s DEF Restart
  <2>2. \A x \in Processes : Untoggled(copy'[x])
    BY <1>0, <1>11, <1>s, OffIsConfig DEF Restart, Remembered
  <2> QED
    BY <1>0, <1>11, <1>s, <2>1, <2>2 DEF Restart, NothingToggled
<1>12. CASE Expire
  BY <1>12, <1>s DEF Expire, requests, NothingToggled
<1>13. CASE Tick \/ UNCHANGED vars
  BY <1>13, <1>s DEF Tick, service, requests, vars, NothingToggled
<1> QED
  BY <1>1, <1>2, <1>3, <1>5, <1>7, <1>8, <1>9, <1>10, <1>11, <1>12, <1>13 DEF Next, Step
------------------------------------------------------------------------------
(* A visit is late only after the window, and then nothing but the toggle    *)
(* refuses it: what getConfig hands out is disarmed by then.                 *)
LEMMA WindowIsKept ==
  ASSUME TypeOK, NothingToggled, LateIsAfter, WindowEnds, [Next]_vars
  PROVE  LateIsAfter' /\ WindowEnds'
<1> USE RequestsAre
<1>0. /\ pc \in [Requests -> Label] /\ job \in [Requests -> Job] /\ late \subseteq Visits
      /\ \A r \in Requests : job[r].cfg \in Config
  BY DEF TypeOK, Label, Job
<1> DEFINE Verdicts == {"refused", "exempt"}
<1>s. ASSUME UNCHANGED <<late, clock>>, toggled => toggled',
             \A r \in Requests : pc'[r] \in Verdicts => pc[r] \in Verdicts \/ r \notin late \/ toggled'
      PROVE  LateIsAfter' /\ WindowEnds'
  BY <1>0, <1>s DEF LateIsAfter, WindowEnds
<1>g. ASSUME NEW r \in Requests, NEW label, label \notin Verdicts, Goto(r, label), UNCHANGED <<late, clock, toggled>>
      PROVE  LateIsAfter' /\ WindowEnds'
  BY <1>0, <1>s, <1>g DEF Goto
<1>d. ASSUME NEW r \in Requests, NEW c \in Config, Decide(r, c), ~ Expired(c), ~ toggled => Untoggled(c),
             UNCHANGED <<late, clock, toggled>>
      PROVE  LateIsAfter' /\ WindowEnds'
  <2>1. CASE Ended(r)
    BY <1>d, <1>g, <2>1 DEF Ended, Goto
  <2>2. CASE Condemned(r, c)
    <3>1. InForce(c)
      BY <2>2 DEF Condemned
    <3>2. late # {} => c["enabled"]
      BY <1>d, <3>1 DEF InForce, Expired, LateIsAfter
    <3>3. late # {} => toggled
      BY <1>d, <3>2 DEF Untoggled, Config, Fields
    <3> QED
      BY <1>0, <1>d, <1>s, <2>2, <3>3 DEF Condemned
  <2>3. CASE ReadsAgain(r, c)
    BY <1>d, <1>g, <2>3 DEF ReadsAgain, Goto
  <2>4. CASE GoesOn(r, c)
    BY <1>d, <1>g, <2>4 DEF GoesOn, Goto
  <2> QED
    BY <1>0, <1>d, <2>1, <2>2, <2>3, <2>4, DecideIs
<1>1. ASSUME NEW v \in Visits, Visit(v) PROVE LateIsAfter' /\ WindowEnds'
  BY <1>0, <1>1 DEF Visit, Goto, LateIsAfter, WindowEnds
<1>2. ASSUME NEW q \in Changes, Ask(q) PROVE LateIsAfter' /\ WindowEnds'
  <2>1. pc' = [pc EXCEPT ![q] = "get"] /\ UNCHANGED <<late, clock>>
    BY <1>2 DEF Ask, Goto
  <2>2. toggled => toggled'
    BY <1>2 DEF Ask
  <2> QED
    BY <1>0, <1>s, <2>1, <2>2
<1>3. ASSUME NEW r \in Requests, Get(r) PROVE LateIsAfter' /\ WindowEnds'
  BY <1>3, <1>g DEF Get, Read
<1>4. ASSUME NEW r \in Requests, Take(r) PROVE LateIsAfter' /\ WindowEnds'
  <2>1. ~ toggled => Untoggled(job[r].cfg)
    BY DEF NothingToggled
  <2>2. CASE Goto(r, "disarm")
    BY <1>4, <1>g, <2>2 DEF Take
  <2>3. CASE ~ Expired(job[r].cfg) /\ Decide(r, job[r].cfg)
    BY <1>0, <1>4, <1>d, <2>1, <2>3 DEF Take
  <2> QED
    BY <1>4, <2>2, <2>3 DEF Take
<1>5. ASSUME NEW r \in Requests, TakeCopy(r) \/ Refresh(r) PROVE LateIsAfter' /\ WindowEnds'
  BY <1>4, <1>5 DEF TakeCopy, Refresh
<1>6. ASSUME NEW r \in Requests, Disarm(r) \/ Save(r) \/ Replay(r) PROVE LateIsAfter' /\ WindowEnds'
  BY <1>6, <1>g DEF Disarm, Save, Replay, Write, Land
<1>7. ASSUME NEW r \in Requests, AfterDisarm(r) PROVE LateIsAfter' /\ WindowEnds'
  <2>1. Disarmed(job[r].cfg) \in Config /\ ~ Expired(Disarmed(job[r].cfg))
    BY <1>0, DisarmedKeeps DEF Expired
  <2>2. ~ toggled => Untoggled(Disarmed(job[r].cfg))
    BY <1>0, DisarmedKeeps DEF NothingToggled
  <2> QED
    BY <1>7, <1>d, <2>1, <2>2 DEF AfterDisarm
<1>8. ASSUME NEW r \in Requests, AfterSave(r) PROVE LateIsAfter' /\ WindowEnds'
  BY <1>8, <1>g DEF AfterSave, End
<1>9. ASSUME NEW p \in Processes, Restart(p) PROVE LateIsAfter' /\ WindowEnds'
  BY <1>0, <1>9, <1>s DEF Restart
<1>10. CASE Expire \/ UNCHANGED vars
  BY <1>10, <1>s DEF Expire, requests, vars
<1>11. CASE Tick
  BY <1>11 DEF Tick, requests, LateIsAfter, WindowEnds
<1> QED
  BY <1>1, <1>2, <1>3, <1>5, <1>6, <1>7, <1>8, <1>9, <1>10, <1>11 DEF Next, Step
------------------------------------------------------------------------------
(* A call is repeated only after a failure, and what has been written stays. *)
LEMMA LandingsAreKept ==
  ASSUME TypeOK, OnlyAllowsIsCarried, WritesHaveLanded, AbsentIsUntouched, [Next]_vars
  PROVE  WritesHaveLanded' /\ AbsentIsUntouched'
<1> SUFFICES ASSUME troubles' = 0 PROVE WritesHaveLanded' /\ AbsentIsUntouched'
  BY DEF WritesHaveLanded, AbsentIsUntouched
<1> USE RequestsAre
<1> DEFINE Repeats == {"disarmAgain", "saveAgain"}
           Written == {"disarmed", "saved"}
<1>0. /\ pc \in [Requests -> Label] /\ job \in [Requests -> Job] /\ troubles \in Nat
      /\ copy \in [Processes -> Config] /\ at \in [Requests -> Processes]
      /\ \A r \in Requests : job[r].cfg \in Config
      /\ 0..MaxTroubles \subseteq Nat
  BY MaintenanceAssumption DEF TypeOK, Label, Job
<1>t. ~ Trouble
  BY <1>0 DEF Trouble
<1>u. troubles = 0
  <2>1. UNCHANGED troubles
    BY <1>t DEF Next, Step, Visit, Ask, Get, Read, TakeCopy, Refresh, Take, Disarm, Save, Write, Replay,
                AfterDisarm, AfterSave, Restart, Remembered, Expire, Tick, vars
  <2> QED
    BY <2>1
<1>s. /\ \A r \in Requests : pc[r] \notin Repeats /\ (pc[r] \in Written => redis # NoEntry)
      /\ redis = NoEntry => \A p \in Processes : copy[p] = Off
  BY <1>u DEF WritesHaveLanded, AbsentIsUntouched
<1>m. ASSUME NEW r \in Requests
      PROVE  Merge(r, job[r].cfg) # NoEntry /\ Disarmed(job[r].cfg) # NoEntry
  <2>1. DOMAIN job[r].carry \subseteq {"allows"}
    BY DEF OnlyAllowsIsCarried
  <2> QED
    BY <1>0, <2>1, MergeKeeps, DisarmedKeeps, NoEntryIsNoConfig
<1>g. ASSUME NEW r \in Requests, NEW label, label \notin Repeats \cup Written, Goto(r, label),
             UNCHANGED <<redis, copy>>
      PROVE  WritesHaveLanded' /\ AbsentIsUntouched'
  BY <1>0, <1>s, <1>g DEF Goto, WritesHaveLanded, AbsentIsUntouched
<1>d. ASSUME NEW r \in Requests, NEW c \in Config, Decide(r, c)
      PROVE  \E label \in {"passed", "done", "refused", "exempt", "getAgain", "save"} : Goto(r, label)
  BY <1>0, <1>d, DecideIs DEF Ended, Condemned, ReadsAgain, GoesOn, Goto
<1>1. ASSUME NEW v \in Visits, Visit(v) PROVE WritesHaveLanded' /\ AbsentIsUntouched'
  BY <1>1, <1>g DEF Visit, service
<1>2. ASSUME NEW q \in Changes, Ask(q) PROVE WritesHaveLanded' /\ AbsentIsUntouched'
  BY <1>2, <1>g DEF Ask, service
<1>3. ASSUME NEW r \in Requests, Get(r) PROVE WritesHaveLanded' /\ AbsentIsUntouched'
  BY <1>3, <1>g DEF Get, Read, service
<1>4. ASSUME NEW r \in Requests, TakeCopy(r) \/ Refresh(r) PROVE WritesHaveLanded' /\ AbsentIsUntouched'
  <2>1. UNCHANGED <<redis, copy>>
    BY <1>4 DEF TakeCopy, Refresh, Take
  <2>2. Goto(r, "disarm") \/ Decide(r, job[r].cfg)
    BY <1>4 DEF TakeCopy, Refresh, Take
  <2> QED
    BY <1>0, <1>d, <1>g, <2>1, <2>2
<1>5. ASSUME NEW r \in Requests, NEW c, NEW label, c # NoEntry, redis' = c, Goto(r, label), label \in Written,
             UNCHANGED copy
      PROVE  WritesHaveLanded' /\ AbsentIsUntouched'
  BY <1>0, <1>s, <1>5 DEF Goto, WritesHaveLanded, AbsentIsUntouched
<1>6. ASSUME NEW r \in Requests, Disarm(r) \/ Save(r) PROVE WritesHaveLanded' /\ AbsentIsUntouched'
  BY <1>5, <1>6, <1>m, <1>t DEF Disarm, Save, Write, Land
<1>7. ASSUME NEW r \in Requests, Replay(r) PROVE WritesHaveLanded' /\ AbsentIsUntouched'
  BY <1>7, <1>s DEF Replay
<1>8. ASSUME NEW r \in Requests, AfterDisarm(r) PROVE WritesHaveLanded' /\ AbsentIsUntouched'
  <2>1. Disarmed(job[r].cfg) \in Config
    BY <1>0, DisarmedKeeps
  <2>2. redis' = redis /\ redis # NoEntry
    BY <1>8, <1>s DEF AfterDisarm
  <2> QED
    BY <1>0, <1>8, <1>d, <1>s, <2>1, <2>2 DEF AfterDisarm, Goto, WritesHaveLanded, AbsentIsUntouched
<1>9. ASSUME NEW r \in Requests, AfterSave(r) PROVE WritesHaveLanded' /\ AbsentIsUntouched'
  <2>1. redis' = redis /\ redis # NoEntry
    BY <1>9, <1>s DEF AfterSave
  <2> QED
    BY <1>0, <1>9, <1>s, <2>1 DEF AfterSave, End, Goto, WritesHaveLanded, AbsentIsUntouched
<1>10. ASSUME NEW p \in Processes, Restart(p) PROVE WritesHaveLanded' /\ AbsentIsUntouched'
  <2>1. redis = NoEntry => \A x \in Processes : copy'[x] = Off
    BY <1>0, <1>10, <1>s, <1>t DEF Restart, Remembered
  <2>2. \A r \in Requests : pc'[r] = pc[r] \/ pc'[r] = "dead"
    BY <1>0, <1>10 DEF Restart
  <2> QED
    BY <1>0, <1>10, <1>s, <2>1, <2>2 DEF Restart, WritesHaveLanded, AbsentIsUntouched
<1>11. CASE Expire
  BY <1>11, <1>t DEF Expire
<1>12. CASE Tick \/ UNCHANGED vars
  BY <1>12, <1>s DEF Tick, service, requests, vars, WritesHaveLanded, AbsentIsUntouched
<1> QED
  BY <1>1, <1>2, <1>3, <1>4, <1>6, <1>7, <1>8, <1>9, <1>10, <1>11, <1>12 DEF Next, Step
------------------------------------------------------------------------------
(* While Redis answers, a request nobody has overlapped has in hand what is  *)
(* stored, so that what it writes is its own change and no other.            *)
LEMMA ReadsAreKept ==
  ASSUME TypeOK, OnlyAllowsIsCarried, WritesHaveLanded, AbsentIsUntouched,
         ReadsAreCurrent, LostOnlyByOverlap, [Next]_vars
  PROVE  ReadsAreCurrent' /\ LostOnlyByOverlap'
<1> SUFFICES ASSUME troubles' = 0, ~ lost' PROVE ReadsAreCurrent' /\ LostOnlyByOverlap'
  BY DEF ReadsAreCurrent, LostOnlyByOverlap
<1> USE RequestsAre
<1>0. /\ pc \in [Requests -> Label] /\ job \in [Requests -> Job] /\ troubles \in Nat
      /\ copy \in [Processes -> Config] /\ at \in [Requests -> Processes]
      /\ redis \in Config \cup {NoEntry} /\ intent \in Config
      /\ \A r \in Requests : job[r].cfg \in Config /\ job[r].carry \in Partial /\ job[r].want \in Partial
      /\ 0..MaxTroubles \subseteq Nat
  BY MaintenanceAssumption DEF TypeOK, Label, Job
<1>t. ~ Trouble
  BY <1>0 DEF Trouble
<1>u. troubles = 0 /\ ~ lost
  <2>1. UNCHANGED troubles
    BY <1>t DEF Next, Step, Visit, Ask, Get, Read, TakeCopy, Refresh, Take, Disarm, Save, Write, Replay,
                AfterDisarm, AfterSave, Restart, Remembered, Expire, Tick, vars
  <2>2. \A r, c, i : Land(r, c, i) => ~ lost
    BY DEF Land
  <2>3. ~ lost
    BY <2>2 DEF Next, Step, Visit, Ask, Get, Read, TakeCopy, Refresh, Take, Disarm, Save, Write, Replay,
                AfterDisarm, AfterSave, Restart, Expire, Tick, vars
  <2> QED
    BY <2>1, <2>3
<1> DEFINE Carried(j, s) == \A f \in DOMAIN j.carry : j.carry[f] = s[f]
           Sound(label, j, s) ==
             /\ label \in {"refresh", "have", "disarm", "save"} => j.cfg = s
             /\ label = "disarmed" => Disarmed(j.cfg) = s
             /\ label \in Reading \cup {"disarm", "disarmed", "save"} => Carried(j, s)
<1>s. /\ \A r \in Requests \ overlapped : Sound(pc[r], job[r], Stored)
      /\ Stored = intent
  BY <1>u DEF ReadsAreCurrent, LostOnlyByOverlap
<1>c. /\ \A r \in Requests : DOMAIN job[r].carry \subseteq {"allows"}
      /\ \A r \in Requests : pc[r] \in Over \cup {"get"} => DOMAIN job[r].carry = {}
  BY DEF OnlyAllowsIsCarried
<1>n. DOMAIN Look.carry = {}
  BY NothingIsPartial DEF Look
<1>f. ASSUME \A r \in Requests \ overlapped' : Sound(pc'[r], job'[r], Stored'), Stored' = intent'
      PROVE  ReadsAreCurrent' /\ LostOnlyByOverlap'
  BY <1>f DEF ReadsAreCurrent, LostOnlyByOverlap
<1>g. ASSUME NEW r \in Requests, UNCHANGED <<redis, intent, overlapped>>,
             \A x \in Requests \ {r} : pc'[x] = pc[x] /\ job'[x] = job[x],
             r \notin overlapped => Sound(pc'[r], job'[r], Stored)
      PROVE  ReadsAreCurrent' /\ LostOnlyByOverlap'
  <2>1. Stored' = Stored
    BY <1>g DEF Stored
  <2>2. \A x \in Requests \ overlapped' : Sound(pc'[x], job'[x], Stored')
    BY <1>g, <1>s, <2>1
  <2> HIDE DEF Sound
  <2> QED
    BY <1>f, <1>g, <1>s, <2>1, <2>2
<1>d. ASSUME NEW r \in Requests, NEW c \in Config, Decide(r, c), UNCHANGED <<redis, intent, overlapped>>,
             r \notin overlapped => c = Stored /\ Carried(job[r], Stored)
      PROVE  ReadsAreCurrent' /\ LostOnlyByOverlap'
  <2>1. CASE Ended(r) \/ Condemned(r, c)
    <3>1. \A x \in Requests \ {r} : pc'[x] = pc[x] /\ job'[x] = job[x]
      BY <1>0, <2>1 DEF Ended, Condemned
    <3>2. pc'[r] \in {"passed", "done", "refused", "exempt"}
      BY <1>0, <2>1 DEF Ended, Condemned
    <3>3. Sound(pc'[r], job'[r], Stored)
      BY <3>2 DEF Reading
    <3> HIDE DEF Sound
    <3> QED
      BY <1>d, <1>g, <3>1, <3>3
  <2>2. CASE ReadsAgain(r, c)
    <3>1. PICK carry \in Partial :
            /\ \A f \in DOMAIN carry : carry[f] = c[f]
            /\ job' = [job EXCEPT ![r] = [kind |-> "set", want |-> job[r].want, carry |-> carry, cfg |-> Off]]
      BY <2>2 DEF ReadsAgain
    <3>2. /\ \A x \in Requests \ {r} : pc'[x] = pc[x] /\ job'[x] = job[x]
          /\ pc'[r] = "getAgain" /\ job'[r].carry = carry
      BY <1>0, <2>2, <3>1 DEF ReadsAgain
    <3>3. r \notin overlapped => Sound(pc'[r], job'[r], Stored)
      BY <1>d, <3>1, <3>2
    <3> HIDE DEF Sound
    <3> QED
      BY <1>d, <1>g, <3>2, <3>3
  <2>3. CASE GoesOn(r, c)
    <3>1. /\ \A x \in Requests \ {r} : pc'[x] = pc[x] /\ job'[x] = job[x]
          /\ pc'[r] = "save" /\ job'[r].carry = job[r].carry /\ job'[r].cfg = c
      BY <1>0, <2>3 DEF GoesOn
    <3>2. r \notin overlapped => Sound(pc'[r], job'[r], Stored)
      BY <1>d, <3>1
    <3> HIDE DEF Sound
    <3> QED
      BY <1>d, <1>g, <3>1, <3>2
  <2> QED
    BY <1>0, <1>d, <2>1, <2>2, <2>3, DecideIs
<1>1. ASSUME NEW v \in Visits, Visit(v) PROVE ReadsAreCurrent' /\ LostOnlyByOverlap'
  <2>1. /\ \A x \in Requests \ {v} : pc'[x] = pc[x] /\ job'[x] = job[x]
        /\ pc'[v] \in {"listed", "get"} /\ job'[v] = job[v] /\ DOMAIN job[v].carry = {}
    BY <1>0, <1>1, <1>c DEF Visit, Goto, Over
  <2>2. Sound(pc'[v], job'[v], Stored)
    BY <2>1
  <2> HIDE DEF Sound
  <2> QED
    BY <1>1, <1>g, <2>1, <2>2 DEF Visit, service
<1>2. ASSUME NEW q \in Changes, Ask(q) PROVE ReadsAreCurrent' /\ LostOnlyByOverlap'
  <2>1. /\ \A x \in Requests \ {q} : pc'[x] = pc[x] /\ job'[x] = job[x]
        /\ pc'[q] = "get" /\ job'[q].carry = Nothing
    BY <1>0, <1>2 DEF Ask, Goto
  <2>2. Sound(pc'[q], job'[q], Stored)
    BY <2>1, NothingIsPartial
  <2> HIDE DEF Sound
  <2> QED
    BY <1>2, <1>g, <2>1, <2>2 DEF Ask, service
<1>3. ASSUME NEW r \in Requests, Get(r) PROVE ReadsAreCurrent' /\ LostOnlyByOverlap'
  <2>1. Read(r, redis) /\ pc[r] \in {"get", "getAgain"}
    BY <1>3, <1>t DEF Get
  <2>2. redis = NoEntry => copy[at[r]] = Stored
    BY <1>0, <1>u DEF AbsentIsUntouched, Stored
  <2>3. redis # NoEntry => redis = Stored
    BY DEF Stored
  <2>4. job' = [job EXCEPT ![r].cfg = Stored] /\ (Goto(r, "have") \/ Goto(r, "refresh"))
    BY <2>1, <2>2, <2>3 DEF Read
  <2>5. /\ \A x \in Requests \ {r} : pc'[x] = pc[x] /\ job'[x] = job[x]
        /\ pc'[r] \in {"have", "refresh"} /\ job'[r].cfg = Stored /\ job'[r].carry = job[r].carry
    BY <1>0, <2>4 DEF Goto, Job
  <2>6. r \notin overlapped => Carried(job[r], Stored)
    BY <1>s, <2>1 DEF Reading
  <2>7. r \notin overlapped => Sound(pc'[r], job'[r], Stored)
    BY <2>5, <2>6
  <2> HIDE DEF Sound
  <2> QED
    BY <1>g, <2>1, <2>5, <2>7 DEF Read, service
<1>4. ASSUME NEW r \in Requests, TakeCopy(r) \/ Refresh(r) PROVE ReadsAreCurrent' /\ LostOnlyByOverlap'
  <2>1. /\ pc[r] \in {"have", "refresh"} /\ UNCHANGED <<redis, intent, overlapped>>
        /\ \/ Goto(r, "disarm") /\ UNCHANGED job
           \/ Decide(r, job[r].cfg)
    BY <1>4 DEF TakeCopy, Refresh, Take
  <2>2. r \notin overlapped => job[r].cfg = Stored /\ Carried(job[r], Stored)
    BY <1>s, <2>1 DEF Reading
  <2>3. CASE Goto(r, "disarm") /\ UNCHANGED job
    <3>1. /\ \A x \in Requests \ {r} : pc'[x] = pc[x] /\ job'[x] = job[x]
          /\ pc'[r] = "disarm" /\ job'[r] = job[r]
      BY <1>0, <2>3 DEF Goto
    <3>2. r \notin overlapped => Sound(pc'[r], job'[r], Stored)
      BY <2>2, <3>1
    <3> HIDE DEF Sound
    <3> QED
      BY <1>g, <2>1, <3>1, <3>2
  <2>4. CASE Decide(r, job[r].cfg)
    <3> HIDE DEF Carried
    <3> QED
      BY <1>0, <1>d, <2>1, <2>2, <2>4
  <2> QED
    BY <2>1, <2>3, <2>4
<1>5. ASSUME NEW r \in Requests, NEW c \in Config, NEW label, Land(r, c, c), Goto(r, label), UNCHANGED job,
             r \notin overlapped => Sound(label, job[r], c)
      PROVE  ReadsAreCurrent' /\ LostOnlyByOverlap'
  <2>1. r \notin overlapped /\ Stored' = c /\ intent' = c
    BY <1>5, NoEntryIsNoConfig DEF Land, Stored
  <2>2. ASSUME NEW x \in Requests \ overlapped', x # r PROVE Sound(pc'[x], job'[x], c)
    <3>1. pc'[x] = pc[x] /\ job'[x] = job[x] /\ pc[x] \in Over \cup {"get"}
      BY <1>0, <1>5, <2>2 DEF Goto, Land
    <3>2. DOMAIN job[x].carry = {}
      BY <1>c, <3>1
    <3> QED
      BY <3>1, <3>2 DEF Over
  <2>3. pc'[r] = label /\ job'[r] = job[r]
    BY <1>0, <1>5 DEF Goto
  <2> HIDE DEF Sound
  <2> QED
    BY <1>5, <1>f, <2>1, <2>2, <2>3
<1>6. ASSUME NEW r \in Requests, Disarm(r) PROVE ReadsAreCurrent' /\ LostOnlyByOverlap'
  <2>1. Land(r, Disarmed(job[r].cfg), Disarmed(intent)) /\ Goto(r, "disarmed") /\ UNCHANGED job /\ pc[r] = "disarm"
    BY <1>6, <1>t DEF Disarm, Write
  <2>2. r \notin overlapped
    BY <2>1 DEF Land
  <2>3. job[r].cfg = Stored /\ Carried(job[r], Stored)
    BY <1>s, <2>1, <2>2
  <2>4. Disarmed(job[r].cfg) \in Config /\ Disarmed(job[r].cfg)["allows"] = job[r].cfg["allows"]
    BY <1>0, DisarmedKeeps
  <2>5. Carried(job[r], Disarmed(job[r].cfg))
    BY <1>c, <2>3, <2>4
  <2>6. Sound("disarmed", job[r], Disarmed(job[r].cfg))
    BY <2>5
  <2>7. Land(r, Disarmed(job[r].cfg), Disarmed(job[r].cfg))
    BY <1>s, <2>1, <2>3
  <2> HIDE DEF Sound, Carried
  <2> QED
    BY <1>5, <2>1, <2>4, <2>6, <2>7
<1>7. ASSUME NEW r \in Requests, Save(r) PROVE ReadsAreCurrent' /\ LostOnlyByOverlap'
  <2>1. Land(r, Merge(r, job[r].cfg), Intended(r)) /\ Goto(r, "saved") /\ UNCHANGED job /\ pc[r] = "save"
    BY <1>7, <1>t DEF Save, Write
  <2>2. r \notin overlapped
    BY <2>1 DEF Land
  <2>3. job[r].cfg = Stored /\ Carried(job[r], Stored)
    BY <1>s, <2>1, <2>2
  <2>4. Spread(job[r].cfg, job[r].carry) = job[r].cfg
    BY <1>0, <2>3, SpreadOfOwn
  <2>5. Merge(r, job[r].cfg) = Intended(r)
    BY <1>s, <2>3, <2>4 DEF Merge, Intended
  <2>6. Merge(r, job[r].cfg) \in Config
    BY <1>0, <1>c, MergeKeeps
  <2>7. Sound("saved", job[r], Merge(r, job[r].cfg))
    BY DEF Reading
  <2> HIDE DEF Sound, Carried
  <2> QED
    BY <1>5, <2>1, <2>5, <2>6, <2>7
<1>8. ASSUME NEW r \in Requests, Replay(r) PROVE ReadsAreCurrent' /\ LostOnlyByOverlap'
  BY <1>8, <1>u DEF Replay, WritesHaveLanded
<1>9. ASSUME NEW r \in Requests, AfterDisarm(r) PROVE ReadsAreCurrent' /\ LostOnlyByOverlap'
  <2>1. pc[r] = "disarmed" /\ Decide(r, Disarmed(job[r].cfg)) /\ UNCHANGED <<redis, intent, overlapped>>
    BY <1>9 DEF AfterDisarm
  <2>2. r \notin overlapped => Disarmed(job[r].cfg) = Stored /\ Carried(job[r], Stored)
    BY <1>s, <2>1
  <2>3. Disarmed(job[r].cfg) \in Config
    BY <1>0, DisarmedKeeps
  <2> HIDE DEF Carried
  <2> QED
    BY <1>d, <2>1, <2>2, <2>3
<1>10. ASSUME NEW r \in Requests, AfterSave(r) PROVE ReadsAreCurrent' /\ LostOnlyByOverlap'
  <2>1. /\ \A x \in Requests \ {r} : pc'[x] = pc[x] /\ job'[x] = job[x]
        /\ pc'[r] = "done"
    BY <1>0, <1>10 DEF AfterSave, End, Goto
  <2>2. Sound(pc'[r], job'[r], Stored)
    BY <2>1 DEF Reading
  <2> HIDE DEF Sound
  <2> QED
    BY <1>10, <1>g, <2>1, <2>2 DEF AfterSave
<1>11. ASSUME NEW p \in Processes, Restart(p) PROVE ReadsAreCurrent' /\ LostOnlyByOverlap'
  <2>1. Stored' = Stored /\ intent' = intent /\ overlapped' = overlapped
    BY <1>11 DEF Restart, Stored
  <2>2. \A x \in Requests : \/ pc'[x] = pc[x] /\ job'[x] = job[x]
                            \/ pc'[x] = "dead"
    BY <1>0, <1>11 DEF Restart
  <2>3. \A x \in Requests : pc'[x] = "dead" => Sound(pc'[x], job'[x], Stored)
    BY DEF Reading
  <2> HIDE DEF Sound
  <2> QED
    BY <1>f, <1>s, <2>1, <2>2, <2>3
<1>12. CASE Expire
  BY <1>12, <1>t DEF Expire
<1>13. CASE Tick \/ UNCHANGED vars
  <2>1. Stored' = Stored /\ UNCHANGED <<pc, job, intent, overlapped>>
    BY <1>13 DEF Tick, service, requests, vars, Stored
  <2> HIDE DEF Sound
  <2> QED
    BY <1>f, <1>s, <2>1
<1> QED
  BY <1>1, <1>2, <1>3, <1>4, <1>6, <1>7, <1>8, <1>9, <1>10, <1>11, <1>12, <1>13 DEF Next, Step
------------------------------------------------------------------------------
(* While Redis answers, a visit is judged by what was stored while it was    *)
(* under way: Observe sees the configuration as the visit reads it, and once *)
(* more when the visit itself has disarmed it.                               *)
LEMMA VerdictsAreKept ==
  ASSUME TypeOK, AbsentIsUntouched, WritesHaveLanded, VerdictsAreBacked, VerdictIsCurrent, [Next]_vars
  PROVE  VerdictsAreBacked' /\ VerdictIsCurrent'
<1> SUFFICES ASSUME troubles' = 0 PROVE VerdictsAreBacked' /\ VerdictIsCurrent'
  BY DEF VerdictsAreBacked, VerdictIsCurrent
<1> USE RequestsAre
<1>0. /\ pc \in [Requests -> Label] /\ job \in [Requests -> Job] /\ troubles \in Nat
      /\ at \in [Requests -> Processes]
      /\ \A r \in Requests : job[r].cfg \in Config
      /\ 0..MaxTroubles \subseteq Nat
  BY MaintenanceAssumption DEF TypeOK, Label, Job
<1>t. ~ Trouble
  BY <1>0 DEF Trouble
<1>u. troubles = 0
  <2>1. UNCHANGED troubles
    BY <1>t DEF Next, Step, Visit, Ask, Get, Read, TakeCopy, Refresh, Take, Disarm, Save, Write, Replay,
                AfterDisarm, AfterSave, Restart, Remembered, Expire, Tick, vars
  <2> QED
    BY <2>1
<1> DEFINE Backed(v, label, c, now, called, spares) ==
             /\ label \in {"refresh", "have", "disarm"} =>
                  /\ c["enabled"] \/ c["armed"] => v \in called
                  /\ ~ c["enabled"] /\ (~ c["armed"] \/ now = "before") => v \in spares
             /\ label = "disarmed" => v \in IF c["enabled"] THEN called ELSE spares
             /\ label \in {"refused", "exempt"} => v \in called
             /\ label = "passed" => v \in spares
           BackedNow(v) == Backed(v, pc[v], job[v].cfg, clock, calledFor, spared)
           BackedThen(v) == Backed(v, pc'[v], job'[v].cfg, clock', calledFor', spared')
           Idle == {"idle", "listed", "get", "getAgain", "done", "dead", "save", "saveAgain", "saved"}
<1>s. \A v \in Visits : BackedNow(v)
  BY <1>u DEF VerdictsAreBacked, VerdictIsCurrent
<1>f. ASSUME \A v \in Visits : BackedThen(v) PROVE VerdictsAreBacked' /\ VerdictIsCurrent'
  BY <1>f DEF VerdictsAreBacked, VerdictIsCurrent
<1>o. Observe => calledFor \subseteq calledFor' /\ spared \subseteq spared'
  BY DEF Observe
<1>i. ASSUME NEW v \in Visits, pc'[v] \in Idle PROVE BackedThen(v)
  BY <1>i
<1>k. ASSUME Observe, NEW v \in Visits, pc'[v] = pc[v], job'[v] = job[v],
             clock' = "before" => clock = "before"
      PROVE  BackedThen(v)
  BY <1>k, <1>o, <1>s
<1>m. ASSUME Observe, NEW r \in Requests, NEW label, pc' = [pc EXCEPT ![r] = label],
             \A x \in Requests \ {r} : job'[x] = job[x], UNCHANGED clock,
             r \in Visits => BackedThen(r)
      PROVE  VerdictsAreBacked' /\ VerdictIsCurrent'
  <2>1. ASSUME NEW v \in Visits, v # r PROVE BackedThen(v)
    <3>1. pc'[v] = pc[v] /\ job'[v] = job[v]
      BY <1>0, <1>m, <2>1
    <3> HIDE DEF BackedThen
    <3> QED
      BY <1>k, <1>m, <3>1
  <2> HIDE DEF BackedThen
  <2> QED
    BY <1>f, <1>m, <2>1
<1>d. ASSUME Observe, NEW r \in Requests, NEW c \in Config, Decide(r, c), UNCHANGED clock,
             r \in Visits => /\ InForce(c) => r \in calledFor
                             /\ ~ InForce(c) => r \in spared
      PROVE  VerdictsAreBacked' /\ VerdictIsCurrent'
  <2>1. CASE Judge(r, c)
    <3>1. PICK label \in {"refused", "exempt", "passed"} :
            /\ End(r, label)
            /\ label = "passed" <=> ~ InForce(c)
      BY <2>1 DEF Judge
    <3>2. pc'[r] = label /\ pc' = [pc EXCEPT ![r] = label] /\ \A x \in Requests \ {r} : job'[x] = job[x]
      BY <1>0, <3>1 DEF End, Goto
    <3>3. r \in Visits => BackedThen(r)
      BY <1>d, <1>o, <3>1, <3>2
    <3> HIDE DEF BackedThen
    <3> QED
      BY <1>d, <1>m, <3>2, <3>3
  <2>2. CASE ~ Judge(r, c)
    <3>1. PICK label \in {"getAgain", "done", "save"} :
            pc' = [pc EXCEPT ![r] = label] /\ \A x \in Requests \ {r} : job'[x] = job[x]
      BY <1>0, <1>d, <2>2 DEF Decide, Toggle, Schedule, EditIps, Prepare, SetConfig, End, Goto
    <3>2. pc'[r] = label /\ label \in Idle
      BY <1>0, <3>1
    <3> HIDE DEF BackedThen
    <3> QED
      BY <1>d, <1>i, <1>m, <3>1, <3>2
  <2> QED
    BY <2>1, <2>2
<1>g. ASSUME Observe, NEW r \in Requests, NEW label \in Idle, Goto(r, label),
             \A x \in Requests \ {r} : job'[x] = job[x], UNCHANGED clock
      PROVE  VerdictsAreBacked' /\ VerdictIsCurrent'
  <2>1. pc' = [pc EXCEPT ![r] = label] /\ pc'[r] \in Idle
    BY <1>0, <1>g DEF Goto
  <2> HIDE DEF BackedThen
  <2> QED
    BY <1>g, <1>i, <1>m, <2>1
<1>1. ASSUME Observe, NEW v \in Visits, Visit(v) PROVE VerdictsAreBacked' /\ VerdictIsCurrent'
  BY <1>1, <1>g DEF Visit
<1>2. ASSUME Observe, NEW q \in Changes, Ask(q) PROVE VerdictsAreBacked' /\ VerdictIsCurrent'
  <2>1. \A x \in Requests \ {q} : job'[x] = job[x]
    BY <1>0, <1>2 DEF Ask
  <2> QED
    BY <1>2, <1>g, <2>1 DEF Ask
<1>3. ASSUME Observe, NEW r \in Requests, Get(r) PROVE VerdictsAreBacked' /\ VerdictIsCurrent'
  <2>1. Read(r, redis)
    BY <1>3, <1>t DEF Get
  <2>2. redis = NoEntry => copy[at[r]] = Stored
    BY <1>0, <1>u DEF AbsentIsUntouched, Stored
  <2>3. redis # NoEntry => redis = Stored
    BY DEF Stored
  <2>4. PICK label \in {"have", "refresh"} : pc' = [pc EXCEPT ![r] = label]
    BY <2>1 DEF Read, Goto
  <2>5. job' = [job EXCEPT ![r].cfg = Stored]
    BY <2>1, <2>2, <2>3 DEF Read
  <2>6. /\ \A x \in Requests \ {r} : job'[x] = job[x]
        /\ pc'[r] = label /\ job'[r].cfg = Stored /\ UNCHANGED clock /\ Stored' = Stored
    BY <1>0, <2>1, <2>4, <2>5 DEF Read, service, Stored, Job
  <2>7. ASSUME r \in Visits PROVE BackedThen(r)
    <3>1. label \notin Over /\ r \in {v \in Visits : pc'[v] \notin Over}
      BY <2>6, <2>7 DEF Over
    <3>2. Stored["enabled"] \/ Stored["armed"] => r \in calledFor'
      BY <1>3, <2>6, <3>1 DEF Observe
    <3>3. ~ Stored["enabled"] /\ (~ Stored["armed"] \/ clock' = "before") => r \in spared'
      BY <1>3, <2>6, <3>1 DEF Observe
    <3> QED
      BY <2>6, <3>2, <3>3
  <2> HIDE DEF BackedThen
  <2> QED
    BY <1>3, <1>m, <2>4, <2>6, <2>7
<1>4. ASSUME Observe, NEW r \in Requests, TakeCopy(r) \/ Refresh(r)
      PROVE  VerdictsAreBacked' /\ VerdictIsCurrent'
  <2>1. pc[r] \in {"have", "refresh"} /\ UNCHANGED clock /\ Take(r)
    BY <1>4 DEF TakeCopy, Refresh, Take
  <2> DEFINE c == job[r].cfg
  <2>2. CASE Expired(c) /\ Goto(r, "disarm") /\ UNCHANGED job
    <3>1. pc' = [pc EXCEPT ![r] = "disarm"] /\ pc'[r] = "disarm" /\ job'[r] = job[r]
      BY <1>0, <2>2 DEF Goto
    <3>2. r \in Visits => BackedThen(r)
      BY <1>4, <1>o, <1>s, <2>1, <3>1
    <3> HIDE DEF BackedThen
    <3> QED
      BY <1>4, <1>m, <2>1, <2>2, <3>1, <3>2
  <2>3. CASE Decide(r, c)
    <3>1. r \in Visits => /\ InForce(c) => r \in calledFor
                          /\ ~ InForce(c) => r \in spared
      BY <1>s, <2>1 DEF InForce
    <3> QED
      BY <1>0, <1>4, <1>d, <2>1, <2>3, <3>1
  <2> QED
    BY <2>1, <2>2, <2>3 DEF Take
<1>5. ASSUME Observe, NEW r \in Requests, Disarm(r) PROVE VerdictsAreBacked' /\ VerdictIsCurrent'
  <2>1. /\ Land(r, Disarmed(job[r].cfg), Disarmed(intent)) /\ pc' = [pc EXCEPT ![r] = "disarmed"]
        /\ UNCHANGED <<job, clock>> /\ pc[r] = "disarm"
    BY <1>5, <1>t DEF Disarm, Write, Goto
  <2>2. /\ Disarmed(job[r].cfg)["enabled"] = job[r].cfg["enabled"] /\ ~ Disarmed(job[r].cfg)["armed"]
        /\ Disarmed(job[r].cfg) # NoEntry
    BY <1>0, DisarmedKeeps, NoEntryIsNoConfig
  <2>3. Stored' = Disarmed(job[r].cfg) /\ pc'[r] = "disarmed" /\ job'[r] = job[r]
    BY <1>0, <2>1, <2>2 DEF Land, Stored
  <2>4. ASSUME r \in Visits PROVE BackedThen(r)
    <3>1. r \in {v \in Visits : pc'[v] \notin Over}
      BY <2>3, <2>4 DEF Over
    <3>2. r \in IF job[r].cfg["enabled"] THEN calledFor' ELSE spared'
      BY <1>5, <2>2, <2>3, <3>1 DEF Observe
    <3> QED
      BY <2>3, <3>2
  <2> HIDE DEF BackedThen
  <2> QED
    BY <1>5, <1>m, <2>1, <2>4
<1>6. ASSUME Observe, NEW r \in Requests, Save(r) PROVE VerdictsAreBacked' /\ VerdictIsCurrent'
  <2>1. Goto(r, "saved") /\ UNCHANGED <<job, clock>>
    BY <1>6, <1>t DEF Save, Write
  <2> QED
    BY <1>6, <1>g, <2>1
<1>7. ASSUME Observe, NEW r \in Requests, Replay(r) PROVE VerdictsAreBacked' /\ VerdictIsCurrent'
  BY <1>7, <1>u DEF Replay, WritesHaveLanded
<1>8. ASSUME Observe, NEW r \in Requests, AfterDisarm(r) PROVE VerdictsAreBacked' /\ VerdictIsCurrent'
  <2>1. pc[r] = "disarmed" /\ Decide(r, Disarmed(job[r].cfg)) /\ UNCHANGED clock
    BY <1>8 DEF AfterDisarm
  <2>2. /\ Disarmed(job[r].cfg) \in Config
        /\ Disarmed(job[r].cfg)["enabled"] = job[r].cfg["enabled"] /\ ~ Disarmed(job[r].cfg)["armed"]
    BY <1>0, DisarmedKeeps
  <2>3. r \in Visits => r \in IF job[r].cfg["enabled"] THEN calledFor ELSE spared
    BY <1>s, <2>1
  <2>4. InForce(Disarmed(job[r].cfg)) <=> job[r].cfg["enabled"]
    BY <2>2 DEF InForce
  <2>5. r \in Visits => /\ InForce(Disarmed(job[r].cfg)) => r \in calledFor
                        /\ ~ InForce(Disarmed(job[r].cfg)) => r \in spared
    BY <2>3, <2>4
  <2> QED
    BY <1>8, <1>d, <2>1, <2>2, <2>5
<1>9. ASSUME Observe, NEW r \in Requests, AfterSave(r) PROVE VerdictsAreBacked' /\ VerdictIsCurrent'
  <2>1. Goto(r, "done") /\ UNCHANGED clock /\ \A x \in Requests \ {r} : job'[x] = job[x]
    BY <1>0, <1>9 DEF AfterSave, End
  <2> QED
    BY <1>9, <1>g, <2>1
<1>10. ASSUME Observe, NEW p \in Processes, Restart(p) PROVE VerdictsAreBacked' /\ VerdictIsCurrent'
  <2>1. ASSUME NEW v \in Visits PROVE BackedThen(v)
    <3>1. CASE pc'[v] = "dead"
      BY <3>1
    <3>2. CASE pc'[v] = pc[v] /\ job'[v] = job[v] /\ UNCHANGED clock
      <4> HIDE DEF BackedThen
      <4> QED
        BY <1>10, <1>k, <3>2
    <3>3. \/ pc'[v] = "dead"
          \/ pc'[v] = pc[v] /\ job'[v] = job[v] /\ UNCHANGED clock
      BY <1>0, <1>10 DEF Restart
    <3> HIDE DEF BackedThen
    <3> QED
      BY <3>1, <3>2, <3>3
  <2> HIDE DEF BackedThen
  <2> QED
    BY <1>f, <2>1
<1>11. CASE Expire
  BY <1>11, <1>t DEF Expire
<1>12. ASSUME Observe, Tick PROVE VerdictsAreBacked' /\ VerdictIsCurrent'
  <2>1. ASSUME NEW v \in Visits PROVE BackedThen(v)
    <3>1. pc'[v] = pc[v] /\ job'[v] = job[v] /\ (clock' = "before" => clock = "before")
      BY <1>12 DEF Tick, requests
    <3> HIDE DEF BackedThen
    <3> QED
      BY <1>12, <1>k, <3>1
  <2> HIDE DEF BackedThen
  <2> QED
    BY <1>f, <2>1
<1>13. CASE UNCHANGED vars
  BY <1>13, <1>f, <1>s DEF vars
<1> QED
  BY <1>1, <1>2, <1>3, <1>4, <1>5, <1>6, <1>7, <1>8, <1>9, <1>10, <1>11, <1>12, <1>13 DEF Next, Step
------------------------------------------------------------------------------
(* A fresh deployment satisfies the invariant. *)
LEMMA FreshIsSound == Init => IInv
<1> SUFFICES ASSUME Init PROVE IInv
  OBVIOUS
<1> USE RequestsAre DEF Init
<1>1. TypeOK
  <2>1. pc \in [Requests -> Label] /\ job \in [Requests -> Job]
    BY LookIsJob DEF Label, Over
  <2>2. /\ redis \in Config \cup {NoEntry} /\ fallback \in [Processes -> Config \cup {NoEntry}]
        /\ copy \in [Processes -> Config] /\ onList \in [Processes -> BOOLEAN]
        /\ intent \in Config
    BY OffIsConfig
  <2>3. troubles \in 0..MaxTroubles /\ restarts \in 0..MaxRestarts
    BY MaintenanceAssumption
  <2>4. toggled \in BOOLEAN /\ lost \in BOOLEAN
    OBVIOUS
  <2> QED
    BY <2>1, <2>2, <2>3, <2>4 DEF TypeOK, Label
<1>2. NothingToggled
  BY OffIsConfig, NothingIsPartial DEF NothingToggled, Look
<1>3. LateIsAfter /\ WindowEnds /\ AbsentIsUntouched /\ LostOnlyByOverlap
  BY DEF LateIsAfter, WindowEnds, AbsentIsUntouched, LostOnlyByOverlap, Stored
<1>4. OnlyAllowsIsCarried
  BY NothingIsPartial DEF OnlyAllowsIsCarried, Look
<1>5. \A r \in Requests : pc[r] = "idle"
  OBVIOUS
<1>6. WritesHaveLanded
  BY <1>5 DEF WritesHaveLanded
<1>7. ReadsAreCurrent
  BY <1>5 DEF ReadsAreCurrent, Reading
<1>8. VerdictsAreBacked /\ VerdictIsCurrent
  BY <1>5 DEF VerdictsAreBacked, VerdictIsCurrent
<1> QED
  BY <1>1, <1>2, <1>3, <1>4, <1>6, <1>7, <1>8 DEF IInv

THEOREM InvariantHolds == Spec => []IInv
<1>1. IInv /\ [Next]_vars => IInv'
  BY TypeIsKept, TogglesAreKept, WindowIsKept, CarriesAreKept, LandingsAreKept, ReadsAreKept,
     VerdictsAreKept DEF IInv
<1> QED
  BY <1>1, FreshIsSound, PTL DEF Spec

(* Every variable has its type, in every process, whatever fails. *)
THEOREM MaintenanceTypes == Spec => []TypeOK
<1>1. IInv => TypeOK
  BY DEF IInv
<1> QED
  BY <1>1, InvariantHolds, PTL

(* A visit that comes after the window is never refused on its account, for *)
(* any number of processes and failures: getConfig hands out no armed window *)
(* that is over, and nothing else than the toggle refuses.                   *)
THEOREM WindowAlwaysEnds == Spec => []WindowEnds
<1>1. IInv => WindowEnds
  BY DEF IInv
<1> QED
  BY <1>1, InvariantHolds, PTL

(* While Redis answers, what is stored is the sum of the changes made, unless *)
(* two requests have overlapped: setConfig writes back what it has read.      *)
THEOREM ChangesLostOnlyByOverlap == Spec => []LostOnlyByOverlap
<1>1. IInv => LostOnlyByOverlap
  BY DEF IInv
<1> QED
  BY <1>1, InvariantHolds, PTL

(* While Redis answers, nobody is refused under a configuration that was gone *)
(* when they came, nor let through while maintenance was on all along, for    *)
(* any number of visits, changes, processes and restarts: what getConfig      *)
(* returns was the stored configuration at some time since it was asked.      *)
THEOREM VerdictsAreCurrent == Spec => []VerdictIsCurrent
<1>1. IInv => VerdictIsCurrent
  BY DEF IInv
<1> QED
  BY <1>1, InvariantHolds, PTL
==============================================================================
