----------------------------- MODULE Maintenance -----------------------------
(***************************************************************************)
(* Maintenance mode: one configuration, kept in the failover cache and      *)
(* copied in every process by MaintenanceService; the middleware that asks  *)
(* it what to do with each visit; and the changes administrators make, as   *)
(* read-modify-write over the same key.                                     *)
(*                                                                          *)
(* A configuration is the admin toggle (enabled), whether the client of the *)
(* visits is on the allowlist (allows), and whether the one scheduled       *)
(* window is armed (armed). Its message and retryAfter are carried by the   *)
(* code and read by nothing that decides.                                   *)
(*                                                                          *)
(* A call that fails on Redis is replayed on the process's own fallback     *)
(* tier; a failed write may have been applied. Redis keeps the value for a  *)
(* day after its last read: Expire is the day without one.                  *)
(***************************************************************************)
EXTENDS CacheEntry, TLC

CONSTANTS
  Processes,   \* each with its MaintenanceService and its fallback tier
  Visits,      \* requests that go through the middleware
  Changes,     \* admin requests and commands that change the configuration
  Operations,  \* those of them that are asked for
  MaxTroubles, \* bound on the failures of Redis
  MaxRestarts  \* bound on the restarts of processes

ASSUME MaintenanceAssumption ==
  /\ Visits \cap Changes = {}
  /\ Operations \subseteq
       {"form", "put", "on", "off", "message", "clear", "schedule", "toggle", "allowIp", "removeIp"}
  /\ MaxTroubles \in Nat
  /\ MaxRestarts \in Nat

Requests == Visits \cup Changes

Fields == {"enabled", "allows", "armed"}

Config == [Fields -> BOOLEAN]

(* Some of the fields, as setConfig takes them, and none. *)
Partial == UNION {[some -> BOOLEAN] : some \in SUBSET Fields}

Nothing == [f \in {} |-> FALSE]

(* { ...config, ...changes } *)
Spread(config, changes) ==
  [f \in Fields |-> IF f \in DOMAIN changes THEN changes[f] ELSE config[f]]

Off == [f \in Fields |-> FALSE]

ASSUME NoEntryAssumption == NoEntry \notin Config

VARIABLES
  redis,       \* the stored configuration, or NoEntry
  fallback,    \* the same key in each process's own tier
  copy,        \* memoryConfig of each process
  onList,      \* cidrCache of each process has the client
  clock,       \* before, during or after the window
  pc,          \* where each request is
  at,          \* the process it runs on
  job          \* what it has to do: its kind, the fields it sets, those it
               \* has carried over, and the configuration it has in hand

(* History: what the properties compare the above with. *)
VARIABLES
  toggled,     \* the admin toggle has been set, or asked for
  intent,      \* the configuration if every change had been applied whole
  troubles,    \* how often Redis has failed a call or lost the value
  restarts,    \* how often a process has
  overlapped,  \* requests with another one's write since their first read
  lost,        \* an overlapped request has written
  late,        \* visits that arrived after the window
  calledFor,   \* visits during which the stored configuration asked for refusal
  spared       \* visits during which it let everyone through

service == <<redis, fallback, copy, onList>>
requests == <<pc, at, job>>
vars == <<redis, fallback, copy, onList, clock, pc, at, job,
          toggled, intent, troubles, restarts, overlapped, lost, late, calledFor, spared>>

(* What each operation asks of setConfig, and its kind: how often getConfig  *)
(* runs before the write, and which of the fields read first goes into it.  *)
JobsOf ==
  [form     |-> [kind : {"set"}, want : Config],
   put      |-> [kind : {"set"}, want : [{"enabled", "allows"} -> BOOLEAN]],
   on       |-> [kind : {"set"}, want : {w \in [{"enabled", "allows"} -> BOOLEAN] : w["enabled"]}],
   off      |-> [kind : {"set"}, want : [{"enabled"} -> {FALSE}]],
   message  |-> [kind : {"set"}, want : {Nothing}],
   clear    |-> [kind : {"set"}, want : [{"armed"} -> {FALSE}]],
   schedule |-> [kind : {"schedule"}, want : [{"armed"} -> {TRUE}]],
   toggle   |-> [kind : {"toggle"}, want : [{"enabled"} -> BOOLEAN]],
   allowIp  |-> [kind : {"editIps"}, want : [{"allows"} -> {TRUE}]],
   removeIp |-> [kind : {"editIps"}, want : [{"allows"} -> {FALSE}]]]

Jobs == UNION {JobsOf[o] : o \in Operations}

Job == [kind : {"look", "set", "schedule", "toggle", "editIps"},
        want : Partial, carry : Partial, cfg : Config]

(* A visit only looks. *)
Look == [kind |-> "look", want |-> Nothing, carry |-> Nothing, cfg |-> Off]

(* A fresh deployment: nothing has been stored yet. *)
Init ==
  /\ redis = NoEntry
  /\ fallback = [p \in Processes |-> NoEntry]
  /\ copy = [p \in Processes |-> Off]
  /\ onList = [p \in Processes |-> FALSE]
  /\ clock = "before"
  /\ pc = [r \in Requests |-> "idle"]
  /\ at \in [Requests -> Processes]
  /\ job = [r \in Requests |-> Look]
  /\ toggled = FALSE
  /\ intent = Off
  /\ troubles = 0 /\ restarts = 0
  /\ overlapped = {} /\ lost = FALSE
  /\ late = {} /\ calledFor = {} /\ spared = {}

Trouble == troubles < MaxTroubles /\ troubles' = troubles + 1

Goto(r, label) == pc' = [pc EXCEPT ![r] = label]

(* The request is answered, and what it had in hand is gone. *)
End(r, label) == Goto(r, label) /\ job' = [job EXCEPT ![r] = Look]

Over == {"idle", "listed", "passed", "exempt", "refused", "done", "dead"}
Reading == {"get", "getAgain", "refresh", "have"}
Writing == {"disarm", "disarmAgain", "disarmed", "save", "saveAgain", "saved"}

------------------------------------------------------------------------------
(* Reading *)

(* A visit consults the allowlist of the last configuration its process saw, *)
(* before it reads the current one.                                          *)
Visit(v) ==
  /\ pc[v] = "idle"
  /\ Goto(v, IF onList[at[v]] THEN "listed" ELSE "get")
  /\ late' = IF clock = "after" THEN late \cup {v} ELSE late
  /\ UNCHANGED <<service, clock, at, job, toggled, intent, troubles, restarts, overlapped, lost>>

Ask(c) ==
  /\ pc[c] = "idle"
  /\ \E j \in Jobs :
       /\ job' = [job EXCEPT ![c] = [kind |-> j.kind, want |-> j.want, carry |-> Nothing, cfg |-> Off]]
       /\ toggled' = (toggled \/ ("enabled" \in DOMAIN j.want /\ j.want["enabled"]))
  /\ Goto(c, "get")
  /\ UNCHANGED <<service, clock, at, intent, troubles, restarts, overlapped, lost, late>>

(* Deviation: an absent value is taken for a configuration. *)
ReadAnything(r, e) ==
  /\ job' = [job EXCEPT ![r].cfg = e]
  /\ Goto(r, "refresh")
  /\ UNCHANGED <<service, clock, at, toggled, intent, restarts, overlapped, lost, late>>

(* readStoredConfig: the value of the tier that answers, whose absence      *)
(* leaves the process's copy.                                               *)
Read(r, e) ==
  /\ IF e = NoEntry
     THEN job' = [job EXCEPT ![r].cfg = copy[at[r]]] /\ Goto(r, "have")
     ELSE job' = [job EXCEPT ![r].cfg = e] /\ Goto(r, "refresh")
  /\ UNCHANGED <<service, clock, at, toggled, intent, restarts, overlapped, lost, late>>

Get(r) ==
  /\ pc[r] \in {"get", "getAgain"}
  /\ \/ Read(r, redis) /\ UNCHANGED troubles
     \/ Read(r, fallback[at[r]]) /\ Trouble

Expired(c) == c["armed"] /\ clock = "after"

(* Deviation: the window is not folded in. *)
ToggleOnly(c) == c["enabled"]

(* foldSchedule: it looks at the start of the window only. *)
InForce(c) == c["enabled"] \/ (c["armed"] /\ clock # "before")

(* The middleware's verdict: an exempt path or an admin gets through. *)
Judge(r, c) ==
  /\ job[r].kind = "look"
  /\ IF InForce(c) THEN \E label \in {"refused", "exempt"} : End(r, label)
                   ELSE End(r, "passed")

(* setConfig is called, and reads the configuration once more: only what the *)
(* caller has carried over is left of the first read.                       *)
SetConfig(r, carry) ==
  /\ job' = [job EXCEPT ![r] = [kind |-> "set", want |-> @.want, carry |-> carry, cfg |-> Off]]
  /\ Goto(r, "getAgain")

Toggle(r, c) ==
  /\ job[r].kind = "toggle"
  /\ SetConfig(r, [f \in {"allows"} |-> c[f]])

Schedule(r) ==
  /\ job[r].kind = "schedule"
  /\ SetConfig(r, Nothing)

EditIps(r, c) ==
  /\ job[r].kind = "editIps"
  /\ IF c["allows"] = job[r].want["allows"] THEN End(r, "done") ELSE SetConfig(r, Nothing)

(* setConfig has read, and goes on to persist. *)
Prepare(r, c) ==
  /\ job[r].kind = "set"
  /\ job' = [job EXCEPT ![r].cfg = c]
  /\ Goto(r, "save")

(* Whoever called getConfig has the configuration c. *)
Decide(r, c) ==
  Judge(r, c) \/ Toggle(r, c) \/ Schedule(r) \/ EditIps(r, c) \/ Prepare(r, c)

(* getConfig has its answer: the allowlist is taken from it, and an armed   *)
(* window that is over is disarmed first.                                   *)
Take(r) ==
  /\ onList' = [onList EXCEPT ![at[r]] = job[r].cfg["allows"]]
  /\ IF Expired(job[r].cfg) THEN Goto(r, "disarm") /\ UNCHANGED job
                            ELSE Decide(r, job[r].cfg)
  /\ UNCHANGED <<fallback, copy, clock, at, toggled, intent, troubles, restarts, overlapped, lost, late>>

TakeCopy(r) ==
  /\ pc[r] = "have"
  /\ Take(r)
  /\ UNCHANGED redis

(* Deviation: the time to live is renewed by writing the value again. *)
RefreshBlindly(r) ==
  /\ pc[r] = "refresh"
  /\ redis' = job[r].cfg
  /\ Take(r)

(* compareAndSet of the value on itself renews its time to live and changes *)
(* nothing else, on whichever tier, so that it takes effect as its answer   *)
(* arrives; a failure is no trouble here.                                   *)
Refresh(r) ==
  /\ pc[r] = "refresh"
  /\ redis' = IF redis = job[r].cfg THEN job[r].cfg ELSE redis
  /\ Take(r)

------------------------------------------------------------------------------
(* Writing: writeStoredConfig, then the rest of persistConfig *)

Disarmed(c) == [c EXCEPT !["armed"] = FALSE]

(* setConfig: what is asked for, what toggle has added to it, the rest. *)
Merge(r, c) == Spread(Spread(c, job[r].carry), job[r].want)

(* What the administrator wants to find stored. *)
Intended(r) == Spread(intent, job[r].want)

(* Redis takes the configuration c of request r, to the effect i on intent. *)
Land(r, c, i) ==
  /\ redis' = c
  /\ intent' = i
  /\ overlapped' = overlapped \cup {s \in Requests \ {r} : pc[s] \notin Over \cup {"get"}}
  /\ lost' = (lost \/ r \in overlapped)

(* The failing call is replayed on the fallback tier, applied or not. *)
Write(r, c, i, done, again) ==
  \/ Land(r, c, i) /\ Goto(r, done) /\ UNCHANGED troubles
  \/ /\ Trouble
     /\ Goto(r, again)
     /\ Land(r, c, i) \/ UNCHANGED <<redis, intent, overlapped, lost>>

(* autoDisableSchedule writes the whole configuration it has read. *)
Disarm(r) ==
  /\ pc[r] = "disarm"
  /\ Write(r, Disarmed(job[r].cfg), Disarmed(intent), "disarmed", "disarmAgain")
  /\ UNCHANGED <<fallback, copy, onList, clock, at, job, toggled, restarts, late>>

Save(r) ==
  /\ pc[r] = "save"
  /\ Write(r, Merge(r, job[r].cfg), Intended(r), "saved", "saveAgain")
  /\ UNCHANGED <<fallback, copy, onList, clock, at, job, toggled, restarts, late>>

Replay(r) ==
  /\ \/ /\ pc[r] = "disarmAgain"
        /\ fallback' = [fallback EXCEPT ![at[r]] = Disarmed(job[r].cfg)]
        /\ Goto(r, "disarmed")
     \/ /\ pc[r] = "saveAgain"
        /\ fallback' = [fallback EXCEPT ![at[r]] = Merge(r, job[r].cfg)]
        /\ Goto(r, "saved")
  /\ UNCHANGED <<redis, copy, onList, clock, at, job, toggled, intent, troubles, restarts, overlapped, lost, late>>

Keep(r, c) ==
  /\ copy' = [copy EXCEPT ![at[r]] = c]
  /\ onList' = [onList EXCEPT ![at[r]] = c["allows"]]

(* Deviation: autoDisableSchedule returns the configuration it was given. *)
AfterDisarmUncleared(r) ==
  /\ pc[r] = "disarmed"
  /\ Keep(r, Disarmed(job[r].cfg))
  /\ Decide(r, job[r].cfg)
  /\ UNCHANGED <<redis, fallback, clock, at, toggled, intent, troubles, restarts, overlapped, lost, late>>

AfterDisarm(r) ==
  /\ pc[r] = "disarmed"
  /\ Keep(r, Disarmed(job[r].cfg))
  /\ Decide(r, Disarmed(job[r].cfg))
  /\ UNCHANGED <<redis, fallback, clock, at, toggled, intent, troubles, restarts, overlapped, lost, late>>

AfterSave(r) ==
  /\ pc[r] = "saved"
  /\ Keep(r, Merge(r, job[r].cfg))
  /\ End(r, "done")
  /\ UNCHANGED <<redis, fallback, clock, at, toggled, intent, troubles, restarts, overlapped, lost, late>>

------------------------------------------------------------------------------
(* The world around *)

(* initializeMemoryFallback: the stored value, or the safe default when     *)
(* there is none or Redis does not answer.                                  *)
Remembered(p) ==
  \/ redis # NoEntry /\ copy' = [copy EXCEPT ![p] = redis] /\ UNCHANGED troubles
  \/ redis = NoEntry /\ copy' = [copy EXCEPT ![p] = Off] /\ UNCHANGED troubles
  \/ copy' = [copy EXCEPT ![p] = Off] /\ Trouble

(* A process dies with what it was serving, and starts again. *)
Restart(p) ==
  /\ restarts < MaxRestarts /\ restarts' = restarts + 1
  /\ Remembered(p)
  /\ fallback' = [fallback EXCEPT ![p] = NoEntry]
  /\ onList' = [onList EXCEPT ![p] = FALSE]
  /\ LET dead == {r \in Requests : at[r] = p /\ pc[r] \notin Over}
     IN /\ pc' = [r \in Requests |-> IF r \in dead THEN "dead" ELSE pc[r]]
        /\ job' = [r \in Requests |-> IF r \in dead THEN Look ELSE job[r]]
  /\ UNCHANGED <<redis, clock, at, toggled, intent, overlapped, lost, late>>

(* A day without a read. *)
Expire ==
  /\ redis # NoEntry
  /\ redis' = NoEntry
  /\ Trouble
  /\ UNCHANGED <<fallback, copy, onList, clock, requests, toggled, intent, restarts, overlapped, lost, late>>

Tick ==
  /\ \/ clock = "before" /\ clock' = "during"
     \/ clock = "during" /\ clock' = "after"
  /\ UNCHANGED <<service, requests, toggled, intent, troubles, restarts, overlapped, lost, late>>

(* What every visit in progress has seen pass in the store. *)
Stored == IF redis = NoEntry THEN Off ELSE redis

Observe ==
  LET watching == {v \in Visits : pc'[v] \notin Over}
  IN /\ calledFor' = calledFor \cup
          (IF Stored'["enabled"] \/ Stored'["armed"] THEN watching ELSE {})
     /\ spared' = spared \cup
          (IF Stored'["enabled"] \/ (Stored'["armed"] /\ clock' = "during") THEN {} ELSE watching)

Step(r) ==
  \/ Get(r) \/ Refresh(r) \/ TakeCopy(r)
  \/ Disarm(r) \/ AfterDisarm(r) \/ Save(r) \/ AfterSave(r) \/ Replay(r)

Next ==
  /\ \/ \E v \in Visits : Visit(v)
     \/ \E c \in Changes : Ask(c)
     \/ \E r \in Requests : Step(r)
     \/ \E p \in Processes : Restart(p)
     \/ Expire
     \/ Tick
  /\ Observe

Spec == Init /\ [][Next]_vars

------------------------------------------------------------------------------
(* Properties *)

(* Processes are alike, and so are visits and changes. *)
Symmetry == Permutations(Processes) \cup Permutations(Visits) \cup Permutations(Changes)

(* Every variable has its type. *)
TypeOK ==
  /\ redis \in Config \cup {NoEntry}
  /\ fallback \in [Processes -> Config \cup {NoEntry}]
  /\ copy \in [Processes -> Config]
  /\ onList \in [Processes -> BOOLEAN]
  /\ clock \in {"before", "during", "after"}
  /\ pc \in [Requests -> Over \cup Reading \cup Writing]
  /\ at \in [Requests -> Processes]
  /\ job \in [Requests -> Job]
  /\ toggled \in BOOLEAN
  /\ intent \in Config
  /\ troubles \in 0..MaxTroubles /\ restarts \in 0..MaxRestarts
  /\ overlapped \subseteq Requests
  /\ lost \in BOOLEAN
  /\ late \subseteq Visits /\ calledFor \subseteq Visits /\ spared \subseteq Visits

(* While Redis answers, a change is lost only by an overlap: a request that  *)
(* wrote although another had written since its first read. Neither reads,   *)
(* which renew the entry, nor restarts, nor a toggle between its two reads,  *)
(* undo what an administrator has set.                                       *)
LostOnlyByOverlap ==
  troubles = 0 /\ ~ lost => Stored = intent

(* While Redis answers, a visit is judged by a configuration that was stored  *)
(* during the visit: it is not refused under one that was gone when it came,  *)
(* nor let through by the configuration when maintenance was on all along.    *)
VerdictIsCurrent ==
  troubles = 0 => \A v \in Visits :
    /\ pc[v] \in {"refused", "exempt"} => v \in calledFor
    /\ pc[v] = "passed" => v \in spared

(* A visit that comes after the window is never refused on its account, even *)
(* though foldSchedule does not look at its end: on whichever tier or copy   *)
(* the armed window survived, and whoever else disarms it meanwhile, getConfig *)
(* has disarmed it first. With the toggle never set, such a visit goes through. *)
WindowEnds ==
  ~ toggled => \A v \in late : pc[v] \notin {"refused", "exempt"}
==============================================================================
