-------------------------------- MODULE Cron --------------------------------
(* The scheduler of the agent (ai_agent/src/infra/cron_service.c): the table *)
(* of jobs with its lock and its file, the thread that fires what is due,    *)
(* the agent loop that adds and removes jobs (tool_cron.c, /remind in        *)
(* agent_loop.c), and the main thread that starts it, stops it and, when the *)
(* program is run again, loads the file and starts it once more.             *)
(*                                                                           *)
(* The thread holds s_cron_lock from "scan" to the end of a pass, tools and  *)
(* full queues included, while time passes; what the others do under the     *)
(* lock is one step.  What a firing does is left out.  The file is in a file *)
(* system in memory, so it is lost with the table when the board resets.     *)
EXTENDS Naturals, Sequences, SequencesExt

CONSTANTS
  MaxJobs,      \* MAX_CRON_JOBS
  Delays,       \* seconds in the schedules of jobs, after truncation to an integer
  Fits,         \* as many jobs as cron.json holds within AGENT_CRON_FILE_MAX_SIZE,
                \* however long their texts are
  Lag,          \* how far the clock is behind until somebody sets it
  Horizon,      \* bound: when time ends
  MaxMade,      \* bound: jobs in one behaviour
  MaxRestarts   \* bound: times the program is run again

ASSUME CronAssumption ==
  /\ {MaxJobs, Fits, Lag, Horizon, MaxMade, MaxRestarts} \subseteq Nat
  /\ Delays \subseteq Nat
  /\ Lag < Horizon

VARIABLES
  jobs,      \* s_jobs[0..s_job_count - 1]
  saved,     \* the jobs in cron.json
  running,   \* s_cron_running
  cpc,       \* where the cron thread is
  now,       \* the time it goes by in a pass
  idx,       \* the job it looks at
  changed,   \* whether it changed one
  apc,       \* where the agent is
  order,     \* the job it wants to add
  mpc,       \* where the main thread is
  elapsed,   \* the true time
  lag,       \* how far the clock is behind it
  made,      \* history: the number of jobs asked for
  fired,     \* history: the jobs that have fired
  served,    \* history: those that have fired in this pass
  refused,   \* history: what was in the file that was last refused, if any
  started,   \* history: the time the scheduler was started at
  restarts   \* history: how often the program was run again

cron  == <<cpc, now, idx, changed>>
agent == <<apc, order>>
time  == <<elapsed, lag>>
past  == <<made, fired, served>>
life  == <<mpc, running, started, restarts, refused>>
vars  == <<jobs, saved, cron, agent, time, past, life>>

Ids  == 1..MaxMade
Time == 0..Horizon
Job  == [id : Ids, kind : {"every", "at"}, when : Nat, delete : BOOLEAN,
         enabled : BOOLEAN, next : Nat, last : Nat]
NoJob == [id |-> 0]

TypeOK ==
  /\ jobs \in Seq(Job) /\ Len(jobs) <= MaxJobs
  /\ saved \in Seq(Job) /\ Len(saved) <= MaxJobs
  /\ running \in BOOLEAN /\ changed \in BOOLEAN
  /\ cpc \in {"gone", "top", "wait", "due", "scan", "firing"}
  /\ now \in Time
  /\ idx \in Nat /\ (cpc = "firing" => idx \in DOMAIN jobs)
  /\ apc \in {"idle", "lock"} /\ order \in Job \cup {NoJob}
  /\ mpc \in {"loaded", "create", "down", "up", "stopped"}
  /\ elapsed \in (Lag + 1)..Horizon /\ lag \in {0, Lag}
  /\ made \in 0..MaxMade
  /\ fired \subseteq Ids /\ served \subseteq Ids
  /\ refused \in Seq(Job)
  /\ started \in Time /\ restarts \in 0..MaxRestarts

Init ==
  /\ jobs = <<>> /\ saved = <<>> /\ running = FALSE
  /\ cpc = "gone" /\ now = 0 /\ idx = 1 /\ changed = FALSE
  /\ apc = "idle" /\ order = NoJob
  /\ mpc = "loaded"
  /\ elapsed = Lag + 1 /\ lag = Lag
  /\ made = 0 /\ fired = {} /\ served = {} /\ refused = <<>>
  /\ started = 0 /\ restarts = 0

-----------------------------------------------------------------------------
(* What time() returns.  An NTP client, tool_get_time and vela_tls set it.   *)
Clock == elapsed - lag

Tick ==
  /\ elapsed < Horizon
  /\ elapsed' = elapsed + 1
  /\ UNCHANGED <<jobs, saved, cron, agent, lag, past, life>>

SetClock ==
  /\ lag > 0
  /\ lag' = 0
  /\ UNCHANGED <<jobs, saved, cron, agent, elapsed, past, life>>

Locked == cpc \in {"scan", "firing"}

-----------------------------------------------------------------------------
(* The cron thread: cron_task_main and cron_process_due_jobs.                *)
Top ==
  /\ cpc = "top"
  /\ cpc' = IF running THEN "wait" ELSE "gone"
  /\ UNCHANGED <<jobs, saved, now, idx, changed, agent, time, past, life>>

(* The wait ends, by time or by a signal; the time is read before the lock   *)
(* is taken.                                                                 *)
Wake ==
  /\ cpc = "wait"
  /\ cpc' = "due"
  /\ now' = Clock
  /\ UNCHANGED <<jobs, saved, idx, changed, agent, time, past, life>>

BeginPass ==
  /\ cpc = "due"
  /\ cpc' = "scan"
  /\ UNCHANGED <<jobs, saved, now, idx, changed, agent, time, past, life>>

Due(job) == job.enabled /\ job.next > 0 /\ job.next <= now

Skip ==
  /\ cpc = "scan" /\ idx \in DOMAIN jobs
  /\ ~Due(jobs[idx])
  /\ idx' = idx + 1
  /\ UNCHANGED <<jobs, saved, cpc, now, changed, agent, time, past, life>>

(* cron_fire_job: an action is executed, a message is pushed.                *)
Fire ==
  /\ cpc = "scan" /\ idx \in DOMAIN jobs
  /\ Due(jobs[idx])
  /\ cpc' = "firing"
  /\ fired' = fired \cup {jobs[idx].id}
  /\ served' = served \cup {jobs[idx].id}
  /\ UNCHANGED <<jobs, saved, now, idx, changed, agent, time, made, life>>

(* Mutant of Settle: a one-shot job that is kept stays enabled.              *)
KeepEnabled(job) ==
  IF job.kind = "at" THEN job
                     ELSE [job EXCEPT !.next = now + job.when, !.last = now]

(* What becomes of a job that has fired and is kept.                         *)
Settle(job) ==
  IF job.kind = "at" THEN [job EXCEPT !.enabled = FALSE, !.next = 0, !.last = now]
                     ELSE [job EXCEPT !.next = now + job.when, !.last = now]

(* Mutant of Fired: the index is not taken back when the jobs move up.       *)
FiredAndPassOver ==
  /\ cpc = "firing"
  /\ cpc' = "scan"
  /\ jobs' = IF jobs[idx].delete THEN RemoveAt(jobs, idx)
             ELSE [jobs EXCEPT ![idx] = Settle(@)]
  /\ idx' = idx + 1
  /\ changed' = TRUE
  /\ UNCHANGED <<saved, now, agent, time, past, life>>

(* Mutant of Fired: the index stays at a job that is due again.              *)
FiredAgain ==
  /\ cpc = "firing"
  /\ cpc' = "scan"
  /\ IF jobs[idx].kind = "at" /\ jobs[idx].delete
       THEN jobs' = RemoveAt(jobs, idx) /\ UNCHANGED idx
       ELSE /\ jobs' = [jobs EXCEPT ![idx] = Settle(@)]
            /\ idx' = IF Due(jobs'[idx]) THEN idx ELSE idx + 1
  /\ changed' = TRUE
  /\ UNCHANGED <<saved, now, agent, time, past, life>>

(* Mutant of Fired: the deletion of a job is not noted.                      *)
FiredUnnoted ==
  /\ cpc = "firing"
  /\ cpc' = "scan"
  /\ IF jobs[idx].kind = "at" /\ jobs[idx].delete
       THEN jobs' = RemoveAt(jobs, idx) /\ UNCHANGED <<idx, changed>>
       ELSE jobs' = [jobs EXCEPT ![idx] = Settle(@)] /\ idx' = idx + 1 /\ changed' = TRUE
  /\ UNCHANGED <<saved, now, agent, time, past, life>>

(* After the firing.  Only one-shot jobs are ever deleted.                   *)
Fired ==
  /\ cpc = "firing"
  /\ cpc' = "scan"
  /\ IF jobs[idx].kind = "at" /\ jobs[idx].delete
       THEN jobs' = RemoveAt(jobs, idx) /\ UNCHANGED idx
       ELSE jobs' = [jobs EXCEPT ![idx] = Settle(@)] /\ idx' = idx + 1
  /\ changed' = TRUE
  /\ UNCHANGED <<saved, now, agent, time, past, life>>

EndPass ==
  /\ cpc = "scan" /\ idx > Len(jobs)
  /\ saved' = IF changed THEN jobs ELSE saved
  /\ cpc' = "top"
  /\ now' = 0 /\ idx' = 1 /\ changed' = FALSE
  /\ served' = {}
  /\ UNCHANGED <<jobs, agent, time, made, fired, life>>

CronThread == Top \/ Wake \/ BeginPass \/ Skip \/ Fire \/ Fired \/ EndPass

-----------------------------------------------------------------------------
(* The agent: a schedule is made and checked against the clock.  An interval *)
(* must be positive before its fraction is cut off, and may be 0 then; a     *)
(* time must be in the future after that.                                    *)
Ask ==
  /\ apc = "idle" /\ mpc \in {"up", "down"} /\ made < MaxMade
  /\ \E kind \in {"every", "at"}, delay \in Delays, delete \in BOOLEAN :
       /\ kind = "every" => ~delete
       /\ kind = "at" => delay > 0
       /\ order' = [id |-> made + 1, kind |-> kind, delete |-> delete,
                    when |-> IF kind = "at" THEN Clock + delay ELSE delay,
                    enabled |-> TRUE, next |-> 0, last |-> 0]
  /\ made' = made + 1
  /\ apc' = "lock"
  /\ UNCHANGED <<jobs, saved, cron, time, fired, served, life>>

(* compute_initial_next_run: by the time the lock is free, the time of a job *)
(* may have passed.                                                          *)
Scheduled(job) ==
  IF job.kind = "every" THEN [job EXCEPT !.next = Clock + job.when]
  ELSE IF job.when > Clock THEN [job EXCEPT !.next = job.when]
  ELSE [job EXCEPT !.enabled = FALSE]

(* cron_add_job.                                                             *)
Add ==
  /\ apc = "lock" /\ ~Locked
  /\ apc' = "idle"
  /\ order' = NoJob
  /\ IF Len(jobs) < MaxJobs
       THEN jobs' = Append(jobs, Scheduled(order)) /\ saved' = jobs'
       ELSE UNCHANGED <<jobs, saved>>
  /\ UNCHANGED <<cron, time, past, life>>

(* Mutant of RemoveJob: the lock is not taken.                               *)
RemoveUnlocked ==
  /\ apc = "idle" /\ mpc \in {"up", "down"}
  /\ \E i \in DOMAIN jobs : jobs' = RemoveAt(jobs, i)
  /\ saved' = jobs'
  /\ UNCHANGED <<cron, agent, time, past, life>>

(* cron_remove_job of a job there is; the removal of another has no effect.  *)
RemoveJob ==
  /\ apc = "idle" /\ mpc \in {"up", "down"} /\ ~Locked
  /\ \E i \in DOMAIN jobs : jobs' = RemoveAt(jobs, i)
  /\ saved' = jobs'
  /\ UNCHANGED <<cron, agent, time, past, life>>

-----------------------------------------------------------------------------
Stale(job) == job.next > 0 /\ job.next <= Clock

(* What cron_service_start makes of an enabled job.                          *)
Revived(job) ==
  IF Stale(job) THEN [job EXCEPT !.enabled = FALSE, !.next = 0]
  ELSE IF job.next > 0 THEN job
  ELSE IF job.kind = "every" THEN [job EXCEPT !.next = Clock + job.when]
  ELSE IF job.when > Clock THEN [job EXCEPT !.next = job.when]
  ELSE job

(* cron_service_start, by agent_main or, after it failed, by the command     *)
(* cron_start.                                                               *)
Start ==
  /\ mpc \in {"loaded", "down"} /\ ~Locked
  /\ jobs' = [i \in DOMAIN jobs |-> IF jobs[i].enabled THEN Revived(jobs[i])
                                                       ELSE jobs[i]]
  /\ saved' = IF \E i \in DOMAIN jobs : jobs[i].enabled /\ Stale(jobs[i])
                THEN jobs' ELSE saved
  /\ running' = TRUE
  /\ started' = Clock
  /\ mpc' = "create"
  /\ UNCHANGED <<cron, agent, time, past, restarts, refused>>

CreateTask ==
  /\ mpc = "create"
  /\ \/ cpc' = "top" /\ mpc' = "up" /\ UNCHANGED running
     \/ mpc' = "down" /\ running' = FALSE /\ UNCHANGED cpc
  /\ UNCHANGED <<jobs, saved, now, idx, changed, agent, time, past, started, restarts, refused>>

(* The program ends.                                                         *)
Stop ==
  /\ mpc \in {"up", "down"}
  /\ running' = FALSE
  /\ mpc' = "stopped"
  /\ UNCHANGED <<jobs, saved, cron, agent, time, past, started, restarts, refused>>

(* It is run again, after its threads have ended: cron_load_jobs.  A file    *)
(* over 8 KB is not read, though cron_save_jobs writes one of any size; how  *)
(* long the texts of the jobs are is not modelled.                           *)
Restart ==
  /\ mpc = "stopped" /\ restarts < MaxRestarts
  /\ cpc = "gone" /\ apc = "idle"
  /\ \/ jobs' = saved /\ UNCHANGED refused
     \/ Len(saved) > Fits /\ jobs' = <<>> /\ refused' = saved
  /\ mpc' = "loaded"
  /\ restarts' = restarts + 1
  /\ UNCHANGED <<saved, cron, agent, time, past, running, started>>

Next ==
  \/ Tick \/ SetClock
  \/ CronThread
  \/ Ask \/ Add \/ RemoveJob
  \/ Start \/ CreateTask \/ Stop \/ Restart

(* The cron thread runs when it can: its wait is timed, and pushing and the  *)
(* tools come to an end.                                                     *)
Spec == Init /\ [][Next]_vars

FairSpec == Spec /\ WF_vars(CronThread)

-----------------------------------------------------------------------------
Fires(id) == cpc = "scan" /\ cpc' = "firing" /\ jobs[idx].id = id

(* A one-shot job fires at most once, whatever is deleted, moved up, saved   *)
(* and loaded in between, and two firings of a recurring job are for passes  *)
(* at least its interval apart, although the next time is computed from a    *)
(* clock that was read before the lock was taken and that is set meanwhile.  *)
Paced ==
  [][\A id \in Ids : Fires(id) /\ id \in fired =>
       /\ jobs[idx].kind = "every"
       /\ now >= jobs[idx].last + jobs[idx].when]_vars

(* A recurring job whose interval was cut off to 0 is due all the time.      *)
Restless(job) == job.kind = "every" /\ job.when = 0

(* A job whose time came while the scheduler was down, by the clock it was   *)
(* started with, does not fire afterwards (the comment on stale jobs in      *)
(* cron_service_start); a restless one may be due from that second on.       *)
StaleNeverFires ==
  [][\A id \in Ids : Fires(id) =>
       \/ jobs[idx].next > started
       \/ Restless(jobs[idx]) /\ jobs[idx].next = started]_vars

(* A job fires when its time has come and only for that time.                *)
FiresInTime == Paced /\ StaleNeverFires

(* A pass fires all that was due when it began, although jobs move up in the *)
(* table when one is deleted, and others are added between the reading of    *)
(* the clock and the lock.  What is still due at its end has fired in it,    *)
(* and is due again at once because its interval is 0.                       *)
PassComplete ==
  cpc = "scan" /\ idx > Len(jobs) =>
    \A i \in DOMAIN jobs : Due(jobs[i]) => jobs[i].id \in served /\ Restless(jobs[i])

(* Between passes the file says what the table says: whoever runs the        *)
(* program again finds every job it had, and none that fired or was removed, *)
(* unless the file is too large to be read.  Then the table is empty, and    *)
(* the file still there, until the next change overwrites it.                *)
FileFollows == ~Locked => saved = jobs \/ (saved = refused /\ jobs = <<>>)

(* What is due fires, or is removed, while the scheduler runs.               *)
Overdue(id) ==
  /\ mpc = "up"
  /\ \E i \in DOMAIN jobs : jobs[i].id = id /\ jobs[i].enabled /\ jobs[i].next \in 1..Clock
Firing(id) == cpc = "firing" /\ jobs[idx].id = id
DueFires == \A id \in Ids : Overdue(id) ~> Firing(id) \/ ~Overdue(id)
=============================================================================
