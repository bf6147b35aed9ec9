---------------------------- MODULE Agent_proofs ----------------------------
(* Theorems about two parts of the agent that share nothing: about Cron, for *)
(* tables of any size, any number of jobs and restarts, and a clock that may *)
(* be set once; and about AgentTurn (TurnSpec), for any backends, questions, *)
(* limits and sizes of the cache.                                            *)
EXTENDS Cron, AgentTurn, FiniteSetTheorems, TLAPS

LEMMA ConcatSeq ==
  ASSUME NEW S, NEW a \in Seq(S), NEW b \in Seq(S)
  PROVE  /\ a \o b \in Seq(S)
         /\ Len(a \o b) = Len(a) + Len(b)
         /\ \A i \in 1..(Len(a) + Len(b)) :
              (a \o b)[i] = IF i <= Len(a) THEN a[i] ELSE b[i - Len(a)]
OBVIOUS

LEMMA RemoveAtSeq ==
  ASSUME NEW S, NEW s \in Seq(S), NEW n \in 1..Len(s)
  PROVE  /\ RemoveAt(s, n) \in Seq(S)
         /\ Len(RemoveAt(s, n)) = Len(s) - 1
         /\ \A i \in 1..(Len(s) - 1) :
              RemoveAt(s, n)[i] = IF i < n THEN s[i] ELSE s[i + 1]
<1> DEFINE a == SubSeq(s, 1, n - 1)
           b == SubSeq(s, n + 1, Len(s))
<1>1. a \in Seq(S) /\ Len(a) = n - 1 /\ \A i \in 1..(n - 1) : a[i] = s[i]
      OBVIOUS
<1>2. b \in Seq(S) /\ Len(b) = Len(s) - n /\ \A i \in 1..(Len(s) - n) : b[i] = s[n + i]
      OBVIOUS
<1>3. RemoveAt(s, n) = a \o b
      BY DEF RemoveAt
<1>4. Len(s) \in Nat
      OBVIOUS
<1> HIDE DEF a, b
<1>5. a \o b \in Seq(S) /\ Len(a \o b) = Len(a) + Len(b)
      BY <1>1, <1>2, ConcatSeq
<1>6. \A i \in 1..(Len(a) + Len(b)) :
        (a \o b)[i] = IF i <= Len(a) THEN a[i] ELSE b[i - Len(a)]
      BY <1>1, <1>2, ConcatSeq
<1>7. ASSUME NEW i \in 1..(Len(s) - 1)
      PROVE  (a \o b)[i] = IF i < n THEN s[i] ELSE s[i + 1]
  <2>0. i < n \/ ~(i < n)
        OBVIOUS
  <2>1. CASE i < n
        BY <1>1, <1>2, <1>4, <1>6, <2>1
  <2>2. CASE ~(i < n)
    <3>0. i >= n
          BY <1>4, <2>2
    <3>1. (a \o b)[i] = b[i - (n - 1)]
          BY <1>1, <1>2, <1>4, <1>6, <3>0
    <3>2. i - (n - 1) \in 1..(Len(s) - n) /\ n + (i - (n - 1)) = i + 1
          BY <1>4, <3>0
    <3>3. QED
          BY <1>2, <2>2, <3>1, <3>2
  <2>3. QED
        BY <2>0, <2>1, <2>2
<1>8. Len(a \o b) = Len(s) - 1
      BY <1>1, <1>2, <1>4, <1>5
<1>9. QED
      BY <1>3, <1>5, <1>7, <1>8

-----------------------------------------------------------------------------
(* The inductive invariant.  No two jobs have one id, and a job that waits   *)
(* for the lock has an id of its own.                                        *)
Distinct ==
  /\ \A i, j \in DOMAIN jobs : jobs[i].id = jobs[j].id => i = j
  /\ \A i \in DOMAIN jobs : jobs[i].id <= made /\ (apc = "lock" => jobs[i].id # made)
  /\ \A id \in fired : id <= made
  /\ apc = "lock" => /\ order \in Job /\ order.id = made /\ made \notin fired
                     /\ order.enabled /\ order.next = 0

(* The thread is gone before the scheduler starts, and goes by a time that   *)
(* is not before the start.  Between passes it has changed nothing.          *)
Begun ==
  /\ mpc \in {"loaded", "create", "down"} => cpc = "gone"
  /\ started <= Clock
  /\ cpc \in {"due", "scan", "firing"} => now >= started /\ now > 0
  /\ ~Locked => idx = 1 /\ ~changed

(* A job that is enabled has a time, after the start of the scheduler, or in *)
(* the second of it if the job is restless.                                  *)
After(job) == job.next > started \/ (Restless(job) /\ job.next = started)
Awaited(job) ==
  job.enabled => job.next > 0 /\ (mpc # "loaded" => After(job))

(* A job that has fired and is enabled rests for its interval.               *)
Rested(job) ==
  job.enabled /\ job.id \in fired => job.kind = "every" /\ job.next = job.last + job.when

(* What is still due has fired in this pass.                                 *)
Passed(job) == Due(job) => job.id \in served /\ Restless(job)

Table ==
  /\ cpc = "firing" => jobs[idx].id \in served
  /\ \A i \in DOMAIN jobs :
       /\ Awaited(jobs[i])
       /\ Rested(jobs[i]) \/ (cpc = "firing" /\ i = idx)
       /\ Locked /\ i < idx => Passed(jobs[i])

(* A file that was refused holds jobs that may be loaded later.              *)
Reloads(list) ==
  /\ \A i, j \in DOMAIN list : list[i].id = list[j].id => i = j
  /\ \A i \in DOMAIN list : /\ list[i].id <= made
                            /\ apc = "lock" => list[i].id # made
                            /\ list[i].enabled => list[i].next > 0
                            /\ Rested(list[i])

File == saved = jobs \/ changed \/ (jobs = <<>> /\ saved = refused /\ Reloads(saved))

IInv == TypeOK /\ Distinct /\ Begun /\ Table /\ File

-----------------------------------------------------------------------------
(* The clock is a time, and not the beginning of it.                         *)
LEMMA ClockTime ==
  ASSUME TypeOK
  PROVE  Clock \in Time /\ Time \subseteq Nat /\ Clock > 0
BY CronAssumption DEF TypeOK, Clock, Time

(* The file is left as it was.                                               *)
LEMMA FileSame ==
  ASSUME File, UNCHANGED <<jobs, saved, changed, refused, made, apc, fired>>
  PROVE  File'
BY DEF File, Reloads, Rested

LEMMA JobAt ==
  ASSUME TypeOK, NEW i \in DOMAIN jobs
  PROVE  /\ jobs[i] \in Job /\ jobs[i].id \in Ids /\ jobs[i].id \in Nat
         /\ jobs[i].next \in Nat /\ jobs[i].last \in Nat /\ jobs[i].when \in Nat
<1>1. jobs \in Seq(Job) /\ i \in 1..Len(jobs)
      BY DEF TypeOK
<1>2. jobs[i] \in Job
      BY <1>1
<1>3. QED
      BY <1>2 DEF Job, Ids

(* What becomes of a job at the three places where its time is computed.     *)
LEMMA SettleFacts ==
  ASSUME TypeOK, NEW job \in Job
  PROVE  /\ Settle(job) \in Job
         /\ Settle(job).id = job.id
         /\ Settle(job).enabled => /\ Settle(job).kind = "every"
                                   /\ \/ Settle(job).next > now
                                      \/ Restless(Settle(job)) /\ Settle(job).next = now
                                   /\ Settle(job).next = Settle(job).last + Settle(job).when
<1>1. now \in Nat
      BY ClockTime DEF TypeOK
<1>2. CASE job.kind = "at"
      BY <1>1, <1>2 DEF Settle, Job
<1>3. CASE job.kind = "every"
  <2>1. Settle(job) = [job EXCEPT !.next = now + job.when, !.last = now]
        BY <1>3 DEF Settle
  <2>2. Settle(job) =
          [id |-> job.id, kind |-> job.kind, when |-> job.when, delete |-> job.delete,
           enabled |-> job.enabled, next |-> now + job.when, last |-> now]
        BY <2>1 DEF Job
  <2>3. job.when \in Nat
        BY DEF Job
  <2>4. now + job.when \in Nat /\ (job.when # 0 => now + job.when > now)
        BY <1>1, <2>3
  <2>5. Settle(job) \in Job
        BY <1>1, <2>2, <2>4 DEF Job
  <2>6. job.when = 0 => now + job.when = now
        BY <1>1
  <2>7. QED
        BY <1>3, <2>2, <2>4, <2>5, <2>6 DEF Restless
<1>4. QED
      BY <1>2, <1>3 DEF Job

LEMMA ScheduledFacts ==
  ASSUME TypeOK, NEW job \in Job
  PROVE  /\ Scheduled(job) \in Job
         /\ Scheduled(job).id = job.id
         /\ job.enabled /\ Scheduled(job).enabled =>
              \/ Scheduled(job).next > Clock
              \/ Restless(Scheduled(job)) /\ Scheduled(job).next = Clock
<1>1. Clock \in Nat
      BY ClockTime
<1> HIDE DEF Clock
<1>2. CASE job.kind = "every"
      BY <1>1, <1>2 DEF Scheduled, Job, Restless
<1>3. CASE job.kind = "at"
      BY <1>1, <1>3 DEF Scheduled, Job
<1>4. QED
      BY <1>2, <1>3 DEF Job

LEMMA RevivedFacts ==
  ASSUME TypeOK, NEW job \in Job, job.enabled, job.next > 0
  PROVE  /\ Revived(job) \in Job
         /\ Revived(job).id = job.id
         /\ Revived(job).enabled => Revived(job) = job /\ job.next > Clock
<1>1. Clock \in Nat
      BY ClockTime
<1>2. CASE job.next <= Clock
  <2>1. Revived(job) = [job EXCEPT !.enabled = FALSE, !.next = 0]
        BY <1>2 DEF Revived, Stale
  <2>2. Revived(job) =
          [id |-> job.id, kind |-> job.kind, when |-> job.when, delete |-> job.delete,
           enabled |-> FALSE, next |-> 0, last |-> job.last]
        BY <2>1 DEF Job
  <2>3. QED
        BY <2>2 DEF Job
<1>3. CASE job.next > Clock
  <2>1. ~(job.next <= Clock)
        BY <1>1, <1>3 DEF Job
  <2>2. Revived(job) = job
        BY <2>1 DEF Revived, Stale
  <2>3. QED
        BY <1>3, <2>2
<1>4. QED
      BY <1>1, <1>2, <1>3 DEF Job

-----------------------------------------------------------------------------
THEOREM InitInv == Init => IInv
<1> SUFFICES ASSUME Init PROVE IInv
    OBVIOUS
<1>1. jobs = <<>> /\ DOMAIN jobs = {}
      BY DEF Init
<1>2. TypeOK
  <2>1. /\ MaxJobs \in Nat /\ Lag \in Nat /\ Horizon \in Nat /\ MaxMade \in Nat
        /\ MaxRestarts \in Nat /\ Lag < Horizon
        BY CronAssumption
  <2>2. jobs \in Seq(Job) /\ Len(jobs) = 0 /\ saved = jobs
        BY DEF Init
  <2>3. elapsed \in (Lag + 1)..Horizon /\ lag \in {0, Lag}
        BY <2>1 DEF Init
  <2>4. now \in Time /\ started \in Time /\ made \in 0..MaxMade /\ restarts \in 0..MaxRestarts
        BY <2>1 DEF Init, Time
  <2>5. fired \subseteq Ids /\ served \subseteq Ids /\ refused \in Seq(Job) /\ order \in Job \cup {NoJob}
        BY DEF Init
  <2>6. idx \in Nat /\ cpc \in {"gone"} /\ apc \in {"idle"} /\ mpc \in {"loaded"}
        BY DEF Init
  <2>7. running \in BOOLEAN /\ changed \in BOOLEAN
        BY DEF Init
  <2>8. QED
        BY <2>1, <2>2, <2>3, <2>4, <2>5, <2>6, <2>7 DEF TypeOK
<1>3. Distinct
      BY <1>1 DEF Init, Distinct
<1>4. Begun
      BY CronAssumption DEF Init, Begun, Clock, Locked
<1>5. Table /\ File
      BY <1>1 DEF Init, Table, File
<1>6. QED
      BY <1>2, <1>3, <1>4, <1>5 DEF IInv

(* Taking a job out of the table keeps what holds of the jobs.               *)
LEMMA RemovedFrom ==
  ASSUME TypeOK, NEW n \in DOMAIN jobs
  PROVE  /\ RemoveAt(jobs, n) \in Seq(Job)
         /\ Len(RemoveAt(jobs, n)) = Len(jobs) - 1
         /\ Len(RemoveAt(jobs, n)) <= MaxJobs
         /\ DOMAIN RemoveAt(jobs, n) = 1..(Len(jobs) - 1)
         /\ \A i \in DOMAIN RemoveAt(jobs, n) :
              RemoveAt(jobs, n)[i] = IF i < n THEN jobs[i] ELSE jobs[i + 1]
<1>1. jobs \in Seq(Job) /\ Len(jobs) \in Nat /\ Len(jobs) <= MaxJobs /\ n \in 1..Len(jobs)
      BY DEF TypeOK
<1>2. /\ RemoveAt(jobs, n) \in Seq(Job)
      /\ Len(RemoveAt(jobs, n)) = Len(jobs) - 1
      /\ \A i \in 1..(Len(jobs) - 1) :
           RemoveAt(jobs, n)[i] = IF i < n THEN jobs[i] ELSE jobs[i + 1]
      BY <1>1, RemoveAtSeq
<1>3. DOMAIN RemoveAt(jobs, n) = 1..(Len(jobs) - 1)
      BY <1>2
<1>4. Len(jobs) - 1 <= MaxJobs
      BY <1>1, CronAssumption
<1>5. QED
      BY <1>2, <1>3, <1>4

(* A step that leaves table and file alone and is not the cron thread's.     *)
LEMMA Bystander ==
  ASSUME IInv, TypeOK', UNCHANGED <<jobs, saved, cron, past, refused, apc>>
  PROVE  /\ (\A i \in DOMAIN jobs : Awaited(jobs[i]))' => Table'
         /\ File'
<1>1. File'
      BY FileSame DEF IInv, cron, past
<1>2. (\A i \in DOMAIN jobs : Awaited(jobs[i]))' => Table'
      BY DEF IInv, Table, Rested, Passed, Due, Locked, cron, past
<1>3. QED
      BY <1>1, <1>2

LEMMA TickInv ==
  ASSUME IInv, Tick
  PROVE  IInv'
<1>1. TypeOK'
      BY CronAssumption DEF IInv, TypeOK, Tick, cron, agent, past, life
<1>2. Distinct'
      BY DEF IInv, Distinct, Tick, agent, past
<1>3. Clock' >= Clock
      BY CronAssumption DEF IInv, TypeOK, Tick, Clock
<1>4. Begun'
      BY <1>1, <1>3, ClockTime, CronAssumption DEF IInv, TypeOK, Begun, Tick, cron, life, Locked, Clock, Time
<1>5. Table' /\ File'
      BY <1>1, Bystander DEF IInv, Table, Tick, Awaited, After, agent, life
<1>6. QED
      BY <1>1, <1>2, <1>4, <1>5 DEF IInv

LEMMA SetClockInv ==
  ASSUME IInv, SetClock
  PROVE  IInv'
<1>1. TypeOK'
      BY CronAssumption DEF IInv, TypeOK, SetClock, cron, agent, past, life
<1>2. Distinct'
      BY DEF IInv, Distinct, SetClock, agent, past
<1>4. Begun'
      BY <1>1, ClockTime, CronAssumption DEF IInv, TypeOK, Begun, SetClock, cron, life, Locked, Clock, Time
<1>5. Table' /\ File'
      BY <1>1, Bystander DEF IInv, Table, SetClock, Awaited, After, agent, life
<1>6. QED
      BY <1>1, <1>2, <1>4, <1>5 DEF IInv

LEMMA TopInv ==
  ASSUME IInv, Top
  PROVE  IInv'
<1>1. TypeOK'
      BY DEF IInv, TypeOK, Top, agent, time, past, life
<1>2. Distinct'
      BY DEF IInv, Distinct, Top, agent, past
<1>3. Begun'
      BY DEF IInv, Begun, Top, time, life, Locked, Clock
<1>4. Table'
      BY DEF IInv, Table, Top, Awaited, After, Rested, Locked, past, life
<1>5. File'
      BY FileSame DEF IInv, Top, agent, past, life
<1>6. QED
      BY <1>1, <1>2, <1>3, <1>4, <1>5 DEF IInv

LEMMA WakeInv ==
  ASSUME IInv, Wake
  PROVE  IInv'
<1>1. TypeOK'
      BY ClockTime DEF IInv, TypeOK, Wake, agent, time, past, life
<1>2. Distinct'
      BY DEF IInv, Distinct, Wake, agent, past
<1>3. Begun'
  <2>1. now' = Clock /\ Clock > 0 /\ started' = started /\ started <= Clock /\ Clock' = Clock
        BY ClockTime DEF IInv, Begun, Wake, time, life, Clock
  <2>2. QED
        BY <2>1 DEF IInv, Begun, Wake, time, life, Locked
<1>4. Table'
      BY DEF IInv, Table, Wake, Awaited, After, Rested, Locked, past, life
<1>5. File'
      BY FileSame DEF IInv, Wake, agent, past, life
<1>6. QED
      BY <1>1, <1>2, <1>3, <1>4, <1>5 DEF IInv

LEMMA BeginPassInv ==
  ASSUME IInv, BeginPass
  PROVE  IInv'
<1>1. TypeOK'
      BY DEF IInv, TypeOK, BeginPass, agent, time, past, life
<1>2. Distinct'
      BY DEF IInv, Distinct, BeginPass, agent, past
<1>3. Begun'
      BY DEF IInv, Begun, BeginPass, time, life, Locked, Clock
<1>4. idx = 1 /\ cpc # "firing" /\ \A i \in DOMAIN jobs : ~(i < idx)
      BY DEF IInv, TypeOK, Begun, BeginPass, Locked
<1>5. Table'
      BY <1>4 DEF IInv, Table, BeginPass, Awaited, After, Rested, Locked, past, life
<1>6. File'
      BY FileSame DEF IInv, BeginPass, agent, past, life
<1>7. QED
      BY <1>1, <1>2, <1>3, <1>5, <1>6 DEF IInv

LEMMA SkipInv ==
  ASSUME IInv, Skip
  PROVE  IInv'
<1>1. TypeOK'
      BY DEF IInv, TypeOK, Skip, agent, time, past, life
<1>2. Distinct'
      BY DEF IInv, Distinct, Skip, agent, past
<1>3. Begun'
      BY DEF IInv, Begun, Skip, time, life, Locked, Clock
<1>4. \A i \in DOMAIN jobs : i < idx' => i < idx \/ i = idx
      BY DEF IInv, TypeOK, Skip
<1>5. Table'
      BY <1>4 DEF IInv, Table, Skip, Awaited, After, Rested, Passed, Due, Locked, past, life
<1>6. File'
      BY FileSame DEF IInv, Skip, agent, past, life
<1>7. QED
      BY <1>1, <1>2, <1>3, <1>5, <1>6 DEF IInv

LEMMA FireInv ==
  ASSUME IInv, Fire
  PROVE  IInv'
<1>0. idx \in DOMAIN jobs /\ jobs[idx] \in Job /\ jobs[idx].id \in Ids
      BY JobAt DEF IInv, Fire
<1>1. TypeOK'
      BY <1>0 DEF IInv, TypeOK, Fire, agent, time, life
<1>2. Distinct'
      BY <1>0 DEF IInv, Distinct, Fire, agent
<1>3. Begun'
      BY DEF IInv, Begun, Fire, time, life, Locked, Clock
<1>4. \A i \in DOMAIN jobs : i # idx => jobs[i].id # jobs[idx].id
      BY <1>0 DEF IInv, Distinct
<1>5. Table'
      BY <1>0, <1>4 DEF IInv, Table, Fire, Awaited, After, Rested, Passed, Due, Locked, life
<1>6. File'
  <2>1. jobs # <<>>
        BY <1>0
  <2>2. QED
        BY <2>1 DEF IInv, File, Fire
<1>7. QED
      BY <1>1, <1>2, <1>3, <1>5, <1>6 DEF IInv

LEMMA EndPassInv ==
  ASSUME IInv, EndPass
  PROVE  IInv'
<1>1. TypeOK'
  <2>1. 0 \in Time
        BY CronAssumption DEF Time
  <2>2. saved' \in Seq(Job) /\ Len(saved') <= MaxJobs
        BY DEF IInv, TypeOK, EndPass
  <2>3. QED
        BY <2>1, <2>2 DEF IInv, TypeOK, EndPass, agent, time, life
<1>2. Distinct'
      BY DEF IInv, Distinct, EndPass, agent
<1>3. Begun'
      BY DEF IInv, Begun, EndPass, time, life, Locked, Clock
<1>4. Table'
      BY DEF IInv, Table, EndPass, Awaited, After, Rested, Locked, life
<1>5. File'
      BY DEF IInv, File, EndPass, Reloads, Rested, agent, life
<1>6. QED
      BY <1>1, <1>2, <1>3, <1>4, <1>5 DEF IInv

LEMMA AskInv ==
  ASSUME IInv, Ask
  PROVE  IInv'
<1>0. made \in Nat /\ made' = made + 1 /\ made' \in Ids /\ order'.id = made'
      BY CronAssumption DEF IInv, TypeOK, Ask, Ids
<1>1. order' \in Job /\ order'.enabled /\ order'.next = 0
  <2>1. PICK kind \in {"every", "at"}, delay \in Delays, delete \in BOOLEAN :
          order' = [id |-> made + 1, kind |-> kind, delete |-> delete,
                    when |-> IF kind = "at" THEN Clock + delay ELSE delay,
                    enabled |-> TRUE, next |-> 0, last |-> 0]
        BY DEF Ask
  <2>2. delay \in Nat /\ Clock \in Nat
        BY CronAssumption, ClockTime DEF IInv
  <2>3. (IF kind = "at" THEN Clock + delay ELSE delay) \in Nat
        BY <2>2
  <2>4. QED
        BY <1>0, <2>1, <2>3 DEF Job
<1>2. TypeOK'
      BY <1>0, <1>1, CronAssumption DEF IInv, TypeOK, Ask, cron, time, life, Ids
<1>3. \A i \in DOMAIN jobs : jobs[i].id \in Nat
      BY JobAt DEF IInv
<1>4. \A id \in fired : id \in Nat
      BY DEF IInv, TypeOK, Ids
<1>5. Distinct'
      BY <1>0, <1>1, <1>3, <1>4 DEF IInv, Distinct, Ask
<1>6. Begun'
      BY DEF IInv, Begun, Ask, cron, time, life, Locked, Clock
<1>7. Table'
      BY DEF IInv, Table, Ask, cron, Awaited, After, Rested, Passed, Due, Locked, life
<1>8. File'
  <2>1. \A i \in DOMAIN saved : saved[i].id \in Nat
    <3>1. \A i \in DOMAIN saved : saved[i] \in Job
          BY DEF IInv, TypeOK
    <3>2. QED
          BY <3>1 DEF Job, Ids
  <2>2. QED
        BY <1>0, <2>1 DEF IInv, File, Reloads, Rested, Ask, cron, life
<1>9. QED
      BY <1>2, <1>5, <1>6, <1>7, <1>8 DEF IInv

(* The jobs left in the table are jobs that were in it, no two the same.     *)
LEMMA LeftIn ==
  ASSUME TypeOK, Distinct, NEW n \in DOMAIN jobs
  PROVE  /\ \A i \in DOMAIN RemoveAt(jobs, n) :
              \E k \in DOMAIN jobs : /\ RemoveAt(jobs, n)[i] = jobs[k]
                                     /\ k # n
                                     /\ i < n => k = i
         /\ \A i, j \in DOMAIN RemoveAt(jobs, n) :
              RemoveAt(jobs, n)[i].id = RemoveAt(jobs, n)[j].id => i = j
<1> DEFINE left == RemoveAt(jobs, n)
           from(i) == IF i < n THEN i ELSE i + 1
<1>1. Len(jobs) \in Nat /\ DOMAIN jobs = 1..Len(jobs) /\ n \in 1..Len(jobs)
      BY DEF TypeOK
<1>2. /\ DOMAIN left = 1..(Len(jobs) - 1)
      /\ \A i \in DOMAIN left : left[i] = IF i < n THEN jobs[i] ELSE jobs[i + 1]
      BY RemovedFrom
<1> HIDE DEF left
<1>3. \A i \in DOMAIN left :
        from(i) \in DOMAIN jobs /\ from(i) # n /\ (i < n => from(i) = i)
      BY <1>1, <1>2
<1>4. \A i \in DOMAIN left : left[i] = jobs[from(i)]
      BY <1>2
<1>5. \A i, j \in DOMAIN left : from(i) = from(j) => i = j
      BY <1>1, <1>2
<1> HIDE DEF from
<1>6. \A i, j \in DOMAIN left : left[i].id = left[j].id => i = j
      BY <1>3, <1>4, <1>5 DEF Distinct
<1>7. \A i \in DOMAIN left :
        \E k \in DOMAIN jobs : left[i] = jobs[k] /\ k # n /\ (i < n => k = i)
      BY <1>3, <1>4
<1>8. QED
      BY <1>6, <1>7 DEF left

LEMMA RemoveJobInv ==
  ASSUME IInv, RemoveJob
  PROVE  IInv'
<1>1. PICK n \in DOMAIN jobs : jobs' = RemoveAt(jobs, n)
      BY DEF RemoveJob
<1>2. jobs' \in Seq(Job) /\ Len(jobs') <= MaxJobs /\ saved' = jobs'
      BY <1>1, RemovedFrom DEF IInv, RemoveJob
<1>3. TypeOK'
      BY <1>2 DEF IInv, TypeOK, RemoveJob, cron, agent, time, past, life, Locked
<1>4. \A i \in DOMAIN jobs' : \E k \in DOMAIN jobs : jobs'[i] = jobs[k]
      BY <1>1, LeftIn DEF IInv
<1>5. \A i, j \in DOMAIN jobs' : jobs'[i].id = jobs'[j].id => i = j
      BY <1>1, LeftIn DEF IInv
<1>6. Distinct'
      BY <1>4, <1>5 DEF IInv, Distinct, RemoveJob, agent, past
<1>7. Begun'
      BY DEF IInv, Begun, RemoveJob, cron, time, life, Locked, Clock
<1>8. ~Locked /\ ~Locked' /\ cpc # "firing"
      BY DEF RemoveJob, Locked, cron
<1>9. Table' /\ File'
      BY <1>2, <1>4, <1>8 DEF IInv, Table, File, RemoveJob, cron, Awaited, After, Rested, past, life
<1>10. QED
      BY <1>3, <1>6, <1>7, <1>9 DEF IInv

LEMMA FiredInv ==
  ASSUME IInv, Fired
  PROVE  IInv'
<1>0. /\ idx \in DOMAIN jobs /\ idx \in Nat /\ jobs[idx] \in Job
      /\ cpc = "firing" /\ cpc' = "scan" /\ changed' = TRUE
      /\ TypeOK /\ Distinct
      BY JobAt DEF IInv, TypeOK, Fired
<1>1. Begun'
      BY <1>0 DEF IInv, Begun, Fired, time, life, Locked, Clock
<1>2. File'
      BY <1>0 DEF File
<1>3. CASE jobs[idx].kind = "at" /\ jobs[idx].delete
  <2>1. jobs' = RemoveAt(jobs, idx) /\ idx' = idx
        BY <1>3 DEF Fired
  <2>2. jobs' \in Seq(Job) /\ Len(jobs') <= MaxJobs
        BY <1>0, <2>1, RemovedFrom
  <2>3. TypeOK'
        BY <1>0, <2>1, <2>2 DEF TypeOK, Fired, agent, time, past, life
  <2>4. \A i \in DOMAIN jobs' :
          \E k \in DOMAIN jobs : jobs'[i] = jobs[k] /\ k # idx /\ (i < idx => k = i)
        BY <1>0, <2>1, LeftIn
  <2>5. \A i, j \in DOMAIN jobs' : jobs'[i].id = jobs'[j].id => i = j
        BY <1>0, <2>1, LeftIn
  <2>6. Distinct'
        BY <2>4, <2>5 DEF IInv, Distinct, Fired, agent, past
  <2>7. Table'
        BY <1>0, <2>1, <2>4 DEF IInv, Table, Fired, Awaited, After, Rested, Passed, Due,
                                Locked, past, life
  <2>8. QED
        BY <1>1, <1>2, <2>3, <2>6, <2>7 DEF IInv
<1>4. CASE ~(jobs[idx].kind = "at" /\ jobs[idx].delete)
  <2> DEFINE job == Settle(jobs[idx])
  <2>1. jobs' = [jobs EXCEPT ![idx] = job] /\ idx' = idx + 1
        BY <1>4 DEF Fired
  <2>2. /\ job \in Job /\ job.id = jobs[idx].id
        /\ job.enabled => /\ job.kind = "every"
                          /\ job.next > now \/ (Restless(job) /\ job.next = now)
                          /\ job.next = job.last + job.when
        BY <1>0, SettleFacts
  <2> HIDE DEF job
  <2>3. /\ jobs' \in Seq(Job) /\ Len(jobs') = Len(jobs) /\ DOMAIN jobs' = DOMAIN jobs
        /\ \A i \in DOMAIN jobs : jobs'[i] = IF i = idx THEN job ELSE jobs[i]
        BY <1>0, <2>1, <2>2 DEF TypeOK
  <2>4. TypeOK'
        BY <1>0, <2>1, <2>3 DEF TypeOK, Fired, agent, time, past, life
  <2>5. Distinct'
        BY <1>0, <2>2, <2>3 DEF Distinct, Fired, agent, past
  <2>6. /\ now \in Nat /\ started \in Nat /\ job.next \in Nat /\ now >= started
        /\ now > 0 /\ job.id \in served
    <3>1. now >= started /\ now > 0
          BY <1>0 DEF IInv, Begun
    <3>2. jobs[idx].id \in served
          BY <1>0 DEF IInv, Table
    <3>3. QED
          BY <1>0, <2>2, <3>1, <3>2, ClockTime DEF TypeOK, Job
  <2>7. Awaited(job) /\ Rested(job) /\ Passed(job)
        BY <2>2, <2>6 DEF Awaited, After, Rested, Passed, Due
  <2>8. \A i \in DOMAIN jobs : i < idx' => i < idx \/ i = idx
        BY <1>0, <2>1 DEF TypeOK
  <2>9. now' = now /\ fired' = fired /\ served' = served /\ mpc' = mpc /\ started' = started
        BY DEF Fired, past, life
  <2>10. ASSUME NEW i \in DOMAIN jobs'
         PROVE  (/\ Awaited(jobs[i]) /\ Rested(jobs[i])
                 /\ i < idx => Passed(jobs[i]))'
    <3>1. CASE i = idx
          BY <1>0, <2>3, <2>7, <2>9, <3>1 DEF Awaited, After, Rested, Passed, Due
    <3>2. CASE i # idx
          BY <1>0, <2>3, <2>8, <2>9, <3>2
             DEF IInv, Table, Awaited, After, Rested, Passed, Due, Locked
    <3>3. QED
          BY <3>1, <3>2
  <2>11. Table'
        BY <1>0, <2>10 DEF Table
  <2>12. QED
        BY <1>1, <1>2, <2>4, <2>5, <2>11 DEF IInv
<1>5. QED
      BY <1>3, <1>4

LEMMA AddInv ==
  ASSUME IInv, Add
  PROVE  IInv'
<1> DEFINE job == Scheduled(order)
<1>0. /\ TypeOK /\ Distinct /\ ~Locked /\ cpc # "firing" /\ cpc' = cpc /\ idx' = idx
      /\ order \in Job /\ order.id = made /\ made \notin fired /\ order.enabled
      BY DEF IInv, Distinct, Add, Locked, cron
<1>1. Clock \in Nat /\ Clock > 0 /\ started \in Nat /\ started <= Clock
      BY <1>0, ClockTime DEF IInv, TypeOK, Begun
<1>2. /\ job \in Job /\ job.id = made /\ job.next \in Nat
      /\ job.enabled => job.next > Clock \/ (Restless(job) /\ job.next = Clock)
      BY <1>0, ScheduledFacts DEF Job
<1> HIDE DEF job
<1>3. Awaited(job) /\ Rested(job)
      BY <1>0, <1>1, <1>2 DEF Awaited, After, Rested
<1>4. Begun'
      BY DEF IInv, Begun, Add, cron, time, life, Locked, Clock
<1>5. CASE Len(jobs) < MaxJobs
  <2>1. jobs' = Append(jobs, job) /\ saved' = jobs'
        BY <1>5 DEF Add, job
  <2>2. /\ jobs' \in Seq(Job) /\ Len(jobs') = Len(jobs) + 1 /\ Len(jobs') <= MaxJobs
        /\ \A i \in DOMAIN jobs' :
             \/ i \in DOMAIN jobs /\ jobs'[i] = jobs[i]
             \/ i = Len(jobs) + 1 /\ jobs'[i] = job
        BY <1>0, <1>2, <1>5, <2>1, CronAssumption DEF TypeOK
  <2>3. TypeOK'
        BY <1>0, <2>1, <2>2 DEF TypeOK, Add, cron, time, past, life, Locked
  <2>4. made \in Nat /\ \A i \in DOMAIN jobs : jobs[i].id # made
        BY DEF IInv, TypeOK, Distinct, Add
  <2>5. Distinct'
        BY <1>2, <2>2, <2>4 DEF IInv, Distinct, Add, past
  <2>6. Table'
        BY <1>0, <1>3, <2>2 DEF IInv, Table, Add, Awaited, After, Rested, Locked, past, life
  <2>7. File'
        BY <2>1 DEF File
  <2>8. QED
        BY <1>4, <2>3, <2>5, <2>6, <2>7 DEF IInv
<1>6. CASE ~(Len(jobs) < MaxJobs)
  <2>1. jobs' = jobs /\ saved' = saved
        BY <1>6 DEF Add
  <2>2. TypeOK'
        BY <1>0, <2>1 DEF TypeOK, Add, cron, time, past, life
  <2>3. Distinct'
        BY <2>1 DEF IInv, Distinct, Add, past
  <2>4. Table' /\ File'
        BY <1>0, <2>1 DEF IInv, Table, File, Reloads, Add, cron, Awaited, After, Rested, Locked,
                          past, life
  <2>5. QED
        BY <1>4, <2>2, <2>3, <2>4 DEF IInv
<1>7. QED
      BY <1>5, <1>6

LEMMA StartInv ==
  ASSUME IInv, Start
  PROVE  IInv'
<1>0. /\ TypeOK /\ ~Locked /\ cpc = "gone" /\ cpc' = cpc /\ idx' = idx
      /\ fired' = fired /\ mpc' = "create" /\ started' = Clock /\ Clock' = Clock
      /\ idx = 1 /\ ~changed /\ changed' = changed
      BY DEF IInv, Begun, Start, Locked, cron, past, time, Clock
<1>1. /\ DOMAIN jobs' = DOMAIN jobs
      /\ \A i \in DOMAIN jobs :
           jobs'[i] = IF jobs[i].enabled THEN Revived(jobs[i]) ELSE jobs[i]
      BY DEF Start
<1>2. ASSUME NEW i \in DOMAIN jobs
      PROVE  /\ jobs'[i] \in Job /\ jobs'[i].id = jobs[i].id
             /\ jobs'[i].enabled => /\ jobs'[i] = jobs[i] /\ jobs[i].next > Clock
  <2>1. jobs[i] \in Job /\ (jobs[i].enabled => jobs[i].next > 0)
        BY <1>0, JobAt DEF IInv, Table, Awaited
  <2>2. QED
        BY <1>0, <1>1, <2>1, RevivedFacts
<1>3. jobs' \in Seq(Job) /\ Len(jobs') = Len(jobs)
  <2>1. /\ Len(jobs) \in Nat /\ DOMAIN jobs = 1..Len(jobs)
        /\ jobs' = [i \in 1..Len(jobs) |-> jobs'[i]]
        BY <1>0 DEF TypeOK, Start
  <2>2. \A i \in 1..Len(jobs) : jobs'[i] \in Job
        BY <1>2, <2>1
  <2>3. QED
        BY <2>1, <2>2
<1>4. saved' \in Seq(Job) /\ Len(saved') <= MaxJobs
      BY <1>0, <1>3 DEF TypeOK, Start
<1>5. Clock \in Time /\ Clock \in Nat
      BY <1>0, ClockTime
<1>6. TypeOK'
      BY <1>0, <1>3, <1>4, <1>5 DEF TypeOK, Start, cron, agent, time, past
<1>7. Distinct'
      BY <1>1, <1>2 DEF IInv, Distinct, Start, agent, past
<1>8. Begun'
      BY <1>0, <1>5 DEF IInv, Begun, Locked
<1>9. ASSUME NEW i \in DOMAIN jobs'
      PROVE  (Awaited(jobs[i]) /\ Rested(jobs[i]))'
  <2>1. i \in DOMAIN jobs /\ jobs[i].next \in Nat
        BY <1>0, <1>1, JobAt
  <2>2. Rested(jobs[i])
        BY <1>0, <2>1 DEF IInv, Table
  <2>3. QED
        BY <1>0, <1>2, <1>5, <2>1, <2>2 DEF Awaited, After, Rested
<1>10. Table'
      BY <1>0, <1>9 DEF Table, Locked
<1>11. File'
  <2>1. saved = jobs \/ (jobs = <<>> /\ saved = refused /\ Reloads(saved))
        BY <1>0 DEF IInv, Begun, File
  <2>2. CASE \E i \in DOMAIN jobs : jobs[i].enabled /\ Stale(jobs[i])
        BY <2>2 DEF Start, File
  <2>3. CASE ~\E i \in DOMAIN jobs : jobs[i].enabled /\ Stale(jobs[i])
    <3>1. saved' = saved
          BY <2>3 DEF Start
    <3>2. ASSUME NEW i \in DOMAIN jobs PROVE jobs'[i] = jobs[i]
      <4>1. jobs[i].enabled => jobs[i].next > 0 /\ ~Stale(jobs[i])
            BY <2>3 DEF IInv, Table, Awaited
      <4>2. jobs[i].enabled => Revived(jobs[i]) = jobs[i]
            BY <4>1 DEF Revived
      <4>3. QED
            BY <1>1, <4>2
    <3>3. jobs' = jobs
          BY <1>0, <1>3, <3>2 DEF TypeOK
    <3>4. made' = made /\ apc' = apc /\ refused' = refused
          BY DEF Start, past, agent
    <3>5. QED
          BY <1>0, <2>1, <3>1, <3>3, <3>4 DEF File, Reloads, Rested
  <2>4. QED
        BY <2>2, <2>3
<1>12. QED
      BY <1>6, <1>7, <1>8, <1>10, <1>11 DEF IInv

LEMMA CreateTaskInv ==
  ASSUME IInv, CreateTask
  PROVE  IInv'
<1>0. cpc = "gone" /\ cpc' \in {"gone", "top"} /\ mpc = "create" /\ mpc' # "loaded"
      BY DEF IInv, Begun, CreateTask
<1>1. TypeOK'
      BY <1>0 DEF IInv, TypeOK, CreateTask, agent, time, past
<1>2. Distinct'
      BY DEF IInv, Distinct, CreateTask, agent, past
<1>3. Begun'
      BY <1>0 DEF IInv, Begun, CreateTask, time, Locked, Clock
<1>4. Table'
      BY <1>0 DEF IInv, Table, CreateTask, Awaited, After, Rested, Locked, past
<1>5. File'
      BY FileSame DEF IInv, CreateTask, agent, past
<1>6. QED
      BY <1>1, <1>2, <1>3, <1>4, <1>5 DEF IInv

LEMMA StopInv ==
  ASSUME IInv, Stop
  PROVE  IInv'
<1>1. TypeOK'
      BY DEF IInv, TypeOK, Stop, cron, agent, time, past
<1>2. Distinct'
      BY DEF IInv, Distinct, Stop, agent, past
<1>3. Begun'
      BY DEF IInv, Begun, Stop, cron, time, Locked, Clock
<1>4. Table'
      BY DEF IInv, Table, Stop, cron, Awaited, After, Rested, Passed, Due, Locked, past
<1>5. File'
      BY FileSame DEF IInv, Stop, cron, agent, past
<1>6. QED
      BY <1>1, <1>2, <1>3, <1>4, <1>5 DEF IInv

(* What is in the file may be loaded.                                        *)
LEMMA SavedReloads ==
  ASSUME IInv, ~Locked
  PROVE  Reloads(saved)
<1>1. CASE saved = jobs
  <2>1. \A i, j \in DOMAIN jobs : jobs[i].id = jobs[j].id => i = j
        BY DEF IInv, Distinct
  <2>2. \A i \in DOMAIN jobs : /\ jobs[i].id <= made /\ (apc = "lock" => jobs[i].id # made)
                               /\ jobs[i].enabled => jobs[i].next > 0
                               /\ Rested(jobs[i])
        BY DEF IInv, Distinct, Table, Awaited, Locked
  <2>3. QED
        BY <1>1, <2>1, <2>2 DEF Reloads
<1>2. QED
      BY <1>1 DEF IInv, Begun, File

LEMMA RestartInv ==
  ASSUME IInv, Restart
  PROVE  IInv'
<1>0. /\ cpc = "gone" /\ cpc' = "gone" /\ apc = "idle" /\ apc' = "idle" /\ mpc' = "loaded"
      /\ saved' = saved /\ idx' = idx /\ fired' = fired /\ made' = made /\ ~Locked
      BY DEF Locked, Restart, cron, agent, past
<1>1. Reloads(saved) /\ Reloads(saved)'
  <2>1. Reloads(saved)
        BY <1>0, SavedReloads
  <2>2. QED
        BY <1>0, <2>1 DEF Reloads, Rested
<1>2. \/ jobs' = saved /\ refused' = refused
      \/ jobs' = <<>> /\ refused' = saved
      BY DEF Restart
<1>3. TypeOK'
  <2>1. Len(<<>>) = 0 /\ <<>> \in Seq(Job) /\ restarts' \in 0..MaxRestarts
        BY CronAssumption DEF IInv, TypeOK, Restart
  <2>2. jobs' \in Seq(Job) /\ Len(jobs') <= MaxJobs /\ refused' \in Seq(Job)
    <3>1. saved \in Seq(Job) /\ Len(saved) <= MaxJobs /\ refused \in Seq(Job) /\ 0 <= MaxJobs
          BY CronAssumption DEF IInv, TypeOK
    <3>2. QED
          BY <1>2, <2>1, <3>1
  <2>3. QED
        BY <1>0, <2>1, <2>2 DEF IInv, TypeOK, Restart, cron, agent, time, past
<1>4. jobs' = saved \/ DOMAIN jobs' = {}
      BY <1>2
<1>5. Distinct'
      BY <1>0, <1>1, <1>4 DEF IInv, Distinct, Reloads
<1>6. Begun'
      BY <1>0 DEF IInv, Begun, Restart, cron, time, Locked, Clock
<1>7. Table'
      BY <1>0, <1>1, <1>4 DEF Table, Reloads, Awaited, Rested, Locked
<1>8. File'
      BY <1>0, <1>1, <1>2 DEF File
<1>9. QED
      BY <1>3, <1>5, <1>6, <1>7, <1>8 DEF IInv

LEMMA StutterInv ==
  ASSUME IInv, UNCHANGED vars
  PROVE  IInv'
<1> USE DEF vars, cron, agent, time, past, life
<1>1. TypeOK' /\ Distinct'
      BY DEF IInv, TypeOK, Distinct
<1>2. Begun'
      BY DEF IInv, Begun, Clock, Locked
<1>3. Table'
      BY DEF IInv, Table, Awaited, After, Rested, Passed, Due, Locked
<1>4. File'
      BY FileSame DEF IInv
<1>5. QED
      BY <1>1, <1>2, <1>3, <1>4 DEF IInv

THEOREM NextInv == IInv /\ [Next]_vars => IInv'
BY TickInv, SetClockInv, TopInv, WakeInv, BeginPassInv, SkipInv, FireInv, FiredInv,
   EndPassInv, AskInv, AddInv, RemoveJobInv, StartInv, CreateTaskInv, StopInv,
   RestartInv, StutterInv DEF Next, CronThread

LEMMA Inductive == Spec => []IInv
BY InitInv, NextInv, PTL DEF Spec

-----------------------------------------------------------------------------
(* The table stays within its size, the index of a pass within the table,    *)
(* and what the thread looks at is a job, whatever the agent removes.        *)
THEOREM CronTypeCorrect == Spec => []TypeOK
<1>1. IInv => TypeOK
      BY DEF IInv
<1>2. QED
      BY Inductive, <1>1, PTL

(* When a pass is over, nothing that was due when it began is left behind:   *)
(* what lies below the index is not due, or is due again because its         *)
(* interval is 0, and deletions take the index along.                        *)
THEOREM PassesComplete == Spec => []PassComplete
<1>1. IInv => PassComplete
  <2> SUFFICES ASSUME IInv, cpc = "scan", idx > Len(jobs), NEW i \in DOMAIN jobs, Due(jobs[i])
               PROVE  jobs[i].id \in served /\ Restless(jobs[i])
      BY DEF PassComplete
  <2>1. i < idx
        BY DEF IInv, TypeOK
  <2>2. QED
        BY <2>1 DEF IInv, Table, Passed, Locked
<1>2. QED
      BY Inductive, <1>1, PTL

(* Whenever nobody is in a pass, the file holds the table, or is one that    *)
(* was refused and that nothing has overwritten.                             *)
THEOREM FileFollowsTable == Spec => []FileFollows
<1>1. IInv => FileFollows
      BY DEF IInv, Begun, File, FileFollows
<1>2. QED
      BY Inductive, <1>1, PTL

(* Only the cron thread fires, in a pass, and only what is due.              *)
LEMMA FiresDue ==
  ASSUME IInv, [Next]_vars, NEW id \in Ids, Fires(id)
  PROVE  idx \in DOMAIN jobs /\ cpc = "scan" /\ Due(jobs[idx]) /\ jobs[idx].id = id
<1>1. cpc = "scan" /\ cpc' = "firing"
      BY DEF Fires
<1>2. Fire
      BY <1>1 DEF Next, vars, cron, CronThread, Tick, SetClock, Top, Wake, BeginPass, Skip,
                  Fired, EndPass, Ask, Add, RemoveJob, Start, CreateTask, Stop, Restart
<1>3. QED
      BY <1>2 DEF Fire, Fires

(* What fires had a time after the start of the scheduler, or is restless    *)
(* and had one in that second: jobs whose time came while it was down were   *)
(* disabled by cron_service_start.                                           *)
THEOREM StaleSilent == Spec => StaleNeverFires
<1>1. ASSUME IInv, [Next]_vars, NEW id \in Ids, Fires(id)
      PROVE  After(jobs[idx])
  <2>1. idx \in DOMAIN jobs /\ jobs[idx].enabled /\ cpc = "scan"
        BY <1>1, FiresDue DEF Due
  <2>2. mpc # "loaded"
        BY <1>1, <2>1 DEF IInv, Begun
  <2>3. QED
        BY <1>1, <2>1, <2>2 DEF IInv, Table, Awaited
<1>2. IInv /\ [Next]_vars =>
        [\A id \in Ids : Fires(id) =>
           \/ jobs[idx].next > started
           \/ Restless(jobs[idx]) /\ jobs[idx].next = started]_vars
      BY <1>1 DEF After
<1>3. QED
      BY Inductive, <1>2, PTL DEF Spec, StaleNeverFires

(* A one-shot job fires at most once in all, over removals, full tables,     *)
(* passes and restarts; a recurring one again only when its interval is over *)
(* by the time its passes go by.                                             *)
THEOREM FiringsPaced == Spec => Paced
<1>1. ASSUME IInv, [Next]_vars, NEW id \in Ids, Fires(id), id \in fired
      PROVE  jobs[idx].kind = "every" /\ now >= jobs[idx].last + jobs[idx].when
  <2>1. /\ idx \in DOMAIN jobs /\ cpc = "scan"
        /\ jobs[idx].enabled /\ jobs[idx].next <= now /\ jobs[idx].id \in fired
        BY <1>1, FiresDue DEF Due
  <2>2. Rested(jobs[idx])
        BY <1>1, <2>1 DEF IInv, Table
  <2>3. /\ jobs[idx].next \in Nat /\ jobs[idx].last \in Nat /\ jobs[idx].when \in Nat
        /\ now \in Nat
        BY <1>1, <2>1, JobAt, ClockTime DEF IInv, TypeOK
  <2>4. QED
        BY <2>1, <2>2, <2>3 DEF Rested
<1>2. IInv /\ [Next]_vars =>
        [\A id \in Ids : Fires(id) /\ id \in fired =>
           /\ jobs[idx].kind = "every"
           /\ now >= jobs[idx].last + jobs[idx].when]_vars
      BY <1>1
<1>3. QED
      BY Inductive, <1>2, PTL DEF Spec, Paced

(* Both: nothing fires twice, early, or for a time missed while down.        *)
THEOREM FiringsInTime == Spec => FiresInTime
      BY StaleSilent, FiringsPaced DEF FiresInTime

-----------------------------------------------------------------------------
(* What the router knows of one slot, h, against what it was told of it, p,  *)
(* at time t after k slow calls and pauses.                                  *)
Healths == [fails : Nat, at : Nat, until : Nat]
Blames  == [since : Nat, at : Seq(Nat), bad : BOOLEAN]
Close(p) == \A i \in DOMAIN p.at : i > 1 => p.at[i] - p.at[i - 1] < Recovery

Remembered(h, p) ==
  IF p.at = <<>> THEN h.at <= p.since ELSE p.bad /\ h.at = p.at[Len(p.at)]

Tallied(h, p, t) ==
  p.at # <<>> /\ Close(p) /\ t - h.at < Recovery =>
    /\ Cardinality(Counted(p)) <= h.fails
    /\ Cardinality(Counted(p)) >= 2 => h.until >= h.at + 2

Sound(h, p, t, k) ==
  /\ h \in Healths /\ p \in Blames
  /\ h.at <= t /\ p.since <= t /\ h.until <= h.at + 60
  /\ h.fails <= k + (IF t - h.at >= Debounce THEN 0 ELSE 1)
  /\ Remembered(h, p)
  /\ h.fails > 0 \/ h.until > t => p.bad
  /\ Tallied(h, p, t)

LEMMA IntervalFinite ==
  ASSUME NEW n \in Nat PROVE IsFiniteSet(1..n)
<1>1. 1 \in Int /\ n \in Int
      OBVIOUS
<1>2. QED
      BY <1>1, FS_Interval, Zenon

LEMMA CountedFinite ==
  ASSUME NEW p \in Blames
  PROVE  IsFiniteSet(Counted(p)) /\ Cardinality(Counted(p)) \in Nat
<1>1. Len(p.at) \in Nat /\ DOMAIN p.at = 1..Len(p.at)
      BY DEF Blames
<1>2. IsFiniteSet(1..Len(p.at))
      BY <1>1, IntervalFinite, Zenon
<1>3. Counted(p) \subseteq 1..Len(p.at)
      BY <1>1 DEF Counted
<1>4. QED
      BY <1>2, <1>3, FS_Subset, FS_CardinalityType

(* One failure more counts for at most one.                                  *)
LEMMA CountedAppend ==
  ASSUME NEW p \in Blames, NEW t \in Nat,
         NEW q, q = Heard(p, t)
  PROVE  /\ Cardinality(Counted(q)) \in Nat
         /\ Cardinality(Counted(q)) <= Cardinality(Counted(p)) + 1
         /\ t - (IF p.at = <<>> THEN p.since ELSE p.at[Len(p.at)]) < Debounce
              => Cardinality(Counted(q)) = Cardinality(Counted(p))
<1> DEFINE L == Len(p.at)
<1>1. /\ L \in Nat /\ DOMAIN p.at = 1..L /\ p.at \in Seq(Nat) /\ p.since \in Nat
      /\ (p.at = <<>>) <=> (L = 0)
      BY DEF Blames
<1>2. /\ q.at = Append(p.at, t) /\ q.since = p.since /\ q \in Blames
      BY <1>1 DEF Blames, Heard
<1>3. /\ DOMAIN q.at = 1..(L + 1) /\ q.at[L + 1] = t
      /\ \A i \in 1..L : q.at[i] = p.at[i]
      BY <1>1, <1>2
<1>4. Counted(q) \subseteq Counted(p) \cup {L + 1} /\ Counted(p) \subseteq Counted(q)
  <2> HIDE DEF L
  <2>1. \A i \in 1..L : i \in Counted(q) <=> i \in Counted(p)
    <3>1. TAKE i \in 1..L
    <3>2. i \in 1..(L + 1) /\ (i # 1 => i - 1 \in 1..L)
          BY <1>1
    <3>3. q.at[i] = p.at[i] /\ (i # 1 => q.at[i - 1] = p.at[i - 1])
          BY <1>3, <3>2
    <3>4. QED
          BY <1>1, <1>2, <1>3, <3>2, <3>3 DEF Counted
  <2>2. Counted(q) \subseteq 1..(L + 1) /\ Counted(p) \subseteq 1..L
        BY <1>1, <1>3 DEF Counted
  <2>3. \A i \in 1..(L + 1) : i \in 1..L \/ i = L + 1
        BY <1>1
  <2>4. QED
        BY <2>1, <2>2, <2>3
<1>5. t - (IF p.at = <<>> THEN p.since ELSE p.at[Len(p.at)]) < Debounce => L + 1 \notin Counted(q)
      BY <1>1, <1>2, <1>3 DEF Counted, Debounce
<1>6. L + 1 \notin Counted(p)
      BY <1>1 DEF Counted
<1>7. Counted(q) = Counted(p) \/ Counted(q) = Counted(p) \cup {L + 1}
      BY <1>4
<1>8. Cardinality(Counted(p) \cup {L + 1}) = Cardinality(Counted(p)) + 1
      BY <1>6, CountedFinite, FS_AddElement
<1>9. Cardinality(Counted(p)) \in Nat
      BY CountedFinite
<1>10. Cardinality(Counted(q)) \in Nat
      BY <1>2, CountedFinite
<1>11. L + 1 \notin Counted(q) => Counted(q) = Counted(p)
      BY <1>4
<1>12. Cardinality(Counted(q)) = Cardinality(Counted(p))
        \/ Cardinality(Counted(q)) = Cardinality(Counted(p)) + 1
      BY <1>7, <1>8, Zenon
<1>13. QED
  <2>1. Cardinality(Counted(q)) <= Cardinality(Counted(p)) + 1
        BY <1>9, <1>12
  <2>2. QED
        BY <1>5, <1>10, <1>11, <2>1, Zenon

LEMMA BackoffBounds ==
  ASSUME NEW n \in Nat PROVE Backoff(n) \in 0..60 /\ (n >= 2 => Backoff(n) >= 2)
  BY DEF Backoff

LEMMA LaterSound ==
  ASSUME NEW h, NEW p, NEW t \in Nat, NEW u \in Nat, NEW k \in Nat, NEW m \in Nat,
         Sound(h, p, t, k), t <= u, (u = t /\ m = k) \/ m = k + 1
  PROVE  Sound(h, p, u, m)
<1>1. h.at \in Nat /\ h.fails \in Nat /\ h.until \in Nat /\ p.since \in Nat
      BY DEF Sound, Healths, Blames
<1>2. Tallied(h, p, t) => Tallied(h, p, u)
      BY <1>1 DEF Tallied, Recovery
<1>3. h.fails <= m + (IF u - h.at >= Debounce THEN 0 ELSE 1)
      BY <1>1 DEF Sound, Debounce
<1>4. h.at <= u /\ p.since <= u /\ (h.until > u => h.until > t)
      BY <1>1 DEF Sound
<1>5. QED
      BY <1>2, <1>3, <1>4 DEF Sound

LEMMA FreshSound ==
  ASSUME NEW t \in Nat, NEW k \in Nat PROVE Sound(Fresh, Clean(0), t, k)
  BY DEF Sound, Fresh, Clean, Healths, Blames, Remembered, Tallied, Debounce

LEMMA SuccessSound ==
  ASSUME NEW h, NEW p, NEW t \in Nat, NEW k \in Nat, Sound(h, p, t, k)
  PROVE  Sound([h EXCEPT !.fails = 0, !.until = 0], Clean(t), t, k)
<1> DEFINE g == [h EXCEPT !.fails = 0, !.until = 0]
<1>1. /\ g.fails = 0 /\ g.at = h.at /\ g.until = 0 /\ g \in Healths
      /\ h.at \in Nat /\ h.at <= t
      BY DEF Sound, Healths
<1> HIDE DEF g
<1>2. Sound(g, Clean(t), t, k)
      BY <1>1 DEF Sound, Clean, Blames, Remembered, Tallied, Debounce
<1>3. QED
      BY <1>2 DEF g

LEMMA ModelSound ==
  ASSUME NEW h, NEW p, NEW t \in Nat, NEW k \in Nat, Sound(h, p, t, k)
  PROVE  Sound([h EXCEPT !.fails = 0], [since |-> t, at |-> <<>>, bad |-> p.bad], t, k)
<1> DEFINE g == [h EXCEPT !.fails = 0]
           q == [since |-> t, at |-> <<>>, bad |-> p.bad]
<1>1. /\ g.fails = 0 /\ g.at = h.at /\ g.until = h.until /\ g \in Healths
      /\ h.at \in Nat /\ h.until \in Nat
      BY DEF Sound, Healths
<1>2. q.since = t /\ q.at = <<>> /\ q.bad = p.bad /\ q \in Blames
      BY DEF Sound, Blames
<1> HIDE DEF g, q
<1>3. Sound(g, q, t, k)
      BY <1>1, <1>2 DEF Sound, Remembered, Tallied, Debounce
<1>4. QED
      BY <1>3 DEF g, q

LEMMA RecoveredSound ==
  ASSUME NEW h \in [Backends -> Healths], NEW p, NEW t \in Nat, NEW k \in Nat, NEW b \in Backends,
         Sound(h[b], p, t, k)
  PROVE  Sound(Recovered(h, t)[b], p, t, k)
<1> DEFINE g == [h[b] EXCEPT !.fails = 0]
<1>1. /\ g.fails = 0 /\ g.at = h[b].at /\ g.until = h[b].until /\ g \in Healths
      /\ h[b].at \in Nat /\ h[b].until \in Nat /\ h[b].fails \in Nat
      BY DEF Sound, Healths
<1> HIDE DEF g
<1>2. CASE h[b].until <= t /\ h[b].fails >= MaxFails /\ t - h[b].at >= Recovery
  <2>1. Recovered(h, t)[b] = g
        BY <1>2 DEF Recovered, g
  <2>2. Sound(g, p, t, k)
        BY <1>1, <1>2 DEF Sound, Remembered, Tallied, Debounce, Recovery
  <2>3. QED
        BY <2>1, <2>2
<1>3. CASE ~(h[b].until <= t /\ h[b].fails >= MaxFails /\ t - h[b].at >= Recovery)
      BY <1>3 DEF Recovered
<1>4. QED
      BY <1>2, <1>3

LEMMA FailedSound ==
  ASSUME NEW h \in [Backends -> Healths], NEW p, NEW t \in Nat, NEW k \in Nat, NEW b \in Backends,
         Sound(h[b], p, t, k)
  PROVE  Sound(Failed(h, b, t)[b], Heard(p, t), t, k)
<1> DEFINE n == IF t - h[b].at >= Debounce THEN h[b].fails + 1 ELSE h[b].fails
           g == [fails |-> n, at |-> t, until |-> IF n < 2 THEN 0 ELSE t + Backoff(n)]
           q == Heard(p, t)
<1>1. Failed(h, b, t)[b] = g
      BY DEF Failed
<1>2. /\ h[b].at \in Nat /\ h[b].until \in Nat /\ h[b].fails \in Nat
      /\ p \in Blames /\ p.at \in Seq(Nat) /\ p.since \in Nat
      BY DEF Sound, Healths, Blames
<1>3. n \in Nat
      BY <1>2
<1>4. /\ g.fails = n /\ g.at = t /\ g \in Healths /\ g.until \in Nat
      /\ g.until <= t + 60
      /\ n >= 2 => g.until >= t + 2
      /\ g.until > 0 => n > 0
  <2> HIDE DEF n
  <2> QED
      BY <1>3, BackoffBounds DEF Healths
<1>5. /\ q.since = p.since /\ q.at = Append(p.at, t) /\ q.bad /\ q \in Blames
      BY <1>2 DEF Blames, Heard
<1>6. /\ q.at # <<>> /\ q.at[Len(q.at)] = t
      /\ Len(p.at) \in Nat /\ DOMAIN p.at = 1..Len(p.at) /\ DOMAIN q.at = 1..(Len(p.at) + 1)
      /\ \A i \in 1..Len(p.at) : q.at[i] = p.at[i]
      /\ q.at[Len(p.at) + 1] = t
      /\ p.at = <<>> <=> Len(p.at) = 0
      BY <1>2, <1>5
<1>7. /\ Cardinality(Counted(q)) \in Nat /\ Cardinality(Counted(p)) \in Nat
      /\ Cardinality(Counted(q)) <= Cardinality(Counted(p)) + 1
      /\ t - (IF p.at = <<>> THEN p.since ELSE p.at[Len(p.at)]) < Debounce
           => Cardinality(Counted(q)) = Cardinality(Counted(p))
      BY <1>2, CountedAppend, CountedFinite
<1> HIDE DEF g, q
<1>8. Close(q) => Close(p) /\ (p.at # <<>> => t - p.at[Len(p.at)] < Recovery)
  <2> SUFFICES ASSUME Close(q) PROVE Close(p) /\ (p.at # <<>> => t - p.at[Len(p.at)] < Recovery)
      OBVIOUS
  <2>1. Close(p)
    <3>1. SUFFICES ASSUME NEW i \in 1..Len(p.at), i > 1 PROVE p.at[i] - p.at[i - 1] < Recovery
          BY <1>6 DEF Close
    <3>2. i \in DOMAIN q.at /\ i - 1 \in 1..Len(p.at)
          BY <1>6, <3>1
    <3>3. q.at[i] - q.at[i - 1] < Recovery
          BY <3>1, <3>2 DEF Close
    <3>4. QED
          BY <1>6, <3>2, <3>3
  <2>2. ASSUME p.at # <<>> PROVE t - p.at[Len(p.at)] < Recovery
    <3>1. Len(p.at) + 1 \in DOMAIN q.at /\ Len(p.at) + 1 > 1 /\ (Len(p.at) + 1) - 1 = Len(p.at)
          BY <1>6, <2>2
    <3>2. q.at[Len(p.at) + 1] - q.at[(Len(p.at) + 1) - 1] < Recovery
          BY <3>1 DEF Close
    <3>3. q.at[(Len(p.at) + 1) - 1] = p.at[Len(p.at)]
          BY <1>6, <2>2
    <3>4. QED
          BY <1>6, <3>2, <3>3
  <2>3. QED
        BY <2>1, <2>2
<1>9. Close(q) => Cardinality(Counted(q)) <= n
  <2> SUFFICES ASSUME Close(q) PROVE Cardinality(Counted(q)) <= n
      OBVIOUS
  <2>1. CASE p.at = <<>>
    <3>1. Counted(p) = {}
          BY <1>6, <2>1 DEF Counted
    <3>2. Cardinality(Counted(p)) = 0
          BY <3>1, FS_EmptySet
    <3>3. h[b].at <= p.since
          BY <2>1 DEF Sound, Remembered
    <3>4. QED
          BY <1>2, <1>7, <2>1, <3>2, <3>3 DEF Debounce
  <2>2. CASE p.at # <<>>
    <3>1. h[b].at = p.at[Len(p.at)]
          BY <2>2 DEF Sound, Remembered
    <3>2. Cardinality(Counted(p)) <= h[b].fails
          BY <1>8, <2>2, <3>1 DEF Sound, Tallied
    <3>3. t - p.at[Len(p.at)] < Debounce => Cardinality(Counted(q)) = Cardinality(Counted(p))
          BY <1>7, <2>2
    <3>4. n = IF t - h[b].at >= Debounce THEN h[b].fails + 1 ELSE h[b].fails
          OBVIOUS
    <3>5. QED
      <4> HIDE DEF n
      <4> QED
          BY <1>2, <1>7, <3>1, <3>2, <3>3, <3>4 DEF Debounce
  <2>3. QED
        BY <2>1, <2>2
<1>10. n <= k + 1
      BY <1>2 DEF Sound, Debounce
<1> HIDE DEF n
<1>11. Tallied(g, q, t)
      BY <1>3, <1>4, <1>7, <1>9 DEF Tallied
<1>12. Sound(g, q, t, k)
      BY <1>2, <1>3, <1>4, <1>5, <1>6, <1>10, <1>11 DEF Sound, Remembered, Debounce
<1>13. QED
      BY <1>1, <1>12 DEF g, q

AllSound(h, p, t, k) ==
  /\ h \in [Backends -> Healths] /\ p \in [Backends -> Blames]
  /\ \A b \in Backends : Sound(h[b], p[b], t, k)

-----------------------------------------------------------------------------
(* The invariant: what the router remembers of each slot is what it was told *)
(* (HealthInv), the limits of a turn and what it says at each stage (Course, *)
(* Saying), and what each entry of the cache holds (Stored).                 *)
Keys  == {Key[q] : q \in Questions}
Texts == [turn : Nat, kind : Kinds]

HealthInv == AllSound(health, blame, clock, ticks)

(* The limits of a turn are not yet reached where it may go on.              *)
Course ==
  pc \in {"wait", "look", "call", "retry"} =>
    rounds < MaxRounds /\ dup <= 1 /\ again < MaxRepeats

(* What the turn has to say at each stage.                                   *)
Saying ==
  /\ text \in Texts
  /\ pc = "look" => last = "none"
  /\ pc \notin {"wait", "reply"} => ~hit
  /\ pc \in {"wait", "look", "call", "retry", "finish", "force"} => text = NoText
  /\ pc = "cascade" => text = Said("answer")
  /\ pc = "reply" => /\ last = "text" => text = Said("answer")
                     /\ text.kind = "late" => last = "fail"
                     /\ last = "fail" => text \in {NoText, Said("late"), Said("answer")}

(* A slot of the cache holds what was last given to its key, by an earlier   *)
(* turn, and no key has two.                                                 *)
Stored(i) ==
  slots[i].key # NoKey =>
    /\ slots[i].text = given[slots[i].key].text /\ slots[i].ts = given[slots[i].key].at
    /\ slots[i].text.kind # "late"
    /\ slots[i].text.turn <= turns
    /\ pc # "wait" => slots[i].text.turn < turns

CacheInv ==
  /\ slots \in [1..Slots -> [key : Keys \cup {NoKey}, text : Texts, ts : Nat]]
  /\ given \in [Keys -> [text : Texts, at : Nat]]
  /\ \A i \in 1..Slots : Stored(i)
  /\ \A i, j \in 1..Slots : slots[i].key = slots[j].key /\ slots[i].key # NoKey => i = j
  /\ CacheTruthful

TurnInv == TurnTypeOK /\ HealthInv /\ Course /\ Saying /\ CacheInv /\ AnswerKept

LEMMA TurnConstants ==
  /\ {MaxRounds, MaxRepeats, Slots} \subseteq Nat \ {0}
  /\ Pauses \subseteq Nat /\ MaxTurns \in Nat /\ MaxTicks \in Nat
  /\ Boot \in Nat /\ 1 \in Backends /\ None \notin Backends
  /\ \A q \in Questions : Key[q] \in Keys /\ Key[q] # NoKey
  /\ \A q \in Questions : Class[q] \in Classes
<1> USE AgentTurnAssumption
<1>1. Cardinality(Backends) \in 1..4 /\ Backends = 1..Cardinality(Backends)
      OBVIOUS
<1>2. 1 \in Backends /\ 0 \notin Backends
      BY <1>1
<1>3. QED
      BY <1>2 DEF Keys, None

(* The last call of a turn.                                                  *)
FinalCall == TaskComplete \/ ForceFinish

(* Time passes with each pause and each slow call, and is counted.           *)
Elapsing ==
  /\ clock' \in Nat /\ ticks' \in 0..MaxTicks /\ clock <= clock'
  /\ (clock' = clock /\ ticks' = ticks) \/ ticks' = ticks + 1

LEMMA TimePasses ==
  ASSUME TurnTypeOK, [TurnNext]_turnVars PROVE Elapsing
<1> USE TurnConstants
<1>0. clock \in Nat /\ ticks \in 0..MaxTicks
      BY DEF TurnTypeOK
<1>1. ASSUME NEW slow \in BOOLEAN, NEW outcome, Taking(slow, outcome) PROVE Elapsing
      BY <1>0, <1>1 DEF Taking, Elapsing, Slow
<1>2. ASSUME NEW slow \in BOOLEAN, NEW outcome, Call(slow, outcome) PROVE Elapsing
      BY <1>1, <1>2 DEF Call
<1>3. ASSUME NEW slow \in BOOLEAN, NEW outcome, CallSucceeds(slow, outcome) PROVE Elapsing
      BY <1>2, <1>3 DEF CallSucceeds
<1>4. ASSUME clock' = clock, ticks' = ticks PROVE Elapsing
      BY <1>0, <1>4 DEF Elapsing
<1>5. CASE Look
      BY <1>4, <1>5 DEF Look
<1>6. CASE CallFails
      BY <1>2, <1>6 DEF CallFails
<1>7. CASE RetryFails
      BY <1>2, <1>7 DEF RetryFails
<1>8. CASE Answered
      BY <1>3, <1>8 DEF Answered
<1>9. CASE AnsweredPoorly
      BY <1>3, <1>9 DEF AnsweredPoorly
<1>10. CASE Cascade
      BY <1>2, <1>10 DEF Cascade
<1>11. CASE AskedForTools
      BY <1>3, <1>11 DEF AskedForTools
<1>12. CASE FinalCall
      BY <1>2, <1>12 DEF FinalCall, TaskComplete, ForceFinish, LastCall
<1>13. CASE Reply
      BY <1>4, <1>13 DEF Reply
<1>14. CASE Pause
  <2>1. ticks < MaxTicks /\ ticks' = ticks + 1 /\ \E d \in Pauses : clock' = clock + d
        BY <1>14 DEF Pause
  <2>2. PICK d \in Nat : clock' = clock + d
        BY <2>1
  <2>3. clock' \in Nat /\ clock <= clock' /\ ticks' \in 0..MaxTicks
        BY <1>0, <2>1, <2>2
  <2>4. QED
        BY <2>1, <2>3 DEF Elapsing
<1>15. ASSUME clock' = clock, WithoutModel PROVE Elapsing
      BY <1>0, <1>15 DEF WithoutModel, Elapsing
<1>16. ASSUME Command, UNCHANGED clock PROVE Elapsing
      BY <1>0, <1>16 DEF Command, Elapsing
<1>17. CASE SetLlm \/ (\E b \in Backends : RouterSet(b) \/ RouterClear(b) \/ RouterModel(b))
         \/ (\E p \in Profiles : RouterProfile(p))
  <2>1. Command
        BY <1>17 DEF SetLlm, RouterSet, RouterClear, RouterModel, RouterProfile, SetBackend
  <2>2. QED
        BY <1>16, <2>1 DEF Command
<1>18. CASE UNCHANGED turnVars
      BY <1>4, <1>18 DEF turnVars
<1>19. CASE \E q \in Questions : TakeFast(q) \/ TakePicture(q) \/ Take(q)
      BY <1>4, <1>15, <1>19 DEF TakeFast, TakePicture, Take, WithoutModel, Begin
<1>20. QED
      BY <1>5, <1>6, <1>7, <1>8, <1>9, <1>10, <1>11, <1>12, <1>13, <1>14, <1>17, <1>18, <1>19
      DEF TurnNext, Agent, FinalCall

-----------------------------------------------------------------------------
(* The router's books.                                                       *)
LEMMA InitHealth == TurnInit => HealthInv
<1> SUFFICES ASSUME TurnInit PROVE HealthInv
    OBVIOUS
<1>1. Fresh \in Healths /\ Clean(0) \in Blames
      BY DEF Fresh, Clean, Healths, Blames
<1>2. health = [b \in Backends |-> Fresh] /\ blame = [b \in Backends |-> Clean(0)]
      BY DEF TurnInit
<1>3. clock \in Nat /\ ticks \in Nat
      BY TurnConstants DEF TurnInit
<1>4. QED
      BY <1>1, <1>2, <1>3, FreshSound DEF HealthInv, AllSound

LEMMA LaterHealth ==
  ASSUME TurnTypeOK, HealthInv, Elapsing PROVE AllSound(health, blame, clock', ticks')
<1>1. clock \in Nat /\ ticks \in Nat /\ clock' \in Nat /\ ticks' \in Nat
      BY TurnConstants DEF TurnTypeOK, Elapsing
<1>2. \A b \in Backends : Sound(health[b], blame[b], clock', ticks')
      BY <1>1, LaterSound DEF HealthInv, AllSound, Elapsing
<1>3. QED
      BY <1>2 DEF HealthInv, AllSound

LEMMA RecoveredHealth ==
  ASSUME NEW h, NEW p, NEW t \in Nat, NEW k \in Nat, AllSound(h, p, t, k)
  PROVE  AllSound(Recovered(h, t), p, t, k)
<1>1. \A b \in Backends : Sound(Recovered(h, t)[b], p[b], t, k)
      BY RecoveredSound DEF AllSound
<1>2. \A b \in Backends : Recovered(h, t)[b] \in Healths
      BY <1>1 DEF Sound
<1>3. Recovered(h, t) \in [Backends -> Healths]
      BY <1>2 DEF Recovered
<1>4. QED
      BY <1>1, <1>3 DEF AllSound

(* One slot changes, with what was told of it.                               *)
LEMMA OneSlot ==
  ASSUME NEW h, NEW p, NEW t, NEW k, AllSound(h, p, t, k),
         NEW b \in Backends, NEW g, NEW q, Sound(g, q, t, k)
  PROVE  AllSound([h EXCEPT ![b] = g], [p EXCEPT ![b] = q], t, k)
<1>1. g \in Healths /\ q \in Blames
      BY DEF Sound
<1>2. QED
      BY <1>1 DEF AllSound

LEMMA FailedHealth ==
  ASSUME NEW h, NEW p, NEW t \in Nat, NEW k \in Nat, AllSound(h, p, t, k), NEW b \in Backends
  PROVE  AllSound(Failed(h, b, t), [p EXCEPT ![b] = Heard(@, t)], t, k)
<1>1. Sound(Failed(h, b, t)[b], Heard(p[b], t), t, k)
      BY FailedSound DEF AllSound
<1>2. Failed(h, b, t) = [h EXCEPT ![b] = Failed(h, b, t)[b]]
      BY DEF Failed, AllSound
<1>3. QED
      BY <1>1, <1>2, OneSlot

LEMMA SucceededHealth ==
  ASSUME NEW h, NEW p, NEW t \in Nat, NEW k \in Nat, AllSound(h, p, t, k), NEW b \in Backends
  PROVE  AllSound(Succeeded(h, b), [p EXCEPT ![b] = Clean(t)], t, k)
<1> DEFINE g == [h[b] EXCEPT !.fails = 0, !.until = 0]
<1>1. Sound(g, Clean(t), t, k)
      BY SuccessSound DEF AllSound
<1>2. Succeeded(h, b) = [h EXCEPT ![b] = g]
  <2>1. b # None
        BY TurnConstants
  <2>2. QED
        BY <2>1, Zenon DEF Succeeded
<1> HIDE DEF g
<1>3. AllSound([h EXCEPT ![b] = g], [p EXCEPT ![b] = Clean(t)], t, k)
      BY <1>1, OneSlot
<1>4. QED
      BY <1>2, <1>3, Zenon

LEMMA NextHealth ==
  ASSUME TurnTypeOK, HealthInv, [TurnNext]_turnVars PROVE HealthInv'
<1>0. /\ clock' \in Nat /\ ticks' \in Nat /\ clock \in Nat
      /\ ticks \in Nat /\ router_idx \in Backends \cup {None}
      /\ AllSound(health, blame, clock', ticks') /\ Elapsing
      BY TurnConstants, TimePasses, LaterHealth DEF TurnTypeOK, Elapsing
<1>1. ASSUME UNCHANGED <<health, blame>> PROVE HealthInv'
      BY <1>0, <1>1 DEF HealthInv
<1>2. ASSUME NEW b, NEW class, NEW prof, Pick(b, health, clock, class, prof),
             UNCHANGED <<blame, clock>>
      PROVE  HealthInv'
  <2>1. health' = Recovered(health, clock') /\ blame' = blame
        BY <1>2 DEF Pick
  <2>2. QED
        BY <1>0, <2>1, RecoveredHealth DEF HealthInv
<1>3. CASE CallFails
  <2>1. PICK slow \in BOOLEAN :
          /\ Blame(clock')
          /\ \/ router_idx = None /\ UNCHANGED health
             \/ router_idx # None /\ \E b \in Backends \cup {None} :
                                      Pick(b, Failed(health, router_idx, clock'), clock', Class[asked], profile)
        BY <1>3 DEF CallFails
  <2>2. CASE router_idx = None
        BY <1>1, <2>1, <2>2 DEF Blame
  <2>3. CASE router_idx # None
    <3>1. AllSound(Failed(health, router_idx, clock'), blame', clock', ticks')
          BY <1>0, <2>1, <2>3, FailedHealth DEF Blame
    <3>2. health' = Recovered(Failed(health, router_idx, clock'), clock')
          BY <2>1, <2>3 DEF Pick
    <3>3. QED
          BY <1>0, <3>1, <3>2, RecoveredHealth DEF HealthInv
  <2>4. QED
        BY <2>2, <2>3
<1>4. ASSUME Praise PROVE AllSound(Succeeded(health, router_idx), blame', clock', ticks')
  <2>1. CASE router_idx = None
        BY <1>0, <1>4, <2>1 DEF Praise, Succeeded
  <2>2. CASE router_idx # None
        BY <1>0, <1>4, <2>2, SucceededHealth DEF Praise
  <2>3. QED
        BY <2>1, <2>2
<1>5. CASE Answered
  <2>1. Praise /\ health' = Succeeded(health, router_idx)
        BY <1>5 DEF Answered, CallSucceeds
  <2>2. QED
        BY <1>4, <2>1 DEF HealthInv
<1>6. CASE AskedForTools
  <2>1. Praise /\ health' = Succeeded(health, router_idx)
        BY <1>6 DEF AskedForTools, CallSucceeds
  <2>2. QED
        BY <1>4, <2>1 DEF HealthInv
<1>7. CASE AnsweredPoorly
  <2>1. Praise /\ health' = Recovered(Succeeded(health, router_idx), clock')
        BY <1>7 DEF AnsweredPoorly, CallSucceeds, Pick
  <2>2. QED
        BY <1>0, <1>4, <2>1, RecoveredHealth DEF HealthInv
<1>8. CASE \E q \in Questions : TakeFast(q) \/ TakePicture(q) \/ Take(q)
  <2>1. PICK q \in Questions : TakeFast(q) \/ TakePicture(q) \/ Take(q)
        BY <1>8
  <2>2. UNCHANGED <<blame, clock>>
        BY <2>1 DEF TakeFast, TakePicture, Take, Begin
  <2>3. CASE TakeFast(q) \/ TakePicture(q)
        BY <1>1, <2>2, <2>3 DEF TakeFast, TakePicture, WithoutModel
  <2>4. CASE Take(q)
        BY <1>2, <2>2, <2>4 DEF Take
  <2>5. QED
        BY <2>1, <2>3, <2>4
<1>9. ASSUME NEW b \in Backends, NEW what, SetBackend(b, what) PROVE HealthInv'
  <2>1. health' = [health EXCEPT ![b] = Fresh] /\ blame' = [blame EXCEPT ![b] = Clean(0)]
        BY <1>9 DEF SetBackend
  <2>2. QED
        BY <1>0, <2>1, FreshSound, OneSlot DEF HealthInv
<1>10. CASE SetLlm
      BY <1>9, <1>10, TurnConstants DEF SetLlm
<1>11. ASSUME NEW b \in Backends, RouterModel(b) PROVE HealthInv'
  <2>1. /\ health' = [health EXCEPT ![b] = [health[b] EXCEPT !.fails = 0]]
        /\ blame' = [blame EXCEPT ![b] = [since |-> clock, at |-> <<>>, bad |-> blame[b].bad]]
        /\ clock' = clock
        BY <1>11 DEF RouterModel, Command
  <2>2. Sound([health[b] EXCEPT !.fails = 0], [since |-> clock', at |-> <<>>, bad |-> blame[b].bad],
              clock', ticks')
        BY <1>0, ModelSound DEF AllSound
  <2>3. QED
        BY <1>0, <2>1, <2>2, OneSlot DEF HealthInv
<1>12. CASE \E b \in Backends : RouterSet(b) \/ RouterClear(b) \/ RouterModel(b)
      BY <1>9, <1>11, <1>12 DEF RouterSet, RouterClear
<1>13. CASE \E p \in Profiles : RouterProfile(p)
      BY <1>1, <1>13 DEF RouterProfile
<1>14. CASE Look \/ RetryFails \/ Cascade \/ FinalCall \/ Reply \/ Pause \/ UNCHANGED turnVars
  <2>1. UNCHANGED <<health, blame>>
        BY <1>14 DEF Look, RetryFails, Cascade, FinalCall, TaskComplete, ForceFinish, LastCall, Reply, Pause, turnVars, router, seen
  <2>2. QED
        BY <1>1, <2>1
<1>15. QED
      BY <1>3, <1>5, <1>6, <1>7, <1>8, <1>10, <1>12, <1>13, <1>14 DEF TurnNext, Agent, FinalCall

-----------------------------------------------------------------------------
(* The turn.                                                                 *)
Typed ==
  /\ profile \in Profiles /\ on \subseteq Backends /\ offer \in [Backends -> Offers]
  /\ applied \in Backends /\ router_idx \in Backends \cup {None}
  /\ pc \in Stages /\ asked \in Questions
  /\ rounds \in 0..MaxRounds /\ (pc = "call" => rounds < MaxRounds)
  /\ sig \in ToolCalls /\ dup \in 0..2 /\ again \in 0..MaxRepeats
  /\ text.turn \in 0..turns /\ text.kind \in Kinds
  /\ Len(sent) <= 1 /\ Len(kept) <= 1
  /\ last \in {"none", "text", "empty", "tools", "fail"} /\ hit \in BOOLEAN
  /\ turns \in 0..MaxTurns

Turning == Typed /\ Course /\ Saying

LEMMA TalliesInRange ==
  ASSUME NEW h, NEW p, NEW t, NEW k \in 0..MaxTicks, Sound(h, p, t, k)
  PROVE  h.fails \in 0..MaxTicks + 1 /\ h.until <= h.at + 60
  BY TurnConstants DEF Sound, Healths, Debounce

LEMMA InitTurn == TurnInit => Turning
<1> SUFFICES ASSUME TurnInit PROVE Turning
    OBVIOUS
<1>1. asked \in Questions
      BY AgentTurnAssumption DEF TurnInit
<1>2. MaxRounds >= 1 /\ MaxRepeats >= 1
      BY TurnConstants
<1>3. NoText \in Texts
      BY DEF NoText, Texts, Kinds, None
<1>4. MaxTurns \in Nat /\ 1 \in Backends /\ Configured \in Profiles
      /\ MaxRounds \in Nat /\ MaxRepeats \in Nat
      BY TurnConstants, AgentTurnAssumption
<1>5. /\ text = NoText /\ text.turn = 0 /\ text.kind = "error"
      /\ pc = "wait" /\ turns = 0
      /\ profile = Configured /\ on \subseteq Backends /\ applied = 1 /\ offer \in [Backends -> Offers]
      /\ router_idx = None /\ last = "none"
      /\ rounds = 0 /\ sig = NoCall /\ dup = 0 /\ again = 0 /\ sent = <<>> /\ kept = <<>>
      BY AgentTurnAssumption DEF TurnInit, NoText, None, Offers, Empty
<1>6. hit \in BOOLEAN
      BY DEF TurnInit
<1>7. /\ rounds \in 0..MaxRounds /\ again \in 0..MaxRepeats /\ dup \in 0..2
      /\ turns \in 0..MaxTurns /\ text.turn \in 0..turns
      /\ Len(sent) <= 1 /\ Len(kept) <= 1
      BY <1>4, <1>5
<1>8. Typed
      BY <1>1, <1>2, <1>4, <1>5, <1>6, <1>7 DEF Typed, Stages, Kinds, ToolCalls
<1>9. Course
      BY <1>2, <1>4, <1>5 DEF Course
<1>10. Saying
      BY <1>3, <1>5 DEF Saying
<1>11. QED
      BY <1>8, <1>9, <1>10 DEF Turning

(* A call to the model leaves alone all that is not of the turn.             *)
LEMMA CallTurn ==
  ASSUME Typed, NEW slow \in BOOLEAN,
         NEW outcome \in {"none", "text", "empty", "tools", "fail"}, Call(slow, outcome)
  PROVE  /\ UNCHANGED <<profile, on, offer, asked, sent, kept, hit, turns>> /\ last' = outcome
         /\ last' \in {"none", "text", "empty", "tools", "fail"}
         /\ \A k \in Kinds : Said(k) \in Texts /\ Said(k).turn \in 0..turns /\ Said(k).kind = k
         /\ NoText \in Texts /\ NoText.turn \in 0..turns /\ NoText.kind = "error"
<1>1. turns \in Nat
      BY TurnConstants DEF Typed
<1>2. QED
      BY <1>1 DEF Call, Said, NoText, Texts, Kinds, None

LEMMA Applied ==
  ASSUME Typed, Apply PROVE applied' \in Backends
  BY DEF Typed, Apply

LEMMA FailingTurn ==
  ASSUME Turning, CallFails \/ RetryFails PROVE Turning'
<1> USE DEF Turning
<1>0. PICK slow \in BOOLEAN : Call(slow, "fail")
      BY DEF CallFails, RetryFails
<1>1. /\ UNCHANGED <<profile, on, offer, asked, sent, kept, hit, turns>> /\ last' = "fail"
      /\ Said("late") \in Texts /\ Said("late").turn \in 0..turns /\ Said("late").kind = "late"
      /\ NoText \in Texts /\ NoText.turn \in 0..turns /\ NoText.kind = "error"
      BY <1>0, CallTurn DEF Kinds
<1>2. applied' \in Backends
      BY Applied DEF CallFails, RetryFails, Typed
<1>3. /\ UNCHANGED <<rounds, sig, dup, again>>
      /\ rounds < MaxRounds /\ dup <= 1 /\ again < MaxRepeats
      BY DEF CallFails, RetryFails, GiveUp, Unused, Course
<1>4. router_idx' \in Backends \cup {None}
      BY DEF CallFails, RetryFails, Typed
<1>5. \/ pc' = "reply" /\ text' \in {Said("late"), NoText}
      \/ pc' = "retry" /\ text' = NoText
  <2>1. text = NoText
        BY DEF CallFails, RetryFails, Saying
  <2>2. QED
        BY <2>1 DEF CallFails, RetryFails, GiveUp, Ending
<1>6. Typed'
      BY <1>1, <1>2, <1>3, <1>4, <1>5 DEF Typed, Stages, Kinds
<1>7. ~hit
      BY DEF CallFails, RetryFails, Saying
<1>8. Course' /\ Saying'
      BY <1>1, <1>3, <1>5, <1>7 DEF Course, Saying, Said
<1>9. QED
      BY <1>6, <1>8

LEMMA AnsweredTurn ==
  ASSUME Turning, Answered \/ AnsweredPoorly PROVE Turning'
<1> USE DEF Turning
<1>0. PICK slow \in BOOLEAN, outcome \in {"text", "empty"} :
        /\ Call(slow, outcome) /\ (UNCHANGED applied \/ Apply)
        /\ text' = IF outcome = "text" THEN Said("answer") ELSE NoText
      BY DEF Answered, AnsweredPoorly, CallSucceeds, Ending
<1>1. /\ UNCHANGED <<profile, on, offer, asked, sent, kept, hit, turns>> /\ last' = outcome
      /\ Said("answer") \in Texts /\ Said("answer").turn \in 0..turns
      /\ Said("answer").kind = "answer"
      /\ NoText \in Texts /\ NoText.turn \in 0..turns /\ NoText.kind = "error"
      BY <1>0, CallTurn DEF Kinds
<1>2. applied' \in Backends
      BY <1>0, Applied DEF Typed
<1>3. UNCHANGED <<rounds, sig, dup, again>> /\ router_idx' \in Backends \cup {None}
      BY DEF Answered, AnsweredPoorly, Unused, Typed
<1>4. pc' = "reply" \/ (pc' = "cascade" /\ text' = Said("answer"))
      BY DEF Answered, AnsweredPoorly, Ending
<1>5. Typed'
      BY <1>0, <1>1, <1>2, <1>3, <1>4 DEF Typed, Stages, Kinds
<1>6. ~hit
      BY DEF Answered, AnsweredPoorly, CallSucceeds, Saying
<1>7. Course' /\ Saying'
      BY <1>0, <1>1, <1>3, <1>4, <1>6 DEF Course, Saying, Said
<1>8. QED
      BY <1>5, <1>7

LEMMA CascadeTurn ==
  ASSUME Turning, Cascade PROVE Turning'
<1> USE DEF Turning
<1>0. PICK slow \in BOOLEAN, outcome \in {"text", "empty", "fail"} :
        /\ Call(slow, outcome)
        /\ text' = IF outcome = "fail" /\ slow THEN Said("late") ELSE text
      BY DEF Cascade, Ending
<1>1. /\ UNCHANGED <<profile, on, offer, asked, sent, kept, hit, turns>> /\ last' = outcome
      /\ Said("answer") \in Texts /\ Said("answer").turn \in 0..turns
      /\ Said("answer").kind = "answer"
      /\ Said("late") \in Texts /\ Said("late").turn \in 0..turns /\ Said("late").kind = "late"
      BY <1>0, CallTurn DEF Kinds
<1>2. applied' \in Backends
      BY Applied DEF Cascade, Typed
<1>3. UNCHANGED <<rounds, sig, dup, again, router_idx>> /\ pc' = "reply" /\ text = Said("answer")
      BY DEF Cascade, Unused, Ending, Saying
<1>4. Typed'
      BY <1>0, <1>1, <1>2, <1>3 DEF Typed, Stages, Kinds
<1>5. Course' /\ Saying'
      BY <1>0, <1>1, <1>3 DEF Course, Saying, Said
<1>6. QED
      BY <1>4, <1>5

LEMMA FinalTurn ==
  ASSUME Turning, FinalCall PROVE Turning'
<1> USE DEF Turning
<1>0. PICK slow \in BOOLEAN, outcome \in {"text", "empty", "fail"} :
        /\ Call(slow, outcome)
        /\ \/ outcome = "text" /\ text' = Said("answer")
           \/ outcome = "fail" /\ text' = Said("late")
           \/ outcome # "text" /\ text' = NoText
      BY DEF FinalCall, TaskComplete, ForceFinish, LastCall, Ending
<1>1. /\ UNCHANGED <<profile, on, offer, asked, sent, kept, hit, turns>> /\ last' = outcome
      /\ Said("answer") \in Texts /\ Said("answer").turn \in 0..turns
      /\ Said("answer").kind = "answer"
      /\ Said("late") \in Texts /\ Said("late").turn \in 0..turns /\ Said("late").kind = "late"
      /\ NoText \in Texts /\ NoText.turn \in 0..turns /\ NoText.kind = "error"
      BY <1>0, CallTurn DEF Kinds
<1>2. UNCHANGED <<rounds, sig, dup, again, router_idx, applied>> /\ pc' = "reply"
      BY DEF FinalCall, TaskComplete, ForceFinish, LastCall, Unused, Ending
<1>3. Typed'
      BY <1>0, <1>1, <1>2 DEF Typed, Stages, Kinds
<1>4. Course' /\ Saying'
      BY <1>0, <1>1, <1>2 DEF Course, Saying, Said
<1>5. QED
      BY <1>3, <1>4

LEMMA ToolsTurn ==
  ASSUME Turning, AskedForTools PROVE Turning'
<1> USE DEF Turning
<1>0. PICK slow \in BOOLEAN : CallSucceeds(slow, "tools")
      BY DEF AskedForTools
<1>1. /\ UNCHANGED <<profile, on, offer, asked, sent, kept, hit, turns>> /\ last' = "tools"
      /\ Said("answer") \in Texts /\ Said("answer").turn \in 0..turns
      /\ Said("answer").kind = "answer"
      /\ NoText \in Texts /\ NoText.turn \in 0..turns /\ NoText.kind = "error"
      BY <1>0, CallTurn DEF Kinds, CallSucceeds
<1>2. applied' \in Backends /\ router_idx' \in Backends \cup {None}
      BY <1>0, Applied DEF Typed, CallSucceeds, AskedForTools
<1>3. /\ rounds \in Nat /\ rounds < MaxRounds /\ dup \in 0..1
      /\ again \in Nat /\ again < MaxRepeats
      /\ MaxRounds \in Nat /\ MaxRepeats \in Nat \ {0} /\ text = NoText
      BY <1>0, TurnConstants DEF CallSucceeds, Course, Saying, Typed
<1>4. PICK c \in ToolCalls :
        /\ Remember(c)
        /\ \/ Stuck(c) /\ Ending(NoText) /\ UNCHANGED rounds
           \/ ~Stuck(c) /\ Ending(Said("answer")) /\ UNCHANGED rounds
           \/ ~Stuck(c) /\ pc' = "finish" /\ UNCHANGED <<rounds, text>>
           \/ ~Stuck(c) /\ NextRound
      BY DEF AskedForTools
<1>5. sig' = c /\ dup' \in 0..2 /\ again' \in 0..MaxRepeats
      BY <1>3, <1>4 DEF Remember, SameCalls, SameNames
<1>6. ~Stuck(c) => dup' <= 1 /\ again' < MaxRepeats
      BY <1>3, <1>4 DEF Remember, SameCalls, SameNames, Stuck
<1>7. \/ pc' = "reply" /\ text' \in {NoText, Said("answer")} /\ rounds' = rounds
      \/ pc' = "finish" /\ text' = NoText /\ rounds' = rounds
      \/ pc' = "force" /\ text' = NoText /\ rounds' = rounds + 1
      \/ /\ pc' = "call" /\ text' = NoText
         /\ rounds' = rounds + 1 /\ rounds' # MaxRounds /\ ~Stuck(c)
      BY <1>3, <1>4 DEF Ending, NextRound
<1>8. rounds' \in 0..MaxRounds /\ (pc' = "call" => rounds' < MaxRounds)
      BY <1>3, <1>7
<1>9. ~hit
      BY <1>0 DEF CallSucceeds, Saying
<1>10. Typed'
      BY <1>1, <1>2, <1>5, <1>7, <1>8 DEF Typed, Stages, Kinds
<1>11. Course' /\ Saying'
      BY <1>1, <1>6, <1>7, <1>8, <1>9 DEF Course, Saying, Said
<1>12. QED
      BY <1>10, <1>11

(* The slots looked up are those of the question, which is not empty.        *)
LEMMA FoundSlot ==
  ASSUME Typed, CacheInv, NEW i \in Holding(Key[asked])
  PROVE  /\ i \in 1..Slots /\ slots[i].key = Key[asked] /\ slots[i].key # NoKey
         /\ Stored(i) /\ slots[i].text \in Texts
<1>1. i \in 1..Slots /\ slots[i].key = Key[asked]
      BY DEF Holding
<1>2. Key[asked] # NoKey
      BY TurnConstants DEF Typed
<1>3. slots[i] \in [key : Keys \cup {NoKey}, text : Texts, ts : Nat]
      BY <1>1 DEF CacheInv
<1>4. QED
      BY <1>1, <1>2, <1>3 DEF CacheInv

LEMMA LookTurn ==
  ASSUME Turning, CacheInv, Look PROVE Turning'
<1> USE DEF Turning
<1>0. /\ pc = "look" /\ Apply
      /\ UNCHANGED <<profile, on, offer, asked, router_idx, rounds, sig, dup, again, sent, kept, last,
                     turns>>
      BY DEF Look, router
<1>1. applied' \in Backends
      BY <1>0, Applied
<1>2. /\ rounds < MaxRounds /\ dup <= 1 /\ again < MaxRepeats
      /\ last = "none" /\ ~hit /\ text = NoText
      BY <1>0 DEF Course, Saying
<1>3. CASE \E i \in Holding(Key[asked]) : text' = slots[i].text /\ pc' = "reply" /\ hit' = TRUE
  <2>1. PICK i \in Holding(Key[asked]) : text' = slots[i].text /\ pc' = "reply" /\ hit' = TRUE
        BY <1>3
  <2>2. text' \in Texts /\ text'.turn <= turns /\ text'.kind # "late"
        BY <1>0, <2>1, FoundSlot DEF Stored
  <2>3. text'.turn \in 0..turns /\ text'.kind \in Kinds
        BY <2>2, TurnConstants DEF Texts, Typed
  <2>4. hit' \in BOOLEAN
        BY <2>1
  <2>5. Typed'
        BY <1>0, <1>1, <2>1, <2>3, <2>4 DEF Typed, Stages
  <2>6. Course' /\ Saying'
        BY <1>0, <1>2, <2>1, <2>2 DEF Course, Saying
  <2>7. QED
        BY <2>5, <2>6
<1>4. CASE pc' = "call" /\ UNCHANGED <<text, hit>>
  <2>1. Typed'
        BY <1>0, <1>1, <1>2, <1>4 DEF Typed, Stages
  <2>2. Course' /\ Saying'
        BY <1>0, <1>2, <1>4 DEF Course, Saying
  <2>3. QED
        BY <2>1, <2>2
<1>5. QED
      BY <1>3, <1>4 DEF Look

LEMMA AtMostOne ==
  ASSUME NEW s, NEW x, s = <<>> \/ s = <<x>> PROVE Len(s) <= 1
<1>1. Len(<<>>) = 0 /\ Len(<<x>>) = 1
      OBVIOUS
<1>2. \A m \in {0, 1} : m <= 1
      OBVIOUS
<1>3. Len(s) \in {0, 1}
      BY <1>1, Zenon
<1>4. QED
      BY <1>2, <1>3, Zenon

LEMMA ReplyTurn ==
  ASSUME Turning, Reply PROVE Turning'
<1> USE DEF Turning
<1>1. /\ pc' = "wait" /\ router_idx' = None /\ rounds' = 0
      /\ sig' = NoCall /\ dup' = 0 /\ again' = 0
      /\ text' = NoText /\ UNCHANGED <<profile, on, offer, applied, asked, last, hit, turns>>
      BY DEF Reply, router
<1>2. Len(kept') <= 1 /\ Len(sent') <= 1
  <2>1. kept' = <<>> \/ kept' = <<[question |-> asked, text |-> text]>>
        BY DEF Reply
  <2>2. sent' = <<>> \/ sent' = <<text>>
        BY DEF Reply
  <2>3. QED
        BY <2>1, <2>2, AtMostOne
<1>3. /\ MaxRounds \in Nat \ {0} /\ MaxRepeats \in Nat \ {0} /\ turns \in Nat
      /\ NoText \in Texts /\ NoText.turn = 0 /\ NoText.kind = "error"
      BY TurnConstants DEF Typed, NoText, Texts, Kinds, None
<1>4. Typed'
      BY <1>1, <1>2, <1>3 DEF Typed, Stages, Kinds, ToolCalls
<1>5. Course' /\ Saying'
      BY <1>1, <1>3 DEF Course, Saying
<1>6. QED
      BY <1>4, <1>5

LEMMA TakeTurn ==
  ASSUME Turning, NEW q \in Questions, TakeFast(q) \/ TakePicture(q) \/ Take(q) PROVE Turning'
<1> USE DEF Turning
<1>1. /\ pc = "wait" /\ turns < MaxTurns /\ turns' = turns + 1 /\ asked' = q
      /\ last' = "none" /\ hit' = FALSE
      /\ UNCHANGED <<rounds, sig, dup, again, text, profile, on, offer, applied>>
      BY DEF TakeFast, TakePicture, Take, WithoutModel, Begin
<1>2. Len(sent') <= 1 /\ Len(kept') <= 1
  <2>1. \/ sent' = <<[turn |-> turns', kind |-> "answer"]>> /\ kept' = <<>>
        \/ /\ sent' = <<[turn |-> turns', kind |-> "answer"]>>
           /\ kept' = <<[question |-> q, text |-> [turn |-> turns', kind |-> "answer"]]>>
        \/ sent' = <<>> /\ kept' = <<>>
        BY Zenon DEF TakeFast, TakePicture, Take, WithoutModel
  <2>2. QED
        BY <2>1, AtMostOne
<1>3. router_idx' \in Backends \cup {None}
      BY DEF TakeFast, TakePicture, Take, WithoutModel, Typed
<1>4. pc' \in {"wait", "look"}
      BY <1>1 DEF TakeFast, TakePicture, Take, WithoutModel
<1>5. /\ turns \in Nat /\ turns' \in 0..MaxTurns /\ text.turn \in 0..turns' /\ text = NoText
      /\ rounds < MaxRounds /\ dup <= 1 /\ again < MaxRepeats
      BY <1>1, TurnConstants DEF Typed, Course, Saying
<1>6. hit' \in BOOLEAN /\ ~hit'
      BY <1>1
<1>7. Typed'
      BY <1>1, <1>2, <1>3, <1>4, <1>5, <1>6 DEF Typed, Stages
<1>8. Course' /\ Saying'
      BY <1>1, <1>4, <1>5, <1>6 DEF Course, Saying
<1>9. QED
      BY <1>7, <1>8

LEMMA AroundTurn ==
  ASSUME Turning, [TurnNext]_turnVars, ~Agent,
         ~ \E q \in Questions : TakeFast(q) \/ TakePicture(q) \/ Take(q)
  PROVE  Turning' /\ UNCHANGED <<pc, asked, text, sent, kept, last, hit, turns, slots, given>>
<1> USE DEF Turning
<1>1. CASE Pause \/ UNCHANGED turnVars
  <2>1. UNCHANGED <<profile, on, offer, applied, router_idx, pc, asked, rounds, sig, dup, again, text, sent, kept,
                    last, hit, turns, slots, given>>
        BY <1>1 DEF Pause, turnVars, router, turn, seen
  <2>2. QED
        BY <2>1 DEF Typed, Course, Saying, Said
<1>2. CASE SetLlm \/ (\E b \in Backends : RouterSet(b) \/ RouterClear(b) \/ RouterModel(b))
        \/ (\E p \in Profiles : RouterProfile(p))
  <2>1. Command
        BY <1>2 DEF SetLlm, RouterSet, RouterClear, RouterModel, RouterProfile, SetBackend
  <2>2. /\ UNCHANGED <<router_idx, pc, asked, rounds, sig, dup, again, text, sent, kept, last, hit, turns,
                               slots, given>>
        BY <2>1 DEF Command, turn
  <2>3. profile' \in Profiles /\ on' \subseteq Backends /\ applied' \in Backends
        BY <1>2, TurnConstants
           DEF SetLlm, RouterSet, RouterClear, RouterModel, RouterProfile, SetBackend, Typed
  <2>4. offer' \in [Backends -> Offers]
    <3>1. ASSUME NEW b \in Backends, NEW what \in Offers, SetBackend(b, what)
          PROVE  offer' \in [Backends -> Offers]
          BY <3>1 DEF SetBackend, Typed
    <3>2. /\ Empty \in Offers /\ 1 \in Backends
          /\ \A tier \in Presets : [priority |-> 0, tier |-> tier] \in Offers
          BY AgentTurnAssumption, TurnConstants DEF Empty, Offers
    <3>3. ASSUME NEW b \in Backends, NEW tier \in Presets
          PROVE  [priority |-> b - 1, tier |-> tier] \in Offers
      <4>1. b \in Int
            BY AgentTurnAssumption
      <4>2. QED
            BY <4>1, AgentTurnAssumption DEF Offers
    <3>4. CASE SetLlm
          BY <3>1, <3>2, <3>4 DEF SetLlm
    <3>5. CASE \E b \in Backends : RouterSet(b) \/ RouterClear(b)
          BY <3>1, <3>2, <3>3, <3>5 DEF RouterSet, RouterClear
    <3>6. CASE (\E b \in Backends : RouterModel(b)) \/ (\E p \in Profiles : RouterProfile(p))
          BY <3>6 DEF RouterModel, RouterProfile, Typed
    <3>7. QED
          BY <1>2, <3>4, <3>5, <3>6
  <2>5. Typed'
        BY <2>2, <2>3, <2>4 DEF Typed
  <2>6. Course' /\ Saying'
        BY <2>2 DEF Course, Saying, Said
  <2>7. QED
        BY <2>2, <2>5, <2>6
<1>3. QED
      BY <1>1, <1>2 DEF TurnNext

LEMMA NextTurn ==
  ASSUME Turning, CacheInv, [TurnNext]_turnVars PROVE Turning'
<1>1. CASE Agent
      BY <1>1, LookTurn, FailingTurn, AnsweredTurn, CascadeTurn, ToolsTurn, FinalTurn, ReplyTurn
         DEF Agent, FinalCall
<1>2. CASE \E q \in Questions : TakeFast(q) \/ TakePicture(q) \/ Take(q)
      BY <1>2, TakeTurn
<1>3. QED
      BY <1>1, <1>2, AroundTurn

-----------------------------------------------------------------------------
(* The cache.                                                                *)
LEMMA InitCache == TurnInit => CacheInv
<1> SUFFICES ASSUME TurnInit PROVE CacheInv
    OBVIOUS
<1>1. NoText \in Texts
      BY DEF NoText, Texts, Kinds, None
<1>2. /\ slots = [i \in 1..Slots |-> [key |-> NoKey, text |-> NoText, ts |-> 0]]
      /\ given = [k \in Keys |-> [text |-> NoText, at |-> 0]] /\ pc = "wait"
      BY DEF TurnInit, Keys
<1>3. /\ slots \in [1..Slots -> [key : Keys \cup {NoKey}, text : Texts, ts : Nat]]
      /\ given \in [Keys -> [text : Texts, at : Nat]]
      BY <1>1, <1>2
<1>4. \A i \in 1..Slots : slots[i].key = NoKey
      BY <1>2
<1>5. QED
      BY <1>2, <1>3, <1>4 DEF CacheInv, Stored, CacheTruthful

(* As long as the cache is left alone and no answer comes out of it.         *)
LEMMA SameCache ==
  ASSUME CacheInv, UNCHANGED <<slots, given>>,
         turns \in Nat, turns' \in Nat, turns <= turns',
         pc' # "wait" => pc # "wait" \/ turns < turns',
         pc' = "reply" /\ hit' => /\ pc = "reply" /\ hit
                                  /\ UNCHANGED <<asked, text, turns, clock>>
  PROVE  CacheInv'
<1>1. ASSUME NEW i \in 1..Slots PROVE Stored(i)'
  <2>1. Stored(i) /\ slots[i].text.turn \in Nat
        BY DEF CacheInv, Texts
  <2>2. QED
        BY <2>1 DEF Stored
<1>2. CacheTruthful'
      BY DEF CacheInv, CacheTruthful
<1>3. QED
      BY <1>1, <1>2 DEF CacheInv

LEMMA LookCache ==
  ASSUME Turning, CacheInv, Look, clock \in Nat PROVE CacheInv'
<1>0. pc = "look" /\ pc' # "wait" /\ UNCHANGED <<asked, given, turns, clock>>
      BY DEF Look
<1>1. CASE \E i \in Holding(Key[asked]) :
             /\ clock - slots[i].ts <= Ttl /\ text' = slots[i].text /\ UNCHANGED slots
  <2>1. PICK i \in Holding(Key[asked]) :
          clock - slots[i].ts <= Ttl /\ text' = slots[i].text /\ UNCHANGED slots
        BY <1>1
  <2>2. /\ text' = given[Key[asked]].text /\ slots[i].ts = given[Key[asked]].at
        /\ text'.turn < turns /\ text'.kind # "late"
        BY <1>0, <2>1, FoundSlot DEF Stored, Turning
  <2>3. CacheTruthful'
        BY <1>0, <2>1, <2>2 DEF CacheTruthful
  <2>4. QED
        BY <1>0, <2>1, <2>3 DEF CacheInv, Stored
<1>2. CASE /\ pc' = "call"
           /\ \E found \in SUBSET (1..Slots) :
                slots' = [i \in 1..Slots |-> IF i \in found
                            THEN [slots[i] EXCEPT !.text = NoText, !.key = NoKey] ELSE slots[i]]
  <2>1. PICK found \in SUBSET (1..Slots) :
          slots' = [i \in 1..Slots |-> IF i \in found
                      THEN [slots[i] EXCEPT !.text = NoText, !.key = NoKey] ELSE slots[i]]
        BY <1>2
  <2>2. \A i \in 1..Slots : slots[i] \in [key : Keys \cup {NoKey}, text : Texts, ts : Nat]
        BY DEF CacheInv
  <2>3. NoText \in Texts
        BY DEF NoText, Texts, Kinds, None
  <2>4. ASSUME NEW i \in 1..Slots
        PROVE  /\ slots'[i] \in [key : Keys \cup {NoKey}, text : Texts, ts : Nat]
               /\ slots'[i] = slots[i] \/ slots'[i].key = NoKey
    <3>1. CASE i \in found
      <4>1. slots'[i] = [slots[i] EXCEPT !.text = NoText, !.key = NoKey]
            BY <2>1, <3>1
      <4>2. QED
            BY <2>2, <2>3, <4>1
    <3>2. CASE i \notin found
          BY <2>1, <2>2, <3>2
    <3>3. QED
          BY <3>1, <3>2
  <2>5. slots' \in [1..Slots -> [key : Keys \cup {NoKey}, text : Texts, ts : Nat]]
        BY <2>1, <2>4
  <2>6. ASSUME NEW i \in 1..Slots PROVE Stored(i)'
    <3>1. Stored(i)
          BY DEF CacheInv
    <3>2. QED
          BY <1>0, <2>4, <3>1 DEF Stored
  <2>7. \A i, j \in 1..Slots :
          slots'[i].key = slots'[j].key /\ slots'[i].key # NoKey => i = j
        BY <2>4 DEF CacheInv
  <2>8. QED
        BY <1>0, <1>2, <2>5, <2>6, <2>7 DEF CacheInv, CacheTruthful
<1>3. QED
  <2>1. \A i \in Holding(Key[asked]) : i \in 1..Slots
        BY DEF Holding
  <2>2. QED
        BY <1>1, <1>2, <2>1 DEF Look

LEMMA ReplyCache ==
  ASSUME Turning, CacheInv, Reply, clock \in Nat PROVE CacheInv'
<1> USE DEF Turning
<1>0. pc = "reply" /\ pc' = "wait" /\ UNCHANGED <<asked, turns, clock>> /\ Put
      BY DEF Reply
<1>1. turns \in Nat
      BY TurnConstants DEF Typed
<1>2. CASE ~Cacheable
      BY <1>0, <1>1, <1>2, SameCache DEF Put
<1>3. CASE Cacheable
  <2> DEFINE k == Key[asked]
             new == [key |-> k, text |-> text, ts |-> clock]
  <2>1. /\ slots' = [slots EXCEPT ![Target(k)] = new]
        /\ given' = [given EXCEPT ![k] = [text |-> text, at |-> clock]]
        /\ text.kind # "late"
        BY <1>0, <1>3 DEF Put, Cacheable
  <2>2. k \in Keys /\ k # NoKey /\ text \in Texts /\ text.turn <= turns
        BY <1>1, TurnConstants DEF Typed, Saying
  <2>3. new \in [key : Keys \cup {NoKey}, text : Texts, ts : Nat]
        BY <2>2
  <2>4. /\ slots' \in [1..Slots -> [key : Keys \cup {NoKey}, text : Texts, ts : Nat]]
        /\ given' \in [Keys -> [text : Texts, at : Nat]]
        BY <2>1, <2>2, <2>3 DEF CacheInv
  <2>5. ASSUME NEW i \in 1..Slots, i # Target(k) PROVE slots[i].key # k /\ slots'[i] = slots[i]
    <3>1. slots'[i] = slots[i]
          BY <2>1, <2>5 DEF CacheInv
    <3>2. ASSUME slots[i].key = k PROVE FALSE
      <4>1. Holding(k) = {i}
            BY <2>2, <3>2 DEF Holding, CacheInv
      <4>2. First({i}) = i
            BY DEF First
      <4>3. QED
            BY <2>5, <4>1, <4>2 DEF Target
    <3>3. QED
          BY <3>1, <3>2
  <2>6. ASSUME NEW i \in 1..Slots, i = Target(k) PROVE slots'[i] = new
        BY <2>1, <2>6 DEF CacheInv
  <2>7. /\ given'[k] = [text |-> text, at |-> clock]
        /\ \A x \in Keys : x # k => given'[x] = given[x]
        BY <2>1, <2>2 DEF CacheInv
  <2> HIDE DEF k
  <2>8. ASSUME NEW i \in 1..Slots PROVE Stored(i)'
    <3>1. CASE i = Target(k)
          BY <1>0, <2>1, <2>2, <2>6, <2>7, <3>1 DEF Stored
    <3>2. CASE i # Target(k)
      <4>1. /\ Stored(i) /\ slots'[i] = slots[i]
            /\ slots[i].key \in Keys \cup {NoKey} /\ slots[i].key # k
            BY <2>5, <3>2 DEF CacheInv
      <4>2. QED
            BY <1>0, <2>7, <4>1 DEF Stored
    <3>3. QED
          BY <3>1, <3>2
  <2>9. \A i, j \in 1..Slots :
          slots'[i].key = slots'[j].key /\ slots'[i].key # NoKey => i = j
    <3>1. TAKE i, j \in 1..Slots
    <3>2. CASE i # Target(k) /\ j # Target(k)
          BY <2>5, <3>2 DEF CacheInv
    <3>3. CASE i = Target(k) \/ j = Target(k)
          BY <2>5, <2>6, <3>3
    <3>4. QED
          BY <3>2, <3>3
  <2>10. QED
        BY <1>0, <2>4, <2>8, <2>9 DEF CacheInv, CacheTruthful
<1>4. QED
      BY <1>2, <1>3

LEMMA NextCache ==
  ASSUME Turning, CacheInv, clock \in Nat, [TurnNext]_turnVars PROVE CacheInv'
<1> USE DEF Turning
<1>0. turns \in Nat
      BY TurnConstants DEF Typed
<1>1. ASSUME NEW slow \in BOOLEAN, NEW outcome, Call(slow, outcome),
             pc \notin {"wait", "reply"}, pc' # "wait"
      PROVE  CacheInv'
  <2>1. UNCHANGED <<slots, given, turns, hit>>
        BY <1>1 DEF Call
  <2>2. ~hit
        BY <1>1 DEF Saying
  <2>3. QED
        BY <1>0, <1>1, <2>1, <2>2, SameCache
<1>2. CASE CallFails \/ RetryFails
  <2>1. /\ pc \notin {"wait", "reply"} /\ pc' # "wait"
        /\ \E slow \in BOOLEAN : Call(slow, "fail")
        BY <1>2 DEF CallFails, RetryFails, GiveUp, Ending
  <2>2. QED
        BY <1>1, <2>1
<1>3. CASE Answered \/ AnsweredPoorly \/ AskedForTools
  <2>1. /\ pc \notin {"wait", "reply"} /\ pc' # "wait"
        /\ \E slow \in BOOLEAN, outcome \in {"text", "empty", "tools"} : Call(slow, outcome)
        BY <1>3 DEF Answered, AnsweredPoorly, AskedForTools, CallSucceeds, Ending, NextRound
  <2>2. QED
        BY <1>1, <2>1
<1>4. CASE Cascade \/ FinalCall
  <2>1. /\ pc \notin {"wait", "reply"} /\ pc' # "wait"
        /\ \E slow \in BOOLEAN, outcome \in {"text", "empty", "fail"} : Call(slow, outcome)
        BY <1>4 DEF Cascade, FinalCall, TaskComplete, ForceFinish, LastCall, Ending
  <2>2. QED
        BY <1>1, <2>1
<1>5. CASE \E q \in Questions : TakeFast(q) \/ TakePicture(q) \/ Take(q)
  <2>1. PICK q \in Questions : TakeFast(q) \/ TakePicture(q) \/ Take(q)
        BY <1>5
  <2>2. /\ pc = "wait" /\ pc' \in {"wait", "look"} /\ turns' = turns + 1
        /\ UNCHANGED <<slots, given>>
        BY <2>1 DEF TakeFast, TakePicture, Take, WithoutModel, Begin
  <2>3. QED
        BY <1>0, <2>2, SameCache
<1>6. CASE ~Agent /\ ~ \E q \in Questions : TakeFast(q) \/ TakePicture(q) \/ Take(q)
  <2>1. UNCHANGED <<pc, asked, text, hit, turns, slots, given>>
        BY <1>6, AroundTurn
  <2>2. pc = "reply" => clock' = clock
        BY <1>6
           DEF TurnNext, Pause, SetLlm, RouterSet, RouterClear, RouterModel, RouterProfile,
               SetBackend, Command, turnVars
  <2>3. QED
        BY <1>0, <2>1, <2>2, SameCache
<1>7. QED
      BY <1>2, <1>3, <1>4, <1>5, <1>6, LookCache, ReplyCache DEF Agent, FinalCall

-----------------------------------------------------------------------------
(* The answers.                                                              *)
LEMMA NextAnswer ==
  ASSUME Turning, AnswerKept, [TurnNext]_turnVars PROVE AnswerKept'
<1> USE DEF Turning
<1>1. CASE Reply
  <2>1. /\ pc = "reply" /\ UNCHANGED <<asked, last, turns>>
        /\ kept' = IF text = NoText THEN <<>> ELSE <<[question |-> asked, text |-> text]>>
        /\ sent' = <<text>>
        BY <1>1 DEF Reply
  <2>2. last = "text" => text = Said("answer")
        BY <2>1 DEF Saying
  <2>3. text.kind = "late" => last = "fail"
        BY <2>1 DEF Saying
  <2>4. /\ Said("answer") # NoText /\ Said("answer")' = Said("answer")
        /\ Said("late")' = Said("late")
        BY <2>1 DEF Said, NoText
  <2>8. last = "fail" => text \in {NoText, Said("late"), Said("answer")}
        BY <2>1 DEF Saying
  <2>5. CASE text = NoText
    <3>1. kept' = <<>> /\ sent' = <<NoText>>
          BY <2>1, <2>5
    <3>2. last' # "text"
          BY <2>1, <2>2, <2>4, <2>5
    <3>3. QED
          BY <3>1, <3>2 DEF AnswerKept
  <2>6. CASE text # NoText
    <3>1. kept' = <<[question |-> asked, text |-> text]>>
          BY <2>1, <2>6
    <3>2. kept' # <<>> /\ kept'[1].question = asked' /\ kept'[1].text = text
          BY <2>1, <3>1
    <3>3. QED
          BY <2>1, <2>2, <2>3, <2>4, <2>6, <2>8, <3>2 DEF AnswerKept
  <2>7. QED
        BY <2>5, <2>6
<1>2. CASE Agent /\ ~Reply
  <2>1. pc' # "wait"
        BY <1>2 DEF Agent, Look, CallFails, RetryFails, Answered, AnsweredPoorly, Cascade,
                    AskedForTools, FinalCall, TaskComplete, ForceFinish, LastCall, GiveUp, Ending, NextRound
  <2>2. QED
        BY <2>1 DEF AnswerKept
<1>3. ASSUME NEW q \in Questions, TakeFast(q) PROVE AnswerKept'
  <2>1. /\ kept' = <<>> /\ asked' = q /\ last' = "none" /\ Class[q] = "fast"
        /\ sent' = <<[turn |-> turns', kind |-> "answer"]>>
        BY <1>3 DEF TakeFast, Begin
  <2>2. sent' = <<Said("answer")'>>
        BY <2>1 DEF Said
  <2>3. QED
        BY <2>1, <2>2 DEF AnswerKept
<1>4. ASSUME NEW q \in Questions, TakePicture(q) PROVE AnswerKept'
  <2> DEFINE what == [turn |-> turns', kind |-> "answer"]
  <2>1. /\ kept' = <<[question |-> q, text |-> what]>> /\ asked' = q /\ last' = "none"
        /\ sent' = <<what>>
        BY <1>4 DEF TakePicture, Begin
  <2>2. what.kind = "answer"
        OBVIOUS
  <2> HIDE DEF what
  <2>3. kept' # <<>> /\ kept'[1].question = asked' /\ kept'[1].text = what
        BY <2>1
  <2>4. QED
        BY <2>1, <2>2, <2>3 DEF AnswerKept
<1>5. ASSUME NEW q \in Questions, Take(q) PROVE AnswerKept'
      BY <1>5 DEF Take, AnswerKept
<1>6. CASE ~Agent /\ ~ \E q \in Questions : TakeFast(q) \/ TakePicture(q) \/ Take(q)
  <2>1. UNCHANGED <<pc, asked, sent, kept, last, turns>>
        BY <1>6, AroundTurn
  <2>2. QED
        BY <2>1 DEF AnswerKept, Said
<1>7. QED
      BY <1>1, <1>2, <1>3, <1>4, <1>5, <1>6

-----------------------------------------------------------------------------
(* The choice of a backend.                                                  *)
Usable(h, t, b) == b \in on /\ h[b].until <= t /\ h[b].fails < MaxFails

(* One that is not usable is chosen only when each that is usable has a      *)
(* negative score.                                                           *)
LEMMA Chosen ==
  ASSUME NEW h, NEW t, NEW class, NEW prof, NEW b \in Select(h, t, class, prof),
         b # None, ~Usable(h, t, b), NEW o \in on
  PROVE  Usable(h, t, o) => Score(offer[o], h[o].fails, class, prof) < 0
  BY DEF Select, Usable

LEMMA RestingIsKnown ==
  ASSUME NEW h, NEW p, NEW t \in Nat, NEW k \in Nat, Sound(h, p, t, k), Resting(p, t)
  PROVE  h.until > t \/ h.fails >= MaxFails
<1>1. /\ p.at # <<>> /\ Close(p)
      BY DEF Resting, Close
<1>2. h.at = p.at[Len(p.at)] /\ h.at \in Nat /\ h.until \in Nat /\ h.fails \in Nat
      BY <1>1 DEF Sound, Remembered, Healths
<1>3. \/ Cardinality(Counted(p)) >= MaxFails /\ t - h.at < Recovery
      \/ Cardinality(Counted(p)) >= 2 /\ t - h.at < 2
      BY <1>2 DEF Resting
<1>4. t - h.at < Recovery
      BY <1>2, <1>3 DEF Recovery
<1>5. /\ Cardinality(Counted(p)) <= h.fails
      /\ Cardinality(Counted(p)) >= 2 => h.until >= h.at + 2
      BY <1>1, <1>4 DEF Sound, Tallied
<1>6. Cardinality(Counted(p)) \in Nat
      BY CountedFinite DEF Sound
<1>7. QED
      BY <1>2, <1>3, <1>5, <1>6 DEF MaxFails

LEMMA RestingLetAlone ==
  ASSUME HealthInv', clock' \in Nat, ticks' \in Nat, TurnTypeOK, [TurnNext]_turnVars,
         pc' # pc, pc' \in {"look", "retry", "cascade"}, router_idx' # None,
         Resting(blame'[router_idx'], clock')
  PROVE  \A b \in on \ {router_idx'} : blame'[b].bad \/ Unwanted(b)
<1> DEFINE class == IF pc' = "cascade" THEN "medium" ELSE Class[asked']
           prof  == IF pc' = "cascade" THEN "premium" ELSE profile
<1>1. router_idx' \in Backends /\ router_idx' \in Select(health', clock', class, prof)
  <2>1. ASSUME NEW b \in Backends \cup {None}, NEW h, NEW t, NEW c, NEW p,
               Pick(b, h, t, c, p), t = clock', router_idx' = b
        PROVE  router_idx' \in Backends /\ router_idx' \in Select(health', clock', c, p)
        BY <2>1 DEF Pick
  <2>2. CASE \E q \in Questions : Take(q)
    <3>1. PICK q \in Questions : Take(q)
          BY <2>2
    <3>2. clock' = clock /\ asked' = q /\ pc' = "look"
          BY <3>1 DEF Take, Begin
    <3>3. PICK b \in Backends \cup {None} :
            Pick(b, health, clock, Class[q], profile) /\ router_idx' = b
          BY <3>1 DEF Take
    <3>4. QED
          BY <2>1, <3>2, <3>3
  <2>3. CASE CallFails
    <3>1. /\ asked' = asked /\ pc' = "retry"
          /\ \E b \in Backends \cup {None} :
               /\ Pick(b, Failed(health, router_idx, clock'), clock', Class[asked], profile)
               /\ router_idx' = b
          BY <2>3 DEF CallFails, Call, GiveUp, Ending
    <3>2. QED
          BY <2>1, <3>1
  <2>4. CASE AnsweredPoorly
    <3>1. /\ pc' = "cascade"
          /\ \E b \in Backends \cup {None} :
               /\ Pick(b, Succeeded(health, router_idx), clock', "medium", "premium")
               /\ router_idx' = b
          BY <2>4 DEF AnsweredPoorly
    <3>2. QED
          BY <2>1, <3>1
  <2>5. QED
        BY <2>2, <2>3, <2>4
        DEF TurnNext, Agent, TakeFast, TakePicture, WithoutModel, TaskComplete, ForceFinish,
            LastCall, Look, RetryFails, GiveUp, Answered, Cascade, AskedForTools, NextRound,
            Reply, Ending, Pause, SetLlm, RouterSet, RouterClear, RouterModel,
            RouterProfile, SetBackend, Command, turnVars
<1>3. \A b \in Backends : Sound(health'[b], blame'[b], clock', ticks')
      BY DEF HealthInv, AllSound
<1>4. ~Usable(health', clock', router_idx')
  <2>1. health'[router_idx'].until > clock' \/ health'[router_idx'].fails >= MaxFails
        BY <1>1, <1>3, RestingIsKnown
  <2>2. health'[router_idx'].until \in Nat /\ health'[router_idx'].fails \in Nat
        BY <1>1, <1>3 DEF Sound, Healths
  <2>3. QED
        BY <2>1, <2>2 DEF Usable, MaxFails
<1>5. ASSUME NEW b \in on PROVE blame'[b].bad \/ Unwanted(b)
  <2>1. Usable(health', clock', b) => Score(offer[b], health'[b].fails, class, prof) < 0
        BY <1>1, <1>4, Chosen
  <2> HIDE DEF class, prof
  <2>2. Sound(health'[b], blame'[b], clock', ticks')
        BY <1>3 DEF TurnTypeOK
  <2>3. health'[b].until \in Nat /\ health'[b].fails \in Nat
        BY <2>2 DEF Sound, Healths
  <2>4. CASE health'[b].until > clock' \/ health'[b].fails > 0
        BY <2>2, <2>4 DEF Sound
  <2>5. CASE health'[b].until <= clock' /\ health'[b].fails = 0
    <3>1. Score(offer[b], 0, class, prof) < 0
          BY <2>1, <2>5 DEF Usable, MaxFails
    <3>2. QED
          BY <3>1 DEF Unwanted, class, prof
  <2>6. QED
        BY <2>3, <2>4, <2>5
<1>6. QED
      BY <1>5

-----------------------------------------------------------------------------
(* The theorems.                                                             *)
LEMMA TurnInductive == TurnSpec => []TurnInv
<1>1. TurnInit => TurnInv
  <2> SUFFICES ASSUME TurnInit PROVE TurnInv
      OBVIOUS
  <2>1. HealthInv /\ Turning /\ CacheInv
        BY InitHealth, InitTurn, InitCache
  <2>2. clock \in Nat /\ ticks \in 0..MaxTicks
        BY TurnConstants DEF TurnInit
  <2>3. TurnTypeOK
    <3>1. \A b \in Backends : Sound(health[b], blame[b], clock, ticks)
          BY <2>1 DEF HealthInv, AllSound
    <3>2. \A b \in Backends :
            health[b].fails \in 0..MaxTicks + 1 /\ health[b].until <= health[b].at + 60
          BY <2>2, <3>1, TalliesInRange
    <3>3. QED
          BY <2>1, <2>2, <3>2 DEF TurnTypeOK, Typed, Turning
  <2>4. AnswerKept
        BY DEF TurnInit, AnswerKept
  <2>5. QED
        BY <2>1, <2>3, <2>4 DEF TurnInv, Turning
<1>2. TurnInv /\ [TurnNext]_turnVars => TurnInv'
  <2> SUFFICES ASSUME TurnInv, [TurnNext]_turnVars PROVE TurnInv'
      OBVIOUS
  <2>1. Turning /\ clock \in Nat
        BY DEF TurnInv, Turning, Typed, TurnTypeOK
  <2>2. HealthInv' /\ Turning' /\ CacheInv' /\ AnswerKept'
        BY <2>1, NextHealth, NextTurn, NextCache, NextAnswer DEF TurnInv
  <2>3. clock' \in Nat /\ ticks' \in 0..MaxTicks
        BY TimePasses DEF TurnInv, Elapsing
  <2>4. TurnTypeOK'
    <3>1. \A b \in Backends : Sound(health[b], blame[b], clock, ticks)'
          BY <2>2 DEF HealthInv, AllSound
    <3>2. \A b \in Backends :
            health'[b].fails \in 0..MaxTicks + 1 /\ health'[b].until <= health'[b].at + 60
          BY <2>3, <3>1, TalliesInRange
    <3>3. Typed'
          BY <2>2 DEF Turning
    <3>4. QED
          BY <2>3, <3>2, <3>3 DEF TurnTypeOK, Typed
  <2>5. QED
        BY <2>2, <2>4 DEF TurnInv, Turning
<1>3. QED
      BY <1>1, <1>2, PTL DEF TurnSpec

(* The state of the turn, the router and the cache keeps its type: the       *)
(* counters of rounds, repeats and failures stay within the limits of        *)
(* agent_loop and the calls made.                                            *)
THEOREM TurnTypeCorrect == TurnSpec => []TurnTypeOK
<1>1. TurnInv => TurnTypeOK
      BY DEF TurnInv
<1>2. QED
      BY <1>1, TurnInductive, PTL

(* A text that arrived is what its turn keeps and sends, even after the      *)
(* target time; a time-out is told only when a call failed; and a turn whose *)
(* last call failed keeps its time-out message, an answer it got before, or  *)
(* nothing (run_react_loop, dispatch_response).                              *)
THEOREM AnswersAlwaysKept == TurnSpec => []AnswerKept
<1>1. TurnInv => AnswerKept
      BY DEF TurnInv
<1>2. QED
      BY <1>1, TurnInductive, PTL

(* A turn answered from the cache says what the last turn with that key was  *)
(* told, within LLM_CACHE_TTL_SEC and never a time-out (llm_cache_get,       *)
(* llm_cache_put).                                                           *)
THEOREM CacheTellsTruth == TurnSpec => []CacheTruthful
<1>1. TurnInv => CacheTruthful
      BY DEF TurnInv, CacheInv
<1>2. QED
      BY <1>1, TurnInductive, PTL

(* A slot with two or three debounced failures in a row is not selected      *)
(* while it should rest, unless a failure of each other slot in use was      *)
(* reported since that slot last succeeded or was set up, or its score would *)
(* be negative without failures                                              *)
(* (router_select_internal, llm_router_report_failure).                      *)
THEOREM FailedAlwaysRest == TurnSpec => FailedOnesRest
<1>1. TurnInv /\ TurnInv' /\ [TurnNext]_turnVars =>
           [pc' # pc /\ pc' \in {"look", "retry", "cascade"} /\ router_idx' # None
              /\ Resting(blame'[router_idx'], clock')
            => \A b \in on \ {router_idx'} : blame'[b].bad \/ Unwanted(b)]_turnVars
  <2> SUFFICES ASSUME TurnInv, TurnInv', [TurnNext]_turnVars,
                      pc' # pc, pc' \in {"look", "retry", "cascade"}, router_idx' # None,
                      Resting(blame'[router_idx'], clock')
               PROVE  \A b \in on \ {router_idx'} : blame'[b].bad \/ Unwanted(b)
      OBVIOUS
  <2>1. clock' \in Nat /\ ticks' \in Nat /\ HealthInv' /\ TurnTypeOK
        BY TimePasses, TurnConstants DEF TurnInv, Elapsing
  <2>2. QED
        BY <2>1, RestingLetAlone
<1>2. QED
      BY <1>1, TurnInductive, PTL DEF TurnSpec, FailedOnesRest
=============================================================================
