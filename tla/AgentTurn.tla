------------------------------ MODULE AgentTurn -----------------------------
(* One message after the other through the agent: agent_loop_task and        *)
(* run_react_loop of core/agent_loop.c, the router that picks a backend for  *)
(* the model (llm/llm_router.c), the cache of answers (llm/llm_cache.c) and  *)
(* the shell commands that change the router meanwhile (channels/cmd_llm.c). *)
(*                                                                           *)
(* A step of the turn is one call to the model with what follows from it.    *)
(* The backend it uses is applied at the call, in the step after the one     *)
(* that selected it, as the shell may come in between.  What is said is left *)
(* out, and so is the message that some channels get while the agent works:  *)
(* an answer is known by the turn that made it and by its kind.  The         *)
(* preference for low latency is any number from 0 to 9.                     *)
EXTENDS Integers, Sequences, FiniteSets

CONSTANTS
  Questions,    \* what may be asked
  Class,        \* of each: "fast" without the model, or its complexity
  Pictures,     \* those that come with an image
  Key,          \* of each: the hash of its first 64 characters
  NoKey,        \* the key of an empty slot
  Backends,     \* the slots of the router: 1..n
  Loaded,       \* of the slots in the configuration: priority and cost_tier
  Presets,      \* the cost_tier a slot gets from set_llm and router_set
  Calls,        \* calls the model may ask for: <<tool, arguments>>
  LocalTools,   \* the tools that only work on files
  MaxRounds,    \* AGENT_AI_AGENT_MAX_TOOL_ITER
  MaxRepeats,   \* AGENT_TOOL_NAME_REPEAT_MAX
  Slots,        \* LLM_CACHE_SLOTS
  Pauses,       \* seconds that may pass between two messages
  Configured,   \* the profile in the configuration
  Boot,         \* the time the agent starts at
  MaxTurns,     \* bound: messages
  MaxTicks      \* bound: what is counted in ticks

Limit    == 60    \* AGENT_LLM_TIMEOUT_SEC
Slow     == 61    \* what a call over the limit takes
Debounce == 5     \* BACKOFF_DEBOUNCE_SEC
Recovery == 300   \* RECOVERY_INTERVAL_SEC
MaxFails == 3     \* MAX_CONSECUTIVE_FAILURES
Ttl      == 300   \* LLM_CACHE_TTL_SEC
None     == 0     \* no backend, no turn

Classes  == {"fast", "simple", "medium", "complex"}
Profiles == {"auto", "eco", "premium"}
Kinds    == {"answer", "late", "error"}
Offers   == [priority : Int, tier : Int]
Stages   == {"wait", "look", "call", "retry", "cascade", "finish", "force", "reply"}

ASSUME AgentTurnAssumption ==
  /\ Questions # {}
  /\ Class \in [Questions -> Classes] /\ Pictures \subseteq Questions
  /\ NoKey \notin {Key[q] : q \in Questions}
  /\ Cardinality(Backends) \in 1..4 /\ Backends = 1..Cardinality(Backends)
  /\ DOMAIN Loaded \subseteq Backends /\ Loaded \in [DOMAIN Loaded -> Offers]
  /\ Presets \subseteq Int
  /\ {MaxRounds, MaxRepeats, Slots} \subseteq Nat \ {0}
  /\ Pauses \cup {MaxTurns, MaxTicks} \subseteq Nat
  /\ Boot \in Nat /\ Boot > Recovery /\ Configured \in Profiles

VARIABLES
  clock,     \* time()
  profile,   \* s_profile
  on,        \* the slots in use
  offer,     \* of each slot: priority and cost_tier
  health,    \* of each slot: fail_count, last_fail_ts, backoff_until
  applied,   \* the backend whose address and key the proxy holds
  slots,     \* the cache: [key, text, ts]
  pc,        \* where the turn is
  asked,     \* its question
  router_idx,  \* the slot the turn reports to
  rounds,    \* iteration
  sig,       \* prev_sig and prev_name: the last single tool call
  dup,       \* dup_count
  again,     \* name_repeat
  text,      \* final_text, or the cheap answer a retry may fall back to
  sent,      \* what this turn put on the outbound queue
  kept,      \* what it added to the session
  last,      \* history: the outcome of its last call to the model
  hit,       \* history: it was answered from the cache
  blame,     \* history: of each slot, the failures reported: when, since a success or
             \*   a change of its model, and whether any since a success
  given,     \* history: of each key, the last answer given and when
  turns,     \* history: messages taken
  ticks      \* history: pauses, slow calls, calls for tools, messages that need no model
             \*   and shell commands

router   == <<profile, on, offer, health>>
turn     == <<asked, router_idx, rounds, sig, dup, again, text>>
seen     == <<last, hit, blame, given>>
turnVars == <<clock, router, applied, slots, pc, turn, sent, kept, seen, turns, ticks>>

Clean(t)    == [since |-> t, at |-> <<>>, bad |-> FALSE]   \* a success at t
Heard(p, t) == [since |-> p.since, at |-> Append(p.at, t), bad |-> TRUE]
Fresh       == [fails |-> 0, at |-> 0, until |-> 0]
Empty       == [priority |-> 0, tier |-> 0]
NoText  == [turn |-> None, kind |-> "error"]
Said(k) == [turn |-> turns, kind |-> k]
NoCall  == <<>>
Simple  == Class[asked] = "simple"

TurnInit ==
  /\ clock = Boot /\ profile = Configured
  /\ on = DOMAIN Loaded /\ offer = [b \in Backends |-> IF b \in on THEN Loaded[b] ELSE Empty]
  /\ health = [b \in Backends |-> Fresh]
  /\ applied = 1
  /\ slots = [i \in 1..Slots |-> [key |-> NoKey, text |-> NoText, ts |-> 0]]
  /\ pc = "wait" /\ asked = CHOOSE q \in Questions : TRUE
  /\ router_idx = None /\ rounds = 0 /\ sig = NoCall /\ dup = 0 /\ again = 0 /\ text = NoText
  /\ sent = <<>> /\ kept = <<>>
  /\ last = "none" /\ hit = FALSE
  /\ blame = [b \in Backends |-> Clean(0)]
  /\ given = [k \in {Key[q] : q \in Questions} |-> [text |-> NoText, at |-> 0]]
  /\ turns = 0 /\ ticks = 0

-----------------------------------------------------------------------------
(* The router.                                                               *)

(* Mutant of Recovered: a slot is tried again when its back-off is over.     *)
RecoveredAtOnce(h, t) ==
  [b \in Backends |-> IF h[b].until <= t /\ h[b].fails >= MaxFails
                      THEN [h[b] EXCEPT !.fails = 0] ELSE h[b]]

(* At time t, a slot that was given up long enough ago is tried again.       *)
Recovered(h, t) ==
  [b \in Backends |->
     IF h[b].until <= t /\ h[b].fails >= MaxFails /\ t - h[b].at >= Recovery
     THEN [h[b] EXCEPT !.fails = 0] ELSE h[b]]

Suits(tier, class) ==
  \/ class = "simple"  /\ tier <= 1
  \/ class = "medium"  /\ tier = 1
  \/ class = "complex" /\ tier >= 2

Score(what, fails, class, prof) ==
  100 - 10 * what.priority - 15 * fails
    + CASE prof = "eco"     -> 30 * (3 - what.tier)
        [] prof = "premium" -> 30 * what.tier
        [] prof = "auto"    -> IF Suits(what.tier, class) THEN 20 ELSE 0

(* The slots router_select_internal may return, for some latencies: the best *)
(* usable one, of those whose score is not negative; if there is none, the   *)
(* one whose back-off ends first.                                            *)
Select(h, t, class, prof) ==
  LET Usable  == {b \in on : h[b].until <= t /\ h[b].fails < MaxFails}
      Waiting == {b \in on : h[b].until > t}
      S(b)    == Score(offer[b], h[b].fails, class, prof)
      Best    == {b \in Usable : /\ S(b) + 9 >= 0
                                 /\ \A o \in Usable : \/ S(b) + 9 > S(o)
                                                      \/ S(b) + 9 = S(o) /\ b <= o}
      Soonest == {b \in Waiting : \A o \in Waiting :
                    h[b].until < h[o].until \/ (h[b].until = h[o].until /\ b <= o)}
      Nothing == \A b \in Usable : S(b) < 0
  IN Best \cup (IF ~Nothing THEN {} ELSE IF Waiting # {} THEN Soonest ELSE {None})

(* Seconds without calls after the n-th failure in a row.                    *)
Backoff(n) == IF n < 2 THEN 0 ELSE <<2, 4, 8, 16, 32, 60>>[IF n < 7 THEN n - 1 ELSE 6]

(* llm_router_report_failure and llm_router_report_success.                  *)
Failed(h, b, t) ==
  LET n == IF t - h[b].at >= Debounce THEN h[b].fails + 1 ELSE h[b].fails
  IN [h EXCEPT ![b] = [fails |-> n, at |-> t, until |-> IF n < 2 THEN 0 ELSE t + Backoff(n)]]

Succeeded(h, b) ==
  IF b = None THEN h ELSE [h EXCEPT ![b] = [@ EXCEPT !.fails = 0, !.until = 0]]

(* llm_router_select: b is what it returns when the health was h.            *)
Pick(b, h, t, class, prof) ==
  /\ b \in Select(Recovered(h, t), t, class, prof)
  /\ health' = Recovered(h, t)

(* llm_router_apply, which leaves the proxy alone when the slot is empty.    *)
Apply == applied' = IF router_idx \in on THEN router_idx ELSE applied

(* What the router hears of the slot it selected, whichever backend was      *)
(* called: the shell may have applied another one meanwhile.                 *)
Blame(t) == blame' = IF router_idx # None
                     THEN [blame EXCEPT ![router_idx] = Heard(@, t)] ELSE blame
Praise   == blame' = IF router_idx # None
                     THEN [blame EXCEPT ![router_idx] = Clean(clock')] ELSE blame

-----------------------------------------------------------------------------
(* The cache.                                                                *)
Holding(k) == {i \in 1..Slots : slots[i].key = k}
First(set) == CHOOSE i \in set : \A j \in set : i <= j

(* The slot llm_cache_put writes.                                            *)
Target(k) ==
  IF Holding(k) # {} THEN First(Holding(k))
  ELSE First({i \in 1..Slots : \A j \in 1..Slots : slots[i].ts <= slots[j].ts})

(* Mutant of Cacheable: the message that reports a time-out is cached.       *)
AnyText == Simple /\ text # NoText

Cacheable == Simple /\ text # NoText /\ text.kind # "late"

Put ==
  IF Cacheable
  THEN /\ slots' = [slots EXCEPT ![Target(Key[asked])] =
                               [key |-> Key[asked], text |-> text, ts |-> clock]]
       /\ given' = [given EXCEPT ![Key[asked]] = [text |-> text, at |-> clock]]
  ELSE UNCHANGED <<slots, given>>

-----------------------------------------------------------------------------
(* The turn.                                                                 *)

(* agent_loop_task takes a message.                                          *)
Begin(q) ==
  /\ pc = "wait" /\ turns < MaxTurns
  /\ turns' = turns + 1 /\ asked' = q
  /\ last' = "none" /\ hit' = FALSE
  /\ UNCHANGED <<clock, rounds, sig, dup, again, text, profile, on, offer, applied, slots, blame,
                 given>>

WithoutModel ==
  /\ ticks < MaxTicks /\ ticks' = ticks + 1
  /\ UNCHANGED <<pc, router_idx, health>>

(* A command, a refusal or a known phrase is answered without the model.     *)
TakeFast(q) ==
  /\ Begin(q) /\ Class[q] = "fast"
  /\ sent' = <<[turn |-> turns', kind |-> "answer"]>>
  /\ kept' = <<>>
  /\ WithoutModel

(* handle_vision_message.                                                    *)
TakePicture(q) ==
  /\ Begin(q) /\ q \in Pictures /\ Class[q] # "fast"
  /\ LET what == [turn |-> turns', kind |-> "answer"]
     IN /\ sent' = <<what>>
        /\ kept' = <<[question |-> q, text |-> what]>>
  /\ WithoutModel

Take(q) ==
  /\ Begin(q) /\ Class[q] # "fast"
  /\ sent' = <<>> /\ kept' = <<>>
  /\ \E b \in Backends \cup {None} :
       Pick(b, health, clock, Class[q], profile) /\ router_idx' = b
  /\ pc' = "look" /\ UNCHANGED ticks

(* The slot is applied and a simple question looked up.                      *)
Look ==
  /\ pc = "look" /\ Apply
  /\ LET found == {i \in Holding(Key[asked]) : Simple /\ slots[i].text # NoText}
         live  == {i \in found : clock - slots[i].ts <= Ttl}
     IN \/ /\ \E i \in live : text' = slots[i].text
           /\ hit' = TRUE /\ pc' = "reply"
           /\ UNCHANGED slots
        \/ /\ live = {}
           /\ slots' = [i \in 1..Slots |-> IF i \in found
                          THEN [slots[i] EXCEPT !.text = NoText, !.key = NoKey] ELSE slots[i]]
           /\ pc' = "call" /\ UNCHANGED <<text, hit>>
  /\ UNCHANGED <<clock, router, asked, router_idx, rounds, sig, dup, again, sent, kept, last, blame,
                 given, turns, ticks>>

(* A call to the model takes its time, sometimes more than the limit.        *)
Taking(slow, outcome) ==
  /\ clock' = IF slow THEN clock + Slow ELSE clock
  /\ IF slow \/ outcome = "tools" THEN ticks < MaxTicks /\ ticks' = ticks + 1
     ELSE ticks' = ticks

Call(slow, outcome) ==
  /\ Taking(slow, outcome) /\ last' = outcome
  /\ UNCHANGED <<profile, on, offer, slots, asked, sent, kept, hit, given, turns>>

Ending(what) == text' = what /\ pc' = "reply"
Unused       == UNCHANGED <<rounds, sig, dup, again>>

GiveUp(slow) == Ending(IF slow THEN Said("late") ELSE NoText) /\ Unused

(* The call failed: the router hears of it and another slot is tried.        *)
CallFails ==
  /\ pc = "call"
  /\ UNCHANGED applied
  /\ \E slow \in BOOLEAN :
       /\ Call(slow, "fail") /\ Blame(clock')
       /\ \/ /\ router_idx = None /\ GiveUp(slow) /\ UNCHANGED <<router_idx, health>>
          \/ /\ router_idx # None
             /\ \E b \in Backends \cup {None} :
                  /\ Pick(b, Failed(health, router_idx, clock'), clock', Class[asked], profile)
                  /\ \/ b \in {None, router_idx} /\ GiveUp(slow) /\ UNCHANGED router_idx
                     \/ /\ b \notin {None, router_idx} /\ router_idx' = b /\ pc' = "retry"
                        /\ Unused /\ UNCHANGED text

RetryFails ==
  /\ pc = "retry" /\ Apply
  /\ \E slow \in BOOLEAN : Call(slow, "fail") /\ GiveUp(slow)
  /\ UNCHANGED <<router_idx, health, blame>>

(* The call, or its retry, succeeded.                                        *)
CallSucceeds(slow, outcome) ==
  /\ \/ pc = "call"  /\ UNCHANGED applied
     \/ pc = "retry" /\ Apply
  /\ Call(slow, outcome) /\ Praise

(* Mutant of Answered: an answer over the time limit is thrown away.         *)
AnsweredInTime ==
  /\ \E slow \in BOOLEAN, outcome \in {"text", "empty"} :
       /\ CallSucceeds(slow, outcome)
       /\ Ending(IF slow THEN Said("late") ELSE IF outcome = "text" THEN Said("answer") ELSE NoText)
  /\ health' = Succeeded(health, router_idx)
  /\ Unused /\ UNCHANGED router_idx

(* With a text, or nothing.                                                  *)
Answered ==
  /\ \E slow \in BOOLEAN, outcome \in {"text", "empty"} :
       /\ CallSucceeds(slow, outcome)
       /\ Ending(IF outcome = "text" THEN Said("answer") ELSE NoText)
  /\ health' = Succeeded(health, router_idx)
  /\ Unused /\ UNCHANGED router_idx

(* With a text that admits it does not know.                                 *)
AnsweredPoorly ==
  /\ profile = "auto" /\ Simple /\ router_idx # None
  /\ \E slow \in BOOLEAN :
       /\ CallSucceeds(slow, "text")
       /\ \E b \in Backends \cup {None} :
            /\ Pick(b, Succeeded(health, router_idx), clock', "medium", "premium")
            /\ text' = Said("answer")
            /\ IF b \in {None, router_idx} THEN pc' = "reply" /\ UNCHANGED router_idx
               ELSE pc' = "cascade" /\ router_idx' = b
  /\ Unused

Cascade ==
  /\ pc = "cascade" /\ Apply
  /\ \E slow \in BOOLEAN, outcome \in {"text", "empty", "fail"} :
       /\ Call(slow, outcome)
       /\ Ending(IF outcome = "fail" /\ slow THEN Said("late") ELSE text)
  /\ Unused /\ UNCHANGED <<router_idx, health, blame>>

(* With tool calls: one, <<name, arguments>>, or several, which run in       *)
(* threads.  The output of one may end the turn, but not that of a tool that *)
(* reads a skill, unless it says TASK_COMPLETE.                              *)
ToolCalls == Calls \cup {NoCall}
Outputs   == {"shown", "complete", "quiet"}

(* check_tool_dup.                                                           *)
SameCalls(c) == IF c = sig THEN dup + 1 ELSE 0
SameNames(c) == IF sig # NoCall /\ c[1] = sig[1] THEN again + 1 ELSE 0
Stuck(c)     == c # NoCall /\ (SameCalls(c) >= 2 \/ SameNames(c) >= MaxRepeats)

Remember(c) ==
  /\ sig' = c
  /\ dup' = IF c = NoCall THEN 0 ELSE SameCalls(c)
  /\ again' = IF c = NoCall THEN 0 ELSE SameNames(c)

(* Mutant of NextRound: the limit allows a round more.                       *)
NextRoundAndOne ==
  /\ rounds' = rounds + 1
  /\ pc' = IF rounds + 1 > MaxRounds THEN "force" ELSE "call"
  /\ UNCHANGED text

NextRound ==
  /\ rounds' = rounds + 1
  /\ pc' = IF rounds + 1 = MaxRounds THEN "force" ELSE "call"
  /\ UNCHANGED text

AskedForTools ==
  /\ \E slow \in BOOLEAN : CallSucceeds(slow, "tools")
  /\ \E c \in ToolCalls, output \in Outputs :
       LET file == c # NoCall /\ c[1] \in LocalTools /\ output = "shown"
           complete == c # NoCall /\ output = "complete"
       IN /\ Remember(c)
          /\ \/ Stuck(c) /\ Ending(NoText) /\ UNCHANGED rounds
             \/ ~Stuck(c) /\ file /\ Ending(Said("answer")) /\ UNCHANGED rounds
             \/ ~Stuck(c) /\ complete /\ pc' = "finish" /\ UNCHANGED <<rounds, text>>
             \/ ~Stuck(c) /\ ~file /\ ~complete /\ NextRound
  /\ health' = Succeeded(health, router_idx)
  /\ UNCHANGED router_idx

(* One more call, without tools and without the router.                      *)
LastCall ==
  /\ \E slow \in BOOLEAN, outcome \in {"text", "empty", "fail"} :
       /\ Call(slow, outcome)
       /\ \/ outcome = "text" /\ Ending(Said("answer"))
          \/ outcome = "fail" /\ slow /\ Ending(Said("late"))
          \/ (outcome = "empty" \/ (outcome = "fail" /\ ~slow)) /\ Ending(NoText)
  /\ Unused /\ UNCHANGED <<applied, router_idx, health, blame>>

TaskComplete == pc = "finish" /\ LastCall
ForceFinish  == pc = "force" /\ LastCall

(* The end of run_react_loop, and dispatch_response.  The queue may refuse   *)
(* what is pushed, which MessageBus is about.                                *)
Reply ==
  /\ pc = "reply" /\ pc' = "wait"
  /\ Put
  /\ kept' = IF text = NoText THEN <<>> ELSE <<[question |-> asked, text |-> text]>>
  /\ sent' = <<text>>
  /\ router_idx' = None /\ rounds' = 0 /\ sig' = NoCall /\ dup' = 0 /\ again' = 0 /\ text' = NoText
  /\ UNCHANGED <<clock, router, applied, asked, last, hit, blame, turns, ticks>>

-----------------------------------------------------------------------------
(* Around it.                                                                *)
Pause ==
  /\ pc = "wait" /\ ticks < MaxTicks
  /\ \E d \in Pauses : clock' = clock + d
  /\ ticks' = ticks + 1
  /\ UNCHANGED <<router, applied, slots, pc, turn, sent, kept, seen, turns>>

Command ==
  /\ ticks < MaxTicks /\ ticks' = ticks + 1
  /\ UNCHANGED <<clock, slots, pc, turn, sent, kept, last, hit, given, turns>>

(* llm_router_set_backend with a new backend, or with an empty one.          *)
SetBackend(b, what) ==
  /\ Command
  /\ offer' = [offer EXCEPT ![b] = what]
  /\ health' = [health EXCEPT ![b] = Fresh]
  /\ blame' = [blame EXCEPT ![b] = Clean(0)]
  /\ UNCHANGED profile

(* router_set takes the first slot that is empty, or one before it that has  *)
(* the same host; set_llm takes slot 0 and applies it at once.               *)
RouterSet(b) ==
  /\ \A o \in 1..b - 1 : o \in on
  /\ \E tier \in Presets : SetBackend(b, [priority |-> b - 1, tier |-> tier])
  /\ on' = on \cup {b} /\ UNCHANGED applied

SetLlm ==
  /\ \E tier \in Presets : SetBackend(1, [priority |-> 0, tier |-> tier])
  /\ on' = on \cup {1} /\ applied' = 1

RouterClear(b) == SetBackend(b, Empty) /\ on' = on \ {b} /\ UNCHANGED applied

(* router_model writes a copy back, with no failures but its back-off.       *)
RouterModel(b) ==
  /\ Command /\ b \in on
  /\ health' = [health EXCEPT ![b].fails = 0]
  /\ blame' = [blame EXCEPT ![b] = [since |-> clock, at |-> <<>>, bad |-> @.bad]]
  /\ UNCHANGED <<profile, on, offer, applied>>

RouterProfile(p) ==
  /\ Command /\ profile' = p /\ UNCHANGED <<on, offer, health, applied, blame>>

Agent ==
  \/ Look \/ CallFails \/ RetryFails \/ Answered \/ AnsweredPoorly
  \/ Cascade \/ AskedForTools \/ TaskComplete \/ ForceFinish
  \/ Reply

TurnNext ==
  \/ Agent \/ Pause \/ SetLlm
  \/ \E q \in Questions : TakeFast(q) \/ TakePicture(q) \/ Take(q)
  \/ \E b \in Backends : RouterSet(b) \/ RouterClear(b) \/ RouterModel(b)
  \/ \E p \in Profiles : RouterProfile(p)

TurnSpec == TurnInit /\ [][TurnNext]_turnVars

-----------------------------------------------------------------------------
TurnTypeOK ==
  /\ clock \in Nat /\ profile \in Profiles /\ on \subseteq Backends
  /\ offer \in [Backends -> Offers]
  /\ \A b \in Backends : /\ health[b].fails \in 0..MaxTicks + 1
                         /\ health[b].until <= health[b].at + 60
  /\ applied \in Backends /\ router_idx \in Backends \cup {None}
  /\ pc \in Stages /\ asked \in Questions
  /\ rounds \in 0..MaxRounds /\ (pc = "call" => rounds < MaxRounds)
  /\ sig \in ToolCalls /\ dup \in 0..2 /\ again \in 0..MaxRepeats
  /\ text.turn \in 0..turns /\ text.kind \in Kinds
  /\ Len(sent) <= 1 /\ Len(kept) <= 1
  /\ last \in {"none", "text", "empty", "tools", "fail"} /\ hit \in BOOLEAN
  /\ turns \in 0..MaxTurns /\ ticks \in 0..MaxTicks

(* "never discard that valid result merely because the synchronous call      *)
(* exceeded the target": when the last call of a turn brought a text, that   *)
(* turn's text is what the session keeps and the user is sent, whatever went *)
(* wrong before it; the user hears of a time-out only when a call failed.    *)
(* What is sent and what is kept agree.  A turn whose last call failed keeps *)
(* the message that reports its time-out, or the answer a cheaper backend    *)
(* gave in it before, or nothing; and who is told nothing that is kept is    *)
(* told that there was an error.                                             *)
AnswerKept ==
  pc = "wait" /\ turns > 0 =>
    /\ last = "text" =>
         kept # <<>> /\ kept[1].text = Said("answer")
    /\ kept # <<>> =>
         /\ kept[1].question = asked
         /\ kept[1].text.kind = "late" => last = "fail"
         /\ last = "fail" => kept[1].text \in {Said("late"), Said("answer")}
         /\ sent = <<kept[1].text>>
    /\ kept = <<>> =>
         sent = <<NoText>> \/ (Class[asked] = "fast" /\ sent = <<Said("answer")>>)

(* An answer out of the cache is the last one given to the same question, it *)
(* was given at most LLM_CACHE_TTL_SEC ago, and it does not report a         *)
(* time-out of the turn that made it.                                        *)
CacheTruthful ==
  pc = "reply" /\ hit =>
    LET k == Key[asked]
    IN /\ text = given[k].text /\ text.turn < turns
       /\ clock - given[k].at <= Ttl
       /\ text.kind # "late"

(* A backend that failed is let alone for a while: three failures in a row,  *)
(* each at least BACKOFF_DEBOUNCE_SEC after the one before, and the router   *)
(* does not choose it for 300 seconds, two and not for two seconds, unless   *)
(* of every other slot in use a failure was reported since it last worked,   *)
(* or its score is negative even without failures: such a slot is never      *)
(* chosen, not even when all others wait.                                    *)
Counted(p) == {i \in DOMAIN p.at :
                 p.at[i] - (IF i = 1 THEN p.since ELSE p.at[i - 1]) >= Debounce}
Resting(p, t) ==
  /\ p.at # <<>>
  /\ \A i \in DOMAIN p.at : i > 1 => p.at[i] - p.at[i - 1] < Recovery
  /\ LET gone == t - p.at[Len(p.at)]
     IN \/ Cardinality(Counted(p)) >= MaxFails /\ gone < Recovery
        \/ Cardinality(Counted(p)) >= 2 /\ gone < 2
Unwanted(b) == IF pc' = "cascade" THEN Score(offer[b], 0, "medium", "premium") < 0
               ELSE Score(offer[b], 0, Class[asked'], profile) < 0
FailedOnesRest ==
  [][pc' # pc /\ pc' \in {"look", "retry", "cascade"} /\ router_idx' # None
       /\ Resting(blame'[router_idx'], clock')
     => \A b \in on \ {router_idx'} : blame'[b].bad \/ Unwanted(b)]_turnVars
=============================================================================
