---------------------------- MODULE JobScheduler ----------------------------
(***************************************************************************)
(* internal/ops: Scheduler (scheduling.go), jobs run on an interval.       *)
(*                                                                         *)
(* Start claims the scheduler under its lock, runs a round of the jobs     *)
(* registered at that moment, each in a goroutine, waits for all of them,  *)
(* and then selects between its context and the ticker.  The ticker's      *)
(* channel holds one tick: it fires during a round too, and what does not  *)
(* fit is dropped.  When both channels are ready select takes either, so a *)
(* cancelled Start may begin further rounds.                               *)
(*                                                                         *)
(* A starter is a goroutine that calls Start with a context of its own; a  *)
(* job is named by its place in `jobs`, so one function added twice is two *)
(* jobs.  Jobs return in the end, the Long ones only once the context they *)
(* were given is cancelled.                                                *)
(***************************************************************************)
EXTENDS Naturals, FiniteSets

CONSTANTS
  Starters,
  MaxJobs,   \* bound on the jobs added
  Long       \* the jobs, by place, that run until their context is cancelled

VARIABLES
  jobs,       \* Len(Scheduler.jobs)
  active,     \* Scheduler.active
  at,         \* per starter, where in Start it is
  running,    \* per starter, the jobs of its round that have not returned
  done,       \* per starter, its context is done
  tick        \* per starter, the channel of its ticker holds a tick

schedVars == <<jobs, active, at, running, done, tick>>

Jobs == 1 .. MaxJobs

Inside == {s \in Starters : at[s] \in {"round", "jobs", "select", "leave"}}

SchedInit == /\ jobs = 0
             /\ active = FALSE
             /\ at = [s \in Starters |-> "new"]
             /\ running = [s \in Starters |-> {}]
             /\ done = [s \in Starters |-> FALSE]
             /\ tick = [s \in Starters |-> FALSE]

Goto(s, pc) == at' = [at EXCEPT ![s] = pc]

Add == /\ jobs < MaxJobs
       /\ jobs' = jobs + 1
       /\ UNCHANGED <<active, at, running, done, tick>>

CancelStart(s) == /\ ~done[s]
                  /\ done' = [done EXCEPT ![s] = TRUE]
                  /\ UNCHANGED <<jobs, active, at, running, tick>>

\* Start's first critical section; it returns if the scheduler is active.
Claim(s) == /\ at[s] = "new"
            /\ active' = TRUE
            /\ Goto(s, IF active THEN "returned" ELSE "round")
            /\ UNCHANGED <<jobs, running, done, tick>>

\* run: a goroutine for every job of the snapshot.
Round(s) == /\ at[s] = "round"
            /\ running' = [running EXCEPT ![s] = 1 .. jobs]
            /\ Goto(s, "jobs")
            /\ UNCHANGED <<jobs, active, done, tick>>

JobReturns(s, j) == /\ j \in running[s]
                    /\ j \in Long => done[s]
                    /\ running' = [running EXCEPT ![s] = @ \ {j}]
                    /\ UNCHANGED <<jobs, active, at, done, tick>>

\* Mutant: run without its wg.Wait.
RoundLeft(s) == /\ at[s] = "jobs"
                /\ Goto(s, "select")
                /\ UNCHANGED <<jobs, active, running, done, tick>>

\* wg.Wait returns.
RoundOver(s) == /\ at[s] = "jobs"
                /\ running[s] = {}
                /\ Goto(s, "select")
                /\ UNCHANGED <<jobs, active, running, done, tick>>

Tick(s) == /\ s \in Inside
           /\ ~tick[s]
           /\ tick' = [tick EXCEPT ![s] = TRUE]
           /\ UNCHANGED <<jobs, active, at, running, done>>

SelectTick(s) == /\ at[s] = "select"
                 /\ tick[s]
                 /\ tick' = [tick EXCEPT ![s] = FALSE]
                 /\ Goto(s, "round")
                 /\ UNCHANGED <<jobs, active, running, done>>

\* Mutant: the context is only looked at between ticks.
SelectDoneIdle(s) == /\ at[s] = "select"
                     /\ done[s] /\ ~tick[s]
                     /\ Goto(s, "leave")
                     /\ UNCHANGED <<jobs, active, running, done, tick>>

SelectDone(s) == /\ at[s] = "select"
                 /\ done[s]
                 /\ Goto(s, "leave")
                 /\ UNCHANGED <<jobs, active, running, done, tick>>

\* The deferred functions, the flag first and then the ticker.
Leave(s) == /\ at[s] = "leave"
            /\ active' = FALSE
            /\ Goto(s, "returned")
            /\ UNCHANGED <<jobs, running, done, tick>>

SchedNext ==
  \/ Add
  \/ \E s \in Starters :
       \/ CancelStart(s) \/ Claim(s) \/ Round(s) \/ RoundOver(s)
       \/ \E j \in Jobs : JobReturns(s, j)
       \/ Tick(s) \/ SelectTick(s) \/ SelectDone(s) \/ Leave(s)

SchedSpec == SchedInit /\ [][SchedNext]_schedVars

\* Goroutines that can go on do, jobs return, the ticker fires; and select,
\* which picks among its ready channels at random, does not pass over the
\* context's for ever.
SchedFair ==
  \A s \in Starters :
    /\ WF_schedVars(Claim(s) \/ Round(s) \/ RoundOver(s) \/ Leave(s))
    /\ WF_schedVars(Tick(s))
    /\ WF_schedVars(SelectTick(s))
    /\ SF_schedVars(SelectDone(s))
    /\ \A j \in Jobs : WF_schedVars(JobReturns(s, j))

-----------------------------------------------------------------------------

\* A job has at most one run at any time, over all the calls of Start that
\* come and go: the flag lets one of them past and is set exactly while one is,
\* and that one leaves nothing running when it begins a round or leaves.
OneRunPerJob ==
  /\ Cardinality(Inside) <= 1
  /\ active = (Inside # {})
  /\ \A s \in Starters : running[s] # {} => at[s] = "jobs"

\* "supports graceful shutdown": cancelling the context ends Start, whatever
\* the ticker does and however many rounds a slow job has it catch up on.
CancelEndsStart == \A s \in Starters : done[s] ~> at[s] = "returned"

=============================================================================
