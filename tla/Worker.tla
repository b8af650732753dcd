------------------------------- MODULE Worker -------------------------------
(***************************************************************************)
(* The scheduler of app/worker.py: one thread that runs whatever job is    *)
(* due, in the order of the list, and sleeps between two looks.  Times are *)
(* kept as what is left of them, so that the model needs no clock that     *)
(* grows: wait[j] is next_run_at - now, never below 0.                     *)
(***************************************************************************)
EXTENDS Naturals, Sequences

CONSTANTS
    Jobs,         \* the job list, in order
    Interval,     \* job -> interval_seconds, in units of the poll
    Delay,        \* job -> initial_delay
    MaxDuration   \* the longest a job runs

Names == {Jobs[i] : i \in DOMAIN Jobs}

ASSUME JobsAssumption ==
    /\ Jobs \in Seq(Names)
    /\ \A i, j \in DOMAIN Jobs : Jobs[i] = Jobs[j] => i = j
    /\ Interval \in [Names -> Nat \ {0}]
    /\ Delay \in [Names -> Nat]
    /\ MaxDuration \in Nat

VARIABLES
    step,      \* "sleep", "tick" (between two jobs), "run" (inside one)
    place,     \* position in the job list
    due,       \* jobs whose time had come at the `now` this tick sampled
    wait,      \* job -> time left until next_run_at
    running,   \* job -> its running flag
    lasted,    \* how long the current job has run
    stopping,  \* a signal asked the worker to stop
    rest       \* job -> time since it ended, up to its interval (properties)

loopVars == <<step, place, due, wait, running, lasted, stopping, rest>>

LoopTypeOK ==
    /\ step \in {"sleep", "tick", "run", "stopped"}
    /\ place \in 1..(Len(Jobs) + 1)
    /\ due \subseteq Names
    /\ wait \in [Names -> Nat]
    /\ running \in [Names -> BOOLEAN]
    /\ lasted \in 0..MaxDuration
    /\ stopping \in BOOLEAN
    /\ rest \in [Names -> Nat]
    \* the flag is set for the job in progress and for no other
    /\ \A j \in Names : running[j] => step = "run" /\ j = Jobs[place]
-----------------------------------------------------------------------------
Job == Jobs[place]

\* One unit of time passes.
Passes ==
    /\ wait' = [j \in Names |-> IF wait[j] > 0 THEN wait[j] - 1 ELSE 0]
    /\ rest' = [j \in Names |-> IF rest[j] < Interval[j] THEN rest[j] + 1 ELSE rest[j]]

\* Mutant: the flag is not looked at.
TickUnchecked ==
    /\ step = "sleep"
    /\ step' = "tick"
    /\ place' = 1
    /\ due' = {j \in Names : wait[j] = 0}
    /\ UNCHANGED <<wait, running, lasted, stopping, rest>>

\* run_forever looks at its flag; tick samples the clock and starts down the list.
Tick ==
    /\ step = "sleep"
    /\ ~stopping
    /\ step' = "tick"
    /\ place' = 1
    /\ due' = {j \in Names : wait[j] = 0}
    /\ UNCHANGED <<wait, running, lasted, stopping, rest>>

\* job.due(now) is false: go on to the next.
Skip ==
    /\ step = "tick"
    /\ place <= Len(Jobs)
    /\ Job \notin due \/ running[Job]
    /\ place' = place + 1
    /\ UNCHANGED <<step, due, wait, running, lasted, stopping, rest>>

\* job.due(now) is true: start it.
StartJob ==
    /\ step = "tick"
    /\ place <= Len(Jobs)
    /\ Job \in due /\ ~running[Job]
    /\ step' = "run"
    /\ running' = [running EXCEPT ![Job] = TRUE]
    /\ lasted' = 0
    /\ UNCHANGED <<place, due, wait, stopping, rest>>

\* Time passes inside a job.
Work ==
    /\ step = "run"
    /\ lasted < MaxDuration
    /\ lasted' = lasted + 1
    /\ Passes
    /\ UNCHANGED <<step, place, due, running, stopping>>

\* Mutant: fixed rate from the start.
ScheduleFromStart(j) ==
    wait' = [wait EXCEPT ![j] = IF Interval[j] > lasted THEN Interval[j] - lasted ELSE 0]

\* schedule_next: fixed delay from completion.
ScheduleNext(j) == wait' = [wait EXCEPT ![j] = Interval[j]]

\* Mutant: a job that raised stays marked as running.
ReleaseOnSuccess(j, ok) == running' = [running EXCEPT ![j] = ~ok]

\* The `finally` of tick.
Release(j, ok) == running' = [running EXCEPT ![j] = FALSE]

\* The job returns or raises.  Either way it is released, scheduled again, and
\* the list goes on.
EndJob(ok) ==
    /\ step = "run"
    /\ step' = "tick"
    /\ place' = place + 1
    /\ Release(Job, ok)
    /\ ScheduleNext(Job)
    /\ rest' = [rest EXCEPT ![Job] = 0]
    /\ lasted' = 0
    /\ UNCHANGED <<due, stopping>>

\* The end of the list: sleep one poll.
Sleep ==
    /\ step = "tick"
    /\ place > Len(Jobs)
    /\ step' = "sleep"
    /\ place' = 1
    /\ due' = {}
    /\ Passes
    /\ UNCHANGED <<running, lasted, stopping>>

\* SIGTERM or SIGINT, at any point: the handler only sets the flag.
RequestStop ==
    /\ ~stopping
    /\ stopping' = TRUE
    /\ UNCHANGED <<step, place, due, wait, running, lasted, rest>>

\* The loop of run_forever ends.
Stop ==
    /\ step = "sleep"
    /\ stopping
    /\ step' = "stopped"
    /\ UNCHANGED <<place, due, wait, running, lasted, stopping, rest>>
-----------------------------------------------------------------------------
LoopInit ==
    /\ step = "sleep"
    /\ place = 1
    /\ due = {}
    /\ wait = Delay
    /\ running = [j \in Names |-> FALSE]
    /\ lasted = 0
    /\ stopping = FALSE
    /\ rest = Interval

Loop ==
    \/ Tick \/ Skip \/ StartJob \/ Work \/ Sleep \/ Stop
    \/ \E ok \in BOOLEAN : EndJob(ok)

LoopNext == Loop \/ RequestStop

LoopSpec == LoopInit /\ [][LoopNext]_loopVars

\* The thread goes on; that every job ends within MaxDuration rests on its
\* calls having timeouts and its retries being bounded.
FairSpec == LoopSpec /\ WF_loopVars(Loop)
-----------------------------------------------------------------------------
\* "Fixed delay from completion": a job that starts has rested its whole
\* interval since it last ended, however long the others took.
RestsBetweenRuns ==
    [][\A j \in Names : ~running[j] /\ running'[j] => rest[j] >= Interval[j]]_loopVars

\* "A failing job never kills the worker", nor starves another: until a stop is
\* requested every job runs again and again.
EveryJobRuns == \A j \in Names : []<>((step = "run" /\ Job = j) \/ stopping)

\* A stop request ends the worker.
StopEnds == stopping ~> step = "stopped"
=============================================================================
