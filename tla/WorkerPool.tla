----------------------------- MODULE WorkerPool -----------------------------
(***************************************************************************)
(* The goroutine pool of daemon/consumer/pool.go: a bounded channel of     *)
(* tasks, worker goroutines, the adjuster that grows and shrinks their     *)
(* number between two limits, reconfiguration and stopping.                *)
(*                                                                         *)
(* A worker that is cancelled ends only when it next selects, so that it   *)
(* is still counted while its task runs.  A select with several cases      *)
(* ready takes any of them.                                                *)
(***************************************************************************)
EXTENDS Naturals, Sequences, FiniteSets

CONSTANTS Tasks, NoTask,
          Workers,          \* identities of goroutines: bounds the spawns of one pool
          Configs,          \* the WorkerPoolConfigs the pool may be given
          StartConfig,      \* the one it starts with
          BufferPerWorker   \* 4 in newWorkerPool

ConfigType == [min : Nat, max : Nat \ {0}, up : Nat, down : Nat]

ASSUME PoolAssumption ==
  /\ Configs \subseteq ConfigType /\ StartConfig \in Configs
  /\ StartConfig.min <= StartConfig.max
  /\ NoTask \notin Tasks
  /\ IsFiniteSet(Workers)
  /\ \E W \in SUBSET Workers : Cardinality(W) = StartConfig.min
  /\ BufferPerWorker \in Nat \ {0}

VARIABLES
  tasks,      \* the channel
  wstate,     \* wstate[w]: "unborn", "idle" (about to select), "busy" or "gone"
  job,        \* job[w]: the task a busy worker executes
  draining,   \* workers in the loop that empties the channel after Stop
  cancelled,  \* workers whose context is cancelled
  cancels,    \* w.cancels: the workers that may be cancelled, latest last
  limits,     \* minWorkers, maxWorkers, scaleUpPct, scaleDownPct
  closed,     \* Stop has set stopped and closed the stop channel
  adjuster,   \* "wait", "up" or "down" (decided, not done), "ended"
  cool        \* the cooldown since the last scaling is over

poolVars == <<tasks, wstate, job, draining, cancelled, cancels, limits, closed,
              adjuster, cool>>
workerVars == <<wstate, job, draining, cancelled, cancels>>

Cap == StartConfig.max * BufferPerWorker

\* metrics.workers
Live == {w \in Workers : wstate[w] \in {"idle", "busy"}}

\* The members of W in some order.
Sequence(W) ==
  CHOOSE s \in [1..Cardinality(W) -> W] : \A w \in W : \E i \in 1..Cardinality(W) : s[i] = w

\* newWorkerPool spawns StartConfig.min workers and the adjuster.
FirstWorkers == CHOOSE W \in SUBSET Workers : Cardinality(W) = StartConfig.min

NewWorkers == [w \in Workers |-> IF w \in FirstWorkers THEN "idle" ELSE "unborn"]
NoJobs     == [w \in Workers |-> NoTask]

PoolInit ==
  /\ tasks = <<>> /\ limits = StartConfig /\ closed = FALSE
  /\ adjuster = "wait" /\ cool = TRUE
  /\ wstate = NewWorkers /\ job = NoJobs
  /\ draining = {} /\ cancelled = {} /\ cancels = Sequence(FirstWorkers)

\* A new pool takes the place of the one there was.
newWorkerPool ==
  /\ tasks' = <<>> /\ limits' = StartConfig /\ closed' = FALSE
  /\ adjuster' = "wait" /\ cool' = TRUE
  /\ wstate' = NewWorkers /\ job' = NoJobs
  /\ draining' = {} /\ cancelled' = {} /\ cancels' = Sequence(FirstWorkers)

-----------------------------------------------------------------------------
\* Submit blocks while the channel is full, until there is room or the pool stops.
Submitted(t) ==
  /\ Len(tasks) < Cap
  /\ tasks' = Append(tasks, t)
  /\ UNCHANGED <<workerVars, limits, closed, adjuster, cool>>

SubmitRefused(t) ==
  /\ closed
  /\ UNCHANGED poolVars

-----------------------------------------------------------------------------
\* The goroutine of a worker

\* It takes a task, cancelled, stopped or neither.
Take(w) ==
  /\ wstate[w] = "idle" /\ tasks # <<>>
  /\ job' = [job EXCEPT ![w] = Head(tasks)]
  /\ tasks' = Tail(tasks)
  /\ wstate' = [wstate EXCEPT ![w] = "busy"]
  /\ UNCHANGED <<draining, cancelled, cancels, limits, closed, adjuster, cool>>

Executed(w) ==
  /\ wstate[w] = "busy"
  /\ wstate' = [wstate EXCEPT ![w] = "idle"]
  /\ job' = [job EXCEPT ![w] = NoTask]
  /\ UNCHANGED <<tasks, draining, cancelled, cancels, limits, closed, adjuster, cool>>

SeeStop(w) ==
  /\ wstate[w] = "idle" /\ closed /\ w \notin draining
  /\ draining' = draining \cup {w}
  /\ UNCHANGED <<tasks, wstate, job, cancelled, cancels, limits, closed, adjuster, cool>>

\* A worker that watches its own context only.
LeaveWhenCancelled(w) ==
  /\ wstate[w] = "idle" /\ w \in cancelled
  /\ wstate' = [wstate EXCEPT ![w] = "gone"]
  /\ UNCHANGED <<tasks, job, draining, cancelled, cancels, limits, closed, adjuster, cool>>

\* It ends when cancelled, or when it has seen the stop and the channel is empty.
Leave(w) ==
  /\ wstate[w] = "idle"
  /\ \/ w \in cancelled /\ w \notin draining
     \/ w \in draining /\ tasks = <<>>
  /\ wstate' = [wstate EXCEPT ![w] = "gone"]
  /\ UNCHANGED <<tasks, job, draining, cancelled, cancels, limits, closed, adjuster, cool>>

WorkerStep(w) == Take(w) \/ Executed(w) \/ SeeStop(w) \/ Leave(w)

-----------------------------------------------------------------------------
\* The adjuster

Utilization == (Len(tasks) * 100) \div Cap

WantsUp   == Utilization >= limits.up /\ Cardinality(Live) < limits.max

WantsDown == Utilization <= limits.down /\ Cardinality(Live) > limits.min

\* adjust reads the channel, the worker count and the limits, and decides.
Decide ==
  /\ adjuster = "wait" /\ ~closed /\ cool
  /\ \/ WantsUp /\ adjuster' = "up"
     \/ ~WantsUp /\ WantsDown /\ adjuster' = "down"
  /\ UNCHANGED <<tasks, workerVars, limits, closed, cool>>

\* spawnWorker looks at stopped first: a Stop may come before that, or after.
ScaleUp ==
  /\ adjuster = "up"
  /\ adjuster' = "wait" /\ cool' = FALSE
  /\ \/ closed /\ UNCHANGED <<wstate, cancels>>
     \/ \E w \in Workers :
          /\ wstate[w] = "unborn"
          /\ wstate' = [wstate EXCEPT ![w] = "idle"]
          /\ cancels' = Append(cancels, w)
  /\ UNCHANGED <<tasks, job, draining, cancelled, limits, closed>>

\* The worker spawned last is cancelled, busy or not.
ScaleDown ==
  /\ adjuster = "down"
  /\ adjuster' = "wait" /\ cool' = FALSE
  /\ IF cancels = <<>> THEN UNCHANGED <<cancelled, cancels>>
     ELSE LET n == Len(cancels) IN /\ cancelled' = cancelled \cup {cancels[n]}
                                   /\ cancels' = SubSeq(cancels, 1, n - 1)
  /\ UNCHANGED <<tasks, wstate, job, draining, limits, closed>>

\* The cooldown passes, whatever is still running: a task may take longer.
CoolDown ==
  /\ ~cool
  /\ cool' = TRUE
  /\ UNCHANGED <<tasks, workerVars, limits, closed, adjuster>>

AdjusterEnds ==
  /\ adjuster = "wait" /\ closed
  /\ adjuster' = "ended"
  /\ UNCHANGED <<tasks, workerVars, limits, closed, cool>>

AdjusterStep == Decide \/ ScaleUp \/ ScaleDown \/ CoolDown \/ AdjusterEnds

-----------------------------------------------------------------------------
UpdateConfig(k) ==
  /\ k # limits
  /\ limits' = k
  /\ UNCHANGED <<tasks, workerVars, closed, adjuster, cool>>

\* Stop, and what it waits for before it returns: every goroutine of the pool.
ClosePool ==
  /\ ~closed
  /\ closed' = TRUE
  /\ UNCHANGED <<tasks, workerVars, limits, adjuster, cool>>

GoroutinesEnded == Live = {} /\ adjuster = "ended"

PoolStep == AdjusterStep \/ \E w \in Workers : WorkerStep(w)

PoolNext == \/ PoolStep
            \/ ClosePool
            \/ \E k \in Configs : UpdateConfig(k)
            \/ \E t \in Tasks : Submitted(t) \/ SubmitRefused(t)

PoolSpec == PoolInit /\ [][PoolNext]_poolVars

-----------------------------------------------------------------------------
PoolTypeOK ==
  /\ tasks \in Seq(Tasks) /\ Len(tasks) <= Cap
  /\ wstate \in [Workers -> {"unborn", "idle", "busy", "gone"}]
  /\ job \in [Workers -> Tasks \cup {NoTask}]
  /\ draining \subseteq Workers /\ cancelled \subseteq Workers
  /\ cancels \in Seq(Workers)
  /\ limits \in Configs /\ closed \in BOOLEAN /\ cool \in BOOLEAN
  /\ adjuster \in {"wait", "up", "down", "ended"}

\* Scaling up, decided from a count read earlier, never leaves more workers than the
\* largest limit the pool was ever configured with.
MaxRespected ==
  \E k \in Configs : Cardinality(Live) <= k.max
=============================================================================
