--------------------------- MODULE EventConsumer ---------------------------
(***************************************************************************)
(* From the event bus to the handlers: Publish (common/events/bus.go), the *)
(* dispatch loop, the debounce timers and the life of the Consumer         *)
(* (daemon/consumer/consumer.go), over the pool of WorkerPool, whose tasks *)
(* are the events to handle.                                               *)
(*                                                                         *)
(* An event is numbered by its publication.  A timer is named by the event *)
(* it will submit, and its callback is cut where it waits for a mutex.     *)
(***************************************************************************)
EXTENDS WorkerPool

CONSTANTS DebounceKeys,  \* repo group, platform and PR number
          MaxEvents,     \* bound: events published
          BusCap,        \* 100 in Subscribe
          MaxStops       \* bound: calls of Stop

Events == 1..MaxEvents
Ended == MaxEvents + 1

ASSUME ConsumerAssumption ==
  /\ MaxEvents \in Nat /\ BusCap \in Nat /\ MaxStops \in Nat
  /\ DebounceKeys # {} /\ Tasks = Events /\ NoTask = 0

VARIABLES
  published,  \* events published so far
  prOf,       \* prOf[e]: the PR of event e
  fate,       \* fate[e]: where event e is, or what became of it
  timers,     \* debounceTimers: timers[p] is the event of p's timer, NoTask if none
  loop,       \* the dispatch loop: the event it holds, NoTask, or Ended
  life,       \* "running", the stage Stop has reached, or "stopped"
  stops       \* calls of Stop left

consumerVars == <<published, prOf, fate, timers, loop, life, stops>>
allVars == <<consumerVars, poolVars>>

Fates == {"unborn", "bus", "dispatching", "armed", "fired", "forgotten", "submitting",
          "queued", "handled", "superseded", "dropped", "lost"}

\* lifecycleMu is held from the start of Stop to its end.
Stopping == life \notin {"running", "stopped"}

Becomes(e, f) == fate' = [fate EXCEPT ![e] = f]

-----------------------------------------------------------------------------
OnBus == {e \in Events : fate[e] = "bus"}

\* Publish never blocks: a full channel drops the event, an unsubscribed consumer
\* does not get it.
Publish(p) ==
  LET e == published + 1 IN
  /\ published < MaxEvents
  /\ published' = e
  /\ prOf' = [prOf EXCEPT ![e] = p]
  /\ Becomes(e, IF life # "running" THEN "lost" ELSE IF Cardinality(OnBus) >= BusCap THEN "dropped" ELSE "bus")
  /\ UNCHANGED <<timers, loop, life, stops, poolVars>>

\* The loop receives the oldest event of its channel.
Receive(e) ==
  /\ loop = NoTask
  /\ e \in OnBus /\ \A d \in OnBus : e <= d
  /\ loop' = e
  /\ Becomes(e, "dispatching")
  /\ UNCHANGED <<published, prOf, timers, life, stops, poolVars>>

\* dispatch logs an event it has no handler for.
Ignore(e) ==
  /\ loop = e /\ e \in Events
  /\ loop' = NoTask
  /\ Becomes(e, "handled")
  /\ UNCHANGED <<published, prOf, timers, life, stops, poolVars>>

\* debounce stops the PR's timer, if it has not fired, and starts a new one.
Debounce(e) ==
  LET p == prOf[e] IN
  /\ loop = e /\ e \in Events
  /\ loop' = NoTask
  /\ timers' = [timers EXCEPT ![p] = e]
  /\ fate' = [d \in Events |-> IF d = e THEN "armed"
                               ELSE IF d = timers[p] /\ fate[d] = "armed" THEN "superseded"
                               ELSE fate[d]]
  /\ UNCHANGED <<published, prOf, life, stops, poolVars>>

-----------------------------------------------------------------------------
\* The callback of a timer

\* A callback that gives up when the map no longer names its timer.
FireRegistered(e) ==
  /\ fate[e] = "armed" /\ timers[prOf[e]] = e
  /\ Becomes(e, "fired")
  /\ UNCHANGED <<published, prOf, timers, loop, life, stops, poolVars>>
Fire(e) ==
  /\ fate[e] = "armed"
  /\ Becomes(e, "fired")
  /\ UNCHANGED <<published, prOf, timers, loop, life, stops, poolVars>>

\* Under debounceMu it deletes the timer of its key, its own or a later one.
ForgetTimer(e) ==
  /\ fate[e] = "fired"
  /\ timers' = [timers EXCEPT ![prOf[e]] = NoTask]
  /\ Becomes(e, "forgotten")
  /\ UNCHANGED <<published, prOf, loop, life, stops, poolVars>>

\* Under lifecycleMu it takes the pool of the moment, if there is one.
FindPool(e) ==
  /\ fate[e] = "forgotten" /\ ~Stopping
  /\ Becomes(e, IF life = "running" THEN "submitting" ELSE "lost")
  /\ UNCHANGED <<published, prOf, timers, loop, life, stops, poolVars>>

\* It submits the event to that pool.
Submit(e) ==
  /\ fate[e] = "submitting"
  /\ \/ Submitted(e) /\ Becomes(e, "queued")
     \/ SubmitRefused(e) /\ Becomes(e, "lost")
  /\ UNCHANGED <<published, prOf, timers, loop, life, stops>>

-----------------------------------------------------------------------------
\* A worker that returns from a handler has handled its event.
Work(w) ==
  /\ WorkerStep(w)
  /\ fate' = [e \in Events |-> IF e = job[w] /\ job'[w] = NoTask THEN "handled" ELSE fate[e]]
  /\ UNCHANGED <<published, prOf, timers, loop, life, stops>>

Adjust == AdjusterStep /\ UNCHANGED consumerVars

Reconfigure(k) == life = "running" /\ UpdateConfig(k) /\ UNCHANGED consumerVars

-----------------------------------------------------------------------------
\* Stop cancels, closes the stop channel of the loop and unsubscribes.
StopBegins ==
  /\ life = "running" /\ stops > 0
  /\ stops' = stops - 1
  /\ life' = "timers"
  /\ UNCHANGED <<published, prOf, fate, timers, loop, poolVars>>

\* The timers it knows of are stopped.
StopTimers ==
  /\ life = "timers"
  /\ life' = "loop"
  /\ fate' = [e \in Events |-> IF fate[e] = "armed" /\ timers[prOf[e]] = e
                               THEN "lost" ELSE fate[e]]
  /\ timers' = [p \in DebounceKeys |-> NoTask]
  /\ UNCHANGED <<published, prOf, loop, stops, poolVars>>

\* The loop sees the stop when it next selects; what is on its channel is lost.
LoopEnds ==
  /\ loop = NoTask /\ Stopping
  /\ loop' = Ended
  /\ fate' = [e \in Events |-> IF fate[e] = "bus" THEN "lost" ELSE fate[e]]
  /\ UNCHANGED <<published, prOf, timers, life, stops, poolVars>>

StopPool ==
  /\ life = "loop" /\ loop = Ended
  /\ life' = "pool"
  /\ ClosePool
  /\ UNCHANGED <<published, prOf, fate, timers, loop, stops>>

\* workers.Stop waits for the goroutines, then the writer is stopped; what is left in
\* the channel, or comes late to it, is lost.
StopReturnsEarly ==
  /\ life = "pool"
  /\ life' = "stopped"
  /\ UNCHANGED <<published, prOf, fate, timers, loop, stops, poolVars>>
StopReturns ==
  /\ life = "pool" /\ GoroutinesEnded
  /\ life' = "stopped"
  /\ tasks' = <<>>
  /\ fate' = [e \in Events |-> IF fate[e] \in {"queued", "submitting"} THEN "lost" ELSE fate[e]]
  /\ UNCHANGED <<published, prOf, timers, loop, stops, workerVars, limits, closed, adjuster, cool>>

\* Start makes a new writer, pool and subscription.
StartConsumer ==
  /\ life = "stopped"
  /\ life' = "running"
  /\ loop' = NoTask
  /\ newWorkerPool
  /\ UNCHANGED <<published, prOf, fate, timers, stops>>

-----------------------------------------------------------------------------
ConsumerInit ==
  /\ published = 0 /\ stops = MaxStops
  /\ prOf = [e \in Events |-> CHOOSE p \in DebounceKeys : TRUE]
  /\ fate = [e \in Events |-> "unborn"]
  /\ timers = [p \in DebounceKeys |-> NoTask]
  /\ loop = NoTask /\ life = "running"
  /\ PoolInit

EventStep(e) == Fire(e) \/ ForgetTimer(e) \/ FindPool(e) \/ Submit(e)
LoopStep == LoopEnds \/ \E e \in Events : Receive(e) \/ Debounce(e) \/ Ignore(e)
StopStep == StopTimers \/ StopPool \/ StopReturns

ConsumerNext ==
  \/ \E p \in DebounceKeys : Publish(p)
  \/ \E e \in Events : EventStep(e)
  \/ \E w \in Workers : Work(w)
  \/ \E k \in Configs : Reconfigure(k)
  \/ LoopStep \/ Adjust \/ StopBegins \/ StopStep \/ StartConsumer

ConsumerSpec == ConsumerInit /\ [][ConsumerNext]_allVars

\* Goroutines go on, timers fire, a handler returns (its calls have timeouts), and a
\* Submit is not passed over for ever.
ConsumerFairness ==
  /\ WF_allVars(LoopStep) /\ WF_allVars(Adjust) /\ WF_allVars(StopStep)
  /\ \A w \in Workers : WF_allVars(Work(w))
  /\ \A e \in Events : WF_allVars(Fire(e) \/ ForgetTimer(e) \/ FindPool(e)) /\ SF_allVars(Submit(e))

FairSpec == ConsumerSpec /\ ConsumerFairness

-----------------------------------------------------------------------------
Running == {job[w] : w \in {v \in Workers : wstate[v] = "busy"}}

TypeOK ==
  /\ PoolTypeOK
  /\ published \in 0..MaxEvents /\ stops \in 0..MaxStops
  /\ prOf \in [Events -> DebounceKeys] /\ fate \in [Events -> Fates]
  /\ timers \in [DebounceKeys -> Events \cup {NoTask}]
  /\ loop \in Events \cup {NoTask, Ended}
  /\ life \in {"running", "timers", "loop", "pool", "stopped"}

\* After Stop has returned nothing of the old pool runs: no handler, no worker, no
\* adjuster that could spawn one.
QuietWhenStopped ==
  life = "stopped" => Running = {} /\ Live = {} /\ adjuster = "ended" /\ loop = Ended

\* Every worker has been cancelled, as happens when handlers outlast the cooldown.
Deserted == Live \subseteq cancelled

\* Too few tasks wait for the pool to grow, or the bound on spawns is reached.
NoGrowth == Utilization < limits.up \/ \A w \in Workers : wstate[w] # "unborn"

\* An event that got into the channel is handled in the end, unless a later event of its
\* PR takes its place, the consumer is stopped, or the pool is deserted for good and does
\* not grow: late and overlapping timers, a full pool, cancelled and reconfigured workers
\* lose none.
ReceivedIsHandled ==
  \/ <>[]Deserted /\ []<>NoGrowth
  \/ \A e \in Events : fate[e] = "bus" ~> fate[e] \in {"handled", "superseded", "lost"}

\* Only Stop loses an event that was received.
OnlyStopLoses ==
  [][\A e \in Events : fate'[e] = "lost" /\ fate[e] \notin {"lost", "unborn"} =>
       life # "running"]_allVars

\* Stop returns, whatever callbacks, handlers and the adjuster are doing when it is
\* called: it waits for the loop and for the pool with lifecycleMu held.
StopEnds == life = "timers" ~> life = "stopped"
=============================================================================
