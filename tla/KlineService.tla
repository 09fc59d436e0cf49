---------------------------- MODULE KlineService ----------------------------
(***************************************************************************)
(* The candles of one timeframe (data/klines.py): the priority queue of    *)
(* fetches, the workers, the requests that wait for them, the scheduler    *)
(* and the backfill, on top of the server clock (data/clock.py), the       *)
(* symbol universe (data/universe.py) and the weight budget                *)
(* (data/rate_limit.py, data/binance_client.py).                           *)
(*                                                                         *)
(* An action is what the event loop runs between two awaits; a done        *)
(* callback of a future is an action of its own (call_soon).  A job and    *)
(* its future are one record, which knows the tasks that await it.         *)
(***************************************************************************)
EXTENDS Integers, Sequences, FiniteSets, FiniteSetsExt, SequencesExt

CONSTANTS
    Symbols,                \* the pairs listed on the exchange
    Handlers,               \* HTTP handlers
    PATasks,                \* tasks of the PA worker
    Workers,                \* kline_workers
    Limits,                 \* numbers of bars a request asks for
    kline_catchup_bars, kline_backfill_bars,
    max_weight,             \* of the budget, where one fetch has weight 1
    MaxBar,                 \* bound: bars
    MaxFaults               \* bound: failed calls, losses of the clock

ASSUME BoundAssumption ==
    /\ MaxBar \in Nat \ {0, 1} /\ MaxFaults \in Nat
    /\ max_weight \in Nat \ {0} /\ Limits \subseteq Nat \ {0}
    /\ IsFiniteSet(Symbols)
    /\ kline_catchup_bars \in Nat \ {0} /\ kline_backfill_bars \in Nat \ {0}

VARIABLES
    bar,        \* the bar that is forming; the last closed one is bar - 1
    clockUp,    \* server_now() is not None
    universe,   \* _symbols of the universe
    candles,    \* the table: what is stored of each bar of a symbol
    queue,      \* the priority queue: jobs with their futures
    worker,     \* the workers and the jobs they hold
    callbacks,  \* of a symbol: done callbacks that are scheduled
    used,       \* weight used in the window
    scheduler,  \* the scheduler loop sleeps or has found a symbol that lags
    req,        \* the calls of get_candles
    phase,      \* of the daemon's shutdown
    faults

env == <<bar, clockUp, universe, candles>>
jobs == <<queue, worker, callbacks>>
vars == <<env, jobs, used, scheduler, req, phase, faults>>

Requests == Handlers \cup PATasks
PRIORITY_ONDEMAND   == 0
PRIORITY_CLOSED_BAR == 5
PRIORITY_BACKFILL   == 10

NoSymbol == "none"
NoJob == [symbol |-> NoSymbol, limit |-> 0, priority |-> 0, mapped |-> FALSE,
          cancelled |-> FALSE, waiters |-> {}]
Idle == [pc |-> "idle", job |-> NoJob, snap |-> 0]
NewRequest == [pc |-> "new", symbol |-> NoSymbol, seen |-> 0]
Ended == [NewRequest EXCEPT !.pc = "ended"]

\* MAX(open_time), 0 without a row
Newest(s) == Max({0} \cup {b \in 1 .. MaxBar : candles[s][b] # "none"})

\* Mutant: one bar behind counts as warm.
LagsByTwo(s) == Newest(s) < bar - 2

\* A symbol whose newest candle is older than the last closed bar
Lags(s) == Newest(s) < bar - 1

TypeOK ==
    /\ bar \in 1 .. MaxBar /\ clockUp \in BOOLEAN /\ universe \subseteq Symbols
    /\ candles \in [Symbols -> [1 .. MaxBar -> {"none", "partial", "final"}]]
    /\ callbacks \in [Symbols -> Nat]
    /\ phase \in {"running", "stopping", "stopped"}

Init ==
    /\ bar = 2
    /\ clockUp \in BOOLEAN
    /\ universe \in {{}, Symbols}
    /\ candles = [s \in Symbols |-> [b \in 1 .. MaxBar |-> "none"]]
    /\ queue = <<>>
    /\ worker = [w \in Workers |-> Idle]
    /\ callbacks = [s \in Symbols |-> 0]
    /\ used = 0
    /\ scheduler = "sleep"
    /\ req = [r \in Requests |-> NewRequest]
    /\ phase = "running"
    /\ faults = 0

\* What the event loop has scheduled runs before the result of any later I/O, timer or
\* thread: while a done callback is scheduled, only tasks that were ready before it move.
LoopIdle == \A s \in Symbols : callbacks[s] = 0

-----------------------------------------------------------------------------
(* The queue and the futures *)

\* PriorityQueue: by priority, then by the sequence number. The new jobs have one priority.
Put(q, new, priority) ==
    LET n == Cardinality({i \in DOMAIN q : q[i].priority <= priority})
    IN  SubSeq(q, 1, n) \o new \o SubSeq(q, n + 1, Len(q))

Pending(q, wk) == ToSet(q) \cup {wk[w].job : w \in Workers}

\* The same change to every job, in the queue or in the hands of a worker
InQueue(q, op(_)) == [i \in DOMAIN q |-> op(q[i])]
InWorkers(wk, op(_)) == [w \in Workers |-> [wk[w] EXCEPT !.job = op(@)]]

\* _in_flight has the future of the job, and it is not done
Joinable(j, s) == j.symbol = s /\ j.mapped /\ ~j.cancelled

Unmapped(j, s) == IF j.symbol = s THEN [j EXCEPT !.mapped = FALSE] ELSE j

\* _enqueue, for every symbol of S in some order (the loops over the symbols do not
\* suspend): the tasks W await the future in flight, whatever its limit and priority, or a
\* new one that takes its place in the map.
EnqueueAll(S, limit, priority, W) ==
    LET Fresh == {s \in S : \A j \in Pending(queue, worker) : ~Joinable(j, s)}
        Touch(j) == IF j.symbol \in Fresh THEN [j EXCEPT !.mapped = FALSE]
                    ELSE IF j.symbol \in S /\ Joinable(j, j.symbol) THEN [j EXCEPT !.waiters = @ \cup W]
                    ELSE j
        New(s) == [symbol |-> s, limit |-> limit, priority |-> priority, mapped |-> TRUE,
                   cancelled |-> FALSE, waiters |-> W]
    IN  /\ \E order \in SetToSeqs(Fresh) :
              queue' = Put(InQueue(queue, Touch), [i \in DOMAIN order |-> New(order[i])], priority)
        /\ worker' = InWorkers(worker, Touch)
        /\ UNCHANGED callbacks

\* _on_job_done pops the symbol's entry, whichever future it holds by now.
Callback(s) ==
    LET Unmap(j) == Unmapped(j, s) IN
    /\ callbacks[s] > 0
    /\ callbacks' = [callbacks EXCEPT ![s] = @ - 1]
    /\ queue' = InQueue(queue, Unmap)
    /\ worker' = InWorkers(worker, Unmap)
    /\ UNCHANGED <<env, used, scheduler, req, phase, faults>>

-----------------------------------------------------------------------------
(* The workers *)

Get(w) ==
    /\ LoopIdle
    /\ worker[w].pc = "idle"
    /\ phase # "stopped"
    /\ queue # <<>>
    /\ worker' = [worker EXCEPT ![w] = [pc |-> "fetch", job |-> Head(queue), snap |-> 0]]
    /\ queue' = Tail(queue)
    /\ UNCHANGED <<env, callbacks, used, scheduler, req, phase, faults>>

\* acquire waits for the budget; a header may report a window that is used up (note_used).
Acquire ==
    /\ used < max_weight
    /\ used' \in {used + 1, max_weight}

\* The answer shows the bars of the moment it was made, the forming one included.
Fetch(w) ==
    /\ LoopIdle
    /\ worker[w].pc = "fetch"
    /\ Acquire
    /\ worker' = [worker EXCEPT ![w].pc = "store", ![w].snap = bar]
    /\ UNCHANGED <<env, queue, callbacks, scheduler, req, phase, faults>>

\* _store: the bars that are closed by now, as they were in the answer; without a clock none.
Store(w) ==
    LET j == worker[w].job
        snap == worker[w].snap
        Rows == {b \in 1 .. snap : b > snap - j.limit /\ b <= bar - 1}
    IN  /\ LoopIdle
        /\ worker[w].pc = "store"
        /\ candles' = IF clockUp
                      THEN [candles EXCEPT ![j.symbol] =
                               [b \in 1 .. MaxBar |-> IF b \notin Rows THEN @[b]
                                                      ELSE IF b = snap THEN "partial" ELSE "final"]]
                      ELSE candles
        /\ worker' = [worker EXCEPT ![w].pc = "settle", ![w].snap = 0]
        /\ UNCHANGED <<bar, clockUp, universe, queue, callbacks, used, scheduler, req, phase, faults>>

\* The future is resolved, with a result or an exception, unless it was cancelled: its
\* callback is scheduled and the tasks that await it go on. The worker takes the next job.
Settle(w) ==
    LET j == worker[w].job IN
    /\ worker' = [worker EXCEPT ![w] = Idle]
    /\ IF j.cancelled THEN UNCHANGED <<callbacks, req>>
       ELSE /\ callbacks' = [callbacks EXCEPT ![j.symbol] = @ + 1]
            /\ req' = [r \in Requests |-> IF r \in j.waiters THEN Ended ELSE req[r]]
    /\ UNCHANGED <<env, queue, scheduler, phase>>

Done(w) == worker[w].pc = "settle" /\ Settle(w) /\ UNCHANGED <<used, faults>>

\* The write fails, or the request after it took its share of the budget.
Fault(w) ==
    /\ faults < MaxFaults
    /\ faults' = faults + 1
    /\ \/ worker[w].pc = "fetch" /\ Acquire
       \/ worker[w].pc = "store" /\ UNCHANGED used

\* Mutant: the exception is logged and the future left as it is.
FailsSilently(w) ==
    /\ Fault(w)
    /\ worker' = [worker EXCEPT ![w] = Idle]
    /\ UNCHANGED <<env, queue, callbacks, scheduler, req, phase>>

\* Mutant: an exception ends the worker.
FailsForGood(w) ==
    /\ Fault(w)
    /\ callbacks' = [callbacks EXCEPT ![worker[w].job.symbol] = @ + 1]
    /\ req' = [r \in Requests |-> IF r \in worker[w].job.waiters THEN Ended ELSE req[r]]
    /\ worker' = [worker EXCEPT ![w] = [Idle EXCEPT !.pc = "dead"]]
    /\ UNCHANGED <<env, queue, scheduler, phase>>

\* The exception is passed on to the tasks that await the future.
Fails(w) == Fault(w) /\ Settle(w)

\* The window of the budget is over.
ResetWindow ==
    /\ LoopIdle
    /\ used > 0
    /\ used' = 0
    /\ UNCHANGED <<env, jobs, scheduler, req, phase, faults>>

-----------------------------------------------------------------------------
(* get_candles *)

\* ensure_contains: an unknown symbol is found by a sync, unless the last one is too
\* recent or this one fails.
EnsureContains(s, found) ==
    \/ found /\ s \in universe /\ UNCHANGED universe
    \/ found /\ s \notin universe /\ universe' = Symbols
    \/ ~found /\ s \notin universe /\ UNCHANGED universe

\* The symbol is validated, and the warm map is read. Handlers are still served while the
\* daemon stops, until the HTTP runner is down.
Ask(r, s) ==
    /\ LoopIdle
    /\ phase = "running" \/ (phase = "stopping" /\ r \in Handlers)
    /\ req[r].pc = "new"
    /\ \E found \in BOOLEAN :
          /\ EnsureContains(s, found)
          /\ req' = [req EXCEPT ![r] = IF found
                                        THEN [pc |-> "decide", symbol |-> s, seen |-> Newest(s)]
                                        ELSE Ended]
    /\ UNCHANGED <<bar, clockUp, candles, jobs, used, scheduler, phase, faults>>

\* _is_warm with the map that was read; a cold symbol is fetched and awaited.
Decide(r) ==
    LET s == req[r].symbol IN
    /\ req[r].pc = "decide"
    /\ \/ /\ clockUp /\ req[r].seen >= bar - 1
          /\ req' = [req EXCEPT ![r] = Ended]
          /\ UNCHANGED jobs
       \/ /\ ~clockUp \/ req[r].seen < bar - 1
          /\ \E limit \in Limits : EnqueueAll({s}, limit, PRIORITY_ONDEMAND, {r})
          /\ req' = [req EXCEPT ![r].pc = "await", ![r].seen = 0]
    /\ UNCHANGED <<env, used, scheduler, phase, faults>>

-----------------------------------------------------------------------------
(* The background scheduler, the clock, the universe *)

\* _needs_catchup: at least one symbol lags.
SchedulerRead ==
    /\ LoopIdle
    /\ phase # "stopped"
    /\ scheduler = "sleep"
    /\ clockUp
    /\ \E s \in universe : Lags(s)
    /\ scheduler' = "enqueue"
    /\ UNCHANGED <<env, jobs, used, req, phase, faults>>

\* _enqueue_closed_bar_pass
SchedulerEnqueue ==
    /\ scheduler = "enqueue"
    /\ EnqueueAll(universe, kline_catchup_bars, PRIORITY_CLOSED_BAR, {})
    /\ scheduler' = "sleep"
    /\ UNCHANGED <<env, used, req, phase, faults>>

\* The cold symbols of the warm map are enqueued. (One that warms up after the read is
\* fetched once more, as in a pass of the scheduler.)
Backfill ==
    /\ phase # "stopped"
    /\ clockUp
    /\ \E s \in universe : Lags(s)
    /\ EnqueueAll({s \in universe : Lags(s)}, kline_backfill_bars, PRIORITY_BACKFILL, {})
    /\ UNCHANGED <<env, used, scheduler, req, phase, faults>>

CloseBar ==
    /\ LoopIdle
    /\ bar < MaxBar
    /\ bar' = bar + 1
    /\ UNCHANGED <<clockUp, universe, candles, jobs, used, scheduler, req, phase, faults>>

\* sync succeeds after the offset was missing.
ClockSync ==
    /\ LoopIdle
    /\ ~clockUp
    /\ clockUp' = TRUE
    /\ UNCHANGED <<bar, universe, candles, jobs, used, scheduler, req, phase, faults>>

\* The offset grows older than max_offset_age_seconds, or too large.
ClockLost ==
    /\ LoopIdle
    /\ clockUp
    /\ faults < MaxFaults
    /\ faults' = faults + 1
    /\ clockUp' = FALSE
    /\ UNCHANGED <<bar, universe, candles, jobs, used, scheduler, req, phase>>

UniverseSync ==
    /\ LoopIdle
    /\ universe # Symbols
    /\ universe' = Symbols
    /\ UNCHANGED <<bar, clockUp, candles, jobs, used, scheduler, req, phase, faults>>

-----------------------------------------------------------------------------
(* The shutdown of the daemon *)

\* DaemonRunner.stop cancels the PA worker first: its tasks are cancelled, and with them
\* the futures they await, which handlers may await too.
StopPA ==
    LET Hit(j) == ~j.cancelled /\ j.waiters \cap PATasks # {}
        Cancel(j) == IF Hit(j) THEN [j EXCEPT !.cancelled = TRUE] ELSE j
        hit == {j \in Pending(queue, worker) : Hit(j)}
    IN  /\ LoopIdle
        /\ phase = "running"
        /\ phase' = "stopping"
        /\ queue' = InQueue(queue, Cancel)
        /\ worker' = InWorkers(worker, Cancel)
        /\ callbacks' = [s \in Symbols |-> Cardinality({j \in hit : j.symbol = s})]
        /\ req' = [r \in Requests |->
                     IF r \in PATasks \/ \E j \in hit : r \in j.waiters THEN Ended ELSE req[r]]
        /\ UNCHANGED <<env, used, scheduler, faults>>

\* The HTTP runner has waited for its handlers; KlineService.stop cancels the workers and
\* the scheduler.
StopWorkers ==
    /\ LoopIdle
    /\ phase = "stopping"
    /\ \A r \in Requests : req[r].pc \in {"new", "ended"}
    /\ phase' = "stopped"
    /\ worker' = [w \in Workers |-> Idle]
    /\ scheduler' = "sleep"
    /\ queue' = <<>>
    /\ UNCHANGED <<env, callbacks, used, req, faults>>

-----------------------------------------------------------------------------

WorkerStep(w) == Get(w) \/ Fetch(w) \/ Store(w) \/ Done(w)

Next ==
    \/ \E s \in Symbols : Callback(s)
    \/ \E w \in Workers : WorkerStep(w) \/ Fails(w)
    \/ \E r \in Requests : Decide(r) \/ \E s \in Symbols : Ask(r, s)
    \/ SchedulerRead \/ SchedulerEnqueue \/ Backfill
    \/ ResetWindow \/ CloseBar \/ ClockSync \/ ClockLost \/ UniverseSync
    \/ StopPA \/ StopWorkers

Spec == Init /\ [][Next]_vars

\* The event loop runs what is ready, the loops wake up, windows end, and the clock and
\* the universe are synchronized in the end.
FairSpec ==
    /\ Spec
    /\ \A s \in Symbols : WF_vars(Callback(s))
    /\ \A w \in Workers : WF_vars(WorkerStep(w))
    /\ \A r \in Requests : WF_vars(Decide(r))
    /\ WF_vars(SchedulerRead \/ SchedulerEnqueue)
    /\ WF_vars(ResetWindow) /\ WF_vars(ClockSync) /\ WF_vars(UniverseSync)

-----------------------------------------------------------------------------
(* Properties *)

\* A request that waits, waits for a job of its symbol that is in the queue or in the hands
\* of a worker and is not cancelled: nobody is forgotten.
NoForgottenRequest ==
    \A r \in Requests : req[r].pc = "await" =>
        \E j \in Pending(queue, worker) : /\ r \in j.waiters /\ ~j.cancelled
                                          /\ j.symbol = req[r].symbol

\* Every call of get_candles returns, whatever fails and although the daemon stops.
RequestsEnd == \A r \in Requests : []<>(req[r].pc \in {"new", "ended"})

\* Every symbol of the universe gets its last closed bar.
CatchesUp == []<>(phase # "running" \/ \A s \in Symbols : Newest(s) = bar - 1)
=============================================================================
