---------------------------- MODULE AnalysisStore ----------------------------
(***************************************************************************)
(* The price-action analyses (pa/analysis.py) and the worker that keeps    *)
(* them current (pa/worker.py), for one timeframe: analyses of one symbol  *)
(* by the worker and by the handlers interleave, and each writes its       *)
(* result to three tables in three transactions.                           *)
(***************************************************************************)
EXTENDS Integers, Sequences, FiniteSets

CONSTANTS
    Symbols,                \* the universe
    Agents,                 \* handlers that call analyze
    NTables,                \* number of IMMUTABLE_TABLES
    Payloads,               \* results, with their algo_version
    MinBar,                 \* of a symbol: the first bar with enough candles before it
    pa_worker_concurrency,
    MaxBar,                 \* bound: bars
    MaxCalls,               \* bound: calls of the handlers
    MaxFaults               \* bound: exceptions and restarts of the daemon

ASSUME JobAssumption == Symbols # {} /\ Payloads # {} /\ Symbols \cap Agents = {}
ASSUME TableAssumption == NTables \in Nat \ {0}
ASSUME MinBarAssumption == MinBar \in [Symbols -> Nat]
ASSUME BoundAssumption ==
    /\ MaxBar \in Nat \ {0} /\ MaxCalls \in Nat /\ MaxFaults \in Nat
    /\ pa_worker_concurrency \in Nat \ {0}

VARIABLES
    closed,     \* the last closed bar, by the server clock (_now, latest_closed)
    newest,     \* of a symbol: the newest candle stored, 0 without one
    rows,       \* of a table and a symbol: its rows, in the order of their ids
    job,        \* the analyses under way: the worker's, named by the symbol, and the handlers'
    target,     \* latest_closed of the worker's pass, 0 between two passes
    marker,     \* _last_processed, 0 when missing
    calls, faults

vars == <<closed, newest, rows, job, target, marker, calls, faults>>

Bars == 1 .. MaxBar
Jobs == Symbols \cup Agents
Tables == 1 .. NTables      \* in the order they are written
Series == Tables \X Symbols

Null == -1      \* effective_to IS NULL
Row == [from : Bars, to : Bars \cup {Null}, payload : Payloads]

Results == {"none", "true", "false", "insufficient"}
JobState == [pc : {"idle", "load", "analyze", "store", "hook", "done"}, symbol : Symbols,
             bar : 0 .. MaxBar, payload : Payloads, table : Tables, result : Results]

TypeOK ==
    /\ closed \in Bars
    /\ newest \in [Symbols -> 0 .. MaxBar]
    /\ rows \in [Series -> Seq(Row)]
    /\ job \in [Jobs -> JobState]
    /\ target \in 0 .. MaxBar
    /\ marker \in 0 .. MaxBar
    /\ calls \in 0 .. MaxCalls
    /\ faults \in 0 .. MaxFaults

IdleJob == [pc |-> "idle", symbol |-> CHOOSE s \in Symbols : TRUE, bar |-> 0,
            payload |-> CHOOSE p \in Payloads : TRUE, table |-> 1, result |-> "none"]

Init ==
    /\ closed = 1
    /\ newest = [s \in Symbols |-> 0]
    /\ rows = [k \in Series |-> <<>>]
    /\ job = [j \in Jobs |-> IdleJob]
    /\ target = 0
    /\ marker = 0
    /\ calls = 0 /\ faults = 0

-----------------------------------------------------------------------------
(* _store_payload, one transaction *)

NewRow(b, to, p) == [from |-> b, to |-> to, payload |-> p]

\* ORDER BY id DESC LIMIT 1 over the rows of bar b
IsSameBar(r, b, i) == r[i].from = b /\ \A j \in DOMAIN r : r[j].from = b => j <= i

NoSameBar(r, b) == \A i \in DOMAIN r : r[i].from # b

\* ORDER BY effective_from DESC, id DESC LIMIT 1 over the open rows
IsOpenRow(r, i) ==
    /\ r[i].to = Null
    /\ \A j \in DOMAIN r :
          r[j].to = Null => r[j].from < r[i].from \/ (r[j].from = r[i].from /\ j <= i)

\* MIN(effective_from) of the rows after bar b
IsNextFrom(r, b, m) ==
    /\ \E i \in DOMAIN r : r[i].from = m
    /\ m > b
    /\ \A i \in DOMAIN r : r[i].from > b => m <= r[i].from

\* A second result for a bar: nothing if it is the same, else a revision.
Revise(k, b, p) ==
    LET r == rows[k] IN
    \E i \in DOMAIN r :
        /\ IsSameBar(r, b, i)
        /\ \/ r[i].payload = p /\ UNCHANGED rows
           \/ /\ r[i].payload # p /\ r[i].to = Null
              /\ rows' = [rows EXCEPT ![k] = Append([r EXCEPT ![i].to = b], NewRow(b, Null, p))]
           \/ /\ r[i].payload # p /\ r[i].to # Null
              /\ rows' = [rows EXCEPT ![k] = Append(r, NewRow(b, r[i].to, p))]

\* The first row of a series
Open(k, b, p) ==
    LET r == rows[k] IN
    /\ NoSameBar(r, b)
    /\ \A i \in DOMAIN r : r[i].to # Null
    /\ rows' = [rows EXCEPT ![k] = Append(r, NewRow(b, Null, p))]

\* Mutant: any other bar closes the open row.
ForwardAnyBar(k, b, p) ==
    LET r == rows[k] IN
    /\ NoSameBar(r, b)
    /\ \E i \in DOMAIN r :
          /\ IsOpenRow(r, i)
          /\ rows' = [rows EXCEPT ![k] = Append([r EXCEPT ![i].to = b - 1], NewRow(b, Null, p))]

\* A new bar closes the open row.
Forward(k, b, p) ==
    LET r == rows[k] IN
    /\ NoSameBar(r, b)
    /\ \E i \in DOMAIN r :
          /\ IsOpenRow(r, i)
          /\ b > r[i].from
          /\ rows' = [rows EXCEPT ![k] = Append([r EXCEPT ![i].to = b - 1], NewRow(b, Null, p))]

\* Mutant: an older bar is added as an open row.
BackwardOpen(k, b, p) ==
    LET r == rows[k] IN
    /\ NoSameBar(r, b)
    /\ \E i \in DOMAIN r : IsOpenRow(r, i) /\ b <= r[i].from
    /\ rows' = [rows EXCEPT ![k] = Append(r, NewRow(b, Null, p))]

\* Mutant: an older bar is added as a point interval, as a revision is closed.
BackwardPoint(k, b, p) ==
    LET r == rows[k] IN
    /\ NoSameBar(r, b)
    /\ \E i \in DOMAIN r : IsOpenRow(r, i) /\ b <= r[i].from
    /\ rows' = [rows EXCEPT ![k] = Append(r, NewRow(b, b, p))]

\* An older bar is added as history. The open row is after b, so MIN finds a row.
Backward(k, b, p) ==
    LET r == rows[k] IN
    /\ NoSameBar(r, b)
    /\ \E i \in DOMAIN r : IsOpenRow(r, i) /\ b <= r[i].from
    /\ \E m \in Bars :
          /\ IsNextFrom(r, b, m)
          /\ rows' = [rows EXCEPT ![k] = Append(r, NewRow(b, m - 1, p))]

StorePayload(k, b, p) == Revise(k, b, p) \/ Open(k, b, p) \/ Forward(k, b, p) \/ Backward(k, b, p)

-----------------------------------------------------------------------------
(* The candles the analyses read, written by data/klines.py *)

CloseBar ==
    /\ closed < MaxBar
    /\ closed' = closed + 1
    /\ UNCHANGED <<newest, rows, job, target, marker, calls, faults>>

\* _store writes closed bars, up to the last one or not.
StoreCandles(s) ==
    /\ newest[s] < closed
    /\ \E b \in newest[s] + 1 .. closed : newest' = [newest EXCEPT ![s] = b]
    /\ UNCHANGED <<closed, rows, job, target, marker, calls, faults>>

-----------------------------------------------------------------------------
(* analyze, for the worker and for a handler *)

\* The worker's subtask returns its result; a handler answers and is done.
Return(j, result) ==
    job' = [job EXCEPT ![j] =
               IF j \in Symbols THEN [IdleJob EXCEPT !.pc = "done", !.result = result] ELSE IdleJob]

\* A handler calls analyze (get_market_structure and the like).
Call(a, s) ==
    /\ job[a].pc = "idle"
    /\ calls < MaxCalls
    /\ calls' = calls + 1
    /\ job' = [job EXCEPT ![a].pc = "analyze", ![a].symbol = s]
    /\ UNCHANGED <<closed, newest, rows, target, marker, faults>>

\* There are candles, and enough of them.
Enough(s) == newest[s] # 0 /\ newest[s] >= MinBar[s]

\* The candles are loaded again, filtered and counted; the result is computed.
Analyze(j) ==
    LET s == job[j].symbol IN
    /\ job[j].pc = "analyze"
    /\ \/ ~Enough(s) /\ Return(j, "insufficient")
       \/ /\ Enough(s)
          /\ \E p \in Payloads :
                job' = [job EXCEPT ![j].pc = "store", ![j].bar = newest[s], ![j].payload = p,
                                   ![j].table = 1]
    /\ UNCHANGED <<closed, newest, rows, target, marker, calls, faults>>

\* The three tables are written one after the other.
Store(j) ==
    LET t == job[j].table IN
    /\ job[j].pc = "store"
    /\ StorePayload(<<t, job[j].symbol>>, job[j].bar, job[j].payload)
    /\ job' = [job EXCEPT ![j].pc = IF t + 1 \in Tables THEN "store" ELSE "hook",
                          ![j].table = IF t + 1 \in Tables THEN t + 1 ELSE t]
    /\ UNCHANGED <<closed, newest, target, marker, calls, faults>>

\* alarm_service.on_analysis_updated, then the result
Hook(j) ==
    /\ job[j].pc = "hook"
    /\ Return(j, "true")
    /\ UNCHANGED <<closed, newest, rows, target, marker, calls, faults>>

\* An exception at any await: the analysis ends between two tables.
Fail(j) ==
    /\ job[j].pc \in {"load", "analyze", "store", "hook"}
    /\ faults < MaxFaults
    /\ faults' = faults + 1
    /\ Return(j, "false")
    /\ UNCHANGED <<closed, newest, rows, target, marker, calls>>

-----------------------------------------------------------------------------
(* The worker: check_and_process *)

BeginPass ==
    /\ target = 0
    /\ marker # closed
    /\ target' = closed
    /\ job' = [j \in Jobs |-> IF j \in Symbols
                              THEN [IdleJob EXCEPT !.pc = "load", !.symbol = j]
                              ELSE job[j]]
    /\ UNCHANGED <<closed, newest, rows, marker, calls, faults>>

\* The subtasks past the semaphore
Running == {s \in Symbols : job[s].pc \in {"analyze", "store", "hook"}}

\* freshness: the newest candle is the last closed bar.
Fresh(s) == newest[s] # 0 /\ newest[s] >= closed

\* _process: without a fresh candle the symbol is left for a later pass.
Load(s) ==
    /\ job[s].pc = "load"
    /\ Cardinality(Running) < pa_worker_concurrency
    /\ IF Fresh(s) THEN job' = [job EXCEPT ![s].pc = "analyze"] ELSE Return(s, "false")
    /\ UNCHANGED <<closed, newest, rows, target, marker, calls, faults>>

\* Mutant: the bar is taken from the clock again after the pass.
EndPassRereadsClock ==
    /\ target # 0
    /\ \A s \in Symbols : job[s].pc = "done"
    /\ marker' = IF \A s \in Symbols : job[s].result \in {"true", "insufficient"}
                 THEN closed ELSE marker
    /\ target' = 0
    /\ job' = [j \in Jobs |-> IF j \in Symbols THEN IdleJob ELSE job[j]]
    /\ UNCHANGED <<closed, newest, rows, calls, faults>>

\* Mutant: a symbol with too few candles blocks the pass.
EndPassAllTrue ==
    /\ target # 0
    /\ \A s \in Symbols : job[s].pc = "done"
    /\ marker' = IF \A s \in Symbols : job[s].result = "true" THEN target ELSE marker
    /\ target' = 0
    /\ job' = [j \in Jobs |-> IF j \in Symbols THEN IdleJob ELSE job[j]]
    /\ UNCHANGED <<closed, newest, rows, calls, faults>>

\* The marker moves only when every symbol succeeded or has too few candles.
EndPass ==
    /\ target # 0
    /\ \A s \in Symbols : job[s].pc = "done"
    /\ marker' = IF \A s \in Symbols : job[s].result \in {"true", "insufficient"}
                 THEN target ELSE marker
    /\ target' = 0
    /\ job' = [j \in Jobs |-> IF j \in Symbols THEN IdleJob ELSE job[j]]
    /\ UNCHANGED <<closed, newest, rows, calls, faults>>

\* The daemon restarts: the marker is in memory, the tables are not.
Crash ==
    /\ faults < MaxFaults
    /\ faults' = faults + 1
    /\ job' = [j \in Jobs |-> IdleJob]
    /\ target' = 0
    /\ marker' = 0
    /\ UNCHANGED <<closed, newest, rows, calls>>

-----------------------------------------------------------------------------

JobStep(j) == Analyze(j) \/ Store(j) \/ Hook(j)

Next ==
    \/ CloseBar
    \/ \E s \in Symbols : StoreCandles(s) \/ Load(s)
    \/ \E a \in Agents, s \in Symbols : Call(a, s)
    \/ \E j \in Jobs : JobStep(j) \/ Fail(j)
    \/ BeginPass \/ EndPass \/ Crash

Spec == Init /\ [][Next]_vars

\* The worker sleeps and passes again for ever, its awaits end, and the candles of
\* every symbol catch up in the end.
FairSpec ==
    /\ Spec
    /\ WF_vars(BeginPass) /\ WF_vars(EndPass)
    /\ \A j \in Jobs : WF_vars(JobStep(j))
    /\ \A s \in Symbols : WF_vars(Load(s)) /\ WF_vars(StoreCandles(s))

-----------------------------------------------------------------------------
(* Properties *)

\* At most one row of a series is open, and it is the newest revision of the newest
\* bar: what _read_current returns and what _read_history ends with.
OpenIsNewest ==
    \A k \in Series : rows[k] # <<>> =>
        \E i \in DOMAIN rows[k] :
            /\ rows[k][i].to = Null
            /\ \A j \in DOMAIN rows[k] \ {i} :
                  /\ rows[k][j].to # Null
                  /\ \/ rows[k][j].from < rows[k][i].from
                     \/ rows[k][j].from = rows[k][i].from /\ j < i

\* "avoiding an inverted interval (e.g. 300..199)": whatever the order in which bars and
\* revisions are stored, no row ends before it begins, and no bar from the oldest row on
\* is left without a row that is valid at it.
IntervalsCover ==
    \A k \in Series :
        LET r == rows[k] IN
        /\ \A i \in DOMAIN r : r[i].to # Null => r[i].from <= r[i].to
        /\ \A c \in Bars : (\E i \in DOMAIN r : r[i].from <= c) =>
              \E i \in DOMAIN r : r[i].from <= c /\ (r[i].to = Null \/ c <= r[i].to)

\* _read_current
Current ==
    [k \in Series |->
        IF \E i \in DOMAIN rows[k] : rows[k][i].to = Null
        THEN LET i == CHOOSE i \in DOMAIN rows[k] : rows[k][i].to = Null
             IN  [bar |-> rows[k][i].from, payload |-> rows[k][i].payload]
        ELSE [bar |-> Null, payload |-> CHOOSE p \in Payloads : TRUE]]

Published == INSTANCE CurrentRecords WITH current <- Current

\* Whatever analyses interleave, fail or are lost, readers of a table see its current
\* record move from bar to bar, never back and never away.
CurrentMovesForward == Published!Spec

\* "never overwrite": a row stays, and only its effective_to may be set, once.
HistoryKept ==
    [][\A k \in Series : \A i \in DOMAIN rows[k] :
          /\ i \in DOMAIN rows'[k]
          /\ rows'[k][i].from = rows[k][i].from
          /\ rows'[k][i].payload = rows[k][i].payload
          /\ rows[k][i].to # Null => rows'[k][i].to = rows[k][i].to]_vars

\* "Advance the marker only when a timeframe pass is COMPLETELY successful": a bar that
\* is marked as processed is in all three tables of every symbol, or newer ones are,
\* unless the symbol has too few candles.
MarkedBarIsStored ==
    marker # 0 => \A s \in Symbols :
        \/ marker < MinBar[s]
        \/ \A t \in Tables : Current[<<t, s>>].bar >= marker

\* The worker catches up with the closed bars, symbols with too few candles and
\* failures of single symbols notwithstanding.
PassesComplete == []<>(marker = closed)
=============================================================================
