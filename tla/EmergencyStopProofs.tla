------------------------- MODULE EmergencyStopProofs -------------------------
(***************************************************************************)
(* Proofs about the emergency stop (module EmergencyStop): what its log    *)
(* says is true, a sell that is still pending is not repeated unasked,     *)
(* ok = True means stopped, and the audit copies the log, for any number   *)
(* of symbols, foreign orders, runs, crashes and starts of the daemon.     *)
(***************************************************************************)
EXTENDS EmergencyStop, SumTheorems, TLAPS

-----------------------------------------------------------------------------
(* The inductive invariant *)

Before  == {"list", "cancel", "log"}                            \* the balances are read
Selling == {"plan", "sell", "query", "place", "await"}
Known   == {"NEW"} \cup FinalStatuses                           \* statuses an order keeps to, once it arrived

\* A run has all its fields.
Shape(r) ==
    r = [pc |-> r.pc, listed |-> r.listed, todo |-> r.todo, keys |-> r.keys, plan |-> r.plan,
         free |-> r.free, cur |-> r.cur, errors |-> r.errors, filled |-> r.filled, blind |-> r.blind]

StopTypes ==
    /\ book \in [Ids -> {"absent", "inflight", "NEW"} \cup FinalStatuses]
    /\ runs \in 0 .. MaxRuns
    /\ log \in Seq(Rows)
    /\ Shape(run)
    /\ run.pc \in PCs /\ run.cur \in Sells
    /\ run.listed \subseteq Ids /\ run.plan \subseteq Symbols
    /\ run.pc # "idle" => runs \in 1 .. MaxRuns

\* The run has yet to sell s.
Ahead(s) == s \in run.plan \/ (run.pc \in {"query", "place"} /\ run.cur[1] = s)

\* A sell reaches the exchange in its run and not before.
FreshInv ==
    /\ \A s \in Symbols, n \in 1 .. MaxRuns :
         n > runs \/ (n = runs /\ run.pc \in Before) => book[<<s, n>>] = "absent"
    /\ run.pc \in Selling => \A s \in Symbols : Ahead(s) => book[<<s, runs>>] = "absent"

\* What a line of the log says of an order stays true.
LogInv ==
    \A n \in DOMAIN log :
        /\ log[n].action = "emergency_cancel" => book[log[n].id] \in FinalStatuses
        /\ log[n].action = "emergency_sell" =>
             /\ log[n].id \in Sells /\ book[log[n].id] \in Known
             /\ log[n].status \in FinalStatuses => book[log[n].id] \in FinalStatuses

\* An order the run found open is over, still to be cancelled, or an error.
ListedInv ==
    /\ run.pc \in {"cancel", "log"} \cup Selling =>
         \A i \in run.listed : /\ book[i] \in Known
                               /\ book[i] = "NEW" => run.errors \/ Symbol(i) \in run.todo
    /\ run.pc = "log" => run.keys \subseteq Ids /\ \A i \in run.keys : book[i] \in FinalStatuses
    /\ run.pc \in Selling => run.todo = {}

\* The last sell of s that was logged is over, or the query for it gave no answer.
PriorOver(s) ==
    run.blind \/ (SellRows(s) # {} => book[log[Max(SellRows(s))].id] \in FinalStatuses)

\* The sell at hand.
HandInv ==
    /\ run.pc = "query" => LET s == run.cur[1] IN s \notin run.plan /\ SellRows(s) # {} /\ run.cur = log[Max(SellRows(s))].id
    /\ run.pc \in {"place", "await"} => \E s \in Symbols : run.cur = <<s, runs>> /\ s \notin run.plan
    /\ run.pc = "place" => PriorOver(run.cur[1])

EInv == StopTypes /\ FreshInv /\ LogInv /\ ListedInv /\ HandInv

-----------------------------------------------------------------------------
(* Orders and lines of the log *)

\* The sell of a symbol in a run is one of the orders.
LEMMA SellIds ==
    /\ \A s \in Symbols, n \in 1 .. MaxRuns :
         <<s, n>> \in Ids /\ <<s, n>> \in Sells /\ <<s, n>> \notin Orders /\ Symbol(<<s, n>>) = s
    /\ Orders \subseteq Ids /\ Sells \subseteq Ids
    /\ \A i \in Sells : i[1] \in Symbols /\ Symbol(i) = i[1] /\ i \in Ids /\ i \notin Orders
    /\ \A i \in Ids : Symbol(i) \in Symbols
  <1>1. \A s \in Symbols, n \in 1 .. MaxRuns : <<s, n>> \in Sells
    BY DEF Sells
  <1>2. \A i \in Sells : i[1] \in Symbols /\ i \notin Orders
    BY IdAssumption DEF Sells
  <1> QED BY <1>1, <1>2, SymbolAssumption DEF Ids, Symbol

\* The state between two runs.
LEMMA IdleShape ==
    /\ Shape(Idle) /\ Idle.pc = "idle" /\ Idle.listed = {} /\ Idle.plan = {} /\ Idle.todo = {}
    /\ Idle.cur \in Sells
  <1>1. \E i \in Sells : TRUE
    <2>1. PICK s \in Symbols : TRUE
      BY SymbolAssumption
    <2>2. 1 \in 1 .. MaxRuns
      BY BoundAssumption
    <2> QED BY <2>1, <2>2, SellIds
  <1>2. (CHOOSE i \in Sells : TRUE) \in Sells
    BY <1>1
  <1> QED BY <1>2 DEF Shape, Idle

\* The lines of the log.
LEMMA LogRows ==
    ASSUME log \in Seq(Rows)
    PROVE  /\ Len(log) \in Nat /\ DOMAIN log = 1 .. Len(log)
           /\ \A n \in DOMAIN log : /\ log[n].action \in {"emergency_cancel", "emergency_sell", "torn"}
                                    /\ log[n].id \in Ids /\ log[n].status \in NonTerminal \cup FinalStatuses
  <1>1. Len(log) \in Nat /\ DOMAIN log = 1 .. Len(log) /\ \A n \in DOMAIN log : log[n] \in Rows
    OBVIOUS
  <1> QED BY <1>1 DEF Rows

\* One line more.
LEMMA LogAppend ==
    ASSUME log \in Seq(Rows), NEW action \in {"emergency_cancel", "emergency_sell", "torn"},
           NEW id \in Ids, NEW status \in NonTerminal \cup FinalStatuses,
           log' = Append(log, [action |-> action, id |-> id, status |-> status])
    PROVE  /\ log' \in Seq(Rows)
           /\ \A n \in DOMAIN log' : \/ n \in DOMAIN log /\ log'[n] = log[n]
                                     \/ log'[n] = [action |-> action, id |-> id, status |-> status]
  <1>1. [action |-> action, id |-> id, status |-> status] \in Rows
    BY DEF Rows
  <1>2. PICK r \in Rows : r = [action |-> action, id |-> id, status |-> status] /\ log' = Append(log, r)
    BY <1>1
  <1>3. /\ log' \in Seq(Rows)
        /\ \A n \in DOMAIN log' : (n \in DOMAIN log /\ log'[n] = log[n]) \/ log'[n] = r
    BY <1>2
  <1> QED BY <1>2, <1>3

\* The last sell of a symbol that was logged.
LEMMA PriorRow ==
    ASSUME EInv, NEW s, SellRows(s) # {}
    PROVE  /\ Max(SellRows(s)) \in SellRows(s)
           /\ log[Max(SellRows(s))].id \in Sells /\ log[Max(SellRows(s))].id[1] = s
           /\ book[log[Max(SellRows(s))].id] \in Known
           /\ log[Max(SellRows(s))].status \in FinalStatuses => book[log[Max(SellRows(s))].id] \in FinalStatuses
           /\ log[Max(SellRows(s))].status \in NonTerminal \cup FinalStatuses
  <1>1. Len(log) \in Nat /\ DOMAIN log = 1 .. Len(log)
    BY LogRows DEF EInv, StopTypes
  <1>2. SellRows(s) \subseteq 1 .. Len(log)
    BY <1>1 DEF SellRows
  <1>3. PICK n : n = Max(SellRows(s)) /\ n \in SellRows(s)
    BY <1>1, <1>2, MaxMember
  <1>4. n \in DOMAIN log /\ log[n].action = "emergency_sell" /\ Symbol(log[n].id) = s
    BY <1>3 DEF SellRows
  <1>5. /\ log[n].id \in Sells /\ book[log[n].id] \in Known
        /\ log[n].status \in FinalStatuses => book[log[n].id] \in FinalStatuses
    BY <1>4 DEF EInv, LogInv
  <1>6. log[n].status \in NonTerminal \cup FinalStatuses
    BY <1>4, LogRows DEF EInv, StopTypes
  <1> QED BY <1>3, <1>4, <1>5, <1>6, SellIds

\* What happens to the orders on the exchange: one that has ended stays so, and one that is
\* live stays known.
BookMoves ==
    /\ book' \in [Ids -> {"absent", "inflight", "NEW"} \cup FinalStatuses]
    /\ \A j \in Ids : \/ book'[j] = book[j]
                      \/ book[j] = "NEW" /\ book'[j] \in FinalStatuses
                      \/ book[j] \in {"absent", "inflight"}

\* The log stays true.
LEMMA LogKept ==
    ASSUME EInv, BookMoves, UNCHANGED log
    PROVE  LogInv'
  <1>1. \A n \in DOMAIN log : log[n].id \in Ids
    BY LogRows DEF EInv, StopTypes
  <1>2. \A j \in Ids : /\ book[j] \in FinalStatuses => book'[j] \in FinalStatuses
                       /\ book[j] \in Known => book'[j] \in Known
    BY DEF BookMoves, Known, FinalStatuses
  <1> QED BY <1>1, <1>2 DEF EInv, LogInv

\* Steps of the exchange, of its other clients and of the daemon.
LEMMA OutsideStep ==
    ASSUME EInv, BookMoves, UNCHANGED <<run, runs, log>>,
           \A s \in Symbols, n \in 1 .. MaxRuns : book[<<s, n>>] = "absent" => book'[<<s, n>>] = "absent"
    PROVE  EInv'
  <1>1. StopTypes'
    BY DEF EInv, StopTypes, BookMoves
  <1>2. FreshInv'
    <2>1. run.pc \in Selling => runs \in 1 .. MaxRuns
      BY DEF EInv, StopTypes, Selling
    <2> QED BY <2>1 DEF EInv, FreshInv, Ahead
  <1>3. LogInv'
    BY LogKept
  <1>0. \A j \in Ids : /\ book[j] \in FinalStatuses => book'[j] \in FinalStatuses
                       /\ book[j] \in Known => book'[j] \in Known
                       /\ book[j] \in Known /\ book'[j] = "NEW" => book[j] = "NEW"
    BY DEF BookMoves, Known, FinalStatuses
  <1>4. ListedInv'
    <2>1. run.listed \subseteq Ids
      BY DEF EInv, StopTypes
    <2> QED BY <1>0, <2>1 DEF EInv, ListedInv
  <1>5. HandInv'
    <2>1. \A s : SellRows(s)' = SellRows(s)
      BY DEF SellRows
    <2>2. ASSUME run.pc = "place" PROVE PriorOver(run.cur[1])'
      <3>1. PriorOver(run.cur[1])
        BY <2>2 DEF EInv, HandInv
      <3>2. SellRows(run.cur[1]) # {} => log[Max(SellRows(run.cur[1]))].id \in Ids
        BY PriorRow, SellIds
      <3> QED BY <1>0, <2>1, <3>1, <3>2 DEF PriorOver
    <2> QED BY <2>1, <2>2 DEF EInv, HandInv
  <1> QED BY <1>1, <1>2, <1>3, <1>4, <1>5 DEF EInv

-----------------------------------------------------------------------------
(* The cancellations *)

\* The end of a run, whatever it was doing.
LEMMA EndKeeps ==
    ASSUME EInv, run' = Idle, UNCHANGED <<runs, book>>, log' \in Seq(Rows), LogInv'
    PROVE  EInv'
  <1>1. StopTypes'
    BY IdleShape DEF EInv, StopTypes, PCs
  <1>2. FreshInv'
    BY IdleShape DEF EInv, FreshInv, Before, Selling
  <1>3. ListedInv' /\ HandInv'
    BY IdleShape DEF ListedInv, HandInv, Selling
  <1> QED BY <1>1, <1>2, <1>3 DEF EInv

\* A run that ends without a line in the log.
LEMMA EndStep ==
    ASSUME EInv, run' = Idle, UNCHANGED <<runs, book, log>>
    PROVE  EInv'
  <1>1. LogInv' /\ log' \in Seq(Rows)
    BY DEF EInv, LogInv, StopTypes
  <1> QED BY <1>1, EndKeeps

\* A run starts.
LEMMA StopOneStep ==
    ASSUME EInv, StopOne
    PROVE  EInv'
  <1>1. /\ run.pc = "idle" /\ runs < MaxRuns /\ runs' = runs + 1 /\ UNCHANGED <<book, log>>
        /\ run' = [run EXCEPT !.pc = "list"]
    BY DEF StopOne, At, Goto, exchVars
  <1>2. /\ Shape(run') /\ run'.pc = "list" /\ run'.cur = run.cur /\ run'.listed = run.listed /\ run'.plan = run.plan
    BY <1>1 DEF EInv, StopTypes, Shape
  <1>3. StopTypes' /\ LogInv'
    BY <1>1, <1>2, BoundAssumption DEF EInv, StopTypes, LogInv, PCs
  <1>4. FreshInv'
    <2>1. \A n \in 1 .. MaxRuns : n > runs' \/ n = runs' => n > runs
      BY <1>1, BoundAssumption DEF EInv, StopTypes
    <2> QED BY <1>1, <1>2, <2>1 DEF EInv, FreshInv, Selling
  <1>5. ListedInv' /\ HandInv'
    BY <1>2 DEF ListedInv, HandInv, Selling
  <1> QED BY <1>3, <1>4, <1>5 DEF EInv

\* The open orders are listed.
LEMMA ListStep ==
    ASSUME EInv, ListOpenOrders
    PROVE  EInv'
  <1>1. run.pc = "list" /\ UNCHANGED <<runs, book, log>>
    BY DEF ListOpenOrders, At, exchVars
  <1>2. CASE run' = Idle
    BY <1>1, <1>2, EndStep
  <1>3. CASE run' # Idle
    <2>1. PICK lagging \in SUBSET {i \in Ids : book[i] = "CANCELED" /\ Logged(i)} :
             run' = [run EXCEPT !.pc = "cancel", !.listed = Live \cup lagging,
                                !.todo = {Symbol(i) : i \in Live \cup lagging}]
      BY <1>3 DEF ListOpenOrders, Report
    <2>2. PICK listed, todo : /\ listed = Live \cup lagging /\ todo = {Symbol(i) : i \in listed}
                              /\ run' = [run EXCEPT !.pc = "cancel", !.listed = listed, !.todo = todo]
      BY <2>1
    <2>3. /\ Shape(run') /\ run'.pc = "cancel" /\ run'.cur = run.cur /\ run'.listed = listed
          /\ run'.todo = todo /\ run'.plan = run.plan
      BY <2>2 DEF EInv, StopTypes, Shape
    <2>4. listed \subseteq Ids /\ \A i \in listed : book[i] \in Known /\ Symbol(i) \in todo
      BY <2>1, <2>2 DEF Live, Known, FinalStatuses
    <2>5. StopTypes' /\ LogInv'
      BY <1>1, <2>3, <2>4 DEF EInv, StopTypes, LogInv, PCs
    <2>6. FreshInv'
      BY <1>1, <2>3 DEF EInv, FreshInv, Before, Selling
    <2>7. ListedInv' /\ HandInv'
      BY <1>1, <2>3, <2>4 DEF ListedInv, HandInv, Selling
    <2> QED BY <2>5, <2>6, <2>7 DEF EInv
  <1> QED BY <1>2, <1>3

\* The orders of a symbol are cancelled, or it is skipped, or the call fails.
LEMMA CancelStep ==
    ASSUME EInv, NEW s \in Symbols, CancelSymbol(s)
    PROVE  EInv'
  <1>1. run.pc = "cancel" /\ UNCHANGED <<runs, log>> /\ book' \in {book, Canceled(s)}
    BY DEF CancelSymbol, At
  <1>2. /\ Shape(run) /\ run.listed \subseteq Ids /\ run.plan \subseteq Symbols
        /\ book \in [Ids -> {"absent", "inflight", "NEW"} \cup FinalStatuses]
    BY DEF EInv, StopTypes
  <1>3. \A i \in Ids : \/ book'[i] = book[i]
                       \/ book[i] = "NEW" /\ book'[i] = "CANCELED"
    BY <1>1, <1>2 DEF Canceled, Live
  <1>4. BookMoves
    BY <1>1, <1>2, <1>3 DEF BookMoves, Canceled, FinalStatuses
  <1>5. /\ Shape(run') /\ run'.cur = run.cur /\ run'.listed = run.listed /\ run'.plan = run.plan
        /\ run'.todo = run.todo \ {s} /\ (run.errors => run'.errors)
        /\ \/ run'.pc = "cancel" /\ CancelDone(s)
           \/ run'.pc = "log" /\ run'.keys = Keys(s) /\ book' = Canceled(s)
           \/ run'.pc = "cancel" /\ run'.errors
    <2>1. CASE CancelDone(s) /\ run' = [run EXCEPT !.todo = @ \ {s}]
      BY <1>1, <1>2, <2>1 DEF Shape
    <2>2. CASE book' = Canceled(s) /\ run' = [run EXCEPT !.todo = @ \ {s}, !.pc = "log", !.keys = Keys(s)]
      BY <1>1, <1>2, <2>2 DEF Shape
    <2>3. CASE run' = [run EXCEPT !.todo = @ \ {s}, !.errors = TRUE]
      BY <1>1, <1>2, <2>3 DEF Shape
    <2> QED BY <2>1, <2>2, <2>3 DEF CancelSymbol
  <1>6. \A i \in run.listed : /\ book[i] \in Known
                              /\ book[i] = "NEW" => run.errors \/ Symbol(i) \in run.todo
    BY <1>1 DEF EInv, ListedInv
  <1>7. \A i \in Keys(s) : i \in run.listed /\ Symbol(i) = s
    BY DEF Keys
  <1>8. \A i \in run.listed : Symbol(i) = s => i \in Keys(s)
    BY DEF Keys
  <1>9. StopTypes' /\ LogInv'
    BY <1>1, <1>2, <1>4, <1>5, LogKept DEF EInv, StopTypes, BookMoves, PCs
  <1>10. FreshInv'
    <2>1. \A t \in Symbols, n \in 1 .. MaxRuns : book[<<t, n>>] = "absent" => book'[<<t, n>>] = "absent"
      BY <1>3, SellIds
    <2> QED BY <1>1, <1>5, <2>1 DEF EInv, FreshInv, Before, Selling
  <1>11. HandInv'
    BY <1>5 DEF HandInv
  <1>12. ASSUME NEW i \in run.listed
         PROVE  /\ book'[i] \in Known
                /\ book'[i] = "NEW" => run'.errors \/ Symbol(i) \in run'.todo
    <2>1. book'[i] \in Known /\ (book'[i] = "NEW" => book[i] = "NEW")
      BY <1>2, <1>3, <1>6 DEF Known, FinalStatuses
    <2>2. ASSUME book'[i] = "NEW", ~run'.errors PROVE Symbol(i) \in run'.todo
      <3>1. Symbol(i) \in run.todo
        BY <1>5, <1>6, <2>1, <2>2
      <3>2. CASE Symbol(i) = s
        <4>1. i \in Keys(s) /\ i \in Ids
          BY <1>2, <1>8, <3>2
        <4>2. CASE CancelDone(s)
          <5>1. PICK n \in DOMAIN log : log[n].action = "emergency_cancel" /\ log[n].id = i
            BY <4>1, <4>2 DEF CancelDone, Logged
          <5>2. book[i] \in FinalStatuses
            BY <5>1 DEF EInv, LogInv
          <5> QED BY <2>1, <2>2, <5>2 DEF FinalStatuses
        <4>3. CASE book' = Canceled(s)
          BY <2>1, <2>2, <3>2, <4>1, <4>3 DEF Canceled, Live
        <4> QED BY <1>5, <2>2, <4>2, <4>3
      <3> QED BY <1>5, <3>1, <3>2
    <2> QED BY <2>1, <2>2
  <1>13. ASSUME run'.pc = "log" PROVE run'.keys \subseteq Ids /\ \A i \in run'.keys : book'[i] \in FinalStatuses
    <2>1. run'.keys = Keys(s) /\ book' = Canceled(s)
      BY <1>5, <1>13
    <2>2. ASSUME NEW i \in Keys(s) PROVE i \in Ids /\ book'[i] \in FinalStatuses
      <3>1. i \in Ids /\ Symbol(i) = s /\ book[i] \in Known
        BY <1>2, <1>6, <1>7
      <3> QED BY <2>1, <3>1 DEF Canceled, Live, Known, FinalStatuses
    <2> QED BY <2>1, <2>2
  <1>14. ListedInv'
    BY <1>5, <1>12, <1>13 DEF ListedInv, Selling
  <1> QED BY <1>9, <1>10, <1>11, <1>14 DEF EInv

\* A line of the log about an order that is off the book.
LEMMA LogCancelStep ==
    ASSUME EInv, NEW i \in Ids, LogCancel(i)
    PROVE  EInv'
  <1>1. run.pc = "log" /\ i \in run.keys /\ UNCHANGED <<runs, book>>
    BY DEF LogCancel, At, exchVars
  <1>2. CASE run' = Idle /\ UNCHANGED log
    BY <1>1, <1>2, EndStep
  <1>3. CASE /\ log' = Append(log, [action |-> "emergency_cancel", id |-> i, status |-> "CANCELED"])
             /\ run' = [run EXCEPT !.keys = @ \ {i}, !.pc = IF run.keys = {i} THEN "cancel" ELSE "log"]
    <2>1. log \in Seq(Rows) /\ "CANCELED" \in NonTerminal \cup FinalStatuses
      BY DEF EInv, StopTypes, FinalStatuses
    <2>2. /\ log' \in Seq(Rows)
          /\ \A n \in DOMAIN log' : \/ n \in DOMAIN log /\ log'[n] = log[n]
                                    \/ log'[n] = [action |-> "emergency_cancel", id |-> i, status |-> "CANCELED"]
      BY <1>3, <2>1, LogAppend
    <2>3. book[i] \in FinalStatuses
      BY <1>1 DEF EInv, ListedInv
    <2>4. LogInv'
      BY <1>1, <2>2, <2>3 DEF EInv, LogInv
    <2>5. /\ Shape(run') /\ run'.cur = run.cur /\ run'.listed = run.listed /\ run'.plan = run.plan
          /\ run'.todo = run.todo /\ run'.errors = run.errors /\ run'.pc \in {"cancel", "log"}
          /\ run'.keys \subseteq run.keys
      BY <1>3 DEF EInv, StopTypes, Shape
    <2>6. StopTypes'
      BY <1>1, <2>2, <2>5 DEF EInv, StopTypes, PCs
    <2>7. FreshInv'
      BY <1>1, <2>5 DEF EInv, FreshInv, Before, Selling
    <2>8. ListedInv'
      BY <1>1, <2>5 DEF EInv, ListedInv, Selling
    <2>9. HandInv'
      BY <2>5 DEF HandInv
    <2> QED BY <2>4, <2>6, <2>7, <2>8, <2>9 DEF EInv
  <1> QED BY <1>2, <1>3 DEF LogCancel, Report

-----------------------------------------------------------------------------
(* The sells *)

\* The balances are read.
LEMMA PlanStep ==
    ASSUME EInv, PlanSells
    PROVE  EInv'
  <1>1. run.pc = "cancel" /\ run.todo = {} /\ UNCHANGED <<runs, book, log>>
    BY DEF PlanSells, At
  <1>2. CASE run' = Idle
    BY <1>1, <1>2, EndStep
  <1>3. CASE run' # Idle
    <2>1. PICK plan \in SUBSET {s \in Symbols : FreeUnits(s) > 0} :
             run' = [run EXCEPT !.pc = "plan", !.plan = plan,
                                !.free = [s \in Symbols |-> FreeUnits(s)],
                                !.errors = @ \/ \E s \in Symbols \ plan : FreeUnits(s) > 0]
      BY <1>3 DEF PlanSells, Report
    <2>2. PICK free, errors : /\ errors = (run.errors \/ \E s \in Symbols \ plan : FreeUnits(s) > 0)
                              /\ run' = [run EXCEPT !.pc = "plan", !.plan = plan, !.free = free, !.errors = errors]
      BY <2>1
    <2>3. /\ Shape(run') /\ run'.pc = "plan" /\ run'.cur = run.cur /\ run'.listed = run.listed
          /\ run'.todo = {} /\ run'.plan = plan /\ run'.errors = errors
      BY <1>1, <2>2 DEF EInv, StopTypes, Shape
    <2>4. StopTypes' /\ LogInv'
      BY <1>1, <2>1, <2>3 DEF EInv, StopTypes, LogInv, PCs
    <2>5. FreshInv'
      <3>1. runs \in 1 .. MaxRuns
        BY <1>1 DEF EInv, StopTypes
      <3> QED BY <1>1, <2>3, <3>1 DEF EInv, FreshInv, Before, Selling
    <2>6. ListedInv'
      <3>1. ASSUME NEW i \in run.listed PROVE book[i] \in Known /\ (book[i] = "NEW" => run.errors)
        BY <1>1 DEF EInv, ListedInv
      <3>2. run.errors => run'.errors
        BY <2>2, <2>3
      <3> QED BY <1>1, <2>3, <3>1, <3>2 DEF ListedInv
    <2>7. HandInv'
      BY <2>3 DEF HandInv
    <2> QED BY <2>4, <2>5, <2>6, <2>7 DEF EInv
  <1> QED BY <1>2, <1>3

\* The run goes on selling, with the same orders on the exchange and the same log.
LEMMA SellsOn ==
    ASSUME EInv, run.pc \in Selling, Shape(run'), run'.pc \in Selling, run'.cur \in Sells,
           run'.plan \subseteq run.plan, run'.listed = run.listed, run'.todo = run.todo, run'.errors = run.errors,
           UNCHANGED <<runs, book, log>>,
           \A s \in Symbols : Ahead(s)' => Ahead(s),
           HandInv'
    PROVE  EInv'
  <1>1. StopTypes' /\ LogInv'
    BY DEF EInv, StopTypes, LogInv, PCs, Selling
  <1>2. FreshInv'
    <2>1. run.pc \notin Before /\ run'.pc \notin Before
      BY DEF Before, Selling
    <2> QED BY <2>1 DEF EInv, FreshInv
  <1>3. ListedInv'
    BY DEF EInv, ListedInv, Selling
  <1> QED BY <1>1, <1>2, <1>3 DEF EInv

LEMMA ConfirmStep ==
    ASSUME EInv, Confirm
    PROVE  EInv'
  <1>1. run.pc = "plan" /\ UNCHANGED <<runs, book, log>>
    BY DEF Confirm, At, exchVars
  <1>2. CASE run' = Idle
    BY <1>1, <1>2, EndStep
  <1>3. CASE run' = [run EXCEPT !.pc = "sell"]
    <2>1. /\ Shape(run') /\ run'.pc = "sell" /\ run'.cur = run.cur /\ run'.listed = run.listed
          /\ run'.todo = run.todo /\ run'.plan = run.plan /\ run'.errors = run.errors
      BY <1>3 DEF EInv, StopTypes, Shape
    <2>2. HandInv' /\ \A s \in Symbols : Ahead(s)' => Ahead(s)
      BY <2>1 DEF HandInv, Ahead
    <2>3. run.cur \in Sells
      BY DEF EInv, StopTypes
    <2> QED BY <1>1, <2>1, <2>2, <2>3, SellsOn DEF Selling
  <1> QED BY <1>2, <1>3 DEF Confirm, Report, Goto

\* The next symbol: its last logged sell is queried, or a new one is placed.
LEMMA NextSellFields ==
    ASSUME EInv, NEW s \in Symbols, NextSell(s)
    PROVE  /\ run.pc = "sell" /\ s \in run.plan /\ UNCHANGED <<runs, book, log, held, qty, late>>
           /\ Shape(run') /\ run'.plan = run.plan \ {s} /\ run'.listed = run.listed /\ run'.todo = run.todo
           /\ run'.errors = run.errors /\ run'.free = run.free /\ run'.filled = run.filled
           /\ \/ /\ run'.pc = "query" /\ SellRows(s) # {} /\ run'.cur = log[Max(SellRows(s))].id
              \/ /\ run'.pc = "place" /\ run'.cur = <<s, runs>>
                 /\ ~(SellRows(s) # {} /\ log[Max(SellRows(s))].status \in NonTerminal)
  <1>1. run.pc = "sell" /\ s \in run.plan /\ UNCHANGED <<runs, book, log, held, qty, late>>
    BY DEF NextSell, At, exchVars
  <1>2. CASE SellRows(s) # {} /\ log[Max(SellRows(s))].status \in NonTerminal
    <2>1. run' = [[run EXCEPT !.plan = @ \ {s}, !.blind = FALSE] EXCEPT !.pc = "query", !.cur = log[Max(SellRows(s))].id]
      BY <1>2 DEF NextSell
    <2> QED BY <1>1, <1>2, <2>1 DEF EInv, StopTypes, Shape
  <1>3. CASE ~(SellRows(s) # {} /\ log[Max(SellRows(s))].status \in NonTerminal)
    <2>1. run' = [[run EXCEPT !.plan = @ \ {s}, !.blind = FALSE] EXCEPT !.pc = "place", !.cur = <<s, runs>>]
      BY <1>3 DEF NextSell
    <2> QED BY <1>1, <1>3, <2>1 DEF EInv, StopTypes, Shape
  <1> QED BY <1>2, <1>3

LEMMA NextSellStep ==
    ASSUME EInv, NEW s \in Symbols, NextSell(s)
    PROVE  EInv' /\ \A t \in Symbols : Ahead(t)' <=> Ahead(t)
  <1>1. /\ run.pc = "sell" /\ s \in run.plan /\ UNCHANGED <<runs, book, log, held, qty, late>>
        /\ Shape(run') /\ run'.plan = run.plan \ {s} /\ run'.listed = run.listed /\ run'.todo = run.todo
        /\ run'.errors = run.errors /\ run'.free = run.free /\ run'.filled = run.filled
        /\ \/ /\ run'.pc = "query" /\ SellRows(s) # {} /\ run'.cur = log[Max(SellRows(s))].id
           \/ /\ run'.pc = "place" /\ run'.cur = <<s, runs>>
              /\ ~(SellRows(s) # {} /\ log[Max(SellRows(s))].status \in NonTerminal)
    BY NextSellFields
  <1>2. runs \in 1 .. MaxRuns
    BY <1>1 DEF EInv, StopTypes
  <1>3. run'.pc \in {"query", "place"} /\ run'.cur \in Sells /\ run'.cur[1] = s
    <2>1. CASE run'.pc = "query"
      BY <1>1, <2>1, PriorRow
    <2>2. CASE run'.pc = "place"
      <3>1. <<s, runs>> \in Sells
        BY <1>2, SellIds
      <3> QED BY <1>1, <2>2, <3>1
    <2> QED BY <1>1, <2>1, <2>2
  <1>4. \A t \in Symbols : Ahead(t)' <=> Ahead(t)
    BY <1>1, <1>3 DEF Ahead
  <1>5. \A t : SellRows(t)' = SellRows(t)
    BY <1>1 DEF SellRows
  <1>6. ASSUME run'.pc = "place" PROVE PriorOver(run.cur[1])'
    <2>1. SellRows(s) # {} => book[log[Max(SellRows(s))].id] \in FinalStatuses
      <3>1. ASSUME SellRows(s) # {} PROVE book[log[Max(SellRows(s))].id] \in FinalStatuses
        <4>1. log[Max(SellRows(s))].status \notin NonTerminal
          BY <1>1, <1>6, <3>1
        <4>2. /\ log[Max(SellRows(s))].status \in NonTerminal \cup FinalStatuses
              /\ log[Max(SellRows(s))].status \in FinalStatuses => book[log[Max(SellRows(s))].id] \in FinalStatuses
          BY <3>1, PriorRow
        <4> QED BY <4>1, <4>2
      <3> QED BY <3>1
    <2> QED BY <1>1, <1>3, <1>5, <2>1 DEF PriorOver
  <1>7. HandInv'
    <2>1. s \notin run'.plan
      BY <1>1
    <2> QED BY <1>1, <1>3, <1>5, <1>6, <2>1 DEF HandInv
  <1>8. EInv'
    BY <1>1, <1>3, <1>4, <1>7, SellsOn DEF Selling
  <1> QED BY <1>4, <1>8

\* What the query makes of the run.
LEMMA QueryFields ==
    ASSUME EInv, QueryPrior
    PROVE  /\ run.pc = "query" /\ UNCHANGED <<runs, book, log, held, qty, late>>
           /\ Shape(run') /\ run'.plan = run.plan /\ run'.listed = run.listed /\ run'.todo = run.todo
           /\ run'.errors = run.errors /\ run'.free = run.free
           /\ \/ run'.pc = "sell" /\ run'.cur = run.cur /\ ~run'.filled
              \/ /\ run'.pc = "place" /\ run'.cur = <<run.cur[1], runs>> /\ run'.filled = run.filled
                 /\ run'.blind \/ book[run.cur] \in FinalStatuses
  <1>1. run.pc = "query" /\ UNCHANGED <<runs, book, log, held, qty, late>>
    BY DEF QueryPrior, At, exchVars
  <1>2. PICK a \in Answers(run.cur) :
           run' = IF a \in NonTerminal
                    THEN [run EXCEPT !.pc = "sell", !.filled = FALSE]
                    ELSE [run EXCEPT !.pc = "place", !.cur = <<@[1], runs>>, !.blind = a = "none"]
    BY DEF QueryPrior
  <1>3. CASE a \in NonTerminal
    <2>1. run' = [run EXCEPT !.pc = "sell", !.filled = FALSE]
      BY <1>2, <1>3
    <2> QED BY <1>1, <2>1 DEF EInv, StopTypes, Shape
  <1>4. CASE a \notin NonTerminal
    <2>1. PICK blind : blind = (a = "none") /\ run' = [run EXCEPT !.pc = "place", !.cur = <<@[1], runs>>, !.blind = blind]
      BY <1>2, <1>4
    <2>2. /\ Shape(run') /\ run'.plan = run.plan /\ run'.listed = run.listed /\ run'.todo = run.todo
          /\ run'.errors = run.errors /\ run'.free = run.free
          /\ run'.pc = "place" /\ run'.cur = <<run.cur[1], runs>> /\ run'.filled = run.filled /\ run'.blind = blind
      BY <2>1 DEF EInv, StopTypes, Shape
    <2>3. a # "none" => book[run.cur] \in FinalStatuses
      <3>1. book[run.cur] \in {"absent", "inflight", "NEW"} \cup FinalStatuses
        BY SellIds DEF EInv, StopTypes
      <3> QED BY <1>4, <3>1 DEF Answers, NonTerminal, FinalStatuses, Live
    <2>4. a = "none" => run'.blind
      BY <2>1, <2>2
    <2> QED BY <1>1, <2>2, <2>3, <2>4
  <1> QED BY <1>3, <1>4

LEMMA QueryStep ==
    ASSUME EInv, QueryPrior
    PROVE  EInv' /\ \A s \in Symbols : (Ahead(s)' => Ahead(s)) /\ (run'.pc = "place" => (Ahead(s)' <=> Ahead(s)))
  <1>1. /\ run.pc = "query" /\ UNCHANGED <<runs, book, log, held, qty, late>>
        /\ Shape(run') /\ run'.plan = run.plan /\ run'.listed = run.listed /\ run'.todo = run.todo
        /\ run'.errors = run.errors /\ run'.free = run.free
        /\ \/ run'.pc = "sell" /\ run'.cur = run.cur /\ ~run'.filled
           \/ /\ run'.pc = "place" /\ run'.cur = <<run.cur[1], runs>> /\ run'.filled = run.filled
              /\ run'.blind \/ book[run.cur] \in FinalStatuses
    BY QueryFields
  <1>2. PICK s \in Symbols : s = run.cur[1]
    BY SellIds DEF EInv, StopTypes
  <1>3. runs \in 1 .. MaxRuns /\ run.cur \in Sells
    BY <1>1 DEF EInv, StopTypes
  <1>4. s \notin run.plan /\ SellRows(s) # {} /\ run.cur = log[Max(SellRows(s))].id
    BY <1>1, <1>2 DEF EInv, HandInv
  <1>5. run'.cur \in Sells /\ run'.cur[1] = s
    BY <1>1, <1>2, <1>3, SellIds
  <1>6. \A t \in Symbols : (Ahead(t)' => Ahead(t)) /\ (run'.pc = "place" => (Ahead(t)' <=> Ahead(t)))
    BY <1>1, <1>2, <1>5 DEF Ahead
  <1>7. \A t : SellRows(t)' = SellRows(t)
    BY <1>1 DEF SellRows
  <1>8. ASSUME run'.pc = "place" PROVE PriorOver(run.cur[1])'
    BY <1>1, <1>4, <1>5, <1>7, <1>8 DEF PriorOver
  <1>9. HandInv'
    BY <1>1, <1>2, <1>4, <1>5, <1>8 DEF HandInv
  <1>10. EInv'
    BY <1>1, <1>5, <1>6, <1>9, SellsOn DEF Selling
  <1> QED BY <1>6, <1>10

\* The request of a sell leaves: the sell of this run for the symbol, never sent before.
LEMMA PlaceFields ==
    ASSUME EInv, PlaceSell
    PROVE  /\ run.pc = "place" /\ UNCHANGED <<runs, log, held, late>>
           /\ Shape(run') /\ run'.plan = run.plan /\ run'.listed = run.listed /\ run'.todo = run.todo
           /\ run'.errors = run.errors /\ run'.free = run.free /\ run'.filled = run.filled
           /\ run'.pc = "await" /\ run'.cur = run.cur
           /\ book[run.cur] = "absent" /\ run.cur \in Sells /\ runs \in 1 .. MaxRuns
           /\ \E s \in Symbols : run.cur = <<s, runs>> /\ s \notin run.plan
           /\ book' = [book EXCEPT ![run.cur] = "inflight"]
           /\ qty' = [qty EXCEPT ![run.cur] = run.free[run.cur[1]]]
  <1>1. /\ run.pc = "place" /\ UNCHANGED <<runs, log, held, late>> /\ run' = [run EXCEPT !.pc = "await"]
        /\ book' = [book EXCEPT ![run.cur] = "inflight"]
        /\ qty' = [qty EXCEPT ![run.cur] = run.free[run.cur[1]]]
    BY DEF PlaceSell, At, Goto
  <1>2. /\ Shape(run') /\ run'.plan = run.plan /\ run'.listed = run.listed /\ run'.todo = run.todo
        /\ run'.errors = run.errors /\ run'.free = run.free /\ run'.filled = run.filled
        /\ run'.pc = "await" /\ run'.cur = run.cur
    BY <1>1 DEF EInv, StopTypes, Shape
  <1>3. run.cur \in Sells /\ runs \in 1 .. MaxRuns
    BY <1>1 DEF EInv, StopTypes
  <1>4. PICK s \in Symbols : run.cur = <<s, runs>> /\ s \notin run.plan
    BY <1>1 DEF EInv, HandInv
  <1>5. book[run.cur] = "absent"
    BY <1>1, <1>4 DEF EInv, FreshInv, Ahead, Selling
  <1> QED BY <1>1, <1>2, <1>3, <1>4, <1>5

LEMMA PlaceStep ==
    ASSUME EInv, PlaceSell
    PROVE  EInv'
  <1>1. /\ run.pc = "place" /\ UNCHANGED <<runs, log, held, late>>
        /\ Shape(run') /\ run'.plan = run.plan /\ run'.listed = run.listed /\ run'.todo = run.todo
        /\ run'.errors = run.errors /\ run'.free = run.free /\ run'.filled = run.filled
        /\ run'.pc = "await" /\ run'.cur = run.cur
        /\ book[run.cur] = "absent" /\ run.cur \in Sells /\ runs \in 1 .. MaxRuns
        /\ \E s \in Symbols : run.cur = <<s, runs>> /\ s \notin run.plan
        /\ book' = [book EXCEPT ![run.cur] = "inflight"]
    BY PlaceFields
  <1>2. PICK s \in Symbols : run.cur = <<s, runs>> /\ s \notin run.plan
    BY <1>1
  <1>3. run.cur \in Ids /\ \A j \in Ids : book'[j] = IF j = run.cur THEN "inflight" ELSE book[j]
    BY <1>1, SellIds DEF EInv, StopTypes
  <1>4. BookMoves
    BY <1>1, <1>3 DEF EInv, StopTypes, BookMoves
  <1>5. StopTypes' /\ LogInv'
    BY <1>1, <1>4, LogKept DEF EInv, StopTypes, BookMoves, PCs
  <1>6. FreshInv'
    <2>1. ASSUME NEW u \in Symbols, NEW n \in 1 .. MaxRuns, n > runs PROVE book'[<<u, n>>] = "absent"
      <3>1. <<u, n>> # run.cur
        BY <1>1, <1>2, <2>1
      <3> QED BY <1>3, <2>1, <3>1, SellIds DEF EInv, FreshInv
    <2>2. ASSUME NEW u \in Symbols, u \in run.plan PROVE book'[<<u, runs>>] = "absent"
      <3>1. <<u, runs>> # run.cur /\ <<u, runs>> \in Ids
        BY <1>1, <1>2, <2>2, SellIds
      <3> QED BY <1>1, <1>3, <2>2, <3>1 DEF EInv, FreshInv, Ahead, Selling
    <2> QED BY <1>1, <2>1, <2>2 DEF FreshInv, Ahead, Before
  <1>7. ListedInv'
    <2>1. \A i \in run.listed : i \in Ids /\ book[i] \in Known /\ i # run.cur
      BY <1>1 DEF EInv, ListedInv, StopTypes, Selling, Known, FinalStatuses
    <2>2. \A i \in run.listed : book'[i] = book[i]
      BY <1>3, <2>1
    <2> QED BY <1>1, <2>2 DEF EInv, ListedInv, Selling
  <1>8. HandInv'
    BY <1>1, <1>2 DEF HandInv
  <1> QED BY <1>5, <1>6, <1>7, <1>8 DEF EInv

\* A line of the log at the end of a step that leaves the exchange alone.
LEMMA LineKeeps ==
    ASSUME EInv, UNCHANGED book, NEW id \in Ids, NEW status \in NonTerminal \cup FinalStatuses,
           NEW action \in {"emergency_sell", "torn"},
           action = "emergency_sell" => /\ id \in Sells /\ book[id] \in Known
                                        /\ status \in FinalStatuses => book[id] \in FinalStatuses,
           log' = Append(log, [action |-> action, id |-> id, status |-> status])
    PROVE  log' \in Seq(Rows) /\ LogInv'
  <1>1. /\ log' \in Seq(Rows)
        /\ \A n \in DOMAIN log' : \/ n \in DOMAIN log /\ log'[n] = log[n]
                                  \/ log'[n] = [action |-> action, id |-> id, status |-> status]
    <2>1. log \in Seq(Rows)
      BY DEF EInv, StopTypes
    <2> QED BY <2>1, LogAppend
  <1> QED BY <1>1 DEF EInv, LogInv

\* The answer of the exchange ends the run, at a torn line, or is logged.
LEMMA AnswerFields ==
    ASSUME EInv, SellAnswered
    PROVE  /\ run.pc = "await" /\ UNCHANGED <<runs, book, held, qty, late>> /\ book[run.cur] \in Known
           /\ \/ run' = Idle /\ ok' = FALSE /\ UNCHANGED log
              \/ /\ Shape(run') /\ run'.plan = run.plan /\ run'.listed = run.listed /\ run'.todo = run.todo
                 /\ run'.errors = run.errors /\ run'.free = run.free /\ run'.cur = run.cur /\ run'.pc = "sell"
                 /\ run'.filled => run.filled /\ book[run.cur] = "FILLED"
                 /\ UNCHANGED ok
                 /\ \E status \in {"NEW", book[run.cur]} :
                       log' = Append(log, [action |-> "emergency_sell", id |-> run.cur, status |-> status])
  <1>1. /\ run.pc = "await" /\ UNCHANGED <<runs, book, held, qty, late>>
        /\ book[run.cur] \notin {"absent", "inflight", "REJECTED"}
    BY DEF SellAnswered, At, exchVars
  <1>2. book[run.cur] \in Known
    <2>1. run.cur \in Ids /\ book[run.cur] \in {"absent", "inflight", "NEW"} \cup FinalStatuses
      BY SellIds DEF EInv, StopTypes
    <2> QED BY <1>1, <2>1 DEF Known
  <1>3. CASE run' = Idle /\ ok' = FALSE /\ UNCHANGED log
    BY <1>1, <1>2, <1>3
  <1>4. CASE ~(run' = Idle /\ ok' = FALSE /\ UNCHANGED log)
    <2>1. PICK status \in {"NEW", book[run.cur]} :
             /\ log' = Append(log, [action |-> "emergency_sell", id |-> run.cur, status |-> status])
             /\ run' = [run EXCEPT !.pc = "sell", !.filled = @ /\ status = "FILLED"]
             /\ UNCHANGED ok
      BY <1>4 DEF SellAnswered, Report
    <2>2. PICK filled : /\ filled = (run.filled /\ status = "FILLED")
                        /\ run' = [run EXCEPT !.pc = "sell", !.filled = filled]
      BY <2>1
    <2>3. /\ Shape(run') /\ run'.plan = run.plan /\ run'.listed = run.listed /\ run'.todo = run.todo
          /\ run'.errors = run.errors /\ run'.free = run.free /\ run'.cur = run.cur /\ run'.pc = "sell"
          /\ run'.filled = filled
      BY <2>2 DEF EInv, StopTypes, Shape
    <2>4. run'.filled => run.filled /\ book[run.cur] = "FILLED"
      BY <2>1, <2>2, <2>3
    <2> QED BY <1>1, <1>2, <2>1, <2>3, <2>4
  <1> QED BY <1>3, <1>4

LEMMA AnswerStep ==
    ASSUME EInv, SellAnswered
    PROVE  EInv'
  <1>1. /\ run.pc = "await" /\ UNCHANGED <<runs, book, held, qty, late>> /\ book[run.cur] \in Known
        /\ \/ run' = Idle /\ ok' = FALSE /\ UNCHANGED log
           \/ /\ Shape(run') /\ run'.plan = run.plan /\ run'.listed = run.listed /\ run'.todo = run.todo
              /\ run'.errors = run.errors /\ run'.free = run.free /\ run'.cur = run.cur /\ run'.pc = "sell"
              /\ run'.filled => run.filled /\ book[run.cur] = "FILLED"
              /\ UNCHANGED ok
              /\ \E status \in {"NEW", book[run.cur]} :
                    log' = Append(log, [action |-> "emergency_sell", id |-> run.cur, status |-> status])
    BY AnswerFields
  <1>2. CASE run' = Idle /\ UNCHANGED log
    BY <1>1, <1>2, EndStep
  <1>3. CASE ~(run' = Idle /\ UNCHANGED log)
    <2>1. PICK status \in {"NEW", book[run.cur]} :
             log' = Append(log, [action |-> "emergency_sell", id |-> run.cur, status |-> status])
      BY <1>1, <1>3
    <2>2. /\ Shape(run') /\ run'.plan = run.plan /\ run'.listed = run.listed /\ run'.todo = run.todo
          /\ run'.errors = run.errors /\ run'.cur = run.cur /\ run'.pc = "sell"
      BY <1>1, <1>3
    <2>3. run.cur \in Sells /\ run.cur \in Ids
      BY SellIds DEF EInv, StopTypes
    <2>4. status \in NonTerminal \cup FinalStatuses /\ (status \in FinalStatuses => book[run.cur] \in FinalStatuses)
      BY <1>1, <2>1 DEF Known, NonTerminal, FinalStatuses
    <2>5. log' \in Seq(Rows) /\ LogInv'
      <3>1. book' = book
        BY <1>1
      <3> QED BY <1>1, <2>1, <2>3, <2>4, <3>1, LineKeeps
    <2>6. StopTypes'
      BY <1>1, <2>2, <2>5 DEF EInv, StopTypes, PCs
    <2>7. FreshInv'
      BY <1>1, <2>2 DEF EInv, FreshInv, Ahead, Before, Selling
    <2>8. ListedInv'
      BY <1>1, <2>2 DEF EInv, ListedInv, Selling
    <2>9. HandInv'
      BY <2>2 DEF HandInv
    <2> QED BY <2>5, <2>6, <2>7, <2>8, <2>9 DEF EInv
  <1> QED BY <1>2, <1>3

\* The request was refused or timed out.
LEMMA FailFields ==
    ASSUME EInv, SellFailed
    PROVE  /\ run.pc = "await" /\ UNCHANGED <<runs, book, log, held, qty, late, ok>>
           /\ Shape(run') /\ run'.plan = run.plan /\ run'.listed = run.listed /\ run'.todo = run.todo
           /\ run'.errors = run.errors /\ run'.free = run.free /\ run'.cur = run.cur /\ run'.pc = "sell"
           /\ ~run'.filled
  <1>1. /\ run.pc = "await" /\ UNCHANGED <<runs, book, log, held, qty, late, ok>>
        /\ run' = [run EXCEPT !.pc = "sell", !.filled = FALSE]
    BY DEF SellFailed, At, exchVars
  <1> QED BY <1>1 DEF EInv, StopTypes, Shape

LEMMA FailStep ==
    ASSUME EInv, SellFailed
    PROVE  EInv'
  <1>1. /\ run.pc = "await" /\ UNCHANGED <<runs, book, log>>
        /\ Shape(run') /\ run'.plan = run.plan /\ run'.listed = run.listed /\ run'.todo = run.todo
        /\ run'.errors = run.errors /\ run'.cur = run.cur /\ run'.pc = "sell"
    BY FailFields
  <1>2. HandInv' /\ \A s \in Symbols : Ahead(s)' => Ahead(s)
    BY <1>1 DEF HandInv, Ahead
  <1>3. run'.cur \in Sells
    BY <1>1 DEF EInv, StopTypes
  <1> QED BY <1>1, <1>2, <1>3, SellsOn DEF Selling

\* The script dies, perhaps in the middle of a line.
LEMMA CrashStep ==
    ASSUME EInv, Crash
    PROVE  EInv'
  <1>1. run' = Idle /\ UNCHANGED <<runs, book>>
    BY DEF Crash, Report, exchVars
  <1>2. CASE UNCHANGED log
    BY <1>1, <1>2, EndStep
  <1>3. CASE log' = Append(log, [action |-> "torn", id |-> run.cur, status |-> "UNKNOWN"])
    <2>1. run.cur \in Ids /\ "UNKNOWN" \in NonTerminal \cup FinalStatuses
      BY SellIds DEF EInv, StopTypes, NonTerminal
    <2>2. log' \in Seq(Rows) /\ LogInv'
      BY <1>1, <1>3, <2>1, LineKeeps
    <2> QED BY <1>1, <2>2, EndKeeps
  <1> QED BY <1>2, <1>3 DEF Crash

\* An order arrives at the exchange, is lost on its way there, trades or expires.
ExchangeMoves(i) ==
    /\ i \in Ids
    /\ \E status \in {"absent"} \cup Known : book' = [book EXCEPT ![i] = status]
    /\ \/ i \in Orders /\ book[i] = "absent"
       \/ book[i] = "inflight"
       \/ book[i] = "NEW" /\ book'[i] \in FinalStatuses

LEMMA ExchangeStep ==
    ASSUME EInv, NEW i, ExchangeMoves(i), UNCHANGED <<run, runs, log>>
    PROVE  EInv'
  <1>1. PICK status \in {"absent"} \cup Known : book' = [book EXCEPT ![i] = status]
    BY DEF ExchangeMoves
  <1>2. \A j \in Ids : book'[j] = IF j = i THEN status ELSE book[j]
    BY <1>1 DEF EInv, StopTypes
  <1>3. BookMoves
    BY <1>1, <1>2 DEF EInv, StopTypes, BookMoves, ExchangeMoves, Known
  <1>4. \A s \in Symbols, n \in 1 .. MaxRuns : book[<<s, n>>] = "absent" => book'[<<s, n>>] = "absent"
    BY <1>2, SellIds DEF ExchangeMoves
  <1> QED BY <1>3, <1>4, OutsideStep

LEMMA ForeignStep ==
    ASSUME EInv, NEW o \in Orders, ForeignOrder(o)
    PROVE  EInv'
  <1>1. ExchangeMoves(o)
    BY SellIds DEF ForeignOrder, ExchangeMoves, Known
  <1>2. UNCHANGED <<run, runs, log>>
    BY DEF ForeignOrder
  <1> QED BY <1>1, <1>2, ExchangeStep

LEMMA ArriveStep ==
    ASSUME EInv, NEW i \in Sells, Arrive(i)
    PROVE  EInv'
  <1>1. ExchangeMoves(i)
    BY SellIds DEF Arrive, ExchangeMoves, Known, FinalStatuses
  <1>2. UNCHANGED <<run, runs, log>>
    BY DEF Arrive
  <1> QED BY <1>1, <1>2, ExchangeStep

LEMMA ProgressStep ==
    ASSUME EInv, NEW i \in Ids, Progress(i)
    PROVE  EInv'
  <1>1. book[i] = "NEW" /\ book \in [Ids -> {"absent", "inflight", "NEW"} \cup FinalStatuses]
    BY DEF Progress, Live, EInv, StopTypes
  <1>2. PICK status \in {"EXPIRED", "FILLED"} : book' = [book EXCEPT ![i] = status]
    BY DEF Progress
  <1>3. book'[i] \in FinalStatuses /\ status \in {"absent"} \cup Known
    BY <1>1, <1>2 DEF FinalStatuses, Known
  <1>4. ExchangeMoves(i)
    BY <1>1, <1>2, <1>3 DEF ExchangeMoves
  <1>5. UNCHANGED <<run, runs, log>>
    BY DEF Progress
  <1> QED BY <1>4, <1>5, ExchangeStep

\* Nothing that the run sees changes: the daemon starts, or nothing happens.
LEMMA QuietStep ==
    ASSUME EInv, UNCHANGED <<run, runs, log, book>>
    PROVE  EInv'
  <1>1. BookMoves
    BY DEF EInv, StopTypes, BookMoves
  <1> QED BY <1>1, OutsideStep

-----------------------------------------------------------------------------
(* The invariant *)

LEMMA EInvInit ==
    ASSUME Init
    PROVE  EInv
  <1>1. /\ book = [i \in Ids |-> "absent"] /\ run = Idle /\ runs = 0 /\ log = <<>>
    BY DEF Init
  <1>2. StopTypes
    BY <1>1, IdleShape, BoundAssumption DEF StopTypes, PCs
  <1>3. FreshInv
    <2>1. \A s \in Symbols, n \in 1 .. MaxRuns : book[<<s, n>>] = "absent"
      BY <1>1, SellIds
    <2> QED BY <1>1, <2>1, IdleShape DEF FreshInv, Selling
  <1>4. LogInv
    BY <1>1 DEF LogInv
  <1>5. ListedInv /\ HandInv
    BY <1>1, IdleShape DEF ListedInv, HandInv, Selling
  <1> QED BY <1>2, <1>3, <1>4, <1>5 DEF EInv

LEMMA EInvStep ==
    ASSUME EInv, [Next]_vars
    PROVE  EInv'
  <1>1. CASE StopOne
    BY <1>1, StopOneStep
  <1>2. CASE ListOpenOrders
    BY <1>2, ListStep
  <1>3. CASE PlanSells
    BY <1>3, PlanStep
  <1>4. CASE Confirm
    BY <1>4, ConfirmStep
  <1>5. CASE QueryPrior
    BY <1>5, QueryStep
  <1>6. CASE PlaceSell
    BY <1>6, PlaceStep
  <1>7. CASE SellAnswered
    BY <1>7, AnswerStep
  <1>8. CASE SellFailed
    BY <1>8, FailStep
  <1>9. CASE FinishStop
    BY <1>9, EndStep DEF FinishStop, Report, exchVars
  <1>10. CASE Crash
    BY <1>10, CrashStep
  <1>11. ASSUME NEW s \in Symbols, CancelSymbol(s) PROVE EInv'
    BY <1>11, CancelStep
  <1>12. ASSUME NEW s \in Symbols, NextSell(s) PROVE EInv'
    BY <1>12, NextSellStep
  <1>13. ASSUME NEW i \in Ids, LogCancel(i) PROVE EInv'
    BY <1>13, LogCancelStep
  <1>14. ASSUME NEW i \in Ids, Progress(i) PROVE EInv'
    BY <1>14, ProgressStep
  <1>15. ASSUME NEW i \in Sells, Arrive(i) PROVE EInv'
    BY <1>15, ArriveStep
  <1>16. ASSUME NEW o \in Orders, ForeignOrder(o) PROVE EInv'
    BY <1>16, ForeignStep
  <1>17. CASE ReconcileEmergencyLog
    BY <1>17, QuietStep DEF ReconcileEmergencyLog, exchVars
  <1>18. CASE UNCHANGED vars
    BY <1>18, QuietStep DEF vars, exchVars
  <1> QED BY <1>1, <1>2, <1>3, <1>4, <1>5, <1>6, <1>7, <1>8, <1>9, <1>10, <1>11, <1>12, <1>13,
             <1>14, <1>15, <1>16, <1>17, <1>18 DEF Next

\* Along every behaviour the log names only orders that reached the exchange and keeps what it
\* said of them, and the run's own sells are new when they are sent (emergency_stop.py _stop_one).
THEOREM StopInvariant == Spec => []EInv
  <1>1. Init => EInv
    BY EInvInit
  <1>2. EInv /\ [Next]_vars => EInv'
    BY EInvStep
  <1> QED BY <1>1, <1>2, PTL DEF Spec

\* An order whose cancellation is in the log is off the book, whatever failed and however often
\* the script was run or killed: is_action_done may skip it.
THEOREM CancellationsTrue == Spec => []CancelLogTrue
  <1>1. EInv => CancelLogTrue
    BY DEF EInv, LogInv, CancelLogTrue, Logged, Live, FinalStatuses
  <1> QED BY <1>1, StopInvariant, PTL

\* A sell that an earlier run left pending and that is live is not sent again, unless the query
\* for it gave no answer.
THEOREM PendingNotRepeated == Spec => []PendingSellNotRepeated
  <1>1. EInv => PendingSellNotRepeated
    <2> SUFFICES ASSUME EInv, run.pc = "place", NEW n \in SellRows(run.cur[1]),
                        n = Max(SellRows(run.cur[1]))
                 PROVE  log[n].id \notin Live \/ run.blind
      BY DEF PendingSellNotRepeated, At
    <2>1. run.blind \/ book[log[n].id] \in FinalStatuses
      BY DEF EInv, HandInv, PriorOver
    <2> QED BY <2>1 DEF Live, FinalStatuses
  <1> QED BY <1>1, StopInvariant, PTL

-----------------------------------------------------------------------------
(* What is sold *)

UnitTypes ==
    /\ held \in [Symbols -> Int] /\ late \in [Symbols -> Int]
    /\ qty \in [Sells -> Nat]

\* What is left of s is what was not free or came later, and the sell of this run carries the
\* rest until it is filled.
SaleOf(s) ==
    /\ held[s] <= late[s] + run.free[s]
    /\ Ahead(s) => run.free[s] \in Nat
    /\ book[<<s, runs>>] # "absent" => qty[<<s, runs>>] = run.free[s]
    /\ book[<<s, runs>>] = "FILLED" => held[s] <= late[s]
    /\ ~Ahead(s) /\ ~(run.pc = "await" /\ run.cur = <<s, runs>>) /\ run.filled /\ ~run.errors => held[s] <= late[s]

SaleInv == run.pc \in Selling => run.free \in [Symbols -> Int] /\ \A s \in Symbols : SaleOf(s)

SInv == UnitTypes /\ SaleInv

\* What a symbol has free is a number.
LEMMA UnitsCount ==
    ASSUME UnitTypes
    PROVE  \A s \in Symbols : FreeUnits(s) \in Int
  <1>1. IsFiniteSet(Sells)
    <2>1. IsFiniteSet(1 .. MaxRuns)
      BY BoundAssumption, FS_Interval
    <2> QED BY <2>1, SymbolAssumption, FS_Product DEF Sells
  <1> SUFFICES ASSUME NEW s \in Symbols PROVE FreeUnits(s) \in Int
    OBVIOUS
  <1> DEFINE locked == {i \in Sells : i[1] = s} \cap Live
  <1>2. locked \subseteq Sells
    OBVIOUS
  <1>3. IsFiniteSet(locked) /\ \A i \in locked : qty[i] \in Int
    BY <1>1, <1>2, FS_Subset DEF UnitTypes
  <1> HIDE DEF locked
  <1>4. SumOver(qty, locked) \in Int
    BY <1>3, SumInt
  <1>5. FreeUnits(s) = held[s] - SumOver(qty, locked)
    BY DEF FreeUnits, SumOver, locked
  <1> QED BY <1>4, <1>5 DEF UnitTypes

\* A trade: bought units come on top, sold ones are gone.
LEMMA TradeCounts ==
    ASSUME UnitTypes, NEW i \in Ids, Trade(i), UNCHANGED qty
    PROVE  /\ UnitTypes'
           /\ \A s \in Symbols : \A f \in Int : held[s] <= late[s] + f => held'[s] <= late'[s] + f
           /\ i \in Sells => /\ held'[i[1]] = held[i[1]] - qty[i]
                             /\ late'[i[1]] = late[i[1]]
  <1>1. Symbol(i) \in Symbols
    BY SellIds
  <1>2. CASE i \in Orders
    <2>1. /\ held' = [held EXCEPT ![Symbol(i)] = @ + 1]
          /\ late' = [late EXCEPT ![Symbol(i)] = @ + 1]
      BY <1>2 DEF Trade
    <2>2. i \notin Sells
      BY <1>2, SellIds
    <2> QED BY <1>1, <2>1, <2>2 DEF UnitTypes
  <1>3. CASE i \notin Orders
    <2>1. /\ held' = [held EXCEPT ![Symbol(i)] = @ - qty[i]]
          /\ late' = [late EXCEPT ![Symbol(i)] = @]
      BY <1>3 DEF Trade
    <2>2. late' = late
      BY <2>1 DEF UnitTypes
    <2>3. i \in Sells /\ qty[i] \in Nat /\ Symbol(i) = i[1]
      BY <1>3, SellIds DEF Ids, UnitTypes
    <2> QED BY <1>1, <2>1, <2>2, <2>3 DEF UnitTypes
  <1> QED BY <1>2, <1>3

\* Outside of the sells only the types matter.
LEMMA OutsideSale ==
    ASSUME SInv, run'.pc \notin Selling, UNCHANGED <<qty, held, late>>
    PROVE  SInv'
  BY DEF SInv, UnitTypes, SaleInv

\* The balances are read.
LEMMA PlanSale ==
    ASSUME EInv, SInv, PlanSells
    PROVE  SInv'
  <1>1. run.pc = "cancel" /\ UNCHANGED <<runs, book, held, qty>>
    BY DEF PlanSells, At
  <1>2. CASE run' = Idle /\ UNCHANGED late
    BY <1>1, <1>2, IdleShape, OutsideSale DEF Selling
  <1>3. CASE ~(run' = Idle /\ UNCHANGED late)
    <2>1. PICK plan \in SUBSET {s \in Symbols : FreeUnits(s) > 0} :
             /\ run' = [run EXCEPT !.pc = "plan", !.plan = plan,
                                   !.free = [s \in Symbols |-> FreeUnits(s)],
                                   !.errors = @ \/ \E s \in Symbols \ plan : FreeUnits(s) > 0]
             /\ late' = [s \in Symbols |-> held[s] - FreeUnits(s)]
      BY <1>3 DEF PlanSells, Report
    <2>2. PICK free, errors : /\ free = [s \in Symbols |-> FreeUnits(s)]
                              /\ errors = (run.errors \/ \E s \in Symbols \ plan : FreeUnits(s) > 0)
                              /\ run' = [run EXCEPT !.pc = "plan", !.plan = plan, !.free = free, !.errors = errors]
      BY <2>1
    <2>3. run'.pc = "plan" /\ run'.plan = plan /\ run'.free = free /\ run'.errors = errors
      BY <2>2 DEF EInv, StopTypes, Shape
    <2>4. \A s \in Symbols : FreeUnits(s) \in Int
      BY UnitsCount DEF SInv
    <2>5. /\ free \in [Symbols -> Int] /\ late' \in [Symbols -> Int]
          /\ \A s \in Symbols : late'[s] = held[s] - free[s]
      BY <2>1, <2>2, <2>4 DEF SInv, UnitTypes
    <2>6. \A s \in Symbols : IF s \in plan THEN free[s] \in Nat ELSE (errors \/ free[s] <= 0)
      <3>1. \A s \in Symbols : free[s] = FreeUnits(s) /\ free[s] \in Int
        BY <2>2, <2>4
      <3>2. \A s \in plan : FreeUnits(s) > 0
        BY <2>1
      <3>3. \A s \in Symbols \ plan : FreeUnits(s) > 0 => errors
        BY <2>2
      <3> QED BY <3>1, <3>2, <3>3
    <2>7. UnitTypes'
      BY <1>1, <2>5 DEF SInv, UnitTypes
    <2>8. ASSUME NEW s \in Symbols PROVE SaleOf(s)'
      <3>1. book[<<s, runs>>] = "absent"
        <4>1. runs \in 1 .. MaxRuns
          BY <1>1 DEF EInv, StopTypes
        <4> QED BY <1>1, <4>1 DEF EInv, FreshInv, Before
      <3>2. held[s] \in Int /\ free[s] \in Int /\ late'[s] = held[s] - free[s]
        BY <2>5 DEF SInv, UnitTypes
      <3>3. held'[s] <= late'[s] + run'.free[s] /\ (free[s] <= 0 => held'[s] <= late'[s])
        BY <1>1, <2>3, <3>2
      <3>4. Ahead(s)' <=> s \in plan
        BY <2>3 DEF Ahead
      <3>5. book'[<<s, runs'>>] = "absent"
        BY <1>1, <3>1
      <3> QED BY <2>3, <2>6, <3>3, <3>4, <3>5 DEF SaleOf
    <2> QED BY <2>3, <2>5, <2>7, <2>8 DEF SInv, SaleInv
  <1> QED BY <1>2, <1>3

\* The run goes on selling and the exchange stays as it is.
LEMMA SellsOnSale ==
    ASSUME EInv, SInv, run.pc \in Selling, UNCHANGED <<runs, book, held, qty, late>>,
           run'.free = run.free, run'.errors = run.errors, run'.filled => run.filled,
           \A s \in Symbols : Ahead(s)' => Ahead(s),
           \A s \in Symbols : Ahead(s) /\ ~Ahead(s)' => ~run'.filled,
           \A s \in Symbols : run.pc = "await" /\ run.cur = <<s, runs>> /\ run'.filled =>
                                 (run'.pc = "await" /\ run'.cur = run.cur) \/ book[<<s, runs>>] = "FILLED"
    PROVE  SInv'
  <1>1. run.free \in [Symbols -> Int] /\ \A s \in Symbols : SaleOf(s)
    BY DEF SInv, SaleInv
  <1>2. UnitTypes'
    BY DEF SInv, UnitTypes
  <1>3. ASSUME NEW s \in Symbols PROVE SaleOf(s)'
    <2>1. SaleOf(s) /\ (Ahead(s)' => Ahead(s)) /\ (Ahead(s) /\ ~Ahead(s)' => ~run'.filled)
      BY <1>1
    <2>2. run.pc = "await" /\ run.cur = <<s, runs>> /\ run'.filled =>
             (run'.pc = "await" /\ run'.cur = run.cur) \/ book[<<s, runs>>] = "FILLED"
      OBVIOUS
    <2> QED BY <2>1, <2>2 DEF SaleOf
  <1> QED BY <1>1, <1>2, <1>3 DEF SInv, SaleInv

\* Every step of the run but the placement that keeps on selling.
LEMMA SellsSale ==
    ASSUME EInv, SInv, Confirm \/ (\E s \in Symbols : NextSell(s)) \/ QueryPrior \/ SellAnswered \/ SellFailed
    PROVE  SInv'
  <1>1. CASE Confirm
    <2>1. run.pc = "plan" /\ UNCHANGED <<runs, book, held, qty, late>>
      BY <1>1 DEF Confirm, At, exchVars
    <2>2. CASE run' = Idle
      BY <2>1, <2>2, IdleShape, OutsideSale DEF Selling
    <2>3. CASE run' = [run EXCEPT !.pc = "sell"]
      <3>1. /\ run'.pc = "sell" /\ run'.plan = run.plan /\ run'.errors = run.errors
            /\ run'.free = run.free /\ run'.filled = run.filled
        BY <2>3 DEF EInv, StopTypes, Shape
      <3>2. \A s \in Symbols : Ahead(s)' <=> Ahead(s)
        BY <2>1, <3>1 DEF Ahead
      <3> QED BY <2>1, <3>1, <3>2, SellsOnSale DEF Selling
    <2> QED BY <1>1, <2>2, <2>3 DEF Confirm, Report, Goto
  <1>2. ASSUME NEW s \in Symbols, NextSell(s) PROVE SInv'
    <2>1. /\ run.pc = "sell" /\ UNCHANGED <<runs, book, held, qty, late>>
          /\ run'.errors = run.errors /\ run'.free = run.free /\ run'.filled = run.filled
      BY <1>2, NextSellFields
    <2>2. \A t \in Symbols : Ahead(t)' <=> Ahead(t)
      BY <1>2, NextSellStep
    <2> QED BY <2>1, <2>2, SellsOnSale DEF Selling
  <1>3. CASE QueryPrior
    <2>1. /\ run.pc = "query" /\ UNCHANGED <<runs, book, held, qty, late>>
          /\ run'.errors = run.errors /\ run'.free = run.free
          /\ (run'.pc = "sell" /\ ~run'.filled) \/ (run'.pc = "place" /\ run'.filled = run.filled)
      BY <1>3, QueryFields
    <2>2. \A s \in Symbols : (Ahead(s)' => Ahead(s)) /\ (run'.pc = "place" => (Ahead(s)' <=> Ahead(s)))
      BY <1>3, QueryStep
    <2> QED BY <2>1, <2>2, SellsOnSale DEF Selling
  <1>4. CASE SellAnswered
    <2>1. /\ run.pc = "await" /\ UNCHANGED <<runs, book, held, qty, late>>
          /\ \/ run' = Idle
             \/ /\ run'.plan = run.plan /\ run'.errors = run.errors /\ run'.free = run.free /\ run'.pc = "sell"
                /\ run'.filled => run.filled /\ book[run.cur] = "FILLED"
      BY <1>4, AnswerFields
    <2>2. CASE run' = Idle
      BY <2>1, <2>2, IdleShape, OutsideSale DEF Selling
    <2>3. CASE run' # Idle
      <3>1. \A s \in Symbols : Ahead(s)' <=> Ahead(s)
        BY <2>1, <2>3 DEF Ahead
      <3> QED BY <2>1, <2>3, <3>1, SellsOnSale DEF Selling
    <2> QED BY <2>2, <2>3
  <1>5. CASE SellFailed
    <2>1. /\ run.pc = "await" /\ UNCHANGED <<runs, book, held, qty, late>>
          /\ run'.plan = run.plan /\ run'.errors = run.errors /\ run'.free = run.free /\ run'.pc = "sell"
          /\ ~run'.filled
      BY <1>5, FailFields
    <2>2. \A s \in Symbols : Ahead(s)' <=> Ahead(s)
      BY <2>1 DEF Ahead
    <2> QED BY <2>1, <2>2, SellsOnSale DEF Selling
  <1> QED BY <1>1, <1>2, <1>3, <1>4, <1>5

\* The sell of this run carries all that was free.
LEMMA PlaceSale ==
    ASSUME EInv, SInv, PlaceSell
    PROVE  SInv'
  <1>1. /\ run.pc = "place" /\ UNCHANGED <<runs, log, held, late>>
        /\ run'.plan = run.plan
        /\ run'.errors = run.errors /\ run'.free = run.free /\ run'.filled = run.filled
        /\ run'.pc = "await" /\ run'.cur = run.cur /\ runs \in 1 .. MaxRuns /\ run.cur \in Sells
        /\ book' = [book EXCEPT ![run.cur] = "inflight"]
        /\ qty' = [qty EXCEPT ![run.cur] = run.free[run.cur[1]]]
    BY PlaceFields
  <1>2. PICK s \in Symbols : run.cur = <<s, runs>> /\ s \notin run.plan
    BY PlaceFields
  <1>3. run.free \in [Symbols -> Int] /\ \A t \in Symbols : SaleOf(t)
    BY <1>1 DEF SInv, SaleInv, Selling
  <1>4. Ahead(s) /\ ~Ahead(s)'
    BY <1>1, <1>2 DEF Ahead
  <1>5. run.free[s] \in Nat
    BY <1>3, <1>4 DEF SaleOf
  <1>6. \A t \in Symbols : /\ <<t, runs>> \in Sells /\ <<t, runs>> \in Ids
                           /\ t # s => <<t, runs>> # run.cur
    BY <1>1, <1>2, SellIds
  <1>7. /\ book'[<<s, runs>>] = "inflight" /\ qty'[<<s, runs>>] = run.free[s]
        /\ \A t \in Symbols : t # s => book'[<<t, runs>>] = book[<<t, runs>>] /\ qty'[<<t, runs>>] = qty[<<t, runs>>]
    BY <1>1, <1>2, <1>6 DEF EInv, StopTypes, SInv, UnitTypes
  <1>8. UnitTypes'
    BY <1>1, <1>2, <1>5 DEF SInv, UnitTypes
  <1>9. SaleOf(s)'
    <2>1. SaleOf(s)
      BY <1>3
    <2> QED BY <1>1, <1>2, <1>4, <1>7, <2>1 DEF SaleOf
  <1>10. ASSUME NEW t \in Symbols, t # s PROVE SaleOf(t)'
    <2>1. SaleOf(t) /\ (Ahead(t)' <=> Ahead(t))
      BY <1>1, <1>2, <1>3, <1>10 DEF Ahead
    <2>2. book'[<<t, runs>>] = book[<<t, runs>>] /\ qty'[<<t, runs>>] = qty[<<t, runs>>]
      BY <1>7, <1>10
    <2> QED BY <1>1, <2>1, <2>2 DEF SaleOf
  <1> QED BY <1>1, <1>3, <1>8, <1>9, <1>10 DEF SInv, SaleInv

\* The exchange fills a sell or another order, or does something else to it.
LEMMA ExchangeSale ==
    ASSUME EInv, SInv, UNCHANGED <<run, runs, qty>>,
           NEW i \in Ids, NEW b, book' = [book EXCEPT ![i] = b],
           book[i] \in {"inflight", "NEW"} \/ i \in Orders,
           IF b = "FILLED" THEN Trade(i) ELSE UNCHANGED <<held, late>>
    PROVE  SInv'
  <1>0. UnitTypes /\ \A j \in Ids : book'[j] = IF j = i THEN b ELSE book[j]
    BY DEF EInv, StopTypes, SInv
  <1>1. /\ UnitTypes'
        /\ \A s \in Symbols : \A f \in Int : held[s] <= late[s] + f => held'[s] <= late'[s] + f
        /\ i \in Sells /\ b = "FILLED" => held'[i[1]] = held[i[1]] - qty[i] /\ late'[i[1]] = late[i[1]]
    <2>1. CASE b = "FILLED"
      BY <1>0, <2>1, TradeCounts
    <2>2. CASE b # "FILLED"
      BY <1>0, <2>2 DEF UnitTypes
    <2> QED BY <2>1, <2>2
  <1>2. ASSUME run.pc \in Selling PROVE run.free \in [Symbols -> Int] /\ \A s \in Symbols : SaleOf(s)
    BY <1>2 DEF SInv, SaleInv
  <1>3. ASSUME run.pc \in Selling, NEW s \in Symbols PROVE SaleOf(s)'
    <2>1. <<s, runs>> \in Ids /\ <<s, runs>> \in Sells /\ <<s, runs>> \notin Orders /\ <<s, runs>>[1] = s
      BY <1>3, SellIds DEF EInv, StopTypes, Selling
    <2>2. run.free[s] \in Int /\ SaleOf(s) /\ held[s] \in Int /\ late[s] \in Int /\ held'[s] \in Int /\ late'[s] \in Int
      BY <1>0, <1>1, <1>2, <1>3 DEF UnitTypes
    <2>3. held'[s] <= late'[s] + run.free[s] /\ (held[s] <= late[s] => held'[s] <= late'[s])
      <3>1. held[s] <= late[s] + 0 => held'[s] <= late'[s] + 0
        BY <1>1
      <3> QED BY <1>1, <2>2, <3>1 DEF SaleOf
    <2>4. Ahead(s)' <=> Ahead(s)
      BY DEF Ahead
    <2>5. CASE i = <<s, runs>>
      <3>1. book[<<s, runs>>] \in {"inflight", "NEW"} /\ qty[<<s, runs>>] = run.free[s] /\ book'[<<s, runs>>] = b
        BY <1>0, <2>1, <2>2, <2>5 DEF SaleOf
      <3>2. b = "FILLED" => held'[s] <= late'[s]
        <4>1. b = "FILLED" => held'[s] = held[s] - run.free[s] /\ late'[s] = late[s]
          BY <1>1, <2>1, <2>5, <3>1
        <4> QED BY <2>2, <4>1 DEF SaleOf
      <3> QED BY <2>2, <2>3, <2>4, <3>1, <3>2 DEF SaleOf
    <2>6. CASE i # <<s, runs>>
      <3>1. book'[<<s, runs>>] = book[<<s, runs>>]
        BY <1>0, <2>1, <2>6
      <3> QED BY <2>2, <2>3, <2>4, <3>1 DEF SaleOf
    <2> QED BY <2>5, <2>6
  <1> QED BY <1>1, <1>2, <1>3 DEF SInv, SaleInv

LEMMA SaleInit ==
    ASSUME Init
    PROVE  SInv
  BY IdleShape DEF Init, SInv, UnitTypes, SaleInv, Selling

LEMMA SaleStep ==
    ASSUME EInv, SInv, [Next]_vars
    PROVE  SInv'
  <1>1. CASE StopOne
    <2>1. run' = [run EXCEPT !.pc = "list"] /\ UNCHANGED <<held, qty, late>>
      BY <1>1 DEF StopOne, Goto, exchVars
    <2>2. run'.pc = "list"
      BY <2>1 DEF EInv, StopTypes, Shape
    <2> QED BY <2>1, <2>2, OutsideSale DEF Selling
  <1>2. CASE ListOpenOrders
    <2>1. UNCHANGED <<held, qty, late>>
      BY <1>2 DEF ListOpenOrders, exchVars
    <2>2. run'.pc \notin Selling
      <3>1. CASE run' = Idle
        BY <3>1, IdleShape DEF Selling
      <3>2. CASE run' # Idle
        <4>1. PICK listed, todo : run' = [run EXCEPT !.pc = "cancel", !.listed = listed, !.todo = todo]
          BY <1>2, <3>2 DEF ListOpenOrders, Report
        <4>2. run'.pc = "cancel"
          BY <4>1 DEF EInv, StopTypes, Shape
        <4> QED BY <4>2 DEF Selling
      <3> QED BY <3>1, <3>2
    <2> QED BY <2>1, <2>2, OutsideSale
  <1>3. CASE PlanSells
    BY <1>3, PlanSale
  <1>4. CASE Confirm \/ (\E s \in Symbols : NextSell(s)) \/ QueryPrior \/ SellAnswered \/ SellFailed
    BY <1>4, SellsSale
  <1>5. CASE PlaceSell
    BY <1>5, PlaceSale
  <1>6. CASE FinishStop \/ Crash
    BY <1>6, IdleShape, OutsideSale DEF FinishStop, Crash, Report, exchVars, Selling
  <1>7. ASSUME NEW s \in Symbols, CancelSymbol(s) PROVE SInv'
    <2>1. run.pc = "cancel" /\ UNCHANGED <<held, qty, late>>
      BY <1>7 DEF CancelSymbol, At
    <2>2. run'.pc \in {"cancel", "log"}
      <3>1. CASE run' = [run EXCEPT !.todo = @ \ {s}]
        BY <2>1, <3>1 DEF EInv, StopTypes, Shape
      <3>2. CASE run' = [run EXCEPT !.todo = @ \ {s}, !.pc = "log", !.keys = Keys(s)]
        BY <2>1, <3>2 DEF EInv, StopTypes, Shape
      <3>3. CASE run' = [run EXCEPT !.todo = @ \ {s}, !.errors = TRUE]
        BY <2>1, <3>3 DEF EInv, StopTypes, Shape
      <3> QED BY <1>7, <3>1, <3>2, <3>3 DEF CancelSymbol
    <2> QED BY <2>1, <2>2, OutsideSale DEF Selling
  <1>8. ASSUME NEW i \in Ids, LogCancel(i) PROVE SInv'
    <2>1. UNCHANGED <<held, qty, late>>
      BY <1>8 DEF LogCancel, exchVars
    <2>2. run'.pc \notin Selling
      <3>1. CASE run' = Idle
        BY <3>1, IdleShape DEF Selling
      <3>2. CASE run' # Idle
        <4>1. PICK pc \in {"cancel", "log"} : run' = [run EXCEPT !.keys = @ \ {i}, !.pc = pc]
          BY <1>8, <3>2 DEF LogCancel, Report
        <4>2. run'.pc = pc
          BY <4>1 DEF EInv, StopTypes, Shape
        <4> QED BY <4>1, <4>2 DEF Selling
      <3> QED BY <3>1, <3>2
    <2> QED BY <2>1, <2>2, OutsideSale
  <1>9. ASSUME NEW i \in Ids, Progress(i) PROVE SInv'
    <2>1. book[i] = "NEW" /\ UNCHANGED <<run, runs, qty>>
      BY <1>9 DEF Progress, Live
    <2>2. CASE book' = [book EXCEPT ![i] = "EXPIRED"] /\ UNCHANGED <<held, late>>
      BY <2>1, <2>2, ExchangeSale
    <2>3. CASE book' = [book EXCEPT ![i] = "FILLED"] /\ Trade(i)
      BY <2>1, <2>3, ExchangeSale
    <2> QED BY <1>9, <2>2, <2>3 DEF Progress
  <1>10. ASSUME NEW i \in Sells, Arrive(i) PROVE SInv'
    <2>1. book[i] = "inflight" /\ UNCHANGED <<run, runs, qty>> /\ i \in Ids
      BY <1>10, SellIds DEF Arrive
    <2>2. ASSUME NEW b \in {"absent", "REJECTED", "NEW"}, book' = [book EXCEPT ![i] = b], UNCHANGED <<held, late>>
          PROVE  SInv'
      BY <2>1, <2>2, ExchangeSale
    <2>3. CASE book' = [book EXCEPT ![i] = "FILLED"] /\ Trade(i)
      BY <2>1, <2>3, ExchangeSale
    <2> QED BY <1>10, <2>2, <2>3 DEF Arrive
  <1>11. ASSUME NEW o \in Orders, ForeignOrder(o) PROVE SInv'
    <2>1. book' = [book EXCEPT ![o] = "NEW"] /\ UNCHANGED <<held, late, run, runs, qty>> /\ o \in Ids
      BY <1>11, SellIds DEF ForeignOrder
    <2> QED BY <2>1, ExchangeSale
  <1>12. CASE ReconcileEmergencyLog \/ UNCHANGED vars
    <2>1. UNCHANGED <<run, runs, book, held, late, qty>>
      BY <1>12 DEF ReconcileEmergencyLog, vars, exchVars
    <2> QED BY <2>1 DEF SInv, UnitTypes, SaleInv, SaleOf, Ahead
  <1> QED BY <1>1, <1>2, <1>3, <1>4, <1>5, <1>6, <1>7, <1>8, <1>9, <1>10, <1>11, <1>12 DEF Next

\* Along every behaviour, while a run sells, what is left of a symbol is what was locked or came
\* later plus what its sell still carries (emergency_stop.py _stop_one).
THEOREM SaleInvariant == Spec => []SInv
  <1>1. Init => SInv
    BY SaleInit
  <1>2. EInv /\ SInv /\ [Next]_vars => SInv'
    BY SaleStep
  <1> QED BY <1>1, <1>2, StopInvariant, PTL DEF Spec

\* ok = True means stopped: no order the run found open is live, and of every symbol nothing is
\* left but what was locked when the balances were read or was bought since.
THEOREM OkTrue == Spec => OkMeansStopped
  <1>1. ASSUME EInv, SInv, [Next]_vars, run.pc # "idle", run'.pc = "idle", ok'
        PROVE  run.listed \cap Live = {} /\ \A s \in Symbols : held[s] <= late[s]
    <2>1. FinishStop
      <3>1. ~(ok' = FALSE)
        BY <1>1
      <3>2. ~UNCHANGED run
        BY <1>1
      <3>3. ~StopOne /\ ~Confirm /\ ~ListOpenOrders /\ ~PlanSells
        <4>1. ASSUME run' = [run EXCEPT !.pc = "list"] \/ run' = [run EXCEPT !.pc = "sell"] PROVE FALSE
          BY <1>1, <4>1 DEF EInv, StopTypes, Shape
        <4>2. ASSUME NEW listed, NEW todo, run' = [run EXCEPT !.pc = "cancel", !.listed = listed, !.todo = todo] PROVE FALSE
          BY <1>1, <4>2 DEF EInv, StopTypes, Shape
        <4>3. ASSUME NEW plan, NEW free, NEW errors,
                     run' = [run EXCEPT !.pc = "plan", !.plan = plan, !.free = free, !.errors = errors]
              PROVE  FALSE
          BY <1>1, <4>3 DEF EInv, StopTypes, Shape
        <4>4. ~StopOne /\ ~Confirm
          BY <3>1, <4>1 DEF StopOne, Confirm, Goto, Report
        <4>5. ~ListOpenOrders
          BY <3>1, <4>2 DEF ListOpenOrders, Report
        <4>6. ~PlanSells
          BY <3>1, <4>3 DEF PlanSells, Report
        <4> QED BY <4>4, <4>5, <4>6
      <3>4. ~QueryPrior /\ ~PlaceSell /\ ~SellAnswered /\ ~SellFailed /\ ~Crash
        BY <1>1, <3>1, QueryFields, PlaceFields, AnswerFields, FailFields DEF Crash, Report
      <3>5. ASSUME NEW s \in Symbols, CancelSymbol(s) \/ NextSell(s) PROVE FALSE
        <4>1. ~NextSell(s)
          BY <1>1, NextSellFields
        <4>2. run.pc = "cancel" /\ CancelSymbol(s)
          BY <3>5, <4>1 DEF CancelSymbol, At
        <4>3. CASE run' = [run EXCEPT !.todo = @ \ {s}]
          BY <1>1, <4>2, <4>3 DEF EInv, StopTypes, Shape
        <4>4. CASE run' = [run EXCEPT !.todo = @ \ {s}, !.pc = "log", !.keys = Keys(s)]
          BY <1>1, <4>2, <4>4 DEF EInv, StopTypes, Shape
        <4>5. CASE run' = [run EXCEPT !.todo = @ \ {s}, !.errors = TRUE]
          BY <1>1, <4>2, <4>5 DEF EInv, StopTypes, Shape
        <4> QED BY <4>2, <4>3, <4>4, <4>5 DEF CancelSymbol
      <3>6. ASSUME NEW i \in Ids, LogCancel(i) PROVE FALSE
        <4>1. PICK pc \in {"cancel", "log"} : run' = [run EXCEPT !.keys = @ \ {i}, !.pc = pc]
          BY <3>1, <3>6 DEF LogCancel, Report
        <4> QED BY <1>1, <4>1 DEF EInv, StopTypes, Shape
      <3>7. ~ReconcileEmergencyLog /\ ~UNCHANGED vars /\ ~(\E i \in Ids : Progress(i))
            /\ ~(\E i \in Sells : Arrive(i)) /\ ~(\E o \in Orders : ForeignOrder(o))
        BY <3>2 DEF ReconcileEmergencyLog, vars, Progress, Arrive, ForeignOrder
      <3> QED BY <1>1, <3>3, <3>4, <3>5, <3>6, <3>7 DEF Next
    <2>2. run.pc = "sell" /\ run.plan = {} /\ ~run.errors /\ run.filled
      BY <1>1, <2>1 DEF FinishStop, At, Report
    <2>3. run.listed \cap Live = {}
      BY <1>1, <2>2 DEF EInv, ListedInv, Selling, Live
    <2>4. \A s \in Symbols : held[s] <= late[s]
      BY <1>1, <2>2 DEF SInv, SaleInv, SaleOf, Ahead, Selling
    <2> QED BY <2>3, <2>4
  <1>2. EInv /\ SInv /\ [Next]_vars =>
           [~At("idle") /\ run'.pc = "idle" /\ ok' =>
              /\ run.listed \cap Live = {}
              /\ \A s \in Symbols : held[s] <= late[s]]_vars
    BY <1>1 DEF At
  <1> QED BY <1>2, StopInvariant, SaleInvariant, PTL DEF Spec, OkMeansStopped
-----------------------------------------------------------------------------
(* The copy of the log into the audit *)

\* The positions of an interval, in order.
LEMMA IntervalInOrder ==
    ASSUME NEW a \in Nat, NEW b \in Nat, a <= b
    PROVE  InOrder((a + 1) .. b) = [i \in 1 .. (b - a) |-> a + i]
  <1> DEFINE P == (a + 1) .. b
  <1>1. Cardinality(P) = b - a
    <2>1. Cardinality((a + 1) .. b) = IF a + 1 > b THEN 0 ELSE b - (a + 1) + 1
      BY FS_Interval
    <2> QED BY <2>1
  <1>2. ASSUME NEW n \in P PROVE Cardinality({m \in P : m < n}) = n - a - 1
    <2>1. {m \in P : m < n} = (a + 1) .. (n - 1)
      OBVIOUS
    <2>2. Cardinality((a + 1) .. (n - 1)) = n - a - 1
      BY FS_Interval
    <2> QED BY <2>1, <2>2
  <1>3. ASSUME NEW i \in 1 .. (b - a)
        PROVE  (CHOOSE n \in P : Cardinality({m \in P : m < n}) = i - 1) = a + i
    <2>1. a + i \in P /\ (a + i) - a - 1 = i - 1
      OBVIOUS
    <2>2. \A n \in P : Cardinality({m \in P : m < n}) = i - 1 <=> n = a + i
      <3> SUFFICES ASSUME NEW n \in P PROVE Cardinality({m \in P : m < n}) = i - 1 <=> n = a + i
        OBVIOUS
      <3>1. Cardinality({m \in P : m < n}) = n - a - 1
        BY <1>2
      <3>2. n - a - 1 = i - 1 <=> n = a + i
        OBVIOUS
      <3> QED BY <3>1, <3>2
    <2> HIDE DEF P
    <2> QED BY <2>1, <2>2
  <1> HIDE DEF P
  <1>4. InOrder(P) = [i \in 1 .. (b - a) |-> a + i]
    BY <1>1, <1>3 DEF InOrder
  <1> QED BY <1>4 DEF P

\* The lines before a line that was cut short; nothing is appended after that one.
WholeLines == IF TornTail THEN Len(log) - 1 ELSE Len(log)

\* The audit holds the first lines, in order, and the table of reconciled rows names them.
AuditInv ==
    /\ \A n \in DOMAIN log : log[n].action = "torn" => n = Len(log)
    /\ \E r \in 0 .. WholeLines : reconciled = 1 .. r /\ audit = [i \in 1 .. r |-> i]

\* The whole lines are the first ones.
LEMMA WholeIsInterval ==
    ASSUME log \in Seq(Rows), AuditInv
    PROVE  WholeLines \in Nat /\ Whole = 1 .. WholeLines
  <1>1. Len(log) \in Nat /\ DOMAIN log = 1 .. Len(log) /\ (log # <<>> <=> Len(log) # 0)
    OBVIOUS
  <1>2. CASE TornTail
    <2>1. log # <<>> /\ log[Len(log)].action = "torn"
      BY <1>2 DEF TornTail, Last
    <2>2. \A n \in DOMAIN log : log[n].action = "torn" <=> n = Len(log)
      BY <1>1, <2>1 DEF AuditInv
    <2> QED BY <1>1, <1>2, <2>1, <2>2 DEF Whole, WholeLines
  <1>3. CASE ~TornTail
    <2>1. \A n \in DOMAIN log : log[n].action # "torn"
      BY <1>1, <1>3 DEF TornTail, Last, AuditInv
    <2> QED BY <1>1, <1>3, <2>1 DEF Whole, WholeLines
  <1> QED BY <1>2, <1>3

\* A line is appended only when the tail is whole.
LEMMA AuditAppend ==
    ASSUME log \in Seq(Rows), AuditInv, ~TornTail, NEW row \in Rows, log' = Append(log, row),
           UNCHANGED <<reconciled, audit>>
    PROVE  AuditInv'
  <1>1. /\ Len(log) \in Nat /\ Len(log') = Len(log) + 1 /\ DOMAIN log' = 1 .. (Len(log) + 1)
        /\ DOMAIN log = 1 .. Len(log)
        /\ \A n \in DOMAIN log : log'[n] = log[n]
        /\ log'[Len(log) + 1] = row /\ log' # <<>>
    OBVIOUS
  <1>2. WholeLines = Len(log) /\ \A n \in DOMAIN log : log[n].action # "torn"
    <2>1. ASSUME NEW n \in DOMAIN log, log[n].action = "torn" PROVE FALSE
      <3>1. n = Len(log) /\ log # <<>>
        BY <1>1, <2>1 DEF AuditInv
      <3> QED BY <2>1, <3>1 DEF TornTail, Last
    <2> QED BY <2>1 DEF WholeLines
  <1>3. \A n \in DOMAIN log' : log'[n].action = "torn" => n = Len(log')
    BY <1>1, <1>2
  <1>4. WholeLines' \in {Len(log), Len(log) + 1}
    BY <1>1 DEF WholeLines
  <1>5. PICK r \in 0 .. Len(log) : reconciled = 1 .. r /\ audit = [i \in 1 .. r |-> i]
    BY <1>2 DEF AuditInv
  <1>6. r \in 0 .. WholeLines'
    BY <1>1, <1>4
  <1> QED BY <1>3, <1>5, <1>6 DEF AuditInv

\* The daemon's start copies what is whole and new.
LEMMA AuditCopy ==
    ASSUME log \in Seq(Rows), AuditInv, ReconcileEmergencyLog
    PROVE  AuditInv'
  <1>1. PICK r \in 0 .. WholeLines : reconciled = 1 .. r /\ audit = [i \in 1 .. r |-> i]
    BY DEF AuditInv
  <1>2. PICK w \in Nat : w = WholeLines /\ Whole = 1 .. w /\ r \in Nat /\ r <= w
    BY <1>1, WholeIsInterval
  <1>3. Whole \ reconciled = (r + 1) .. w /\ reconciled \cup Whole = 1 .. w
    BY <1>1, <1>2
  <1>4. audit' = audit \o [i \in 1 .. (w - r) |-> r + i]
    BY <1>2, <1>3, IntervalInOrder DEF ReconcileEmergencyLog
  <1>5. [i \in 1 .. r |-> i] \o [i \in 1 .. (w - r) |-> r + i] = [i \in 1 .. w |-> i]
    <2> DEFINE p == [i \in 1 .. r |-> i]
               q == [i \in 1 .. (w - r) |-> r + i]
    <2>1. p \in Seq(Nat) /\ q \in Seq(Nat) /\ Len(p) = r /\ Len(q) = w - r
      BY <1>2
    <2>2. /\ p \o q \in Seq(Nat) /\ Len(p \o q) = w
          /\ \A i \in 1 .. w : (p \o q)[i] = IF i <= r THEN p[i] ELSE q[i - r]
      <3>1. r + (w - r) = w
        BY <1>2
      <3> HIDE DEF p, q
      <3> QED BY <1>2, <2>1, <3>1
    <2>3. \A i \in 1 .. w : (p \o q)[i] = i
      <3> SUFFICES ASSUME NEW i \in 1 .. w PROVE (p \o q)[i] = i
        OBVIOUS
      <3>1. CASE i <= r
        <4>1. p[i] = i
          BY <1>2, <3>1
        <4> HIDE DEF p, q
        <4> QED BY <2>2, <3>1, <4>1
      <3>2. CASE ~(i <= r)
        <4>1. q[i - r] = i
          BY <1>2, <3>2
        <4> HIDE DEF p, q
        <4> QED BY <2>2, <3>2, <4>1
      <3> QED BY <3>1, <3>2
    <2> HIDE DEF p, q
    <2>4. p \o q = [i \in 1 .. w |-> i]
      <3>1. PICK s \in Seq(Nat) : s = p \o q
        BY <2>2
      <3>2. DOMAIN s = 1 .. Len(s) /\ s = [i \in 1 .. Len(s) |-> s[i]]
        OBVIOUS
      <3>3. Len(s) = w /\ \A i \in 1 .. w : s[i] = i
        BY <2>2, <2>3, <3>1
      <3> QED BY <3>1, <3>2, <3>3
    <2> QED BY <2>4 DEF p, q
  <1>6. reconciled' = 1 .. w /\ audit' = [i \in 1 .. w |-> i] /\ log' = log
    BY <1>1, <1>3, <1>4, <1>5 DEF ReconcileEmergencyLog
  <1>7. WholeLines' = w /\ w \in 0 .. w
    BY <1>2, <1>6 DEF WholeLines, TornTail
  <1> QED BY <1>6, <1>7 DEF AuditInv

\* Every step keeps the audit a copy of the log's beginning.
LEMMA AuditStep ==
    ASSUME EInv, AuditInv, [Next]_vars
    PROVE  AuditInv'
  <1> USE DEF exchVars, auditVars
  <1>0. log \in Seq(Rows) /\ run.cur \in Ids
    BY SellIds DEF EInv, StopTypes
  <1>1. ASSUME UNCHANGED <<log, reconciled, audit>> PROVE AuditInv'
    BY <1>1 DEF AuditInv, WholeLines, TornTail
  <1>2. CASE ReconcileEmergencyLog
    BY <1>0, <1>2, AuditCopy
  <1>3. ASSUME NEW i \in Ids, LogCancel(i) PROVE AuditInv'
    <2>1. CASE UNCHANGED log
      BY <1>1, <1>3, <2>1 DEF LogCancel
    <2>2. CASE ~TornTail /\ log' = Append(log, [action |-> "emergency_cancel", id |-> i, status |-> "CANCELED"])
      <3>1. [action |-> "emergency_cancel", id |-> i, status |-> "CANCELED"] \in Rows
        BY DEF Rows, FinalStatuses
      <3> QED BY <1>0, <1>3, <2>2, <3>1, AuditAppend DEF LogCancel
    <2> QED BY <1>3, <2>1, <2>2 DEF LogCancel
  <1>4. CASE SellAnswered
    <2>1. CASE UNCHANGED log
      BY <1>1, <1>4, <2>1 DEF SellAnswered
    <2>2. CASE /\ ~TornTail
               /\ \E status \in {"NEW", book[run.cur]} :
                    log' = Append(log, [action |-> "emergency_sell", id |-> run.cur, status |-> status])
      <3>1. PICK status \in {"NEW", book[run.cur]} :
                    log' = Append(log, [action |-> "emergency_sell", id |-> run.cur, status |-> status])
        BY <2>2
      <3>2. status \in NonTerminal \cup FinalStatuses
        BY <1>0, <1>4 DEF SellAnswered, EInv, StopTypes, NonTerminal
      <3>3. [action |-> "emergency_sell", id |-> run.cur, status |-> status] \in Rows
        BY <1>0, <3>2 DEF Rows
      <3> QED BY <1>0, <1>4, <2>2, <3>1, <3>3, AuditAppend DEF SellAnswered
    <2> QED BY <1>4, <2>1, <2>2 DEF SellAnswered
  <1>5. CASE Crash
    <2>1. CASE UNCHANGED log
      BY <1>1, <1>5, <2>1 DEF Crash
    <2>2. CASE ~TornTail /\ log' = Append(log, [action |-> "torn", id |-> run.cur, status |-> "UNKNOWN"])
      <3>1. [action |-> "torn", id |-> run.cur, status |-> "UNKNOWN"] \in Rows
        BY <1>0 DEF Rows, NonTerminal
      <3> QED BY <1>0, <1>5, <2>2, <3>1, AuditAppend DEF Crash
    <2> QED BY <1>5, <2>1, <2>2 DEF Crash
  <1>6. CASE \/ StopOne \/ ListOpenOrders \/ PlanSells \/ Confirm \/ QueryPrior
             \/ PlaceSell \/ SellFailed \/ FinishStop
             \/ (\E s \in Symbols : CancelSymbol(s) \/ NextSell(s))
             \/ (\E i \in Ids : Progress(i)) \/ (\E i \in Sells : Arrive(i))
             \/ (\E o \in Orders : ForeignOrder(o)) \/ UNCHANGED vars
    BY <1>1, <1>6 DEF StopOne, ListOpenOrders, PlanSells, Confirm, QueryPrior, PlaceSell, SellFailed,
         FinishStop, CancelSymbol, NextSell, Progress, Arrive, ForeignOrder, vars
  <1> QED BY <1>2, <1>3, <1>4, <1>5, <1>6 DEF Next

\* However often the daemon starts, the audit holds the whole lines of the log in their
\* order, each once (reconcile_emergency_log, append).
THEOREM AuditComplete == Spec => []AuditIsPrefix
  <1>1. Init => AuditInv
    <2> SUFFICES ASSUME Init PROVE AuditInv
      OBVIOUS
    <2>1. Len(log) = 0 /\ ~TornTail /\ DOMAIN log = {}
      BY DEF Init, TornTail
    <2>2. reconciled = 1 .. 0 /\ audit = [i \in 1 .. 0 |-> i]
      BY DEF Init
    <2>3. 0 \in 0 .. WholeLines
      BY <2>1 DEF WholeLines
    <2> QED BY <2>1, <2>2, <2>3 DEF AuditInv
  <1>2. EInv /\ AuditInv /\ [Next]_vars => AuditInv'
    BY AuditStep
  <1>3. EInv /\ AuditInv => AuditIsPrefix
    <2> SUFFICES ASSUME EInv, AuditInv PROVE AuditIsPrefix
      OBVIOUS
    <2>0. log \in Seq(Rows)
      BY DEF EInv, StopTypes
    <2>1. PICK r \in 0 .. WholeLines : audit = [i \in 1 .. r |-> i]
      BY DEF AuditInv
    <2>2. PICK w \in Nat : w = WholeLines /\ Whole = 1 .. w /\ r \in Nat /\ r <= w
      BY <2>0, <2>1, WholeIsInterval
    <2>3. InOrder(Whole) = [i \in 1 .. w |-> i]
      <3>1. InOrder((0 + 1) .. w) = [i \in 1 .. (w - 0) |-> 0 + i]
        BY <2>2, IntervalInOrder
      <3>2. [i \in 1 .. (w - 0) |-> 0 + i] = [i \in 1 .. w |-> i] /\ (0 + 1) .. w = 1 .. w
        BY <2>2
      <3> QED BY <2>2, <3>1, <3>2
    <2> DEFINE p == [i \in 1 .. r |-> i]
               q == [i \in 1 .. w |-> i]
    <2>4. Len(p) = r /\ Len(q) = w /\ SubSeq(p, 1, r) = SubSeq(q, 1, r)
      BY <2>2
    <2> QED BY <2>1, <2>2, <2>3, <2>4 DEF AuditIsPrefix, IsPrefix
  <1> QED BY <1>1, <1>2, <1>3, StopInvariant, PTL DEF Spec
=============================================================================
