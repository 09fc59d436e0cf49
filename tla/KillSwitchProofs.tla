-------------------------- MODULE KillSwitchProofs --------------------------
(***************************************************************************)
(* Proofs about the kill switch (module KillSwitch): what a run that       *)
(* reports closed = TRUE leaves behind, and that no sell goes out before   *)
(* the cancellations, for any number of orders, order lists, foreign       *)
(* orders, symbols, runs, crashes and flips of the trading lock.           *)
(*                                                                         *)
(* KInv follows the orders through the cancellations and the sells without *)
(* adding anything up; SInv adds what the sells do to the units held.      *)
(***************************************************************************)
EXTENDS KillSwitch, SumTheorems, TLAPS

-----------------------------------------------------------------------------
(* The inductive invariant *)

Before  == {"local", "exchange", "cancel", "verify", "write"}   \* the sells
Cancels == {"cancel", "verify", "write"}
Selling == {"sell", "query", "sync", "insert", "place", "await", "timeout", "settle"}
OwnSell == {"insert", "place", "await", "timeout", "settle"}

\* A run has all its fields.
Shape(r) ==
    r = [pc |-> r.pc, open |-> r.open, live |-> r.live, bulk |-> r.bulk, todo |-> r.todo,
         cur |-> r.cur, own |-> r.own, found |-> r.found, sells |-> r.sells, free |-> r.free,
         errors |-> r.errors, sold |-> r.sold]

KillTypes ==
    /\ row \in [Ids -> RowStatuses]
    /\ book \in [Ids -> BookStatuses]
    /\ runs \in 0 .. MaxRuns
    /\ Shape(run)
    /\ run.pc \in PCs
    /\ run.open \subseteq Ids /\ run.live \subseteq Ids /\ run.sells \subseteq Symbols

\* The close orders of later runs do not exist, and those of this one not before it sells.
FreshInv ==
    \A s \in Symbols, n \in 1 .. MaxRuns :
        n > runs \/ (n = runs /\ run.pc \in Before) => row[<<s, n>>] = "none" /\ book[<<s, n>>] = "absent"

\* The order an await of the run is about, and what is known of it.
CurInv ==
    /\ run.pc # "idle" => runs \in 1 .. MaxRuns /\ closed = FALSE
    /\ run.pc = "verify" => run.cur \in Ids /\ (run.own => run.cur \in run.open)
    /\ run.pc = "write" => /\ run.cur \in run.open
                           /\ run.found \in FinalStatuses \/ (run.found = "UNKNOWN" /\ run.errors)
    /\ run.pc \in {"query", "sync"} => run.cur \in Sells /\ row[run.cur] \in OpenStatuses
    /\ run.pc = "sync" => run.found \in RowStatuses \ {"none"}
    /\ run.pc = "settle" => run.found \in RowStatuses
    /\ run.pc \in OwnSell => \E s \in Symbols : run.cur = <<s, runs>>

\* The targets of the run that are left.
TodoInv ==
    /\ run.pc \in Cancels => /\ run.todo \subseteq Ids \X BOOLEAN
                             /\ \A i \in Ids : <<i, TRUE>> \in run.todo => i \in run.open
    /\ run.pc \in {"verify", "write"} => run.bulk = {}
    /\ run.pc \in Selling => run.todo = {} /\ run.bulk = {}

\* Not a close order of this run or a later one.
Earlier(i) == \A s \in Symbols, n \in 1 .. MaxRuns : i = <<s, n>> => n < runs

\* An order that was listed and is live still has its turn, or its failure is an error.
LiveInv ==
    run.pc \in Cancels \cup Selling =>
        \A i \in run.live :
            /\ book[i] \in {"NEW"} \cup FinalStatuses
            /\ Earlier(i)
            /\ book[i] = "NEW" => \/ run.errors
                                  \/ \E own \in BOOLEAN : <<i, own>> \in run.todo
                                  \/ i \in Bare /\ SymbolOf[i] \in run.bulk

\* A row that was open is final, or it still has its turn, or its failure is an error.
OpenInv ==
    /\ run.pc # "idle" => \A i \in run.open : Earlier(i)
    /\ run.pc \in Cancels \cup Selling =>
        \A i \in run.open : \/ row[i] \in FinalStatuses
                            \/ run.errors
                            \/ <<i, TRUE>> \in run.todo
                            \/ run.cur = i /\ (run.pc = "write" \/ (run.pc = "verify" /\ run.own))

\* A close order of this run is over, or the run works on it or counts it as not sold.
SoldInv ==
    run.pc \in Selling =>
        \A s \in Symbols : row[<<s, runs>>] \in OpenStatuses =>
            ~run.sold \/ (run.pc \in OwnSell \ {"insert"} /\ run.cur = <<s, runs>>)

KInv == KillTypes /\ FreshInv /\ CurInv /\ TodoInv /\ LiveInv /\ OpenInv /\ SoldInv

-----------------------------------------------------------------------------
(* Steps of the exchange, of requests and of the operator *)

\* The close order of a symbol in a run is one of the orders.
LEMMA SellIds ==
    /\ \A s \in Symbols, n \in 1 .. MaxRuns : <<s, n>> \in Ids /\ <<s, n>> \in Sells /\ <<s, n>> \notin Orders
    /\ Orders \subseteq Ids /\ Sells \subseteq Ids
  <1>1. \A s \in Symbols, n \in 1 .. MaxRuns : <<s, n>> \in Sells
    BY DEF Sells
  <1> QED BY <1>1, IdAssumption DEF Ids

\* What the exchange does to its orders by itself: a request arrives or is lost, a live
\* order ends, a foreign one appears.
BookMoves ==
    /\ book' \in [Ids -> BookStatuses]
    /\ \A j \in Ids : \/ book'[j] = book[j]
                      \/ book[j] = "inflight"
                      \/ book[j] = "NEW" /\ book'[j] \in FinalStatuses
                      \/ j \in Orders /\ book[j] = "absent"

\* The steps of the exchange do no more.
LEMMA ExchangeMoves ==
    ASSUME KillTypes
    PROVE  /\ \A i \in Ids : Arrive(i) \/ Progress(i) => BookMoves
           /\ \A o \in Orders : ForeignOrder(o) => BookMoves
           /\ UNCHANGED book => BookMoves
  <1> USE DEF KillTypes, BookMoves, BookStatuses, FinalStatuses
  <1>1. ASSUME NEW i \in Ids, Arrive(i) PROVE BookMoves
    <2>1. PICK b \in {"absent", "REJECTED", "NEW", "FILLED"} : book' = [book EXCEPT ![i] = b] /\ book[i] = "inflight"
      BY <1>1 DEF Arrive
    <2> QED BY <2>1
  <1>2. ASSUME NEW i \in Ids, Progress(i) PROVE BookMoves
    <2>1. PICK b \in {"EXPIRED", "FILLED"} : book' = [book EXCEPT ![i] = b] /\ book[i] = "NEW"
      BY <1>2 DEF Progress, Live
    <2> QED BY <2>1
  <1>3. ASSUME NEW o \in Orders, ForeignOrder(o) PROVE BookMoves
    <2>1. book' = [book EXCEPT ![o] = "NEW"] /\ book[o] = "absent" /\ o \in Ids
      BY <1>3, SellIds DEF ForeignOrder
    <2> QED BY <2>1
  <1>4. UNCHANGED book => BookMoves
    OBVIOUS
  <1> QED BY <1>1, <1>2, <1>3, <1>4

\* The exchange disturbs no run.
LEMMA BookFrame ==
    ASSUME KInv, BookMoves, UNCHANGED <<row, run, runs, closed>>
    PROVE  KInv'
  <1> USE DEF KInv
  <1>1. KillTypes'
    BY DEF KillTypes, BookMoves, Shape
  <1>2. FreshInv'
    BY SellIds DEF FreshInv, BookMoves
  <1>3. CurInv' /\ TodoInv' /\ OpenInv' /\ SoldInv'
    BY DEF CurInv, TodoInv, OpenInv, SoldInv, Earlier
  <1>4. LiveInv'
    BY DEF LiveInv, Earlier, BookMoves, KillTypes, FinalStatuses
  <1> QED BY <1>1, <1>2, <1>3, <1>4

\* Between two runs nothing but the orders of later runs is of interest.
LEMMA IdleFrame ==
    ASSUME KInv, run'.pc = "idle", Shape(run'), run'.open = {}, run'.live = {}, run'.sells = {}, UNCHANGED runs,
           row' \in [Ids -> RowStatuses], book' \in [Ids -> BookStatuses],
           \A j \in Sells : row'[j] = row[j] \/ row[j] # "none",
           \A j \in Sells : book'[j] = book[j]
    PROVE  KInv'
  <1> USE DEF KInv
  <1>1. KillTypes'
    BY DEF KillTypes, PCs
  <1>2. FreshInv'
    BY SellIds DEF FreshInv, Before
  <1>3. CurInv' /\ TodoInv' /\ OpenInv' /\ SoldInv' /\ LiveInv'
    BY DEF CurInv, TodoInv, OpenInv, SoldInv, LiveInv, Cancels, Selling, OwnSell
  <1> QED BY <1>1, <1>2, <1>3

\* The state between two runs.
LEMMA IdleShape ==
    /\ Shape(Idle) /\ Idle.pc = "idle" /\ Idle.open = {} /\ Idle.live = {} /\ Idle.sells = {}
    /\ Idle.bulk = {} /\ Idle.todo = {}
  BY DEF Shape, Idle

\* A query of an order answers with a status.
LEMMA AnswersTyped ==
    ASSUME KillTypes, NEW i \in Ids
    PROVE  /\ QueryStatus(i) \in RowStatuses
           /\ Answers(i) \subseteq RowStatuses
  BY DEF KillTypes, QueryStatus, Answers, RowStatuses, BookStatuses, FinalStatuses, OpenStatuses, Live

\* The ends of a run.
LEMMA EndStep ==
    ASSUME KInv, FinishLocal \/ FinishRun \/ (ReadExchange /\ run' = Idle) \/ (ReadBalance /\ run' = Idle)
    PROVE  KInv'
  <1>1. run' = Idle /\ UNCHANGED <<runs, row, book>>
    BY DEF FinishLocal, FinishRun, ReadExchange, ReadBalance, Report, exchVars
  <1>2. row \in [Ids -> RowStatuses] /\ book \in [Ids -> BookStatuses]
    BY DEF KInv, KillTypes
  <1> QED BY <1>1, <1>2, IdleShape, IdleFrame

\* A restart in a run, with the reconcile of the open rows.
LEMMA RestartStep ==
    ASSUME KInv, Restart
    PROVE  KInv'
  <1>0. KillTypes
    BY DEF KInv
  <1>1. run' = Idle /\ UNCHANGED <<runs, book>>
    BY DEF Restart, exchVars
  <1>2. PICK answered \in SUBSET {i \in Ids : real /\ row[i] \in OpenStatuses} :
           row' = [i \in Ids |-> IF i \notin answered THEN row[i]
                                 ELSE IF QueryStatus(i) = "none" THEN "UNKNOWN"
                                 ELSE QueryStatus(i)]
    BY DEF Restart
  <1>3. row' \in [Ids -> RowStatuses]
    <2>1. \A i \in Ids : QueryStatus(i) \in RowStatuses /\ row[i] \in RowStatuses
      BY <1>0, AnswersTyped DEF KillTypes
    <2> QED BY <1>2, <2>1 DEF RowStatuses, OpenStatuses
  <1>4. \A j \in Sells : row'[j] = row[j] \/ row[j] # "none"
    BY <1>2, SellIds DEF OpenStatuses
  <1>5. book \in [Ids -> BookStatuses]
    BY <1>0 DEF KillTypes
  <1> QED BY <1>1, <1>3, <1>4, <1>5, IdleShape, IdleFrame

\* A request that is done.
LEMMA RequestStep ==
    ASSUME KInv, NEW o \in Orders, RequestDone(o)
    PROVE  KInv'
  <1>1. PICK status \in OpenStatuses, b \in {"absent", "inflight", "NEW", "FILLED"} :
           row' = [row EXCEPT ![o] = status] /\ book' = [book EXCEPT ![o] = b]
    BY DEF RequestDone, SetRow
  <1>2. run.pc = "idle" /\ UNCHANGED <<run, runs, closed>>
    BY DEF RequestDone, At
  <1>3. row' \in [Ids -> RowStatuses] /\ book' \in [Ids -> BookStatuses]
    BY <1>1 DEF KInv, KillTypes, RowStatuses, BookStatuses, FinalStatuses
  <1>4. \A j \in Sells : row'[j] = row[j] /\ book'[j] = book[j]
    BY <1>1, SellIds, IdAssumption DEF KInv, KillTypes
  <1>5. KillTypes'
    BY <1>2, <1>3 DEF KInv, KillTypes
  <1>6. FreshInv'
    BY <1>2, <1>4, SellIds DEF KInv, FreshInv
  <1>7. CurInv' /\ TodoInv' /\ OpenInv' /\ SoldInv' /\ LiveInv'
    BY <1>2 DEF CurInv, TodoInv, OpenInv, SoldInv, LiveInv, Cancels, Selling, OwnSell
  <1> QED BY <1>5, <1>6, <1>7 DEF KInv

\* A run starts: no close order has its number yet.
LEMMA CloseOneStep ==
    ASSUME KInv, CloseOne
    PROVE  KInv'
  <1>1. /\ run.pc = "idle" /\ runs < MaxRuns /\ runs' = runs + 1 /\ closed' = FALSE
        /\ UNCHANGED <<row, book>>
        /\ run' = [Idle EXCEPT !.pc = IF real THEN "exchange" ELSE "local",
                               !.open = {i \in Ids : row[i] = "NEW"}]
    BY DEF CloseOne, At, exchVars
  <1>2. /\ Shape(run') /\ run'.pc \in {"exchange", "local"} /\ run'.open = {i \in Ids : row[i] = "NEW"}
        /\ run'.live = {} /\ run'.sells = {}
    BY <1>1 DEF Shape, Idle
  <1>3. runs' \in 1 .. MaxRuns /\ runs' > runs
    BY <1>1, BoundAssumption DEF KInv, KillTypes
  <1>4. KillTypes'
    BY <1>1, <1>2, <1>3, BoundAssumption DEF KInv, KillTypes, PCs
  <1>5. FreshInv'
    <2>1. \A n \in 1 .. MaxRuns : n > runs' \/ n = runs' => n > runs
      BY <1>3, BoundAssumption DEF KInv, KillTypes
    <2> QED BY <1>1, <2>1 DEF KInv, FreshInv
  <1>6. \A i \in run'.open : Earlier(i)'
    <2> SUFFICES ASSUME NEW s \in Symbols, NEW n \in 1 .. MaxRuns, <<s, n>> \in run'.open PROVE n < runs'
      BY DEF Earlier
    <2>1. ~(n > runs)
      BY <1>2 DEF KInv, FreshInv
    <2> QED BY <1>1, <2>1, BoundAssumption DEF KInv, KillTypes
  <1>7. CurInv' /\ TodoInv' /\ OpenInv' /\ SoldInv' /\ LiveInv'
    BY <1>1, <1>2, <1>3, <1>6 DEF CurInv, TodoInv, OpenInv, SoldInv, LiveInv, Cancels, Selling, OwnSell
  <1> QED BY <1>4, <1>5, <1>7 DEF KInv

-----------------------------------------------------------------------------
(* The cancellations *)

\* Only orders that exist, or that belong to an earlier run, are touched before the sells.
LEMMA FreshFrame ==
    ASSUME KInv, UNCHANGED runs, run'.pc \in Before => run.pc \in Before,
           \A j \in Sells : row'[j] = row[j] \/ Earlier(j) \/ row[j] # "none",
           \A j \in Sells : book'[j] = book[j] \/ Earlier(j) \/ book[j] # "absent"
    PROVE  FreshInv'
  <1> SUFFICES ASSUME NEW s \in Symbols, NEW n \in 1 .. MaxRuns, n > runs \/ (n = runs /\ run.pc \in Before)
               PROVE  row'[<<s, n>>] = "none" /\ book'[<<s, n>>] = "absent"
    BY DEF FreshInv
  <1>1. row[<<s, n>>] = "none" /\ book[<<s, n>>] = "absent"
    BY DEF KInv, FreshInv
  <1>2. ~Earlier(<<s, n>>)
    <2>1. ~(n < runs)
      BY BoundAssumption DEF KInv, KillTypes
    <2> QED BY <2>1 DEF Earlier
  <1> QED BY <1>1, <1>2, SellIds

\* A paper account cancels a row that was open.
LEMMA CancelLocalStep ==
    ASSUME KInv, NEW i \in Ids, CancelLocal(i)
    PROVE  KInv'
  <1>1. /\ run.pc = "local" /\ i \in run.open /\ UNCHANGED <<runs, closed, book>>
        /\ row' = [row EXCEPT ![i] = "CANCELED"]
        /\ run' = [run EXCEPT !.open = @ \ {i}]
    BY DEF CancelLocal, At, SetRow, exchVars
  <1>2. /\ Shape(run') /\ run'.pc = "local" /\ run'.open \subseteq run.open /\ run'.live = run.live
        /\ run'.sells = run.sells
    BY <1>1 DEF KInv, KillTypes, Shape
  <1>3. KillTypes'
    BY <1>1, <1>2 DEF KInv, KillTypes, RowStatuses, FinalStatuses
  <1>4. FreshInv'
    <2>1. Earlier(i)
      BY <1>1 DEF KInv, OpenInv
    <2>2. \A j \in Ids : j # i => row'[j] = row[j]
      BY <1>1 DEF KInv, KillTypes
    <2> QED BY <1>1, <1>2, <2>1, <2>2, SellIds, FreshFrame DEF Before
  <1>5. CurInv' /\ TodoInv' /\ SoldInv' /\ LiveInv'
    BY <1>1, <1>2 DEF KInv, CurInv, TodoInv, SoldInv, LiveInv, Cancels, Selling, OwnSell
  <1>6. OpenInv'
    BY <1>1, <1>2 DEF KInv, OpenInv, Earlier, Cancels, Selling
  <1> QED BY <1>3, <1>4, <1>5, <1>6 DEF KInv

\* The exchange is asked for its open orders: each is a target or cancelled with its symbol.
LEMMA ReadExchangeStep ==
    ASSUME KInv, ReadExchange, run' # Idle
    PROVE  KInv'
  <1>1. /\ run.pc = "exchange" /\ UNCHANGED <<row, runs, closed, book>>
        /\ run' = [run EXCEPT
              !.pc   = "cancel",
              !.live = Live,
              !.bulk = {SymbolOf[i] : i \in Live \cap Bare},
              !.todo = (run.open \X {TRUE})
                         \cup {i \in Live \ Bare : i \notin run.open \/ i \in Oco} \X {FALSE}]
    BY DEF ReadExchange, At, Report, exchVars
  <1>2. /\ Shape(run') /\ run'.pc = "cancel" /\ run'.open = run.open /\ run'.live = Live
        /\ run'.bulk = {SymbolOf[i] : i \in Live \cap Bare}
        /\ run'.todo = (run.open \X {TRUE})
                         \cup {i \in Live \ Bare : i \notin run.open \/ i \in Oco} \X {FALSE}
        /\ run'.sells = run.sells
    BY <1>1 DEF KInv, KillTypes, Shape
  <1>3. KillTypes'
    BY <1>1, <1>2 DEF KInv, KillTypes, PCs, Live
  <1>4. FreshInv'
    BY <1>1, <1>2, FreshFrame DEF Before
  <1>5. CurInv' /\ SoldInv'
    BY <1>1, <1>2 DEF KInv, CurInv, SoldInv, Selling, OwnSell
  <1>6. TodoInv'
    <2>1. run.open \subseteq Ids /\ Live \subseteq Ids
      BY DEF KInv, KillTypes, Live
    <2>2. run'.todo \subseteq Ids \X BOOLEAN
      BY <1>2, <2>1
    <2>3. \A i \in Ids : <<i, TRUE>> \in run'.todo => i \in run.open
      BY <1>2
    <2> QED BY <1>2, <2>2, <2>3 DEF TodoInv, Cancels, Selling
  <1>7. LiveInv'
    <2> SUFFICES ASSUME NEW i \in run'.live
                 PROVE  /\ book'[i] \in {"NEW"} \cup FinalStatuses
                        /\ Earlier(i)'
                        /\ book'[i] = "NEW" => \/ run'.errors
                                               \/ \E own \in BOOLEAN : <<i, own>> \in run'.todo
                                               \/ i \in Bare /\ SymbolOf[i] \in run'.bulk
      BY DEF LiveInv
    <2>1. book[i] = "NEW" /\ i \in Ids /\ book'[i] = book[i] /\ i \in Live
      BY <1>1, <1>2 DEF Live
    <2>2. Earlier(i)'
      <3> SUFFICES ASSUME NEW s \in Symbols, NEW n \in 1 .. MaxRuns, i = <<s, n>> PROVE n < runs'
        BY DEF Earlier
      <3>1. ~(n > runs) /\ n # runs
        BY <1>1, <2>1 DEF KInv, FreshInv, Before
      <3> QED BY <1>1, <3>1, BoundAssumption DEF KInv, KillTypes
    <2>3. CASE i \in Bare
      <3>1. SymbolOf[i] \in run'.bulk
        BY <1>2, <2>1, <2>3
      <3> QED BY <2>1, <2>2, <2>3, <3>1
    <2>4. CASE i \notin Bare /\ i \in run.open
      <3>1. <<i, TRUE>> \in run'.todo
        BY <1>2, <2>4
      <3> QED BY <2>1, <2>2, <3>1
    <2>5. CASE i \notin Bare /\ i \notin run.open
      <3>1. <<i, FALSE>> \in run'.todo
        BY <1>2, <2>1, <2>5
      <3> QED BY <2>1, <2>2, <3>1
    <2> QED BY <2>3, <2>4, <2>5
  <1>8. OpenInv'
    <2>1. \A i \in run.open : <<i, TRUE>> \in run'.todo /\ Earlier(i)
      BY <1>1, <1>2 DEF KInv, OpenInv
    <2> QED BY <1>1, <1>2, <2>1 DEF OpenInv, Earlier
  <1> QED BY <1>3, <1>4, <1>5, <1>6, <1>7, <1>8 DEF KInv

\* The orders without a client order id of a symbol are cancelled, or an error is noted.
LEMMA BulkCancelStep ==
    ASSUME KInv, NEW s \in Symbols, BulkCancel(s)
    PROVE  KInv'
  <1>1. PICK ok \in BOOLEAN, done \in BOOLEAN :
          /\ ok => done
          /\ book' = [i \in Ids |-> IF done /\ i \in Live /\ Symbol(i) = s THEN "CANCELED" ELSE book[i]]
          /\ run' = [run EXCEPT !.bulk = @ \ {s}, !.errors = @ \/ ~ok]
    BY DEF BulkCancel
  <1>2. run.pc = "cancel" /\ UNCHANGED <<row, runs, closed>>
    BY DEF BulkCancel, At
  <1>3. /\ Shape(run') /\ run'.pc = "cancel" /\ run'.open = run.open /\ run'.live = run.live
        /\ run'.bulk = run.bulk \ {s} /\ run'.todo = run.todo /\ run'.sells = run.sells
    BY <1>1, <1>2 DEF KInv, KillTypes, Shape
  <1>4. run'.errors <=> (run.errors \/ ~ok)
    BY <1>1 DEF KInv, KillTypes, Shape
  <1>5. book' \in [Ids -> BookStatuses]
    BY <1>1 DEF KInv, KillTypes, BookStatuses, FinalStatuses
  <1>6. \A i \in Ids : book'[i] = book[i] \/ (book[i] = "NEW" /\ book'[i] = "CANCELED")
    BY <1>1 DEF Live
  <1>7. KillTypes'
    BY <1>2, <1>3, <1>5 DEF KInv, KillTypes
  <1>8. FreshInv'
    BY <1>2, <1>3, <1>6, SellIds, FreshFrame
  <1>9. CurInv' /\ SoldInv' /\ TodoInv'
    BY <1>2, <1>3 DEF KInv, CurInv, SoldInv, TodoInv, Cancels, Selling, OwnSell
  <1>10. LiveInv'
    <2> SUFFICES ASSUME NEW i \in run.live
                 PROVE  /\ book'[i] \in {"NEW"} \cup FinalStatuses
                        /\ Earlier(i)'
                        /\ book'[i] = "NEW" => \/ run'.errors
                                               \/ \E own \in BOOLEAN : <<i, own>> \in run.todo
                                               \/ i \in Bare /\ SymbolOf[i] \in run'.bulk
      BY <1>3 DEF LiveInv
    <2>1. /\ book[i] \in {"NEW"} \cup FinalStatuses
          /\ Earlier(i)
          /\ book[i] = "NEW" => \/ run.errors
                                \/ \E own \in BOOLEAN : <<i, own>> \in run.todo
                                \/ i \in Bare /\ SymbolOf[i] \in run.bulk
      BY <1>2 DEF KInv, LiveInv, Cancels
    <2>2. i \in Ids
      BY DEF KInv, KillTypes
    <2>3. Earlier(i)'
      BY <1>2, <2>1 DEF Earlier
    <2>4. book'[i] = book[i] \/ (book[i] = "NEW" /\ book'[i] = "CANCELED")
      BY <1>6, <2>2
    <2>5. ASSUME book'[i] = "NEW", i \in Bare, SymbolOf[i] = s PROVE ~ok
      <3>1. i \in Orders /\ Symbol(i) = s
        BY <2>5, OrderAssumption DEF Symbol
      <3> QED BY <1>1, <2>2, <2>4, <2>5, <3>1 DEF Live
    <2> QED BY <1>3, <1>4, <2>1, <2>3, <2>4, <2>5 DEF FinalStatuses
  <1>11. OpenInv'
    BY <1>2, <1>3, <1>4 DEF KInv, OpenInv, Earlier
  <1> QED BY <1>7, <1>8, <1>9, <1>10, <1>11 DEF KInv

\* What _cancel_one makes of a status.
LEMMA OutcomeFields ==
    ASSUME NEW r, Shape(r), NEW status, NEW o, o = Outcome(r, status)
    PROVE  /\ Shape(o)
           /\ o.open = r.open /\ o.live = r.live /\ o.bulk = r.bulk /\ o.todo = r.todo /\ o.cur = r.cur
           /\ o.own = r.own /\ o.sells = r.sells
           /\ o.pc = IF r.own THEN "write" ELSE "cancel"
           /\ o.found = IF status \in OpenStatuses THEN "UNKNOWN" ELSE status
           /\ o.errors <=> (r.errors \/ status \in OpenStatuses)
  BY DEF Outcome, Shape

\* The answer of a cancellation: the target is over, or it is checked, or an error is noted.
Answered(i, own) ==
    /\ Shape(run')
    /\ run'.open = run.open /\ run'.live = run.live /\ run'.bulk = run.bulk /\ run'.sells = run.sells
    /\ run'.todo = run.todo \ {<<i, own>>}
    /\ run'.cur = i /\ run'.own = own
    /\ run'.pc = "verify" \/ run'.pc = IF own THEN "write" ELSE "cancel"
    /\ run'.pc = "write" => run'.found \in FinalStatuses \/ (run'.found = "UNKNOWN" /\ run'.errors)
    /\ run.errors => run'.errors
    /\ run'.errors \/ book'[i] # "NEW"
    /\ \A j \in Ids : \/ book'[j] = book[j]
                      \/ j = i /\ book[j] = "NEW" /\ book'[j] \in FinalStatuses

\* _cancel_one does no more.
LEMMA CancelAnswered ==
    ASSUME KInv, NEW i \in Ids, NEW own \in BOOLEAN, CancelOne(i, own)
    PROVE  Answered(i, own)
  <1> DEFINE r == [run EXCEPT !.todo = @ \ {<<i, own>>}, !.cur = i, !.own = own]
  <1>1. /\ Shape(r)
        /\ r.open = run.open /\ r.live = run.live /\ r.bulk = run.bulk /\ r.sells = run.sells
        /\ r.todo = run.todo \ {<<i, own>>}
        /\ r.cur = i /\ r.own = own /\ r.errors = run.errors
    <2>1. PICK t : t = run.todo \ {<<i, own>>}
      OBVIOUS
    <2>2. PICK w : w = own
      OBVIOUS
    <2>3. Shape(run) /\ r = [run EXCEPT !.todo = t, !.cur = i, !.own = w]
      BY <2>1, <2>2 DEF KInv, KillTypes
    <2> HIDE DEF r
    <2>4. /\ Shape(r)
          /\ r.open = run.open /\ r.live = run.live /\ r.bulk = run.bulk /\ r.sells = run.sells
          /\ r.todo = t /\ r.cur = i /\ r.own = w /\ r.errors = run.errors
      BY ONLY <2>3 DEF Shape
    <2> QED BY <2>1, <2>2, <2>4
  <1>2. book \in [Ids -> BookStatuses]
    BY DEF KInv, KillTypes
  <1>3. \/ run' = Outcome(r, "UNKNOWN") /\ (UNCHANGED book \/ (i \in Live /\ book' = [book EXCEPT ![i] = "CANCELED"]))
        \/ run' = Outcome(r, "CANCELED") /\ i \in Live /\ book' = [book EXCEPT ![i] = "CANCELED"]
        \/ run' = Outcome(r, "FILLED") /\ i \in Live /\ book' = [book EXCEPT ![i] = "FILLED"]
        \/ run' = [r EXCEPT !.pc = "verify"] /\ i \notin Live /\ UNCHANGED book
    BY DEF CancelOne, exchVars
  <1> HIDE DEF r
  <1>4. CASE run' = Outcome(r, "UNKNOWN") /\ (UNCHANGED book \/ (i \in Live /\ book' = [book EXCEPT ![i] = "CANCELED"]))
    <2>1. \A j \in Ids : book'[j] = book[j] \/ (j = i /\ book[j] = "NEW" /\ book'[j] \in FinalStatuses)
      BY <1>2, <1>4 DEF Live, FinalStatuses
    <2> QED BY <1>1, <1>4, <2>1, OutcomeFields DEF Answered, OpenStatuses, FinalStatuses
  <1>5. ASSUME NEW status \in {"CANCELED", "FILLED"}, run' = Outcome(r, status), i \in Live,
               book' = [book EXCEPT ![i] = status]
        PROVE  Answered(i, own)
    <2>1. \A j \in Ids : book'[j] = book[j] \/ (j = i /\ book[j] = "NEW" /\ book'[j] \in FinalStatuses)
      BY <1>2, <1>5 DEF Live, FinalStatuses
    <2>2. book'[i] # "NEW" /\ status \in FinalStatuses /\ status \notin OpenStatuses
      BY <1>2, <1>5 DEF FinalStatuses, OpenStatuses
    <2> QED BY <1>1, <1>5, <2>1, <2>2, OutcomeFields DEF Answered
  <1>6. CASE run' = [r EXCEPT !.pc = "verify"] /\ i \notin Live /\ UNCHANGED book
    <2>1. /\ Shape(run')
          /\ run'.open = r.open /\ run'.live = r.live /\ run'.bulk = r.bulk /\ run'.sells = r.sells
          /\ run'.todo = r.todo /\ run'.cur = r.cur /\ run'.own = r.own /\ run'.errors = r.errors
          /\ run'.pc = "verify"
      BY <1>1, <1>6 DEF Shape
    <2>2. book'[i] # "NEW" /\ \A j \in Ids : book'[j] = book[j]
      BY <1>6 DEF Live
    <2> QED BY <1>1, <2>1, <2>2 DEF Answered
  <1> QED BY <1>3, <1>4, <1>5, <1>6

\* One target has its turn.
LEMMA CancelOneStep ==
    ASSUME KInv, NEW i \in Ids, NEW own \in BOOLEAN, CancelOne(i, own)
    PROVE  KInv'
  <1>1. run.pc = "cancel" /\ run.bulk = {} /\ <<i, own>> \in run.todo /\ UNCHANGED <<row, runs, closed>>
    BY DEF CancelOne, At
  <1>2. Answered(i, own)
    BY CancelAnswered
  <1>3. own => i \in run.open
    BY <1>1 DEF KInv, TodoInv, Cancels
  <1>4. run'.pc \in {"cancel", "verify", "write"} /\ (run'.pc = "write" => own)
    BY <1>2 DEF Answered
  <1>5. KillTypes'
    <2>1. book' \in [Ids -> BookStatuses]
      <3>1. \A j \in Ids : book'[j] \in BookStatuses
        BY <1>2 DEF KInv, KillTypes, Answered, BookStatuses
      <3>2. book' = [j \in Ids |-> book'[j]]
        <4>1. book' \in {[book EXCEPT ![i] = "CANCELED"], [book EXCEPT ![i] = "FILLED"], book}
          BY DEF CancelOne, exchVars
        <4> QED BY <4>1 DEF KInv, KillTypes
      <3> QED BY <3>1, <3>2
    <2> QED BY <1>1, <1>2, <1>4, <2>1 DEF KInv, KillTypes, Answered, PCs
  <1>6. FreshInv'
    <2>1. \A j \in Sells : book'[j] = book[j] \/ book[j] # "absent"
      BY <1>2, SellIds DEF Answered
    <2> QED BY <1>1, <2>1, FreshFrame DEF Before
  <1>7. CurInv'
    <2>1. run.pc # "idle" /\ runs \in 1 .. MaxRuns /\ closed = FALSE
      BY <1>1 DEF KInv, CurInv
    <2> QED BY <1>1, <1>2, <1>3, <1>4, <2>1 DEF Answered, CurInv, OwnSell
  <1>8. TodoInv'
    BY <1>1, <1>2, <1>4 DEF KInv, TodoInv, Answered, Cancels, Selling
  <1>9. LiveInv'
    <2> SUFFICES ASSUME NEW j \in run.live
                 PROVE  /\ book'[j] \in {"NEW"} \cup FinalStatuses
                        /\ Earlier(j)'
                        /\ book'[j] = "NEW" => run'.errors \/ \E b \in BOOLEAN : <<j, b>> \in run'.todo
      BY <1>2 DEF LiveInv, Answered
    <2>1. /\ book[j] \in {"NEW"} \cup FinalStatuses
          /\ Earlier(j)
          /\ book[j] = "NEW" => run.errors \/ \E b \in BOOLEAN : <<j, b>> \in run.todo
      BY <1>1 DEF KInv, LiveInv, Cancels
    <2>2. j \in Ids
      BY DEF KInv, KillTypes
    <2>3. Earlier(j)'
      BY <1>1, <2>1 DEF Earlier
    <2>4. CASE j # i
      BY <1>2, <2>1, <2>2, <2>3, <2>4 DEF Answered
    <2>5. CASE j = i
      BY <1>2, <2>1, <2>2, <2>3, <2>5 DEF Answered
    <2> QED BY <2>4, <2>5
  <1>10. OpenInv'
    <2> SUFFICES ASSUME NEW j \in run.open
                 PROVE  /\ Earlier(j)'
                        /\ \/ row'[j] \in FinalStatuses
                           \/ run'.errors
                           \/ <<j, TRUE>> \in run'.todo
                           \/ run'.cur = j /\ (run'.pc = "write" \/ (run'.pc = "verify" /\ run'.own))
      BY <1>2 DEF OpenInv, Answered
    <2>1. /\ Earlier(j)
          /\ row[j] \in FinalStatuses \/ run.errors \/ <<j, TRUE>> \in run.todo
      BY <1>1 DEF KInv, OpenInv, Cancels
    <2>2. Earlier(j)'
      BY <1>1, <2>1 DEF Earlier
    <2>3. CASE own /\ j = i
      BY <1>2, <2>2, <2>3 DEF Answered
    <2>4. CASE ~own \/ j # i
      <3>1. <<j, TRUE>> # <<i, own>>
        BY <2>4
      <3> QED BY <1>1, <1>2, <2>1, <2>2, <3>1 DEF Answered
    <2> QED BY <2>3, <2>4
  <1>11. SoldInv'
    BY <1>4 DEF SoldInv, Selling
  <1> QED BY <1>5, <1>6, <1>7, <1>8, <1>9, <1>10, <1>11 DEF KInv

\* A target that was not live is asked for.
LEMMA VerifyStep ==
    ASSUME KInv, VerifyGone
    PROVE  KInv'
  <1>1. run.pc = "verify" /\ UNCHANGED <<row, runs, closed, book>>
    BY DEF VerifyGone, At, exchVars
  <1>2. Shape(run) /\ run.cur \in Ids /\ KillTypes
    BY <1>1 DEF KInv, KillTypes, CurInv
  <1>3. PICK a \in Answers(run.cur) : run' = Outcome(run, IF a = "none" THEN "CANCELED" ELSE a)
    BY DEF VerifyGone
  <1>4. PICK status : status = IF a = "none" THEN "CANCELED" ELSE a
    OBVIOUS
  <1>5. status \in FinalStatuses \cup OpenStatuses
    BY <1>2, <1>3, <1>4, AnswersTyped DEF RowStatuses, FinalStatuses
  <1>6. /\ Shape(run')
        /\ run'.open = run.open /\ run'.live = run.live /\ run'.bulk = run.bulk /\ run'.todo = run.todo
        /\ run'.cur = run.cur /\ run'.own = run.own /\ run'.sells = run.sells
        /\ run'.pc = IF run.own THEN "write" ELSE "cancel"
        /\ run'.found = IF status \in OpenStatuses THEN "UNKNOWN" ELSE status
        /\ run'.errors <=> (run.errors \/ status \in OpenStatuses)
    <2>1. run' = Outcome(run, status)
      BY <1>3, <1>4
    <2> QED BY <1>2, <2>1, OutcomeFields
  <1>7. KillTypes'
    BY <1>1, <1>6 DEF KInv, KillTypes, PCs
  <1>8. FreshInv'
    BY <1>1, FreshFrame DEF Before
  <1>9. CurInv'
    BY <1>1, <1>5, <1>6 DEF KInv, CurInv, OwnSell
  <1>10. TodoInv' /\ SoldInv'
    BY <1>1, <1>6 DEF KInv, TodoInv, SoldInv, Cancels, Selling
  <1>11. LiveInv'
    BY <1>1, <1>6 DEF KInv, LiveInv, Earlier, Cancels
  <1>12. OpenInv'
    BY <1>1, <1>6 DEF KInv, OpenInv, Earlier, Cancels
  <1> QED BY <1>7, <1>8, <1>9, <1>10, <1>11, <1>12 DEF KInv

\* The outcome of a cancellation is written to its row.
LEMMA WriteStep ==
    ASSUME KInv, WriteRow
    PROVE  KInv'
  <1>1. /\ run.pc = "write" /\ UNCHANGED <<runs, closed, book>>
        /\ row' = [row EXCEPT ![run.cur] = run.found]
        /\ run' = [run EXCEPT !.pc = "cancel"]
    BY DEF WriteRow, At, SetRow, Goto, exchVars
  <1>2. /\ Shape(run') /\ run'.pc = "cancel"
        /\ run'.open = run.open /\ run'.live = run.live /\ run'.bulk = run.bulk /\ run'.todo = run.todo
        /\ run'.sells = run.sells /\ run'.errors = run.errors
    BY <1>1 DEF KInv, KillTypes, Shape
  <1>3. /\ run.cur \in run.open /\ run.cur \in Ids /\ Earlier(run.cur)
        /\ run.found \in FinalStatuses \/ (run.found = "UNKNOWN" /\ run.errors)
    BY <1>1 DEF KInv, CurInv, OpenInv, KillTypes
  <1>4. row'[run.cur] = run.found /\ \A j \in Ids : j # run.cur => row'[j] = row[j]
    BY <1>1, <1>3 DEF KInv, KillTypes
  <1>5. KillTypes'
    BY <1>1, <1>2, <1>3 DEF KInv, KillTypes, PCs, RowStatuses, OpenStatuses
  <1>6. FreshInv'
    BY <1>1, <1>3, <1>4, SellIds, FreshFrame DEF Before
  <1>7. CurInv' /\ TodoInv' /\ SoldInv'
    BY <1>1, <1>2 DEF KInv, CurInv, TodoInv, SoldInv, Cancels, Selling, OwnSell
  <1>8. LiveInv'
    BY <1>1, <1>2 DEF KInv, LiveInv, Earlier, Cancels
  <1>9. OpenInv'
    <2> SUFFICES ASSUME NEW j \in run.open
                 PROVE  /\ Earlier(j)'
                        /\ row'[j] \in FinalStatuses \/ run'.errors \/ <<j, TRUE>> \in run'.todo
      BY <1>2 DEF OpenInv
    <2>1. /\ Earlier(j)
          /\ row[j] \in FinalStatuses \/ run.errors \/ <<j, TRUE>> \in run.todo \/ run.cur = j
      BY <1>1 DEF KInv, OpenInv, Cancels
    <2>2. Earlier(j)' /\ j \in Ids
      BY <1>1, <2>1 DEF Earlier, KInv, KillTypes
    <2> QED BY <1>2, <1>3, <1>4, <2>1, <2>2
  <1> QED BY <1>5, <1>6, <1>7, <1>8, <1>9 DEF KInv

\* The balances are read: no target is left and no close order of this run exists.
LEMMA ReadBalanceStep ==
    ASSUME KInv, ReadBalance, run' # Idle
    PROVE  KInv'
  <1>1. /\ run.pc = "cancel" /\ run.bulk = {} /\ run.todo = {} /\ UNCHANGED <<row, runs, closed, book>>
        /\ run' = [run EXCEPT !.pc = "sell",
                              !.free = [s \in Symbols |-> FreeUnits(s)],
                              !.sells = {s \in Symbols : FreeUnits(s) > 0}]
    BY DEF ReadBalance, At, Report
  <1>2. PICK free, sells : /\ run' = [run EXCEPT !.pc = "sell", !.free = free, !.sells = sells]
                           /\ sells \subseteq Symbols
    BY <1>1
  <1>3. /\ Shape(run') /\ run'.pc = "sell"
        /\ run'.open = run.open /\ run'.live = run.live /\ run'.bulk = {} /\ run'.todo = {}
        /\ run'.sells \subseteq Symbols /\ run'.errors = run.errors
    BY ONLY <1>1, <1>2, KInv DEF KInv, KillTypes, Shape
  <1>4. KillTypes'
    BY <1>1, <1>3 DEF KInv, KillTypes, PCs
  <1>5. FreshInv'
    BY <1>1, <1>3, FreshFrame DEF Before
  <1>6. CurInv' /\ TodoInv'
    BY <1>1, <1>3 DEF KInv, CurInv, TodoInv, Cancels, Selling, OwnSell
  <1>7. LiveInv'
    BY <1>1, <1>3 DEF KInv, LiveInv, Earlier, Cancels, Selling
  <1>8. OpenInv'
    BY <1>1, <1>3 DEF KInv, OpenInv, Earlier, Cancels, Selling
  <1>9. SoldInv'
    <2>1. \A s \in Symbols : row[<<s, runs>>] = "none"
      BY <1>1 DEF KInv, FreshInv, CurInv, Before
    <2> QED BY <1>1, <2>1 DEF SoldInv, OpenStatuses
  <1> QED BY <1>4, <1>5, <1>6, <1>7, <1>8, <1>9 DEF KInv

-----------------------------------------------------------------------------
(* The sells *)

\* A step of the sells touches close orders of this run and rows that are open, and nothing
\* the cancellations have settled.
SellFrameHyp ==
    /\ run.pc \in Selling /\ run'.pc \in Selling /\ UNCHANGED <<runs, closed>>
    /\ Shape(run')
    /\ run'.open = run.open /\ run'.live = run.live /\ run'.bulk = run.bulk /\ run'.todo = run.todo
    /\ run'.errors = run.errors /\ run'.sells \subseteq run.sells
    /\ row' \in [Ids -> RowStatuses] /\ book' \in [Ids -> BookStatuses]
    /\ \A j \in Ids : row'[j] = row[j] \/ row[j] \in OpenStatuses \/ \E s \in Symbols : j = <<s, runs>>
    /\ \A j \in Ids : book'[j] = book[j] \/ \E s \in Symbols : j = <<s, runs>>

\* Such a step keeps what the cancellations established.
LEMMA SellFrame ==
    ASSUME KInv, SellFrameHyp
    PROVE  KillTypes' /\ FreshInv' /\ TodoInv' /\ LiveInv' /\ OpenInv'
  <1> USE DEF SellFrameHyp
  <1>1. KillTypes'
    BY DEF KInv, KillTypes, Selling, PCs
  <1>2. FreshInv'
    <2> SUFFICES ASSUME NEW s \in Symbols, NEW n \in 1 .. MaxRuns, n > runs
                 PROVE  row'[<<s, n>>] = "none" /\ book'[<<s, n>>] = "absent"
      BY DEF FreshInv, Selling, Before
    <2>1. row[<<s, n>>] = "none" /\ book[<<s, n>>] = "absent"
      BY DEF KInv, FreshInv
    <2>2. n # runs
      BY BoundAssumption DEF KInv, KillTypes
    <2> QED BY <2>1, <2>2, SellIds DEF OpenStatuses
  <1>3. TodoInv'
    BY DEF KInv, TodoInv, Selling, Cancels
  <1>4. ASSUME NEW j, Earlier(j) PROVE Earlier(j)' /\ \A s \in Symbols : j # <<s, runs>>
    <2>1. Earlier(j)'
      BY <1>4 DEF Earlier
    <2>2. runs \in 1 .. MaxRuns /\ ~(runs < runs)
      BY BoundAssumption DEF KInv, CurInv, KillTypes, Selling
    <2> QED BY <1>4, <2>1, <2>2 DEF Earlier
  <1>5. LiveInv'
    <2> SUFFICES ASSUME NEW j \in run.live
                 PROVE  /\ book'[j] \in {"NEW"} \cup FinalStatuses
                        /\ Earlier(j)'
                        /\ book'[j] = "NEW" => run.errors
      BY DEF LiveInv
    <2>1. /\ book[j] \in {"NEW"} \cup FinalStatuses
          /\ Earlier(j)
          /\ book[j] = "NEW" => run.errors
      BY DEF KInv, LiveInv, TodoInv, Selling
    <2> QED BY <1>4, <2>1 DEF KInv, KillTypes
  <1>6. OpenInv'
    <2> SUFFICES ASSUME NEW j \in run.open
                 PROVE  Earlier(j)' /\ (row'[j] \in FinalStatuses \/ run.errors)
      BY DEF OpenInv
    <2>1. Earlier(j) /\ (row[j] \in FinalStatuses \/ run.errors) /\ j \in Ids
      BY DEF KInv, OpenInv, TodoInv, Selling, KillTypes
    <2>2. FinalStatuses \cap OpenStatuses = {}
      BY DEF FinalStatuses, OpenStatuses
    <2> QED BY <1>4, <2>1, <2>2
  <1> QED BY <1>1, <1>2, <1>3, <1>5, <1>6

\* A step of the sells that shows what it does to the run and to the order at hand.
LEMMA SellStep ==
    ASSUME KInv, SellFrameHyp, CurInv', SoldInv'
    PROVE  KInv'
  BY SellFrame DEF KInv

\* What a run that sells knows of itself.
LEMMA SellTypes ==
    ASSUME KInv, run.pc \in Selling
    PROVE  /\ Shape(run) /\ runs \in 1 .. MaxRuns /\ closed = FALSE
           /\ row \in [Ids -> RowStatuses] /\ book \in [Ids -> BookStatuses]
           /\ \A s \in Symbols : <<s, runs>> \in Ids /\ <<s, runs>> \in Sells
           /\ run.pc \notin OwnSell \ {"insert"} =>
                \A s \in Symbols : row[<<s, runs>>] \in OpenStatuses => ~run.sold
  <1>1. runs \in 1 .. MaxRuns /\ closed = FALSE
    BY DEF KInv, CurInv, Selling
  <1>2. run.pc \notin OwnSell \ {"insert"} =>
            \A s \in Symbols : row[<<s, runs>>] \in OpenStatuses => ~run.sold
    BY DEF KInv, SoldInv
  <1> QED BY <1>1, <1>2, SellIds DEF KInv, KillTypes

\* What the steps of the sells leave of the run.
SellFields ==
    /\ Shape(run')
    /\ run'.open = run.open /\ run'.live = run.live /\ run'.bulk = run.bulk /\ run'.todo = run.todo
    /\ run'.errors = run.errors /\ run'.free = run.free
    /\ ~run.sold => ~run'.sold

\* The next balance ...
LEMMA NextSellEffect ==
    ASSUME KInv, NEW s \in Symbols, NextSell(s)
    PROVE  /\ run.pc = "sell" /\ s \in run.sells
           /\ UNCHANGED <<row, runs, closed, book, held, late, qty>>
           /\ SellFields /\ run'.sells = run.sells \ {s}
           /\ \/ run'.pc = "sell"
              \/ run'.pc = "insert" /\ run'.cur = <<s, runs>>
              \/ /\ run'.pc = "query" /\ run'.cur \in Sells /\ run'.cur[1] = s
                 /\ row[run'.cur] \in OpenStatuses
  <1>1. run.pc = "sell" /\ s \in run.sells /\ UNCHANGED <<row, runs, closed, book, held, late, qty>>
    BY DEF NextSell, At, exchVars
  <1>2. Shape(run)
    BY DEF KInv, KillTypes
  <1> USE DEF SellFields, Shape
  <1>3. CASE run' = [run EXCEPT !.sells = @ \ {s}]
    BY <1>1, <1>2, <1>3
  <1>4. CASE run' = [run EXCEPT !.sells = @ \ {s}, !.sold = FALSE]
    BY <1>1, <1>2, <1>4
  <1>5. CASE run' = [run EXCEPT !.sells = @ \ {s}, !.pc = "insert", !.cur = <<s, runs>>]
    BY <1>1, <1>2, <1>5
  <1>6. CASE OpenCloses(s) # {} /\ run' = [run EXCEPT !.sells = @ \ {s}, !.pc = "query",
                                                     !.cur = <<s, Max(OpenCloses(s))>>]
    <2>1. OpenCloses(s) \subseteq 1 .. MaxRuns /\ OpenCloses(s) # {}
      BY <1>6 DEF OpenCloses
    <2>2. PICK n \in 1 .. MaxRuns : n = Max(OpenCloses(s)) /\ row[<<s, n>>] \in OpenStatuses
      BY <2>1, MaxMember, BoundAssumption DEF OpenCloses
    <2>3. run' = [run EXCEPT !.sells = @ \ {s}, !.pc = "query", !.cur = <<s, n>>]
      BY <1>6, <2>2
    <2>4. <<s, n>> \in Sells
      BY SellIds
    <2> QED BY <1>1, <1>2, <2>2, <2>3, <2>4
  <1> QED BY <1>3, <1>4, <1>5, <1>6 DEF NextSell

\* ... keeps the invariant.
LEMMA NextSellStep ==
    ASSUME KInv, NEW s \in Symbols, NextSell(s)
    PROVE  KInv'
  <1>1. run.pc = "sell" /\ UNCHANGED <<row, runs, closed, book>> /\ SellFields /\ run'.sells \subseteq run.sells
    BY NextSellEffect
  <1>2. \/ run'.pc = "sell"
        \/ run'.pc = "insert" /\ run'.cur = <<s, runs>>
        \/ run'.pc = "query" /\ run'.cur \in Sells /\ row[run'.cur] \in OpenStatuses
    BY NextSellEffect
  <1>3. /\ runs \in 1 .. MaxRuns /\ closed = FALSE
        /\ \A t \in Symbols : row[<<t, runs>>] \in OpenStatuses => ~run.sold
        /\ row \in [Ids -> RowStatuses] /\ book \in [Ids -> BookStatuses]
    BY <1>1, SellTypes DEF Selling, OwnSell
  <1>4. SellFrameHyp
    BY <1>1, <1>2, <1>3 DEF SellFrameHyp, Selling, SellFields
  <1>5. CurInv'
    BY <1>1, <1>2, <1>3 DEF CurInv, OwnSell
  <1>6. SoldInv'
    BY <1>1, <1>3 DEF SoldInv, SellFields
  <1> QED BY <1>4, <1>5, <1>6, SellStep

\* An open close order is asked for ...
LEMMA QueryOpenEffect ==
    ASSUME KInv, QueryOpenClose
    PROVE  /\ run.pc = "query" /\ UNCHANGED <<row, runs, closed, book, held, late, qty>>
           /\ run.cur \in Sells /\ run.cur[1] \in Symbols /\ row[run.cur] \in OpenStatuses
           /\ SellFields /\ run'.sells = run.sells
           /\ \/ run'.pc = "insert" /\ run'.cur = <<run.cur[1], runs>>
              \/ run'.pc = "sync" /\ run'.cur = run.cur /\ run'.found \in RowStatuses \ {"none"}
  <1>1. run.pc = "query" /\ UNCHANGED <<row, runs, closed, book, held, late, qty>>
    BY DEF QueryOpenClose, At, exchVars
  <1>2. Shape(run)
    BY DEF KInv, KillTypes
  <1>3. run.cur \in Sells /\ row[run.cur] \in OpenStatuses /\ run.cur[1] \in Symbols /\ run.cur \in Ids
    BY <1>1 DEF KInv, CurInv, Sells, Ids
  <1>4. PICK a \in Answers(run.cur) :
           run' = IF a = "none" THEN [run EXCEPT !.pc = "insert", !.cur = <<@[1], runs>>]
                                ELSE [run EXCEPT !.pc = "sync", !.found = a]
    BY DEF QueryOpenClose
  <1>5. a \in RowStatuses
    BY <1>3, <1>4, AnswersTyped DEF KInv
  <1>6. CASE a = "none"
    BY <1>1, <1>2, <1>3, <1>4, <1>6 DEF SellFields, Shape
  <1>7. CASE a # "none"
    BY <1>1, <1>2, <1>3, <1>4, <1>5, <1>7 DEF SellFields, Shape
  <1> QED BY <1>6, <1>7

\* ... and keeps the invariant.
LEMMA QueryOpenStep ==
    ASSUME KInv, QueryOpenClose
    PROVE  KInv'
  <1>1. /\ run.pc = "query" /\ UNCHANGED <<row, runs, closed, book>>
        /\ run.cur \in Sells /\ run.cur[1] \in Symbols /\ row[run.cur] \in OpenStatuses
        /\ SellFields /\ run'.sells \subseteq run.sells
        /\ \/ run'.pc = "insert" /\ run'.cur = <<run.cur[1], runs>>
           \/ run'.pc = "sync" /\ run'.cur = run.cur /\ run'.found \in RowStatuses \ {"none"}
    BY QueryOpenEffect
  <1>2. /\ runs \in 1 .. MaxRuns /\ closed = FALSE
        /\ \A t \in Symbols : row[<<t, runs>>] \in OpenStatuses => ~run.sold
        /\ row \in [Ids -> RowStatuses] /\ book \in [Ids -> BookStatuses]
    BY <1>1, SellTypes DEF Selling, OwnSell
  <1>3. SellFrameHyp
    BY <1>1, <1>2 DEF SellFrameHyp, Selling, SellFields
  <1>4. CurInv' /\ SoldInv'
    BY <1>1, <1>2 DEF CurInv, SoldInv, OwnSell, SellFields
  <1> QED BY <1>3, <1>4, SellStep

\* Its row is synced ...
LEMMA SyncOpenEffect ==
    ASSUME KInv, SyncOpenClose
    PROVE  /\ run.pc = "sync" /\ UNCHANGED <<runs, closed, book, held, late, qty>>
           /\ run.cur \in Sells /\ run.cur \in Ids /\ run.cur[1] \in Symbols /\ row[run.cur] \in OpenStatuses
           /\ run.found \in RowStatuses \ {"none"}
           /\ row' \in [Ids -> RowStatuses] /\ row'[run.cur] = run.found
           /\ \A j \in Ids : j # run.cur => row'[j] = row[j]
           /\ SellFields /\ run'.sells = run.sells
           /\ \/ run'.pc = "sell" /\ run.found \in OpenStatuses /\ ~run'.sold
              \/ run'.pc = "sell" /\ run.found \in FinalStatuses
              \/ run'.pc = "insert" /\ run'.cur = <<run.cur[1], runs>> /\ run.found \in FinalStatuses
  <1>1. /\ run.pc = "sync" /\ UNCHANGED <<runs, closed, book, held, late, qty>>
        /\ row' = [row EXCEPT ![run.cur] = run.found]
    BY DEF SyncOpenClose, At, exchVars, SetRow
  <1>2. Shape(run) /\ row \in [Ids -> RowStatuses]
    BY DEF KInv, KillTypes
  <1>3. /\ run.cur \in Sells /\ row[run.cur] \in OpenStatuses /\ run.cur[1] \in Symbols /\ run.cur \in Ids
        /\ run.found \in RowStatuses \ {"none"}
    BY <1>1 DEF KInv, CurInv, Sells, Ids
  <1>4. /\ row' \in [Ids -> RowStatuses] /\ row'[run.cur] = run.found
        /\ \A j \in Ids : j # run.cur => row'[j] = row[j]
    BY <1>1, <1>2, <1>3
  <1>5. /\ SellFields /\ run'.sells = run.sells
        /\ \/ run'.pc = "sell" /\ run.found \in OpenStatuses /\ ~run'.sold
           \/ run'.pc = "sell" /\ run.found \in FinalStatuses
           \/ run'.pc = "insert" /\ run'.cur = <<run.cur[1], runs>> /\ run.found \in FinalStatuses
    <2>1. CASE run.found = "FILLED"
      <3>1. run' = [run EXCEPT !.pc = "sell", !.sold = @ /\ TRUE]
        BY <2>1 DEF SyncOpenClose
      <3> QED BY <1>2, <2>1, <3>1 DEF SellFields, Shape, FinalStatuses
    <2>2. CASE run.found \in OpenStatuses
      <3>1. run' = [run EXCEPT !.pc = "sell", !.sold = @ /\ run.found = "FILLED"] /\ run.found # "FILLED"
        BY <2>2 DEF SyncOpenClose, OpenStatuses
      <3>2. run' = [run EXCEPT !.pc = "sell", !.sold = FALSE]
        BY <3>1
      <3> QED BY <1>2, <2>2, <3>2 DEF SellFields, Shape
    <2>3. CASE run.found \notin OpenStatuses \cup {"FILLED"}
      <3>1. run' = [run EXCEPT !.pc = "insert", !.cur = <<@[1], runs>>]
        BY <2>3 DEF SyncOpenClose
      <3> QED BY <1>2, <1>3, <2>3, <3>1 DEF SellFields, Shape, RowStatuses
    <2> QED BY <2>1, <2>2, <2>3
  <1> QED BY <1>1, <1>3, <1>4, <1>5

\* ... and keeps the invariant.
LEMMA SyncOpenStep ==
    ASSUME KInv, SyncOpenClose
    PROVE  KInv'
  <1>1. /\ run.pc = "sync" /\ UNCHANGED <<runs, closed, book>>
        /\ run.cur[1] \in Symbols /\ row[run.cur] \in OpenStatuses
        /\ row' \in [Ids -> RowStatuses] /\ row'[run.cur] = run.found
        /\ \A j \in Ids : j # run.cur => row'[j] = row[j]
        /\ SellFields /\ run'.sells \subseteq run.sells
        /\ \/ run'.pc = "sell" /\ run.found \in OpenStatuses /\ ~run'.sold
           \/ run'.pc = "sell" /\ run.found \in FinalStatuses
           \/ run'.pc = "insert" /\ run'.cur = <<run.cur[1], runs>> /\ run.found \in FinalStatuses
    BY SyncOpenEffect
  <1>2. /\ runs \in 1 .. MaxRuns /\ closed = FALSE
        /\ \A t \in Symbols : <<t, runs>> \in Ids
        /\ \A t \in Symbols : row[<<t, runs>>] \in OpenStatuses => ~run.sold
        /\ book \in [Ids -> BookStatuses]
    BY <1>1, SellTypes DEF Selling, OwnSell
  <1>3. SellFrameHyp
    BY <1>1, <1>2 DEF SellFrameHyp, Selling, SellFields
  <1>4. CurInv'
    BY <1>1, <1>2 DEF CurInv, OwnSell
  <1>5. SoldInv'
    <2> SUFFICES ASSUME NEW t \in Symbols, row'[<<t, runs>>] \in OpenStatuses PROVE ~run'.sold
      BY <1>1 DEF SoldInv
    <2>1. CASE <<t, runs>> = run.cur
      BY <1>1, <2>1 DEF FinalStatuses, OpenStatuses
    <2>2. CASE <<t, runs>> # run.cur
      BY <1>1, <1>2, <2>2 DEF SellFields
    <2> QED BY <2>1, <2>2
  <1> QED BY <1>3, <1>4, <1>5, SellStep

\* The row of a new close order ...
LEMMA InsertEffect ==
    ASSUME KInv, InsertSell
    PROVE  \E s \in Symbols :
             /\ run.pc = "insert" /\ UNCHANGED <<runs, closed, book, held, late>> /\ run.cur = <<s, runs>>
             /\ row' = [row EXCEPT ![<<s, runs>>] = "NEW"] /\ qty' = [qty EXCEPT ![<<s, runs>>] = run.free[s]]
             /\ SellFields /\ run'.sells = run.sells /\ run'.pc = "place" /\ run'.cur = <<s, runs>>
             /\ run'.sold = run.sold
  <1>1. /\ run.pc = "insert" /\ UNCHANGED <<runs, closed, book, held, late>>
        /\ row' = [row EXCEPT ![run.cur] = "NEW"] /\ qty' = [qty EXCEPT ![run.cur] = run.free[run.cur[1]]]
        /\ run' = [run EXCEPT !.pc = "place"]
    BY DEF InsertSell, At, exchVars, SetRow, Goto
  <1>2. Shape(run)
    BY DEF KInv, KillTypes
  <1>3. PICK s \in Symbols : run.cur = <<s, runs>>
    BY <1>1 DEF KInv, CurInv, OwnSell
  <1>4. /\ row' = [row EXCEPT ![<<s, runs>>] = "NEW"] /\ qty' = [qty EXCEPT ![<<s, runs>>] = run.free[s]]
    BY <1>1, <1>3
  <1>5. /\ SellFields /\ run'.sells = run.sells /\ run'.pc = "place" /\ run'.cur = <<s, runs>>
        /\ run'.sold = run.sold
    BY <1>1, <1>2, <1>3 DEF SellFields, Shape
  <1> QED BY <1>1, <1>3, <1>4, <1>5

\* ... keeps the invariant.
LEMMA InsertStep ==
    ASSUME KInv, InsertSell
    PROVE  KInv'
  <1>1. PICK s \in Symbols :
          /\ run.pc = "insert" /\ UNCHANGED <<runs, closed, book>>
          /\ row' = [row EXCEPT ![<<s, runs>>] = "NEW"]
          /\ SellFields /\ run'.sells \subseteq run.sells /\ run'.pc = "place" /\ run'.cur = <<s, runs>>
    BY InsertEffect
  <1>2. /\ runs \in 1 .. MaxRuns /\ closed = FALSE
        /\ \A t \in Symbols : <<t, runs>> \in Ids
        /\ \A t \in Symbols : row[<<t, runs>>] \in OpenStatuses => ~run.sold
        /\ row \in [Ids -> RowStatuses] /\ book \in [Ids -> BookStatuses]
    BY <1>1, SellTypes DEF Selling, OwnSell
  <1>3. row' \in [Ids -> RowStatuses] /\ \A j \in Ids : j # <<s, runs>> => row'[j] = row[j]
    BY <1>1, <1>2 DEF RowStatuses, OpenStatuses
  <1>4. SellFrameHyp
    BY <1>1, <1>2, <1>3 DEF SellFrameHyp, Selling, SellFields
  <1>5. CurInv' /\ SoldInv'
    BY <1>1, <1>2, <1>3 DEF CurInv, SoldInv, OwnSell, SellFields
  <1> QED BY <1>4, <1>5, SellStep

\* The request of a close order, its timeout and the query that follows ...
LEMMA AwaitEffect ==
    ASSUME KInv, SendSell \/ SellTimeout \/ QueryTimedOut
    PROVE  \E s \in Symbols :
             /\ run.pc \in {"place", "await", "timeout"} /\ UNCHANGED <<runs, closed, row, held, late, qty>>
             /\ run.cur = <<s, runs>>
             /\ SellFields /\ run'.sells = run.sells /\ run'.cur = <<s, runs>> /\ run'.sold = run.sold
             /\ \/ run'.pc = "await" /\ book' = [book EXCEPT ![<<s, runs>>] = "inflight"]
                \/ run'.pc = "timeout" /\ UNCHANGED book
                \/ run'.pc = "settle" /\ run'.found \in Answers(<<s, runs>>) /\ UNCHANGED book
  <1>1. run.pc \in {"place", "await", "timeout"} /\ UNCHANGED <<runs, closed, row, held, late, qty>>
    BY DEF SendSell, SellTimeout, QueryTimedOut, At, exchVars
  <1>2. Shape(run)
    BY DEF KInv, KillTypes
  <1>3. PICK s \in Symbols : run.cur = <<s, runs>>
    BY <1>1 DEF KInv, CurInv, OwnSell
  <1> USE DEF SellFields, Shape
  <1>4. CASE SendSell
    <2>1. run' = [run EXCEPT !.pc = "await"] /\ book' = [book EXCEPT ![<<s, runs>>] = "inflight"]
      BY <1>3, <1>4 DEF SendSell, Goto
    <2> QED BY <1>1, <1>2, <1>3, <2>1
  <1>5. CASE SellTimeout
    <2>1. run' = [run EXCEPT !.pc = "timeout"] /\ UNCHANGED book
      BY <1>5 DEF SellTimeout, Goto, exchVars
    <2> QED BY <1>1, <1>2, <1>3, <2>1
  <1>6. CASE QueryTimedOut
    <2>1. PICK a \in Answers(<<s, runs>>) : run' = [run EXCEPT !.pc = "settle", !.found = a]
      BY <1>3, <1>6 DEF QueryTimedOut
    <2>2. UNCHANGED book
      BY <1>6 DEF QueryTimedOut, exchVars
    <2> QED BY <1>1, <1>2, <1>3, <2>1, <2>2
  <1> QED BY <1>4, <1>5, <1>6

\* ... keep the invariant.
LEMMA AwaitStep ==
    ASSUME KInv, SendSell \/ SellTimeout \/ QueryTimedOut
    PROVE  KInv'
  <1>1. PICK s \in Symbols :
          /\ run.pc \in {"place", "await", "timeout"} /\ UNCHANGED <<runs, closed, row>>
          /\ run.cur = <<s, runs>>
          /\ SellFields /\ run'.sells \subseteq run.sells /\ run'.cur = <<s, runs>>
          /\ \/ run'.pc = "await" /\ book' = [book EXCEPT ![<<s, runs>>] = "inflight"]
             \/ run'.pc = "timeout" /\ UNCHANGED book
             \/ run'.pc = "settle" /\ run'.found \in Answers(<<s, runs>>) /\ UNCHANGED book
    BY AwaitEffect
  <1>2. /\ runs \in 1 .. MaxRuns /\ closed = FALSE
        /\ <<s, runs>> \in Ids
        /\ row \in [Ids -> RowStatuses] /\ book \in [Ids -> BookStatuses]
    BY <1>1, SellTypes DEF Selling
  <1>3. Answers(<<s, runs>>) \subseteq RowStatuses
    BY <1>2, AnswersTyped DEF KInv
  <1>4. book' \in [Ids -> BookStatuses] /\ \A j \in Ids : j # <<s, runs>> => book'[j] = book[j]
    BY <1>1, <1>2 DEF BookStatuses
  <1>5. SellFrameHyp
    BY <1>1, <1>2, <1>4 DEF SellFrameHyp, Selling, SellFields
  <1>6. CurInv'
    BY <1>1, <1>2, <1>3 DEF CurInv, OwnSell
  <1>7. SoldInv'
    BY <1>1 DEF KInv, SoldInv, OwnSell, Selling, SellFields
  <1> QED BY <1>5, <1>6, <1>7, SellStep

\* The outcome of a close order ...
LEMMA OutcomeEffect ==
    ASSUME KInv, SellAnswered \/ SettleSell
    PROVE  \E s \in Symbols, status \in RowStatuses \ {"none"} :
             /\ run.pc \in {"await", "settle"} /\ UNCHANGED <<runs, closed, held, late, qty>>
             /\ run.cur = <<s, runs>>
             /\ row' = [row EXCEPT ![<<s, runs>>] = status]
             /\ SellFields /\ run'.sells = run.sells /\ run'.pc = "sell"
             /\ status # "FILLED" => ~run'.sold
             /\ \/ run.pc = "await" /\ status = "UNKNOWN" /\ book[<<s, runs>>] = "inflight"
                   /\ book' = [book EXCEPT ![<<s, runs>>] = "absent"]
                \/ run.pc = "await" /\ status \in {"NEW", book[<<s, runs>>]} /\ UNCHANGED book
                \/ run.pc = "settle" /\ status \in {"UNKNOWN", run.found} /\ UNCHANGED book
  <1>1. run.pc \in {"await", "settle"} /\ UNCHANGED <<runs, closed, held, late, qty>>
    BY DEF SellAnswered, SettleSell, At, exchVars
  <1>2. Shape(run) /\ book \in [Ids -> BookStatuses]
    BY DEF KInv, KillTypes
  <1>3. PICK s \in Symbols : run.cur = <<s, runs>>
    BY <1>1 DEF KInv, CurInv, OwnSell
  <1>4. <<s, runs>> \in Ids
    BY <1>1, SellTypes DEF Selling
  <1>5. ASSUME NEW status, SellOutcome(status)
        PROVE  /\ row' = [row EXCEPT ![<<s, runs>>] = status]
               /\ SellFields /\ run'.sells = run.sells /\ run'.pc = "sell"
               /\ status # "FILLED" => ~run'.sold
    <2>1. /\ row' = [row EXCEPT ![<<s, runs>>] = status]
          /\ run' = [run EXCEPT !.pc = "sell", !.sold = @ /\ status = "FILLED"]
      BY <1>3, <1>5 DEF SellOutcome, SetRow
    <2> QED BY <1>2, <2>1 DEF SellFields, Shape
  <1>6. CASE SellAnswered
    <2>0. run.pc = "await" /\ book[<<s, runs>>] \in BookStatuses
      BY <1>2, <1>4, <1>6 DEF SellAnswered, At
    <2>1. CASE SellOutcome("UNKNOWN") /\ book[run.cur] = "inflight" /\ book' = [book EXCEPT ![run.cur] = "absent"]
      <3>1. "UNKNOWN" \in RowStatuses \ {"none"}
        BY DEF RowStatuses, OpenStatuses
      <3> QED BY <1>1, <1>3, <1>5, <2>0, <2>1, <3>1
    <2>2. ASSUME NEW status \in {book[run.cur], "NEW"}, SellOutcome(status), UNCHANGED book,
                 book[run.cur] \notin {"inflight", "absent"}
          PROVE  /\ status \in RowStatuses \ {"none"}
                 /\ run.pc = "await" /\ status \in {"NEW", book[<<s, runs>>]} /\ UNCHANGED book
      BY <1>3, <2>0, <2>2 DEF RowStatuses, OpenStatuses, FinalStatuses, BookStatuses
    <2>3. CASE \E status \in {book[run.cur], "NEW"} :
                 SellOutcome(status) /\ UNCHANGED book /\ book[run.cur] \notin {"inflight", "absent"}
      BY <1>1, <1>3, <1>5, <2>2, <2>3
    <2> QED BY <1>6, <2>1, <2>3 DEF SellAnswered
  <1>7. CASE SettleSell
    <2>0. run.pc = "settle" /\ run.found \in RowStatuses /\ UNCHANGED book
      BY <1>7 DEF SettleSell, At, KInv, CurInv, exchVars
    <2>1. PICK status \in RowStatuses \ {"none"} : SellOutcome(status) /\ status \in {"UNKNOWN", run.found}
      BY <1>7, <2>0 DEF SettleSell, RowStatuses, OpenStatuses
    <2> QED BY <1>1, <1>3, <1>5, <2>0, <2>1
  <1> QED BY <1>6, <1>7

\* ... keeps the invariant.
LEMMA OutcomeStep ==
    ASSUME KInv, SellAnswered \/ SettleSell
    PROVE  KInv'
  <1>1. PICK s \in Symbols, status \in RowStatuses \ {"none"} :
          /\ run.pc \in {"await", "settle"} /\ UNCHANGED <<runs, closed>>
          /\ run.cur = <<s, runs>>
          /\ row' = [row EXCEPT ![<<s, runs>>] = status]
          /\ SellFields /\ run'.sells \subseteq run.sells /\ run'.pc = "sell"
          /\ status # "FILLED" => ~run'.sold
          /\ UNCHANGED book \/ book' = [book EXCEPT ![<<s, runs>>] = "absent"]
    BY OutcomeEffect
  <1>2. /\ runs \in 1 .. MaxRuns /\ closed = FALSE
        /\ \A t \in Symbols : <<t, runs>> \in Ids
        /\ row \in [Ids -> RowStatuses] /\ book \in [Ids -> BookStatuses]
    BY <1>1, SellTypes DEF Selling
  <1>4. book' \in [Ids -> BookStatuses] /\ \A j \in Ids : j # <<s, runs>> => book'[j] = book[j]
    BY <1>1, <1>2 DEF BookStatuses
  <1>8. /\ row' \in [Ids -> RowStatuses] /\ row'[<<s, runs>>] = status
        /\ \A j \in Ids : j # <<s, runs>> => row'[j] = row[j]
    BY <1>1, <1>2
  <1>9. SellFrameHyp
    BY <1>1, <1>2, <1>4, <1>8 DEF SellFrameHyp, Selling, SellFields
  <1>10. CurInv'
    BY <1>1, <1>2 DEF CurInv, OwnSell
  <1>11. SoldInv'
    <2> SUFFICES ASSUME NEW t \in Symbols, row'[<<t, runs>>] \in OpenStatuses PROVE ~run'.sold
      BY <1>1 DEF SoldInv
    <2>1. CASE t = s
      BY <1>1, <1>8, <2>1 DEF OpenStatuses
    <2>2. CASE t # s
      <3>1. <<t, runs>> # <<s, runs>> /\ row'[<<t, runs>>] = row[<<t, runs>>]
        BY <1>2, <1>8, <2>2
      <3>2. ~run.sold
        BY <1>1, <3>1 DEF KInv, SoldInv, Selling
      <3> QED BY <1>1, <3>2 DEF SellFields
    <2> QED BY <2>1, <2>2
  <1> QED BY <1>9, <1>10, <1>11, SellStep

-----------------------------------------------------------------------------
(* The theorems *)

\* The invariant holds before the first run.
LEMMA KillInit == Init => KInv
  <1> SUFFICES ASSUME Init PROVE KInv
    OBVIOUS
  <1>1. /\ run.pc = "idle" /\ Shape(run) /\ run.open = {} /\ run.live = {} /\ run.sells = {}
        /\ runs = 0 /\ row = [i \in Ids |-> "none"] /\ book = [i \in Ids |-> "absent"]
    BY IdleShape DEF Init
  <1>2. KillTypes
    BY <1>1, BoundAssumption DEF KillTypes, PCs, RowStatuses, BookStatuses
  <1>3. FreshInv
    BY <1>1, SellIds DEF FreshInv
  <1>4. CurInv /\ TodoInv /\ LiveInv /\ OpenInv /\ SoldInv
    BY <1>1 DEF CurInv, TodoInv, LiveInv, OpenInv, SoldInv, Cancels, Selling, OwnSell
  <1> QED BY <1>2, <1>3, <1>4 DEF KInv

\* Every step of a run keeps it.
LEMMA RunStepKeeps ==
    ASSUME KInv, RunStep
    PROVE  KInv'
  <1>1. CASE \E i \in Ids : CancelLocal(i) \/ \E own \in BOOLEAN : CancelOne(i, own)
    BY <1>1, CancelLocalStep, CancelOneStep
  <1>2. CASE \E s \in Symbols : BulkCancel(s) \/ NextSell(s)
    BY <1>2, BulkCancelStep, NextSellStep
  <1>3. CASE FinishLocal \/ FinishRun
    BY <1>3, EndStep
  <1>4. CASE ReadExchange
    BY <1>4, EndStep, ReadExchangeStep
  <1>5. CASE VerifyGone \/ WriteRow
    BY <1>5, VerifyStep, WriteStep
  <1>6. CASE ReadBalance
    BY <1>6, EndStep, ReadBalanceStep
  <1>7. CASE QueryOpenClose \/ SyncOpenClose \/ InsertSell
    BY <1>7, QueryOpenStep, SyncOpenStep, InsertStep
  <1>8. CASE SendSell \/ SellTimeout \/ QueryTimedOut \/ SellAnswered \/ SettleSell
    BY <1>8, AwaitStep, OutcomeStep
  <1> QED BY <1>1, <1>2, <1>3, <1>4, <1>5, <1>6, <1>7, <1>8 DEF RunStep

\* So does every other step.
LEMMA KillStep ==
    ASSUME KInv, [Next]_vars
    PROVE  KInv'
  <1>0. KillTypes
    BY DEF KInv
  <1>1. CASE CloseOne \/ RunStep \/ Restart
    BY <1>1, CloseOneStep, RunStepKeeps, RestartStep
  <1>2. CASE FlipTradingLock
    <2>1. UNCHANGED <<row, run, runs, closed, book>>
      BY <1>2 DEF FlipTradingLock, exchVars
    <2> QED BY <1>0, <2>1, ExchangeMoves, BookFrame
  <1>3. ASSUME NEW o \in Orders, RequestDone(o) PROVE KInv'
    BY <1>3, RequestStep
  <1>4. ASSUME NEW o \in Orders, ForeignOrder(o) PROVE KInv'
    <2>1. UNCHANGED <<row, run, runs, closed>>
      BY <1>4 DEF ForeignOrder
    <2> QED BY <1>0, <1>4, <2>1, ExchangeMoves, BookFrame
  <1>5. ASSUME NEW i \in Ids, Arrive(i) \/ Progress(i) PROVE KInv'
    <2>1. UNCHANGED <<row, run, runs, closed>>
      BY <1>5 DEF Arrive, Progress
    <2> QED BY <1>0, <1>5, <2>1, ExchangeMoves, BookFrame
  <1>6. CASE UNCHANGED vars
    <2>1. UNCHANGED <<row, run, runs, closed, book>>
      BY <1>6 DEF vars
    <2> QED BY <1>0, <2>1, ExchangeMoves, BookFrame
  <1> QED BY <1>1, <1>2, <1>3, <1>4, <1>5, <1>6 DEF Next

\* The inductive invariant of the kill switch: what a run knows of the order at hand, and
\* that every listed order and open row is settled, still a target, or an error
\* (close_all_positions, _close_one).
THEOREM KillInvariant == Spec => []KInv
  <1>1. KInv /\ [Next]_vars => KInv'
    BY KillStep
  <1> QED BY <1>1, KillInit, PTL DEF Spec

\* No sell goes out before every order of the account had its cancellation attempted and
\* every failure was noted in cancel_errors (_close_one).
THEOREM SellsWait == Spec => []SellsAfterCancels
  <1>1. KInv => SellsAfterCancels
    <2> SUFFICES ASSUME KInv, run.pc = "place", NEW i \in run.live, i \in Live PROVE run.errors
      BY DEF SellsAfterCancels, At
    <2> QED BY DEF KInv, LiveInv, TodoInv, Live, Selling
  <1> QED BY <1>1, KillInvariant, PTL

\* A run that reports closed = TRUE is at its end, has sold everything it tried to, and has no
\* errors.
LEMMA ReportsWhole ==
    ASSUME KInv, [Next]_vars, Reported
    PROVE  run.pc = "sell" /\ ~run.errors /\ run.sold
  <1>1. run.pc # "idle" /\ run'.pc = "idle" /\ closed' /\ ~closed
    BY DEF Reported, KInv, CurInv
  <1>2. Shape(run)
    BY DEF KInv, KillTypes
  <1>3. closed' # closed
    BY <1>1
  <1>4. RunStep
    BY <1>1, <1>3 DEF Next, CloseOne, At, FlipTradingLock, Restart, RequestDone, ForeignOrder, Arrive, Progress, vars
  <1>5. FinishRun
    BY <1>1, <1>3, <1>4 DEF RunStep, CancelLocal, CancelOne, BulkCancel, NextSell, FinishLocal, ReadExchange,
       VerifyGone, WriteRow, ReadBalance, QueryOpenClose, SyncOpenClose, InsertSell, SendSell, SellAnswered,
       SellTimeout, QueryTimedOut, SettleSell, Report
  <1> QED BY <1>1, <1>5 DEF FinishRun, At, Report

\* closed = TRUE is never reported over an order that the run saw live and that still is (T01).
THEOREM NothingLeftLive == Spec => ClosedLeavesNoneLive
  <1>1. KInv /\ [Next]_vars => [Reported => run.live \cap Live = {}]_vars
    <2> SUFFICES ASSUME KInv, [Next]_vars, Reported, NEW i \in run.live, i \in Live PROVE FALSE
      OBVIOUS
    <2>1. run.pc = "sell" /\ ~run.errors
      BY ReportsWhole
    <2> QED BY <2>1 DEF KInv, LiveInv, TodoInv, Live, Selling
  <1> QED BY <1>1, KillInvariant, PTL DEF Spec, ClosedLeavesNoneLive

\* closed = TRUE is never reported while a row the run found open, or the close order it placed,
\* is in doubt.
THEOREM NothingLeftOpen == Spec => ClosedLeavesNoneOpen
  <1>1. KInv /\ [Next]_vars =>
           [Reported => /\ \A i \in run.open : row[i] \in FinalStatuses
                        /\ \A s \in Symbols : row[<<s, runs>>] \notin OpenStatuses]_vars
    <2> SUFFICES ASSUME KInv, [Next]_vars, Reported
                 PROVE  /\ \A i \in run.open : row[i] \in FinalStatuses
                        /\ \A s \in Symbols : row[<<s, runs>>] \notin OpenStatuses
      OBVIOUS
    <2>1. run.pc = "sell" /\ ~run.errors /\ run.sold
      BY ReportsWhole
    <2>2. \A i \in run.open : row[i] \in FinalStatuses
      BY <2>1 DEF KInv, OpenInv, TodoInv, Selling
    <2>3. \A s \in Symbols : row[<<s, runs>>] \notin OpenStatuses
      BY <2>1 DEF KInv, SoldInv, Selling, OwnSell
    <2> QED BY <2>2, <2>3
  <1> QED BY <1>1, KillInvariant, PTL DEF Spec, ClosedLeavesNoneOpen

-----------------------------------------------------------------------------
(* What is sold *)

UnitTypes ==
    /\ held \in [Symbols -> Int] /\ late \in [Symbols -> Int]
    /\ qty \in [Sells -> Nat]

\* The run has yet to sell s.
Ahead(s) == s \in run.sells \/ (run.pc \in {"query", "sync", "insert"} /\ run.cur[1] = s)

\* What is left of s is what was not free or came later, and the close order of this run
\* carries the rest until it is filled.
SaleOf(s) ==
    /\ held[s] <= late[s] + run.free[s]
    /\ Ahead(s) => run.free[s] \in Nat /\ row[<<s, runs>>] = "none"
    /\ row[<<s, runs>>] = "none" => book[<<s, runs>>] = "absent"
    /\ row[<<s, runs>>] # "none" => qty[<<s, runs>>] = run.free[s]
    /\ book[<<s, runs>>] = "FILLED" => held[s] <= late[s]
    /\ row[<<s, runs>>] = "FILLED" => book[<<s, runs>>] = "FILLED"
    /\ row[<<s, runs>>] \notin {"none", "FILLED"} =>
          ~run.sold \/ (run.pc \in OwnSell \ {"insert"} /\ run.cur = <<s, runs>>)

SaleInv == run.pc \in Selling => run.free \in [Symbols -> Int] /\ \A s \in Symbols : SaleOf(s)

\* The close order at hand.
HandInv ==
    /\ run.pc \in {"query", "sync", "insert"} => run.cur[1] \notin run.sells
    /\ run.pc \in OwnSell \ {"insert"} => row[run.cur] = "NEW"
    /\ run.pc = "settle" /\ run.found = "FILLED" => book[run.cur] = "FILLED"

SInv == UnitTypes /\ SaleInv /\ HandInv

\* An order stands for a number of units, and what a symbol has free is a number.
LEMMA UnitsCount ==
    ASSUME UnitTypes
    PROVE  /\ \A i \in Ids : Units[i] \in Nat /\ Symbol(i) \in Symbols
           /\ \A i \in Sells : Units[i] = qty[i] /\ Symbol(i) = i[1] /\ i \notin Orders
           /\ \A s \in Symbols : FreeUnits(s) \in Int
  <1>1. \A i \in Ids : Units[i] \in Nat /\ Symbol(i) \in Symbols
    BY OrderAssumption DEF Units, UnitTypes, Symbol, Ids, Sells
  <1>2. \A i \in Sells : Units[i] = qty[i] /\ Symbol(i) = i[1] /\ i \notin Orders
    BY IdAssumption DEF Units, Symbol, Ids
  <1>3. IsFiniteSet(Ids)
    <2>1. IsFiniteSet(1 .. MaxRuns)
      BY BoundAssumption, FS_Interval
    <2>2. IsFiniteSet(Sells)
      BY <2>1, OrderAssumption, FS_Product DEF Sells
    <2> QED BY <2>2, OrderAssumption, FS_Union DEF Ids
  <1>4. ASSUME NEW s \in Symbols PROVE FreeUnits(s) \in Int
    <2>1. Sold(s) \cap Live \subseteq Ids
      BY DEF Live
    <2>2. IsFiniteSet(Sold(s) \cap Live)
      BY <1>3, <2>1, FS_Subset
    <2>3. \A i \in Sold(s) \cap Live : Units[i] \in Int
      BY <1>1, <2>1
    <2>4. SumOver(Units, Sold(s) \cap Live) \in Int
      BY <2>2, <2>3, SumInt
    <2>5. FreeUnits(s) = held[s] - SumOver(Units, Sold(s) \cap Live)
      BY DEF FreeUnits, SumOver
    <2> QED BY <2>4, <2>5 DEF UnitTypes
  <1> QED BY <1>1, <1>2, <1>4

\* A trade: bought units come on top, sold ones are gone.
LEMMA TradeCounts ==
    ASSUME UnitTypes, NEW i \in Ids, Trade(i), UNCHANGED qty
    PROVE  /\ UnitTypes'
           /\ \A s \in Symbols : \A f \in Int : held[s] <= late[s] + f => held'[s] <= late'[s] + f
           /\ i \in Sells => /\ held'[i[1]] = held[i[1]] - qty[i]
                             /\ late'[i[1]] = late[i[1]]
  <1>1. Units[i] \in Nat /\ Symbol(i) \in Symbols
    BY UnitsCount
  <1>2. CASE i \in Orders \ Oco
    <2>1. /\ held' = [held EXCEPT ![Symbol(i)] = @ + 1]
          /\ late' = [late EXCEPT ![Symbol(i)] = @ + 1]
      BY <1>2 DEF Trade
    <2>2. i \notin Sells
      BY <1>2, IdAssumption
    <2> QED BY <1>1, <2>1, <2>2 DEF UnitTypes
  <1>3. CASE i \notin Orders \ Oco
    <2>1. /\ held' = [held EXCEPT ![Symbol(i)] = @ - Units[i]]
          /\ late' = [late EXCEPT ![Symbol(i)] = @]
      BY <1>3 DEF Trade
    <2>2. late' = late
      BY <2>1 DEF UnitTypes
    <2>3. i \in Sells => Units[i] = qty[i] /\ Symbol(i) = i[1]
      BY UnitsCount
    <2> QED BY <1>1, <2>1, <2>2, <2>3 DEF UnitTypes
  <1> QED BY <1>2, <1>3

\* Outside of the sells only the types matter.
LEMMA OutsideSale ==
    ASSUME SInv, run'.pc \notin Selling, UNCHANGED qty,
           UNCHANGED <<held, late>> \/ \E i \in Ids : Trade(i)
    PROVE  SInv'
  <1>1. UnitTypes'
    <2>1. CASE UNCHANGED <<held, late>>
      BY <2>1 DEF SInv, UnitTypes
    <2>2. CASE \E i \in Ids : Trade(i)
      BY <2>2, TradeCounts DEF SInv
    <2> QED BY <2>1, <2>2
  <1>2. SaleInv' /\ HandInv'
    BY DEF SaleInv, HandInv, Selling, OwnSell
  <1> QED BY <1>1, <1>2 DEF SInv

\* The balances are read.
LEMMA ReadBalanceSale ==
    ASSUME KInv, SInv, ReadBalance, run' # Idle
    PROVE  SInv'
  <1>1. /\ run.pc = "cancel" /\ UNCHANGED <<row, runs, book, held, qty>>
        /\ run' = [run EXCEPT !.pc = "sell",
                              !.free = [s \in Symbols |-> FreeUnits(s)],
                              !.sells = {s \in Symbols : FreeUnits(s) > 0}]
        /\ late' = [s \in Symbols |-> held[s] - FreeUnits(s)]
    BY DEF ReadBalance, At, Report
  <1>2. \A s \in Symbols : FreeUnits(s) \in Int
    BY UnitsCount DEF SInv
  <1>3. PICK free, sells : /\ free = [s \in Symbols |-> FreeUnits(s)]
                           /\ sells = {s \in Symbols : FreeUnits(s) > 0}
    OBVIOUS
  <1>4. run'.pc = "sell" /\ run'.free = free /\ run'.sells = sells
    <2>1. run' = [run EXCEPT !.pc = "sell", !.free = free, !.sells = sells]
      BY <1>1, <1>3
    <2> QED BY ONLY <2>1, KInv DEF KInv, KillTypes, Shape
  <1>5. /\ free \in [Symbols -> Int] /\ late' \in [Symbols -> Int]
        /\ \A s \in Symbols : /\ late'[s] = held[s] - free[s]
                              /\ s \in sells => free[s] \in Nat
    BY <1>1, <1>2, <1>3 DEF SInv, UnitTypes
  <1>6. UnitTypes'
    BY <1>1, <1>5 DEF SInv, UnitTypes
  <1>7. ASSUME NEW s \in Symbols PROVE SaleOf(s)'
    <2>1. row[<<s, runs>>] = "none" /\ book[<<s, runs>>] = "absent"
      BY <1>1 DEF KInv, FreshInv, CurInv, Before
    <2>2. held'[s] <= late'[s] + run'.free[s]
      BY <1>1, <1>4, <1>5 DEF SInv, UnitTypes
    <2> QED BY <1>1, <1>4, <1>5, <2>1, <2>2 DEF SaleOf, Ahead
  <1>8. HandInv'
    BY <1>4 DEF HandInv, OwnSell
  <1> QED BY <1>4, <1>5, <1>6, <1>7, <1>8 DEF SInv, SaleInv

\* The exchange fills a close order or another one, or does something else to it.
LEMMA ExchangeSale ==
    ASSUME KInv, SInv, UNCHANGED <<row, run, runs, qty>>,
           NEW i \in Ids, NEW b \in BookStatuses, book' = [book EXCEPT ![i] = b],
           book[i] \in {"inflight", "NEW"} \/ i \in Orders,
           IF b = "FILLED" THEN Trade(i) ELSE UNCHANGED <<held, late>>
    PROVE  SInv'
  <1>0. book \in [Ids -> BookStatuses] /\ UnitTypes
    BY DEF KInv, KillTypes, SInv
  <1>1. /\ UnitTypes'
        /\ \A s \in Symbols : \A f \in Int : held[s] <= late[s] + f => held'[s] <= late'[s] + f
        /\ i \in Sells /\ b = "FILLED" => held'[i[1]] = held[i[1]] - qty[i] /\ late'[i[1]] = late[i[1]]
    <2>1. CASE b = "FILLED"
      BY <1>0, <2>1, TradeCounts
    <2>2. CASE b # "FILLED"
      BY <1>0, <2>2 DEF UnitTypes
    <2> QED BY <2>1, <2>2
  <1>2. ASSUME run.pc \in Selling PROVE run.free \in [Symbols -> Int] /\ \A s \in Symbols : SaleOf(s)
    BY <1>2 DEF SInv, SaleInv
  <1>3. ASSUME run.pc \in Selling, NEW s \in Symbols PROVE SaleOf(s)'
    <2>1. <<s, runs>> \in Ids /\ <<s, runs>> \in Sells /\ <<s, runs>>[1] = s
      BY <1>3, SellTypes
    <2>2. run.free[s] \in Int /\ SaleOf(s) /\ held[s] \in Int /\ late[s] \in Int /\ held'[s] \in Int /\ late'[s] \in Int
      BY <1>0, <1>1, <1>2, <1>3 DEF UnitTypes
    <2>3. held'[s] <= late'[s] + run.free[s] /\ (held[s] <= late[s] => held'[s] <= late'[s])
      <3>1. held[s] <= late[s] + 0 => held'[s] <= late'[s] + 0
        BY <1>1
      <3> QED BY <1>1, <2>2, <3>1 DEF SaleOf
    <2>4. CASE i = <<s, runs>>
      <3>1. i \notin Orders /\ book[i] \in {"inflight", "NEW"}
        BY <2>1, <2>4, IdAssumption
      <3>2. row[i] \notin {"none", "FILLED"} /\ qty[i] = run.free[s]
        BY <2>2, <2>4, <3>1 DEF SaleOf
      <3>3. b = "FILLED" => held'[s] <= late'[s]
        <4>1. b = "FILLED" => held'[s] = held[s] - run.free[s] /\ late'[s] = late[s]
          BY <1>1, <2>1, <2>4, <3>2
        <4> QED BY <2>2, <4>1 DEF SaleOf
      <3> QED BY <1>0, <2>1, <2>2, <2>3, <2>4, <3>2, <3>3 DEF SaleOf, Ahead
    <2>5. CASE i # <<s, runs>>
      <3>1. book'[<<s, runs>>] = book[<<s, runs>>]
        BY <1>0, <2>1, <2>5
      <3> QED BY <2>2, <2>3, <3>1 DEF SaleOf, Ahead
    <2> QED BY <2>4, <2>5
  <1>4. HandInv'
    <2>1. ASSUME run.pc = "settle", run.found = "FILLED" PROVE book'[run.cur] = "FILLED"
      <3>1. PICK s \in Symbols : run.cur = <<s, runs>>
        BY <2>1 DEF KInv, CurInv, OwnSell
      <3>2. run.cur \in Ids /\ run.cur \notin Orders /\ book[run.cur] = "FILLED"
        BY <2>1, <3>1, SellTypes, IdAssumption DEF SInv, HandInv, Selling
      <3> QED BY <1>0, <3>2
    <2> QED BY <2>1 DEF SInv, HandInv
  <1> QED BY <1>1, <1>2, <1>3, <1>4 DEF SInv, SaleInv

\* No order changes.
LEMMA StillSale ==
    ASSUME SInv, UNCHANGED <<row, run, runs, qty, book, held, late>>
    PROVE  SInv'
  BY DEF SInv, UnitTypes, SaleInv, SaleOf, HandInv, Ahead

\* The next balance, the query for an open close order and the sync of its row leave the close
\* orders of this run alone.
LEMMA OpenCloseSale ==
    ASSUME KInv, SInv, (\E s \in Symbols : NextSell(s)) \/ QueryOpenClose \/ SyncOpenClose
    PROVE  SInv'
  <1>1. /\ run.pc \in {"sell", "query", "sync"} /\ run'.pc \in Selling
        /\ UNCHANGED <<runs, book, held, late, qty>> /\ SellFields
        /\ run'.pc \notin OwnSell \ {"insert"}
    BY NextSellEffect, QueryOpenEffect, SyncOpenEffect DEF Selling, OwnSell
  <1>2. /\ \A s \in Symbols : <<s, runs>> \in Ids
        /\ run.free \in [Symbols -> Int] /\ \A s \in Symbols : SaleOf(s)
    BY <1>1, SellTypes DEF Selling, SInv, SaleInv
  <1>3. \A s \in Symbols : Ahead(s)' => Ahead(s)
    BY NextSellEffect, QueryOpenEffect, SyncOpenEffect DEF Ahead
  <1>4. \A s \in Symbols : row'[<<s, runs>>] = row[<<s, runs>>]
    <2>1. CASE ~SyncOpenClose
      BY <2>1, NextSellEffect, QueryOpenEffect
    <2>2. CASE SyncOpenClose
      <3>1. /\ run.pc = "sync" /\ run.cur \in Sells /\ row[run.cur] \in OpenStatuses
            /\ \A j \in Ids : j # run.cur => row'[j] = row[j]
        BY <2>2, SyncOpenEffect
      <3>2. ASSUME NEW s \in Symbols PROVE <<s, runs>> # run.cur
        <4>1. SUFFICES ASSUME <<s, runs>> = run.cur PROVE FALSE
          OBVIOUS
        <4>2. Ahead(s)
          BY <3>1, <4>1 DEF Ahead
        <4>3. row[run.cur] = "none"
          BY <1>2, <4>1, <4>2 DEF SaleOf
        <4> QED BY <3>1, <4>3 DEF OpenStatuses
      <3> QED BY <1>2, <3>1, <3>2
    <2> QED BY <2>1, <2>2
  <1>5. ASSUME NEW s \in Symbols PROVE SaleOf(s)'
    <2>1. SaleOf(s) /\ run'.free = run.free /\ (~run.sold => ~run'.sold) /\ run.pc \notin OwnSell \ {"insert"}
      BY <1>1, <1>2 DEF SellFields, OwnSell
    <2> QED BY <1>1, <1>3, <1>4, <2>1 DEF SaleOf
  <1>6. HandInv'
    <2>1. run'.pc \in {"query", "sync", "insert"} => run'.cur[1] \notin run'.sells
      <3>1. ASSUME NEW s \in Symbols, NextSell(s), run'.pc \in {"query", "insert"} PROVE run'.cur[1] \notin run'.sells
        BY <3>1, NextSellEffect
      <3>2. CASE QueryOpenClose
        <4>1. run.cur[1] \notin run.sells
          BY <3>2, QueryOpenEffect DEF SInv, HandInv
        <4> QED BY <3>2, <4>1, QueryOpenEffect
      <3>3. CASE SyncOpenClose
        <4>1. run.cur[1] \notin run.sells
          BY <3>3, SyncOpenEffect DEF SInv, HandInv
        <4> QED BY <3>3, <4>1, SyncOpenEffect
      <3> QED BY <3>1, <3>2, <3>3, NextSellEffect
    <2> QED BY <1>1, <2>1 DEF HandInv, OwnSell
  <1> QED BY <1>1, <1>2, <1>5, <1>6 DEF SInv, SaleInv, UnitTypes, SellFields

\* The close order of this run carries all that was free.
LEMMA InsertSale ==
    ASSUME KInv, SInv, InsertSell
    PROVE  SInv'
  <1>1. PICK s \in Symbols :
             /\ run.pc = "insert" /\ UNCHANGED <<runs, book, held, late>> /\ run.cur = <<s, runs>>
             /\ row' = [row EXCEPT ![<<s, runs>>] = "NEW"] /\ qty' = [qty EXCEPT ![<<s, runs>>] = run.free[s]]
             /\ SellFields /\ run'.sells = run.sells /\ run'.pc = "place" /\ run'.cur = <<s, runs>>
             /\ run'.sold = run.sold
    BY InsertEffect
  <1>2. /\ \A t \in Symbols : <<t, runs>> \in Ids /\ <<t, runs>> \in Sells
        /\ row \in [Ids -> RowStatuses]
        /\ run.free \in [Symbols -> Int] /\ \A t \in Symbols : SaleOf(t)
        /\ run'.free = run.free
    BY <1>1, SellTypes DEF Selling, SInv, SaleInv, SellFields
  <1>3. Ahead(s) /\ s \notin run.sells
    BY <1>1 DEF Ahead, SInv, HandInv
  <1>4. run.free[s] \in Nat /\ book[<<s, runs>>] = "absent"
    BY <1>2, <1>3 DEF SaleOf
  <1>5. UnitTypes' /\ \A t \in Symbols : t # s => qty'[<<t, runs>>] = qty[<<t, runs>>]
    BY <1>1, <1>2, <1>4 DEF SInv, UnitTypes
  <1>6. row'[<<s, runs>>] = "NEW" /\ \A t \in Symbols : t # s => row'[<<t, runs>>] = row[<<t, runs>>]
    BY <1>1, <1>2
  <1>7. SaleOf(s)'
    <2>1. qty'[<<s, runs>>] = run.free[s]
      BY <1>1, <1>2 DEF SInv, UnitTypes
    <2>2. ~Ahead(s)'
      BY <1>1, <1>3 DEF Ahead
    <2> QED BY <1>1, <1>2, <1>4, <1>6, <2>1, <2>2 DEF SaleOf, OwnSell
  <1>8. ASSUME NEW t \in Symbols, t # s PROVE SaleOf(t)'
    <2>1. SaleOf(t) /\ (Ahead(t)' => Ahead(t)) /\ run.pc \notin OwnSell \ {"insert"}
      BY <1>1, <1>2 DEF Ahead, OwnSell
    <2> QED BY <1>1, <1>2, <1>5, <1>6, <1>8, <2>1 DEF SaleOf
  <1>9. HandInv'
    BY <1>1, <1>6 DEF HandInv
  <1> QED BY <1>1, <1>2, <1>5, <1>7, <1>8, <1>9 DEF SInv, SaleInv

\* The request, its timeout and the query that follows.
LEMMA AwaitSale ==
    ASSUME KInv, SInv, SendSell \/ SellTimeout \/ QueryTimedOut
    PROVE  SInv'
  <1>1. PICK s \in Symbols :
             /\ run.pc \in {"place", "await", "timeout"} /\ UNCHANGED <<runs, row, held, late, qty>>
             /\ run.cur = <<s, runs>>
             /\ SellFields /\ run'.sells = run.sells /\ run'.cur = <<s, runs>> /\ run'.sold = run.sold
             /\ \/ run'.pc = "await" /\ book' = [book EXCEPT ![<<s, runs>>] = "inflight"]
                \/ run'.pc = "timeout" /\ UNCHANGED book
                \/ run'.pc = "settle" /\ run'.found \in Answers(<<s, runs>>) /\ UNCHANGED book
    BY AwaitEffect
  <1>2. /\ \A t \in Symbols : <<t, runs>> \in Ids /\ <<t, runs>> \in Sells
        /\ book \in [Ids -> BookStatuses]
        /\ run.free \in [Symbols -> Int] /\ \A t \in Symbols : SaleOf(t)
        /\ run'.free = run.free
    BY <1>1, SellTypes DEF Selling, SInv, SaleInv, SellFields
  <1>3. row[<<s, runs>>] = "NEW"
    BY <1>1 DEF SInv, HandInv, OwnSell
  <1>4. \A t \in Symbols : \/ book'[<<t, runs>>] = book[<<t, runs>>]
                           \/ t = s /\ book'[<<t, runs>>] = "inflight"
    BY <1>1, <1>2
  <1>5. ASSUME NEW t \in Symbols PROVE SaleOf(t)'
    <2>1. SaleOf(t) /\ (Ahead(t)' => Ahead(t))
      BY <1>1, <1>2 DEF Ahead
    <2>2. run'.pc \in OwnSell \ {"insert"} /\ run'.cur = run.cur
      BY <1>1 DEF OwnSell
    <2> QED BY <1>1, <1>2, <1>3, <1>4, <2>1, <2>2 DEF SaleOf
  <1>6. HandInv'
    <2>1. ASSUME run'.pc = "settle", run'.found = "FILLED" PROVE book'[run'.cur] = "FILLED"
      <3>1. "FILLED" \in Answers(<<s, runs>>) /\ UNCHANGED book
        BY <1>1, <2>1
      <3>2. <<s, runs>> \notin Oco
        BY <1>2, IdAssumption, OrderAssumption
      <3>3. book[<<s, runs>>] = "FILLED"
        BY <3>1, <3>2 DEF Answers, QueryStatus
      <3> QED BY <1>1, <3>1, <3>3
    <2> QED BY <1>1, <1>3, <2>1 DEF HandInv
  <1> QED BY <1>1, <1>2, <1>5, <1>6 DEF SInv, SaleInv, UnitTypes

\* The outcome: a close order that the run takes for filled is filled.
LEMMA OutcomeSale ==
    ASSUME KInv, SInv, SellAnswered \/ SettleSell
    PROVE  SInv'
  <1>1. PICK s \in Symbols, status \in RowStatuses \ {"none"} :
             /\ run.pc \in {"await", "settle"} /\ UNCHANGED <<runs, held, late, qty>>
             /\ run.cur = <<s, runs>>
             /\ row' = [row EXCEPT ![<<s, runs>>] = status]
             /\ SellFields /\ run'.sells = run.sells /\ run'.pc = "sell"
             /\ status # "FILLED" => ~run'.sold
             /\ \/ run.pc = "await" /\ status = "UNKNOWN" /\ book[<<s, runs>>] = "inflight"
                   /\ book' = [book EXCEPT ![<<s, runs>>] = "absent"]
                \/ run.pc = "await" /\ status \in {"NEW", book[<<s, runs>>]} /\ UNCHANGED book
                \/ run.pc = "settle" /\ status \in {"UNKNOWN", run.found} /\ UNCHANGED book
    BY OutcomeEffect
  <1>2. /\ \A t \in Symbols : <<t, runs>> \in Ids /\ <<t, runs>> \in Sells
        /\ row \in [Ids -> RowStatuses] /\ book \in [Ids -> BookStatuses]
        /\ run.free \in [Symbols -> Int] /\ \A t \in Symbols : SaleOf(t)
        /\ run'.free = run.free
    BY <1>1, SellTypes DEF Selling, SInv, SaleInv, SellFields
  <1>3. row[<<s, runs>>] = "NEW" /\ (run.pc = "settle" /\ run.found = "FILLED" => book[<<s, runs>>] = "FILLED")
    BY <1>1 DEF SInv, HandInv, OwnSell
  <1>4. /\ row'[<<s, runs>>] = status
        /\ \A t \in Symbols : t # s => row'[<<t, runs>>] = row[<<t, runs>>] /\ book'[<<t, runs>>] = book[<<t, runs>>]
    BY <1>1, <1>2
  <1>5. SaleOf(s)'
    <2>1. status = "FILLED" => book'[<<s, runs>>] = "FILLED"
      BY <1>1, <1>3
    <2>2. book'[<<s, runs>>] = "FILLED" => book[<<s, runs>>] = "FILLED"
      BY <1>1, <1>2
    <2>3. SaleOf(s) /\ ~Ahead(s)'
      <3>1. s \notin run.sells
        BY <1>2, <1>3 DEF SaleOf, Ahead
      <3> QED BY <1>1, <1>2, <3>1 DEF Ahead
    <2> QED BY <1>1, <1>2, <1>3, <1>4, <2>1, <2>2, <2>3 DEF SaleOf
  <1>6. ASSUME NEW t \in Symbols, t # s PROVE SaleOf(t)'
    <2>1. SaleOf(t) /\ (Ahead(t)' => Ahead(t)) /\ run.cur # <<t, runs>> /\ (~run.sold => ~run'.sold)
      BY <1>1, <1>2, <1>6 DEF Ahead, SellFields
    <2> QED BY <1>1, <1>2, <1>4, <1>6, <2>1 DEF SaleOf
  <1>7. HandInv'
    BY <1>1 DEF HandInv, OwnSell
  <1> QED BY <1>1, <1>2, <1>5, <1>6, <1>7 DEF SInv, SaleInv, UnitTypes

\* Before the first run nothing is held.
LEMMA SaleInit == Init => SInv
  <1> SUFFICES ASSUME Init PROVE SInv
    OBVIOUS
  <1>1. run.pc = "idle"
    BY IdleShape DEF Init
  <1>2. UnitTypes
    BY DEF Init, UnitTypes
  <1> QED BY <1>1, <1>2 DEF SInv, SaleInv, HandInv, Selling, OwnSell

\* Every step of a run keeps the account of what is sold.
LEMMA RunSale ==
    ASSUME KInv, SInv, RunStep
    PROVE  SInv'
  <1>0. Shape(run)
    BY DEF KInv, KillTypes
  <1>1. CASE \E i \in Ids : CancelLocal(i)
    <2>1. run.pc = "local" /\ UNCHANGED <<qty, held, late>> /\ \E i \in Ids : run' = [run EXCEPT !.open = @ \ {i}]
      BY <1>1 DEF CancelLocal, At, exchVars
    <2>2. run'.pc \notin Selling
      BY <1>0, <2>1 DEF Shape, Selling
    <2> QED BY <2>1, <2>2, OutsideSale
  <1>2. CASE \E i \in Ids, own \in BOOLEAN : CancelOne(i, own)
    <2>1. PICK i \in Ids, own \in BOOLEAN : CancelOne(i, own)
      BY <1>2
    <2>2. UNCHANGED qty /\ (UNCHANGED <<held, late>> \/ Trade(i))
      BY <2>1 DEF CancelOne, exchVars
    <2>3. run'.pc \notin Selling
      <3>1. run'.pc \in Cancels
        BY <2>1, CancelAnswered DEF Answered, Cancels
      <3> QED BY <3>1 DEF Cancels, Selling
    <2> QED BY <2>2, <2>3, OutsideSale
  <1>3. CASE \E s \in Symbols : BulkCancel(s)
    <2>1. PICK s, e : /\ run.pc = "cancel" /\ UNCHANGED <<qty, held, late>>
                      /\ run' = [run EXCEPT !.bulk = @ \ {s}, !.errors = e]
      <3>1. PICK s \in Symbols : BulkCancel(s)
        BY <1>3
      <3>2. PICK ok \in BOOLEAN : run' = [run EXCEPT !.bulk = @ \ {s}, !.errors = @ \/ ~ok]
        BY <3>1 DEF BulkCancel
      <3>3. PICK e : e = (run.errors \/ ~ok)
        OBVIOUS
      <3>4. run' = [run EXCEPT !.bulk = @ \ {s}, !.errors = e]
        BY <3>2, <3>3
      <3> QED BY <3>1, <3>4 DEF BulkCancel, At
    <2>2. run'.pc \notin Selling
      BY <1>0, <2>1 DEF Shape, Selling
    <2> QED BY <2>1, <2>2, OutsideSale
  <1>4. CASE FinishLocal \/ FinishRun \/ (ReadExchange /\ run' = Idle) \/ (ReadBalance /\ run' = Idle)
    <2>1. run' = Idle /\ UNCHANGED <<qty, held>>
      BY <1>4 DEF FinishLocal, FinishRun, ReadExchange, ReadBalance, Report, exchVars
    <2>2. UNCHANGED late
      <3>1. CASE ~ReadBalance
        BY <1>4, <3>1 DEF FinishLocal, FinishRun, ReadExchange, exchVars
      <3>2. CASE ReadBalance
        <4>1. Idle # [run EXCEPT !.pc = "sell",
                                 !.free = [s \in Symbols |-> FreeUnits(s)],
                                 !.sells = {s \in Symbols : FreeUnits(s) > 0}]
          <5>1. PICK free, sells : /\ free = [s \in Symbols |-> FreeUnits(s)]
                                   /\ sells = {s \in Symbols : FreeUnits(s) > 0}
            OBVIOUS
          <5>2. [run EXCEPT !.pc = "sell", !.free = free, !.sells = sells].pc = "sell"
            BY <1>0 DEF Shape
          <5> QED BY <5>1, <5>2, IdleShape
        <4> QED BY <2>1, <3>2, <4>1 DEF ReadBalance
      <3> QED BY <3>1, <3>2
    <2>3. run'.pc \notin Selling
      BY <2>1, IdleShape DEF Selling
    <2> QED BY <2>1, <2>2, <2>3, OutsideSale
  <1>5. CASE ReadExchange /\ run' # Idle
    <2>1. UNCHANGED <<qty, held, late>>
      BY <1>5 DEF ReadExchange, exchVars
    <2>2. run' = [run EXCEPT
                     !.pc   = "cancel",
                     !.live = Live,
                     !.bulk = {SymbolOf[i] : i \in Live \cap Bare},
                     !.todo = (run.open \X {TRUE})
                                \cup {i \in Live \ Bare : i \notin run.open \/ i \in Oco} \X {FALSE}]
      BY <1>5 DEF ReadExchange, Report
    <2>3. run'.pc \notin Selling
      BY <1>0, <2>2 DEF Shape, Selling
    <2> QED BY <2>1, <2>3, OutsideSale
  <1>6. CASE VerifyGone
    <2>1. UNCHANGED <<qty, held, late>>
      BY <1>6 DEF VerifyGone, exchVars
    <2>2. PICK status : run' = Outcome(run, status)
      BY <1>6 DEF VerifyGone
    <2>3. run'.pc \notin Selling
      BY <1>0, <2>2, OutcomeFields DEF Selling
    <2> QED BY <2>1, <2>3, OutsideSale
  <1>7. CASE WriteRow
    <2>1. UNCHANGED <<qty, held, late>> /\ run' = [run EXCEPT !.pc = "cancel"]
      BY <1>7 DEF WriteRow, Goto, exchVars
    <2>2. run'.pc \notin Selling
      BY <1>0, <2>1 DEF Shape, Selling
    <2> QED BY <2>1, <2>2, OutsideSale
  <1>8. CASE ReadBalance /\ run' # Idle
    BY <1>8, ReadBalanceSale
  <1>9. CASE (\E s \in Symbols : NextSell(s)) \/ QueryOpenClose \/ SyncOpenClose
    BY <1>9, OpenCloseSale
  <1>10. CASE InsertSell
    BY <1>10, InsertSale
  <1>11. CASE SendSell \/ SellTimeout \/ QueryTimedOut
    BY <1>11, AwaitSale
  <1>12. CASE SellAnswered \/ SettleSell
    BY <1>12, OutcomeSale
  <1> QED
    BY <1>1, <1>2, <1>3, <1>4, <1>5, <1>6, <1>7, <1>8, <1>9, <1>10, <1>11, <1>12 DEF RunStep

\* So does every other step.
LEMMA SaleStep ==
    ASSUME KInv, SInv, [Next]_vars
    PROVE  SInv'
  <1>0. book \in [Ids -> BookStatuses] /\ Orders \subseteq Ids
    BY DEF KInv, KillTypes, Ids
  <1>1. CASE RunStep
    BY <1>1, RunSale
  <1>2. CASE CloseOne
    <2>1. UNCHANGED <<qty, held, late>> /\ run' = [Idle EXCEPT !.pc = IF real THEN "exchange" ELSE "local",
                                                               !.open = {i \in Ids : row[i] = "NEW"}]
      BY <1>2 DEF CloseOne, exchVars
    <2>2. run'.pc \notin Selling
      BY <2>1 DEF Idle, Selling
    <2> QED BY <2>1, <2>2, OutsideSale
  <1>3. CASE Restart
    <2>1. UNCHANGED <<qty, held, late>> /\ run'.pc \notin Selling
      BY <1>3, IdleShape DEF Restart, exchVars, Selling
    <2> QED BY <2>1, OutsideSale
  <1>4. CASE FlipTradingLock \/ UNCHANGED vars
    <2>1. UNCHANGED <<row, run, runs, qty, book, held, late>>
      BY <1>4 DEF FlipTradingLock, exchVars, vars
    <2> QED BY <2>1, StillSale
  <1>5. ASSUME NEW o \in Orders, RequestDone(o) PROVE SInv'
    <2>1. UNCHANGED qty /\ (UNCHANGED <<held, late>> \/ Trade(o)) /\ run'.pc \notin Selling
      BY <1>5 DEF RequestDone, At, Selling
    <2> QED BY <1>0, <2>1, OutsideSale
  <1>6. ASSUME NEW o \in Orders, ForeignOrder(o) PROVE SInv'
    <2>1. /\ UNCHANGED <<row, run, runs, qty, held, late>> /\ o \in Ids
          /\ book' = [book EXCEPT ![o] = "NEW"] /\ "NEW" \in BookStatuses
      BY <1>0, <1>6 DEF ForeignOrder, BookStatuses
    <2> QED BY <2>1, ExchangeSale
  <1>7. ASSUME NEW i \in Ids, Arrive(i) PROVE SInv'
    <2>1. PICK b \in BookStatuses :
            /\ UNCHANGED <<row, run, runs, qty>> /\ book' = [book EXCEPT ![i] = b] /\ book[i] = "inflight"
            /\ IF b = "FILLED" THEN Trade(i) ELSE UNCHANGED <<held, late>>
      BY <1>7 DEF Arrive, BookStatuses, FinalStatuses
    <2> QED BY <2>1, ExchangeSale
  <1>8. ASSUME NEW i \in Ids, Progress(i) PROVE SInv'
    <2>1. PICK b \in BookStatuses :
            /\ UNCHANGED <<row, run, runs, qty>> /\ book' = [book EXCEPT ![i] = b] /\ book[i] = "NEW"
            /\ IF b = "FILLED" THEN Trade(i) ELSE UNCHANGED <<held, late>>
      BY <1>8 DEF Progress, BookStatuses, FinalStatuses, Live
    <2> QED BY <2>1, ExchangeSale
  <1> QED BY <1>1, <1>2, <1>3, <1>4, <1>5, <1>6, <1>7, <1>8 DEF Next

\* What a run reads, sells and takes for sold adds up: the inductive invariant of the sells
\* (get_balance, _place_and_record, sold_ok).
THEOREM SaleInvariant == Spec => []SInv
  <1>1. KInv /\ SInv /\ [Next]_vars => SInv'
    BY SaleStep
  <1> QED BY <1>1, SaleInit, KillInvariant, PTL DEF Spec

\* When a run reports closed = TRUE, a symbol for which it placed a close order of its own, or
\* of which nothing was free, has no more units left than were locked or bought later
\* (_place_and_record, sold_ok).
THEOREM OwnClosesSell == Spec => OwnCloseSold
  <1>1. KInv /\ SInv /\ [Next]_vars =>
           [Reported => \A s \in Listed :
              run.free[s] = 0 \/ row[<<s, runs>>] # "none" => held[s] <= late[s]]_vars
    <2> SUFFICES ASSUME KInv, SInv, [Next]_vars, Reported, NEW s \in Listed,
                        run.free[s] = 0 \/ row[<<s, runs>>] # "none"
                 PROVE  held[s] <= late[s]
      OBVIOUS
    <2>1. run.pc = "sell" /\ run.sold
      BY ReportsWhole
    <2>2. s \in Symbols
      BY OrderAssumption
    <2>3. SaleOf(s) /\ held[s] \in Int /\ late[s] \in Int
      BY <2>1, <2>2 DEF SInv, SaleInv, UnitTypes, Selling
    <2>4. CASE run.free[s] = 0
      BY <2>3, <2>4 DEF SaleOf
    <2>5. CASE row[<<s, runs>>] # "none"
      <3>1. row[<<s, runs>>] = "FILLED"
        BY <2>1, <2>3, <2>5 DEF SaleOf, OwnSell
      <3> QED BY <2>3, <3>1 DEF SaleOf
    <2> QED BY <2>4, <2>5
  <1> QED BY <1>1, KillInvariant, SaleInvariant, PTL DEF Spec, OwnCloseSold
=============================================================================
