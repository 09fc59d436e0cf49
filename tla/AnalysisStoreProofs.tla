------------------------ MODULE AnalysisStoreProofs ------------------------
(***************************************************************************)
(* Proofs about the analysis tables and the worker (module AnalysisStore): *)
(* one open row per series which is the newest, rows that are never        *)
(* overwritten, a current record that only moves forward (module           *)
(* CurrentRecords), and a marker that only names stored bars, for any      *)
(* number of symbols, handlers, tables and bars.  The last part is about   *)
(* the service that stores the candles the analyses read (module           *)
(* KlineService, over the same symbols and bars): no request for candles   *)
(* is forgotten.                                                           *)
(***************************************************************************)
EXTENDS AnalysisStore, SumTheorems, TLAPS

-----------------------------------------------------------------------------
(* One series *)

\* Row i is the open row of r, and no other row is open or newer.
IsCurrent(r, i) ==
    /\ i \in DOMAIN r
    /\ r[i].to = Null
    /\ \A j \in DOMAIN r \ {i} :
          /\ r[j].to # Null
          /\ r[j].from < r[i].from \/ (r[j].from = r[i].from /\ j < i)

\* The current row of r is about bar b or a later one.
Reached(r, b) == \E i \in DOMAIN r : r[i].to = Null /\ r[i].from >= b

\* What a transaction may do to the rows of a series: add one, close one.
Kept(r, rn) ==
    \A i \in DOMAIN r :
        /\ i \in DOMAIN rn
        /\ rn[i].from = r[i].from
        /\ rn[i].payload = r[i].payload
        /\ r[i].to # Null => rn[i].to = r[i].to

\* The new result of bar b becomes the current row, ...
Advanced(r, rn, b, p) ==
    /\ \A i \in DOMAIN r : IsCurrent(r, i) => b >= r[i].from
    /\ \E n \in DOMAIN rn : IsCurrent(rn, n) /\ rn[n].from = b /\ rn[n].payload = p

\* ... or the current row, which is not older, stays.
Stayed(r, rn, b) ==
    \E i \in DOMAIN r : /\ i \in DOMAIN rn
                        /\ IsCurrent(r, i) /\ IsCurrent(rn, i)
                        /\ rn[i] = r[i] /\ r[i].from >= b

Stored(r, rn, b, p) ==
    rn \in Seq(Row) /\ Kept(r, rn) /\ (Advanced(r, rn, b, p) \/ Stayed(r, rn, b))

\* The fields of a row.
LEMMA RowTyped ==
    ASSUME NEW b \in Bars, NEW to \in Bars \cup {Null}, NEW p \in Payloads
    PROVE  /\ NewRow(b, to, p) \in Row
           /\ NewRow(b, to, p).from = b
           /\ NewRow(b, to, p).to = to
           /\ NewRow(b, to, p).payload = p
  BY DEF NewRow, Row

\* No bar is the mark of an open row.
LEMMA BarsNotNull == Null \notin Bars /\ Bars \subseteq Nat
  BY BoundAssumption DEF Null, Bars

\* The rows of a series after an insert.
LEMMA Appended ==
    ASSUME NEW r \in Seq(Row), NEW x \in Row, NEW rn, rn = Append(r, x)
    PROVE  /\ rn \in Seq(Row)
           /\ DOMAIN r = 1 .. Len(r) /\ Len(r) \in Nat
           /\ DOMAIN rn = 1 .. Len(r) + 1
           /\ \A i \in DOMAIN r : rn[i] = r[i]
           /\ rn[Len(r) + 1] = x
  OBVIOUS

\* The rows of a series after one of them is closed.
LEMMA Closed ==
    ASSUME NEW r \in Seq(Row), NEW i \in DOMAIN r, NEW to \in Bars, NEW rc, rc = [r EXCEPT ![i].to = to]
    PROVE  /\ rc \in Seq(Row)
           /\ Len(rc) = Len(r) /\ DOMAIN rc = DOMAIN r
           /\ \A j \in DOMAIN r : j # i => rc[j] = r[j]
           /\ rc[i].from = r[i].from /\ rc[i].payload = r[i].payload /\ rc[i].to = to
  <1>1. r[i] \in Row
    OBVIOUS
  <1>2. [r[i] EXCEPT !.to = to] \in Row
    BY <1>1 DEF Row
  <1>3. rc = [r EXCEPT ![i] = [r[i] EXCEPT !.to = to]]
    OBVIOUS
  <1>4. rc \in Seq(Row) /\ Len(rc) = Len(r) /\ DOMAIN rc = DOMAIN r
    BY <1>2, <1>3
  <1>5. rc[i] = [r[i] EXCEPT !.to = to]
    BY <1>3
  <1>6. \A j \in DOMAIN r : j # i => rc[j] = r[j]
    BY <1>3
  <1> QED BY <1>1, <1>4, <1>5, <1>6 DEF Row

\* The fields of the rows of a series.
LEMMA RowFields ==
    ASSUME NEW r \in Seq(Row), NEW i \in DOMAIN r
    PROVE  r[i] \in Row /\ r[i].from \in Bars /\ r[i].to \in Bars \cup {Null} /\ r[i].payload \in Payloads
  <1>1. r[i] \in Row
    OBVIOUS
  <1> QED BY <1>1 DEF Row

\* A revision or a later bar supersedes the current row.
LEMMA Supersedes ==
    ASSUME NEW r \in Seq(Row), NEW i \in DOMAIN r, IsCurrent(r, i), NEW b \in Bars, b >= r[i].from,
           NEW to \in Bars, NEW p \in Payloads, NEW rn,
           rn = Append([r EXCEPT ![i].to = to], NewRow(b, Null, p))
    PROVE  Stored(r, rn, b, p)
  <1> DEFINE n == Len(r) + 1
  <1>1. PICK rc : rc = [r EXCEPT ![i].to = to]
    OBVIOUS
  <1>2. /\ rc \in Seq(Row)
        /\ Len(rc) = Len(r) /\ DOMAIN rc = DOMAIN r
        /\ \A j \in DOMAIN r : j # i => rc[j] = r[j]
        /\ rc[i].from = r[i].from /\ rc[i].payload = r[i].payload /\ rc[i].to = to
    BY ONLY <1>1, Closed, r \in Seq(Row), i \in DOMAIN r, to \in Bars
  <1>3. PICK x : x = NewRow(b, Null, p)
    OBVIOUS
  <1>4. x \in Row /\ x.from = b /\ x.to = Null /\ x.payload = p
    BY <1>3 DEF NewRow, Row
  <1>5. rn = Append(rc, x)
    BY <1>1, <1>3
  <1>6. /\ rn \in Seq(Row) /\ DOMAIN r = 1 .. Len(r) /\ Len(r) \in Nat
        /\ DOMAIN rn = 1 .. n
        /\ \A j \in DOMAIN r : rn[j] = rc[j]
        /\ rn[n] = x
    BY ONLY <1>2, <1>4, <1>5, r \in Seq(Row)
  <1>7. rn[n].from = b /\ rn[n].to = Null /\ rn[n].payload = p
    BY <1>6, <1>4
  <1>8. \A j \in DOMAIN r : rn[j].from = r[j].from /\ rn[j].payload = r[j].payload
    BY <1>2, <1>6
  <1>9. \A j \in DOMAIN r : rn[j].to # Null /\ (r[j].to # Null => rn[j].to = r[j].to)
    BY <1>2, <1>6, BarsNotNull DEF IsCurrent
  <1>10. \A j \in DOMAIN r : r[j].from <= b /\ r[j].from \in Nat
    <2>1. \A j \in DOMAIN r : r[j].from \in Nat
      BY BarsNotNull, RowFields
    <2>2. \A j \in DOMAIN r : j = i \/ r[j].from <= r[i].from
      BY <2>1 DEF IsCurrent
    <2> QED BY <2>1, <2>2, BarsNotNull
  <1>11. Kept(r, rn)
    BY <1>6, <1>8, <1>9 DEF Kept
  <1>12. IsCurrent(rn, n)
    <2>1. n \in DOMAIN rn
      BY <1>6
    <2>2. ASSUME NEW j \in DOMAIN rn \ {n}
          PROVE  /\ rn[j].to # Null
                 /\ rn[j].from < rn[n].from \/ (rn[j].from = rn[n].from /\ j < n)
      <3>1. j \in DOMAIN r /\ j < n
        BY <1>6
      <3> QED BY <3>1, <1>7, <1>8, <1>9, <1>10, BarsNotNull
    <2> HIDE DEF n
    <2> QED BY <2>1, <2>2, <1>7 DEF IsCurrent
  <1>13. \A j \in DOMAIN r : IsCurrent(r, j) => b >= r[j].from
    BY <1>10, BarsNotNull
  <1>14. Advanced(r, rn, b, p)
    BY <1>6, <1>7, <1>12, <1>13 DEF Advanced
  <1> QED BY <1>6, <1>11, <1>14 DEF Stored

\* An older result is added behind the current row.
LEMMA Inserts ==
    ASSUME NEW r \in Seq(Row), NEW i \in DOMAIN r, IsCurrent(r, i), NEW b \in Bars, b < r[i].from,
           NEW to \in Bars, NEW p \in Payloads, NEW rn,
           rn = Append(r, NewRow(b, to, p))
    PROVE  Stored(r, rn, b, p)
  <1> DEFINE n == Len(r) + 1
  <1>2. /\ rn \in Seq(Row) /\ DOMAIN r = 1 .. Len(r) /\ Len(r) \in Nat
        /\ DOMAIN rn = 1 .. n
        /\ \A j \in DOMAIN r : rn[j] = r[j]
        /\ rn[n] = NewRow(b, to, p)
    BY RowTyped, Appended
  <1>3. rn[n].from = b /\ rn[n].to # Null
    BY <1>2, RowTyped, BarsNotNull
  <1>4. Kept(r, rn)
    BY <1>2 DEF Kept
  <1>5. IsCurrent(rn, i)
    <2>1. \A j \in DOMAIN rn \ {i} : j = n \/ j \in DOMAIN r \ {i}
      BY <1>2
    <2>2. i \in DOMAIN rn /\ rn[i] = r[i]
      BY <1>2
    <2> QED BY <2>1, <2>2, <1>2, <1>3 DEF IsCurrent
  <1>6. r[i].from >= b
    BY RowFields, BarsNotNull
  <1>7. Stayed(r, rn, b)
    BY <1>2, <1>5, <1>6 DEF Stayed
  <1> QED BY <1>2, <1>4, <1>7 DEF Stored

\* The first result of a series.
LEMMA Opens ==
    ASSUME NEW b \in Bars, NEW p \in Payloads, NEW rn, rn = Append(<<>>, NewRow(b, Null, p))
    PROVE  Stored(<<>>, rn, b, p)
  <1> DEFINE r == <<>>
  <1>1. r \in Seq(Row) /\ Len(r) = 0 /\ DOMAIN r = {}
    OBVIOUS
  <1>2. /\ rn \in Seq(Row)
        /\ DOMAIN rn = 1 .. 1
        /\ rn[1] = NewRow(b, Null, p)
    BY <1>1, RowTyped, Appended
  <1>3. IsCurrent(rn, 1) /\ rn[1].from = b /\ rn[1].payload = p
    BY <1>2, RowTyped DEF IsCurrent
  <1>4. Kept(r, rn)
    BY <1>1 DEF Kept
  <1>5. Advanced(r, rn, b, p)
    BY <1>1, <1>2, <1>3 DEF Advanced
  <1> QED BY <1>2, <1>4, <1>5 DEF Stored

-----------------------------------------------------------------------------
(* _store_payload *)

\* A series has one current row.
LEMMA CurrentUnique ==
    ASSUME NEW r, NEW i, NEW j, IsCurrent(r, i), j \in DOMAIN r, r[j].to = Null
    PROVE  j = i
  BY DEF IsCurrent

\* A transaction of _store_payload changes one series, if any, and it either publishes
\* its result or finds one that is not older.
StoredIn(k, b, p) ==
    /\ rows' = [rows EXCEPT ![k] = rows'[k]]
    /\ Stored(rows[k], rows'[k], b, p)

\* A series that does not change has reached the bar of its current row.
LEMMA Unchanged ==
    ASSUME NEW r \in Seq(Row), NEW i \in DOMAIN r, IsCurrent(r, i), NEW b \in Bars,
           r[i].from >= b, NEW p
    PROVE  Stored(r, r, b, p)
  BY DEF Stored, Kept, Stayed

\* The row a bar was stored in last is not newer than the current row.
LEMMA SameBarNotNewer ==
    ASSUME NEW r \in Seq(Row), NEW c, IsCurrent(r, c), NEW b \in Bars, NEW i \in DOMAIN r,
           IsSameBar(r, b, i)
    PROVE  \/ c = i /\ r[c].from = b /\ r[c].to = Null
           \/ r[c].from > b /\ r[i].to \in Bars
  <1>1. CASE c = i
    <2>1. r[c].to = Null
      BY DEF IsCurrent
    <2>2. r[i].from = b
      BY DEF IsSameBar
    <2> QED BY <1>1, <2>1, <2>2
  <1>2. CASE c # i
    <2>1. r[i].from = b /\ r[i].to # Null /\ (r[i].from < r[c].from \/ (r[c].from = b /\ i < c))
      BY <1>2 DEF IsCurrent, IsSameBar
    <2>2. c \in DOMAIN r /\ (r[c].from = b => c <= i)
      BY DEF IsCurrent, IsSameBar
    <2>3. r[i].to \in Bars /\ r[c].from \in Bars /\ i \in Nat /\ c \in Nat
      BY <2>1, <2>2, RowFields
    <2> QED BY <2>1, <2>2, <2>3, BarsNotNull
  <1> QED BY <1>1, <1>2

\* A second result for a bar.
LEMMA ReviseStores ==
    ASSUME TypeOK, OpenIsNewest, NEW k \in Series, NEW b \in Bars, NEW p \in Payloads, Revise(k, b, p)
    PROVE  StoredIn(k, b, p)
  <1> DEFINE r == rows[k]
  <1>1. PICK i \in DOMAIN r :
          /\ IsSameBar(r, b, i)
          /\ \/ r[i].payload = p /\ UNCHANGED rows
             \/ /\ r[i].payload # p /\ r[i].to = Null
                /\ rows' = [rows EXCEPT ![k] = Append([r EXCEPT ![i].to = b], NewRow(b, Null, p))]
             \/ /\ r[i].payload # p /\ r[i].to # Null
                /\ rows' = [rows EXCEPT ![k] = Append(r, NewRow(b, r[i].to, p))]
    BY DEF Revise
  <1>2. r \in Seq(Row) /\ rows \in [Series -> Seq(Row)]
    BY DEF TypeOK
  <1>3. PICK c \in DOMAIN r : IsCurrent(r, c)
    <2>1. r # <<>>
      BY <1>1, <1>2
    <2> QED BY <2>1 DEF OpenIsNewest, IsCurrent
  <1>4. \/ c = i /\ r[c].from = b /\ r[c].to = Null
        \/ r[c].from > b /\ r[i].to \in Bars
    BY <1>1, <1>2, <1>3, SameBarNotNewer
  <1>5. r[c].from \in Bars
    BY <1>2, <1>3, RowFields
  <1> HIDE DEF r
  <1>6. CASE UNCHANGED rows
    <2>1. r[c].from >= b
      BY ONLY <1>4, <1>5, b \in Bars, BoundAssumption DEF Bars
    <2>2. Stored(r, r, b, p)
      BY <2>1, <1>2, <1>3, Unchanged
    <2> QED BY <1>2, <1>6, <2>2 DEF StoredIn, r
  <1>7. CASE r[i].to = Null /\ rows' = [rows EXCEPT ![k] = Append([r EXCEPT ![i].to = b], NewRow(b, Null, p))]
    <2>1. c = i /\ b >= r[i].from
      BY <1>3, <1>4, <1>5, <1>7, BarsNotNull
    <2>2. rows'[k] = Append([r EXCEPT ![i].to = b], NewRow(b, Null, p))
      BY <1>2, <1>7
    <2>3. Stored(r, rows'[k], b, p)
      BY <2>1, <2>2, <1>2, <1>3, Supersedes
    <2> QED BY <1>2, <1>7, <2>2, <2>3 DEF StoredIn, r
  <1>8. CASE r[i].to # Null /\ rows' = [rows EXCEPT ![k] = Append(r, NewRow(b, r[i].to, p))]
    <2>1. b < r[c].from /\ r[i].to \in Bars
      BY <1>3, <1>4, <1>5, <1>8, BarsNotNull
    <2>2. rows'[k] = Append(r, NewRow(b, r[i].to, p))
      BY <1>2, <1>8
    <2>3. Stored(r, rows'[k], b, p)
      BY <2>1, <2>2, <1>2, <1>3, Inserts
    <2> QED BY <1>2, <1>8, <2>2, <2>3 DEF StoredIn, r
  <1> QED BY <1>1, <1>6, <1>7, <1>8 DEF r

\* The first result of a series.
LEMMA OpenStores ==
    ASSUME TypeOK, OpenIsNewest, NEW k \in Series, NEW b \in Bars, NEW p \in Payloads, Open(k, b, p)
    PROVE  StoredIn(k, b, p)
  <1>1. rows[k] = <<>>
    BY DEF Open, OpenIsNewest
  <1>2. rows' = [rows EXCEPT ![k] = Append(rows[k], NewRow(b, Null, p))] /\ rows \in [Series -> Seq(Row)]
    BY DEF Open, TypeOK
  <1>3. rows'[k] = Append(<<>>, NewRow(b, Null, p))
    BY <1>1, <1>2
  <1>4. Stored(<<>>, rows'[k], b, p)
    BY <1>3, Opens
  <1> QED BY <1>1, <1>2, <1>4 DEF StoredIn

\* A result for a later bar.
LEMMA ForwardStores ==
    ASSUME TypeOK, OpenIsNewest, NEW k \in Series, NEW b \in Bars, NEW p \in Payloads, Forward(k, b, p)
    PROVE  StoredIn(k, b, p)
  <1> DEFINE r == rows[k]
  <1>1. r \in Seq(Row) /\ rows \in [Series -> Seq(Row)]
    BY DEF TypeOK
  <1>2. PICK i \in DOMAIN r :
          /\ IsOpenRow(r, i)
          /\ b > r[i].from
          /\ rows' = [rows EXCEPT ![k] = Append([r EXCEPT ![i].to = b - 1], NewRow(b, Null, p))]
    BY DEF Forward
  <1>3. IsCurrent(r, i)
    <2>1. r # <<>>
      BY <1>2
    <2>2. PICK c \in DOMAIN r : IsCurrent(r, c)
      BY <2>1 DEF OpenIsNewest, IsCurrent
    <2>3. i = c
      BY <1>2, <2>2, CurrentUnique DEF IsOpenRow
    <2> QED BY <2>2, <2>3
  <1>4. r[i].from \in Bars
    BY <1>1, <1>2, RowFields
  <1>5. b - 1 \in Bars /\ b >= r[i].from
    BY ONLY <1>2, <1>4, b \in Bars, BoundAssumption DEF Bars
  <1> HIDE DEF r
  <1>6. rows'[k] = Append([r EXCEPT ![i].to = b - 1], NewRow(b, Null, p))
    BY <1>1, <1>2
  <1>7. Stored(r, rows'[k], b, p)
    BY <1>1, <1>2, <1>3, <1>5, <1>6, Supersedes
  <1> QED BY <1>1, <1>2, <1>6, <1>7 DEF StoredIn, r

\* A result for an older bar.
LEMMA BackwardStores ==
    ASSUME TypeOK, OpenIsNewest, NEW k \in Series, NEW b \in Bars, NEW p \in Payloads, Backward(k, b, p)
    PROVE  StoredIn(k, b, p)
  <1> DEFINE r == rows[k]
  <1>1. r \in Seq(Row) /\ rows \in [Series -> Seq(Row)]
    BY DEF TypeOK
  <1>2. PICK i \in DOMAIN r : IsOpenRow(r, i) /\ b <= r[i].from /\ r[i].from # b
    BY DEF Backward, NoSameBar
  <1>3. PICK m \in Bars : m > b /\ rows' = [rows EXCEPT ![k] = Append(r, NewRow(b, m - 1, p))]
    BY DEF Backward, IsNextFrom
  <1>4. IsCurrent(r, i)
    <2>1. r # <<>>
      BY <1>2
    <2>2. PICK c \in DOMAIN r : IsCurrent(r, c)
      BY <2>1 DEF OpenIsNewest, IsCurrent
    <2>3. i = c
      BY <1>2, <2>2, CurrentUnique DEF IsOpenRow
    <2> QED BY <2>2, <2>3
  <1>5. r[i].from \in Bars
    BY <1>1, <1>2, RowFields
  <1>6. m - 1 \in Bars /\ b < r[i].from
    BY ONLY <1>2, <1>3, <1>5, b \in Bars, BoundAssumption DEF Bars
  <1> HIDE DEF r
  <1>7. rows'[k] = Append(r, NewRow(b, m - 1, p))
    BY <1>1, <1>3
  <1>8. Stored(r, rows'[k], b, p)
    BY <1>1, <1>2, <1>4, <1>6, <1>7, Inserts
  <1> QED BY <1>1, <1>3, <1>7, <1>8 DEF StoredIn, r

\* The four cases of _store_payload.
LEMMA PayloadStores ==
    ASSUME TypeOK, OpenIsNewest, NEW k \in Series, NEW b \in Bars, NEW p \in Payloads,
           StorePayload(k, b, p)
    PROVE  StoredIn(k, b, p)
  BY ReviseStores, OpenStores, ForwardStores, BackwardStores DEF StorePayload

-----------------------------------------------------------------------------
(* The inductive invariant *)

\* What the worker's analysis of symbol s has done for the bar of its pass: from `analyze`
\* on the candles reach it, the tables it has written reach it, and its answer is true.
WorkOK(s) ==
    /\ target = 0 => job[s].pc = "idle"
    /\ job[s].pc \in {"load", "analyze", "store", "hook"} => job[s].symbol = s
    /\ job[s].pc = "analyze" => newest[s] >= target
    /\ job[s].pc = "store" =>
          /\ job[s].bar >= target
          /\ \A t \in Tables : t < job[s].table => Reached(rows[<<t, s>>], target)
    /\ job[s].pc = "hook" => \A t \in Tables : Reached(rows[<<t, s>>], target)
    /\ job[s].pc = "done" /\ job[s].result = "true" => \A t \in Tables : Reached(rows[<<t, s>>], target)
    /\ job[s].pc = "done" /\ job[s].result = "insufficient" => target < MinBar[s]

\* An analysis stores the bar of a candle.
BarInv == \A j \in Jobs : job[j].pc = "store" => job[j].bar \in Bars

WorkInv == target <= closed /\ \A s \in Symbols : WorkOK(s)

\* The marker is about tables that have reached it.
MarkerInv ==
    marker # 0 => \A s \in Symbols :
        marker < MinBar[s] \/ \A t \in Tables : Reached(rows[<<t, s>>], marker)

AInv == TypeOK /\ OpenIsNewest /\ BarInv /\ WorkInv /\ MarkerInv

-----------------------------------------------------------------------------
(* Types *)

\* An idle analysis is well-typed.
LEMMA IdleTyped ==
    /\ IdleJob \in JobState
    /\ \A s \in Symbols : [IdleJob EXCEPT !.pc = "load", !.symbol = s] \in JobState
    /\ \A result \in Results : [IdleJob EXCEPT !.pc = "done", !.result = result] \in JobState
    /\ IdleJob.pc = "idle"
    /\ \A s \in Symbols : /\ [IdleJob EXCEPT !.pc = "load", !.symbol = s].pc = "load"
                          /\ [IdleJob EXCEPT !.pc = "load", !.symbol = s].symbol = s
  <1>1. (CHOOSE s \in Symbols : TRUE) \in Symbols /\ (CHOOSE p \in Payloads : TRUE) \in Payloads
    BY JobAssumption
  <1>2. 1 \in Tables /\ 0 \in 0 .. MaxBar
    BY TableAssumption, BoundAssumption DEF Tables
  <1> QED BY <1>1, <1>2 DEF IdleJob, JobState, Results

\* The updates of an analysis keep its type.
LEMMA JobTyped ==
    ASSUME NEW x \in JobState
    PROVE  /\ \A c \in {"analyze", "hook"} : [x EXCEPT !.pc = c] \in JobState
           /\ \A s \in Symbols : [x EXCEPT !.pc = "analyze", !.symbol = s] \in JobState
           /\ \A b \in 0 .. MaxBar, p \in Payloads, t \in Tables :
                 [x EXCEPT !.pc = "store", !.bar = b, !.payload = p, !.table = t] \in JobState
           /\ \A c \in {"store", "hook"}, t \in Tables : [x EXCEPT !.pc = c, !.table = t] \in JobState
  BY DEF JobState

\* The fields of an analysis.
LEMMA JobFields ==
    ASSUME TypeOK, NEW j \in Jobs
    PROVE  /\ job[j] \in JobState /\ job[j].symbol \in Symbols /\ job[j].table \in Tables
           /\ job[j].payload \in Payloads /\ <<job[j].table, job[j].symbol>> \in Series
           /\ job[j].bar \in 0 .. MaxBar
  <1>1. job[j] \in JobState
    BY DEF TypeOK
  <1> QED BY <1>1 DEF JobState, Series

\* The analysis j moves on to state x, the others stay.
Moves(j, x) ==
    /\ job' = [job EXCEPT ![j] = x]
    /\ x \in JobState

\* An analysis that returns.
LEMMA ReturnMoves ==
    ASSUME TypeOK, NEW j \in Jobs, NEW result \in Results, Return(j, result)
    PROVE  \E x : /\ Moves(j, x)
                  /\ j \in Symbols => x.pc = "done" /\ x.result = result
                  /\ j \notin Symbols => x = IdleJob
  <1>1. CASE j \in Symbols
    <2>1. job' = [job EXCEPT ![j] = [IdleJob EXCEPT !.pc = "done", !.result = result]]
      BY <1>1 DEF Return
    <2>2. /\ [IdleJob EXCEPT !.pc = "done", !.result = result].pc = "done"
          /\ [IdleJob EXCEPT !.pc = "done", !.result = result].result = result
      BY DEF IdleJob
    <2> QED BY <1>1, <2>1, <2>2, IdleTyped DEF Moves
  <1>2. CASE j \notin Symbols
    <2>1. job' = [job EXCEPT ![j] = IdleJob]
      BY <1>2 DEF Return
    <2> QED BY <1>2, <2>1, IdleTyped DEF Moves
  <1> QED BY <1>1, <1>2

\* The transaction of a step of analyze.
LEMMA StoreStores ==
    ASSUME TypeOK, OpenIsNewest, BarInv, NEW j \in Jobs, Store(j)
    PROVE  StoredIn(<<job[j].table, job[j].symbol>>, job[j].bar, job[j].payload)
  BY JobFields, PayloadStores DEF Store, BarInv

\* A handler starts an analysis.
LEMMA CallMoves ==
    ASSUME TypeOK, NEW a \in Agents, NEW s \in Symbols, Call(a, s)
    PROVE  \E x : Moves(a, x) /\ x.pc = "analyze"
  <1>1. a \in Jobs
    BY DEF Jobs
  <1> DEFINE x == [job[a] EXCEPT !.pc = "analyze", !.symbol = s]
  <1>2. job' = [job EXCEPT ![a] = x]
    BY DEF Call
  <1>3. job[a] \in JobState
    BY <1>1, JobFields
  <1>4. x \in JobState
    BY <1>3, JobTyped
  <1>5. x.pc = "analyze"
    BY <1>3 DEF JobState
  <1> QED BY <1>2, <1>4, <1>5 DEF Moves

\* The result is computed from the newest candles, or there are too few.
LEMMA AnalyzeMoves ==
    ASSUME TypeOK, NEW j \in Jobs, Analyze(j)
    PROVE  \/ ~Enough(job[j].symbol) /\ Return(j, "insufficient")
           \/ /\ Enough(job[j].symbol)
              /\ \E x : /\ Moves(j, x)
                        /\ x.pc = "store" /\ x.bar = newest[job[j].symbol] /\ x.table = 1
                        /\ x.symbol = job[j].symbol
  <1>1. CASE Enough(job[j].symbol)
    <2>1. PICK p \in Payloads :
             job' = [job EXCEPT ![j].pc = "store", ![j].bar = newest[job[j].symbol], ![j].payload = p,
                                ![j].table = 1]
      BY <1>1 DEF Analyze
    <2> DEFINE x == [job[j] EXCEPT !.pc = "store", !.bar = newest[job[j].symbol], !.payload = p, !.table = 1]
    <2>2. job' = [job EXCEPT ![j] = x]
      BY <2>1
    <2>3. newest[job[j].symbol] \in 0 .. MaxBar /\ 1 \in Tables
      <3>1. newest[job[j].symbol] \in 0 .. MaxBar
        BY JobFields DEF TypeOK
      <3> QED BY <3>1, TableAssumption DEF Tables
    <2>4. x \in JobState
      BY <2>3, JobFields, JobTyped
    <2>5. x.pc = "store" /\ x.bar = newest[job[j].symbol] /\ x.table = 1 /\ x.symbol = job[j].symbol
      BY JobFields DEF JobState
    <2> QED BY <1>1, <2>2, <2>4, <2>5 DEF Moves
  <1>2. CASE ~Enough(job[j].symbol)
    BY <1>2 DEF Analyze
  <1> QED BY <1>1, <1>2

\* The next table, or the hook after the last.
LEMMA StoreMoves ==
    ASSUME TypeOK, NEW j \in Jobs, Store(j)
    PROVE  \E x : /\ Moves(j, x)
                  /\ x.symbol = job[j].symbol /\ x.bar = job[j].bar
                  /\ \/ x.pc = "store" /\ x.table = job[j].table + 1
                     \/ x.pc = "hook" /\ job[j].table + 1 \notin Tables
  <1> DEFINE t == job[j].table
             c == IF t + 1 \in Tables THEN "store" ELSE "hook"
             u == IF t + 1 \in Tables THEN t + 1 ELSE t
             x == [job[j] EXCEPT !.pc = c, !.table = u]
  <1>1. job' = [job EXCEPT ![j] = x]
    BY DEF Store
  <1>2. c \in {"store", "hook"} /\ u \in Tables
    BY JobFields
  <1>3. x \in JobState
    BY <1>2, JobFields, JobTyped
  <1>4. x.symbol = job[j].symbol /\ x.bar = job[j].bar /\ x.pc = c /\ x.table = u
    BY JobFields DEF JobState
  <1>5. \/ x.pc = "store" /\ x.table = job[j].table + 1
        \/ x.pc = "hook" /\ job[j].table + 1 \notin Tables
    BY <1>4
  <1> HIDE DEF x, c, u
  <1> QED BY <1>1, <1>3, <1>4, <1>5 DEF Moves

\* The worker analyses a symbol only with a fresh candle.
LEMMA LoadMoves ==
    ASSUME TypeOK, NEW s \in Symbols, Load(s)
    PROVE  \/ Return(s, "false")
           \/ /\ Fresh(s)
              /\ \E x : Moves(s, x) /\ x.pc = "analyze" /\ x.symbol = job[s].symbol
  <1>1. s \in Jobs
    BY DEF Jobs
  <1>2. CASE Fresh(s)
    <2> DEFINE x == [job[s] EXCEPT !.pc = "analyze"]
    <2>1. job' = [job EXCEPT ![s] = x]
      BY <1>2 DEF Load
    <2>2. x \in JobState /\ x.pc = "analyze" /\ x.symbol = job[s].symbol
      BY <1>1, JobFields, JobTyped DEF JobState
    <2> QED BY <1>2, <2>1, <2>2 DEF Moves
  <1>3. CASE ~Fresh(s)
    BY <1>3 DEF Load
  <1> QED BY <1>2, <1>3

\* Every step keeps the types of the analyses.
LEMMA JobsStep ==
    ASSUME TypeOK, [Next]_vars
    PROVE  job' \in [Jobs -> JobState]
  <1>0. job \in [Jobs -> JobState] /\ Symbols \subseteq Jobs /\ Agents \subseteq Jobs
    BY DEF TypeOK, Jobs
  <1>1. ASSUME NEW j \in Jobs, NEW x, Moves(j, x) PROVE job' \in [Jobs -> JobState]
    BY <1>0, <1>1 DEF Moves
  <1>2. ASSUME NEW j \in Jobs, NEW result \in Results, Return(j, result) PROVE job' \in [Jobs -> JobState]
    BY <1>1, <1>2, ReturnMoves
  <1>3. ASSUME NEW s \in Symbols, Load(s) PROVE job' \in [Jobs -> JobState]
    BY <1>0, <1>1, <1>2, <1>3, LoadMoves DEF Results
  <1>4. ASSUME NEW a \in Agents, NEW s \in Symbols, Call(a, s) PROVE job' \in [Jobs -> JobState]
    BY <1>0, <1>1, <1>4, CallMoves
  <1>5. ASSUME NEW j \in Jobs, Analyze(j) PROVE job' \in [Jobs -> JobState]
    BY <1>1, <1>2, <1>5, AnalyzeMoves DEF Results
  <1>6. ASSUME NEW j \in Jobs, Store(j) PROVE job' \in [Jobs -> JobState]
    BY <1>1, <1>6, StoreMoves
  <1>7. ASSUME NEW j \in Jobs, Hook(j) \/ Fail(j) PROVE job' \in [Jobs -> JobState]
    BY <1>2, <1>7 DEF Hook, Fail, Results
  <1>8. CASE BeginPass
    BY <1>0, <1>8, IdleTyped DEF BeginPass
  <1>9. CASE EndPass
    BY <1>0, <1>9, IdleTyped DEF EndPass
  <1>10. CASE Crash
    BY <1>10, IdleTyped DEF Crash
  <1>11. CASE UNCHANGED job
    BY <1>0, <1>11
  <1> QED BY <1>3, <1>4, <1>5, <1>6, <1>7, <1>8, <1>9, <1>10, <1>11
          DEF Next, JobStep, vars, CloseBar, StoreCandles

\* The tables change only in a step of _store_payload.
LEMMA RowsStep ==
    ASSUME TypeOK, OpenIsNewest, BarInv, [Next]_vars, ~UNCHANGED rows
    PROVE  \E j \in Jobs : /\ Store(j)
                           /\ StoredIn(<<job[j].table, job[j].symbol>>, job[j].bar, job[j].payload)
  <1>1. \E j \in Jobs : Store(j)
    BY DEF Next, JobStep, vars, CloseBar, StoreCandles, Load, Call, Analyze, Hook, Fail, BeginPass,
           EndPass, Crash
  <1> QED BY <1>1, StoreStores

\* Every step keeps the type invariant.
LEMMA TypeStep ==
    ASSUME TypeOK, OpenIsNewest, BarInv, [Next]_vars
    PROVE  TypeOK'
  <1> USE BoundAssumption DEF Bars
  <1>1. job' \in [Jobs -> JobState]
    BY JobsStep
  <1>2. rows' \in [Series -> Seq(Row)]
    <2>1. CASE UNCHANGED rows
      BY <2>1 DEF TypeOK
    <2>2. ASSUME NEW k \in Series, NEW b, NEW p, StoredIn(k, b, p) PROVE rows' \in [Series -> Seq(Row)]
      <3>1. rows \in [Series -> Seq(Row)] /\ rows' = [rows EXCEPT ![k] = rows'[k]] /\ rows'[k] \in Seq(Row)
        BY <2>2 DEF TypeOK, StoredIn, Stored
      <3> QED BY ONLY <3>1
    <2> QED BY <2>1, <2>2, RowsStep, JobFields
  <1>3. closed' \in Bars
    <2>1. UNCHANGED closed \/ (closed < MaxBar /\ closed' = closed + 1)
      BY DEF Next, JobStep, vars, CloseBar, StoreCandles, Load, Call, Analyze, Store, Hook, Fail,
             BeginPass, EndPass, Crash
    <2> QED BY ONLY <2>1, TypeOK, BoundAssumption DEF TypeOK, Bars
  <1>4. newest' \in [Symbols -> 0 .. MaxBar]
    <2>1. ASSUME NEW s \in Symbols, StoreCandles(s) PROVE newest' \in [Symbols -> 0 .. MaxBar]
      <3>1. PICK b \in newest[s] + 1 .. closed : newest' = [newest EXCEPT ![s] = b]
        BY <2>1 DEF StoreCandles
      <3>2. b \in 0 .. MaxBar
        BY <3>1 DEF TypeOK
      <3> QED BY <3>1, <3>2 DEF TypeOK
    <2>2. CASE UNCHANGED newest
      BY <2>2 DEF TypeOK
    <2> QED BY <2>1, <2>2 DEF Next, JobStep, vars, CloseBar, Load, Call, Analyze, Store, Hook, Fail,
                              BeginPass, EndPass, Crash
  <1>5. target' \in 0 .. MaxBar /\ marker' \in 0 .. MaxBar
    <2>1. target' \in {target, closed, 0} /\ marker' \in {marker, target, 0}
      BY DEF Next, JobStep, vars, CloseBar, StoreCandles, Load, Call, Analyze, Store, Hook, Fail,
             BeginPass, EndPass, Crash
    <2> QED BY ONLY <2>1, TypeOK, BoundAssumption DEF TypeOK, Bars
  <1>6. calls' \in 0 .. MaxCalls /\ faults' \in 0 .. MaxFaults
    <2>1. /\ UNCHANGED calls \/ (calls < MaxCalls /\ calls' = calls + 1)
          /\ UNCHANGED faults \/ (faults < MaxFaults /\ faults' = faults + 1)
      BY DEF Next, JobStep, vars, CloseBar, StoreCandles, Load, Call, Analyze, Store, Hook, Fail,
             BeginPass, EndPass, Crash
    <2> QED BY ONLY <2>1, TypeOK, BoundAssumption DEF TypeOK, Bars
  <1> QED BY <1>1, <1>2, <1>3, <1>4, <1>5, <1>6 DEF TypeOK

-----------------------------------------------------------------------------
(* The tables *)

\* A transaction leaves a current row, and it has reached the bar that was stored.
LEMMA StoredCurrent ==
    ASSUME NEW r, NEW rn, NEW b \in Bars, NEW p, Stored(r, rn, b, p)
    PROVE  \E n \in DOMAIN rn : IsCurrent(rn, n) /\ rn[n].from >= b
  <1>1. b >= b
    BY BoundAssumption DEF Bars
  <1> QED BY <1>1 DEF Stored, Advanced, Stayed

\* What a series has reached it has reached for good.
LEMMA StoredReached ==
    ASSUME NEW r \in Seq(Row), NEW rn, NEW b \in Bars, NEW p, Stored(r, rn, b, p), NEW c \in Nat,
           Reached(r, c), r = <<>> \/ \E i \in DOMAIN r : IsCurrent(r, i)
    PROVE  Reached(rn, c)
  <1>1. PICK i \in DOMAIN r : r[i].to = Null /\ r[i].from >= c
    BY DEF Reached
  <1>2. IsCurrent(r, i)
    BY <1>1, CurrentUnique
  <1>3. CASE Advanced(r, rn, b, p)
    <2>1. b >= r[i].from
      BY <1>2, <1>3 DEF Advanced
    <2>2. b >= c
      BY <1>1, <2>1, RowFields, BoundAssumption DEF Bars
    <2> QED BY <1>3, <2>2 DEF Advanced, Reached, IsCurrent
  <1>4. CASE Stayed(r, rn, b)
    <2>1. PICK j \in DOMAIN r : j \in DOMAIN rn /\ IsCurrent(r, j) /\ IsCurrent(rn, j) /\ rn[j] = r[j]
      BY <1>4 DEF Stayed
    <2>2. i = j
      BY <1>1, <2>1, CurrentUnique
    <2> QED BY <1>1, <2>1, <2>2 DEF Reached
  <1> QED BY <1>3, <1>4 DEF Stored

\* The series other than the one that was written stay.
LEMMA OtherSeries ==
    ASSUME TypeOK, NEW k \in Series, NEW b, NEW p, StoredIn(k, b, p), NEW h \in Series, h # k
    PROVE  rows'[h] = rows[h]
  <1>1. rows' = [rows EXCEPT ![k] = rows'[k]] /\ rows \in [Series -> Seq(Row)]
    BY DEF StoredIn, TypeOK
  <1> QED BY ONLY <1>1, h # k, h \in Series

\* A series is empty or has a current row.
LEMMA HasCurrent ==
    ASSUME OpenIsNewest, NEW k \in Series
    PROVE  rows[k] = <<>> \/ \E i \in DOMAIN rows[k] : IsCurrent(rows[k], i)
  BY DEF OpenIsNewest, IsCurrent

\* Every transaction leaves one open row, the newest of its series.
LEMMA OpenStep ==
    ASSUME TypeOK, OpenIsNewest, BarInv, [Next]_vars
    PROVE  OpenIsNewest'
  <1>1. CASE UNCHANGED rows
    BY <1>1 DEF OpenIsNewest
  <1>2. CASE ~UNCHANGED rows
    <2>1. PICK j \in Jobs : /\ Store(j)
                            /\ StoredIn(<<job[j].table, job[j].symbol>>, job[j].bar, job[j].payload)
      BY <1>2, RowsStep
    <2> DEFINE k == <<job[j].table, job[j].symbol>>
    <2>2. k \in Series /\ job[j].bar \in Bars
      BY <2>1, JobFields DEF Store, BarInv
    <2>3. \A h \in Series : h # k => rows'[h] = rows[h]
      BY <2>1, <2>2, OtherSeries
    <2>4. \E n \in DOMAIN rows'[k] : IsCurrent(rows'[k], n)
      BY <2>1, <2>2, StoredCurrent DEF StoredIn
    <2> HIDE DEF k
    <2>5. \A h \in Series : rows'[h] = <<>> \/ \E i \in DOMAIN rows'[h] : IsCurrent(rows'[h], i)
      BY <2>3, <2>4, HasCurrent
    <2> QED BY <2>5 DEF OpenIsNewest, IsCurrent
  <1> QED BY <1>1, <1>2

\* No step takes back what a series has reached.
LEMMA ReachedStep ==
    ASSUME TypeOK, OpenIsNewest, BarInv, [Next]_vars, NEW h \in Series, NEW c \in Nat, Reached(rows[h], c)
    PROVE  Reached(rows'[h], c)
  <1>1. CASE UNCHANGED rows
    BY <1>1
  <1>2. CASE ~UNCHANGED rows
    <2>1. PICK j \in Jobs : /\ Store(j)
                            /\ StoredIn(<<job[j].table, job[j].symbol>>, job[j].bar, job[j].payload)
      BY <1>2, RowsStep
    <2> DEFINE k == <<job[j].table, job[j].symbol>>
    <2>2. k \in Series /\ job[j].bar \in Bars
      BY <2>1, JobFields DEF Store, BarInv
    <2>3. CASE h # k
      BY <2>1, <2>2, <2>3, OtherSeries
    <2>4. CASE h = k
      <3>1. Stored(rows[h], rows'[h], job[j].bar, job[j].payload) /\ rows[h] \in Seq(Row)
        BY <2>1, <2>4 DEF StoredIn, TypeOK
      <3> QED BY <3>1, <2>2, HasCurrent, StoredReached
    <2> QED BY <2>3, <2>4
  <1> QED BY <1>1, <1>2

-----------------------------------------------------------------------------
(* The worker *)

\* A job that moves has its new state, and the other jobs stay.
LEMMA MovesEffect ==
    ASSUME TypeOK, NEW j \in Jobs, NEW x, Moves(j, x)
    PROVE  /\ job'[j] = x
           /\ \A i \in Jobs : i # j => job'[i] = job[i]
  BY DEF Moves, TypeOK

\* A job that returns is done or idle.
LEMMA ReturnEffect ==
    ASSUME TypeOK, NEW j \in Jobs, NEW result \in Results, Return(j, result)
    PROVE  /\ j \in Symbols => job'[j].pc = "done" /\ job'[j].result = result
           /\ j \notin Symbols => job'[j].pc = "idle"
           /\ \A i \in Jobs : i # j => job'[i] = job[i]
  <1>1. PICK x : /\ Moves(j, x)
                 /\ j \in Symbols => x.pc = "done" /\ x.result = result
                 /\ j \notin Symbols => x = IdleJob
    BY ReturnMoves
  <1>2. job'[j] = x /\ \A i \in Jobs : i # j => job'[i] = job[i]
    BY <1>1, MovesEffect
  <1>3. IdleJob.pc = "idle"
    BY DEF IdleJob
  <1> QED BY <1>1, <1>2, <1>3

\* An analysis stores the bar of a candle it has read.
LEMMA BarStep ==
    ASSUME TypeOK, BarInv, [Next]_vars
    PROVE  BarInv'
  <1> SUFFICES ASSUME NEW i \in Jobs, job'[i].pc = "store" PROVE job'[i].bar \in Bars
    BY DEF BarInv
  <1>1. CASE job'[i] = job[i]
    BY <1>1 DEF BarInv
  <1>2. ASSUME NEW j \in Jobs, NEW result \in Results, Return(j, result) PROVE job'[i].bar \in Bars
    BY <1>1, <1>2, ReturnEffect
  <1>3. ASSUME NEW j \in Jobs, Analyze(j) PROVE job'[i].bar \in Bars
    <2>1. ASSUME NEW x, Moves(j, x), Enough(job[j].symbol), x.bar = newest[job[j].symbol]
          PROVE  job'[i].bar \in Bars
      <3>1. newest[job[j].symbol] \in Bars
        <4>1. newest[job[j].symbol] \in 0 .. MaxBar /\ newest[job[j].symbol] # 0
          BY <2>1, JobFields DEF Enough, TypeOK
        <4> QED BY <4>1 DEF Bars
      <3> QED BY <2>1, <3>1, <1>1, MovesEffect
    <2> QED BY <1>2, <1>3, <2>1, AnalyzeMoves DEF Results
  <1>4. ASSUME NEW j \in Jobs, Store(j) PROVE job'[i].bar \in Bars
    <2>1. job[j].bar \in Bars
      BY <1>4 DEF Store, BarInv
    <2>2. PICK x : Moves(j, x) /\ x.bar = job[j].bar
      BY <1>4, StoreMoves
    <2> QED BY <1>1, <2>1, <2>2, MovesEffect
  <1>5. ASSUME NEW s \in Symbols, Load(s) PROVE job'[i].bar \in Bars
    <2>1. s \in Jobs
      BY DEF Jobs
    <2>2. ASSUME NEW x, Moves(s, x), x.pc = "analyze" PROVE job'[i].bar \in Bars
      BY <1>1, <2>1, <2>2, MovesEffect
    <2> QED BY <1>2, <1>5, <2>1, <2>2, LoadMoves DEF Results
  <1>6. ASSUME NEW a \in Agents, NEW s \in Symbols, Call(a, s) PROVE job'[i].bar \in Bars
    <2>1. a \in Jobs
      BY DEF Jobs
    <2> QED BY <1>1, <1>6, <2>1, CallMoves, MovesEffect
  <1>7. ASSUME NEW j \in Jobs, Hook(j) \/ Fail(j) PROVE job'[i].bar \in Bars
    BY <1>2, <1>7 DEF Hook, Fail, Results
  <1>8. CASE BeginPass
    BY <1>1, <1>8, IdleTyped DEF BeginPass
  <1>9. CASE EndPass
    BY <1>1, <1>9, IdleTyped DEF EndPass
  <1>10. CASE Crash
    BY <1>10, IdleTyped DEF Crash
  <1> QED BY <1>1, <1>3, <1>4, <1>5, <1>6, <1>7, <1>8, <1>9, <1>10
          DEF Next, JobStep, vars, CloseBar, StoreCandles

\* A worker's analysis that does not move keeps what it has done.
LEMMA WorkFrame ==
    ASSUME TypeOK, OpenIsNewest, BarInv, [Next]_vars, NEW s \in Symbols, WorkOK(s),
           job'[s] = job[s], UNCHANGED target
    PROVE  WorkOK(s)'
  <1>1. target \in Nat
    BY BoundAssumption DEF TypeOK
  <1>2. \A t \in Tables : Reached(rows[<<t, s>>], target) => Reached(rows'[<<t, s>>], target)
    BY <1>1, ReachedStep DEF Series
  <1>3. newest[s] >= target => newest'[s] >= target
    <2>1. ASSUME NEW u \in Symbols, StoreCandles(u) PROVE newest'[s] >= newest[s]
      <3>1. PICK b \in newest[u] + 1 .. closed : newest' = [newest EXCEPT ![u] = b]
        BY <2>1 DEF StoreCandles
      <3>2. newest \in [Symbols -> 0 .. MaxBar] /\ closed \in 0 .. MaxBar
        BY DEF TypeOK, Bars
      <3> QED BY ONLY <3>1, <3>2, s \in Symbols, u \in Symbols, BoundAssumption
    <2>2. CASE UNCHANGED newest
      BY <2>2
    <2>3. TypeOK'
      BY TypeStep
    <2>4. newest[s] \in 0 .. MaxBar /\ newest'[s] \in 0 .. MaxBar
      BY <2>3 DEF TypeOK
    <2>5. UNCHANGED newest \/ \E u \in Symbols : StoreCandles(u)
      BY DEF Next, JobStep, vars, CloseBar, Load, Call, Analyze, Store, Hook, Fail,
             BeginPass, EndPass, Crash
    <2> QED BY <1>1, <2>1, <2>2, <2>4, <2>5, BoundAssumption
  <1> QED BY <1>2, <1>3 DEF WorkOK

\* The worker's own analysis.
LEMMA WorkOwnStep ==
    ASSUME TypeOK, OpenIsNewest, BarInv, WorkInv, [Next]_vars, NEW s \in Symbols, UNCHANGED target,
           JobStep(s) \/ Fail(s) \/ Load(s)
    PROVE  WorkOK(s)'
  <1>1. s \in Jobs /\ WorkOK(s) /\ target \in Nat /\ target <= closed
    BY BoundAssumption DEF Jobs, WorkInv, TypeOK
  <1>2. target # 0 /\ job[s].symbol = s
    BY <1>1 DEF WorkOK, JobStep, Analyze, Store, Hook, Fail, Load
  <1>3. ASSUME NEW result \in Results, Return(s, result),
               result = "true" => \A t \in Tables : Reached(rows'[<<t, s>>], target),
               result = "insufficient" => target < MinBar[s]
        PROVE  WorkOK(s)'
    <2>1. job'[s].pc = "done" /\ job'[s].result = result
      BY <1>1, <1>3, ReturnEffect
    <2> QED BY <1>2, <1>3, <2>1 DEF WorkOK
  <1>4. CASE Analyze(s)
    <2>1. newest[s] >= target /\ newest[s] \in Nat
      <3>1. newest[s] \in Nat
        BY BoundAssumption DEF TypeOK
      <3> QED BY <1>1, <1>4, <3>1 DEF WorkOK, Analyze
    <2>2. CASE ~Enough(s) /\ Return(s, "insufficient")
      <3>1. newest[s] = 0 \/ newest[s] < MinBar[s]
        BY <2>1, <2>2, MinBarAssumption DEF Enough
      <3>2. target < MinBar[s]
        BY <1>1, <1>2, <2>1, <3>1, MinBarAssumption
      <3> QED BY <1>3, <2>2, <3>2 DEF Results
    <2>3. ASSUME NEW x, Moves(s, x), x.pc = "store", x.bar = newest[s], x.table = 1, x.symbol = s
          PROVE  WorkOK(s)'
      <3>1. job'[s] = x
        BY <1>1, <2>3, MovesEffect
      <3>2. \A t \in Tables : ~(t < 1)
        BY TableAssumption DEF Tables
      <3> QED BY <1>2, <2>1, <2>3, <3>1, <3>2 DEF WorkOK
    <2> QED BY <1>1, <1>2, <1>4, <2>2, <2>3, AnalyzeMoves
  <1>5. CASE Store(s)
    <2>1. PICK x : /\ Moves(s, x)
                   /\ x.symbol = s /\ x.bar = job[s].bar
                   /\ \/ x.pc = "store" /\ x.table = job[s].table + 1
                      \/ x.pc = "hook" /\ job[s].table + 1 \notin Tables
      BY <1>1, <1>2, <1>5, StoreMoves
    <2>2. job'[s] = x
      BY <1>1, <2>1, MovesEffect
    <2>3. job[s].pc = "store" /\ job[s].bar \in Bars /\ job[s].bar >= target /\ job[s].table \in Tables
      BY <1>1, <1>5, JobFields DEF Store, WorkOK, BarInv
    <2>4. \A t \in Tables : t < job[s].table => Reached(rows[<<t, s>>], target)
      BY <1>1, <2>3 DEF WorkOK
    <2>5. \A t \in Tables : t < job[s].table => Reached(rows'[<<t, s>>], target)
      BY <1>1, <2>4, ReachedStep DEF Series
    <2>6. Reached(rows'[<<job[s].table, s>>], target)
      <3>1. StoredIn(<<job[s].table, s>>, job[s].bar, job[s].payload)
        BY <1>1, <1>2, <1>5, StoreStores
      <3> DEFINE rn == rows'[<<job[s].table, s>>]
      <3>2. PICK n \in DOMAIN rn : IsCurrent(rn, n) /\ rn[n].from >= job[s].bar
        BY <2>3, <3>1, StoredCurrent DEF StoredIn
      <3>3. rn \in Seq(Row)
        BY <3>1 DEF StoredIn, Stored
      <3>4. rn[n].from \in Bars
        BY <3>2, <3>3, RowFields
      <3>5. rn[n].from >= target
        BY <1>1, <2>3, <3>2, <3>4, BoundAssumption DEF Bars
      <3> QED BY <3>2, <3>5 DEF Reached, IsCurrent
    <2>7. CASE x.pc = "store" /\ x.table = job[s].table + 1
      <3>1. \A t \in Tables : t < x.table => t < job[s].table \/ t = job[s].table
        BY <2>3, <2>7, TableAssumption DEF Tables
      <3> QED BY <1>2, <2>1, <2>2, <2>3, <2>5, <2>6, <2>7, <3>1 DEF WorkOK
    <2>8. CASE x.pc = "hook" /\ job[s].table + 1 \notin Tables
      <3>1. \A t \in Tables : t < job[s].table \/ t = job[s].table
        BY <2>3, <2>8, TableAssumption DEF Tables
      <3> QED BY <1>2, <2>1, <2>2, <2>5, <2>6, <2>8, <3>1 DEF WorkOK
    <2> QED BY <2>1, <2>7, <2>8
  <1>6. CASE Hook(s)
    <2>1. \A t \in Tables : Reached(rows'[<<t, s>>], target)
      BY <1>1, <1>6 DEF Hook, WorkOK
    <2> QED BY <1>3, <1>6, <2>1 DEF Hook, Results
  <1>7. CASE Fail(s)
    BY <1>3, <1>7 DEF Fail, Results
  <1>8. CASE Load(s)
    <2>1. CASE Return(s, "false")
      BY <1>3, <2>1 DEF Results
    <2>2. ASSUME NEW x, Moves(s, x), x.pc = "analyze", x.symbol = s, Fresh(s) PROVE WorkOK(s)'
      <3>1. job'[s] = x
        BY <1>1, <2>2, MovesEffect
      <3>2. newest[s] >= target
        BY <1>1, <2>2, BoundAssumption DEF Fresh, TypeOK, Bars
      <3>3. newest'[s] >= target
        BY <1>8, <3>2 DEF Load
      <3> QED BY <1>2, <2>2, <3>1, <3>3 DEF WorkOK
    <2> QED BY <1>2, <1>8, <2>1, <2>2, LoadMoves
  <1> QED BY <1>4, <1>5, <1>6, <1>7, <1>8 DEF JobStep

\* The worker's analyses keep their promises.
LEMMA WorkStep ==
    ASSUME TypeOK, OpenIsNewest, BarInv, WorkInv, [Next]_vars
    PROVE  WorkInv'
  <1>1. target' <= closed'
    <2>1. target' \in {target, closed, 0} /\ (UNCHANGED closed \/ closed' = closed + 1)
      BY DEF Next, JobStep, vars, CloseBar, StoreCandles, Load, Call, Analyze, Store, Hook, Fail,
             BeginPass, EndPass, Crash
    <2> QED BY ONLY <2>1, TypeOK, WorkInv, BoundAssumption DEF TypeOK, WorkInv, Bars
  <1> SUFFICES ASSUME NEW s \in Symbols PROVE WorkOK(s)'
    BY <1>1 DEF WorkInv
  <1>2. s \in Jobs /\ WorkOK(s)
    BY DEF Jobs, WorkInv
  <1>3. ASSUME NEW j \in Jobs, j # s, JobStep(j) \/ Fail(j) PROVE job'[s] = job[s] /\ UNCHANGED target
    <2>1. ASSUME NEW x, Moves(j, x) PROVE job'[s] = job[s]
      BY <1>2, <1>3, <2>1, MovesEffect
    <2>2. ASSUME NEW result \in Results, Return(j, result) PROVE job'[s] = job[s]
      BY <1>2, <1>3, <2>2, ReturnEffect
    <2>3. UNCHANGED target
      BY <1>3 DEF JobStep, Analyze, Store, Hook, Fail
    <2>4. CASE Analyze(j)
      BY <2>1, <2>2, <2>3, <2>4, AnalyzeMoves DEF Results
    <2>5. CASE Store(j)
      BY <2>1, <2>3, <2>5, StoreMoves
    <2>6. CASE Hook(j) \/ Fail(j)
      BY <2>2, <2>3, <2>6 DEF Hook, Fail, Results
    <2> QED BY <1>3, <2>4, <2>5, <2>6 DEF JobStep
  <1>4. ASSUME NEW u \in Symbols, u # s, Load(u) PROVE job'[s] = job[s] /\ UNCHANGED target
    <2>1. u \in Jobs /\ UNCHANGED target
      BY <1>4 DEF Jobs, Load
    <2>2. ASSUME NEW x, Moves(u, x) PROVE job'[s] = job[s]
      BY <1>2, <1>4, <2>1, <2>2, MovesEffect
    <2>3. CASE Return(u, "false")
      BY <1>2, <1>4, <2>1, <2>3, ReturnEffect DEF Results
    <2> QED BY <1>4, <2>1, <2>2, <2>3, LoadMoves
  <1>5. ASSUME NEW a \in Agents, NEW u \in Symbols, Call(a, u) PROVE job'[s] = job[s] /\ UNCHANGED target
    <2>1. a \in Jobs /\ a # s /\ UNCHANGED target
      BY <1>5, JobAssumption DEF Jobs, Call
    <2> QED BY <1>2, <1>5, <2>1, CallMoves, MovesEffect
  <1>6. CASE BeginPass
    <2>1. job'[s] = [IdleJob EXCEPT !.pc = "load", !.symbol = s] /\ target' = closed
      BY <1>2, <1>6 DEF BeginPass
    <2>2. job'[s].pc = "load" /\ job'[s].symbol = s
      BY <2>1, IdleTyped
    <2>3. target' # 0
      BY <2>1, BoundAssumption DEF TypeOK, Bars
    <2> QED BY <2>2, <2>3 DEF WorkOK
  <1>7. CASE EndPass \/ Crash
    <2>1. job'[s].pc = "idle"
      <3>1. job'[s] = IdleJob
        BY <1>2, <1>7 DEF EndPass, Crash
      <3> QED BY <3>1 DEF IdleJob
    <2> QED BY <2>1 DEF WorkOK
  <1>8. CASE job'[s] = job[s] /\ UNCHANGED target
    BY <1>2, <1>8, WorkFrame
  <1>9. CASE JobStep(s) \/ Fail(s) \/ Load(s)
    <2>1. UNCHANGED target
      BY <1>9 DEF JobStep, Analyze, Store, Hook, Fail, Load
    <2> QED BY <1>9, <2>1, WorkOwnStep
  <1> QED BY <1>3, <1>4, <1>5, <1>6, <1>7, <1>8, <1>9 DEF Next, vars, CloseBar, StoreCandles

\* The marker moves only after a pass in which every table of every symbol reached it.
LEMMA MarkerStep ==
    ASSUME TypeOK, OpenIsNewest, BarInv, WorkInv, MarkerInv, [Next]_vars
    PROVE  MarkerInv'
  <1>1. \A c \in Nat, s \in Symbols, t \in Tables : Reached(rows[<<t, s>>], c) => Reached(rows'[<<t, s>>], c)
    BY ReachedStep DEF Series
  <1>2. marker \in Nat /\ target \in Nat
    BY BoundAssumption DEF TypeOK
  <1>3. CASE UNCHANGED marker
    BY <1>1, <1>2, <1>3 DEF MarkerInv
  <1>4. CASE EndPass
    <2>1. CASE \A s \in Symbols : job[s].result \in {"true", "insufficient"}
      <3>1. marker' = target /\ rows' = rows /\ \A s \in Symbols : job[s].pc = "done"
        BY <1>4, <2>1 DEF EndPass
      <3>2. \A s \in Symbols : target < MinBar[s] \/ \A t \in Tables : Reached(rows[<<t, s>>], target)
        BY <2>1, <3>1 DEF WorkInv, WorkOK
      <3> QED BY <3>1, <3>2 DEF MarkerInv
    <2>2. CASE ~\A s \in Symbols : job[s].result \in {"true", "insufficient"}
      BY <1>3, <1>4, <2>2 DEF EndPass
    <2> QED BY <2>1, <2>2
  <1>5. CASE Crash
    BY <1>5 DEF Crash, MarkerInv
  <1> QED BY <1>3, <1>4, <1>5
          DEF Next, JobStep, vars, CloseBar, StoreCandles, Load, Call, Analyze, Store, Hook, Fail, BeginPass

-----------------------------------------------------------------------------
(* The theorems *)

\* The daemon starts with empty tables, idle analyses and no marker.
LEMMA InitAInv == Init => AInv
  <1> SUFFICES ASSUME Init PROVE AInv
    OBVIOUS
  <1> USE BoundAssumption DEF Init
  <1>1. TypeOK
    <2>1. \A k \in Series : rows[k] \in Seq(Row)
      OBVIOUS
    <2>2. rows \in [Series -> Seq(Row)]
      BY <2>1
    <2>3. job \in [Jobs -> JobState]
      BY IdleTyped
    <2>4. newest \in [Symbols -> 0 .. MaxBar]
      OBVIOUS
    <2> QED BY <2>2, <2>3, <2>4 DEF TypeOK, Bars
  <1>2. OpenIsNewest
    BY DEF OpenIsNewest
  <1>3. BarInv
    BY IdleTyped DEF BarInv
  <1>4. WorkInv
    <2>1. \A s \in Symbols : job[s].pc = "idle"
      BY IdleTyped DEF Jobs
    <2>2. target <= closed
      OBVIOUS
    <2> QED BY ONLY <2>1, <2>2 DEF WorkInv, WorkOK
  <1>5. MarkerInv
    BY DEF MarkerInv
  <1> QED BY <1>1, <1>2, <1>3, <1>4, <1>5 DEF AInv

\* Every step keeps the invariant.
LEMMA AInvStep == AInv /\ [Next]_vars => AInv'
  BY TypeStep, OpenStep, BarStep, WorkStep, MarkerStep DEF AInv

\* The invariant of the analysis tables and of the worker.
THEOREM AnalysisInvariant == Spec => []AInv
  BY InitAInv, AInvStep, PTL DEF Spec

\* Whatever analyses of a symbol interleave, fail between two tables or are cut off by a
\* restart: a series has one open row, and it is the newest (_read_current, _read_history).
THEOREM OneCurrentRow == Spec => []OpenIsNewest
  <1>1. AInv => OpenIsNewest
    BY DEF AInv
  <1> QED BY <1>1, AnalysisInvariant, PTL

\* Every step keeps the rows of every series.
LEMMA KeptStep ==
    ASSUME AInv, [Next]_vars, NEW h \in Series
    PROVE  Kept(rows[h], rows'[h])
  <1> USE DEF AInv
  <1>1. CASE UNCHANGED rows
    BY <1>1 DEF Kept
  <1>2. CASE ~UNCHANGED rows
    <2>1. PICK j \in Jobs : /\ Store(j)
                            /\ StoredIn(<<job[j].table, job[j].symbol>>, job[j].bar, job[j].payload)
      BY <1>2, RowsStep
    <2> DEFINE k == <<job[j].table, job[j].symbol>>
    <2>2. k \in Series
      BY JobFields
    <2>3. CASE h # k
      <3>1. rows'[h] = rows[h]
        BY <2>1, <2>2, <2>3, OtherSeries
      <3> QED BY <3>1 DEF Kept
    <2>4. CASE h = k
      BY <2>1, <2>4 DEF StoredIn, Stored
    <2> QED BY <2>3, <2>4
  <1> QED BY <1>1, <1>2

\* _store_payload never overwrites: a row stays, and its effective_to is set at most once.
THEOREM HistoryImmutable == Spec => HistoryKept
  <1>1. AInv /\ [Next]_vars =>
          [\A k \in Series : \A i \in DOMAIN rows[k] :
              /\ i \in DOMAIN rows'[k]
              /\ rows'[k][i].from = rows[k][i].from
              /\ rows'[k][i].payload = rows[k][i].payload
              /\ rows[k][i].to # Null => rows'[k][i].to = rows[k][i].to]_vars
    <2> SUFFICES ASSUME AInv, [Next]_vars
                 PROVE  \A k \in Series : \A i \in DOMAIN rows[k] :
                           /\ i \in DOMAIN rows'[k]
                           /\ rows'[k][i].from = rows[k][i].from
                           /\ rows'[k][i].payload = rows[k][i].payload
                           /\ rows[k][i].to # Null => rows'[k][i].to = rows[k][i].to
      OBVIOUS
    <2> QED BY KeptStep DEF Kept
  <1> QED BY <1>1, AnalysisInvariant, PTL DEF Spec, HistoryKept

-----------------------------------------------------------------------------
(* The intervals of a series *)

\* The rows of r are not inverted and leave no bar uncovered from the oldest one on.
ValidAt(row, c) == row.from <= c /\ (row.to = Null \/ c <= row.to)

Intervals(r) ==
    /\ \A i \in DOMAIN r : r[i].to # Null => r[i].from <= r[i].to
    /\ \A c \in Bars : (\E i \in DOMAIN r : r[i].from <= c) => \E i \in DOMAIN r : ValidAt(r[i], c)

LEMMA CoverIs == IntervalsCover <=> \A k \in Series : Intervals(rows[k])
  BY DEF IntervalsCover, Intervals, ValidAt

\* A row is closed at the bar of its successor or at the one before.
LEMMA SupersedesCovers ==
    ASSUME NEW r \in Seq(Row), NEW i \in DOMAIN r, Intervals(r), NEW b \in Bars, NEW to \in Bars,
           r[i].from <= to, b <= to + 1, NEW p \in Payloads, NEW rn,
           rn = Append([r EXCEPT ![i].to = to], NewRow(b, Null, p))
    PROVE  Intervals(rn)
  <1> DEFINE n == Len(r) + 1
  <1>1. PICK rc : rc = [r EXCEPT ![i].to = to]
    OBVIOUS
  <1>2. /\ rc \in Seq(Row)
        /\ Len(rc) = Len(r) /\ DOMAIN rc = DOMAIN r
        /\ \A j \in DOMAIN r : j # i => rc[j] = r[j]
        /\ rc[i].from = r[i].from /\ rc[i].to = to
    BY ONLY <1>1, Closed, r \in Seq(Row), i \in DOMAIN r, to \in Bars
  <1>3. PICK x : x = NewRow(b, Null, p)
    OBVIOUS
  <1>4. x \in Row /\ x.from = b /\ x.to = Null
    BY <1>3 DEF NewRow, Row
  <1>5. rn = Append(rc, x)
    BY <1>1, <1>3
  <1>6. /\ DOMAIN rn = DOMAIN r \cup {n}
        /\ n \notin DOMAIN r
        /\ \A j \in DOMAIN r : rn[j] = rc[j]
        /\ rn[n] = x
    BY ONLY <1>2, <1>4, <1>5, r \in Seq(Row)
  <1> HIDE DEF n
  <1>7. /\ \A j \in DOMAIN r : rn[j].from = r[j].from
        /\ \A j \in DOMAIN r : j # i => rn[j] = r[j]
        /\ rn[i].to = to
    BY <1>2, <1>6
  <1>8. ASSUME NEW j \in DOMAIN rn, rn[j].to # Null PROVE rn[j].from <= rn[j].to
    BY <1>4, <1>6, <1>7, <1>8 DEF Intervals
  <1>9. ASSUME NEW c \in Bars, NEW j \in DOMAIN rn, rn[j].from <= c
        PROVE  \E l \in DOMAIN rn : ValidAt(rn[l], c)
    <2>1. CASE b <= c
      BY <1>4, <1>6, <2>1 DEF ValidAt
    <2>2. CASE ~(b <= c)
      <3>1. c <= to
        BY ONLY <2>2, b <= to + 1, b \in Bars, c \in Bars, to \in Bars, BarsNotNull
      <3>2. j \in DOMAIN r /\ r[j].from <= c
        BY <1>4, <1>6, <1>7, <1>9, <2>2
      <3>3. PICK l \in DOMAIN r : ValidAt(r[l], c)
        BY <3>2 DEF Intervals
      <3>4. ValidAt(rn[l], c)
        BY <1>7, <3>1, <3>3 DEF ValidAt
      <3> QED BY <1>6, <3>4
    <2> QED BY <2>1, <2>2
  <1> QED BY <1>8, <1>9 DEF Intervals

\* A closed row is added that reaches up to the bars that are covered already.
LEMMA InsertsCover ==
    ASSUME NEW r \in Seq(Row), Intervals(r), NEW b \in Bars, NEW to \in Bars, NEW p \in Payloads,
           b <= to,
           \A c \in Bars : b <= c => c <= to \/ \E i \in DOMAIN r : r[i].from <= c,
           NEW rn, rn = Append(r, NewRow(b, to, p))
    PROVE  Intervals(rn)
  <1> DEFINE n == Len(r) + 1
  <1>1. /\ DOMAIN rn = DOMAIN r \cup {n}
        /\ \A j \in DOMAIN r : rn[j] = r[j]
        /\ rn[n].from = b /\ rn[n].to = to
    BY RowTyped, Appended
  <1> HIDE DEF n
  <1>2. ASSUME NEW j \in DOMAIN rn, rn[j].to # Null PROVE rn[j].from <= rn[j].to
    BY <1>1, <1>2 DEF Intervals
  <1>3. ASSUME NEW c \in Bars, NEW j \in DOMAIN rn, rn[j].from <= c
        PROVE  \E l \in DOMAIN rn : ValidAt(rn[l], c)
    <2>1. CASE \E l \in DOMAIN r : r[l].from <= c
      <3>1. PICK l \in DOMAIN r : ValidAt(r[l], c)
        BY <2>1 DEF Intervals
      <3> QED BY <1>1, <3>1
    <2>2. CASE ~ \E l \in DOMAIN r : r[l].from <= c
      <3>1. b <= c /\ c <= to
        BY <1>1, <1>3, <2>2
      <3> QED BY <1>1, <3>1 DEF ValidAt
    <2> QED BY <2>1, <2>2
  <1> QED BY <1>2, <1>3 DEF Intervals

\* The first row of a series covers every bar from its own on.
LEMMA OpensCovers ==
    ASSUME NEW b \in Bars, NEW p \in Payloads, NEW rn, rn = Append(<<>>, NewRow(b, Null, p))
    PROVE  Intervals(rn)
  <1>1. DOMAIN rn = {1} /\ rn[1].from = b /\ rn[1].to = Null
    <2>1. <<>> \in Seq(Row) /\ Len(<<>>) = 0
      OBVIOUS
    <2> QED BY <2>1, RowTyped, Appended
  <1> QED BY <1>1 DEF Intervals, ValidAt

\* The four cases of _store_payload.
LEMMA PayloadCovers ==
    ASSUME AInv, NEW k \in Series, NEW b \in Bars, NEW p \in Payloads, StorePayload(k, b, p),
           Intervals(rows[k])
    PROVE  Intervals(rows'[k])
  <1> DEFINE r == rows[k]
  <1>1. r \in Seq(Row) /\ rows \in [Series -> Seq(Row)]
    BY DEF AInv, TypeOK
  <1> USE BarsNotNull
  <1>2. CASE Revise(k, b, p)
    <2>1. PICK i \in DOMAIN r :
            /\ r[i].from = b
            /\ \/ UNCHANGED rows
               \/ rows' = [rows EXCEPT ![k] = Append([r EXCEPT ![i].to = b], NewRow(b, Null, p))]
               \/ /\ r[i].to # Null
                  /\ rows' = [rows EXCEPT ![k] = Append(r, NewRow(b, r[i].to, p))]
      BY <1>2 DEF Revise, IsSameBar
    <2> HIDE DEF r
    <2>2. CASE UNCHANGED rows
      BY <2>2
    <2>3. CASE rows' = [rows EXCEPT ![k] = Append([r EXCEPT ![i].to = b], NewRow(b, Null, p))]
      <3>1. rows'[k] = Append([r EXCEPT ![i].to = b], NewRow(b, Null, p))
        BY <1>1, <2>3
      <3>2. Intervals(r) /\ r[i].from <= b /\ b <= b + 1
        BY <2>1 DEF r
      <3> QED BY <1>1, <3>1, <3>2, SupersedesCovers
    <2>4. CASE r[i].to # Null /\ rows' = [rows EXCEPT ![k] = Append(r, NewRow(b, r[i].to, p))]
      <3>1. rows'[k] = Append(r, NewRow(b, r[i].to, p))
        BY <1>1, <2>4
      <3>2. r[i].to \in Bars /\ Intervals(r)
        BY <1>1, <2>4, RowFields DEF r
      <3>3. b <= r[i].to
        BY <2>1, <2>4, <3>2 DEF Intervals
      <3>4. \A c \in Bars : b <= c => \E l \in DOMAIN r : r[l].from <= c
        BY <2>1
      <3> QED BY <1>1, <3>1, <3>2, <3>3, <3>4, InsertsCover
    <2> QED BY <2>1, <2>2, <2>3, <2>4
  <1>3. CASE Open(k, b, p)
    <2>1. r = <<>>
      BY <1>3 DEF AInv, Open, OpenIsNewest
    <2>2. rows'[k] = Append(<<>>, NewRow(b, Null, p))
      BY <1>1, <1>3, <2>1 DEF Open
    <2> QED BY <2>2, OpensCovers
  <1>4. CASE Forward(k, b, p)
    <2>1. PICK i \in DOMAIN r :
            /\ b > r[i].from
            /\ rows' = [rows EXCEPT ![k] = Append([r EXCEPT ![i].to = b - 1], NewRow(b, Null, p))]
      BY <1>4 DEF Forward
    <2>2. r[i].from \in Bars
      BY <1>1, RowFields
    <2>3. b - 1 \in Bars /\ r[i].from <= b - 1 /\ b <= (b - 1) + 1
      BY ONLY <2>1, <2>2, b \in Bars, BoundAssumption DEF Bars
    <2> HIDE DEF r
    <2>4. rows'[k] = Append([r EXCEPT ![i].to = b - 1], NewRow(b, Null, p))
      BY <1>1, <2>1
    <2>5. Intervals(r)
      BY DEF r
    <2> QED BY <1>1, <2>3, <2>4, <2>5, SupersedesCovers
  <1>5. CASE Backward(k, b, p)
    <2>1. PICK m \in Bars : /\ IsNextFrom(r, b, m)
                            /\ rows' = [rows EXCEPT ![k] = Append(r, NewRow(b, m - 1, p))]
      BY <1>5 DEF Backward
    <2>2. m > b
      BY <2>1 DEF IsNextFrom
    <2>3. m - 1 \in Bars /\ b <= m - 1
      BY ONLY <2>2, m \in Bars, b \in Bars, BoundAssumption DEF Bars
    <2>4. PICK l \in DOMAIN r : r[l].from = m
      BY <2>1 DEF IsNextFrom
    <2>5. \A c \in Bars : b <= c => c <= m - 1 \/ r[l].from <= c
      BY <2>4
    <2> HIDE DEF r
    <2>6. rows'[k] = Append(r, NewRow(b, m - 1, p))
      BY <1>1, <2>1
    <2>7. Intervals(r)
      BY DEF r
    <2> QED BY <1>1, <2>3, <2>5, <2>6, <2>7, InsertsCover
  <1> QED BY <1>2, <1>3, <1>4, <1>5 DEF StorePayload

\* Every step keeps the intervals.
LEMMA CoverStep ==
    ASSUME AInv, IntervalsCover, [Next]_vars
    PROVE  IntervalsCover'
  <1> SUFFICES ASSUME NEW h \in Series PROVE Intervals(rows'[h])
    BY DEF IntervalsCover, Intervals, ValidAt
  <1>1. Intervals(rows[h])
    BY CoverIs
  <1>2. CASE UNCHANGED rows
    BY <1>1, <1>2
  <1>3. CASE ~UNCHANGED rows
    <2> USE DEF AInv
    <2>1. PICK j \in Jobs : /\ Store(j)
                            /\ StoredIn(<<job[j].table, job[j].symbol>>, job[j].bar, job[j].payload)
      BY <1>3, RowsStep
    <2> DEFINE k == <<job[j].table, job[j].symbol>>
    <2>2. k \in Series /\ job[j].payload \in Payloads
      BY JobFields
    <2>3. job[j].bar \in Bars /\ StorePayload(k, job[j].bar, job[j].payload)
      BY <2>1 DEF Store, BarInv
    <2>4. CASE h # k
      BY <1>1, <2>1, <2>2, <2>4, OtherSeries
    <2>5. CASE h = k
      BY <1>1, <2>2, <2>3, <2>5, PayloadCovers
    <2> QED BY <2>4, <2>5
  <1> QED BY <1>2, <1>3

\* However bars and revisions are stored out of order: no interval of the history is
\* inverted, and from the oldest row on some row is valid at every bar.
THEOREM HistoryCovered == Spec => []IntervalsCover
  <1>1. Init => IntervalsCover
    BY DEF Init, IntervalsCover
  <1>2. AInv /\ IntervalsCover /\ [Next]_vars => IntervalsCover'
    BY CoverStep
  <1> QED BY <1>1, <1>2, AnalysisInvariant, PTL DEF Spec

-----------------------------------------------------------------------------
(* What readers see *)

\* What _read_current returns for the rows r of a series.
CurrentOf(r) ==
    IF \E i \in DOMAIN r : r[i].to = Null
    THEN LET i == CHOOSE i \in DOMAIN r : r[i].to = Null
         IN  [bar |-> r[i].from, payload |-> r[i].payload]
    ELSE [bar |-> Null, payload |-> CHOOSE p \in Payloads : TRUE]

\* The current records are those of the series.
LEMMA CurrentIs == Current = [k \in Series |-> CurrentOf(rows[k])]
  BY DEF Current, CurrentOf

\* The current row is the one that is read.
LEMMA CurrentRow ==
    ASSUME NEW r, NEW i, IsCurrent(r, i)
    PROVE  CurrentOf(r) = [bar |-> r[i].from, payload |-> r[i].payload]
  <1>1. i \in DOMAIN r /\ r[i].to = Null
    BY DEF IsCurrent
  <1> DEFINE c == CHOOSE j \in DOMAIN r : r[j].to = Null
  <1>2. c \in DOMAIN r /\ r[c].to = Null
    BY <1>1
  <1>3. c = i
    BY <1>2, CurrentUnique
  <1>4. CurrentOf(r) = [bar |-> r[c].from, payload |-> r[c].payload]
    BY <1>1 DEF CurrentOf
  <1> QED BY <1>3, <1>4

\* A series without rows has no current record.
LEMMA NoCurrent == CurrentOf(<<>>).bar = Null
  BY DEF CurrentOf

\* A series that has reached a bar is read with that bar or a later one.
LEMMA ReachedCurrent ==
    ASSUME OpenIsNewest, NEW k \in Series, NEW c, Reached(rows[k], c)
    PROVE  Current[k].bar >= c
  <1>1. PICK i \in DOMAIN rows[k] : rows[k][i].to = Null /\ rows[k][i].from >= c
    BY DEF Reached
  <1>2. IsCurrent(rows[k], i)
    <2>1. rows[k] # <<>>
      BY <1>1
    <2>2. PICK j \in DOMAIN rows[k] : IsCurrent(rows[k], j)
      BY <2>1, HasCurrent
    <2> QED BY <1>1, <2>2, CurrentUnique
  <1>3. Current[k] = CurrentOf(rows[k])
    BY CurrentIs
  <1> QED BY <1>1, <1>2, <1>3, CurrentRow

\* _last_processed names a bar only when all tables of every symbol with enough candles have
\* it, although analyses fail, interleave and are repeated after a restart.
THEOREM MarkedBarsStored == Spec => []MarkedBarIsStored
  <1>1. AInv => MarkedBarIsStored
    <2> SUFFICES ASSUME AInv, marker # 0, NEW s \in Symbols, ~(marker < MinBar[s]), NEW t \in Tables
                 PROVE  Current[<<t, s>>].bar >= marker
      BY DEF MarkedBarIsStored
    <2>1. Reached(rows[<<t, s>>], marker)
      BY DEF AInv, MarkerInv
    <2> QED BY <2>1, ReachedCurrent DEF AInv, Series
  <1> QED BY <1>1, AnalysisInvariant, PTL

\* Before the first analysis no series has a current record.
LEMMA PublishedInit == Init => Published!Init
  <1> SUFFICES ASSUME Init, NEW k \in Series PROVE Current[k].bar = Published!None
    BY DEF Published!Init
  <1>1. Current[k] = CurrentOf(<<>>)
    BY CurrentIs DEF Init
  <1> QED BY <1>1, NoCurrent DEF Null, Published!None

\* A transaction publishes its result or leaves the current records as they are.
LEMMA StoredPublishes ==
    ASSUME TypeOK, OpenIsNewest, NEW k \in Series, NEW b \in Bars, NEW p \in Payloads, StoredIn(k, b, p)
    PROVE  Published!Publish(k, b, p) \/ Current' = Current
  <1>1. Current' = [h \in Series |-> CurrentOf(rows'[h])]
    BY DEF Current, CurrentOf
  <1>2. \A h \in Series : h # k => Current'[h] = Current[h]
    BY <1>1, CurrentIs, OtherSeries
  <1>3. Current[k] = CurrentOf(rows[k]) /\ Current'[k] = CurrentOf(rows'[k])
    BY <1>1, CurrentIs
  <1>4. CASE Stayed(rows[k], rows'[k], b)
    <2>1. PICK i \in DOMAIN rows[k] : /\ IsCurrent(rows[k], i) /\ IsCurrent(rows'[k], i)
                                      /\ rows'[k][i] = rows[k][i]
      BY <1>4 DEF Stayed
    <2>2. Current'[k] = Current[k]
      BY <1>3, <2>1, CurrentRow
    <2>3. \A h \in Series : Current'[h] = Current[h]
      BY <1>2, <2>2
    <2>4. Current' = [h \in Series |-> Current'[h]] /\ Current = [h \in Series |-> Current[h]]
      BY <1>1, CurrentIs
    <2> QED BY <2>3, <2>4
  <1>5. CASE Advanced(rows[k], rows'[k], b, p)
    <2>1. Current'[k] = [bar |-> b, payload |-> p]
      BY <1>3, <1>5, CurrentRow DEF Advanced
    <2>2. b >= Current[k].bar
      <3>1. CASE rows[k] = <<>>
        BY <1>3, <3>1, NoCurrent, BoundAssumption DEF Null, Bars
      <3>2. ASSUME NEW i \in DOMAIN rows[k], IsCurrent(rows[k], i) PROVE b >= Current[k].bar
        BY <1>3, <1>5, <3>2, CurrentRow DEF Advanced
      <3> QED BY <3>1, <3>2, HasCurrent
    <2>3. Current' = [Current EXCEPT ![k] = [bar |-> b, payload |-> p]]
      <3> DEFINE new == [Current EXCEPT ![k] = [bar |-> b, payload |-> p]]
      <3>1. Current = [h \in Series |-> CurrentOf(rows[h])]
        BY CurrentIs
      <3>2. new = [h \in Series |-> IF h = k THEN [bar |-> b, payload |-> p] ELSE Current[h]]
        BY <3>1
      <3>3. \A h \in Series : Current'[h] = IF h = k THEN [bar |-> b, payload |-> p] ELSE Current[h]
        BY <1>2, <2>1
      <3>4. Current' = [h \in Series |-> Current'[h]]
        BY <1>1
      <3> QED BY ONLY <3>2, <3>3, <3>4
    <2> QED BY <2>2, <2>3 DEF Published!Publish
  <1> QED BY <1>4, <1>5 DEF StoredIn, Stored

\* Every step publishes a result of the same or a later bar, or changes no current record.
LEMMA PublishedStep == AInv /\ [Next]_vars => [Published!Next]_Current
  <1> SUFFICES ASSUME AInv, [Next]_vars PROVE Published!Next \/ Current' = Current
    OBVIOUS
  <1> USE DEF AInv
  <1>1. CASE UNCHANGED rows
    BY <1>1 DEF Current
  <1>2. CASE ~UNCHANGED rows
    <2>1. PICK j \in Jobs : /\ Store(j)
                            /\ StoredIn(<<job[j].table, job[j].symbol>>, job[j].bar, job[j].payload)
      BY <1>2, RowsStep
    <2>2. <<job[j].table, job[j].symbol>> \in Series /\ job[j].bar \in Bars /\ job[j].payload \in Payloads
      BY <2>1, JobFields DEF Store, BarInv
    <2>3. \/ Published!Publish(<<job[j].table, job[j].symbol>>, job[j].bar, job[j].payload)
          \/ Current' = Current
      BY <2>1, <2>2, StoredPublishes
    <2> QED BY <2>2, <2>3 DEF Published!Next
  <1> QED BY <1>1, <1>2

\* The tables implement CurrentRecords: readers see the current analysis of a series move
\* from bar to bar, never back and never away, for every interleaving of the writers.
THEOREM ReadersMoveForward == Spec => CurrentMovesForward
  BY PublishedInit, PublishedStep, AnalysisInvariant, PTL DEF Spec, CurrentMovesForward, Published!Spec

-----------------------------------------------------------------------------
(* The candles that the analyses read (module KlineService) *)

CONSTANTS Handlers, PATasks, Workers, Limits, kline_catchup_bars, kline_backfill_bars, max_weight
VARIABLES bar, clockUp, universe, candles, queue, worker, callbacks, used, scheduler, req, phase,
          failures
Klines == INSTANCE KlineService WITH faults <- failures

\* Jobs, workers and requests
KlineJob ==
    [symbol : Symbols \cup {Klines!NoSymbol},
     limit : Limits \cup {0, kline_catchup_bars, kline_backfill_bars},
     priority : Nat, mapped : BOOLEAN, cancelled : BOOLEAN, waiters : SUBSET Klines!Requests]
WorkerState == [pc : {"idle", "fetch", "store", "settle"}, job : KlineJob, snap : Int]
RequestState == [pc : {"new", "decide", "await", "ended"}, symbol : Symbols \cup {Klines!NoSymbol},
                 seen : Int]

\* The types of the variables the jobs live in
KlineTypes ==
    /\ bar \in Int /\ universe \subseteq Symbols
    /\ queue \in Seq(KlineJob)
    /\ worker \in [Workers -> WorkerState]
    /\ req \in [Klines!Requests -> RequestState]

\* No task awaits j, and none can join it.
Unused(j) == j.waiters = {} /\ ~j.mapped

\* A worker that waits for a job holds none.
FreeWorkers == \A w \in Workers : worker[w].pc = "idle" => Unused(worker[w].job)

\* The inductive invariant
KlineInv == KlineTypes /\ FreeWorkers /\ Klines!NoForgottenRequest

\* r waits for job j of symbol s.
Serves(j, r, s) == r \in j.waiters /\ ~j.cancelled /\ j.symbol = s

\* A job in the queue or in the hands of a worker serves r.
Served(q, wk, r, s) ==
    \/ \E i \in DOMAIN q : Serves(q[i], r, s)
    \/ \E w \in Workers : Serves(wk[w].job, r, s)

\* A request that waits is served by a job of its symbol: NoForgottenRequest over positions.
LEMMA ServedIs ==
    Klines!NoForgottenRequest
      <=> \A r \in Klines!Requests : req[r].pc = "await" => Served(queue, worker, r, req[r].symbol)
  BY DEF Klines!NoForgottenRequest, Klines!Pending, Klines!ToSet, Served, Serves

\* The same in the next state
LEMMA ServedNext ==
    Klines!NoForgottenRequest'
      <=> \A r \in Klines!Requests : req'[r].pc = "await" => Served(queue', worker', r, req'[r].symbol)
  BY DEF Klines!NoForgottenRequest, Klines!Pending, Klines!ToSet, Served, Serves

\* The library operators of the instance are those of this module.
LEMMA CardinalitySame == ASSUME NEW S PROVE Klines!Cardinality(S) = Cardinality(S)
  BY Zenon DEF Klines!Cardinality, Cardinality

LEMMA MaxSame == ASSUME NEW S PROVE Klines!Max(S) = Max(S)
  BY DEF Klines!Max, Max

\* The newest candle of a symbol is a number.
LEMMA NewestInt == ASSUME NEW s PROVE Klines!Newest(s) \in Int
  <1> DEFINE B == {b \in 1 .. MaxBar : candles[s][b] # "none"}
  <1>1. Klines!Newest(s) = Max({0} \cup B)
    BY MaxSame DEF Klines!Newest
  <1>2. \E m \in {0} \cup B : \A y \in {0} \cup B : m >= y
    <2>1. CASE B = {}
      BY <2>1
    <2>2. CASE B # {}
      <3>1. PICK m \in B : \A y \in B : m >= y
        BY <2>2, MaxMember, BoundAssumption
      <3>2. m \in Nat
        BY <3>1, BoundAssumption
      <3> HIDE DEF B
      <3>3. \A y \in {0} \cup B : m >= y
        BY <3>1, <3>2
      <3> QED BY <3>1, <3>3
    <2> QED BY <2>1, <2>2
  <1>3. Max({0} \cup B) \in {0} \cup B
    BY <1>2 DEF Max
  <1> QED BY <1>1, <1>3

\* The number of jobs that new ones of priority p wait behind
Before(q, p) == Cardinality({i \in DOMAIN q : q[i].priority <= p})

\* all is q with the jobs new after the first n.
Places(q, new, all, n) ==
    /\ n \in 0 .. Len(q)
    /\ all \in Seq(KlineJob) /\ DOMAIN all = 1 .. n + Len(new) + (Len(q) - n)
    /\ \A i \in 1 .. n : all[i] = q[i]
    /\ \A i \in 1 .. Len(new) : all[n + i] = new[i]
    /\ \A i \in 1 .. Len(q) - n : all[n + Len(new) + i] = q[n + i]

\* New jobs come after those of at most their priority.
LEMMA PutPlaces ==
    ASSUME NEW q \in Seq(KlineJob), NEW new \in Seq(KlineJob), NEW p
    PROVE  Places(q, new, Klines!Put(q, new, p), Before(q, p))
  <1> DEFINE C == {i \in DOMAIN q : q[i].priority <= p}
             n == Before(q, p)
             a == SubSeq(q, 1, n)
             b == SubSeq(q, n + 1, Len(q))
             c == a \o new
             both == c \o b
  <1>1. Klines!Put(q, new, p) = both
    BY CardinalitySame DEF Klines!Put, Before
  <1>2. n \in 0 .. Len(q)
    <2>1. IsFiniteSet(1 .. Len(q)) /\ Cardinality(1 .. Len(q)) = Len(q)
      BY FS_Interval
    <2>2. C \in SUBSET (1 .. Len(q))
      OBVIOUS
    <2>3. IsFiniteSet(C) /\ Cardinality(C) <= Len(q)
      BY <2>1, <2>2, FS_Subset
    <2> QED BY <2>3, FS_CardinalityType DEF Before
  <1> HIDE DEF n
  <1>3. /\ a \in Seq(KlineJob) /\ Len(a) = n
        /\ \A i \in 1 .. n : a[i] = q[i]
    BY <1>2
  <1>4. /\ b \in Seq(KlineJob) /\ Len(b) = Len(q) - n
        /\ \A i \in 1 .. Len(q) - n : b[i] = q[n + i]
    BY <1>2
  <1> HIDE DEF a, b
  <1>5. /\ both \in Seq(KlineJob) /\ DOMAIN both = 1 .. n + Len(new) + (Len(q) - n)
        /\ \A i \in 1 .. n : both[i] = a[i]
        /\ \A i \in 1 .. Len(new) : both[n + i] = new[i]
        /\ \A i \in 1 .. Len(q) - n : both[n + Len(new) + i] = b[i]
    <2>1. /\ c \in Seq(KlineJob) /\ Len(c) = n + Len(new)
          /\ \A i \in 1 .. n : c[i] = a[i]
          /\ \A i \in 1 .. Len(new) : c[n + i] = new[i]
      <3>1. a \in Seq(KlineJob) /\ Len(a) = n /\ new \in Seq(KlineJob) /\ n \in Nat
        BY <1>2, <1>3
      <3> QED BY ONLY <3>1 DEF c
    <2> HIDE DEF c
    <2>2. /\ both \in Seq(KlineJob) /\ Len(both) = Len(c) + Len(b)
          /\ \A i \in 1 .. Len(c) : both[i] = c[i]
          /\ \A i \in 1 .. Len(b) : both[Len(c) + i] = b[i]
      <3>1. c \in Seq(KlineJob) /\ b \in Seq(KlineJob)
        BY <1>4, <2>1
      <3> QED BY ONLY <3>1 DEF both
    <2> HIDE DEF both
    <2>3. \A i \in 1 .. n : i \in 1 .. Len(c)
      BY <1>2, <2>1
    <2>4. \A i \in 1 .. Len(new) : n + i \in 1 .. Len(c)
      BY <1>2, <2>1
    <2>5. DOMAIN both = 1 .. n + Len(new) + (Len(q) - n)
      BY <1>4, <2>1, <2>2
    <2> QED BY <1>4, <2>1, <2>2, <2>3, <2>4, <2>5
  <1> HIDE DEF both
  <1> QED BY <1>1, <1>2, <1>3, <1>4, <1>5 DEF Places, n

\* The queue with new jobs has the jobs of both.
LEMMA PutJobs ==
    ASSUME NEW q \in Seq(KlineJob), NEW new \in Seq(KlineJob), NEW p, NEW all,
           all = Klines!Put(q, new, p)
    PROVE  /\ all \in Seq(KlineJob)
           /\ \A i \in DOMAIN q : \E k \in DOMAIN all : all[k] = q[i]
           /\ \A i \in DOMAIN new : \E k \in DOMAIN all : all[k] = new[i]
  <1>1. PICK n : n = Before(q, p)
    OBVIOUS
  <1>2. /\ n \in 0 .. Len(q)
        /\ all \in Seq(KlineJob) /\ DOMAIN all = 1 .. n + Len(new) + (Len(q) - n)
        /\ \A i \in 1 .. n : all[i] = q[i]
        /\ \A i \in 1 .. Len(new) : all[n + i] = new[i]
        /\ \A i \in 1 .. Len(q) - n : all[n + Len(new) + i] = q[n + i]
    <2>1. Places(q, new, all, n)
      BY <1>1, PutPlaces
    <2> QED BY <2>1 DEF Places
  <1>3. Len(q) \in Nat /\ Len(new) \in Nat /\ n \in Nat
    BY <1>2
  <1>4. ASSUME NEW i \in DOMAIN q PROVE \E k \in DOMAIN all : all[k] = q[i]
    <2>1. CASE i <= n
      <3>1. i \in DOMAIN all /\ all[i] = q[i]
        BY <1>2, <1>3, <2>1
      <3> QED BY <3>1
    <2>2. CASE i > n
      <3>1. i - n \in 1 .. Len(q) - n /\ n + (i - n) = i
        BY <1>3, <2>2
      <3>2. n + Len(new) + (i - n) \in DOMAIN all
        BY <1>2, <1>3, <3>1
      <3>3. all[n + Len(new) + (i - n)] = q[i]
        BY <1>2, <3>1
      <3> QED BY <3>2, <3>3
    <2>3. i \in Nat
      OBVIOUS
    <2> QED BY <1>3, <2>1, <2>2, <2>3
  <1>5. ASSUME NEW i \in DOMAIN new PROVE \E k \in DOMAIN all : all[k] = new[i]
    <2>1. i \in 1 .. Len(new)
      OBVIOUS
    <2>2. n + i \in DOMAIN all
      BY <1>2, <1>3, <2>1
    <2>3. all[n + i] = new[i]
      BY <1>2, <2>1
    <2> QED BY <2>2, <2>3
  <1> QED BY <1>2, <1>4, <1>5

\* Jobs are taken by priority, and in the order of their numbers within one.
Sorted(q) == \A i, k \in DOMAIN q : i < k => q[i].priority <= q[k].priority

\* In a sorted queue, the jobs that new ones wait behind come first.
LEMMA BeforePrefix ==
    ASSUME NEW q \in Seq(KlineJob), Sorted(q), NEW p \in Nat, NEW n, n = Before(q, p)
    PROVE  /\ \A i \in 1 .. n : i \in DOMAIN q /\ q[i].priority <= p
           /\ \A i \in DOMAIN q : i > n => q[i].priority > p
  <1> DEFINE C == {i \in DOMAIN q : q[i].priority <= p}
  <1>1. Len(q) \in Nat /\ DOMAIN q = 1 .. Len(q) /\ C \in SUBSET (1 .. Len(q))
    OBVIOUS
  <1>2. \A i \in DOMAIN q : q[i].priority \in Nat
    <2>1. \A i \in DOMAIN q : q[i] \in KlineJob
      OBVIOUS
    <2> QED BY <2>1 DEF KlineJob
  <1>3. CASE C = {}
    <2>1. n = 0
      BY <1>3, FS_EmptySet DEF Before
    <2>2. \A i \in DOMAIN q : ~(q[i].priority <= p)
      BY <1>3
    <2> QED BY <1>1, <1>2, <2>1, <2>2
  <1>4. CASE C # {}
    <2>1. PICK m \in C : \A i \in C : m >= i
      BY <1>1, <1>4, MaxMember
    <2>2. m \in 1 .. Len(q) /\ q[m].priority <= p
      BY <1>1, <2>1
    <2>3. C = 1 .. m
      <3>1. ASSUME NEW i \in 1 .. m PROVE i \in C
        <4>1. i \in DOMAIN q /\ (i = m \/ i < m)
          BY <1>1, <2>2
        <4>2. q[i].priority <= q[m].priority
          BY <1>1, <1>2, <2>2, <4>1 DEF Sorted
        <4>3. q[i].priority <= p
          BY <1>1, <1>2, <2>2, <4>1, <4>2
        <4> QED BY <4>1, <4>3
      <3>2. ASSUME NEW i \in C PROVE i \in 1 .. m
        BY <1>1, <2>1, <2>2
      <3> QED BY <3>1, <3>2
    <2>4. n = m
      <3>1. Cardinality(1 .. m) = m
        BY <1>1, <2>2, FS_Interval
      <3> QED BY <2>3, <3>1 DEF Before
    <2>5. \A i \in DOMAIN q : i > m => ~(q[i].priority <= p)
      BY <1>1, <2>2, <2>3
    <2> QED BY <1>1, <1>2, <2>2, <2>3, <2>4, <2>5
  <1> QED BY <1>3, <1>4

\* New jobs of one priority keep the queue sorted.
LEMMA PutSorted ==
    ASSUME NEW q \in Seq(KlineJob), NEW new \in Seq(KlineJob), NEW p \in Nat, NEW all,
           all = Klines!Put(q, new, p), Sorted(q), \A i \in DOMAIN new : new[i].priority = p
    PROVE  Sorted(all)
  <1>1. PICK n : n = Before(q, p)
    OBVIOUS
  <1>2. /\ n \in 0 .. Len(q)
        /\ all \in Seq(KlineJob) /\ DOMAIN all = 1 .. n + Len(new) + (Len(q) - n)
        /\ \A i \in 1 .. n : all[i] = q[i]
        /\ \A i \in 1 .. Len(new) : all[n + i] = new[i]
        /\ \A i \in 1 .. Len(q) - n : all[n + Len(new) + i] = q[n + i]
    <2>1. Places(q, new, all, n)
      BY <1>1, PutPlaces
    <2> QED BY <2>1 DEF Places
  <1>3. /\ \A i \in 1 .. n : i \in DOMAIN q /\ q[i].priority <= p
        /\ \A i \in DOMAIN q : i > n => q[i].priority > p
    BY <1>1, BeforePrefix
  <1> DEFINE l == Len(new)
  <1>4. n \in Nat /\ l \in Nat /\ Len(q) \in Nat /\ Len(q) - n \in Nat
    BY <1>2
  <1> HIDE DEF l
  <1>5. ASSUME NEW i \in DOMAIN all
        PROVE  /\ i <= n => i \in DOMAIN q /\ all[i] = q[i] /\ all[i].priority <= p
               /\ n < i /\ i <= n + l => all[i].priority = p
               /\ n + l < i => i - l \in DOMAIN q /\ all[i] = q[i - l] /\ all[i].priority > p
    <2>1. i \in Nat \ {0}
      BY <1>2
    <2>2. CASE i <= n
      BY <1>2, <1>3, <1>4, <2>1, <2>2
    <2>3. CASE n < i /\ i <= n + l
      <3>1. i - n \in 1 .. Len(new) /\ n + (i - n) = i
        BY <1>4, <2>1, <2>3 DEF l
      <3>2. all[i] = new[i - n]
        BY <1>2, <3>1
      <3> QED BY <1>4, <2>1, <2>3, <3>1, <3>2
    <2>4. CASE n + l < i
      <3> DEFINE h == i - n - l
      <3>1. h \in 1 .. Len(q) - n
        BY <1>2, <1>4, <2>1, <2>4 DEF l
      <3>2. n + l + h = i /\ n + h = i - l
        BY <1>4, <2>1
      <3>3. n + h \in DOMAIN q /\ n + h > n
        BY <1>4, <3>1
      <3> HIDE DEF h
      <3>4. all[n + l + h] = q[n + h]
        BY <1>2, <3>1 DEF l
      <3> QED BY <1>3, <1>4, <2>1, <2>4, <3>2, <3>3, <3>4
    <2> QED BY <1>4, <2>1, <2>2, <2>3, <2>4
  <1>6. /\ \A i \in DOMAIN all : i \in Nat /\ all[i].priority \in Nat
        /\ \A i \in DOMAIN q : q[i].priority \in Nat
    <2>1. /\ \A i \in DOMAIN all : i \in Nat /\ all[i] \in KlineJob
          /\ \A i \in DOMAIN q : q[i] \in KlineJob
      BY <1>2
    <2> QED BY <2>1 DEF KlineJob
  <1> SUFFICES ASSUME NEW i \in DOMAIN all, NEW k \in DOMAIN all, i < k
               PROVE  all[i].priority <= all[k].priority
    BY DEF Sorted
  <1>7. CASE k <= n
    BY <1>4, <1>5, <1>6, <1>7 DEF Sorted
  <1>8. CASE n + l < i
    <2>1. i - l < k - l /\ n + l < k
      BY <1>4, <1>6, <1>8
    <2> QED BY <1>5, <1>8, <2>1 DEF Sorted
  <1>9. CASE ~(k <= n) /\ ~(n + l < i)
    <2>1. all[i].priority <= p
      BY <1>4, <1>5, <1>6, <1>9
    <2>2. all[k].priority >= p
      BY <1>4, <1>5, <1>6, <1>9
    <2> QED BY <1>6, <2>1, <2>2
  <1> QED BY <1>7, <1>8, <1>9

\* An action on every job that keeps its symbol and its tasks, and does not cancel it,
\* leaves every request served.
Keeps(j, k) ==
    /\ k \in KlineJob /\ k.symbol = j.symbol /\ k.priority = j.priority
    /\ j.waiters \subseteq k.waiters
    /\ ~j.cancelled => ~k.cancelled
    /\ Unused(j) => Unused(k)

\* Taken out of the map, a job stays what it is for the tasks that await it.
LEMMA UnmapKeeps ==
    ASSUME NEW j \in KlineJob PROVE Keeps(j, [j EXCEPT !.mapped = FALSE])
  BY DEF Keeps, KlineJob, Unused

\* Tasks that join a job in flight leave it to the others.
LEMMA JoinKeeps ==
    ASSUME NEW j \in KlineJob, NEW W \in SUBSET Klines!Requests, j.mapped
    PROVE  Keeps(j, [j EXCEPT !.waiters = @ \cup W])
  BY DEF Keeps, KlineJob, Unused

\* Whoever was served is served by the changed job.
LEMMA StillServed ==
    ASSUME NEW q, NEW qn, NEW wk, NEW wkn, NEW r, NEW s,
           \A i \in DOMAIN q : \E k \in DOMAIN qn : Keeps(q[i], qn[k]),
           \A w \in Workers : Keeps(wk[w].job, wkn[w].job),
           Served(q, wk, r, s)
    PROVE  Served(qn, wkn, r, s)
  BY DEF Served, Serves, Keeps

\* Nobody awaits the job of an idle worker.
LEMMA NoJobUnused == Klines!NoJob \in KlineJob /\ Unused(Klines!NoJob)
  BY DEF Klines!NoJob, KlineJob, Unused

LEMMA IdleWorker == Klines!Idle \in WorkerState /\ Unused(Klines!Idle.job) /\ Klines!Idle.job = Klines!NoJob
  BY NoJobUnused DEF Klines!Idle, WorkerState

\* A call that has returned.
LEMMA EndedRequest == Klines!Ended \in RequestState /\ Klines!Ended.pc = "ended"
  BY DEF Klines!Ended, Klines!NewRequest, RequestState

\* A request that starts to wait keeps its symbol.
LEMMA WaitingRequest ==
    ASSUME NEW x \in RequestState
    PROVE  /\ [x EXCEPT !.pc = "await", !.seen = 0] \in RequestState
           /\ [x EXCEPT !.pc = "await", !.seen = 0].symbol = x.symbol
  <1>1. [x EXCEPT !.pc = "await"] \in RequestState /\ [x EXCEPT !.pc = "await"].symbol = x.symbol
    BY ONLY x \in RequestState DEF RequestState
  <1>2. ASSUME NEW y \in RequestState
        PROVE  [y EXCEPT !.seen = 0] \in RequestState /\ [y EXCEPT !.seen = 0].symbol = y.symbol
    BY ONLY y \in RequestState DEF RequestState
  <1> QED BY <1>1, <1>2

\* The same change to every job of a worker
LEMMA WorkersKeep ==
    ASSUME KlineTypes, FreeWorkers,
           DOMAIN worker' = Workers, worker' = [w \in Workers |-> worker'[w]],
           \A w \in Workers : /\ Keeps(worker[w].job, worker'[w].job)
                              /\ worker'[w] = [worker[w] EXCEPT !.job = worker'[w].job]
    PROVE  worker' \in [Workers -> WorkerState] /\ FreeWorkers'
  <1>1. ASSUME NEW w \in Workers PROVE worker'[w] \in WorkerState /\ worker'[w].pc = worker[w].pc
    BY DEF KlineTypes, WorkerState, Keeps
  <1>2. worker' \in [Workers -> WorkerState]
    BY <1>1
  <1>3. FreeWorkers'
    BY <1>1 DEF FreeWorkers, Keeps
  <1> QED BY <1>2, <1>3

\* The tasks W join the fetches of the symbols S or start them.
LEMMA EnqueueAllJobs ==
    ASSUME IsFiniteSet(Symbols), KlineTypes, FreeWorkers,
           NEW S \in SUBSET (Symbols \cup {Klines!NoSymbol}),
           NEW limit \in Limits \cup {kline_catchup_bars, kline_backfill_bars},
           NEW p \in Nat, NEW W \in SUBSET Klines!Requests,
           Klines!EnqueueAll(S, limit, p, W)
    PROVE  /\ queue' \in Seq(KlineJob)
           /\ worker' \in [Workers -> WorkerState] /\ FreeWorkers'
           /\ \A r, s : Served(queue, worker, r, s) => Served(queue', worker', r, s)
           /\ \A s : S = {s} => \A r \in W : Served(queue', worker', r, s)
           /\ Sorted(queue) => Sorted(queue')
  <1> DEFINE cold == {s \in S : \A j \in Klines!Pending(queue, worker) : ~Klines!Joinable(j, s)}
             Touch(j) == IF j.symbol \in cold THEN [j EXCEPT !.mapped = FALSE]
                         ELSE IF j.symbol \in S /\ Klines!Joinable(j, j.symbol)
                              THEN [j EXCEPT !.waiters = @ \cup W]
                         ELSE j
             New(s) == [symbol |-> s, limit |-> limit, priority |-> p, mapped |-> TRUE,
                        cancelled |-> FALSE, waiters |-> W]
             touched == [i \in DOMAIN queue |-> Touch(queue[i])]
  <1>1. PICK order \in Klines!SetToSeqs(cold) :
            queue' = Klines!Put(touched, [i \in DOMAIN order |-> New(order[i])], p)
    BY DEF Klines!EnqueueAll, Klines!InQueue
  <1>2. worker' = [w \in Workers |-> [worker[w] EXCEPT !.job = Touch(worker[w].job)]]
    BY DEF Klines!EnqueueAll, Klines!InWorkers
  <1> DEFINE new == [i \in DOMAIN order |-> New(order[i])]
  <1>3. \A j \in KlineJob : Keeps(j, Touch(j))
    <2> SUFFICES ASSUME NEW j \in KlineJob PROVE Keeps(j, Touch(j))
      OBVIOUS
    <2>1. CASE j.symbol \in cold
      BY <2>1, UnmapKeeps
    <2>2. CASE j.symbol \notin cold /\ j.symbol \in S /\ Klines!Joinable(j, j.symbol)
      BY <2>2, JoinKeeps DEF Klines!Joinable
    <2>3. Keeps(j, j)
      BY DEF Keeps
    <2> QED BY <2>1, <2>2, <2>3
  <1>4. \A s \in S : New(s) \in KlineJob
    BY DEF KlineJob
  <1>5. \A j \in KlineJob : Touch(j) \in KlineJob
    BY <1>3 DEF Keeps
  <1> HIDE DEF Touch, New
  <1>6. touched \in Seq(KlineJob) /\ DOMAIN touched = DOMAIN queue
    BY <1>5 DEF KlineTypes
  <1>7. /\ order \in [1 .. Cardinality(cold) -> cold]
    BY <1>1, CardinalitySame DEF Klines!SetToSeqs
  <1>8. Cardinality(cold) \in Nat
    <2>1. IsFiniteSet(Symbols \cup {Klines!NoSymbol})
      BY FS_AddElement
    <2>2. cold \in SUBSET (Symbols \cup {Klines!NoSymbol})
      OBVIOUS
    <2> QED BY <2>1, <2>2, FS_Subset, FS_CardinalityType
  <1>9. cold \subseteq S
    OBVIOUS
  <1> HIDE DEF cold
  <1>10. new \in Seq(KlineJob) /\ DOMAIN new = 1 .. Cardinality(cold)
    <2>1. DOMAIN order = 1 .. Cardinality(cold) /\ \A i \in DOMAIN order : New(order[i]) \in KlineJob
      BY <1>4, <1>7, <1>9
    <2> QED BY <1>8, <2>1
  <1>11. queue' = Klines!Put(touched, new, p)
    BY <1>1
  <1>12. \A i \in DOMAIN queue : touched[i] = Touch(queue[i])
    OBVIOUS
  <1> HIDE DEF new, touched
  <1>13. /\ queue' \in Seq(KlineJob)
         /\ \A i \in DOMAIN touched : \E k \in DOMAIN queue' : queue'[k] = touched[i]
         /\ \A i \in DOMAIN new : \E k \in DOMAIN queue' : queue'[k] = new[i]
    <2>1. touched \in Seq(KlineJob) /\ new \in Seq(KlineJob)
      BY <1>6, <1>10
    <2> QED BY ONLY <1>11, <2>1, PutJobs
  <1>14. /\ DOMAIN worker' = Workers /\ worker' = [w \in Workers |-> worker'[w]]
         /\ \A w \in Workers : /\ worker'[w].job = Touch(worker[w].job)
                               /\ worker'[w] = [worker[w] EXCEPT !.job = worker'[w].job]
    BY <1>2 DEF KlineTypes, WorkerState
  <1>15. \A w \in Workers : worker[w].job \in KlineJob
    BY DEF KlineTypes, WorkerState
  <1>16. worker' \in [Workers -> WorkerState] /\ FreeWorkers'
    BY <1>3, <1>14, <1>15, WorkersKeep
  <1>17. \A i \in DOMAIN queue : queue[i] \in KlineJob
    BY DEF KlineTypes
  <1>18. \A i \in DOMAIN queue : \E k \in DOMAIN queue' : queue'[k] = Touch(queue[i])
    BY <1>6, <1>13, <1>12
  <1>19. ASSUME NEW r, NEW s, Served(queue, worker, r, s) PROVE Served(queue', worker', r, s)
    <2>1. \A i \in DOMAIN queue : \E k \in DOMAIN queue' : Keeps(queue[i], queue'[k])
      BY <1>3, <1>17, <1>18
    <2>2. \A w \in Workers : Keeps(worker[w].job, worker'[w].job)
      BY <1>3, <1>14, <1>15
    <2> QED BY <1>19, <2>1, <2>2, StillServed
  <1>20. ASSUME NEW s, S = {s}, NEW r \in W PROVE Served(queue', worker', r, s)
    <2>1. CASE s \in cold
      <3>1. cold = {s}
        BY <1>20, <1>9, <2>1
      <3>2. Cardinality(cold) = 1
        BY <3>1, FS_Singleton
      <3>3. order \in [1 .. 1 -> {s}] /\ DOMAIN new = 1 .. 1
        BY ONLY <1>7, <1>10, <3>1, <3>2, Zenon
      <3>4. order[1] = s /\ 1 \in DOMAIN new
        BY <3>3
      <3>5. new[1] = New(s)
        BY <1>7, <3>2, <3>4 DEF new
      <3>6. PICK k \in DOMAIN queue' : queue'[k] = New(s)
        BY <1>13, <3>4, <3>5
      <3>7. Serves(New(s), r, s)
        BY DEF Serves, New
      <3> QED BY <3>6, <3>7 DEF Served
    <2>2. CASE s \notin cold
      <3>1. PICK j \in Klines!Pending(queue, worker) : Klines!Joinable(j, s)
        BY <1>20, <2>2 DEF cold
      <3>2. j \in KlineJob
        BY <1>15, <1>17, <3>1 DEF Klines!Pending, Klines!ToSet
      <3>3. Touch(j) = [j EXCEPT !.waiters = @ \cup W]
        BY <1>20, <2>2, <3>1 DEF Touch, Klines!Joinable
      <3>4. Serves(Touch(j), r, s)
        BY <3>1, <3>2, <3>3 DEF Serves, Klines!Joinable, KlineJob
      <3>5. \/ \E i \in DOMAIN queue : queue[i] = j
            \/ \E w \in Workers : worker[w].job = j
        BY <3>1 DEF Klines!Pending, Klines!ToSet
      <3> QED BY <1>14, <1>18, <3>4, <3>5 DEF Served
    <2> QED BY <2>1, <2>2
  <1>21. ASSUME Sorted(queue) PROVE Sorted(queue')
    <2>1. \A i \in DOMAIN queue : touched[i].priority = queue[i].priority
      BY <1>3, <1>12, <1>17 DEF Keeps
    <2>2. Sorted(touched)
      BY <1>6, <1>21, <2>1 DEF Sorted
    <2>3. \A i \in DOMAIN new : new[i].priority = p
      BY DEF new, New
    <2>4. touched \in Seq(KlineJob) /\ new \in Seq(KlineJob)
      BY <1>6, <1>10
    <2> QED BY ONLY <1>11, <2>2, <2>3, <2>4, p \in Nat, PutSorted
  <1> QED BY <1>13, <1>16, <1>19, <1>20, <1>21

\* The invariant is kept by a step that leaves the jobs and the requests alone.
LEMMA KlineStutter ==
    ASSUME KlineInv, UNCHANGED <<queue, worker, req>>, bar' \in Int, universe' \subseteq Symbols
    PROVE  KlineInv'
  BY DEF KlineInv, KlineTypes, FreeWorkers, Klines!NoForgottenRequest

\* Initially nobody waits.
LEMMA KlineInit == Klines!Init => KlineInv
  <1> SUFFICES ASSUME Klines!Init PROVE KlineInv
    OBVIOUS
  <1>1. KlineTypes
    BY IdleWorker DEF Klines!Init, KlineTypes, RequestState, Klines!NewRequest
  <1>2. FreeWorkers
    BY IdleWorker DEF Klines!Init, FreeWorkers
  <1>3. Klines!NoForgottenRequest
    BY DEF Klines!Init, Klines!NoForgottenRequest, Klines!NewRequest
  <1> QED BY <1>1, <1>2, <1>3 DEF KlineInv

\* A done callback takes a future out of the map: the tasks that await it stay.
LEMMA KlineCallback ==
    ASSUME KlineInv, NEW s \in Symbols, Klines!Callback(s) PROVE KlineInv'
  <1> USE DEF KlineInv
  <1> DEFINE Unmap(j) == Klines!Unmapped(j, s)
  <1>1. /\ queue' = [i \in DOMAIN queue |-> Unmap(queue[i])]
        /\ worker' = [w \in Workers |-> [worker[w] EXCEPT !.job = Unmap(worker[w].job)]]
        /\ UNCHANGED <<bar, universe, req>>
    BY DEF Klines!Callback, Klines!InQueue, Klines!InWorkers, Klines!env
  <1>2. \A j \in KlineJob : Keeps(j, Unmap(j)) /\ Unmap(j) \in KlineJob
    <2>1. \A j \in KlineJob : Keeps(j, j)
      BY DEF Keeps
    <2>2. \A j \in KlineJob : Keeps(j, Unmap(j))
      BY <2>1, UnmapKeeps DEF Klines!Unmapped
    <2> QED BY <2>2 DEF Keeps
  <1> HIDE DEF Unmap
  <1>3. /\ \A i \in DOMAIN queue : queue[i] \in KlineJob
        /\ \A w \in Workers : worker[w].job \in KlineJob
    BY DEF KlineTypes, WorkerState
  <1>4. queue' \in Seq(KlineJob)
    BY <1>1, <1>2 DEF KlineTypes
  <1>5. /\ DOMAIN worker' = Workers /\ worker' = [w \in Workers |-> worker'[w]]
        /\ \A w \in Workers : /\ worker'[w].job = Unmap(worker[w].job)
                              /\ worker'[w] = [worker[w] EXCEPT !.job = worker'[w].job]
    BY <1>1 DEF KlineTypes, WorkerState
  <1>6. worker' \in [Workers -> WorkerState] /\ FreeWorkers'
    BY <1>2, <1>3, <1>5, WorkersKeep
  <1>7. \A i \in DOMAIN queue : i \in DOMAIN queue' /\ Keeps(queue[i], queue'[i])
    BY <1>1, <1>2, <1>3
  <1>8. /\ \A i \in DOMAIN queue : \E k \in DOMAIN queue' : Keeps(queue[i], queue'[k])
        /\ \A w \in Workers : Keeps(worker[w].job, worker'[w].job)
    BY <1>2, <1>3, <1>5, <1>7
  <1>9. \A r, t : Served(queue, worker, r, t) => Served(queue', worker', r, t)
    BY <1>8, StillServed
  <1>10. Klines!NoForgottenRequest'
    BY <1>1, <1>9, ServedIs, ServedNext
  <1> QED BY <1>1, <1>4, <1>6, <1>10 DEF KlineTypes

\* An idle worker takes the first job of the queue.
LEMMA KlineGet ==
    ASSUME KlineInv, NEW w \in Workers, Klines!Get(w) PROVE KlineInv'
  <1> USE DEF KlineInv
  <1>1. /\ worker[w].pc = "idle" /\ queue # <<>>
        /\ worker' = [worker EXCEPT ![w] = [pc |-> "fetch", job |-> Head(queue), snap |-> 0]]
        /\ queue' = Tail(queue)
        /\ UNCHANGED <<bar, universe, req>>
    BY DEF Klines!Get, Klines!env
  <1>2. queue \in Seq(KlineJob) /\ worker \in [Workers -> WorkerState]
    BY DEF KlineTypes
  <1>3. /\ queue' \in Seq(KlineJob) /\ Head(queue) = queue[1] /\ queue[1] \in KlineJob
        /\ \A i \in DOMAIN queue : i # 1 => i - 1 \in DOMAIN queue' /\ queue'[i - 1] = queue[i]
    BY <1>1, <1>2
  <1>4. worker' \in [Workers -> WorkerState]
    BY <1>1, <1>2, <1>3 DEF WorkerState
  <1>5. FreeWorkers'
    BY <1>1, <1>2 DEF FreeWorkers
  <1>6. ASSUME NEW r, NEW s, Served(queue, worker, r, s) PROVE Served(queue', worker', r, s)
    <2>1. worker'[w].job = queue[1] /\ \A v \in Workers \ {w} : worker'[v] = worker[v]
      BY <1>1, <1>2, <1>3
    <2>2. CASE \E i \in DOMAIN queue : Serves(queue[i], r, s)
      BY <1>3, <2>1, <2>2 DEF Served
    <2>3. CASE \E v \in Workers : Serves(worker[v].job, r, s)
      <3>1. ~Serves(worker[w].job, r, s)
        BY <1>1 DEF FreeWorkers, Unused, Serves
      <3> QED BY <2>1, <2>3, <3>1 DEF Served
    <2> QED BY <1>6, <2>2, <2>3 DEF Served
  <1>7. Klines!NoForgottenRequest'
    BY <1>1, <1>6, ServedIs, ServedNext
  <1> QED BY <1>1, <1>3, <1>4, <1>5, <1>7 DEF KlineTypes

\* A worker goes on with its job.
LEMMA KlineWork ==
    ASSUME KlineInv, NEW w \in Workers, Klines!Fetch(w) \/ Klines!Store(w) PROVE KlineInv'
  <1> USE DEF KlineInv
  <1>1. PICK pc \in {"store", "settle"}, snap \in Int :
            worker' = [worker EXCEPT ![w].pc = pc, ![w].snap = snap]
    <2>1. bar \in Int /\ 0 \in Int
      BY DEF KlineTypes
    <2>2. CASE Klines!Fetch(w)
      BY <2>1, <2>2, Zenon DEF Klines!Fetch
    <2>3. CASE Klines!Store(w)
      BY <2>1, <2>3, Zenon DEF Klines!Store
    <2> QED BY <2>2, <2>3
  <1>2. UNCHANGED <<bar, universe, queue, req>>
    BY DEF Klines!Fetch, Klines!Store, Klines!env
  <1>3. worker \in [Workers -> WorkerState]
    BY DEF KlineTypes
  <1>4. /\ worker' \in [Workers -> WorkerState]
        /\ worker'[w].pc = pc
        /\ \A v \in Workers : worker'[v].job = worker[v].job
        /\ \A v \in Workers \ {w} : worker'[v] = worker[v]
    BY <1>1, <1>3 DEF WorkerState
  <1>5. FreeWorkers'
    BY <1>4 DEF FreeWorkers
  <1>6. Klines!NoForgottenRequest'
    BY <1>2, <1>4, ServedIs, ServedNext DEF Served
  <1> QED BY <1>2, <1>4, <1>5, <1>6 DEF KlineTypes

\* A worker that ends its job ends the requests that await it.
LEMMA KlineSettle ==
    ASSUME KlineInv, NEW w \in Workers, Klines!Settle(w) PROVE KlineInv'
  <1> USE DEF KlineInv
  <1> DEFINE j == worker[w].job
  <1>1. worker' = [worker EXCEPT ![w] = Klines!Idle] /\ UNCHANGED <<bar, universe, queue>>
    BY DEF Klines!Settle, Klines!env
  <1>2. \/ j.cancelled /\ req' = req
        \/ req' = [r \in Klines!Requests |-> IF r \in j.waiters THEN Klines!Ended ELSE req[r]]
    BY DEF Klines!Settle
  <1>3. worker \in [Workers -> WorkerState] /\ req \in [Klines!Requests -> RequestState]
    BY DEF KlineTypes
  <1>4. worker' \in [Workers -> WorkerState] /\ \A v \in Workers \ {w} : worker'[v] = worker[v]
    BY <1>1, <1>3, IdleWorker
  <1>5. FreeWorkers'
    BY <1>1, <1>3, IdleWorker DEF FreeWorkers
  <1>6. req' \in [Klines!Requests -> RequestState]
    BY <1>2, <1>3, EndedRequest
  <1>7. ASSUME NEW r \in Klines!Requests, req'[r].pc = "await"
        PROVE  Served(queue', worker', r, req'[r].symbol)
    <2>1. req'[r] = req[r] /\ (j.cancelled \/ r \notin j.waiters)
      BY <1>2, <1>3, <1>7, EndedRequest
    <2>2. Served(queue, worker, r, req[r].symbol)
      BY <1>7, <2>1, ServedIs
    <2> QED BY <1>1, <1>4, <2>1, <2>2 DEF Served, Serves
  <1>8. Klines!NoForgottenRequest'
    BY <1>7, ServedNext
  <1> QED BY <1>1, <1>4, <1>5, <1>6, <1>8 DEF KlineTypes

\* A request that starts awaits nothing yet.
LEMMA KlineAsk ==
    ASSUME KlineInv, NEW r \in Klines!Requests, NEW s \in Symbols, Klines!Ask(r, s) PROVE KlineInv'
  <1> USE DEF KlineInv
  <1>1. UNCHANGED <<bar, queue, worker>>
    BY DEF Klines!Ask, Klines!jobs
  <1>2. universe' \subseteq Symbols
    BY DEF Klines!Ask, Klines!EnsureContains, KlineTypes
  <1>3. PICK x : /\ req' = [req EXCEPT ![r] = x]
                 /\ x = Klines!Ended \/ x = [pc |-> "decide", symbol |-> s, seen |-> Klines!Newest(s)]
    BY DEF Klines!Ask
  <1>4. x \in RequestState /\ x.pc # "await"
    BY <1>3, EndedRequest, NewestInt DEF RequestState
  <1>5. /\ req' \in [Klines!Requests -> RequestState]
        /\ \A h \in Klines!Requests : req'[h].pc = "await" => req'[h] = req[h]
    BY <1>3, <1>4 DEF KlineTypes
  <1>6. FreeWorkers'
    BY <1>1 DEF FreeWorkers
  <1>7. Klines!NoForgottenRequest'
    BY <1>1, <1>5, ServedIs, ServedNext
  <1> QED BY <1>1, <1>2, <1>5, <1>6, <1>7 DEF KlineTypes

\* A request that finds its symbol cold joins the fetch in flight or starts one.
LEMMA KlineDecide ==
    ASSUME IsFiniteSet(Symbols), KlineInv, NEW r \in Klines!Requests, Klines!Decide(r)
    PROVE  KlineInv'
  <1> USE DEF KlineInv
  <1> DEFINE s == req[r].symbol
  <1>1. UNCHANGED <<bar, universe>> /\ s \in Symbols \cup {Klines!NoSymbol}
    BY DEF Klines!Decide, Klines!env, KlineTypes, RequestState
  <1>2. req \in [Klines!Requests -> RequestState]
    BY DEF KlineTypes
  <1>3. CASE req' = [req EXCEPT ![r] = Klines!Ended] /\ UNCHANGED <<queue, worker>>
    <2>1. /\ req' \in [Klines!Requests -> RequestState]
          /\ \A h \in Klines!Requests : req'[h].pc = "await" => req'[h] = req[h]
      BY <1>2, <1>3, EndedRequest
    <2>2. FreeWorkers'
      BY <1>3 DEF FreeWorkers
    <2>3. Klines!NoForgottenRequest'
      BY <1>3, <2>1, ServedIs, ServedNext
    <2> QED BY <1>1, <1>3, <2>1, <2>2, <2>3 DEF KlineTypes
  <1>4. CASE /\ \E limit \in Limits : Klines!EnqueueAll({s}, limit, Klines!PRIORITY_ONDEMAND, {r})
             /\ req' = [req EXCEPT ![r].pc = "await", ![r].seen = 0]
    <2>1. PICK limit \in Limits : Klines!EnqueueAll({s}, limit, 0, {r})
      BY <1>4 DEF Klines!PRIORITY_ONDEMAND
    <2>2. {s} \in SUBSET (Symbols \cup {Klines!NoSymbol}) /\ {r} \in SUBSET Klines!Requests /\ 0 \in Nat
          /\ limit \in Limits \cup {kline_catchup_bars, kline_backfill_bars}
      BY <1>1
    <2> HIDE DEF s
    <2>3. /\ queue' \in Seq(KlineJob)
          /\ worker' \in [Workers -> WorkerState] /\ FreeWorkers'
          /\ \A h, t : Served(queue, worker, h, t) => Served(queue', worker', h, t)
          /\ Served(queue', worker', r, s)
      BY <2>1, <2>2, EnqueueAllJobs
    <2>4. /\ req' \in [Klines!Requests -> RequestState]
          /\ req'[r].symbol = req[r].symbol
          /\ \A h \in Klines!Requests \ {r} : req'[h] = req[h]
      <3>1. req' = [req EXCEPT ![r].pc = "await", ![r].seen = 0]
        BY <1>4
      <3>2. req[r] \in RequestState
        BY <1>2
      <3>3. req'[r] = [req[r] EXCEPT !.pc = "await", !.seen = 0]
        BY <1>2, <3>1
      <3>4. req'[r] \in RequestState /\ req'[r].symbol = req[r].symbol
        BY <3>2, <3>3, WaitingRequest
      <3> QED BY <1>2, <3>1, <3>4
    <2>5. Klines!NoForgottenRequest'
      BY <2>3, <2>4, ServedIs, ServedNext DEF s
    <2> QED BY <1>1, <2>3, <2>4, <2>5 DEF KlineTypes
  <1> QED BY <1>3, <1>4 DEF Klines!Decide, Klines!jobs

\* The scheduler and the backfill join or start fetches that no request awaits yet.
LEMMA KlineBackground ==
    ASSUME IsFiniteSet(Symbols), KlineInv, Klines!SchedulerEnqueue \/ Klines!Backfill
    PROVE  KlineInv'
  <1> USE DEF KlineInv
  <1>1. UNCHANGED <<bar, universe, req>> /\ universe \in SUBSET Symbols
    BY DEF Klines!SchedulerEnqueue, Klines!Backfill, Klines!env, KlineTypes
  <1>2. PICK S \in SUBSET (Symbols \cup {Klines!NoSymbol}),
             limit \in {kline_catchup_bars, kline_backfill_bars}, p \in Nat :
            Klines!EnqueueAll(S, limit, p, {})
    <2>1. CASE Klines!SchedulerEnqueue
      <3>1. Klines!EnqueueAll(universe, kline_catchup_bars, 5, {}) /\ 5 \in Nat
        BY <2>1 DEF Klines!SchedulerEnqueue, Klines!PRIORITY_CLOSED_BAR
      <3> QED BY <1>1, <3>1
    <2>2. CASE Klines!Backfill
      <3>1. Klines!EnqueueAll({s \in universe : Klines!Lags(s)}, kline_backfill_bars, 10, {}) /\ 10 \in Nat
        BY <2>2 DEF Klines!Backfill, Klines!PRIORITY_BACKFILL
      <3>2. {s \in universe : Klines!Lags(s)} \in SUBSET Symbols
        BY <1>1
      <3> QED BY <3>1, <3>2
    <2> QED BY <2>1, <2>2
  <1>3. {} \in SUBSET Klines!Requests /\ limit \in Limits \cup {kline_catchup_bars, kline_backfill_bars}
    OBVIOUS
  <1>4. /\ queue' \in Seq(KlineJob)
        /\ worker' \in [Workers -> WorkerState] /\ FreeWorkers'
        /\ \A h, t : Served(queue, worker, h, t) => Served(queue', worker', h, t)
    BY <1>2, <1>3, EnqueueAllJobs
  <1>5. Klines!NoForgottenRequest'
    BY <1>1, <1>4, ServedIs, ServedNext
  <1> QED BY <1>1, <1>4, <1>5 DEF KlineTypes

\* The cancelled tasks of the PA worker take the futures they await with them, and every
\* task that awaits one of those ends.
LEMMA KlineStopPA == ASSUME KlineInv, Klines!StopPA PROVE KlineInv'
  <1> USE DEF KlineInv
  <1> DEFINE Hit(j) == ~j.cancelled /\ j.waiters \cap PATasks # {}
             Cancel(j) == IF Hit(j) THEN [j EXCEPT !.cancelled = TRUE] ELSE j
             hit == {j \in Klines!Pending(queue, worker) : Hit(j)}
  <1>1. /\ queue' = [i \in DOMAIN queue |-> Cancel(queue[i])]
        /\ worker' = [w \in Workers |-> [worker[w] EXCEPT !.job = Cancel(worker[w].job)]]
        /\ UNCHANGED <<bar, universe>>
    BY DEF Klines!StopPA, Klines!InQueue, Klines!InWorkers, Klines!env
  <1>2. req' = [r \in Klines!Requests |->
                  IF r \in PATasks \/ \E j \in hit : r \in j.waiters THEN Klines!Ended ELSE req[r]]
    BY DEF Klines!StopPA
  <1>3. /\ \A i \in DOMAIN queue : queue[i] \in KlineJob
        /\ \A w \in Workers : worker[w].job \in KlineJob
        /\ worker \in [Workers -> WorkerState] /\ req \in [Klines!Requests -> RequestState]
    BY DEF KlineTypes, WorkerState
  <1>4. \A j \in KlineJob : Cancel(j) \in KlineJob /\ (~Hit(j) => Cancel(j) = j)
    BY DEF KlineJob
  <1>5. \A j : Unused(j) => Cancel(j) = j
    BY DEF Unused
  <1>6. \A j : /\ j \in hit => Hit(j)
               /\ Hit(j) /\ j \in Klines!Pending(queue, worker) => j \in hit
    OBVIOUS
  <1> HIDE DEF Cancel, Hit, hit
  <1>7. queue' \in Seq(KlineJob) /\ DOMAIN queue' = DOMAIN queue
    BY <1>1, <1>3, <1>4 DEF KlineTypes
  <1>8. \A w \in Workers : /\ worker'[w] \in WorkerState
                           /\ worker'[w].pc = worker[w].pc
                           /\ worker'[w].job = Cancel(worker[w].job)
    BY <1>1, <1>3, <1>4 DEF WorkerState
  <1>9. worker' \in [Workers -> WorkerState]
    BY <1>1, <1>8
  <1>10. FreeWorkers'
    BY <1>5, <1>8 DEF FreeWorkers
  <1>11. req' \in [Klines!Requests -> RequestState]
    BY <1>2, <1>3, EndedRequest
  <1>12. ASSUME NEW r \in Klines!Requests, req'[r].pc = "await"
         PROVE  Served(queue', worker', r, req'[r].symbol)
    <2>1. req'[r] = req[r] /\ \A j \in hit : r \notin j.waiters
      BY <1>2, <1>3, <1>12, EndedRequest
    <2>2. Served(queue, worker, r, req[r].symbol)
      BY <1>12, <2>1, ServedIs
    <2>3. /\ \A i \in DOMAIN queue : queue[i] \in Klines!Pending(queue, worker)
          /\ \A w \in Workers : worker[w].job \in Klines!Pending(queue, worker)
      BY DEF Klines!Pending, Klines!ToSet
    <2>4. /\ \A i \in DOMAIN queue : r \in queue[i].waiters => queue'[i] = queue[i]
          /\ \A w \in Workers : r \in worker[w].job.waiters => worker'[w].job = worker[w].job
      BY <1>1, <1>3, <1>4, <1>6, <1>8, <2>1, <2>3
    <2> QED BY <1>7, <2>1, <2>2, <2>4 DEF Served, Serves
  <1>13. Klines!NoForgottenRequest'
    BY <1>12, ServedNext
  <1> QED BY <1>1, <1>7, <1>9, <1>10, <1>11, <1>13 DEF KlineTypes

\* The workers stop when no request is under way.
LEMMA KlineStopWorkers == ASSUME KlineInv, Klines!StopWorkers PROVE KlineInv'
  <1> USE DEF KlineInv
  <1>1. /\ \A r \in Klines!Requests : req[r].pc \in {"new", "ended"}
        /\ worker' = [w \in Workers |-> Klines!Idle] /\ queue' = <<>>
        /\ UNCHANGED <<bar, universe, req>>
    BY DEF Klines!StopWorkers, Klines!env
  <1>2. KlineTypes'
    BY <1>1, IdleWorker DEF KlineTypes
  <1>3. FreeWorkers'
    BY <1>1, IdleWorker DEF FreeWorkers
  <1>4. Klines!NoForgottenRequest'
    BY <1>1, ServedNext
  <1> QED BY <1>2, <1>3, <1>4

\* Every step keeps the invariant.
LEMMA KlineNext == ASSUME IsFiniteSet(Symbols) PROVE KlineInv /\ [Klines!Next]_Klines!vars => KlineInv'
  <1> SUFFICES ASSUME KlineInv, [Klines!Next]_Klines!vars PROVE KlineInv'
    OBVIOUS
  <1>1. bar \in Int /\ bar + 1 \in Int /\ universe \subseteq Symbols
    BY DEF KlineInv, KlineTypes
  <1>2. ASSUME NEW w \in Workers, Klines!WorkerStep(w) \/ Klines!Fails(w) PROVE KlineInv'
    BY <1>2, KlineGet, KlineWork, KlineSettle DEF Klines!WorkerStep, Klines!Done, Klines!Fails
  <1>3. CASE \/ Klines!SchedulerRead \/ Klines!ResetWindow \/ Klines!CloseBar
             \/ Klines!ClockSync \/ Klines!ClockLost \/ Klines!UniverseSync \/ UNCHANGED Klines!vars
    BY <1>1, <1>3, KlineStutter DEF Klines!SchedulerRead, Klines!ResetWindow, Klines!CloseBar, Klines!ClockSync,
        Klines!ClockLost, Klines!UniverseSync, Klines!vars, Klines!env, Klines!jobs
  <1> QED BY <1>2, <1>3, KlineCallback, KlineDecide, KlineAsk, KlineBackground, KlineStopPA, KlineStopWorkers
             DEF Klines!Next

\* No call of get_candles is forgotten: while it waits, a job of its symbol that will resolve
\* or end it is in the queue or in the hands of a worker, for any number of symbols,
\* requests, workers and bars, and through the shutdown.
THEOREM RequestsServed == ASSUME IsFiniteSet(Symbols) PROVE Klines!Spec => []Klines!NoForgottenRequest
  <1>1. KlineInv => Klines!NoForgottenRequest
    BY DEF KlineInv
  <1> QED BY <1>1, KlineInit, KlineNext, PTL DEF Klines!Spec

\* Jobs that keep their places and priorities
LEMMA SameOrder ==
    ASSUME NEW q, NEW qn, DOMAIN qn = DOMAIN q,
           \A i \in DOMAIN q : qn[i].priority = q[i].priority, Sorted(q)
    PROVE  Sorted(qn)
  BY DEF Sorted

\* The fetch of a request comes before the catch-up of the scheduler, and that before the
\* backfill.
QueueSorted == Sorted(queue)

\* Every step keeps the queue sorted.
LEMMA SortedNext ==
    ASSUME IsFiniteSet(Symbols)
    PROVE  KlineInv /\ QueueSorted /\ [Klines!Next]_Klines!vars => QueueSorted'
  <1> SUFFICES ASSUME KlineInv, Sorted(queue), [Klines!Next]_Klines!vars PROVE Sorted(queue')
    BY DEF QueueSorted
  <1>1. queue \in Seq(KlineJob) /\ \A i \in DOMAIN queue : queue[i] \in KlineJob
    BY DEF KlineInv, KlineTypes
  <1>2. ASSUME NEW s \in Symbols, Klines!Callback(s) PROVE Sorted(queue')
    <2>1. queue' = [i \in DOMAIN queue |-> Klines!Unmapped(queue[i], s)]
      BY <1>2 DEF Klines!Callback, Klines!InQueue
    <2>2. \A j \in KlineJob : Klines!Unmapped(j, s).priority = j.priority
      BY DEF Klines!Unmapped, KlineJob
    <2> QED BY <1>1, <2>1, <2>2, SameOrder
  <1>3. ASSUME NEW w \in Workers, Klines!Get(w) PROVE Sorted(queue')
    <2>1. queue # <<>> /\ queue' = Tail(queue)
      BY <1>3 DEF Klines!Get
    <2>2. \A i \in DOMAIN queue' : i + 1 \in DOMAIN queue /\ queue'[i] = queue[i + 1] /\ i \in Nat
      BY <1>1, <2>1
    <2> QED BY <2>2 DEF Sorted
  <1>4. ASSUME NEW S \in SUBSET (Symbols \cup {Klines!NoSymbol}), NEW p \in Nat,
               NEW W \in SUBSET Klines!Requests,
               NEW limit \in Limits \cup {kline_catchup_bars, kline_backfill_bars},
               Klines!EnqueueAll(S, limit, p, W)
        PROVE  Sorted(queue')
    BY <1>4, EnqueueAllJobs DEF KlineInv
  <1>5. ASSUME NEW r \in Klines!Requests, Klines!Decide(r) PROVE Sorted(queue')
    <2>1. CASE UNCHANGED queue
      BY <2>1
    <2>2. CASE \E limit \in Limits : Klines!EnqueueAll({req[r].symbol}, limit, 0, {r})
      <3>1. {req[r].symbol} \in SUBSET (Symbols \cup {Klines!NoSymbol}) /\ {r} \in SUBSET Klines!Requests
        BY DEF KlineInv, KlineTypes, RequestState
      <3> QED BY <1>4, <2>2, <3>1
    <2> QED BY <1>5, <2>1, <2>2 DEF Klines!Decide, Klines!jobs, Klines!PRIORITY_ONDEMAND
  <1>6. CASE Klines!SchedulerEnqueue \/ Klines!Backfill
    <2>1. universe \in SUBSET Symbols
      BY DEF KlineInv, KlineTypes
    <2>2. \/ Klines!EnqueueAll(universe, kline_catchup_bars, 5, {})
          \/ Klines!EnqueueAll({s \in universe : Klines!Lags(s)}, kline_backfill_bars, 10, {})
      BY <1>6 DEF Klines!SchedulerEnqueue, Klines!Backfill,
             Klines!PRIORITY_CLOSED_BAR, Klines!PRIORITY_BACKFILL
    <2>3. universe \in SUBSET (Symbols \cup {Klines!NoSymbol})
          /\ {s \in universe : Klines!Lags(s)} \in SUBSET (Symbols \cup {Klines!NoSymbol})
      BY <2>1
    <2> QED BY <1>4, <2>2, <2>3
  <1>7. CASE Klines!StopPA
    <2> DEFINE Hit(j) == ~j.cancelled /\ j.waiters \cap PATasks # {}
               Cancel(j) == IF Hit(j) THEN [j EXCEPT !.cancelled = TRUE] ELSE j
    <2>1. queue' = [i \in DOMAIN queue |-> Cancel(queue[i])]
      BY <1>7 DEF Klines!StopPA, Klines!InQueue
    <2>2. \A j \in KlineJob : Cancel(j).priority = j.priority
      BY DEF KlineJob
    <2> HIDE DEF Cancel
    <2> QED BY <1>1, <2>1, <2>2, SameOrder
  <1>8. CASE Klines!StopWorkers
    BY <1>8 DEF Klines!StopWorkers, Sorted
  <1>9. CASE UNCHANGED queue
    BY <1>9
  <1>10. ASSUME NEW w \in Workers, Klines!WorkerStep(w) \/ Klines!Fails(w) PROVE Klines!Get(w) \/ UNCHANGED queue
    BY <1>10 DEF Klines!WorkerStep, Klines!Fetch, Klines!Store, Klines!Done, Klines!Fails, Klines!Settle
  <1>11. ASSUME NEW r \in Klines!Requests, NEW s \in Symbols, Klines!Ask(r, s) PROVE UNCHANGED queue
    BY <1>11 DEF Klines!Ask, Klines!jobs
  <1>12. CASE \/ Klines!SchedulerRead \/ Klines!ResetWindow \/ Klines!CloseBar
              \/ Klines!ClockSync \/ Klines!ClockLost \/ Klines!UniverseSync \/ UNCHANGED Klines!vars
    BY <1>12 DEF Klines!SchedulerRead, Klines!ResetWindow, Klines!CloseBar, Klines!ClockSync,
        Klines!ClockLost, Klines!UniverseSync, Klines!vars, Klines!jobs
  <1> QED BY <1>2, <1>3, <1>5, <1>6, <1>7, <1>8, <1>9, <1>10, <1>11, <1>12 DEF Klines!Next

\* The queue stays in the order of the priorities, so a request's fetch is taken before the
\* catch-up of the scheduler, and that before the backfill.
LEMMA QueueByPriority == ASSUME IsFiniteSet(Symbols) PROVE Klines!Spec => []QueueSorted
  <1>1. Klines!Init => QueueSorted
    BY DEF Klines!Init, QueueSorted, Sorted
  <1> QED BY <1>1, KlineInit, KlineNext, SortedNext, PTL DEF Klines!Spec
=============================================================================
