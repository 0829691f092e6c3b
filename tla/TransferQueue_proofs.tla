------------------------ MODULE TransferQueue_proofs ------------------------
(***************************************************************************)
(* Proofs about TransferQueue, for any number of rows and of drops.  What  *)
(* the pump does when it goes round is the same wherever it is called      *)
(* from, so the invariant is about each row, about each batch and about    *)
(* the pump, and TurnKeeps says once what going round needs and gives.     *)
(***************************************************************************)
EXTENDS TransferQueue, SequenceTheorems, FiniteSetTheorems, WellFoundedInduction, TLAPS

Active == {"queued", "running"}
Turning == {"checking", "asking", "running"}

\* A row, if its entry in the list is r.
RowOK(i, r) ==
    /\ r \in Rows
    /\ i > used.rows => r = NoRow /\ job[i] = None
    /\ job[i] # None => job[i].batch <= used.batches
    /\ i \in part => /\ job[i] # None
                     /\ resumable(r) \/ (r.status \in Active /\ r.resume)
    /\ job[i] # None /\ r.status \in Active /\ ~r.resume =>
          /\ job[i].batch \notin cut
          /\ r.status = "queued" /\ policy[job[i].batch] = "overwrite" => i \in told
    /\ i \in Range(dialog) => /\ r.status \notin Active /\ i <= used.rows
                              /\ \A b \in Batches : i \notin Range(pending[b])
    /\ \A b \in Batches : i \in Range(pending[b]) =>
          /\ i <= used.rows
          /\ IF job[i] = None THEN r.status = "none" ELSE job[i].batch = b
          /\ \A c \in Batches : i \in Range(pending[c]) => c = b

Busy(b, rows) == \E i \in OfBatch(job, b) : rows[i].status \in Active

BatchesOK ==
    \A b \in Batches :
       b > used.batches => b \notin cut /\ policy[b] = None /\ pending[b] = <<>>

\* Who is asked about mismatches at the latest when the batch is through.
Asked(rows) ==
    \A b \in Batches \ (cut \union trimmed) :
       pending[b] # <<>> => Busy(b, rows) \/ (pump.at = "refreshing" /\ pump.batch = b)

PumpOK ==
    /\ pump.at \in Turning => /\ job[pump.id] # None /\ job[pump.id].batch = pump.batch
                              /\ pump.at # "running" => ~row[pump.id].resume
    /\ pump.at \in {"refreshing", "leaving"} =>
          pump.id \in Ids /\ pump.batch \in 1 .. used.batches
    /\ pump.at = "idle" => Queued(row) = {}
    /\ OverwriteIsTold

Inv ==
    /\ TypeOK
    /\ \A i \in Ids : RowOK(i, row[i])
    /\ BatchesOK
    /\ Asked(row)
    /\ PumpOK

----------------------------------------------------------------------------
(* Going round *)

\* The least of some rows is one of them.
LEMMA LeastOf ==
  ASSUME NEW T \in SUBSET Ids, T # {}
  PROVE  Min(T) \in T /\ \A i \in T : Min(T) <= i
<1>1. T \subseteq Nat
  BY ConstantsAssumption DEF ConstantsAssumption, Ids
<1>2. PICK x \in T : \A y \in T : ~(<<y, x>> \in OpToRel(<, Nat))
  BY <1>1, NatLessThanWellFounded, WFMin
<1>3. \A y \in T : ~(y < x)
  BY <1>1, <1>2 DEF OpToRel
<1>4. \A y \in T : x <= y
  BY <1>1, <1>3
<1> QED BY <1>4 DEF Min

Types ==
    /\ job \in [Ids -> Jobs \union {None}]
    /\ policy \in [Batches -> Answers \union {None}]
    /\ pending \in [Batches -> Seq(Ids)] /\ dialog \in Seq(Ids)
    /\ used \in [rows : 0 .. NumRows, batches : 0 .. NumBatches]
    /\ part \subseteq Ids /\ told \subseteq Ids
    /\ cut \subseteq Batches /\ trimmed \subseteq Batches

RunningIs(rows, at, id) ==
    {i \in Ids : rows[i].status = "running"} = IF at \in Turning THEN {id} ELSE {}

LEMMA TypeParts ==
    TypeOK <=> /\ Types /\ row \in [Ids -> Rows] /\ pump \in Pumps
               /\ RunningIs(row, pump.at, pump.id)
BY DEF TypeOK, Types, RunningIs, Turning

\* Where the pump is after it has gone round: idle and every queued row gone,
\* or at the first row that had a job.
Started(n, r) ==
    LET b == job'[n].batch
        asks == ~r.resume /\ policy[b] = None
    IN  [Idle EXCEPT !.at = IF asks THEN "checking" ELSE "running", !.id = n, !.batch = b,
                     !.choice = IF r.resume THEN "resume"
                                ELSE IF asks THEN "overwrite" ELSE policy[b]]

LEMMA NextTurnDoes ==
  ASSUME NEW rows \in [Ids -> Rows], NEW jobs, NextTurn(rows, jobs),
         \A i \in Ids : rows[i].status # "running",
         \A i \in Ids : rows[i].status = "queued" => jobs[i] = job'[i]
  PROVE  /\ row' = [i \in Ids |-> row'[i]]
         /\ \/ /\ pump' = Idle
               /\ \A i \in Ids : IF rows[i].status = "queued"
                                 THEN job'[i] = None /\ row'[i] = NoRow
                                 ELSE row'[i] = rows[i]
            \/ \E n \in Ids :
                  /\ rows[n].status = "queued" /\ job'[n] # None
                  /\ pump' = Started(n, rows[n])
                  /\ row'[n] = [rows[n] EXCEPT !.status = "running"]
                  /\ \A i \in Ids \ {n} :
                        \/ row'[i] = rows[i]
                        \/ /\ rows[i].status = "queued" /\ job'[i] = None
                           /\ row'[i] = NoRow
<1> DEFINE queue == nextToRun(rows)
           live == {i \in queue : jobs[i] # None}
           next == Min(live)
           gone == {i \in queue : live = {} \/ i < next}
           rest == [i \in Ids |-> IF i \in gone THEN NoRow ELSE rows[i]]
<1>1. queue = {i \in Ids : rows[i].status = "queued"}
  BY DEF nextToRun, Queued
<1> HIDE DEF queue
<1>2. CASE live = {}
  <2>1. row' = rest /\ pump' = Idle
    BY <1>2 DEF NextTurn, queue
  <2>2. gone = {i \in Ids : rows[i].status = "queued"}
    BY <1>1, <1>2
  <2>3. \A i \in Ids : rows[i].status = "queued" => job'[i] = None
    BY <1>1, <1>2
  <2> QED BY <2>1, <2>2, <2>3
<1>3. CASE live # {}
  <2>1. next \in live /\ \A i \in live : next <= i
    BY <1>1, <1>3, LeastOf, Zenon
  <2>2. next \in Ids /\ rows[next].status = "queued" /\ jobs[next] # None /\ jobs[next] = job'[next]
    BY <1>1, <2>1
  <2>3. /\ row' = [rest EXCEPT ![next].status = "running"]
        /\ pump' = [Idle EXCEPT
              !.at = IF ~rows[next].resume /\ policy[jobs[next].batch] = None
                     THEN "checking" ELSE "running",
              !.id = next, !.batch = jobs[next].batch,
              !.choice = IF rows[next].resume THEN "resume"
                         ELSE IF ~rows[next].resume /\ policy[jobs[next].batch] = None
                              THEN "overwrite"
                         ELSE policy[jobs[next].batch]]
    BY <1>3 DEF NextTurn, queue
  <2>4. \A i \in Ids : i \in gone => i < next /\ rows[i].status = "queued"
    BY <1>1, <1>3
  <2>5. \A i \in Ids : i \in gone => job'[i] = None
    <3> SUFFICES ASSUME NEW i \in Ids, i \in gone, job'[i] # None PROVE FALSE
      OBVIOUS
    <3>1. i \in live /\ i < next
      BY <1>1, <2>4
    <3> QED BY <2>1, <2>2, <3>1, ConstantsAssumption DEF Ids, ConstantsAssumption
  <2>6. next \notin gone
    BY <2>2, <2>5
  <2> HIDE DEF gone, next
  <2>7. row' = [i \in Ids |-> row'[i]]
    BY <2>3
  <2>8. row'[next] = [rows[next] EXCEPT !.status = "running"]
    BY <2>2, <2>3, <2>6
  <2>9. \A i \in Ids \ {next} : row'[i] = IF i \in gone THEN NoRow ELSE rows[i]
    BY <2>2, <2>3
  <2>10. pump' = Started(next, rows[next])
    BY <2>2, <2>3 DEF Started
  <2> QED BY <2>2, <2>4, <2>5, <2>7, <2>8, <2>9, <2>10
<1> QED BY <1>2, <1>3

LEMMA RowGone ==
  ASSUME NEW CONSTANT i \in Ids, NEW CONSTANT r, RowOK(i, r)', r.status = "queued",
         job'[i] = None
  PROVE  RowOK(i, NoRow)'
BY DEF RowOK, NoRow, Rows, Statuses, Active

LEMMA RowRuns ==
  ASSUME NEW CONSTANT i \in Ids, NEW CONSTANT r, RowOK(i, r)', r.status = "queued",
         job'[i] # None
  PROVE  RowOK(i, [r EXCEPT !.status = "running"])'
<1> DEFINE on == [r EXCEPT !.status = "running"]
<1>1. /\ r \in Rows /\ on \in Rows /\ r # NoRow /\ on.status = "running" /\ on.resume = r.resume
      /\ ~resumable(r)
  BY DEF RowOK, NoRow, Rows, Statuses, Settled, resumable
<1> HIDE DEF on
<1>2. RowOK(i, on)'
  BY <1>1 DEF RowOK, Active
<1> QED BY <1>2 DEF on

LEMMA TurnKeeps ==
  ASSUME NEW CONSTANT rows \in [Ids -> Rows], NEW jobs, NextTurn(rows, jobs),
         \A i \in Ids : rows[i].status # "running",
         \A i \in Ids : rows[i].status = "queued" => jobs[i] = job'[i],
         UNCHANGED policy, Types', BatchesOK',
         \A i \in Ids : RowOK(i, rows[i])',
         \A b \in Batches : b \notin cut' /\ b \notin trimmed' /\ pending'[b] # <<>>
                               => Busy(b, rows)'
  PROVE  Inv'
<1> PICK now : now = row'
  OBVIOUS
<1>1. now = [i \in Ids |-> now[i]]
  BY NextTurnDoes
<1>2. CASE /\ pump' = Idle
           /\ \A i \in Ids : IF rows[i].status = "queued"
                             THEN job'[i] = None /\ now[i] = NoRow
                             ELSE now[i] = rows[i]
  <2>1. \A i \in Ids : RowOK(i, now[i])'
    BY <1>2, RowGone
  <2>2. \A i \in Ids : now[i] \in Rows /\ now[i].status \notin Active
    BY <1>2, <2>1 DEF RowOK, Active, NoRow
  <2>3. TypeOK'
    <3>1. now \in [Ids -> Rows]
      BY <1>1, <2>2
    <3>2. pump' \in Pumps /\ pump'.at = "idle"
      BY <1>2 DEF Pumps, Idle, Waits
    <3>3. RunningIs(now, pump'.at, pump'.id)
      BY <2>2, <3>2 DEF RunningIs, Active, Turning
    <3> QED BY <3>1, <3>2, <3>3 DEF TypeOK, Types, RunningIs, Turning
  <2>4. Asked(now)'
    <3>1. \A b \in Batches : ~Busy(b, rows)'
      BY <1>2 DEF Busy, OfBatch, Active
    <3> QED BY <3>1 DEF Asked
  <2>5. PumpOK'
    BY <1>2, <2>2 DEF PumpOK, Idle, Turning, Queued, Active, OverwriteIsTold
  <2>6. (\A i \in Ids : RowOK(i, row[i]))'
    BY <2>1 DEF RowOK
  <2> QED BY <2>3, <2>4, <2>5, <2>6 DEF Inv, Asked, Busy
<1>3. ASSUME NEW n \in Ids,
             /\ rows[n].status = "queued" /\ job'[n] # None
             /\ pump' = Started(n, rows[n])
             /\ now[n] = [rows[n] EXCEPT !.status = "running"]
             /\ \A i \in Ids \ {n} : \/ now[i] = rows[i]
                                     \/ /\ rows[i].status = "queued" /\ job'[i] = None
                                        /\ now[i] = NoRow
      PROVE  Inv'
  <2>1. \A i \in Ids : RowOK(i, now[i])'
    BY <1>3, RowGone, RowRuns
  <2>2. /\ \A i \in Ids : now[i] \in Rows
        /\ \A i \in Ids \ {n} : now[i].status # "running"
        /\ now[n].status = "running" /\ now[n].resume = rows[n].resume
    BY <1>3, <2>1 DEF RowOK, Rows, NoRow
  <2>3. /\ job'[n] \in Jobs /\ job'[n].batch \in Batches
        /\ policy' \in [Batches -> Answers \union {None}]
    BY <1>3 DEF Types, Jobs
  <2>4. /\ pump'.id = n /\ pump'.batch = job'[n].batch
        /\ pump'.at \in {"checking", "running"} /\ pump' \in Pumps
        /\ pump'.at = "checking" => ~rows[n].resume
        /\ pump'.at = "running" /\ pump'.choice = "overwrite" =>
              ~rows[n].resume /\ policy'[job'[n].batch] = "overwrite"
    <3> DEFINE b == job'[n].batch
    <3>1. CASE rows[n].resume
      <4>1. pump' = [Idle EXCEPT !.at = "running", !.id = n, !.batch = b, !.choice = "resume"]
        BY <1>3, <3>1 DEF Started
      <4> QED BY <2>3, <3>1, <4>1 DEF Idle, Pumps, Waits
    <3>2. CASE ~rows[n].resume /\ policy'[b] = None
      <4>1. pump' = [Idle EXCEPT !.at = "checking", !.id = n, !.batch = b,
                                 !.choice = "overwrite"]
        BY <1>3, <3>2 DEF Started
      <4> QED BY <2>3, <3>2, <4>1, ConstantsAssumption
              DEF Idle, Pumps, Waits, ConstantsAssumption
    <3>3. CASE ~rows[n].resume /\ policy'[b] # None
      <4>1. pump' = [Idle EXCEPT !.at = "running", !.id = n, !.batch = b, !.choice = policy'[b]]
        BY <1>3, <3>3 DEF Started
      <4> QED BY <2>3, <3>3, <4>1 DEF Idle, Pumps, Waits
    <3> QED BY <3>1, <3>2, <3>3
  <2>5. TypeOK'
    <3>1. now \in [Ids -> Rows]
      BY <1>1, <2>2
    <3>2. RunningIs(now, pump'.at, pump'.id)
      BY <2>2, <2>4 DEF RunningIs, Turning
    <3> QED BY <2>4, <3>1, <3>2 DEF TypeOK, Types, RunningIs, Turning
  <2>6. Asked(now)'
    <3>1. ASSUME NEW b \in Batches, Busy(b, rows)' PROVE Busy(b, now)'
      <4>1. PICK i \in Ids : job'[i] # None /\ job'[i].batch = b /\ rows[i].status \in Active
        BY <3>1 DEF Busy, OfBatch
      <4>2. now[i].status \in Active
        BY <1>3, <2>2, <4>1 DEF Active
      <4> QED BY <4>1, <4>2 DEF Busy, OfBatch
    <3> QED BY <3>1 DEF Asked
  <2>7. PumpOK'
    <3>1. pump'.at = "running" /\ pump'.choice = "overwrite" => n \in told'
      <4> SUFFICES ASSUME pump'.at = "running", pump'.choice = "overwrite" PROVE n \in told'
        OBVIOUS
      <4>1. ~rows[n].resume /\ policy'[job'[n].batch] = "overwrite"
        BY <2>4
      <4>2. RowOK(n, rows[n])' /\ rows[n].status = "queued" /\ job'[n] # None
        BY <1>3
      <4> QED BY <4>1, <4>2 DEF RowOK, Active
    <3>2. ~now[n].resume \/ pump'.at # "checking"
      BY <2>2, <2>4
    <3> QED BY <1>3, <2>4, <3>1, <3>2 DEF PumpOK, Turning, OverwriteIsTold
  <2>8. (\A i \in Ids : RowOK(i, row[i]))'
    BY <2>1 DEF RowOK
  <2> QED BY <2>5, <2>6, <2>7, <2>8 DEF Inv, Asked, Busy
<1>4. \/ /\ pump' = Idle
         /\ \A i \in Ids : IF rows[i].status = "queued"
                           THEN job'[i] = None /\ now[i] = NoRow
                           ELSE now[i] = rows[i]
      \/ \E n \in Ids :
            /\ rows[n].status = "queued" /\ job'[n] # None
            /\ pump' = Started(n, rows[n])
            /\ now[n] = [rows[n] EXCEPT !.status = "running"]
            /\ \A i \in Ids \ {n} : \/ now[i] = rows[i]
                                    \/ /\ rows[i].status = "queued" /\ job'[i] = None
                                       /\ now[i] = NoRow
  <2> USE NextTurnDoes
  <2> QED OBVIOUS
<1> QED BY <1>2, <1>3, <1>4

\* What is known while a row is being run.
LEMMA AtWork ==
  ASSUME Inv, pump.at \in Turning
  PROVE  /\ pump.id \in Ids /\ row[pump.id].status = "running"
         /\ \A i \in Ids \ {pump.id} : row[i].status # "running"
         /\ job[pump.id] \in Jobs /\ job[pump.id].batch = pump.batch
         /\ pump.batch \in Batches /\ pump.batch <= used.batches
         /\ pump.id \notin Range(dialog)
         /\ RowOK(pump.id, row[pump.id])
<1>1. RunningIs(row, pump.at, pump.id) /\ Types
  BY TypeParts DEF Inv
<1>2. /\ pump.id \in Ids /\ row[pump.id].status = "running"
      /\ \A i \in Ids \ {pump.id} : row[i].status # "running"
  BY <1>1 DEF RunningIs
<1>3. job[pump.id] # None /\ job[pump.id].batch = pump.batch /\ RowOK(pump.id, row[pump.id])
  BY <1>2 DEF Inv, PumpOK
<1>4. job[pump.id] \in Jobs /\ pump.batch \in Batches /\ pump.batch <= used.batches
  BY <1>1, <1>2, <1>3 DEF Types, Jobs, RowOK
<1>5. pump.id \notin Range(dialog)
  BY <1>2, <1>3 DEF RowOK, Active
<1> QED BY <1>2, <1>3, <1>4, <1>5

LEMMA WakeKeeps ==
  ASSUME Inv, NEW CONSTANT rows \in [Ids -> Rows], NEW jobs, Wake(rows, jobs),
         \A i \in Ids : /\ rows[i].status = "running" <=> row[i].status = "running"
                        /\ rows[i].status = "running" => rows[i] = row[i] /\ job'[i] = job[i]
                        /\ rows[i].status = "queued" => jobs[i] = job'[i],
         UNCHANGED <<policy, told>>, Types', BatchesOK', used.batches <= used'.batches,
         \A i \in Ids : RowOK(i, rows[i])',
         \A b \in Batches : b \notin cut' /\ b \notin trimmed' /\ pending'[b] # <<>>
                               => Busy(b, rows)' \/ (pump.at = "refreshing" /\ pump.batch = b)
  PROVE  Inv'
<1>1. RunningIs(row, pump.at, pump.id) /\ pump \in Pumps
  BY TypeParts DEF Inv
<1>2. CASE pump.at = "idle"
  <2>1. NextTurn(rows, jobs)
    BY <1>2 DEF Wake
  <2>2. \A i \in Ids : rows[i].status # "running"
    BY <1>1, <1>2 DEF RunningIs, Turning
  <2> QED BY <1>2, <2>1, <2>2, TurnKeeps
<1>3. CASE pump.at # "idle"
  <2>1. row' = rows /\ pump' = pump
    BY <1>3 DEF Wake
  <2>2. TypeOK'
    <3>1. RunningIs(rows, pump.at, pump.id)
      BY <1>1 DEF RunningIs
    <3> QED BY <1>1, <2>1, <3>1 DEF TypeOK, Types, RunningIs, Turning
  <2>3. (\A i \in Ids : RowOK(i, row[i]))'
    BY <2>1 DEF RowOK
  <2>4. Asked(row)'
    BY <2>1 DEF Asked, Busy
  <2>5. PumpOK'
    <3>1. CASE pump.at \in Turning
      <4>1. /\ pump.id \in Ids /\ rows[pump.id] = row[pump.id] /\ job'[pump.id] = job[pump.id]
            /\ pump.at \notin {"refreshing", "leaving", "idle"}
        BY <3>1, AtWork DEF Turning
      <4> QED BY <2>1, <3>1, <4>1 DEF Inv, PumpOK, OverwriteIsTold
    <3>2. CASE pump.at \in {"refreshing", "leaving"}
      <4>1. pump.batch \in 1 .. used'.batches
        <5>1. used.batches \in Nat /\ used'.batches \in Nat
          BY TypeParts, ConstantsAssumption DEF Inv, Types, ConstantsAssumption
        <5>2. pump.batch \in 1 .. used.batches
          BY <3>2 DEF Inv, PumpOK
        <5> QED BY <5>1, <5>2
      <4> QED BY <2>1, <3>2, <4>1 DEF Inv, PumpOK, OverwriteIsTold, Turning
    <3> QED BY <1>1, <1>3, <3>1, <3>2 DEF Pumps, Waits, Turning
  <2> QED BY <2>2, <2>3, <2>4, <2>5 DEF Inv
<1> QED BY <1>2, <1>3

\* What one more in a sequence adds to its members.
LEMMA RangeAppend ==
  ASSUME NEW S, NEW s \in Seq(S), NEW e \in S
  PROVE  Range(Append(s, e)) = Range(s) \cup {e} /\ Append(s, e) \in Seq(S)
<1>1. /\ Append(s, e) \in Seq(S) /\ Len(Append(s, e)) = Len(s) + 1 /\ Len(s) \in Nat
      /\ \A i \in 1 .. Len(s) : Append(s, e)[i] = s[i]
      /\ Append(s, e)[Len(s) + 1] = e
  BY AppendProperties, LenProperties
<1>2. DOMAIN s = 1 .. Len(s) /\ DOMAIN Append(s, e) = 1 .. Len(s) + 1
  BY <1>1, LenProperties
<1> HIDE DEF Range
<1>3. 1 .. Len(s) + 1 = (1 .. Len(s)) \cup {Len(s) + 1}
  BY <1>1
<1> QED BY <1>1, <1>2, <1>3 DEF Range

----------------------------------------------------------------------------
(* The pump *)

LEMMA EndKeeps ==
  ASSUME Inv, pump.at \in Turning, NEW status \in {"done", "failed", "cancelled"},
         NEW left \in BOOLEAN, NEW waiting, EndTurn(finished(status, left), waiting, "refreshing"),
         \/ waiting = pending
         \/ waiting = [pending EXCEPT ![pump.batch] = Append(@, pump.id)],
         part' = IF left THEN part \union {pump.id} ELSE part \ {pump.id},
         told' \in {told, told \ {pump.id}},
         UNCHANGED <<policy, dialog, used, cut, trimmed>>
  PROVE  Inv'
<1> DEFINE id == pump.id
           b0 == pump.batch
           r == [row[id] EXCEPT !.status = status, !.left = left, !.resume = FALSE]
<1>1. /\ id \in Ids /\ job[id] \in Jobs /\ job[id].batch = b0 /\ b0 \in Batches
      /\ b0 <= used.batches /\ id \notin Range(dialog) /\ row[id].status = "running"
      /\ \A i \in Ids \ {id} : row[i].status # "running"
      /\ RowOK(id, row[id]) /\ row[id] \in Rows
  BY AtWork DEF RowOK
<1>2. Types /\ row \in [Ids -> Rows] /\ pump \in Pumps /\ BatchesOK /\ Asked(row)
      /\ \A i \in Ids : RowOK(i, row[i])
  BY TypeParts DEF Inv
<1>3. row' = [row EXCEPT ![id] = r]
  BY <1>1, <1>2 DEF EndTurn, finished
<1>4. /\ r \in Rows /\ r.status = status /\ r.left = left /\ ~r.resume
      /\ r.status \notin Active /\ Settled(r)
  BY <1>1 DEF Rows, Statuses, Active, Settled
<1> HIDE DEF r
<1>5. /\ waiting \in [Batches -> Seq(Ids)] /\ pending' = waiting
      /\ \A b \in Batches \ {b0} : waiting[b] = pending[b]
      /\ \A b \in Batches : Range(waiting[b]) \subseteq Range(pending[b]) \cup {id}
      /\ \A b \in Batches : Range(pending[b]) \subseteq Range(waiting[b])
  <2>1. pending[b0] \in Seq(Ids)
    BY <1>1, <1>2 DEF Types
  <2>2. Append(pending[b0], id) \in Seq(Ids)
        /\ Range(Append(pending[b0], id)) = Range(pending[b0]) \cup {id}
    BY <1>1, <2>1, RangeAppend
  <2>3. pending' = waiting
    BY DEF EndTurn
  <2>4. CASE waiting = pending
    BY <1>2, <2>3, <2>4 DEF Types
  <2>5. CASE waiting = [pending EXCEPT ![b0] = Append(@, id)]
    BY <1>1, <1>2, <2>2, <2>3, <2>5 DEF Types
  <2> QED BY <2>4, <2>5
<1>6. /\ pump' = [pump EXCEPT !.at = "refreshing", !.clear = FALSE, !.stop = FALSE]
      /\ pump' \in Pumps /\ pump'.at = "refreshing" /\ pump'.id = id /\ pump'.batch = b0
  BY <1>2 DEF EndTurn, Pumps, Waits
<1>7. /\ job' \in [Ids -> Jobs \union {None}]
      /\ \A i \in Ids \ {id} : job'[i] = job[i]
      /\ \/ job'[id] = job[id]
         \/ job'[id] = None /\ ~left /\ \A b \in Batches : id \notin Range(waiting[b])
  <2> DEFINE over == finished(status, left)
  <2>1. over[id] = r
    BY <1>1, <1>2 DEF finished, r
  <2>2. job' = IF Wanted(id, over, waiting) THEN job ELSE [job EXCEPT ![id] = None]
    BY DEF EndTurn
  <2>3. left \/ (\E b \in Batches : id \in Range(waiting[b])) => Wanted(id, over, waiting)
    BY <1>4, <2>1 DEF Wanted, resumable
  <2> HIDE DEF over
  <2> QED BY <1>1, <1>2, <2>2, <2>3 DEF Types
<1>8. job[id] # None
  BY <1>1, <1>2 DEF Inv, PumpOK
<1>9. ASSUME NEW i \in Ids \ {id} PROVE RowOK(i, row[i])'
  <2>1. RowOK(i, row[i]) /\ row'[i] = row[i] /\ job'[i] = job[i]
    BY <1>2, <1>3, <1>7, <1>9
  <2>2. \A b \in Batches : i \in Range(pending'[b]) <=> i \in Range(pending[b])
    BY <1>5, <1>9
  <2>3. (i \in part' <=> i \in part) /\ (i \in told' <=> i \in told)
    BY <1>9
  <2> QED BY <2>1, <2>2, <2>3 DEF RowOK
<1>10. ASSUME NEW i \in Ids, i = id PROVE RowOK(i, row[i])'
  <2>1. row'[i] = r
    BY <1>1, <1>2, <1>3, <1>10
  <2>2. \A b \in Batches : i \in Range(pending'[b]) => b = b0
    BY <1>1, <1>2, <1>5, <1>8, <1>10 DEF RowOK
  <2>3. i <= used.rows
    BY <1>1, <1>2, <1>8, <1>10, ConstantsAssumption DEF RowOK, Types, Ids, ConstantsAssumption
  <2>4. job'[i] # None => job'[i].batch = b0 /\ b0 <= used'.batches
    BY <1>1, <1>7, <1>10
  <2>5. i \in part' => job'[i] # None /\ resumable(r)
    BY <1>4, <1>7, <1>8, <1>10 DEF resumable
  <2>6. \A b \in Batches : i \in Range(pending'[b]) => job'[i] # None /\ job'[i].batch = b
    BY <1>5, <1>7, <1>8, <1>10, <2>2, <2>4
  <2>7. /\ ~(i > used'.rows) /\ i \notin Range(dialog')
    BY <1>1, <1>2, <1>10, <2>3, ConstantsAssumption DEF Types, Ids, ConstantsAssumption
  <2> QED BY <1>4, <2>1, <2>2, <2>3, <2>4, <2>5, <2>6, <2>7 DEF RowOK
<1>11. TypeOK'
  <2>1. row' \in [Ids -> Rows]
    BY <1>2, <1>3, <1>4
  <2>2. RunningIs(row', "refreshing", id)
    BY <1>1, <1>2, <1>3, <1>4 DEF RunningIs, Active, Turning
  <2>3. part' \subseteq Ids /\ told' \subseteq Ids
    BY <1>1, <1>2 DEF Types
  <2> QED BY <1>2, <1>5, <1>6, <1>7, <2>1, <2>2, <2>3 DEF TypeOK, Types, RunningIs, Turning
<1>12. BatchesOK'
  BY <1>1, <1>2, <1>5 DEF BatchesOK, Batches, Types
<1>13. Asked(row)'
  <2> SUFFICES ASSUME NEW b \in Batches \ (cut \union trimmed), pending'[b] # <<>>, b # b0
               PROVE  Busy(b, row)'
    BY <1>6 DEF Asked
  <2>1. Busy(b, row)
    BY <1>2, <1>5 DEF Asked, Turning
  <2>2. PICK i \in Ids : job[i] # None /\ job[i].batch = b /\ row[i].status \in Active
    BY <2>1 DEF Busy, OfBatch
  <2>3. i # id
    BY <1>1, <2>2
  <2> QED BY <1>2, <1>3, <1>7, <2>2, <2>3 DEF Busy, OfBatch
<1>14. PumpOK'
  BY <1>1, <1>2, <1>6 DEF PumpOK, Turning, OverwriteIsTold, Batches, Types
<1>15. (\A i \in Ids : RowOK(i, row[i]))'
  <2> SUFFICES ASSUME NEW i \in Ids PROVE RowOK(i, row[i])'
    OBVIOUS
  <2>1. CASE i = id
    BY <1>10, <2>1
  <2>2. CASE i # id
    BY <1>9, <2>2
  <2> QED BY <2>1, <2>2
<1> QED BY <1>11, <1>12, <1>13, <1>14, <1>15 DEF Inv

\* A step of the pump that is not the end of a turn touches no row and no job.
LEMMA CheckKeeps ==
  ASSUME Inv, CheckFoundNone \/ CheckFoundSome
  PROVE  Inv'
<1>1. /\ pump.at = "checking" /\ UNCHANGED <<row, job, policy, pending, dialog, used, history>>
      /\ \/ pump' = [pump EXCEPT !.at = "running", !.clear = TRUE]
         \/ pump' = [pump EXCEPT !.at = "asking"]
  BY DEF CheckFoundNone, CheckFoundSome
<1>2. /\ pump \in Pumps /\ RunningIs(row, pump.at, pump.id)
  BY TypeParts DEF Inv
<1>3. /\ pump' \in Pumps /\ pump'.id = pump.id /\ pump'.batch = pump.batch
      /\ pump'.choice = pump.choice
      /\ \/ pump'.at = "running" /\ pump'.clear
         \/ pump'.at = "asking"
  BY <1>1, <1>2 DEF Pumps, Waits
<1>4. TypeOK'
  <2>1. RunningIs(row, pump'.at, pump.id)
    BY <1>1, <1>2, <1>3 DEF RunningIs, Turning
  <2> QED BY <1>1, <1>2, <1>3, <2>1, TypeParts DEF Inv, TypeOK, Types, RunningIs, Turning, history
<1>5. (\A i \in Ids : RowOK(i, row[i]))'
  BY <1>1 DEF Inv, RowOK, history
<1>6. BatchesOK' /\ Asked(row)'
  BY <1>1, <1>3 DEF Inv, BatchesOK, Asked, Busy, OfBatch, history
<1>7. PumpOK'
  BY <1>1, <1>3 DEF Inv, PumpOK, Turning, OverwriteIsTold, history
<1> QED BY <1>4, <1>5, <1>6, <1>7 DEF Inv

LEMMA CheckFailedKeeps == ASSUME Inv, CheckFailed PROVE Inv'
<1>1. /\ pump.at \in Turning /\ EndTurn(finished("failed", FALSE), pending, "refreshing")
      /\ pump.at = "checking" /\ UNCHANGED <<policy, dialog, used, part, cut, trimmed, told>>
  BY DEF CheckFailed, Turning, history
<1>2. RowOK(pump.id, row[pump.id]) /\ row[pump.id].status = "running" /\ ~row[pump.id].resume
  BY <1>1, AtWork DEF Inv, PumpOK
<1>3. pump.id \notin part
  BY <1>2 DEF RowOK, resumable, Settled
<1>4. part' = part \ {pump.id}
  BY <1>1, <1>3
<1> QED BY <1>1, <1>4, EndKeeps

LEMMA RefusedKeeps == ASSUME Inv, Refused PROVE Inv'
<1>1. /\ pump.at \in Turning /\ EndTurn(finished("failed", FALSE), pending, "refreshing")
      /\ part' = part \ {pump.id} /\ told' = told \ {pump.id}
      /\ UNCHANGED <<policy, dialog, used, cut, trimmed>>
  BY DEF Refused, Turning
<1> QED BY <1>1, EndKeeps

LEMMA EndsKeeps ==
  ASSUME Inv, NEW status \in {"done", "failed", "cancelled"}, NEW left \in BOOLEAN,
         NEW differs \in BOOLEAN, Ends(status, left, differs)
  PROVE  Inv'
<1> DEFINE waiting == IF differs THEN [pending EXCEPT ![pump.batch] = Append(@, pump.id)]
                      ELSE pending
<1>1. /\ pump.at \in Turning /\ EndTurn(finished(status, left), waiting, "refreshing")
      /\ part' = IF left THEN part \union {pump.id} ELSE part \ {pump.id}
      /\ told' = told \ {pump.id}
      /\ UNCHANGED <<policy, dialog, used, cut, trimmed>>
  BY DEF Ends, Turning
<1> QED BY <1>1, EndKeeps

\* The question about mismatches takes what waits to the dialog, and none of it
\* is queued or runs, since the batch has settled.
LEMMA RefreshedKeeps == ASSUME Inv, Refreshed PROVE Inv'
<1> DEFINE b0 == pump.batch
<1>1. /\ pump.at = "refreshing" /\ AskMismatches(b0) /\ NextTurn(row, job)
      /\ UNCHANGED <<job, policy, used, part, cut, trimmed, told>>
  BY DEF Refreshed, history
<1>2. /\ Types /\ row \in [Ids -> Rows] /\ RunningIs(row, pump.at, pump.id)
      /\ \A i \in Ids : RowOK(i, row[i])
      /\ BatchesOK /\ Asked(row)
  BY TypeParts DEF Inv
<1>3. \A i \in Ids : row[i].status # "running"
  BY <1>1, <1>2 DEF RunningIs, Turning
<1>4. b0 \in Batches
  BY <1>1, <1>2, ConstantsAssumption DEF Inv, PumpOK, Types, Batches, ConstantsAssumption
<1>5. CASE pending[b0] # <<>> /\ batchSettled(b0)
  <2>1. dialog' = pending[b0] /\ pending' = [pending EXCEPT ![b0] = <<>>]
    BY <1>1, <1>5 DEF AskMismatches
  <2>2. /\ pending'[b0] = <<>> /\ \A b \in Batches \ {b0} : pending'[b] = pending[b]
        /\ dialog' \in Seq(Ids) /\ pending' \in [Batches -> Seq(Ids)]
    BY <1>2, <1>4, <2>1 DEF Types
  <2>3. Range(<<>>) = {}
    BY DEF Range
  <2>4. Types'
    BY <1>1, <1>2, <2>2 DEF Types
  <2>5. BatchesOK'
    BY <1>1, <1>2, <2>2 DEF BatchesOK
  <2> PICK rows : rows = row
    OBVIOUS
  <2>6. ASSUME NEW i \in Ids PROVE RowOK(i, rows[i])'
    <3>1. RowOK(i, row[i])
      BY <1>2
    <3>2. \A b \in Batches : i \in Range(pending'[b]) => b # b0 /\ i \in Range(pending[b])
      BY <2>2, <2>3
    <3>3. ASSUME i \in Range(pending[b0])
          PROVE  /\ row[i].status \notin Active /\ i <= used.rows
                 /\ \A b \in Batches : i \notin Range(pending'[b])
      <4>1. i <= used.rows /\ \A c \in Batches : i \in Range(pending[c]) => c = b0
        BY <1>4, <3>1, <3>3 DEF RowOK
      <4>2. job[i] = None \/ i \in OfBatch(job, b0)
        BY <1>4, <3>1, <3>3 DEF RowOK, OfBatch
      <4>3. job[i] = None => row[i].status = "none"
        BY <1>4, <3>1, <3>3 DEF RowOK
      <4>4. row[i].status \notin Active
        BY <1>5, <4>2, <4>3 DEF batchSettled, Active
      <4> QED BY <3>2, <4>1, <4>4
    <3> QED BY <1>1, <2>1, <3>1, <3>2, <3>3 DEF RowOK
  <2>7. \A b \in Batches : b \notin cut' /\ b \notin trimmed' /\ pending'[b] # <<>>
                              => Busy(b, rows)'
    <3> SUFFICES ASSUME NEW b \in Batches, b \notin cut, b \notin trimmed, pending'[b] # <<>>
                 PROVE  Busy(b, rows)'
      BY <1>1
    <3>1. b # b0 /\ pending[b] # <<>>
      BY <2>2
    <3>2. Busy(b, row)
      BY <1>2, <3>1 DEF Asked
    <3> QED BY <1>1, <3>2 DEF Busy, OfBatch
  <2> QED BY <1>1, <1>2, <1>3, <2>4, <2>5, <2>6, <2>7, TurnKeeps
<1>6. CASE ~(pending[b0] # <<>> /\ batchSettled(b0))
  <2>1. UNCHANGED <<dialog, pending>>
    BY <1>1, <1>6 DEF AskMismatches
  <2>2. Types' /\ BatchesOK'
    BY <1>1, <1>2, <2>1 DEF Types, BatchesOK
  <2> PICK rows : rows = row
    OBVIOUS
  <2>3. \A i \in Ids : RowOK(i, rows[i])'
    BY <1>1, <1>2, <2>1 DEF RowOK
  <2>4. ASSUME NEW b \in Batches, b \notin cut, b \notin trimmed, pending[b] # <<>>
        PROVE  Busy(b, rows)'
    <3>1. CASE b = b0
      BY <1>1, <1>6, <2>4, <3>1 DEF batchSettled, Busy, OfBatch, Active
    <3>2. CASE b # b0
      <4>1. Busy(b, row)
        BY <1>2, <2>4, <3>2 DEF Asked
      <4> QED BY <1>1, <4>1 DEF Busy, OfBatch
    <3> QED BY <3>1, <3>2
  <2>5. \A b \in Batches : b \notin cut' /\ b \notin trimmed' /\ pending'[b] # <<>>
                              => Busy(b, rows)'
    BY <1>1, <2>1, <2>4
  <2> QED BY <1>1, <1>2, <1>3, <2>2, <2>3, <2>5, TurnKeeps
<1> QED BY <1>5, <1>6

LEMMA LeavingKeeps == ASSUME Inv, RefreshedAfterCancel PROVE Inv'
<1>1. /\ pump.at = "leaving" /\ NextTurn(row, job)
      /\ UNCHANGED <<job, policy, pending, dialog, used, part, cut, trimmed, told>>
  BY DEF RefreshedAfterCancel, history
<1>2. /\ Types /\ row \in [Ids -> Rows] /\ RunningIs(row, pump.at, pump.id)
      /\ \A i \in Ids : RowOK(i, row[i])
      /\ BatchesOK /\ Asked(row)
  BY TypeParts DEF Inv
<1>3. \A i \in Ids : row[i].status # "running"
  BY <1>1, <1>2 DEF RunningIs, Turning
<1> PICK rows : rows = row
  OBVIOUS
<1>4. Types' /\ BatchesOK' /\ \A i \in Ids : RowOK(i, rows[i])'
  BY <1>1, <1>2 DEF Types, BatchesOK, RowOK
<1>5. \A b \in Batches : b \notin cut' /\ b \notin trimmed' /\ pending'[b] # <<>>
                            => Busy(b, rows)'
  BY <1>1, <1>2 DEF Asked, Busy, OfBatch
<1> QED BY <1>1, <1>2, <1>3, <1>4, <1>5, TurnKeeps

----------------------------------------------------------------------------
(* The user *)

\* The names that n rows put in get.
Fresh(i, n) == i > used.rows /\ i <= used.rows + n

\* Rows that are put in stand after those that were there, with their jobs.
LEMMA EnqueuedDoes ==
  ASSUME Inv, NEW n \in Nat, Room(n), NEW recopy \in BOOLEAN, NEW again \in BOOLEAN
  PROVE  LET b == used.batches + 1
             now == Enqueued([k \in 1 .. n |->
                                [batch |-> b, recopy |-> recopy, again |-> again]])
         IN  /\ now.rows \in [Ids -> Rows] /\ now.jobs \in [Ids -> Jobs \union {None}]
             /\ \A i \in Ids : IF Fresh(i, n)
                               THEN /\ now.rows[i] = [NoRow EXCEPT !.status = "queued"]
                                    /\ now.jobs[i] # None /\ now.jobs[i].batch = b
                               ELSE now.rows[i] = row[i] /\ now.jobs[i] = job[i]
<1> DEFINE b == used.batches + 1
           new == [batch |-> b, recopy |-> recopy, again |-> again]
           jobs == [k \in 1 .. n |-> new]
           now == Enqueued(jobs)
           queued == [NoRow EXCEPT !.status = "queued"]
<1>1. /\ used.rows \in Nat /\ used.batches \in Nat /\ NumRows \in Nat /\ NumBatches \in Nat
      /\ row \in [Ids -> Rows] /\ job \in [Ids -> Jobs \union {None}]
  BY TypeParts, ConstantsAssumption DEF Inv, Types, ConstantsAssumption
<1>2. b \in Batches
  BY <1>1 DEF Room, Batches
<1>3. new \in Jobs /\ new.batch = b /\ queued \in Rows
  BY <1>2 DEF Jobs, Rows, NoRow, Statuses
<1>4. new # None
  <2>1. new \in [batch : Nat, recopy : BOOLEAN, again : BOOLEAN]
    BY <1>1
  <2> QED BY <2>1, ConstantsAssumption DEF ConstantsAssumption
<1> HIDE DEF new, queued, b
<1>5. /\ now.rows = [i \in Ids |-> IF i - used.rows \in 1 .. n THEN queued ELSE row[i]]
      /\ now.jobs = [i \in Ids |-> IF i - used.rows \in 1 .. n THEN jobs[i - used.rows]
                                   ELSE job[i]]
  BY DEF Enqueued, queued
<1>6. \A k \in 1 .. n : jobs[k] = new
  OBVIOUS
<1>7. \A i \in Ids : i - used.rows \in 1 .. n <=> Fresh(i, n)
  BY <1>1 DEF Ids, Fresh
<1> HIDE DEF now, jobs
<1>8. /\ now.rows = [i \in Ids |-> IF Fresh(i, n) THEN queued ELSE row[i]]
      /\ now.jobs = [i \in Ids |-> IF Fresh(i, n) THEN new ELSE job[i]]
  BY <1>5, <1>6, <1>7
<1>9. now.rows \in [Ids -> Rows] /\ now.jobs \in [Ids -> Jobs \union {None}]
  BY <1>1, <1>3, <1>8
<1>10. \A i \in Ids : IF Fresh(i, n)
                      THEN now.rows[i] = queued /\ now.jobs[i] # None /\ now.jobs[i].batch = b
                      ELSE now.rows[i] = row[i] /\ now.jobs[i] = job[i]
  BY <1>3, <1>4, <1>8
<1> QED BY <1>9, <1>10 DEF now, jobs, queued, b, new

\* A drop, or a Copy again, whose dialog goes with the jobs it was about.
LEMMA EnqueueKeeps ==
  ASSUME Inv, NEW n \in Nat, Room(n),
         NEW CONSTANT rows \in [Ids -> Rows], NEW jobs \in [Ids -> Jobs \union {None}],
         \A i \in Ids : IF Fresh(i, n)
                        THEN /\ rows[i] = [NoRow EXCEPT !.status = "queued"]
                             /\ jobs[i] # None /\ jobs[i].batch = used.batches + 1
                        ELSE rows[i] = row[i] /\ jobs[i] = job[i],
         Wake(rows, jobs), job' = WithoutJobs(jobs, dialog), dialog' = <<>>,
         part' = part \ Range(dialog),
         used' = [rows |-> used.rows + n, batches |-> used.batches + 1],
         UNCHANGED <<policy, pending, cut, trimmed, told>>
  PROVE  Inv'
<1> DEFINE b0 == used.batches + 1
<1>1. /\ Types /\ row \in [Ids -> Rows] /\ BatchesOK /\ Asked(row)
      /\ \A i \in Ids : RowOK(i, row[i])
  BY TypeParts DEF Inv
<1>2. /\ used.rows \in Nat /\ used.batches \in Nat /\ NumRows \in Nat /\ NumBatches \in Nat
      /\ \A i \in Ids : i \in Nat
  BY <1>1, ConstantsAssumption DEF Types, ConstantsAssumption, Ids
<1>3. b0 \in Batches /\ used.rows + n \in 0 .. NumRows /\ used.batches < b0
  BY <1>2 DEF Room, Batches
<1>4. used'.rows = used.rows + n /\ used'.batches = b0 /\ b0 \in 0 .. NumBatches /\ b0 \in Nat
  BY <1>2, <1>3 DEF Batches
<1>5. /\ \A i \in Ids : i <= used.rows => ~Fresh(i, n) /\ i <= used'.rows
      /\ \A i \in Ids : Fresh(i, n) => i > used.rows /\ ~(i > used'.rows)
      /\ \A i \in Ids : ~Fresh(i, n) /\ i > used'.rows => i > used.rows
  BY <1>2, <1>4 DEF Fresh
<1>6. /\ Range(<<>>) = {} /\ <<>> \in Seq(Ids)
      /\ \A i \in Ids : i > used.rows <=> ~(i <= used.rows)
  BY <1>2 DEF Range
<1>7. \A i \in Ids : job'[i] = IF i \in Range(dialog) THEN None ELSE jobs[i]
  BY DEF WithoutJobs
<1>8. Types'
  <2>1. job' \in [Ids -> Jobs \union {None}]
    BY DEF WithoutJobs
  <2>2. used' \in [rows : 0 .. NumRows, batches : 0 .. NumBatches]
    BY <1>3, <1>4
  <2> QED BY <1>1, <1>6, <2>1, <2>2 DEF Types
<1>9. BatchesOK'
  <2>1. \A b \in Batches : b > used'.batches => b > used.batches
    BY <1>2, <1>4 DEF Batches
  <2> QED BY <1>1, <2>1 DEF BatchesOK
<1>10. ASSUME NEW i \in Ids PROVE RowOK(i, rows[i])'
  <2>1. RowOK(i, row[i]) /\ rows[i] \in Rows
    BY <1>1
  <2>2. CASE Fresh(i, n)
    <3>1. i > used.rows /\ ~(i > used'.rows) /\ ~(i <= used.rows)
      BY <1>5, <1>6, <2>2
    <3>2. row[i] = NoRow /\ job[i] = None
      BY <2>1, <3>1 DEF RowOK
    <3>3. i \notin part /\ i \notin Range(dialog) /\ \A b \in Batches : i \notin Range(pending[b])
      BY <2>1, <3>1, <3>2 DEF RowOK
    <3>4. rows[i].status = "queued" /\ ~rows[i].resume
      BY <2>2 DEF NoRow
    <3>5. job'[i] # None /\ job'[i].batch = b0
      BY <1>7, <2>2, <3>3
    <3>6. b0 \notin cut /\ policy[b0] # "overwrite"
      <4>1. b0 > used.batches
        BY <1>2, <1>3
      <4>2. b0 \notin cut /\ policy[b0] = None
        BY <1>1, <1>3, <4>1 DEF BatchesOK
      <4> QED BY <4>2, ConstantsAssumption DEF ConstantsAssumption
    <3>7. /\ i \notin part' /\ i \notin Range(dialog')
          /\ \A b \in Batches : i \notin Range(pending'[b])
      BY <1>6, <3>3
    <3>8. b0 <= used'.batches
      BY <1>4
    <3> HIDE DEF b0
    <3> QED BY <2>1, <3>1, <3>4, <3>5, <3>6, <3>7, <3>8 DEF RowOK
  <2>3. CASE ~Fresh(i, n)
    <3>1. /\ rows[i] = row[i] /\ jobs[i] = job[i]
          /\ i > used'.rows => i > used.rows
          /\ i <= used.rows => i <= used'.rows
      BY <1>5, <2>3
    <3>2. job'[i] = IF i \in Range(dialog) THEN None ELSE job[i]
      BY <1>7, <3>1
    <3>3. job[i] # None => job[i].batch <= used'.batches
      <4> SUFFICES ASSUME job[i] # None PROVE job[i].batch <= used'.batches
        OBVIOUS
      <4>1. job[i].batch \in Nat /\ job[i].batch <= used.batches
        BY <1>1, <1>2, <2>1 DEF RowOK, Types, Jobs, Batches
      <4> QED BY <1>2, <1>4, <4>1
    <3>4. i \notin Range(dialog') /\ (i \in part' <=> i \in part /\ i \notin Range(dialog))
      BY <1>6
    <3>5. CASE i \in Range(dialog)
      BY <2>1, <3>1, <3>2, <3>4, <3>5 DEF RowOK
    <3>6. CASE i \notin Range(dialog)
      BY <2>1, <3>1, <3>2, <3>3, <3>4, <3>6 DEF RowOK
    <3> QED BY <3>5, <3>6
  <2> QED BY <2>2, <2>3
<1>11. ASSUME NEW i \in Ids
       PROVE  /\ rows[i].status = "running" <=> row[i].status = "running"
              /\ rows[i].status = "running" => rows[i] = row[i] /\ job'[i] = job[i]
              /\ rows[i].status = "queued" => jobs[i] = job'[i]
  <2>1. i \in Range(dialog) => row[i].status \notin Active /\ i <= used.rows
    BY <1>1 DEF RowOK
  <2>2. CASE Fresh(i, n)
    <3>1. i > used.rows /\ i \notin Range(dialog)
      BY <1>5, <1>6, <2>1, <2>2
    <3>2. row[i] = NoRow /\ rows[i].status = "queued"
      BY <1>1, <2>2, <3>1 DEF RowOK, NoRow
    <3> QED BY <1>7, <3>1, <3>2 DEF NoRow
  <2>3. CASE ~Fresh(i, n)
    BY <1>7, <2>1, <2>3 DEF Active
  <2> QED BY <2>2, <2>3
<1>12. ASSUME NEW b \in Batches, b \notin cut, b \notin trimmed, pending[b] # <<>>
       PROVE  Busy(b, rows)' \/ (pump.at = "refreshing" /\ pump.batch = b)
  <2> SUFFICES ASSUME Busy(b, row) PROVE Busy(b, rows)'
    BY <1>1, <1>12 DEF Asked
  <2>1. PICK i \in Ids : job[i] # None /\ job[i].batch = b /\ row[i].status \in Active
    BY DEF Busy, OfBatch
  <2>2. RowOK(i, row[i])
    BY <1>1
  <2>3. i \notin Range(dialog) /\ ~Fresh(i, n)
    BY <1>5, <2>1, <2>2 DEF RowOK
  <2>4. rows[i] = row[i] /\ job'[i] = job[i]
    BY <1>7, <2>3
  <2> QED BY <2>1, <2>4 DEF Busy, OfBatch
<1>13. \A b \in Batches : b \notin cut' /\ b \notin trimmed' /\ pending'[b] # <<>>
                             => Busy(b, rows)' \/ (pump.at = "refreshing" /\ pump.batch = b)
  BY <1>12
<1>14. used.batches <= used'.batches
  BY <1>2, <1>4
<1> QED BY <1>8, <1>9, <1>10, <1>11, <1>13, <1>14, WakeKeeps

LEMMA DropKeeps ==
  ASSUME Inv, NEW n \in Ids, NEW recopy \in BOOLEAN, Drop(n, recopy)
  PROVE  Inv'
<1> DEFINE now == Enqueued([k \in 1 .. n |->
                    [batch |-> used.batches + 1, recopy |-> recopy, again |-> FALSE]])
<1>1. /\ ~Modal /\ Room(n) /\ Wake(now.rows, now.jobs) /\ job' = now.jobs
      /\ used' = [rows |-> used.rows + n, batches |-> used.batches + 1]
      /\ UNCHANGED <<policy, pending, dialog, part, cut, trimmed, told>>
  BY DEF Drop, history
<1>2. n \in Nat
  BY ConstantsAssumption DEF Ids, ConstantsAssumption
<1>3. /\ now.rows \in [Ids -> Rows] /\ now.jobs \in [Ids -> Jobs \union {None}]
      /\ \A i \in Ids : IF Fresh(i, n)
                        THEN /\ now.rows[i] = [NoRow EXCEPT !.status = "queued"]
                             /\ now.jobs[i] # None /\ now.jobs[i].batch = used.batches + 1
                        ELSE now.rows[i] = row[i] /\ now.jobs[i] = job[i]
  BY <1>1, <1>2, EnqueuedDoes
<1> HIDE DEF now
<1>4. dialog = <<>> /\ dialog' = <<>> /\ Range(dialog) = {}
  BY <1>1 DEF Modal, Range
<1>5. job' = WithoutJobs(now.jobs, dialog)
  BY <1>1, <1>3, <1>4 DEF WithoutJobs
<1>6. part' = part \ Range(dialog)
  BY <1>1, <1>4
<1> PICK rows : rows = now.rows
  OBVIOUS
<1> QED BY <1>1, <1>2, <1>3, <1>4, <1>5, <1>6, EnqueueKeeps

\* What the window does to rows that are over, or to the flag of the one that
\* runs, leaves the pump where it is.
LEMMA QuietKeeps ==
  ASSUME Inv, NEW CONSTANT now \in [Ids -> Rows], row' = now, Types', UNCHANGED <<policy, used>>,
         NEW stop \in BOOLEAN, pump' = [pump EXCEPT !.stop = stop],
         \A i \in Ids : /\ row[i].status = "running" =>
                              /\ now[i].status = "running" /\ now[i].resume = row[i].resume
                              /\ job'[i] = job[i] /\ (i \in told => i \in told')
                        /\ now[i].status \in Active => now[i].status = row[i].status,
         BatchesOK', Asked(now)', \A i \in Ids : RowOK(i, now[i])'
  PROVE  Inv'
<1>1. pump \in Pumps /\ RunningIs(row, pump.at, pump.id)
  BY TypeParts DEF Inv
<1>2. /\ pump' \in Pumps /\ pump'.at = pump.at /\ pump'.id = pump.id
      /\ pump'.batch = pump.batch /\ pump'.choice = pump.choice /\ pump'.clear = pump.clear
  BY <1>1 DEF Pumps
<1>3. TypeOK'
  <2>1. RunningIs(now, pump.at, pump.id)
    BY <1>1 DEF RunningIs, Active
  <2> QED BY <1>2, <2>1 DEF TypeOK, Types, RunningIs, Turning
<1>4. PumpOK'
  <2>1. CASE pump.at \in Turning
    <3>1. pump.id \in Ids /\ row[pump.id].status = "running"
      BY <2>1, AtWork
    <3> QED BY <1>2, <2>1, <3>1 DEF Inv, PumpOK, Turning, OverwriteIsTold
  <2>2. CASE pump.at \notin Turning
    BY <1>2, <2>2 DEF Inv, PumpOK, Turning, OverwriteIsTold, Queued, Active
  <2> QED BY <2>1, <2>2
<1>5. (\A i \in Ids : RowOK(i, row[i]))'
  BY DEF RowOK
<1>6. Asked(row)'
  BY DEF Asked, Busy
<1> QED BY <1>3, <1>4, <1>5, <1>6 DEF Inv

LEMMA AnswerKeeps ==
  ASSUME Inv, NEW choice \in Answers, NEW all \in BOOLEAN, AnswerConflict(choice, all)
  PROVE  Inv'
<1> DEFINE b0 == pump.batch
           id == pump.id
<1>1. /\ pump.at = "asking"
      /\ policy' = IF all THEN [policy EXCEPT ![b0] = choice] ELSE policy
      /\ pump' = [pump EXCEPT !.at = "running", !.choice = choice]
      /\ told' = IF choice # "overwrite" THEN told
                 ELSE told \union {id} \union (IF all THEN Rest(row) ELSE {})
      /\ UNCHANGED <<row, job, pending, dialog, used, part, cut, trimmed>>
  BY DEF AnswerConflict, PolicyFor
<1>2. /\ Types /\ row \in [Ids -> Rows] /\ pump \in Pumps /\ RunningIs(row, pump.at, id)
      /\ BatchesOK /\ Asked(row) /\ \A i \in Ids : RowOK(i, row[i])
  BY TypeParts DEF Inv
<1>3. /\ id \in Ids /\ b0 \in Batches /\ b0 <= used.batches
      /\ job[id] # None /\ job[id].batch = b0
  BY <1>1, AtWork DEF Inv, PumpOK, Turning
<1>4. Rest(row) \subseteq Ids
  BY DEF Rest, OfBatch
<1>5. Types'
  <2>1. policy' \in [Batches -> Answers \union {None}]
    BY <1>1, <1>2, <1>3 DEF Types
  <2>2. told' \subseteq Ids
    BY <1>1, <1>2, <1>3, <1>4 DEF Types
  <2> QED BY <1>1, <1>2, <2>1, <2>2 DEF Types
<1>6. /\ pump' \in Pumps /\ pump'.at = "running" /\ pump'.id = id /\ pump'.batch = b0
      /\ pump'.choice = choice
  BY <1>1, <1>2, ConstantsAssumption DEF Pumps, Waits, ConstantsAssumption
<1>7. TypeOK'
  BY <1>1, <1>2, <1>5, <1>6 DEF TypeOK, Types, RunningIs, Turning
<1>8. BatchesOK'
  <2> SUFFICES ASSUME NEW b \in Batches, b > used'.batches
               PROVE  b \notin cut' /\ policy'[b] = None /\ pending'[b] = <<>>
    BY DEF BatchesOK
  <2>1. b # b0
    <3>1. used.batches \in Nat /\ b \in Nat
      BY <1>2, ConstantsAssumption DEF Types, Batches, ConstantsAssumption
    <3> QED BY <1>1, <1>3, <3>1
  <2> QED BY <1>1, <1>2, <2>1 DEF BatchesOK, Types
<1> PICK rows : rows = row
  OBVIOUS
<1>9. ASSUME NEW i \in Ids PROVE RowOK(i, rows[i])'
  <2>1. RowOK(i, rows[i])
    BY <1>2
  <2>2. i \in told => i \in told'
    BY <1>1
  <2>3. ASSUME job[i] # None, rows[i].status = "queued", ~rows[i].resume,
               policy'[job[i].batch] = "overwrite"
        PROVE  i \in told'
    <3>1. job[i].batch \in Batches
      BY <1>2, <2>3 DEF Types, Jobs
    <3>2. CASE all /\ job[i].batch = b0
      <4>1. policy'[b0] = choice
        BY <1>1, <1>2, <1>3, <3>2 DEF Types
      <4>2. i \in Rest(row)
        BY <2>3, <3>2 DEF Rest, OfBatch
      <4> QED BY <1>1, <2>3, <3>2, <4>1, <4>2
    <3>3. CASE ~(all /\ job[i].batch = b0)
      <4>1. policy'[job[i].batch] = policy[job[i].batch]
        BY <1>1, <1>2, <3>1, <3>3 DEF Types
      <4> QED BY <2>1, <2>2, <2>3, <4>1 DEF RowOK, Active
    <3> QED BY <3>2, <3>3
  <2> QED BY <1>1, <2>1, <2>3 DEF RowOK
<1>10. (\A i \in Ids : RowOK(i, row[i]))'
  BY <1>1, <1>9 DEF RowOK
<1>11. Asked(row)'
  BY <1>1, <1>2 DEF Asked, Busy, OfBatch
<1>12. PumpOK'
  <2>1. choice = "overwrite" => id \in told'
    BY <1>1
  <2> QED BY <1>1, <1>3, <1>6, <2>1 DEF PumpOK, Turning, OverwriteIsTold
<1> QED BY <1>7, <1>8, <1>10, <1>11, <1>12 DEF Inv

LEMMA CancelKeeps == ASSUME Inv, CancelBatch PROVE Inv'
<1> DEFINE b0 == pump.batch
           id == pump.id
           rest == Rest(row)
           over == finished("cancelled", FALSE)
           kept == IF Wanted(id, over, pending) THEN {} ELSE {id}
<1>1. /\ pump.at = "asking"
      /\ row' = [i \in Ids |-> IF i \in rest THEN NoRow ELSE over[i]]
      /\ job' = [i \in Ids |-> IF i \in rest \union kept THEN None ELSE job[i]]
      /\ part' = part \ rest /\ told' = told \ rest
      /\ pump' = [pump EXCEPT !.at = "leaving"]
      /\ cut' = cut \union {b0}
      /\ UNCHANGED <<policy, pending, dialog, used, trimmed>>
  BY DEF CancelBatch
<1>2. /\ Types /\ row \in [Ids -> Rows] /\ pump \in Pumps /\ RunningIs(row, pump.at, id)
      /\ BatchesOK /\ Asked(row) /\ \A i \in Ids : RowOK(i, row[i])
  BY TypeParts DEF Inv
<1>3. /\ id \in Ids /\ b0 \in Batches /\ b0 <= used.batches /\ row[id].status = "running"
      /\ \A i \in Ids \ {id} : row[i].status # "running"
      /\ job[id] # None /\ job[id].batch = b0 /\ ~row[id].resume
  BY <1>1, AtWork DEF Inv, PumpOK, Turning
<1>4. /\ used.batches \in Nat /\ \A b \in Batches : b \in Nat /\ b >= 1
  BY <1>2, ConstantsAssumption DEF Types, Batches, ConstantsAssumption
<1>5. /\ over \in [Ids -> Rows] /\ \A i \in Ids \ {id} : over[i] = row[i]
      /\ over[id].status = "cancelled" /\ ~over[id].left /\ ~over[id].resume
  <2>1. row[id] \in Rows
    BY <1>2, <1>3
  <2> QED BY <1>2, <1>3, <2>1 DEF finished, Rows, Statuses
<1>6. kept = IF \E b \in Batches : id \in Range(pending[b]) THEN {} ELSE {id}
  BY <1>5 DEF Wanted, resumable
<1>7. \A i \in Ids : i \in rest <=> job[i] # None /\ job[i].batch = b0 /\ row[i].status = "queued"
  BY DEF Rest, OfBatch
<1>8. id \notin rest
  BY <1>3, <1>7
<1> HIDE DEF rest, over, kept
<1> PICK now : now = [i \in Ids |-> IF i \in rest THEN NoRow ELSE over[i]]
  OBVIOUS
<1>9. \A i \in Ids : /\ now[i] = IF i \in rest THEN NoRow ELSE over[i]
                     /\ job'[i] = IF i \in rest \union kept THEN None ELSE job[i]
  BY <1>1
<1>10. now \in [Ids -> Rows] /\ row' = now
  BY <1>1, <1>5 DEF Rows, NoRow
<1>11. Types' /\ BatchesOK'
  <2>1. cut' \subseteq Batches /\ part' \subseteq Ids /\ told' \subseteq Ids
    BY <1>1, <1>2, <1>3 DEF Types
  <2>2. job' \in [Ids -> Jobs \union {None}]
    BY <1>1, <1>2 DEF Types
  <2>3. Types'
    BY <1>1, <1>2, <2>1, <2>2 DEF Types
  <2>4. \A b \in Batches : b > used.batches => b # b0
    BY <1>3, <1>4
  <2> QED BY <1>1, <1>2, <2>3, <2>4 DEF BatchesOK
<1>12. ASSUME NEW i \in Ids PROVE RowOK(i, now[i])'
  <2>1. RowOK(i, row[i])
    BY <1>2
  <2>2. CASE i \in rest
    <3>1. now[i] = NoRow /\ job'[i] = None /\ i \notin part' /\ NoRow \in Rows
      BY <1>1, <1>9, <2>2 DEF NoRow, Rows
    <3>2. i \notin Range(dialog)
      BY <1>7, <2>1, <2>2 DEF RowOK, Active
    <3> QED BY <1>1, <2>1, <3>1, <3>2 DEF RowOK, NoRow, Active
  <2>3. CASE i = id
    <3>1. now[i] \in Rows /\ now[i].status = "cancelled" /\ now[i] # NoRow
      BY <1>5, <1>8, <1>9, <1>10, <2>3 DEF NoRow
    <3>2. i \notin part /\ i \notin Range(dialog) /\ ~(i > used.rows)
      <4>1. row[i] # NoRow /\ ~resumable(row[i]) /\ row[i].status \in Active
        BY <1>3, <2>3 DEF NoRow, resumable, Settled, Active
      <4> QED BY <1>3, <2>1, <2>3, <4>1 DEF RowOK
    <3>3. job'[i] = None \/ job'[i] = job[i]
      BY <1>9
    <3>4. (\E b \in Batches : i \in Range(pending[b])) => job'[i] = job[i]
      BY <1>6, <1>8, <1>9, <2>3
    <3> QED BY <1>1, <1>3, <2>1, <2>3, <3>1, <3>2, <3>3, <3>4 DEF RowOK, Active
  <2>4. CASE i \notin rest /\ i # id
    <3>1. now[i] = row[i] /\ job'[i] = job[i]
      BY <1>5, <1>6, <1>9, <2>4
    <3>2. job[i] # None /\ row[i].status \in Active => job[i].batch # b0
      BY <1>3, <1>7, <2>4 DEF Active
    <3>3. (i \in part' <=> i \in part) /\ (i \in told' <=> i \in told)
      BY <1>1, <2>4
    <3> QED BY <1>1, <2>1, <3>1, <3>2, <3>3 DEF RowOK
  <2> QED BY <2>2, <2>3, <2>4
<1>13. (\A i \in Ids : RowOK(i, row[i]))'
  BY <1>10, <1>12 DEF RowOK
<1>14. /\ pump' \in Pumps /\ pump'.at = "leaving" /\ pump'.id = id /\ pump'.batch = b0
  BY <1>1, <1>2 DEF Pumps, Waits
<1>15. \A i \in Ids : now[i].status # "running"
  BY <1>3, <1>5, <1>9 DEF NoRow
<1>16. TypeOK'
  <2>1. RunningIs(now, "leaving", id)
    BY <1>15 DEF RunningIs, Turning
  <2> QED BY <1>10, <1>11, <1>14, <2>1 DEF TypeOK, Types, RunningIs, Turning
<1>17. Asked(row)'
  <2> SUFFICES ASSUME NEW b \in Batches, b \notin cut', b \notin trimmed', pending'[b] # <<>>
               PROVE  Busy(b, row)'
    BY DEF Asked
  <2>1. b # b0 /\ Busy(b, row)
    BY <1>1, <1>2 DEF Asked
  <2>2. PICK i \in Ids : job[i] # None /\ job[i].batch = b /\ row[i].status \in Active
    BY <2>1 DEF Busy, OfBatch
  <2>3. i \notin rest /\ i # id
    BY <1>3, <1>7, <2>1, <2>2
  <2>4. now[i] = row[i] /\ job'[i] = job[i]
    BY <1>5, <1>6, <1>9, <2>3
  <2> QED BY <1>10, <2>2, <2>4 DEF Busy, OfBatch
<1>18. PumpOK'
  <2>1. b0 \in 1 .. used'.batches
    BY <1>1, <1>3, <1>4
  <2> QED BY <1>3, <1>14, <2>1 DEF PumpOK, Turning, OverwriteIsTold
<1> QED BY <1>11, <1>13, <1>16, <1>17, <1>18 DEF Inv

LEMMA ResumeKeeps == ASSUME Inv, NEW i \in Ids, resumeRow(i) PROVE Inv'
<1> PICK rows : rows = [row EXCEPT ![i] = [NoRow EXCEPT !.status = "queued", !.resume = TRUE]]
  OBVIOUS
<1>1. /\ ~Modal /\ resumable(row[i]) /\ Wake(rows, job)
      /\ UNCHANGED <<job, policy, pending, dialog, used, part, cut, trimmed, told>>
  BY DEF resumeRow, history
<1>2. /\ Types /\ row \in [Ids -> Rows] /\ BatchesOK /\ Asked(row)
      /\ \A j \in Ids : RowOK(j, row[j])
      /\ used.batches \in Nat
  BY TypeParts, ConstantsAssumption DEF Inv, Types, ConstantsAssumption
<1>3. /\ rows \in [Ids -> Rows] /\ rows[i] \in Rows
      /\ rows[i].status = "queued" /\ rows[i].resume
      /\ \A j \in Ids \ {i} : rows[j] = row[j]
  <2>1. [NoRow EXCEPT !.status = "queued", !.resume = TRUE] \in Rows
    BY DEF NoRow, Rows, Statuses
  <2> QED BY <1>2, <2>1 DEF NoRow
<1>4. row[i].status \notin Active \union {"none"}
  BY <1>1 DEF resumable, Settled, Active
<1>5. Range(dialog) = {}
  BY <1>1 DEF Modal, Range
<1>6. Types' /\ BatchesOK'
  BY <1>1, <1>2 DEF Types, BatchesOK
<1>7. ASSUME NEW j \in Ids PROVE RowOK(j, rows[j])'
  <2>1. RowOK(j, row[j])
    BY <1>2
  <2>2. CASE j # i
    BY <1>1, <1>3, <2>1, <2>2 DEF RowOK
  <2>3. CASE j = i
    <3>1. row[j] # NoRow
      BY <1>4, <2>3 DEF NoRow
    <3> QED BY <1>1, <1>3, <1>4, <1>5, <2>1, <2>3, <3>1 DEF RowOK, Active
  <2> QED BY <2>2, <2>3
<1>8. ASSUME NEW b \in Batches, Busy(b, row) PROVE Busy(b, rows)'
  BY <1>1, <1>3, <1>4, <1>8 DEF Busy, OfBatch
<1>9. \A b \in Batches : b \notin cut' /\ b \notin trimmed' /\ pending'[b] # <<>>
                            => Busy(b, rows)' \/ (pump.at = "refreshing" /\ pump.batch = b)
  BY <1>1, <1>2, <1>8 DEF Asked
<1>10. \A j \in Ids : /\ rows[j].status = "running" <=> row[j].status = "running"
                      /\ rows[j].status = "running" => rows[j] = row[j] /\ job'[j] = job[j]
                      /\ rows[j].status = "queued" => job[j] = job'[j]
  BY <1>1, <1>3, <1>4 DEF Active
<1>11. used.batches <= used'.batches
  BY <1>1, <1>2
<1> QED BY <1>1, <1>3, <1>6, <1>7, <1>9, <1>10, <1>11, WakeKeeps


LEMMA CancelRunningKeeps == ASSUME Inv, NEW i \in Ids, cancelRunning(i) PROVE Inv'
<1> PICK now : now = [row EXCEPT ![i].cancelling = TRUE]
  OBVIOUS
<1>1. PICK heard \in BOOLEAN : pump' = [pump EXCEPT !.stop = heard]
  BY DEF cancelRunning
<1>2. /\ row[i].status = "running" /\ row' = now
      /\ UNCHANGED <<job, policy, pending, dialog, used, part, cut, trimmed, told>>
  BY DEF cancelRunning, history
<1>3. /\ Types /\ row \in [Ids -> Rows] /\ BatchesOK /\ Asked(row)
      /\ \A j \in Ids : RowOK(j, row[j])
      /\ pump \in Pumps
  BY TypeParts DEF Inv
<1>4. /\ now \in [Ids -> Rows] /\ \A j \in Ids \ {i} : now[j] = row[j]
      /\ now[i].status = row[i].status /\ now[i].resume = row[i].resume
      /\ now[i].left = row[i].left /\ now[i] \in Rows
  BY <1>3 DEF Rows
<1>5. Types' /\ BatchesOK'
  BY <1>2, <1>3 DEF Types, BatchesOK
<1>6. ASSUME NEW j \in Ids PROVE RowOK(j, now[j])'
  <2>1. RowOK(j, row[j])
    BY <1>3
  <2>2. CASE j # i
    BY <1>2, <1>4, <2>1, <2>2 DEF RowOK
  <2>3. CASE j = i
    <3>1. row[j] # NoRow /\ now[j].status = "running"
      BY <1>2, <1>4, <2>3 DEF NoRow
    <3> QED BY <1>2, <1>4, <2>1, <2>3, <3>1 DEF RowOK, resumable, Settled
  <2> QED BY <2>2, <2>3
<1>7. Asked(now)'
  <2>1. pump'.at = pump.at /\ pump'.batch = pump.batch
    BY <1>1, <1>3 DEF Pumps
  <2>2. \A b \in Batches : Busy(b, row) => Busy(b, now)'
    BY <1>2, <1>4 DEF Busy, OfBatch
  <2> QED BY <1>2, <1>3, <2>1, <2>2 DEF Asked
<1>8. \A j \in Ids : /\ row[j].status = "running" =>
                           /\ now[j].status = "running" /\ now[j].resume = row[j].resume
                           /\ job'[j] = job[j] /\ (j \in told => j \in told')
                     /\ now[j].status \in Active => now[j].status = row[j].status
  BY <1>2, <1>4
<1> QED BY <1>1, <1>2, <1>4, <1>5, <1>6, <1>7, <1>8, QuietKeeps

\* Rows that do not run leave the list, some of them with their jobs and with
\* what was remembered about them.
LEMMA LeaveKeeps ==
  ASSUME Inv, NEW T \in SUBSET Ids, NEW G \in SUBSET Ids,
         row' = [i \in Ids |-> IF i \in T THEN NoRow ELSE row[i]],
         job' = [i \in Ids |-> IF i \in G THEN None ELSE job[i]],
         \A i \in T : row[i].status # "running",
         \A i \in T : row[i].status = "queued" =>
            \A b \in Batches : i \in OfBatch(job, b) /\ pending[b] # <<>> => b \in trimmed',
         \A i \in T : i \notin part',
         G \subseteq T, told \subseteq told' \union T, told' \subseteq told,
         part \subseteq part' \union T, part' \subseteq part,
         trimmed \subseteq trimmed', trimmed' \subseteq Batches,
         UNCHANGED <<policy, pending, dialog, pump, used, cut>>
  PROVE  Inv'
<1> PICK now : now = [i \in Ids |-> IF i \in T THEN NoRow ELSE row[i]]
  OBVIOUS
<1>1. /\ Types /\ row \in [Ids -> Rows] /\ BatchesOK /\ Asked(row)
      /\ \A i \in Ids : RowOK(i, row[i])
      /\ pump \in Pumps
  BY TypeParts DEF Inv
<1>2. /\ now \in [Ids -> Rows] /\ NoRow \in Rows
      /\ \A i \in Ids : now[i] = IF i \in T THEN NoRow ELSE row[i]
      /\ \A i \in Ids : job'[i] = IF i \in G THEN None ELSE job[i]
  BY <1>1 DEF Rows, NoRow
<1>3. Types' /\ BatchesOK'
  <2>1. job' \in [Ids -> Jobs \union {None}]
    BY <1>1 DEF Types
  <2> QED BY <1>1, <2>1 DEF Types, BatchesOK
<1>4. ASSUME NEW i \in Ids PROVE RowOK(i, now[i])'
  <2>1. RowOK(i, row[i])
    BY <1>1
  <2>2. CASE i \notin T
    <3>1. /\ now[i] = row[i] /\ job'[i] = job[i]
          /\ i \in part' <=> i \in part
          /\ i \in told' <=> i \in told
      BY <1>2, <2>2
    <3> QED BY <1>2, <2>1, <3>1 DEF RowOK
  <2>3. CASE i \in T
    <3>1. now[i] = NoRow /\ i \notin part' /\ (job'[i] = None \/ job'[i] = job[i])
      BY <1>2, <2>3
    <3> QED BY <1>2, <2>1, <3>1 DEF RowOK, NoRow, Active
  <2> QED BY <2>2, <2>3
<1>5. Asked(now)'
  <2> SUFFICES ASSUME NEW b \in Batches, b \notin cut, b \notin trimmed', pending[b] # <<>>
               PROVE  Busy(b, now)' \/ (pump.at = "refreshing" /\ pump.batch = b)
    BY DEF Asked
  <2> SUFFICES ASSUME Busy(b, row) PROVE Busy(b, now)'
    BY <1>1 DEF Asked
  <2>1. PICK i \in Ids : job[i] # None /\ job[i].batch = b /\ row[i].status \in Active
    BY DEF Busy, OfBatch
  <2>2. i \notin T
    BY <2>1 DEF OfBatch, Active
  <2>3. now[i] = row[i] /\ job'[i] = job[i]
    BY <1>2, <2>2
  <2> QED BY <2>1, <2>3 DEF Busy, OfBatch
<1>6. \A i \in Ids : /\ row[i].status = "running" =>
                           /\ now[i].status = "running" /\ now[i].resume = row[i].resume
                           /\ job'[i] = job[i] /\ (i \in told => i \in told')
                     /\ now[i].status \in Active => now[i].status = row[i].status
  BY <1>2 DEF NoRow, Active
<1>7. pump.stop \in BOOLEAN /\ pump' = [pump EXCEPT !.stop = pump.stop]
  BY <1>1 DEF Pumps
<1> QED BY <1>2, <1>3, <1>4, <1>5, <1>6, <1>7, QuietKeeps

LEMMA DismissKeeps == ASSUME Inv, NEW i \in Ids, dismissRow(i) PROVE Inv'
<1>1. /\ row[i].status \in Statuses \ {"running"}
      /\ row' = [row EXCEPT ![i] = NoRow] /\ job' = [job EXCEPT ![i] = None]
      /\ part' = part \ {i} /\ told' = told \ {i}
      /\ trimmed' = IF row[i].status = "queued"
                    THEN trimmed \union
                            {b \in Batches : i \in OfBatch(job, b) /\ pending[b] # <<>>}
                    ELSE trimmed
      /\ UNCHANGED <<policy, pending, dialog, pump, used, cut>>
  BY DEF dismissRow
<1>2. Types /\ row \in [Ids -> Rows] /\ job \in [Ids -> Jobs \union {None}]
  BY TypeParts DEF Inv, Types
<1>3. /\ row' = [j \in Ids |-> IF j \in {i} THEN NoRow ELSE row[j]]
      /\ job' = [j \in Ids |-> IF j \in {i} THEN None ELSE job[j]]
  BY <1>1, <1>2
<1>4. trimmed' \subseteq Batches
  BY <1>1, <1>2 DEF Types
<1> QED BY <1>1, <1>3, <1>4, LeaveKeeps

LEMMA PruneKeeps == ASSUME Inv, NEW i \in Ids, prune(i) PROVE Inv'
<1>1. /\ row[i].status \in {"done", "cancelled"} /\ ~resumable(row[i])
      /\ row' = [row EXCEPT ![i] = NoRow]
      /\ UNCHANGED <<job, policy, pending, dialog, pump, used, part, cut, trimmed, told>>
  BY DEF prune, Lingered, history
<1>2. /\ Types /\ row \in [Ids -> Rows] /\ job \in [Ids -> Jobs \union {None}]
      /\ RowOK(i, row[i])
  BY TypeParts DEF Inv, Types
<1> PICK T \in SUBSET Ids, G \in SUBSET Ids : T = {i} /\ G = {}
  OBVIOUS
<1>3. /\ row' = [j \in Ids |-> IF j \in T THEN NoRow ELSE row[j]]
      /\ job' = [j \in Ids |-> IF j \in G THEN None ELSE job[j]]
  BY <1>1, <1>2
<1>4. i \notin part
  BY <1>1, <1>2 DEF RowOK, Active
<1>5. trimmed' \subseteq Batches
  BY <1>1, <1>2 DEF Types
<1>6. /\ \A k \in T : row[k].status # "running" /\ row[k].status # "queued" /\ k \notin part'
      /\ G \subseteq T /\ told' \subseteq told /\ told \subseteq told' \union T
      /\ part \subseteq part' \union T /\ part' \subseteq part
      /\ trimmed \subseteq trimmed'
  BY <1>1, <1>4
<1>7. \A k \in T : row[k].status = "queued" =>
         \A b \in Batches : k \in OfBatch(job, b) /\ pending[b] # <<>> => b \in trimmed'
  BY <1>6
<1>8. UNCHANGED <<policy, pending, dialog, pump, used, cut>>
  BY <1>1
<1> QED BY <1>3, <1>5, <1>6, <1>7, <1>8, LeaveKeeps

LEMMA ClearKeeps == ASSUME Inv, clearFinished PROVE Inv'
<1>0. PICK T \in SUBSET Ids, G \in SUBSET Ids : T = {i \in Ids : Settled(row[i])} /\ G = {}
  OBVIOUS
<1>1. /\ row' = [i \in Ids |-> IF i \in T THEN NoRow ELSE row[i]]
      /\ part' = part \ T
      /\ UNCHANGED <<job, policy, pending, dialog, pump, used, cut, trimmed, told>>
  BY <1>0 DEF clearFinished
<1>2. Types /\ job \in [Ids -> Jobs \union {None}]
  BY TypeParts DEF Inv, Types
<1>3. job' = [j \in Ids |-> IF j \in G THEN None ELSE job[j]]
  BY <1>0, <1>1, <1>2
<1>4. \A i \in T : row[i].status \notin {"queued", "running"}
  BY <1>0 DEF Settled
<1>5. trimmed' \subseteq Batches
  BY <1>1, <1>2 DEF Types
<1>6. /\ \A i \in T : row[i].status # "running" /\ row[i].status # "queued" /\ i \notin part'
      /\ G \subseteq T /\ told' \subseteq told /\ told \subseteq told' \union T
      /\ part \subseteq part' \union T /\ part' \subseteq part
      /\ trimmed \subseteq trimmed'
  BY <1>0, <1>1, <1>4
<1>7. \A k \in T : row[k].status = "queued" =>
         \A b \in Batches : k \in OfBatch(job, b) /\ pending[b] # <<>> => b \in trimmed'
  BY <1>6
<1>8. UNCHANGED <<policy, pending, dialog, pump, used, cut>>
  BY <1>1
<1> QED BY <1>1, <1>3, <1>5, <1>6, <1>7, <1>8, LeaveKeeps

\* The mismatch dialog goes, with or without the jobs of its rows.
LEMMA AnsweredKeeps ==
  ASSUME Inv, dialog' = <<>>, part' = part \ Range(dialog),
         job' = job \/ job' = WithoutJobs(job, dialog),
         UNCHANGED <<row, policy, pending, pump, used, cut, trimmed, told>>
  PROVE  Inv'
<1> PICK now : now = row
  OBVIOUS
<1>1. /\ Types /\ row \in [Ids -> Rows] /\ BatchesOK /\ Asked(row)
      /\ \A i \in Ids : RowOK(i, row[i])
      /\ pump \in Pumps /\ job \in [Ids -> Jobs \union {None}]
  BY TypeParts DEF Inv, Types
<1>2. Range(<<>>) = {} /\ <<>> \in Seq(Ids)
  BY DEF Range
<1>3. \A i \in Ids : job'[i] = job[i] \/ (job'[i] = None /\ i \in Range(dialog))
  BY DEF WithoutJobs
<1>4. Types' /\ BatchesOK'
  <2>1. job' \in [Ids -> Jobs \union {None}]
    BY <1>1 DEF WithoutJobs
  <2> QED BY <1>1, <1>2, <2>1 DEF Types, BatchesOK
<1>5. ASSUME NEW i \in Ids PROVE RowOK(i, now[i])'
  <2>1. RowOK(i, now[i])
    BY <1>1
  <2>2. i \notin Range(dialog') /\ (i \in part' <=> i \in part /\ i \notin Range(dialog))
    BY <1>2
  <2>3. CASE i \in Range(dialog)
    BY <1>3, <2>1, <2>2, <2>3 DEF RowOK
  <2>4. CASE i \notin Range(dialog)
    <3>1. job'[i] = job[i]
      BY <1>3, <2>4
    <3> QED BY <2>1, <2>2, <2>4, <3>1 DEF RowOK
  <2> QED BY <2>3, <2>4
<1>6. \A i \in Ids : row[i].status \in Active => job'[i] = job[i]
  BY <1>1, <1>3 DEF RowOK
<1>7. Asked(now)'
  <2>1. \A b \in Batches : Busy(b, row) => Busy(b, now)'
    BY <1>6 DEF Busy, OfBatch
  <2> QED BY <1>1, <2>1 DEF Asked
<1>8. pump.stop \in BOOLEAN /\ pump' = [pump EXCEPT !.stop = pump.stop]
  BY <1>1 DEF Pumps
<1>9. \A i \in Ids : /\ row[i].status = "running" =>
                           /\ now[i].status = "running" /\ now[i].resume = row[i].resume
                           /\ job'[i] = job[i] /\ (i \in told => i \in told')
                     /\ now[i].status \in Active => now[i].status = row[i].status
  BY <1>6 DEF Active
<1> QED BY <1>1, <1>4, <1>5, <1>7, <1>8, <1>9, QuietKeeps

LEMMA CopyAgainKeeps == ASSUME Inv, copyAgain PROVE Inv'
<1> DEFINE again == {k \in DOMAIN dialog : job[dialog[k]] # None /\ job[dialog[k]].recopy}
           n == Cardinality(again)
           now == Enqueued([k \in 1 .. n |->
                     [batch |-> used.batches + 1, recopy |-> TRUE, again |-> TRUE]])
<1>1. /\ dialog' = <<>> /\ part' = part \ Range(dialog)
      /\ UNCHANGED <<policy, pending, cut, trimmed, told>>
      /\ \/ UNCHANGED <<row, job, pump, used>>
         \/ /\ Room(n) /\ Wake(now.rows, now.jobs) /\ job' = WithoutJobs(now.jobs, dialog)
            /\ used' = [rows |-> used.rows + n, batches |-> used.batches + 1]
  BY DEF copyAgain
<1> HIDE DEF n, now
<1>2. CASE UNCHANGED <<row, job, pump, used>>
  <2>1. job' = job /\ UNCHANGED <<row, policy, pending, pump, used, cut, trimmed, told>>
    BY <1>1, <1>2
  <2> QED BY <1>1, <2>1, AnsweredKeeps
<1>3. CASE /\ Room(n) /\ Wake(now.rows, now.jobs) /\ job' = WithoutJobs(now.jobs, dialog)
           /\ used' = [rows |-> used.rows + n, batches |-> used.batches + 1]
  <2>1. n \in Nat
    <3>1. dialog \in Seq(Ids)
      BY TypeParts DEF Inv, Types
    <3>2. DOMAIN dialog = 1 .. Len(dialog) /\ Len(dialog) \in Nat
      BY <3>1
    <3>3. IsFiniteSet(DOMAIN dialog)
      BY <3>2, FS_Interval
    <3>4. IsFiniteSet(again)
      BY <3>3, FS_Subset
    <3> QED BY <3>4, FS_CardinalityType DEF n
  <2>2. /\ now.rows \in [Ids -> Rows] /\ now.jobs \in [Ids -> Jobs \union {None}]
        /\ \A i \in Ids : IF Fresh(i, n)
                          THEN /\ now.rows[i] = [NoRow EXCEPT !.status = "queued"]
                               /\ now.jobs[i] # None /\ now.jobs[i].batch = used.batches + 1
                          ELSE now.rows[i] = row[i] /\ now.jobs[i] = job[i]
    BY <1>3, <2>1, EnqueuedDoes DEF now
  <2> PICK rows : rows = now.rows
    OBVIOUS
  <2> QED BY <1>1, <1>3, <2>1, <2>2, EnqueueKeeps
<1> QED BY <1>1, <1>2, <1>3

LEMMA LeaveMismatchesKeeps == ASSUME Inv, leaveMismatches PROVE Inv'
BY AnsweredKeeps DEF leaveMismatches

----------------------------------------------------------------------------
(* The specification *)

LEMMA InitInv == Init => Inv
<1> SUFFICES ASSUME Init PROVE Inv
  OBVIOUS
<1>1. /\ row = [i \in Ids |-> NoRow] /\ job = [i \in Ids |-> None]
      /\ policy = [b \in Batches |-> None] /\ pending = [b \in Batches |-> <<>>]
      /\ dialog = <<>> /\ pump = Idle /\ used = [rows |-> 0, batches |-> 0]
      /\ part = {} /\ cut = {} /\ trimmed = {} /\ told = {}
  BY DEF Init
<1>2. NumRows \in Nat /\ NumBatches \in Nat
  BY ConstantsAssumption DEF ConstantsAssumption
<1>3. NoRow \in Rows /\ pump \in Pumps /\ pump.at = "idle" /\ <<>> \in Seq(Ids)
      /\ Range(<<>>) = {}
  BY <1>1 DEF NoRow, Rows, Idle, Pumps, Waits, Range
<1>4. TypeOK
  <2>1. Types
    BY <1>1, <1>2, <1>3 DEF Types
  <2>2. RunningIs(row, pump.at, pump.id)
    BY <1>1, <1>3 DEF RunningIs, Turning, NoRow
  <2>3. row \in [Ids -> Rows]
    BY <1>1, <1>3
  <2> QED BY <1>3, <2>1, <2>2, <2>3, TypeParts
<1>5. \A i \in Ids : RowOK(i, row[i])
  <2> SUFFICES ASSUME NEW i \in Ids PROVE RowOK(i, NoRow)
    BY <1>1
  <2>1. job[i] = None /\ \A b \in Batches : pending[b] = <<>>
    BY <1>1
  <2> QED BY <1>1, <1>3, <2>1 DEF RowOK, NoRow, Active
<1>6. BatchesOK /\ Asked(row)
  BY <1>1 DEF BatchesOK, Asked
<1>7. PumpOK
  BY <1>1, <1>3 DEF PumpOK, Turning, Queued, NoRow, OverwriteIsTold
<1> QED BY <1>4, <1>5, <1>6, <1>7 DEF Inv

LEMMA StutterKeeps == ASSUME Inv, UNCHANGED vars PROVE Inv'
<1> PICK now : now = row
  OBVIOUS
<1>1. /\ Types /\ row \in [Ids -> Rows] /\ BatchesOK /\ Asked(row)
      /\ \A i \in Ids : RowOK(i, now[i])
      /\ pump \in Pumps
  BY TypeParts DEF Inv
<1>2. UNCHANGED <<row, job, policy, pending, dialog, pump, used, part, cut, trimmed, told>>
  BY DEF vars
<1>3. Types' /\ BatchesOK' /\ Asked(now)'
  BY <1>1, <1>2 DEF Types, BatchesOK, Asked, Busy, OfBatch
<1>4. \A i \in Ids : RowOK(i, now[i])'
  BY <1>1, <1>2 DEF RowOK
<1>5. pump.stop \in BOOLEAN /\ pump' = [pump EXCEPT !.stop = pump.stop]
  BY <1>1, <1>2 DEF Pumps
<1> QED BY <1>1, <1>2, <1>3, <1>4, <1>5, QuietKeeps

LEMMA StepKeeps == ASSUME Inv, [Next]_vars PROVE Inv'
<1>1. CASE PumpStep
  <2>1. CASE CheckFoundNone \/ CheckFoundSome
    BY <2>1, CheckKeeps
  <2>2. CASE CheckFailed
    BY <2>2, CheckFailedKeeps
  <2>3. CASE Refused
    BY <2>3, RefusedKeeps
  <2>4. CASE \E status \in {"done", "failed", "cancelled"}, left, differs \in BOOLEAN :
                Ends(status, left, differs)
    BY <2>4, EndsKeeps
  <2>5. CASE Refreshed
    BY <2>5, RefreshedKeeps
  <2>6. CASE RefreshedAfterCancel
    BY <2>6, LeavingKeeps
  <2> QED BY <1>1, <2>1, <2>2, <2>3, <2>4, <2>5, <2>6 DEF PumpStep
<1>2. CASE UserStep
  <2>1. CASE \E n \in Ids, recopy \in BOOLEAN : Drop(n, recopy)
    BY <2>1, DropKeeps
  <2>2. CASE \E choice \in Answers, applyToAll \in BOOLEAN : AnswerConflict(choice, applyToAll)
    BY <2>2, AnswerKeeps
  <2>3. CASE CancelBatch
    BY <2>3, CancelKeeps
  <2>4. CASE \E i \in Ids : resumeRow(i) \/ cancelRunning(i) \/ dismissRow(i) \/ prune(i)
    BY <2>4, ResumeKeeps, CancelRunningKeeps, DismissKeeps, PruneKeeps
  <2>5. CASE clearFinished
    BY <2>5, ClearKeeps
  <2>6. CASE copyAgain
    BY <2>6, CopyAgainKeeps
  <2>7. CASE leaveMismatches
    BY <2>7, LeaveMismatchesKeeps
  <2> QED BY <1>2, <2>1, <2>2, <2>3, <2>4, <2>5, <2>6, <2>7 DEF UserStep
<1>3. CASE UNCHANGED vars
  BY <1>3, StutterKeeps
<1> QED BY <1>1, <1>2, <1>3 DEF Next

LEMMA QueueSound == Spec => []Inv
<1>1. Init => Inv
  BY InitInv
<1>2. Inv /\ [Next]_vars => Inv'
  BY StepKeeps
<1> QED BY <1>1, <1>2, PTL DEF Spec

(* The list, the jobs behind it and the pump of useTransferQueue.ts keep    *)
(* their shapes, and the row that runs is the one the pump waits for: there *)
(* is never a second, however many drops were queued and whenever pump() is *)
(* called.                                                                  *)
THEOREM TypeCorrect == Spec => []TypeOK
<1>1. Inv => TypeOK
  BY DEF Inv
<1> QED BY <1>1, QueueSound, PTL

(* The Resume of a row whose unfinished file nobody has given up keeps a    *)
(* job behind it through every turn of the pump and every X, Clear, Cancel  *)
(* and answer of the user, in any order.                                    *)
THEOREM OfferStays == Spec => []OfferNeverLost
<1>1. Inv => OfferNeverLost
  <2> SUFFICES ASSUME Inv, NEW i \in part
               PROVE  /\ job[i] # None
                      /\ resumable(row[i]) \/ row[i].status \in {"queued", "running"}
    BY DEF OfferNeverLost
  <2>1. i \in Ids /\ RowOK(i, row[i])
    BY DEF Inv, TypeOK
  <2> QED BY <2>1 DEF RowOK, Active
<1> QED BY <1>1, QueueSound, PTL

(* A Cancel at the prompt ends its batch, a file is written over only where *)
(* nothing was found or the user said so, and no question about mismatches  *)
(* is left when the pump stops, whatever else was dropped, resumed or       *)
(* dismissed meanwhile.                                                     *)
THEOREM AnswersStay == Spec => []AnswersHold
<1>1. ASSUME Inv PROVE AnswersHold
  <2>1. StopEndsBatch
    <3> SUFFICES ASSUME NEW b \in cut, NEW i \in OfBatch(job, b), row[i].status \in Active
                 PROVE  row[i].resume
      BY DEF StopEndsBatch, Active
    <3>1. i \in Ids /\ job[i] # None /\ job[i].batch = b
      BY DEF OfBatch
    <3>2. RowOK(i, row[i])
      BY <1>1, <3>1 DEF Inv
    <3> QED BY <3>1, <3>2 DEF RowOK
  <2>2. OverwriteIsTold
    BY <1>1 DEF Inv, PumpOK
  <2>3. NoQuestionLeft
    <3> SUFFICES ASSUME pump.at = "idle", NEW b \in Batches \ (cut \union trimmed)
                 PROVE  pending[b] = <<>>
      BY DEF NoQuestionLeft
    <3>1. \A i \in Ids : row[i].status \notin Active
      BY <1>1 DEF Inv, TypeOK, PumpOK, Queued, Active
    <3>2. ~Busy(b, row)
      BY <3>1 DEF Busy, OfBatch
    <3> QED BY <1>1, <3>2 DEF Inv, Asked
  <2> QED BY <2>1, <2>2, <2>3 DEF AnswersHold
<1> QED BY <1>1, QueueSound, PTL

=============================================================================
