---------------------------- MODULE TransferQueue ----------------------------
(***************************************************************************)
(* The queue of the SFTP panel (useTransferQueue.ts over transferQueue.ts  *)
(* and mismatches.ts): the rows of a drop run one at a time, and the pump  *)
(* that runs them stops to ask about files that are already there and,     *)
(* once a drop has settled, about resumed files that do not match.         *)
(*                                                                         *)
(* A step is what the window does between two awaits.  Rows are named by   *)
(* numbers in the order in which they are put into the list, which is the  *)
(* order they stand in: a row that is resumed keeps its place.  The list   *)
(* of rows is row, where a name that stands for no row has NoRow.  What a  *)
(* transfer does and what its summary may say is the module Transfer; here *)
(* it ends in one of the ways Ends lists.                                  *)
(***************************************************************************)
EXTENDS Integers, Sequences, FiniteSetsExt, SequencesExt

CONSTANTS
    NumRows,      \* rows that are ever put into the list
    NumBatches,   \* drops, copies again included
    MaxPending,   \* mismatches a batch may have waiting: a bound of the model
    Answers,      \* the answers to "already exists" other than Cancel
    None

ASSUME ConstantsAssumption ==
    /\ NumRows \in Nat \ {0}
    /\ NumBatches \in Nat \ {0}
    /\ MaxPending \in Nat \ {0}
    /\ "overwrite" \in Answers /\ Answers \subseteq {"overwrite", "skip", "keep_both"}
    /\ None \notin Nat \union Answers
    /\ None \notin [batch : Nat, recopy : BOOLEAN, again : BOOLEAN]

Ids == 1 .. NumRows
Batches == 1 .. NumBatches

Statuses == {"queued", "running", "done", "failed", "cancelled"}
NoRow == [status |-> "none", resume |-> FALSE, left |-> FALSE, cancelling |-> FALSE]
Idle == [at |-> "idle", id |-> None, batch |-> None, choice |-> None,
         clear |-> FALSE, stop |-> FALSE]

VARIABLES
    row,        \* the list: status, to be resumed, unfinished file left, cancel pressed
    job,        \* jobsRef: what a row does when its turn comes
    policy,     \* batchPolicyRef: the answers "for the rest"
    pending,    \* pendingRef: rows with mismatches, by batch, until they are asked about
    dialog,     \* the rows of the mismatch dialog that is up, or none
    pump,       \* where the pump waits, with the locals of its turn and the cancel flag
    used,       \* how many rows and batches there have been
    part,       \* history: rows whose unfinished file nobody has given up (see OfferNeverLost)
    cut,        \* history: batches ended at the prompt
    trimmed,    \* history: batches that lost a queued row to its X
    told        \* history: rows whose files the user said to write over

vars == <<row, job, policy, pending, dialog, pump, used, part, cut, trimmed, told>>
history == <<part, cut, trimmed, told>>

Settled(r) == r.status \in {"done", "failed", "cancelled"}
resumable(r) == Settled(r) /\ r.left
Queued(rows) == {i \in Ids : rows[i].status = "queued"}
OfBatch(jobs, b) == {i \in Ids : jobs[i] # None /\ jobs[i].batch = b}

(* A dialog is an overlay over the whole panel: nothing behind it is used. *)
Modal == dialog # <<>> \/ pump.at = "asking"

Init ==
    /\ row = [i \in Ids |-> NoRow]
    /\ job = [i \in Ids |-> None]
    /\ policy = [b \in Batches |-> None]
    /\ pending = [b \in Batches |-> <<>>]
    /\ dialog = <<>>
    /\ pump = Idle
    /\ used = [rows |-> 0, batches |-> 0]
    /\ part = {} /\ cut = {} /\ trimmed = {} /\ told = {}

-----------------------------------------------------------------------------
(* The pump. *)

nextToRun(rows) ==
    IF \E i \in Ids : rows[i].status = "running" THEN {} ELSE Queued(rows)

(* One way round the loop, as far as its next await: queued rows whose job  *)
(* is gone leave, and the first that has one starts.                        *)
NextTurn(rows, jobs) ==
    LET queue == nextToRun(rows)
        live  == {i \in queue : jobs[i] # None}
        next  == Min(live)
        gone  == {i \in queue : live = {} \/ i < next}
        rest  == [i \in Ids |-> IF i \in gone THEN NoRow ELSE rows[i]]
    IN  IF live = {}
        THEN row' = rest /\ pump' = Idle
        ELSE LET b == jobs[next].batch
                 asks == ~rows[next].resume /\ policy[b] = None
             IN  /\ row' = [rest EXCEPT ![next].status = "running"]
                 /\ pump' = [Idle EXCEPT !.at = IF asks THEN "checking" ELSE "running",
                                         !.id = next, !.batch = b,
                                         !.choice = IF rows[next].resume THEN "resume"
                                                    ELSE IF asks THEN "overwrite"
                                                    ELSE policy[b]]

(* Mutant: the flag of a pump that has run out stays up. *)
WakeOnce(rows, jobs) ==
    IF pump.at = "idle" /\ \A i \in Ids : row[i].status \in {"none", "queued"}
    THEN NextTurn(rows, jobs)
    ELSE row' = rows /\ UNCHANGED pump

(* pump() is called whenever rows are put in; a second call returns at once. *)
Wake(rows, jobs) ==
    IF pump.at = "idle"
    THEN NextTurn(rows, jobs)
    ELSE row' = rows /\ UNCHANGED pump

(* Mutant: the job is kept for a Copy again only. *)
WantedWaiting(id, rows, waiting) == \E b \in Batches : id \in Range(waiting[b])

(* What the finally block keeps the job for: a Resume or a Copy again. *)
Wanted(id, rows, waiting) ==
    resumable(rows[id]) \/ \E b \in Batches : id \in Range(waiting[b])

(* The end of a turn up to the await of the pane's refresh. *)
EndTurn(rows, waiting, at) ==
    /\ row' = rows
    /\ pending' = waiting
    /\ job' = IF Wanted(pump.id, rows, waiting) THEN job ELSE [job EXCEPT ![pump.id] = None]
    /\ pump' = [pump EXCEPT !.at = at, !.clear = FALSE, !.stop = FALSE]

(* The outcome of the running row.  Whether it was a resume is not looked   *)
(* at again.                                                                *)
finished(status, left) ==
    [row EXCEPT ![pump.id].status = status, ![pump.id].left = left, ![pump.id].resume = FALSE]

(* check() has looked for files that are already at the destination.  The  *)
(* check of a row that copies again looks for none.                        *)
CheckFoundNone ==
    /\ pump.at = "checking"
    /\ pump' = [pump EXCEPT !.at = "running", !.clear = TRUE]
    /\ UNCHANGED <<row, job, policy, pending, dialog, used, history>>

CheckFoundSome ==
    /\ pump.at = "checking"
    /\ ~job[pump.id].again
    /\ pump' = [pump EXCEPT !.at = "asking"]
    /\ UNCHANGED <<row, job, policy, pending, dialog, used, history>>

CheckFailed ==
    /\ pump.at = "checking"
    /\ ~job[pump.id].again
    /\ EndTurn(finished("failed", FALSE), pending, "refreshing")
    /\ UNCHANGED <<policy, dialog, used, history>>

(* The command failed as a whole: no summary. *)
Refused ==
    /\ pump.at = "running"
    /\ EndTurn(finished("failed", FALSE), pending, "refreshing")
    /\ part' = part \ {pump.id}
    /\ told' = told \ {pump.id}
    /\ UNCHANGED <<policy, dialog, used, cut, trimmed>>

(* The summary: only a transfer that was stopped or broke off leaves an     *)
(* unfinished file, only a resumed one can differ from its source, and a    *)
(* compressed copy does neither.                                            *)
Ends(status, left, differs) ==
    /\ pump.at = "running"
    /\ status = "cancelled" => pump.stop
    /\ left => status # "done" /\ job[pump.id].recopy /\ pump.choice # "keep_both"
    /\ differs => /\ pump.choice = "resume" /\ job[pump.id].recopy /\ ~job[pump.id].again
                  /\ Len(pending[pump.batch]) < MaxPending
    /\ LET b == pump.batch
           waiting == IF differs THEN [pending EXCEPT ![b] = Append(@, pump.id)] ELSE pending
       IN  EndTurn(finished(status, left), waiting, "refreshing")
    /\ part' = IF left THEN part \union {pump.id} ELSE part \ {pump.id}
    /\ told' = told \ {pump.id}
    /\ UNCHANGED <<policy, dialog, used, cut, trimmed>>

(* Nothing of the batch is queued or running, as far as the jobs tell. *)
batchSettled(b) == \A i \in OfBatch(job, b) : row[i].status \notin {"queued", "running"}

(* The mismatches of a batch are asked about once it has settled; a dialog  *)
(* that is up is replaced.                                                  *)
AskMismatches(b) ==
    IF pending[b] # <<>> /\ batchSettled(b)
    THEN dialog' = pending[b] /\ pending' = [pending EXCEPT ![b] = <<>>]
    ELSE UNCHANGED <<dialog, pending>>

(* The pane has been refreshed, and the loop goes round. *)
Refreshed ==
    /\ pump.at = "refreshing"
    /\ AskMismatches(pump.batch)
    /\ NextTurn(row, job)
    /\ UNCHANGED <<job, policy, used, history>>

(* The same after a Cancel at the prompt: continue skips the question. *)
RefreshedAfterCancel ==
    /\ pump.at = "leaving"
    /\ NextTurn(row, job)
    /\ UNCHANGED <<job, policy, pending, dialog, used, history>>

PumpStep ==
    \/ CheckFoundNone \/ CheckFoundSome \/ CheckFailed
    \/ Refused
    \/ \E status \in {"done", "failed", "cancelled"}, left, differs \in BOOLEAN :
           Ends(status, left, differs)
    \/ Refreshed \/ RefreshedAfterCancel

-----------------------------------------------------------------------------
(* The user. *)

(* Rows of one new batch, with what each does; the caller sees to the rest. *)
Enqueued(jobs) ==
    LET first == used.rows IN
    [rows |-> [i \in Ids |-> IF i - first \in DOMAIN jobs
                             THEN [NoRow EXCEPT !.status = "queued"] ELSE row[i]],
     jobs |-> [i \in Ids |-> IF i - first \in DOMAIN jobs THEN jobs[i - first] ELSE job[i]]]

Room(n) == used.rows + n <= NumRows /\ used.batches < NumBatches

(* A drop of n entries; recopy is missing on a compressed copy. *)
Drop(n, recopy) ==
    /\ ~Modal /\ Room(n)
    /\ ~recopy => n = 1
    /\ LET b == used.batches + 1
           now == Enqueued([k \in 1 .. n |-> [batch |-> b, recopy |-> recopy, again |-> FALSE]])
       IN  /\ Wake(now.rows, now.jobs)
           /\ job' = now.jobs
           /\ used' = [rows |-> used.rows + n, batches |-> b]
    /\ UNCHANGED <<policy, pending, dialog, history>>

(* Mutant: the rest of the batch is taken off the list by the row only. *)
RestFirst(rows) == {i \in OfBatch(job, pump.batch) :
                      rows[i].status = "queued" /\ \A j \in Queued(rows) : i <= j}
Rest(rows) == {i \in OfBatch(job, pump.batch) : rows[i].status = "queued"}

PolicyFor(choice) == [policy EXCEPT ![pump.batch] = choice]

(* The answer to "already exists"; the mismatch dialog lies over it. *)
AnswerConflict(choice, applyToAll) ==
    /\ pump.at = "asking" /\ dialog = <<>>
    /\ applyToAll => Rest(row) # {}
    /\ policy' = IF applyToAll THEN PolicyFor(choice) ELSE policy
    /\ pump' = [pump EXCEPT !.at = "running", !.choice = choice]
    /\ told' = IF choice # "overwrite" THEN told
               ELSE told \union {pump.id}
                         \union (IF applyToAll THEN Rest(row) ELSE {})
    /\ UNCHANGED <<row, job, pending, dialog, used, part, cut, trimmed>>

(* Cancel at the prompt: the row is over and the rest of its batch leaves. *)
CancelBatch ==
    /\ pump.at = "asking" /\ dialog = <<>>
    /\ LET rest == Rest(row)
           over == finished("cancelled", FALSE)
           kept == IF Wanted(pump.id, over, pending) THEN {} ELSE {pump.id}
       IN  /\ row' = [i \in Ids |-> IF i \in rest THEN NoRow ELSE over[i]]
           /\ job' = [i \in Ids |-> IF i \in rest \union kept THEN None ELSE job[i]]
           /\ part' = part \ rest
    /\ pump' = [pump EXCEPT !.at = "leaving"]
    /\ cut' = cut \union {pump.batch}
    /\ told' = told \ Rest(row)
    /\ UNCHANGED <<policy, pending, dialog, used, trimmed>>

(* Resume on a settled row: back into the queue, under its old name. *)
resumeRow(i) ==
    /\ ~Modal /\ resumable(row[i])
    /\ Wake([row EXCEPT ![i] = [NoRow EXCEPT !.status = "queued", !.resume = TRUE]], job)
    /\ UNCHANGED <<job, policy, pending, dialog, used, history>>

(* The X on the running row.  A cancel that comes before the command has    *)
(* put the transfer in its table is forgotten, and the X stays disabled.    *)
cancelRunning(i) ==
    /\ ~Modal /\ row[i].status = "running" /\ ~row[i].cancelling
    /\ row' = [row EXCEPT ![i].cancelling = TRUE]
    /\ \E heard \in BOOLEAN :
          /\ heard => pump.at = "running"
          /\ pump' = [pump EXCEPT !.stop = heard]
    /\ UNCHANGED <<job, policy, pending, dialog, used, history>>

(* The X on any other row: it leaves, with its job. *)
dismissRow(i) ==
    /\ ~Modal /\ row[i].status \in Statuses \ {"running"} /\ ~row[i].cancelling
    /\ row' = [row EXCEPT ![i] = NoRow]
    /\ job' = [job EXCEPT ![i] = None]
    /\ part' = part \ {i}
    /\ trimmed' = IF row[i].status = "queued"
                  THEN trimmed \union {b \in Batches : i \in OfBatch(job, b) /\ pending[b] # <<>>}
                  ELSE trimmed
    /\ told' = told \ {i}
    /\ UNCHANGED <<policy, pending, dialog, pump, used, cut>>

clearFinished ==
    /\ ~Modal /\ \E i \in Ids : Settled(row[i])
    /\ row' = [i \in Ids |-> IF Settled(row[i]) THEN NoRow ELSE row[i]]
    /\ part' = part \ {i \in Ids : Settled(row[i])}
    /\ UNCHANGED <<job, policy, pending, dialog, pump, used, cut, trimmed, told>>

Lingered(r) == r.status \in {"done", "cancelled"} /\ ~resumable(r)

(* prune: a row that has lingered leaves on its own. *)
prune(i) ==
    /\ Lingered(row[i])
    /\ row' = [row EXCEPT ![i] = NoRow]
    /\ UNCHANGED <<job, policy, pending, dialog, pump, used, history>>

WithoutJobs(jobs, items) == [i \in Ids |-> IF i \in Range(items) THEN None ELSE jobs[i]]

(* Copy again: a row for each row of the dialog whose job is still there,   *)
(* unless the first has none.  The pump is woken before the old jobs go.    *)
copyAgain ==
    /\ dialog # <<>>
    /\ dialog' = <<>>
    /\ part' = part \ Range(dialog)
    /\ LET n == Cardinality({k \in DOMAIN dialog : job[dialog[k]] # None /\ job[dialog[k]].recopy})
           b == used.batches + 1
           now == Enqueued([k \in 1 .. n |-> [batch |-> b, recopy |-> TRUE, again |-> TRUE]])
       IN  IF job[Head(dialog)] = None
           THEN UNCHANGED <<row, job, pump, used>>
           ELSE /\ Room(n)
                /\ Wake(now.rows, now.jobs)
                /\ job' = WithoutJobs(now.jobs, dialog)
                /\ used' = [rows |-> used.rows + n, batches |-> b]
    /\ UNCHANGED <<policy, pending, cut, trimmed, told>>

leaveMismatches ==
    /\ dialog # <<>>
    /\ dialog' = <<>>
    /\ part' = part \ Range(dialog)
    /\ job' = WithoutJobs(job, dialog)
    /\ UNCHANGED <<row, policy, pending, pump, used, cut, trimmed, told>>

UserStep ==
    \/ \E n \in Ids, recopy \in BOOLEAN : Drop(n, recopy)
    \/ \E choice \in Answers, applyToAll \in BOOLEAN : AnswerConflict(choice, applyToAll)
    \/ CancelBatch
    \/ \E i \in Ids : resumeRow(i) \/ cancelRunning(i) \/ dismissRow(i) \/ prune(i)
    \/ clearFinished \/ copyAgain \/ leaveMismatches

Next == PumpStep \/ UserStep

(* The commands answer, and the window runs what they resolve. *)
Spec == Init /\ [][Next]_vars /\ WF_vars(PumpStep)

-----------------------------------------------------------------------------
Rows == [status : Statuses \union {"none"}, resume : BOOLEAN, left : BOOLEAN, cancelling : BOOLEAN]
Jobs == [batch : Batches, recopy : BOOLEAN, again : BOOLEAN]
Waits == {"idle", "checking", "asking", "running", "refreshing", "leaving"}
Pumps == [at : Waits, id : Ids \union {None}, batch : Batches \union {None},
          choice : Answers \union {"resume", None}, clear : BOOLEAN, stop : BOOLEAN]

(* What the window keeps has its shape, and the row that is running is the  *)
(* one the pump waits for.                                                  *)
TypeOK ==
    /\ row \in [Ids -> Rows]
    /\ job \in [Ids -> Jobs \union {None}]
    /\ policy \in [Batches -> Answers \union {None}]
    /\ pending \in [Batches -> Seq(Ids)] /\ dialog \in Seq(Ids)
    /\ pump \in Pumps
    /\ used \in [rows : 0 .. NumRows, batches : 0 .. NumBatches]
    /\ part \subseteq Ids /\ told \subseteq Ids
    /\ cut \subseteq Batches /\ trimmed \subseteq Batches
    /\ {i \in Ids : row[i].status = "running"} =
          IF pump.at \in {"checking", "asking", "running"} THEN {pump.id} ELSE {}

(* An unfinished file that the user has not given up can be continued: its  *)
(* row is still in the list, and there is a job behind the Resume it offers *)
(* or is waiting to run.  Not so once a mismatch dialog was answered for    *)
(* the row, which takes the job away while the row still offers a Resume.   *)
OfferNeverLost ==
    \A i \in part :
        job[i] # None /\ (resumable(row[i]) \/ row[i].status \in {"queued", "running"})

(* A Cancel at the prompt ends its batch: no row of it is queued or runs    *)
(* afterwards but one the user has resumed.                                 *)
StopEndsBatch ==
    \A b \in cut : \A i \in OfBatch(job, b) :
        row[i].status \in {"queued", "running"} => row[i].resume

(* What is at the destination is written over only where a check has found *)
(* nothing there or the user has said so, for the row or for its batch.     *)
OverwriteIsTold ==
    pump.at = "running" /\ pump.choice = "overwrite"
        => pump.clear \/ pump.id \in told

(* A question about mismatches is never left over when the pump stops,     *)
(* except for a batch that the user has cut short.                          *)
NoQuestionLeft ==
    pump.at = "idle" => \A b \in Batches \ (cut \union trimmed) : pending[b] = <<>>

(* What the user answered holds, and every question has been asked.        *)
AnswersHold == StopEndsBatch /\ OverwriteIsTold /\ NoQuestionLeft

(* A queued row runs or leaves, unless a question is never answered or the  *)
(* user resumes a row before it for ever.                                   *)
QueuedRuns ==
    \A i \in Ids :
        \/ []<>(row[i].status # "queued")
        \/ <>[](pump.at = "asking")
        \/ \E j \in Ids : j < i /\ []<><<resumeRow(j)>>_vars
=============================================================================
