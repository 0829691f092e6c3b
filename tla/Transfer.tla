------------------------------ MODULE Transfer ------------------------------
(***************************************************************************)
(* sftp/transfer.rs: attempts at copying one tree of files to one place,   *)
(* local to remote, remote to local or between two servers. An attempt     *)
(* stops part way when it is cancelled, when a connection goes or when a   *)
(* file is refused, and what it had of the file in flight is moved aside   *)
(* to be continued by a later attempt.                                     *)
(*                                                                         *)
(* A file is a row of chunks. The source belongs to someone else and may   *)
(* be rewritten in place while it is read. Each await of the code that     *)
(* reads or changes a file is a step.                                      *)
(***************************************************************************)
EXTENDS Naturals, Sequences, FiniteSets

CONSTANTS
    NumFiles,  \* files in the tree, copied in this order
    Contents,  \* what a source file can hold: rows of chunks
    Old,       \* what was at the destination before: a row of other chunks
    Begun,     \* what an attempt before these left of a file
    MaxNames,  \* bound: names one file can have at the destination
    MaxEdits,  \* bound: times a source file is rewritten
    MaxAttempts,  \* bound: attempts, the ones refused included
    None

ASSUME ConstantsAssumption ==
    /\ NumFiles \in Nat /\ MaxNames \in Nat \ {0} /\ MaxEdits \in Nat /\ MaxAttempts \in Nat
    /\ \A c \in Contents : c \in Seq(Nat) /\ c # <<>>
    /\ {Old, Begun} \subseteq Seq(Nat) \ {<<>>}
    /\ None \notin Seq(Nat)

Files == 1..NumFiles

\* "name", "name (2)", ...: the names a file can land under.
Names == 1..MaxNames
Wanted == 1

\* enum Conflict.
Policies == {"overwrite", "skip", "keep_both", "resume"}

\* What is written over the file of that name: a Copy again is an overwrite
\* that only differs in what follows it.
Replacing == {"overwrite", "resume", "again"}

VARIABLES
    src,      \* the source files
    real,     \* each file at the destination, under each of its names
    part,     \* what is beside it under the suffix PART
    link,     \* which end does not answer any more: "up" for none, "src", "dst"
    edits, attempts,
    pc, policy, todo,
    dest,     \* the name the file in flight is to land under
    offset, got, total,  \* offset, transferred and total of transfer_one
    flag,     \* the transfer's cancel flag
    left,     \* resolved another way: skipped_existing and renamed
    kept,     \* resumable
    joined,   \* resumed_files
    wrong,    \* mismatched
    end,      \* what the summary says: "done", "cancelled" or "failed"
    verified,
    torn,     \* history: real names under which this attempt has begun and not finished a copy
    refused,  \* history: a destination that answers has refused to close, move or remove a file
    seen,     \* history: the destination when the attempt began
    sent      \* history: the source when the attempt read it back

place == <<real, part>>
copy == <<dest, offset, got, total>>
summary == <<left, kept, joined, wrong, end, verified>>
history == <<torn, refused, seen, sent>>
vars == <<src, real, part, link, edits, attempts, pc, policy, todo, dest, offset, got, total,
          flag, left, kept, joined, wrong, end, verified, torn, refused, seen, sent>>

\* Files of one kind, some of them at the destination already, one perhaps cut
\* short there by an attempt that ended with the offer to continue it.
Init == /\ \E c \in Contents : src = [f \in Files |-> c]
        /\ \E there \in SUBSET Files :
              real = [f \in Files |-> [n \in Names |->
                        IF n = Wanted /\ f \in there THEN Old ELSE None]]
        /\ kept \in {{}} \cup {{f} : f \in Files}
        /\ part = [f \in Files |-> [n \in Names |->
                     IF n = Wanted /\ f \in kept THEN Begun ELSE None]]
        /\ link = "up" /\ edits = 0 /\ attempts = 0
        /\ pc = "idle" /\ policy = "overwrite" /\ todo = <<>>
        /\ dest = Wanted /\ offset = 0 /\ got = 0 /\ total = 0 /\ flag = FALSE
        /\ left = {} /\ joined = {} /\ wrong = {}
        /\ end = "none" /\ verified = FALSE
        /\ torn = {} /\ refused = FALSE
        /\ seen = [real |-> real, part |-> part] /\ sent = <<>>

----------------------------------------------------------------------------
(* What the app does not decide *)

\* A source file is rewritten in place.
Rewrite == /\ edits < MaxEdits /\ edits' = edits + 1
           /\ \E f \in Files : \E c \in Contents \ {src[f]} : src' = [src EXCEPT ![f] = c]
           /\ UNCHANGED <<place, link, attempts, pc, policy, todo, copy, flag, summary, history>>

\* The host of one end goes away, often without closing anything.
Vanish == /\ pc # "idle" /\ link = "up" /\ link' \in {"src", "dst"}
          /\ UNCHANGED <<src, place, edits, attempts, pc, policy, todo, copy, flag, summary, history>>

\* request_cancel, once the transfer is in the table.
RequestCancel ==
    /\ pc # "idle" /\ ~flag /\ flag' = TRUE
    /\ UNCHANGED <<src, place, link, edits, attempts, pc, policy, todo, copy, summary, history>>

----------------------------------------------------------------------------
(* An attempt: transfer, and transfer_only for the files of a Copy again *)

Exists(f, n) == real[f][n] # None

FreeNames(f) == {n \in Names \ {Wanted} : ~Exists(f, n)}
Least(S) == CHOOSE n \in S : \A k \in S : n <= k

Begin(p, files) ==
    /\ attempts < MaxAttempts /\ attempts' = attempts + 1
    /\ pc = "idle" /\ pc' = "next"
    /\ policy' = p /\ todo' = files
    /\ flag' = FALSE /\ link' = "up"
    /\ left' = {} /\ kept' = {} /\ joined' = {} /\ wrong' = {}
    /\ end' = "none" /\ verified' = FALSE
    /\ seen' = [real |-> real, part |-> part] /\ sent' = <<>>
    /\ torn' = {} /\ refused' = FALSE
    /\ UNCHANGED <<src, place, edits, copy>>

\* A drop, or a Resume for a row that says something can be continued.
Start == \E p \in Policies :
            /\ p = "resume" => kept # {}
            /\ p = "keep_both" => \A f \in Files : FreeNames(f) # {}
            /\ Begin(p, [i \in Files |-> i])

\* The files of a set, in the order they are copied.
Only(wanted) ==
    LET first[n \in 0..NumFiles] ==
            IF n = 0 THEN <<>>
            ELSE IF n \in wanted THEN Append(first[n - 1], n) ELSE first[n - 1]
    IN first[NumFiles]

CopyAgain == wrong # {} /\ Begin("again", Only(wrong))

\* The session is gone or the source cannot be looked at: an error and nothing
\* else, in the place of a summary.
Refused == /\ attempts < MaxAttempts /\ attempts' = attempts + 1
           /\ pc = "idle" /\ end' = "refused"
           /\ left' = {} /\ kept' = {} /\ joined' = {} /\ wrong' = {}
           /\ verified' = FALSE
           /\ seen' = [real |-> real, part |-> part] /\ torn' = {} /\ refused' = FALSE
           /\ UNCHANGED <<src, place, link, edits, pc, policy, todo, copy, flag, sent>>

\* The batch ends here, and what was resumed is read back.
EndWith(how) == /\ end' = how /\ todo' = <<>>
                /\ pc' = IF joined = {} THEN "verify" ELSE "check"

\* transfer_one returns.
FileOver == dest' = Wanted /\ offset' = 0 /\ got' = 0 /\ total' = 0

Head1 == Head(todo)

\* resolve_conflict, for the next file.
Resolve ==
    /\ pc = "next" /\ todo # <<>>
    /\ IF policy = "skip" /\ Exists(Head1, Wanted) /\ link # "dst"
         THEN /\ todo' = Tail(todo) /\ left' = left \cup {Head1}
              /\ UNCHANGED <<pc, dest>>
         ELSE /\ pc' = "open" /\ UNCHANGED todo
              /\ dest' = IF policy = "keep_both" /\ Exists(Head1, Wanted) /\ link # "dst"
                           THEN Least(FreeNames(Head1)) ELSE Wanted
              /\ left' = IF dest' # Wanted THEN left \cup {Head1} ELSE left
    /\ UNCHANGED <<src, place, link, edits, attempts, policy, offset, got, total, flag,
                   kept, joined, wrong, end, verified, history>>

AllDone == /\ pc = "next" /\ todo = <<>> /\ EndWith("done")
           /\ UNCHANGED <<src, place, link, edits, attempts, policy, copy, flag,
                          left, kept, joined, wrong, verified, history>>

----------------------------------------------------------------------------
(* transfer_one *)

Part(f) == part[f][dest]

Failed == /\ EndWith("failed") /\ FileOver
          /\ UNCHANGED <<src, link, edits, attempts, policy, flag, left, kept, joined, wrong,
                         verified, torn, seen, sent>>

\* open_read, for as long as the source answers.
OpenRead == /\ pc = "open" /\ link # "src" /\ pc' = "compare"
            /\ total' = Len(src[Head1])
            /\ UNCHANGED <<src, place, link, edits, attempts, policy, todo, dest, offset, got, flag,
                           summary, history>>

SourceRefused == pc = "open" /\ Failed /\ UNCHANGED <<place, refused>>

\* resume_offset: the length of a part that is shorter than the file.
ResumeOffset(f) == IF Part(f) # None /\ Len(Part(f)) < total THEN Len(Part(f)) ELSE 0

\* The digests of that much of the source and of the part agree.
SamePrefix(f, n) == n <= Len(src[f]) /\ Part(f) = SubSeq(src[f], 1, n)

\* How much is there already. A digest that cannot be taken counts as one that
\* differs.
Compare ==
    /\ pc = "compare" /\ pc' = "create"
    /\ LET n == IF policy = "resume" /\ link = "up" THEN ResumeOffset(Head1) ELSE 0
       IN  offset' \in IF n > 0 /\ SamePrefix(Head1, n) THEN {0, n} ELSE {0}
    /\ got' = offset'
    /\ UNCHANGED <<src, place, link, edits, attempts, policy, todo, dest, total, flag, summary, history>>

\* A part that is not continued belongs to a different copy of this path.
PartsLeft == IF offset = 0 /\ policy \in Replacing
               THEN [part EXCEPT ![Head1][dest] = None] ELSE part

Create ==
    /\ pc = "create" /\ link # "dst"
    /\ part' = PartsLeft
    /\ IF offset = 0
         THEN /\ real' = [real EXCEPT ![Head1][dest] = <<>>]
              /\ torn' = torn \cup {<<Head1, dest>>}
         ELSE UNCHANGED <<real, torn>>
    /\ pc' = "copy"
    /\ UNCHANGED <<src, link, edits, attempts, policy, todo, copy, flag, summary, refused, seen, sent>>

CreateRefused ==
    /\ pc = "create" /\ Failed
    /\ part' \in {part, PartsLeft} /\ UNCHANGED <<real, refused>>

\* One more chunk where the copy writes: the part file when it is continued.
Grown == IF offset > 0
           THEN /\ part' = [part EXCEPT ![Head1][dest] = Append(@, src[Head1][got + 1])]
                /\ UNCHANGED real
           ELSE /\ real' = [real EXCEPT ![Head1][dest] = Append(@, src[Head1][got + 1])]
                /\ UNCHANGED part

Chunk == /\ pc = "copy" /\ ~flag /\ link = "up" /\ got < Len(src[Head1])
         /\ Grown /\ got' = got + 1
         /\ UNCHANGED <<src, link, edits, attempts, pc, policy, todo, dest, offset, total, flag,
                        summary, history>>

\* The source is at its end: whole, or shorter than it said it was.
Eof == /\ pc = "copy" /\ ~flag /\ link # "src" /\ got >= Len(src[Head1])
       /\ pc' = IF got < total THEN "failing" ELSE "close"
       /\ UNCHANGED <<src, place, link, edits, attempts, policy, todo, copy, flag, summary, history>>

\* waited: a tick finds the cancel flag, or after STALL nothing has moved. The
\* chunk that was being written may have arrived.
InFlight == \/ UNCHANGED place
            \/ link # "dst" /\ got < Len(src[Head1]) /\ Grown

Cancelled == /\ pc \in {"copy", "close"} /\ flag /\ pc' = "stopping"
             /\ IF pc = "copy" THEN InFlight ELSE UNCHANGED place
             /\ UNCHANGED <<src, link, edits, attempts, policy, todo, copy, flag, summary, history>>

\* Mutant: only a read is waited for with a deadline.
StalledReading ==
    /\ pc = "copy" /\ link = "src" /\ pc' = "failing"
    /\ InFlight
    /\ UNCHANGED <<src, link, edits, attempts, policy, todo, copy, flag, summary, history>>

\* The last one can be waiting for the flush.
Stalled == /\ \/ pc = "copy" /\ link # "up" /\ InFlight
              \/ pc = "close" /\ link = "dst" /\ UNCHANGED place
           /\ pc' = "failing"
           /\ UNCHANGED <<src, link, edits, attempts, policy, todo, copy, flag, summary, history>>

MovedAside == /\ real' = [real EXCEPT ![Head1][dest] = None]
              /\ part' = [part EXCEPT ![Head1][dest] = real[Head1][dest]]
              /\ torn' = torn \ {<<Head1, dest>>} /\ UNCHANGED refused

\* A rename begins by removing what has the new name (Remote::rename).
PartMayBeGone == part' \in {part, IF got > 0 THEN [part EXCEPT ![Head1][dest] = None] ELSE part}

\* Mutant: what could not be moved stays, and an empty file too.
RemovedNothing == PartMayBeGone /\ UNCHANGED <<real, torn, refused>>

\* Nothing of it arrived, or it would not be moved.
Removed == /\ real' = [real EXCEPT ![Head1][dest] = None] /\ PartMayBeGone
           /\ torn' = torn \ {<<Head1, dest>>} /\ UNCHANGED refused

\* Neither could be done: remove_file does not say so.
LeftAsItIs == /\ PartMayBeGone /\ UNCHANGED <<real, torn>>
              /\ refused' = (refused \/ link # "dst")

\* Mutant: a part that grew and stopped again is not counted.
KeptFresh == IF dest = Wanted /\ offset = 0 THEN kept \cup {Head1} ELSE kept

\* resumable: only a part beside the name that was wanted can be continued.
Kept == IF dest = Wanted THEN kept \cup {Head1} ELSE kept

\* A file that stopped: what is there of it is moved aside, where a resume was
\* writing already, or else taken away.
SetAside ==
    /\ pc \in {"stopping", "failing"}
    /\ \/ offset > 0 /\ UNCHANGED <<place, torn, refused>> /\ kept' = Kept
       \/ offset = 0 /\ got > 0 /\ link # "dst" /\ MovedAside /\ kept' = Kept
       \/ offset = 0 /\ link # "dst" /\ Removed /\ UNCHANGED kept
       \/ offset = 0 /\ LeftAsItIs /\ UNCHANGED kept
    /\ EndWith(IF pc = "stopping" THEN "cancelled" ELSE "failed") /\ FileOver
    /\ UNCHANGED <<src, link, edits, attempts, policy, flag, left, joined, wrong, verified, seen, sent>>

\* The file is flushed and closed, and a resumed one takes its real name.
Finish == /\ pc = "close" /\ link # "dst"
          /\ IF offset > 0
               THEN /\ real' = [real EXCEPT ![Head1][dest] = Part(Head1)]
                    /\ part' = [part EXCEPT ![Head1][dest] = None]
                    /\ joined' = joined \cup {Head1}
               ELSE UNCHANGED <<place, joined>>
          /\ torn' = torn \ {<<Head1, dest>>}
          /\ todo' = Tail(todo) /\ pc' = "next" /\ FileOver
          /\ UNCHANGED <<src, link, edits, attempts, policy, flag, left, kept, wrong, end, verified,
                         refused, seen, sent>>

\* The close or the rename is refused, the rename perhaps after what had the
\* real name is gone. Nothing is moved aside and nothing counted.
FinishRefused ==
    /\ pc = "close" /\ Failed /\ refused' = (refused \/ link # "dst")
    /\ real' \in {real, IF offset > 0 THEN [real EXCEPT ![Head1][dest] = None] ELSE real}
    /\ UNCHANGED part

----------------------------------------------------------------------------
(* Reading back *)

\* Mutant: the sizes are compared.
CheckResumedSizes ==
    /\ pc = "check" /\ pc' = "verify"
    /\ wrong' = {f \in joined : Len(real[f][Wanted]) # Len(src[f])}
    /\ sent' = src
    /\ UNCHANGED <<src, place, link, edits, attempts, policy, todo, copy, flag, left, kept, end,
                   joined, verified, torn, refused, seen>>

\* check_resumed: what cannot be read back counts as different, and fails an
\* attempt that had not been cancelled.
CheckResumed ==
    /\ pc = "check" /\ pc' = "verify"
    /\ \/ /\ link = "up"
          /\ wrong' = {f \in joined : real[f][Wanted] # src[f]}
          /\ sent' = src /\ UNCHANGED end
       \/ /\ wrong' = joined
          /\ end' = IF end = "done" THEN "failed" ELSE end
          /\ UNCHANGED sent
    /\ UNCHANGED <<src, place, link, edits, attempts, policy, todo, copy, flag, left, kept,
                   joined, verified, torn, refused, seen>>

Comparable == policy # "again" /\ end = "done" /\ wrong = {} /\ kept = {} /\ left = {}

\* The answer: as it is, or after verify_landing when the setting says so. With
\* it the policy of the attempt and its cancel flag are gone.
Return ==
    /\ pc = "verify" /\ pc' = "idle"
    /\ policy' = "overwrite" /\ flag' = FALSE
    /\ \/ UNCHANGED <<summary, sent>>
       \/ /\ Comparable /\ link = "up" /\ sent' = src
          /\ \A f \in Files : real[f][Wanted] = src[f]
          /\ verified' = TRUE
          /\ UNCHANGED <<left, kept, joined, wrong, end>>
       \/ /\ Comparable /\ end' = "refused" /\ joined' = {}
          /\ UNCHANGED <<left, kept, wrong, verified, sent>>
    /\ UNCHANGED <<src, place, link, edits, attempts, todo, copy, torn, refused, seen>>

Step == \/ Resolve \/ AllDone \/ OpenRead \/ Compare \/ SourceRefused \/ Create \/ CreateRefused
        \/ Chunk \/ Eof \/ Cancelled \/ Stalled \/ SetAside \/ Finish \/ FinishRefused
        \/ CheckResumed \/ Return

Next == Start \/ CopyAgain \/ Refused \/ Step \/ RequestCancel \/ Rewrite \/ Vanish

\* An attempt that was begun is polled.
Spec == Init /\ [][Next]_vars /\ WF_vars(Step)

----------------------------------------------------------------------------
(* Properties *)

File == Seq(Nat) \cup {None}

\* Everything a variable can hold.
TypeOK ==
    /\ src \in [Files -> Contents]
    /\ real \in [Files -> [Names -> File]] /\ part \in [Files -> [Names -> File]]
    /\ link \in {"up", "src", "dst"} /\ edits \in 0..MaxEdits /\ attempts \in 0..MaxAttempts
    /\ pc \in {"idle", "next", "open", "compare", "create", "copy", "close", "stopping", "failing",
               "check", "verify"}
    /\ policy \in Policies \cup Replacing /\ todo \in Seq(Files) /\ dest \in Names
    /\ offset \in Nat /\ got \in Nat /\ total \in Nat
    /\ flag \in BOOLEAN /\ verified \in BOOLEAN
    /\ left \subseteq Files /\ kept \subseteq Files
    /\ joined \subseteq Files /\ wrong \subseteq Files
    /\ end \in {"none", "done", "cancelled", "failed", "refused"}
    /\ torn \subseteq Files \X Names /\ refused \in BOOLEAN
    /\ seen \in [real : [Files -> [Names -> File]], part : [Files -> [Names -> File]]]
    /\ sent \in {<<>>} \cup [Files -> Contents]

Over == pc = "idle" /\ end # "none"

\* "A resumed file is two attempts joined at a byte nobody watched"
\* (check_resumed): one that is reported as finished and not as different is
\* the source as it was read back, whatever was rewritten between and during
\* the attempts, and so is every file of a tree that was verified.
DoneIsWhole ==
    Over => \A f \in IF verified THEN Files ELSE joined \ wrong : real[f][Wanted] = sent[f]

\* The destination did all it was asked.
Obliging == link # "dst" /\ ~refused

\* "A half written file under its real name is indistinguishable from a whole
\* one" (PART): when an attempt is over there is none, unless the destination
\* could not be reached any more or refused to have it moved.
HalfIsSetAside == Over /\ Obliging => torn = {}

\* What an attempt left unfinished is what its summary offers to continue:
\* "the row is the only offer of a resume there is" (prune).
OfferIsTrue ==
    Over => \A f \in Files :
        /\ f \in kept => part[f][Wanted] \notin {None, <<>>}
        /\ part[f][Wanted] \notin {None, seen.part[f][Wanted]} /\ Obliging => f \in kept

\* Under Skip and Keep both neither a file that was there nor the part beside
\* it is touched, however the attempt ends.
ExistingStays ==
    pc # "idle" /\ policy \in {"skip", "keep_both"} =>
        \A f \in Files : seen.real[f][Wanted] # None =>
            /\ real[f][Wanted] = seen.real[f][Wanted]
            /\ part[f][Wanted] = seen.part[f][Wanted]

\* An attempt spoils neither what was there nor what it or another began.
SpoilsNothing == ExistingStays /\ OfferIsTrue

\* Every attempt ends, also when a host goes away without a word ("the command
\* never returns", waited) and whenever it is cancelled.
AttemptEnds == []<>(pc = "idle")

============================================================================
