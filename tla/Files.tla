------------------------------- MODULE Files -------------------------------
(***************************************************************************)
(* The file panel's SFTP sessions (sftp/session.rs) and what is done over  *)
(* them beside a transfer: a file opened in an application here and sent   *)
(* back on every save (edit.rs), a directory deleted from the leaves up    *)
(* (ops.rs over the walk of listing.rs), a tree moved as one stream of tar *)
(* (archive.rs), compared afterwards if the user wants, and two trees that *)
(* are compared where they are (verify.rs).                                *)
(*                                                                         *)
(* A step is one request to a server or one look at this disk.  Owners and *)
(* modes of files, sizes, times and the progress shown are left out.       *)
(***************************************************************************)
EXTENDS Integers, Sequences, FiniteSets, SequencesExt

CONSTANTS
    Scenes,      \* "edit", "delete", "archive", "compare": one is played, a bound
    MaxSaves,    \* times the copy is saved: a bound
    MissingTicks,  \* MISSING_TICKS
    MaxOthers,   \* changes others make on the server: a bound
    MaxTreeEdits,    \* and to two trees while they are compared: a bound
    Entries,     \* files in the tree a stream of tar holds
    Nobody

ASSUME FilesAssumption ==
    /\ Scenes \subseteq {"edit", "delete", "archive", "compare"}
    /\ {MaxSaves, MissingTicks, MaxOthers, MaxTreeEdits} \subseteq Nat
    /\ Entries \in Nat \ {0} /\ Nobody \notin Nat

VARIABLES
    scene,
    conn,    \* SftpClientState.sessions: a session that is "lost" is in it still
    held,    \* the session the pane has
    others,  \* how many changes others made
    opened,    \* the file opened here, 0 when there is none
    server,  \* and the one it came from
    watch,   \* the task that watches the copy
    notice,  \* what the panel was last told of it
    saves,
    there,   \* what there is on the server, of Nodes
    rows,    \* the last listing of the top
    del,     \* the delete under way
    arc,     \* the stream under way
    trees,   \* the two trees that are compared
    cmp      \* the comparison

panel == <<conn, held>>
editing == <<opened, server, watch, notice, saves>>
deleting == <<there, rows, del>>
comparing == <<trees, cmp>>
fvars == <<scene, panel, others, editing, deleting, arc, comparing>>

-----------------------------------------------------------------------------
(* Sessions; those a comparison is made over stay up, a bound.              *)

Sids == {1, 2}
Registered(s) == conn[s] \in {"open", "lost"}
Answers(s) == conn[s] = "open"

connect_sftp ==
    /\ scene # "compare" /\ held = Nobody /\ conn[2] = "new"
    /\ conn' = [conn EXCEPT ![2] = "open"] /\ held' = 2
    /\ UNCHANGED <<scene, others, editing, deleting, arc, comparing>>

disconnect_sftp ==
    /\ scene # "compare" /\ held # Nobody
    /\ conn' = [conn EXCEPT ![held] = "gone"] /\ held' = Nobody
    /\ UNCHANGED <<scene, others, editing, deleting, arc, comparing>>

(* The link dies, and nobody here has noticed. *)
Vanishes(s) ==
    /\ scene # "compare" /\ Answers(s) /\ conn' = [conn EXCEPT ![s] = "lost"]
    /\ UNCHANGED <<scene, held, others, editing, deleting, arc, comparing>>

(* A listing failed and so did probe_remote: the pane lets its session go,  *)
(* which stays in the table.                                                *)
FoundDead ==
    /\ held # Nobody /\ conn[held] = "lost"
    /\ held' = Nobody
    /\ UNCHANGED <<scene, conn, others, editing, deleting, arc, comparing>>

-----------------------------------------------------------------------------
(* Editing: what a file holds is the number of the save that made it, and   *)
(* -n while save n is being written.                                        *)

Original == 1
Saved == Original + 1 .. Original + MaxSaves
Foreign == Original + MaxSaves + 1   \* what someone else made of it
Torn == 0 - Foreign                  \* a opened begun and not finished
Missing == 0

NoWatch == [at |-> "none", last |-> Missing, pending |-> Missing, missing |-> 0,
            now |-> Missing, read |-> Missing, failed |-> FALSE]

(* open_remote: the file comes down into a directory of its own.            *)
open_remote ==
    /\ scene = "edit" /\ held = 1 /\ watch.at = "none"
    /\ watch' = [watch EXCEPT !.at = "fetching"]
    /\ UNCHANGED <<scene, panel, others, opened, server, notice, saves, deleting, arc, comparing>>

(* It is there and opened, and its watcher begins with a stamp of it.       *)
Fetched ==
    /\ watch.at = "fetching" /\ Answers(1) /\ server \notin {Missing, Torn}
    /\ opened' = server
    /\ watch' = [NoWatch EXCEPT !.at = "watching", !.last = server]
    /\ UNCHANGED <<scene, panel, others, server, notice, saves, deleting, arc, comparing>>

(* Or it is not, or no application opens it: the directory is left behind.  *)
FetchFails ==
    /\ watch.at = "fetching" /\ watch' = [NoWatch EXCEPT !.at = "left"]
    /\ UNCHANGED <<scene, panel, others, opened, server, notice, saves, deleting, arc, comparing>>

(* The application begins to write a save over the copy, or in one go, or   *)
(* beside it to rename it over; and someone may delete the copy.            *)
EditorSaves ==
    /\ watch.at \in {"watching", "sending", "copying"} /\ opened >= Missing /\ saves < MaxSaves
    /\ saves' = saves + 1
    /\ \/ opened' \in {0 - (Original + saves'), Original + saves'}
       \/ opened > Missing /\ opened' = Missing
    /\ UNCHANGED <<scene, panel, others, server, watch, notice, deleting, arc, comparing>>

EditorFinishes ==
    /\ opened < Missing /\ opened' = 0 - opened
    /\ UNCHANGED <<scene, panel, others, server, watch, notice, saves, deleting, arc, comparing>>

(* The end of watch, and of the directory with it. *)
WatchEnds == opened' = Missing /\ watch' = [NoWatch EXCEPT !.at = "ended"]

(* A tick: a change that has held still since the one before is a save.     *)
Tick ==
    /\ watch.at = "watching"
    /\ IF ~Registered(1) \/ (opened = Missing /\ watch.missing + 1 >= MissingTicks)
       THEN WatchEnds
       ELSE /\ UNCHANGED opened
            /\ watch' = IF opened = Missing THEN [watch EXCEPT !.missing = @ + 1]
                        ELSE IF opened = watch.last
                        THEN [watch EXCEPT !.missing = 0, !.pending = Missing]
                        ELSE IF opened # watch.pending
                        THEN [watch EXCEPT !.missing = 0, !.pending = opened]
                        ELSE [watch EXCEPT !.missing = 0, !.at = "sending", !.now = opened]
    /\ UNCHANGED <<scene, panel, others, server, notice, saves, deleting, arc, comparing>>

(* upload_quiet: the server's file is opened to be written over. *)
SendBegins ==
    /\ watch.at = "sending" /\ Answers(1) /\ opened # Missing
    /\ server' = Torn
    /\ watch' = [watch EXCEPT !.at = "copying", !.read = opened]
    /\ UNCHANGED <<scene, panel, others, opened, notice, saves, deleting, arc, comparing>>

(* Mutant: the stamp is taken when the file has gone up. *)
WatchesAgainLate == [watch EXCEPT !.at = "watching", !.last = opened, !.pending = Missing,
                                  !.now = Missing, !.read = Missing, !.failed = FALSE]

WatchesAgain == [watch EXCEPT !.at = "watching", !.last = watch.now, !.pending = Missing,
                              !.now = Missing, !.read = Missing, !.failed = FALSE]

(* Nothing was begun: the session is gone, or an end could not be opened.   *)
SendRefused ==
    /\ watch.at = "sending"
    /\ notice' = "failed" /\ watch' = [WatchesAgain EXCEPT !.failed = TRUE]
    /\ UNCHANGED <<scene, panel, others, opened, server, saves, deleting, arc, comparing>>

(* What went up is the copy as it was when the reading began, or as it is   *)
(* when it ends; and the server may make a fuss over closing it.            *)
SendEnds ==
    /\ watch.at = "copying" /\ Answers(1)
    /\ server' \in {watch.read, opened} \ {Missing}
    /\ \/ notice' = "uploaded" /\ watch' = WatchesAgain
       \/ notice' = "failed" /\ watch' = [WatchesAgain EXCEPT !.failed = TRUE]
    /\ UNCHANGED <<scene, panel, others, opened, saves, deleting, arc, comparing>>

(* It broke off.  What there is of it is set aside, or stays where it is if *)
(* the link is gone; that is in the summary, which upload_quiet drops.      *)
SendBreaks ==
    /\ watch.at = "copying"
    /\ server' = IF Answers(1) THEN Missing ELSE Torn
    /\ notice' = "uploaded" /\ watch' = [WatchesAgain EXCEPT !.failed = TRUE]
    /\ UNCHANGED <<scene, panel, others, opened, saves, deleting, arc, comparing>>

(* Someone else writes the file. *)
OtherWrites ==
    /\ scene = "edit" /\ others < MaxOthers /\ others' = others + 1
    /\ server' = Foreign
    /\ UNCHANGED <<scene, panel, opened, watch, notice, saves, deleting, arc, comparing>>

SendStep == SendBegins \/ SendRefused \/ SendEnds \/ SendBreaks
EditStep == \/ open_remote \/ Fetched \/ FetchFails
            \/ EditorSaves \/ EditorFinishes \/ Tick \/ SendStep \/ OtherWrites

-----------------------------------------------------------------------------
(* Deleting: a directory d that holds a directory b and perhaps a link k; b *)
(* holds a directory c and c a file g.  Beside d are a directory t, which   *)
(* holds x, and a link l.  Both links point at t.                           *)

Dirs == {"d", "b", "c", "t"}
Links == {"l", "k"}
Nodes == Dirs \union Links \union {"g", "x"}
Top == "/"
Parent == [n \in Nodes |-> CASE n \in {"d", "t", "l"} -> Top
                             [] n \in {"b", "k"} -> "d"
                             [] n = "c" -> "b"
                             [] n = "g" -> "c"
                             [] n = "x" -> "t"]

(* What read_dir answers: the path is followed, what is found there is not. *)
Resolved(n) == IF n \in Links THEN "t" ELSE n
read_dir(n) == {m \in there : Parent[m] = Resolved(n)}

(* A listing: a link shows as what it points at, if that is there.          *)
IsDir(n) == Resolved(n) \in Dirs \intersect there
Listing == {[node |-> n, is_dir |-> IsDir(n)] : n \in read_dir(Top)}

(* list_remote, or list_local. *)
ListRows ==
    /\ scene = "delete" /\ held # Nobody /\ Answers(held)
    /\ rows' = Listing
    /\ UNCHANGED <<scene, panel, others, editing, there, del, arc, comparing>>

NoDelete == [at |-> "idle", here |-> FALSE, root |-> Top, queue |-> <<>>, files |-> {},
             dirs |-> <<>>, gone |-> {}, met |-> FALSE]

(* The user deletes a row, however old the listing it is in. *)
delete_remote ==
    /\ scene = "delete" /\ held = 1 /\ del.at = "idle"
    /\ \E row \in rows :
          del' = [NoDelete EXCEPT !.root = row.node,
                                  !.at = IF row.is_dir THEN "walking" ELSE "single",
                                  !.queue = IF row.is_dir THEN <<row.node>> ELSE <<>>,
                                  !.met = others > 0]
    /\ UNCHANGED <<scene, panel, others, editing, there, rows, arc, comparing>>

Above(n) == IF n = Top THEN Top ELSE Parent[n]
Under(n) == {m \in Nodes : n \in {m, Above(m), Above(Above(m)), Above(Above(Above(m)))}}

(* The same on this side, where the whole tree goes in one call: what is no *)
(* link goes with all that is in it, a link alone, if it leads somewhere.   *)
delete_local ==
    /\ scene = "delete" /\ del.at = "idle"
    /\ \E row \in rows :
          LET leads == row.node \in there /\ Resolved(row.node) \in there
              away == IF row.node \in Links THEN {row.node} ELSE Under(row.node) \intersect there
          IN /\ there' = IF leads THEN there \ away ELSE there
             /\ del' = [NoDelete EXCEPT !.root = row.node, !.here = TRUE,
                                        !.at = IF leads THEN "done" ELSE "failed",
                                        !.gone = IF leads THEN away ELSE {},
                                        !.met = row.node \notin there]
    /\ UNCHANGED <<scene, panel, others, editing, rows, arc, comparing>>

DeleteFails == del' = [del EXCEPT !.at = "failed"]
Connected == conn[1] # "lost"   \* a disconnect does not end a delete under way

(* A request is refused, or the session is closed between two of them.      *)
RemoveRefused ==
    /\ del.at \in {"single", "walking"}
    /\ del' = [del EXCEPT !.at = "failed", !.met = TRUE]
    /\ UNCHANGED <<scene, panel, others, editing, there, rows, arc, comparing>>

SingleFile ==
    /\ del.at = "single"
    /\ IF Connected /\ del.root \in there \ Dirs
       THEN /\ there' = there \ {del.root}
            /\ del' = [del EXCEPT !.at = "done", !.gone = {del.root}]
       ELSE DeleteFails /\ UNCHANGED there
    /\ UNCHANGED <<scene, panel, others, editing, rows, arc, comparing>>

(* Mutant: the walk follows links. *)
WalksLinks(n) == {m \in read_dir(n) : Resolved(m) \in Dirs}

(* Directories the walk goes into: a link is skipped, never followed.       *)
Walks(n) == {m \in read_dir(n) : m \in Dirs}

(* A directory is recorded before what is in it. *)
Recorded(n) == del.dirs \o SetToSeq(Walks(n))

(* One directory of collect_remote_tree. *)
WalkOne ==
    /\ del.at = "walking" /\ del.queue # <<>>
    /\ LET n == Last(del.queue) IN
       IF Connected /\ Resolved(n) \in there
       THEN del' = [del EXCEPT !.queue = Front(@) \o SetToSeq(Walks(n)),
                               !.files = @ \union (read_dir(n) \ (Dirs \union Links)),
                               !.dirs = Recorded(n)]
       ELSE DeleteFails
    /\ UNCHANGED <<scene, panel, others, editing, there, rows, arc, comparing>>

RemoveFile ==
    /\ del.at = "walking" /\ del.queue = <<>>
    /\ \E f \in del.files :
          IF Connected /\ f \in there
          THEN /\ there' = there \ {f}
               /\ del' = [del EXCEPT !.files = @ \ {f}, !.gone = @ \union {f}]
          ELSE DeleteFails /\ UNCHANGED there
    /\ UNCHANGED <<scene, panel, others, editing, rows, arc, comparing>>

(* remove_dir, which takes no link and nothing that is not empty. *)
RemoveDir ==
    /\ del.at = "walking" /\ del.queue = <<>> /\ del.files = {}
    /\ LET n == Last(<<del.root>> \o del.dirs) IN
       IF Connected /\ n \in there \intersect Dirs /\ read_dir(n) = {}
       THEN /\ there' = there \ {n}
            /\ del' = [del EXCEPT !.gone = @ \union {n},
                                  !.at = IF del.dirs = <<>> THEN "done" ELSE @,
                                  !.dirs = IF @ = <<>> THEN @ ELSE Front(@)]
       ELSE DeleteFails /\ UNCHANGED there
    /\ UNCHANGED <<scene, panel, others, editing, rows, arc, comparing>>

(* The panel lists again when a delete is over. *)
Deleted ==
    /\ del.at \in {"done", "failed"} /\ del' = NoDelete
    /\ rows' = IF held # Nobody /\ Answers(held) THEN Listing ELSE rows
    /\ UNCHANGED <<scene, panel, others, editing, there, arc, comparing>>

(* Someone, the user in the other pane perhaps, makes or removes something. *)
OtherChanges ==
    /\ scene = "delete" /\ others < MaxOthers /\ others' = others + 1
    /\ \E n \in Nodes :
          \/ n \notin there /\ Parent[n] \in there \union {Top} /\ there' = there \union {n}
          \/ n \in there /\ {m \in there : Parent[m] = n} = {} /\ there' = there \ {n}
    /\ del' = IF del.at = "idle" THEN del ELSE [del EXCEPT !.met = TRUE]
    /\ UNCHANGED <<scene, panel, editing, rows, arc, comparing>>

DeleteStep == RemoveRefused \/ SingleFile \/ WalkOne \/ RemoveFile \/ RemoveDir \/ Deleted

-----------------------------------------------------------------------------
(* A tree as one stream.  Either end of it is a thread here or a tar that a *)
(* server runs, of which the app learns how it ended: "ok", "bad" or, when  *)
(* the channel closes without a status, "silent".                           *)

Kinds == {"download", "upload", "copy"}
FromServer(kind) == kind # "upload"
ToServer(kind) == kind # "download"
Far(kind) == IF kind = "copy" THEN 2 ELSE 1     \* the session it goes up by

NoStream == [at |-> "idle", kind |-> "copy", flag |-> FALSE, cut |-> FALSE,
             sent |-> 0, got |-> 0, sound |-> FALSE, src |-> "ok", dst |-> "ok",
             more |-> FALSE, hashes |-> {}, count |-> 0, end |-> "none"]

OverTable(next) == arc' = next /\ UNCHANGED <<scene, panel, others, editing, deleting, comparing>>

(* download_archive, upload_archive and copy_archive. What is at the        *)
(* destination before may hold more than comes.                             *)
StreamBegins ==
    /\ scene = "archive" /\ arc.at = "idle"
    /\ \E kind \in Kinds, more \in BOOLEAN :
          /\ FromServer(kind) => Registered(1)
          /\ ToServer(kind) => Registered(Far(kind))
          /\ OverTable([NoStream EXCEPT !.at = "moving", !.kind = kind, !.more = more,
                                        !.src = "running", !.dst = "running"])

(* request_cancel, by the id of the transfer. *)
CancelPressed ==
    arc.at \in {"moving", "ending"} /\ ~arc.flag /\ OverTable([arc EXCEPT !.flag = TRUE])

Passed ==
    /\ arc.at = "moving" /\ arc.src = "running" /\ arc.sent < Entries
    /\ IF arc.flag THEN OverTable([arc EXCEPT !.at = "ending", !.cut = TRUE])
       ELSE OverTable([arc EXCEPT !.sent = @ + 1])

Unpacked ==
    /\ arc.dst = "running" /\ arc.got < arc.sent
    /\ OverTable([arc EXCEPT !.got = @ + 1])

(* The packing tar is through; or it could not read all there is, and its   *)
(* stream is in order or breaks off.                                        *)
PackingEnds ==
    /\ arc.at = "moving" /\ arc.src = "running"
    /\ \/ arc.sent = Entries /\ OverTable([arc EXCEPT !.src = "ok", !.sound = TRUE])
       \/ \E sound \in BOOLEAN : OverTable([arc EXCEPT !.src = "bad", !.sound = sound])

(* A server says nothing more: its connection is lost, or the shell killed. *)
PackingCut ==
    /\ arc.at = "moving" /\ arc.src = "running" /\ FromServer(arc.kind)
    /\ OverTable([arc EXCEPT !.src = "silent"])

UnpackingFails ==
    /\ arc.at \in {"moving", "ending"} /\ arc.dst = "running"
    /\ OverTable([arc EXCEPT !.dst = "bad"])

UnpackingCut ==
    /\ arc.at \in {"moving", "ending"} /\ arc.dst = "running" /\ ToServer(arc.kind)
    /\ OverTable([arc EXCEPT !.dst = "silent"])

(* The stream is closed: nothing more comes, or the pipe to the unpacking   *)
(* thread is broken.                                                        *)
StreamCloses ==
    /\ arc.at = "moving"
    /\ arc.src # "running" \/ (~ToServer(arc.kind) /\ arc.dst = "bad")
    /\ OverTable([arc EXCEPT !.at = "ending", !.cut = arc.flag])

(* What is sent to a channel that is closed comes back as an error.         *)
SendingFails ==
    /\ arc.at = "moving" /\ arc.src = "running" /\ arc.dst = "silent"
    /\ OverTable([arc EXCEPT !.at = "over", !.end = "failed"])

(* At the end of the stream the unpacker knows whether it is whole.         *)
UnpackingEnds ==
    /\ arc.at = "ending" /\ arc.dst = "running" /\ arc.got = arc.sent
    /\ OverTable([arc EXCEPT !.dst = IF arc.sound /\ ~arc.cut THEN "ok" ELSE "bad"])

(* Of the two ends one said that it went wrong (exec_failure). *)
StreamFailed(a) == a.src = "bad" \/ a.dst = "bad"

Reported ==
    /\ arc.at = "ending" /\ arc.dst # "running"
    /\ IF arc.cut THEN OverTable([arc EXCEPT !.at = "over", !.end = "cancelled"])
       ELSE IF StreamFailed(arc) THEN OverTable([arc EXCEPT !.at = "over", !.end = "failed"])
       ELSE \/ OverTable([arc EXCEPT !.at = "over", !.end = "done"])
            \/ OverTable([arc EXCEPT !.at = "hashing"])       \* verify_transfers

(* What sha256sum says of files on a server breaks off when its channel     *)
(* does, and what it said until then is taken for all.                      *)
Digests(files, remote) == IF remote THEN SUBSET files ELSE {files}

SourceDigests(a) == Digests({<<n, TRUE>> : n \in 1 .. Entries}, FromServer(a.kind))

(* An entry being unpacked when the tar was killed is there in part.        *)
LandedDigests(a) ==
    Digests({<<n, TRUE>> : n \in 1 .. a.got}
              \union (IF a.got < a.sent THEN {<<a.got + 1, FALSE>>} ELSE {})
              \union (IF a.more THEN {<<Entries + 1, TRUE>>} ELSE {}), ToServer(a.kind))

Unverified == OverTable([arc EXCEPT !.at = "over", !.end = "failed"])

HashSource ==
    /\ arc.at = "hashing"
    /\ IF FromServer(arc.kind) /\ ~Answers(1) THEN Unverified
       ELSE \E hashes \in SourceDigests(arc) :
               OverTable([arc EXCEPT !.at = "comparing", !.hashes = hashes])

(* compare: none is missing or other than it was, and there are no more.    *)
compare(sent, arrived) == sent \subseteq arrived /\ Cardinality(arrived) <= Cardinality(sent)

HashLanded ==
    /\ arc.at = "comparing"
    /\ IF ToServer(arc.kind) /\ ~Answers(Far(arc.kind)) THEN Unverified
       ELSE \E arrived \in LandedDigests(arc) :
               IF compare(arc.hashes, arrived)
               THEN OverTable([arc EXCEPT !.at = "over", !.end = "verified",
                                          !.count = Cardinality(arc.hashes)])
               ELSE Unverified

(* The row shows how it ended, until there is another. *)
NextStream == arc.at = "over" /\ OverTable(NoStream)

StreamStep ==
    \/ StreamBegins \/ CancelPressed \/ Passed \/ Unpacked \/ PackingEnds \/ PackingCut
    \/ UnpackingFails \/ UnpackingCut \/ StreamCloses \/ SendingFails \/ UnpackingEnds
    \/ Reported \/ HashSource \/ HashLanded \/ NextStream

-----------------------------------------------------------------------------
(* Comparing two trees: a name is absent on a side, or a file of one of two *)
(* contents of one size, or of another size.                                *)

Sides == {"left", "right"}
TreeNames == {1, 2}
Absent == 0
TreeContents == Absent .. 3
Size(c) == IF c = 3 THEN 2 ELSE 1

NoCompare == [at |-> "idle", far |-> {}, sizes |-> [side \in Sides |-> <<>>], candidates |-> {},
              digests |-> [side \in Sides |-> <<>>], flag |-> FALSE, cancelled |-> FALSE,
              same |-> {}, differing |-> {}, met |-> {}, cut |-> FALSE]

Compares(next) ==
    cmp' = next /\ UNCHANGED <<scene, panel, others, editing, deleting, arc, trees>>

compare_trees ==
    /\ scene = "compare" /\ cmp.at = "idle"
    /\ \E far \in SUBSET Sides : Compares([NoCompare EXCEPT !.at = "left", !.far = far])

(* request_cancel reaches a comparison as it does a transfer. *)
CompareCancelled ==
    /\ cmp.at \notin {"idle", "over", "failed"} /\ ~cmp.flag
    /\ Compares([cmp EXCEPT !.flag = TRUE])

(* sizes, by the walk of that side. *)
Walked(side, next) ==
    /\ cmp.at = side
    /\ Compares([cmp EXCEPT !.sizes[side] = [n \in {m \in TreeNames : trees[side][m] # Absent} |->
                                               Size(trees[side][n])], !.at = next])

Sized ==
    /\ cmp.at = "sized"
    /\ LET both == DOMAIN cmp.sizes["left"] \intersect DOMAIN cmp.sizes["right"]
           unequal == {n \in both : cmp.sizes["left"][n] # cmp.sizes["right"][n]}
           next == [cmp EXCEPT !.differing = unequal, !.candidates = both \ unequal,
                               !.sizes = NoCompare.sizes]
       IN Compares(IF cmp.flag \/ next.candidates = {}
                   THEN [next EXCEPT !.at = "over", !.cancelled = cmp.flag]
                   ELSE [next EXCEPT !.at = "hashing left"])

Hashing(side) == IF side = "left" THEN "hashing left" ELSE "hashing right"
Due(side) == cmp.candidates \ DOMAIN cmp.digests[side]

(* What is known of a side, and what a file of it hashes to. *)
WithDigest(known, n, digest) ==
    [m \in DOMAIN known \union {n} |-> IF m = n THEN digest ELSE known[m]]

(* digests_of: a file read, or a batch of them on a server.  What a silent  *)
(* channel cuts off is not among the answers; a file that is gone ends it.  *)
HashOne(side) ==
    /\ cmp.at = Hashing(side) /\ ~(cmp.flag /\ side \in cmp.far)
    /\ \E n \in Due(side) :
          IF trees[side][n] = Absent THEN Compares([cmp EXCEPT !.at = "failed"])
          ELSE \/ Compares([cmp EXCEPT !.digests[side] = WithDigest(@, n, trees[side][n])])
               \/ /\ side \in cmp.far
                  /\ Compares([cmp EXCEPT !.digests[side] = WithDigest(@, n, Absent),
                                           !.cut = TRUE])

(* All of a side is hashed, or the rest was not begun for the flag was up.  *)
HashedSide(side) ==
    Due(side) = {} \/ (cmp.flag /\ (side \in cmp.far \/ cmp.digests[side] = <<>>))

LeftHashed ==
    /\ cmp.at = "hashing left" /\ HashedSide("left")
    /\ Compares(IF cmp.flag THEN [cmp EXCEPT !.at = "over", !.cancelled = TRUE]
                ELSE [cmp EXCEPT !.at = "hashing right"])

(* A candidate is the same if both sides answered for it, and alike. *)
Alike(c) == {n \in DOMAIN c.digests["left"] \intersect DOMAIN c.digests["right"] :
                c.digests["left"][n] = c.digests["right"][n] /\ c.digests["left"][n] # Absent}

(* Mutant: the flag is not asked again when the second side is through. *)
MatchedUnasked(c) ==
    [c EXCEPT !.same = Alike(c), !.differing = @ \union (c.candidates \ Alike(c))]

Matched(c) ==
    [c EXCEPT !.same = Alike(c), !.differing = @ \union (c.candidates \ Alike(c)),
              !.cancelled = c.flag]

RightHashed ==
    /\ cmp.at = "hashing right" /\ HashedSide("right")
    /\ Compares([Matched(cmp) EXCEPT !.at = "over", !.digests = NoCompare.digests])

CompareClosed == cmp.at \in {"over", "failed"} /\ Compares(NoCompare)

(* Someone writes a file of either tree meanwhile, or takes it away. *)
OtherEdits ==
    /\ cmp.at # "idle" /\ others < MaxTreeEdits /\ others' = others + 1
    /\ \E side \in Sides, n \in TreeNames, c \in TreeContents :
          /\ trees' = [trees EXCEPT ![side][n] = c]
          /\ cmp' = [cmp EXCEPT !.met = @ \union {n}]
    /\ UNCHANGED <<scene, panel, editing, deleting, arc>>

CompareStep ==
    \/ compare_trees \/ CompareCancelled \/ Walked("left", "right") \/ Walked("right", "sized")
    \/ Sized \/ LeftHashed \/ RightHashed \/ CompareClosed \/ OtherEdits
    \/ \E side \in Sides : HashOne(side)

-----------------------------------------------------------------------------
FilesInit ==
    /\ scene \in Scenes
    /\ conn = [s \in Sids |-> IF s = 1 \/ scene = "archive" THEN "open" ELSE "new"]
    /\ held = 1 /\ others = 0
    /\ opened = Missing /\ server = Original /\ watch = NoWatch /\ notice = "none" /\ saves = 0
    /\ there \in {Nodes, Nodes \ {"k"}} /\ rows = {} /\ del = NoDelete
    /\ arc = NoStream
    /\ cmp = NoCompare
    /\ trees \in [Sides -> [TreeNames -> TreeContents]]
    /\ scene # "compare" => trees = [side \in Sides |-> [n \in TreeNames |-> Absent]]

PanelStep == connect_sftp \/ disconnect_sftp \/ FoundDead \/ \E s \in Sids : Vanishes(s)

FilesNext ==
    \/ PanelStep \/ EditStep \/ StreamStep \/ CompareStep
    \/ ListRows \/ delete_remote \/ delete_local \/ DeleteStep \/ OtherChanges

FilesSpec == FilesInit /\ [][FilesNext]_fvars

-----------------------------------------------------------------------------
(* What the copy holds when the watcher has nothing to send is on the       *)
(* server, if no upload failed and nobody else wrote there: no save is      *)
(* passed over, one made during the upload of another included (edit.rs).   *)
SavedIsThere ==
    watch.at = "watching" /\ opened = watch.last /\ ~watch.failed /\ others = 0
        => server = opened

(* "What the watcher tells the panel after each upload it attempts": that a *)
(* file said to be uploaded is on the server, whole, is not so (edit.rs).   *)
UploadedIsTrue ==
    notice = "uploaded" /\ watch.at # "copying" => server \notin {Missing, Torn}

(* A delete takes away the row's own tree and nothing beside it, links in   *)
(* it and changes by others included (ops.rs, delete_remote).               *)
OnlyInside == del.root \notin Links => del.gone \subseteq Under(del.root)

(* "Symlinks are recorded as skipped rather than followed" (listing.rs):    *)
(* a link that is deleted leaves what it points at.                         *)
LinkTargetStays == del.root \in Links => del.gone \subseteq {del.root}

(* A directory with no link in it is deleted, if nobody interferes and the  *)
(* session stays: the leaves go before what they are in (ops.rs).           *)
DeleteGoesThrough ==
    del.at = "failed" /\ ~del.here =>
        del.met \/ conn[1] # "open" \/ \E n \in Links : n \in there /\ n \in Under(del.root)

(* A delete on a server does what was asked of it and nothing else.         *)
DeleteIsExact == OnlyInside /\ DeleteGoesThrough

(* "so it can still be seen and deleted" (listing.rs, of a broken link), a  *)
(* row of this side that is there can be deleted, is not so.                *)
SeenCanBeDeleted == del.at = "failed" /\ del.here => del.met

(* A stream said to be done has put the whole tree there, whatever went     *)
(* wrong at either end; but for an unpacking tar that was never heard of    *)
(* again, which counts as success (archive.rs, exec_failure).               *)
DoneIsUnpacked == arc.end = "done" => arc.got = Entries \/ arc.dst = "silent"

(* As many files as are said to be verified have arrived whole (verify.rs). *)
VerifiedHaveArrived == arc.end = "verified" => arc.count <= arc.got

(* A comparison that was not stopped tells the trees apart as they are, but *)
(* for what someone changed meanwhile; a server that fell silent makes      *)
(* files differ that do not, never the other way (verify.rs, compare_trees). *)
CompareIsTrue ==
    cmp.at = "over" /\ ~cmp.cancelled =>
        \A n \in TreeNames \ cmp.met :
            LET paired == trees["left"][n] # Absent /\ trees["right"][n] # Absent
                alike == paired /\ trees["left"][n] = trees["right"][n]
            IN /\ paired <=> n \in cmp.same \union cmp.differing
               /\ n \in cmp.same => alike
               /\ alike => n \in cmp.same \/ cmp.cut

(* What is said of a stream, of its files and of two trees is so.           *)
ReportsAreTrue == DoneIsUnpacked /\ VerifiedHaveArrived /\ CompareIsTrue
=============================================================================
