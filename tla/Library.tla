------------------------------ MODULE Library ------------------------------
(***************************************************************************)
(* The library of saved records: the document the backend keeps, the       *)
(* copies the window works on, and the commands between them, which run    *)
(* under one lock but in any order, and answer in any order. What a        *)
(* command makes of the document is in Records.                            *)
(***************************************************************************)
EXTENDS Records

CONSTANTS
    Starts,      \* documents to start from
    Foreign,     \* an export made on another machine
    Addrs,       \* where a new host may be
    Config, Aliases, OnDisk,      \* the ssh config, what is picked of it, the
                                  \* key files there are
    ClientSource, ClientFile,     \* another client's file
    Secrets,     \* whether an export takes them along: the choices tried
    Parts,       \* what of a file an import takes: the choices tried
    MaxCalls,    \* commands under way together: a bound of the model
    MaxEdits     \* commands the user gives in all: a bound of the model

(* The documents to start from were saved by this program, on this machine *)
(* or, exported, on another; and None is nothing's name.                   *)
ASSUME LibraryAssumption ==
    /\ \A d \in Starts : /\ IsDocument(d) /\ OneWay(d) /\ SealedUnder(d, "master")
                         /\ d.history \subseteq Ids(d.servers)
    /\ IsDocument(Foreign) /\ OneWay(Foreign)
    /\ \A k \in Range(Foreign.keys) \union UNION {Range(d.keys) : d \in Starts} : k.id # None
    /\ \A name \in OnDisk \union {"k"}, n \in 1..MaxEdits : Fresh(name, n) # None
    /\ \A a \in Range(Aliases), n \in 1..MaxEdits : \A d \in Starts \union {Foreign} :
          Fresh(a, n) \notin Ids(d.servers)
    /\ None \notin {"master", "export", "no secret is"} \union OnDisk
    /\ "config" \in DOMAIN Config
    /\ \A f \in DOMAIN Config : IsList(Config[f]) /\ \A l \in Range(Config[f]) : IsList(l.value)
    /\ IsList(Aliases) /\ IsList(ClientFile) /\ MaxEdits \in Nat /\ MaxDepth \in Nat

VARIABLES
    doc,      \* the document, as saved
    open,     \* the vault is open
    win,      \* the window's copies
    calls,    \* commands on their way, and their answers on the way back
    queued,   \* hosts whose commands wait to be written
    file,     \* the export at hand
    edits     \* how many commands were given

vars == <<doc, open, win, calls, queued, file, edits>>

Shown(d) ==
    [d EXCEPT !.servers = Mapped(@, redacted), !.identities = Mapped(@, redacted),
              !.keys = Mapped(@, LAMBDA k : [k EXCEPT !.held = IF @ = None THEN None ELSE Stored]),
              !.history = {}]

Init ==
    /\ doc \in Starts /\ win = Shown(doc) /\ open = TRUE
    /\ calls = {} /\ queued = {} /\ file = Foreign /\ edits = 0

(* What a command makes is numbered by it; ids from elsewhere have 0. *)
New(name) == Fresh(name, edits + 1)
Call(op) == [op |-> op, n |-> edits + 1, rec |-> None, list |-> None, ids |-> {},
             typed |-> FALSE, answered |-> FALSE]
Sends(c) == /\ open /\ edits < MaxEdits /\ Cardinality(calls) < MaxCalls
            /\ calls' = calls \union {c} /\ edits' = edits + 1
Becomes(c, next) == calls' = (calls \ {c}) \union {next}
Ends(c) == calls' = calls \ {c}

----------------------------------------------------------------------------
(* What the user does in the window.                                       *)

(* A host is offered as a jump host unless it is reached through this one. *)
JumpCandidates(s) ==
    {j.id : j \in {x \in Range(win.servers) :
        x.id # s.id /\ ChainOf(win, x) # None /\ s.id \notin Ids(ChainOf(win, x))}}

(* A form sends back the record it was opened with, one field changed.     *)
Changed(s) ==
    {[s EXCEPT !.key = k] : k \in Ids(win.keys) \union {None}}
      \union {[s EXCEPT !.jump = j] : j \in JumpCandidates(s)}
      \union {[s EXCEPT !.identity = i] : i \in Ids(win.identities)}
      \union {[s EXCEPT !.prompts = TRUE]}

SaveServer(s) ==
    /\ Sends([Call("save_server") EXCEPT !.rec = s, !.typed = TRUE])
    /\ UNCHANGED <<doc, open, win, queued, file>>

EditServer(s) ==
    /\ \E t \in Changed(s) : Sends([Call("save_server") EXCEPT !.rec = t])
    /\ UNCHANGED <<doc, open, win, queued, file>>

DeleteServers(ids) ==
    /\ Sends([Call("delete_servers") EXCEPT !.ids = ids])
    /\ UNCHANGED <<doc, open, win, queued, file>>

SaveIdentity(i, typed) ==
    /\ Sends([Call("save_identity") EXCEPT !.rec = i, !.typed = typed])
    /\ UNCHANGED <<doc, open, win, queued, file>>

DeleteIdentity(id) ==
    /\ Sends([Call("delete_identity") EXCEPT !.ids = {id}])
    /\ UNCHANGED <<doc, open, win, queued, file>>

SaveKey(k) ==
    /\ Sends([Call("save_key") EXCEPT !.rec = k])
    /\ UNCHANGED <<doc, open, win, queued, file>>

UpdateKey(id) ==
    /\ Sends([Call("update_key") EXCEPT !.ids = {id}])
    /\ UNCHANGED <<doc, open, win, queued, file>>

DeleteKey(id) ==
    /\ Sends([Call("delete_key") EXCEPT !.ids = {id}])
    /\ UNCHANGED <<doc, open, win, queued, file>>

(* Rules and bookmarks are saved as whole lists, the window's own, which   *)
(* it shows before they are saved.                                         *)
PutRules(list) ==
    /\ Sends([Call("save_port_forwardings") EXCEPT !.list = list])
    /\ win' = [win EXCEPT !.rules = list]
    /\ UNCHANGED <<doc, open, queued, file>>

SaveRule == \E h \in Ids(win.servers) :
    PutRules(Append(win.rules, PortForwarding(New("r"), "r", h)))
DeleteRule(id) == PutRules(Without(win.rules, {id}))

PutMarks(list) ==
    /\ Sends([Call("save_sftp_bookmarks") EXCEPT !.list = list])
    /\ win' = [win EXCEPT !.marks = list]
    /\ UNCHANGED <<doc, open, queued, file>>

AddBookmark(h) ==
    /\ ~\E b \in Range(win.marks) : b.server = h
    /\ PutMarks(Append(win.marks, [id |-> New("b"), server |-> h]))
DeleteBookmark(id) == PutMarks(Without(win.marks, {id}))

(* A command was run on a host; it is written some seconds later.          *)
QueueCommand(h) ==
    /\ edits < MaxEdits /\ edits' = edits + 1 /\ queued' = queued \union {h}
    /\ UNCHANGED <<doc, open, win, calls, file>>

FlushCommands ==
    /\ queued # {} /\ open
    /\ calls' = calls \union {[Call("record_commands") EXCEPT !.ids = {h}] : h \in queued}
    /\ queued' = {}
    /\ UNCHANGED <<doc, open, win, file, edits>>

ClearHistory ==
    /\ Sends(Call("clear_command_history"))
    /\ queued' = {}
    /\ UNCHANGED <<doc, open, win, file>>

Import(opts) ==
    /\ Sends([Call("import_data") EXCEPT !.ids = opts, !.rec = file])
    /\ UNCHANGED <<doc, open, win, queued, file>>
ImportSsh ==
    /\ Sends(Call("import_ssh_config_hosts"))
    /\ UNCHANGED <<doc, open, win, queued, file>>
ImportClient(typed) ==
    /\ Sends([Call("import_client_hosts") EXCEPT !.typed = typed])
    /\ UNCHANGED <<doc, open, win, queued, file>>

Export(secrets) ==
    /\ Sends([Call("export_data") EXCEPT !.typed = secrets])
    /\ UNCHANGED <<doc, open, win, queued, file>>

(* The window drops its copies, the bookmarks excepted, and reads them     *)
(* back once the vault is open.                                            *)
Lock ==
    /\ open /\ edits < MaxEdits /\ edits' = edits + 1
    /\ open' = FALSE /\ win' = [Empty EXCEPT !.marks = win.marks]
    /\ UNCHANGED <<doc, calls, queued, file>>

Unlock ==
    /\ ~open /\ open' = TRUE
    /\ calls' = calls \union {Call("load")}
    /\ UNCHANGED <<doc, win, queued, file, edits>>

UserGives ==
    \/ \E a \in Addrs : SaveServer(NewServer(New("h"), a, None, None))
    \/ \E s \in Range(win.servers) : \/ EditServer(s)
                                     \/ DeleteServers({s.id})
                                     \/ AddBookmark(s.id)
                                     \/ QueueCommand(s.id)
    \/ Len(win.servers) > 1 /\ DeleteServers(Ids(win.servers))
    \/ \E k \in Ids(win.keys) \union {None} :
          SaveIdentity(NewIdentity(New("i"), "i", k), k = None)
    \/ \E i \in Range(win.identities) : SaveIdentity([i EXCEPT !.prompts = TRUE], FALSE)
                                        \/ DeleteIdentity(i.id)
    \/ \E f \in OnDisk : SaveKey(KeyEntry(New("k"), f, f, None))
    \/ SaveKey(KeyEntry(New("k"), "k", None, "master"))
    \/ \E k \in Ids(win.keys) : UpdateKey(k) \/ DeleteKey(k)
    \/ SaveRule \/ \E r \in Ids(win.rules) : DeleteRule(r)
    \/ \E b \in Ids(win.marks) : DeleteBookmark(b)
    \/ ClearHistory
    \/ \E opts \in Parts : Import(opts)
    \/ ImportSsh \/ ImportClient(TRUE)
    \/ \E secrets \in Secrets : Export(secrets)
    \/ Lock

----------------------------------------------------------------------------
(* The commands, each under the document's lock from end to end. With the  *)
(* vault locked there is nothing to work on and no key to save with.       *)

Runs(c, op) == c.op = op /\ ~c.answered /\ open
Fails(c) == /\ ~c.answered /\ ~open /\ Ends(c)
            /\ UNCHANGED <<doc, open, win, queued, file, edits>>
Answers(c, reply) == Becomes(c, [c EXCEPT !.answered = TRUE, !.rec = reply])

save_server(c) ==
    LET s == ServerToSave(doc.servers, c.rec, c.typed) IN
    /\ Runs(c, "save_server")
    /\ doc' = [doc EXCEPT !.servers = upsert_by_id(@, s)]
    /\ Answers(c, redacted(s))
    /\ UNCHANGED <<open, win, queued, file, edits>>

delete_servers(c) ==
    /\ Runs(c, "delete_servers")
    /\ doc' = remove_servers(doc, c.ids)
    /\ Becomes(c, [c EXCEPT !.op = "list_servers"])
    /\ UNCHANGED <<open, win, queued, file, edits>>

list_servers(c) ==
    /\ Runs(c, "list_servers")
    /\ Answers(c, Shown(doc))
    /\ UNCHANGED <<doc, open, win, queued, file, edits>>

save_identity(c) ==
    LET i == IdentityToSave(doc.identities, c.rec, c.typed) IN
    /\ Runs(c, "save_identity")
    /\ doc' = [doc EXCEPT !.identities = upsert_by_id(@, i)]
    /\ Answers(c, redacted(i))
    /\ UNCHANGED <<open, win, queued, file, edits>>

delete_identity(c) ==
    /\ Runs(c, "delete_identity")
    /\ doc' = forget_references_to([doc EXCEPT !.identities = Without(@, c.ids)], c.ids)
    /\ Answers(c, None)
    /\ UNCHANGED <<open, win, queued, file, edits>>

save_key(c) ==
    /\ Runs(c, "save_key")
    /\ doc' = [doc EXCEPT !.keys = Append(@, c.rec)]
    /\ Answers(c, [c.rec EXCEPT !.held = IF @ = None THEN None ELSE Stored])
    /\ UNCHANGED <<open, win, queued, file, edits>>

(* A key kept by path is stored from here on.                              *)
update_key(c) ==
    /\ Runs(c, "update_key")
    /\ doc' = [doc EXCEPT !.keys = Mapped(@, LAMBDA k :
                  IF k.id \in c.ids THEN [k EXCEPT !.held = "master", !.path = None] ELSE k)]
    /\ IF c.ids \subseteq Ids(doc.keys)
       THEN Becomes(c, [c EXCEPT !.op = "list_keys"]) ELSE Ends(c)
    /\ UNCHANGED <<open, win, queued, file, edits>>

list_keys(c) ==
    /\ Runs(c, "list_keys")
    /\ Answers(c, Shown(doc))
    /\ UNCHANGED <<doc, open, win, queued, file, edits>>

delete_key(c) ==
    /\ Runs(c, "delete_key")
    /\ doc' = forget_references_to([doc EXCEPT !.keys = Without(@, c.ids)], c.ids)
    /\ Answers(c, None)
    /\ UNCHANGED <<open, win, queued, file, edits>>

save_port_forwardings(c) ==
    /\ Runs(c, "save_port_forwardings")
    /\ doc' = [doc EXCEPT !.rules = c.list]
    /\ Ends(c)
    /\ UNCHANGED <<open, win, queued, file, edits>>

save_sftp_bookmarks(c) ==
    /\ Runs(c, "save_sftp_bookmarks")
    /\ doc' = [doc EXCEPT !.marks = c.list]
    /\ Ends(c)
    /\ UNCHANGED <<open, win, queued, file, edits>>

record_commands(c) ==
    /\ Runs(c, "record_commands")
    /\ doc' = [doc EXCEPT !.history = @ \union (c.ids \intersect Ids(doc.servers))]
    /\ Ends(c)
    /\ UNCHANGED <<open, win, queued, file, edits>>

clear_command_history(c) ==
    /\ Runs(c, "clear_command_history")
    /\ doc' = [doc EXCEPT !.history = {}]
    /\ Ends(c)
    /\ UNCHANGED <<open, win, queued, file, edits>>

(* The window loads everything again after an import.                      *)
import_data(c) ==
    /\ Runs(c, "import_data")
    /\ doc' = apply_merge(c.rec, doc, c.ids)
    /\ Becomes(c, [c EXCEPT !.op = "load", !.rec = None])
    /\ UNCHANGED <<open, win, queued, file, edits>>

SshScan == scan_content(Config, "config")
SshImport(d, n) ==
    import_ssh_config_hosts(d, SshScan, Aliases, OnDisk, n)
import_ssh(c) ==
    /\ Runs(c, "import_ssh_config_hosts")
    /\ doc' = SshImport(doc, c.n)
    /\ Becomes(c, [c EXCEPT !.op = "load"])
    /\ UNCHANGED <<open, win, queued, file, edits>>

ClientScan == Hosts(ClientSource, ClientFile).hosts
ClientImport(d, typed, n) ==
    import_client_hosts(d, ClientScan, [k \in DOMAIN ClientScan |-> k], typed, n)
import_client(c) ==
    /\ Runs(c, "import_client_hosts")
    /\ doc' = ClientImport(doc, c.typed, c.n)
    /\ Becomes(c, [c EXCEPT !.op = "load"])
    /\ UNCHANGED <<open, win, queued, file, edits>>

export_data(c) ==
    /\ Runs(c, "export_data")
    /\ file' = build_export(doc, c.typed)
    /\ Ends(c)
    /\ UNCHANGED <<doc, open, win, queued, edits>>

loadAll(c) ==
    /\ Runs(c, "load")
    /\ Answers(c, Shown(doc))
    /\ UNCHANGED <<doc, open, win, queued, file, edits>>

----------------------------------------------------------------------------
(* What the window makes of an answer.                                     *)

(* Hosts that signed in with an identity that is gone. *)
SignedOff(servers, ids) ==
    Mapped(servers, LAMBDA s : IF s.identity \in ids THEN [s EXCEPT !.identity = None] ELSE s)

Received(c) ==
    /\ c.answered /\ Ends(c)
    /\ win' = CASE c.op = "save_server"     -> [win EXCEPT !.servers = upsert_by_id(@, c.rec)]
                [] c.op = "list_servers"    -> [win EXCEPT !.servers = c.rec.servers,
                                                           !.marks = Off(@, c.ids)]
                [] c.op = "save_identity"   -> [win EXCEPT !.identities = upsert_by_id(@, c.rec)]
                [] c.op = "delete_identity" -> [win EXCEPT !.identities = Without(@, c.ids),
                                                           !.servers = SignedOff(@, c.ids)]
                [] c.op = "save_key"        -> [win EXCEPT !.keys = Append(@, c.rec)]
                [] c.op = "list_keys"       -> [win EXCEPT !.keys = c.rec.keys]
                [] c.op = "delete_key"      -> [win EXCEPT !.keys = Without(@, c.ids)]
                [] c.op = "load"            -> c.rec
    /\ queued' = IF c.op = "list_servers" THEN queued \ c.ids ELSE queued
    /\ UNCHANGED <<doc, open, file, edits>>

Next ==
    \/ UserGives \/ Unlock \/ FlushCommands
    \/ \E c \in calls :
         \/ save_server(c) \/ delete_servers(c) \/ list_servers(c)
         \/ save_identity(c) \/ delete_identity(c)
         \/ save_key(c) \/ update_key(c) \/ list_keys(c) \/ delete_key(c)
         \/ save_port_forwardings(c) \/ save_sftp_bookmarks(c)
         \/ record_commands(c) \/ clear_command_history(c)
         \/ import_data(c) \/ import_ssh(c) \/ import_client(c) \/ export_data(c)
         \/ loadAll(c) \/ Fails(c) \/ Received(c)

Spec == Init /\ [][Next]_vars

----------------------------------------------------------------------------
(* History is kept of hosts there are, whatever was queued when one was    *)
(* deleted (records.rs, record_commands).                                  *)
HistoryHasHost == doc.history \subseteq Ids(doc.servers)

(* A secret that was stored opens with this machine's key, and none stays  *)
(* with a record that signs in another way (servers.rs, identities.rs,     *)
(* backup.rs, rekey).                                                      *)
NoSecretLingers == OneWay(doc) /\ SealedUnder(doc, "master")

Everything == {"servers", "identities", "keys", "rules"}
Imports(c) == c.op \in {"import_data", "import_ssh_config_hosts", "import_client_hosts"}
Imported == \E c \in calls : Imports(c) /\ c \notin calls' /\ open

(* "Import only ever adds. Anything already present wins" (backup.rs:10),  *)
(* whatever the file, the config or the other client says of it.           *)
ImportOnlyAdds ==
    [][Imported => /\ IsPrefix(doc.servers, doc'.servers)
                   /\ IsPrefix(doc.identities, doc'.identities)
                   /\ IsPrefix(doc.keys, doc'.keys)
                   /\ IsPrefix(doc.rules, doc'.rules)
                   /\ doc.marks = doc'.marks /\ doc.history = doc'.history]_vars

(* What an import adds points at records there are, or at none: "a         *)
(* reference that resolves to nothing is cleared" (backup.rs:558), and a   *)
(* host of the ssh config at hosts imported with it. The key of an added   *)
(* identity is not looked at.                                              *)
PointsHome(d, s) == /\ s.identity \in Ids(d.identities) \union {None}
                    /\ s.key \in Ids(d.keys) \union {None}
                    /\ s.jump \in Ids(d.servers) \union {None}
ImportLinksHome ==
    [][Imported => /\ \A n \in DOMAIN doc'.servers \ DOMAIN doc.servers :
                         PointsHome(doc', doc'.servers[n])
                   /\ \A n \in DOMAIN doc'.rules \ DOMAIN doc.rules :
                         doc'.rules[n].via \in Ids(doc'.servers) \union {None}]_vars

(* "Running the same file twice is a no-op" (backup.rs:11, and both other  *)
(* imports), on every document there may be, and the preview says so: all  *)
(* of the file is there.                                                   *)
ImportTwice ==
    /\ \A opts \in Parts : LET once == apply_merge(file, doc, opts) IN
                           apply_merge(file, once, opts) = once
    /\ plan_merge(file, apply_merge(file, doc, Everything)) =
          Len(file.servers) + Len(file.keys) + Len(file.identities) + Len(file.rules)
    /\ LET once == SshImport(doc, MaxEdits + 1) IN SshImport(once, MaxEdits + 2) = once
    /\ LET once == ClientImport(doc, TRUE, MaxEdits + 1) IN
       ClientImport(once, TRUE, MaxEdits + 2) = once

(* The records a merge cannot tell apart are one record after it.          *)
NoTwins ==
    \A kind \in {"servers", "keys", "identities"} : \A n, m \in DOMAIN doc[kind] :
        n # m => ~Same(kind, doc[kind][n], doc[kind][m])

(* Moved to another machine by an export with its secrets, every host that *)
(* could be signed in to is signed in to there, through the same hops and  *)
(* with the same credentials, as long as no two records are twins.         *)
RoundTrip ==
    LET there == apply_merge(build_export(doc, TRUE), Empty, Everything) IN
    NoTwins => \A s \in Range(doc.servers) :
                  SignsIn(doc, s) # None =>
                     /\ Present(there.servers, s.id)
                     /\ SignsIn(there, find_by_id(there.servers, s.id)) = SignsIn(doc, s)

(* What the document keeps is of use: history of hosts there are, secrets   *)
(* that open here.                                                          *)
RecordsHold == HistoryHasHost /\ NoSecretLingers

(* Exports and imports carry what there is over, once. Asked while nothing  *)
(* is under way: a document that is there while a command waits is there    *)
(* also if that command was never given.                                    *)
MovesWhole == calls = {} => ImportTwice /\ RoundTrip

(* Whatever is imported, what was here stays, and what comes finds its own. *)
ImportsAdd == ImportOnlyAdds /\ ImportLinksHome
=============================================================================
