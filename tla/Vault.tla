------------------------------- MODULE Vault -------------------------------
(***************************************************************************)
(* AppState of commands/mod.rs: the document in memory behind its async    *)
(* mutex, the key in its KeyCell, and data.json. A command that edits      *)
(* waits for the mutex, changes the document in memory and saves the whole *)
(* of it before it lets go; a lock empties the document and then the key,  *)
(* an unlock loads the document and then publishes the key. Commands run   *)
(* concurrently on the runtime and are told apart by their ids.            *)
(***************************************************************************)
EXTENDS FiniteSets, Naturals

CONSTANTS
    Commands,   \* commands that can be in flight at once
    Records,    \* what the document holds: hosts, keys, bookmarks, ...
    MaxFails,   \* bound: saves that fail on the disk
    Alone,      \* whether a lock runs with no other command in flight
    NoRecord

ASSUME VaultAssumption == /\ MaxFails \in Nat /\ Alone \in BOOLEAN
                          /\ NoRecord \notin Commands /\ NoRecord \notin Records

\* save_* and delete_* of one record; detect_server_os and the whole-list
\* saves that leave the records as they are ("touch"); import_data.
EditOps == {"save", "delete", "touch", "import"}
VaultOps == EditOps \cup {"lock", "unlock", "none"}

\* Where a command is. "wait": for the mutex. "hold": it has the mutex and has
\* changed the document. "key": a lock that has emptied the document. "load",
\* "assign", "publish": the steps of open_with_key.
Places == {"idle", "wait", "hold", "key", "load", "assign", "publish"}

NoCommand == [op |-> "none", rec |-> NoRecord, at |-> "idle", loaded |-> {}]

VARIABLES
    mem,      \* AppState::data
    key,      \* whether AppState::secret_key is set
    disk,     \* data.json
    holder,   \* the command that has the data mutex, or NoRecord
    cmd,      \* the commands in flight
    fails,
    acked,    \* history: records a save returned Ok for and no delete was asked of
    refused,  \* history: records whose edit failed and stayed in this document
    emptied   \* history: the document in memory is what a lock left

vvars == <<mem, key, disk, holder, cmd, fails, acked, refused, emptied>>

VaultInit == /\ mem = {} /\ key = FALSE /\ disk \in SUBSET Records
             /\ holder = NoRecord
             /\ cmd = [c \in Commands |-> NoCommand]
             /\ fails = 0 /\ acked = disk /\ refused = {} /\ emptied = TRUE

InFlight(op) == {c \in Commands : cmd[c].op = op}
NoCommands == \A c \in Commands : cmd[c].op = "none"

Starts(c, op, r, at) ==
    /\ cmd[c].op = "none"
    /\ Alone => InFlight("lock") = {}
    /\ cmd' = [cmd EXCEPT ![c] = [op |-> op, rec |-> r, at |-> at, loaded |-> {}]]

IsAt(c, place) == cmd[c].at = place
Goto(c, place) == cmd' = [cmd EXCEPT ![c].at = place]
Return(c) == cmd' = [cmd EXCEPT ![c] = NoCommand]

----------------------------------------------------------------------------
(* Commands that edit *)

BeginSave(c, r) == /\ Starts(c, "save", r, "wait")
                   /\ UNCHANGED <<mem, key, disk, holder, fails, acked, refused, emptied>>

\* From here the record may go, whatever becomes of this command.
BeginDelete(c, r) == /\ Starts(c, "delete", r, "wait")
                     /\ acked' = acked \ {r}
                     /\ UNCHANGED <<mem, key, disk, holder, fails, refused, emptied>>

\* detect_server_os reads the host under the mutex and with the key, lets go
\* for as long as the host takes to answer, and then writes the answer.
BeginTouch(c) == /\ key /\ holder = NoRecord
                 /\ Starts(c, "touch", NoRecord, "wait")
                 /\ UNCHANGED <<mem, key, disk, holder, fails, acked, refused, emptied>>

\* import_data takes the key before it waits for the mutex.
BeginImport(c, r) == /\ key
                     /\ Starts(c, "import", r, "wait")
                     /\ UNCHANGED <<mem, key, disk, holder, fails, acked, refused, emptied>>

Changed(command, doc) == CASE command.op = "delete" -> doc \ {command.rec}
                           [] command.op = "touch" -> doc
                           [] OTHER -> doc \cup {command.rec}

\* Mutant: the document is edited without the mutex being kept.
EnterUnheld(c) == /\ IsAt(c, "wait") /\ cmd[c].op \in EditOps
                  /\ mem' = Changed(cmd[c], mem)
                  /\ Goto(c, "hold") /\ UNCHANGED holder
                  /\ UNCHANGED <<key, disk, fails, acked, refused, emptied>>

\* The mutex is taken and the document in memory changed.
Enter(c) == /\ IsAt(c, "wait") /\ cmd[c].op \in EditOps
            /\ holder = NoRecord /\ holder' = c
            /\ mem' = Changed(cmd[c], mem)
            /\ Goto(c, "hold")
            /\ UNCHANGED <<key, disk, fails, acked, refused, emptied>>

HasKey(c) == key \/ cmd[c].op = "import"

Answer(c) == /\ holder' = NoRecord /\ Return(c)
             /\ UNCHANGED <<mem, key, emptied>>

\* AppState::save: the whole document is written with the key of this moment.
Store(c) ==
    /\ IsAt(c, "hold") /\ HasKey(c)
    /\ disk' = mem
    /\ acked' = IF /\ cmd[c].op \in {"save", "import"}
                   /\ \A d \in InFlight("delete") : cmd[d].rec # cmd[c].rec
                  THEN acked \cup {cmd[c].rec} ELSE acked
    /\ refused' = {}
    /\ Answer(c) /\ UNCHANGED fails

\* The vault is locked, or the disk refuses. The document in memory is left as
\* the command made it.
StoreFails(c) ==
    /\ IsAt(c, "hold")
    /\ \/ ~HasKey(c) /\ UNCHANGED fails
       \/ HasKey(c) /\ fails < MaxFails /\ fails' = fails + 1
    /\ refused' = refused \cup ({cmd[c].rec} \ {NoRecord})
    /\ Answer(c) /\ UNCHANGED <<disk, acked>>

----------------------------------------------------------------------------
(* close_vault and open_with_key *)

BeginLock(c) == /\ key
                /\ Alone => NoCommands
                /\ Starts(c, "lock", NoRecord, "wait")
                /\ UNCHANGED <<mem, key, disk, holder, fails, acked, refused, emptied>>

ClearData(c) == /\ IsAt(c, "wait") /\ cmd[c].op = "lock" /\ holder = NoRecord
                /\ mem' = {} /\ emptied' = TRUE
                /\ Goto(c, "key")
                /\ UNCHANGED <<key, disk, holder, fails, acked, refused>>

ClearKey(c) == /\ IsAt(c, "key")
               /\ key' = FALSE
               /\ Return(c)
               /\ UNCHANGED <<mem, disk, holder, fails, acked, refused, emptied>>

\* The one unlock screen asks for one thing at a time.
BeginUnlock(c) == /\ ~key /\ InFlight("unlock") = {}
                  /\ Starts(c, "unlock", NoRecord, "load")
                  /\ UNCHANGED <<mem, key, disk, holder, fails, acked, refused, emptied>>

\* Mutant: the key is published before the document is in memory.
LoadPublishes(c) == /\ IsAt(c, "load")
                    /\ cmd' = [cmd EXCEPT ![c].loaded = disk, ![c].at = "assign"]
                    /\ key' = TRUE
                    /\ UNCHANGED <<mem, disk, holder, fails, acked, refused, emptied>>

\* load_app_data, which takes no mutex.
Load(c) == /\ IsAt(c, "load")
           /\ cmd' = [cmd EXCEPT ![c].loaded = disk, ![c].at = "assign"]
           /\ UNCHANGED <<mem, key, disk, holder, fails, acked, refused, emptied>>

Assign(c) == /\ IsAt(c, "assign") /\ holder = NoRecord
             /\ mem' = cmd[c].loaded /\ emptied' = FALSE /\ refused' = {}
             /\ Goto(c, "publish")
             /\ UNCHANGED <<key, disk, holder, fails, acked>>

Publish(c) == /\ IsAt(c, "publish")
              /\ key' = TRUE
              /\ Return(c)
              /\ UNCHANGED <<mem, disk, holder, fails, acked, refused, emptied>>

EditStep(c) == \/ \E r \in Records : BeginSave(c, r) \/ BeginDelete(c, r) \/ BeginImport(c, r)
               \/ BeginTouch(c) \/ Enter(c) \/ Store(c) \/ StoreFails(c)

CloseStep(c) == BeginLock(c) \/ ClearData(c) \/ ClearKey(c)
OpenStep(c) == BeginUnlock(c) \/ Load(c) \/ Assign(c) \/ Publish(c)

VaultNext == \E c \in Commands : EditStep(c) \/ CloseStep(c) \/ OpenStep(c)

VaultSpec == VaultInit /\ [][VaultNext]_vvars

----------------------------------------------------------------------------
(* Properties *)

\* Everything a variable can hold.
VaultTypeOK == /\ mem \subseteq Records /\ disk \subseteq Records
               /\ acked \subseteq Records /\ refused \subseteq Records
               /\ key \in BOOLEAN /\ emptied \in BOOLEAN
               /\ holder \in Commands \cup {NoRecord} /\ fails \in 0..MaxFails
               /\ cmd \in [Commands -> [op : VaultOps, rec : Records \cup {NoRecord},
                                        at : Places, loaded : SUBSET Records]]
               /\ \A c \in Commands : cmd[c].op \in {"save", "delete", "import"}
                                        => cmd[c].rec \in Records

\* What a save returned Ok for is in data.json until a delete is asked for,
\* across locks, unlocks, failing saves and commands that began while locked.
AckedKept == acked \subseteq disk

\* A save changes on the disk only the record its command is about, or one of
\* an earlier command that failed and left the document in memory changed.
OneEditAtATime ==
    [][\A c \in Commands, r \in Records :
          IsAt(c, "hold") /\ cmd'[c] = NoCommand /\ (r \in disk') # (r \in disk)
             => r = cmd[c].rec \/ r \in refused]_vvars

\* "A command racing this sees either the real data with a key or nothing with
\* nothing, never empty data with a key it could save" (close_vault).
NeverEmptyWithKey == \A c \in Commands : IsAt(c, "hold") /\ HasKey(c) => ~emptied

============================================================================
