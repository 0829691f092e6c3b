------------------------------ MODULE DataFile ------------------------------
(***************************************************************************)
(* store.rs: how the one document of the app, data.json, is saved, backed  *)
(* up, loaded and recovered. One action per system call that changes a     *)
(* file, so that the process can die, the power can go and a call can fail *)
(* between any two of them.                                                *)
(*                                                                         *)
(* A file holds one of the documents, Garbage (empty, half written or      *)
(* damaged: read_file refuses it) or nothing (Absent). "file" is what a    *)
(* process reads back, "after" the set of contents a file may turn out to  *)
(* have once the power has gone: a write that was not flushed may or may   *)
(* not be there.                                                           *)
(***************************************************************************)
EXTENDS Integers

CONSTANTS
    Docs,        \* the documents the app can hold
    Default,     \* AppData::default(), the document of a first run
    Absent,      \* no such file
    Garbage,     \* a file read_file refuses
    MaxErrors,   \* bound: system calls that fail
    MaxDamage,   \* bound: times something outside the app damages data.json
    MaxCuts      \* bound: times the power goes

ASSUME DocsAssumption ==
    /\ Default \in Docs
    /\ Absent \notin Docs /\ Garbage \notin Docs /\ Absent # Garbage

ASSUME BoundsAssumption ==
    MaxErrors \in Nat /\ MaxDamage \in Nat /\ MaxCuts \in Nat

Files == {"data", "bak", "tmp", "corrupt"}
Content == Docs \cup {Absent, Garbage}

\* Where the one thread that loads and saves is.
Loading == {"rec_rename", "rec_copy", "rec_copying"}
Saving == {"create", "write", "sync", "backup", "copying", "rename", "flush"}
PC == {"down", "refused", "idle"} \cup Loading \cup Saving

VARIABLES
    file,     \* contents of each file as a process reads them
    after,    \* contents each file may have after a power cut
    pc,       \* the step that runs next
    mem,      \* AppData in memory, Absent while the vault is shut
    errors,   \* system calls that failed so far
    damages,  \* times data.json was damaged from outside so far
    cuts,     \* power cuts so far
    acked,    \* history: the document of the last save that returned Ok
    cut,      \* history: documents of saves begun since, which did not
    flushed   \* history: no flush of the directory was refused

disk == <<file, after>>
history == <<acked, cut, flushed>>
vars == <<file, after, pc, mem, errors, damages, cuts, acked, cut, flushed>>

Init == /\ file = [f \in Files |-> Absent]
        /\ after = [f \in Files |-> {Absent}]
        /\ pc = "down" /\ mem = Absent
        /\ errors = 0 /\ damages = 0 /\ cuts = 0
        /\ acked = Absent /\ cut = {} /\ flushed = TRUE

----------------------------------------------------------------------------
(* File system *)

\* A write that is not flushed: readable at once, there after a power cut or
\* not.
Put(f, c) == /\ file' = [file EXCEPT ![f] = c]
             /\ after' = [after EXCEPT ![f] = @ \cup {c}]

\* fs::rename(from, to). Which of the two names the contents are under after a
\* power cut is open until the directory is flushed.
Move(from, to) ==
    /\ file' = [file EXCEPT ![to] = file[from], ![from] = Absent]
    /\ after' = [after EXCEPT ![to] = @ \cup after[from],
                              ![from] = @ \cup {Absent}]

Goto(step) == pc' = step

\* The call that runs next fails, and the caller carries on at step.
Fails(step) == /\ errors < MaxErrors
               /\ errors' = errors + 1
               /\ Goto(step)
               /\ UNCHANGED <<file, after, mem, damages, cuts, history>>

Quiet == UNCHANGED <<mem, errors, damages, cuts, history>>

----------------------------------------------------------------------------
(* load_app_data_in *)

\* No file at all is a first run.
LoadFirstRun == /\ pc = "down" /\ file["data"] = Absent
                /\ mem' = Default /\ Goto("idle")
                /\ UNCHANGED <<disk, errors, damages, cuts, history>>

LoadWhole == /\ pc = "down" /\ file["data"] \in Docs
             /\ mem' = file["data"] /\ Goto("idle")
             /\ UNCHANGED <<disk, errors, damages, cuts, history>>

\* Unreadable and no readable backup: the load is an error, the vault stays
\* shut.
LoadRefused == /\ pc = "down" /\ file["data"] = Garbage /\ file["bak"] \notin Docs
               /\ Goto("refused")
               /\ UNCHANGED <<disk, mem, errors, damages, cuts, history>>

\* Mutant: recovery leaves the unreadable file where it is.
LoadRecoverInPlace ==
    /\ pc = "down" /\ file["data"] = Garbage /\ file["bak"] \in Docs
    /\ mem' = file["bak"] /\ Goto("idle")
    /\ UNCHANGED <<disk, errors, damages, cuts, history>>

\* Unreadable, and the backup is not.
LoadRecover == /\ pc = "down" /\ file["data"] = Garbage /\ file["bak"] \in Docs
               /\ mem' = file["bak"] /\ Goto("rec_rename")
               /\ UNCHANGED <<disk, errors, damages, cuts, history>>

\* let _ = fs::rename(data.json, data.json.corrupt)
SetAside == /\ pc = "rec_rename"
            /\ \/ Move("data", "corrupt") /\ Goto("rec_copy") /\ Quiet
               \/ Fails("rec_copy")

\* fs::copy(data.json.bak, data.json), which opens with truncate and then
\* writes; a failure is logged and the load goes on.
RestoreOpen == /\ pc = "rec_copy"
               /\ \/ Put("data", Garbage) /\ Goto("rec_copying") /\ Quiet
                  \/ Fails("idle")

RestoreWrite == /\ pc = "rec_copying"
                /\ \/ Put("data", file["bak"]) /\ Goto("idle") /\ Quiet
                   \/ Fails("idle")

----------------------------------------------------------------------------
(* save_app_data_in *)

SaveBegin(d) == /\ pc = "idle"
                /\ mem' = d /\ cut' = cut \cup {d} /\ Goto("create")
                /\ UNCHANGED <<disk, errors, damages, cuts, acked, flushed>>

CreateTemp == /\ pc = "create"
              /\ \/ Put("tmp", Garbage) /\ Goto("write") /\ Quiet
                 \/ Fails("idle")

WriteTemp == /\ pc = "write"
             /\ \/ Put("tmp", mem) /\ Goto("sync") /\ Quiet
                \/ Fails("idle")

SyncTemp == /\ pc = "sync"
            /\ \/ /\ after' = [after EXCEPT !["tmp"] = {mem}]
                  /\ Goto("backup") /\ Quiet /\ UNCHANGED file
               \/ Fails("idle")

\* if path.exists() { fs::copy(data.json, data.json.bak) }, best effort.
BackupOpen == /\ pc = "backup"
              /\ \/ /\ file["data"] = Absent
                    /\ Goto("rename") /\ Quiet /\ UNCHANGED disk
                 \/ /\ file["data"] # Absent
                    /\ Put("bak", Garbage) /\ Goto("copying") /\ Quiet
                 \/ /\ file["data"] # Absent
                    /\ Fails("rename")

BackupWrite == /\ pc = "copying"
               /\ \/ Put("bak", file["data"]) /\ Goto("rename") /\ Quiet
                  \/ Fails("rename")

\* Mutant: a rename that fails is not reported.
RenameErrorIgnored ==
    /\ pc = "rename"
    /\ \/ Move("tmp", "data") /\ Goto("flush") /\ Quiet
       \/ Fails("flush")

Rename == /\ pc = "rename"
          /\ \/ Move("tmp", "data") /\ Goto("flush") /\ Quiet
             \/ Fails("idle")

\* Mutant: the rename is not flushed.
FlushDirSkipped ==
    /\ pc = "flush" /\ Goto("idle")
    /\ acked' = mem /\ cut' = {}
    /\ UNCHANGED <<disk, mem, errors, damages, cuts, flushed>>

\* The directory is flushed, or refuses, and the save returns Ok either way.
\* Once flushed, data.json is the file that was flushed as data.json.tmp.
FlushDir ==
    /\ pc = "flush"
    /\ Goto("idle")
    /\ acked' = mem /\ cut' = {}
    /\ \/ /\ after' = [after EXCEPT !["data"] = after["tmp"] \ {Absent},
                                    !["tmp"] = {Absent}]
          /\ UNCHANGED <<errors, flushed>>
       \/ /\ errors < MaxErrors
          /\ errors' = errors + 1 /\ flushed' = FALSE
          /\ UNCHANGED after
    /\ UNCHANGED <<file, mem, damages, cuts>>

----------------------------------------------------------------------------
(* What interrupts them *)

\* The vault is locked or the app quits between two operations, or the process
\* is killed in the middle of one. What was written stays written.
Stop == /\ pc # "down"
        /\ Goto("down") /\ mem' = Absent
        /\ UNCHANGED <<disk, errors, damages, cuts, history>>

\* Power goes: every file is left with one of the contents it may have.
PowerCut == /\ cuts < MaxCuts /\ cuts' = cuts + 1
            /\ file' \in {g \in [Files -> Content] :
                             \A f \in Files : g[f] \in after[f]}
            /\ after' = [f \in Files |-> {file'[f]}]
            /\ Goto("down") /\ mem' = Absent
            /\ UNCHANGED <<errors, damages, history>>

\* Something other than this app damages data.json while the app is not using
\* it. The backup is one deep: it is an answer to this one fault and not to a
\* fault in itself, so it is whole when this happens.
Damage == /\ damages < MaxDamage
          /\ pc = "down" /\ file["data"] \in Docs
          /\ file["bak"] \in Docs
          /\ damages' = damages + 1
          /\ file' = [file EXCEPT !["data"] = Garbage]
          /\ after' = [after EXCEPT !["data"] = {Garbage}]
          /\ UNCHANGED <<pc, mem, errors, cuts, history>>

Load == LoadFirstRun \/ LoadWhole \/ LoadRefused \/ LoadRecover
          \/ SetAside \/ RestoreOpen \/ RestoreWrite
Save == (\E d \in Docs : SaveBegin(d))
          \/ CreateTemp \/ WriteTemp \/ SyncTemp
          \/ BackupOpen \/ BackupWrite \/ Rename \/ FlushDir

Next == Load \/ Save \/ Stop \/ PowerCut \/ Damage

Spec == Init /\ [][Next]_vars

----------------------------------------------------------------------------
(* Properties *)

\* Everything a variable can hold.
TypeOK == /\ file \in [Files -> Content]
          /\ after \in [Files -> SUBSET Content]
          /\ pc \in PC /\ mem \in Docs \cup {Absent}
          /\ errors \in 0..MaxErrors /\ damages \in 0..MaxDamage /\ cuts \in 0..MaxCuts
          /\ acked \in Docs \cup {Absent} /\ cut \subseteq Docs
          /\ flushed \in BOOLEAN

\* data.json is always one whole version or the other: no save that is cut
\* short, by a failing call, a dead process or a power cut, leaves it half
\* written, and once something was saved it is never missing (save_app_data_in).
DataIsWhole ==
    damages = 0 => /\ after["data"] \subseteq Docs \cup {Absent}
                   /\ acked # Absent /\ flushed => Absent \notin after["data"]

\* What a save reported as done is what every later start finds, unless a
\* later save was begun: then it may be that save's document, and nothing
\* older or else. Holds from the moment save_app_data_in returns.
AckedSurvives ==
    damages = 0 /\ flushed => after["data"] \subseteq {acked} \cup cut

\* One damaged data.json is never the end of the data: until something is
\* saved again the backup that was read stays readable, whatever the recovery
\* and the save after it are in the middle of when the process dies. (A call
\* that fails or a power cut in between may take the backup too.)
OneCopyWhole ==
    errors = 0 /\ cuts = 0 /\ acked # Absent => \E f \in {"data", "bak"} : file[f] \in Docs

\* "restore the backup in its place so a crash before the next save does not
\* come back to an empty app" (load_app_data_in): whenever the vault is shut
\* and something was saved, the next load does not take this for a first run.
NoEmptyComeback ==
    pc = "down" /\ acked # Absent => file["data"] # Absent

----------------------------------------------------------------------------
(* The register this implements, as long as nothing outside damages the    *)
(* file: the rename is the step that changes the document.                 *)

Register == INSTANCE DocRegister
              WITH None <- Absent, cur <- file["data"], may <- after["data"],
                   held <- mem, busy <- (pc \in Saving), harmed <- (damages > 0)

ImplementsRegister == Register!RSpec

============================================================================
