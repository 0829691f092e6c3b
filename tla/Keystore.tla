------------------------------ MODULE Keystore ------------------------------
(***************************************************************************)
(* keystore.rs and the vault commands over it: the ways in to the master   *)
(* key, kept in keystore.json and .secret. A wrapper is one field of       *)
(* keystore.json that one secret opens: the keyring's key, a passphrase, a *)
(* fingerprint, a PIN. The master key itself never changes.                *)
(*                                                                         *)
(* A command is a job: a sequence of steps, each one file operation or one *)
(* decision. A job works on a copy of keystore.json loaded earlier and     *)
(* saves that copy, so jobs of different screens can interleave; a call    *)
(* can fail and the process can die between any two steps. write_private   *)
(* truncates and then writes: between the two keystore.json does not parse.*)
(***************************************************************************)
EXTENDS Naturals, Sequences

CONSTANTS
    Phrases,    \* passphrases the user can choose
    Keks,       \* key encryption keys the keyring can answer with
    PinTries,   \* PIN_TRIES
    Platforms,  \* of "desktop", with a keyring, and "phone", with PIN and fingerprint
    MaxErrors,  \* bound: file operations that fail
    MaxCrashes, \* bound: times the process is killed
    Serial,     \* platforms where a command waits for those of other screens to end
    None, Absent, Torn, Locked, NoKeyring

ASSUME KeystoreAssumption ==
    /\ PinTries \in Nat \ {0}
    /\ Platforms \cup Serial \subseteq {"desktop", "phone"}
    /\ MaxErrors \in Nat /\ MaxCrashes \in Nat
    /\ None \notin Phrases \cup Keks /\ None \notin Nat
    /\ Locked \notin Keks \cup {None} /\ NoKeyring \notin Keks \cup {None, Locked}

\* struct KeyStore. "dated" marks a passphrase wrapped under an older, cheaper
\* Argon2 profile; the number beside a PIN is PinWrapper::failures.
Stores == [keyring : Keks \cup {None},
           pass    : Phrases \cup {None}, dated : BOOLEAN,
           ask     : BOOLEAN,
           bio     : BOOLEAN,
           pin     : Nat \cup {None}]

Blank == [keyring |-> None, pass |-> None, dated |-> FALSE, ask |-> FALSE,
          bio |-> FALSE, pin |-> None]

ASSUME SentinelsAssumption == Absent \notin Stores /\ Torn \notin Stores /\ Absent # Torn

\* The screens a command is started from. Each has one busy flag and runs one
\* at a time: start-up and unlock, "Master key", "Fingerprint and PIN".
Screens == {"boot", "master", "quick"}

Ops == {"none", "launch", "init", "unlock", "pin", "bio", "setpass", "setask",
        "clearpass", "setpin", "clearpin", "setbio", "clearbio"}

Steps == {"edit", "trunc", "write", "try_trunc", "try_write", "ring", "upgrade",
          "repair", "check", "sec_trunc", "sec_write", "sec_remove",
          "same_key", "pin_count", "pin_check", "bio_ask", "verify", "open"}

Idle == [op |-> "none", phrase |-> None, flag |-> FALSE, copy |-> Blank, todo |-> <<>>]

VARIABLES
    ks,       \* keystore.json
    secret,   \* .secret: "none", "torn", "whole"
    data,     \* whether data.json exists
    ring,     \* what the keyring answers: a key, Locked, or None; NoKeyring on a phone
    phase,    \* "off", "boot", "setup", "locked", "open", "fatal"
    job,      \* the command each screen is running
    errors, crashes,
    guesses,  \* history: wrong PINs tried on the PIN in force, counted to PinTries + 1
    midway    \* history: a lock came while a command was running

files == <<ks, secret, data>>
counts == <<errors, crashes>>
history == <<guesses, midway>>
vars == <<ks, secret, data, ring, phase, job, errors, crashes, guesses, midway>>

Readable == ks # Torn

Phone == ring = NoKeyring
Platform == IF Phone THEN "phone" ELSE "desktop"

\* load_keystore, when it parses.
Loaded == IF ks = Absent THEN Blank ELSE ks

\* The routes of unlock(), in its order.
RingOpens == Readable /\ Loaded.keyring # None /\ Loaded.keyring = ring
FileOpens == Readable /\ secret = "whole"
AsksPassphrase == Readable /\ Loaded.pass # None

IsFirstRun == /\ secret = "none" /\ ~data
              /\ Readable /\ Loaded.keyring = None /\ Loaded.pass = None

Init == /\ ks \in {Absent} \cup {[Blank EXCEPT !.pass = p, !.dated = TRUE] : p \in Phrases}
        /\ secret = "none"
        /\ data = (ks # Absent)
        /\ \/ "desktop" \in Platforms /\ ring \in Keks \cup {None}
           \/ "phone" \in Platforms /\ ring = NoKeyring
        /\ phase = "off"
        /\ job = [s \in Screens |-> Idle]
        /\ errors = 0 /\ crashes = 0 /\ guesses = 0 /\ midway = FALSE

----------------------------------------------------------------------------
(* Jobs *)

Busy(s) == job[s].todo # <<>>
AllIdle == \A s \in Screens : ~Busy(s)

At(s, step) == Busy(s) /\ Head(job[s].todo) = step

\* keystore.json is rewritten. An error ends the command, or, where the code
\* ignores it, only the rewriting.
Save == <<"trunc", "write">>
TrySave == <<"try_trunc", "try_write">>
SaveSecret == <<"sec_trunc", "sec_write">>

MayStart(s) == IF Platform \in Serial THEN AllIdle ELSE ~Busy(s)

Start(s, op, phrase, flag, todo) ==
    /\ MayStart(s)
    /\ job' = [job EXCEPT ![s] = [op |-> op, phrase |-> phrase, flag |-> flag,
                                  copy |-> Blank, todo |-> todo]]

\* The command goes on with this copy and these steps.
GoesOn(s, copy, rest) ==
    job' = [job EXCEPT ![s] = IF rest = <<>> THEN Idle
                              ELSE [@ EXCEPT !.copy = copy, !.todo = rest]]

\* The step is done and the job goes on with this copy; steps in more come
\* before what was left to do.
ThenWith(s, copy, more) == GoesOn(s, copy, more \o Tail(job[s].todo))

Then(s, more) == ThenWith(s, job[s].copy, more)

\* The command returns an error.
Abort(s) == job' = [job EXCEPT ![s] = Idle]

----------------------------------------------------------------------------
(* Files *)

\* std::fs open with truncate, then write_all and sync_all.
Truncate(s) == /\ \/ At(s, "trunc") \/ At(s, "try_trunc")
               /\ ks' = Torn /\ Then(s, <<>>)
               /\ UNCHANGED <<secret, data, ring, phase, counts, history>>

Write(s) == /\ \/ At(s, "write") \/ At(s, "try_write")
            /\ ks' = job[s].copy /\ Then(s, <<>>)
            /\ guesses' = IF At(s, "write") /\ job[s].op = "setpin" THEN 0 ELSE guesses
            /\ UNCHANGED <<secret, data, ring, phase, counts, midway>>

TruncateSecret(s) == /\ At(s, "sec_trunc")
                     /\ secret' = "torn" /\ Then(s, <<>>)
                     /\ UNCHANGED <<ks, data, ring, phase, counts, history>>

WriteSecret(s) == /\ At(s, "sec_write")
                  /\ secret' = "whole" /\ Then(s, <<>>)
                  /\ UNCHANGED <<ks, data, ring, phase, counts, history>>

RemoveSecret(s) == /\ At(s, "sec_remove")
                   /\ secret' = "none" /\ Then(s, <<>>)
                   /\ UNCHANGED <<ks, data, ring, phase, counts, history>>

\* The operation fails and leaves the file as it found it: after a truncate
\* that worked, torn.
FileError(s) ==
    /\ errors < MaxErrors /\ errors' = errors + 1
    /\ \/ /\ \E f \in {"trunc", "write", "sec_trunc", "sec_write", "sec_remove"} : At(s, f)
          /\ Abort(s)
       \/ /\ At(s, "try_trunc")
          /\ GoesOn(s, job[s].copy, Tail(Tail(job[s].todo)))
       \/ At(s, "try_write") /\ Then(s, <<>>)
    /\ UNCHANGED <<files, ring, phase, crashes, history>>

Quiet == UNCHANGED <<files, ring, phase, counts, history>>

----------------------------------------------------------------------------
(* Steps of the commands *)

\* What a command does to the keystore.json it loaded.
Edited(j, c) ==
    CASE j.op = "setpass" -> [c EXCEPT !.pass = j.phrase, !.dated = FALSE, !.ask = j.flag,
                                       !.keyring = IF j.flag THEN None ELSE @]
      [] j.op = "setask" -> [c EXCEPT !.ask = j.flag, !.keyring = None]
      [] j.op = "clearpass" -> [c EXCEPT !.pass = None, !.dated = FALSE, !.ask = FALSE,
                                         !.bio = FALSE, !.pin = None]
      [] j.op = "setpin" -> [c EXCEPT !.pin = 0]
      [] j.op = "clearpin" -> [c EXCEPT !.pin = None]
      [] j.op = "setbio" -> [c EXCEPT !.bio = TRUE]
      [] OTHER -> [c EXCEPT !.bio = FALSE]

NeedsPassphrase == {"setask", "setpin", "setbio"}

Edit(s) == /\ At(s, "edit")
           /\ IF Readable /\ (job[s].op \in NeedsPassphrase => Loaded.pass # None)
                THEN ThenWith(s, Edited(job[s], Loaded), Save)
                ELSE Abort(s)
           /\ Quiet

\* Mutant: the wrapper is refreshed although the passphrase is always asked for.
RingWrapAlways(s) ==
    /\ At(s, "ring")
    /\ IF Readable /\ ring \in Keks
         THEN ThenWith(s, [Loaded EXCEPT !.keyring = ring], TrySave)
         ELSE Then(s, <<>>)
    /\ Quiet

\* store_keyring_wrapper. set_passphrase leaves a wrapper that is there alone.
RingWrap(s) ==
    /\ At(s, "ring")
    /\ IF /\ Readable /\ ~Loaded.ask /\ ring \in Keks
          /\ job[s].op = "setpass" => job[s].copy.keyring = None
         THEN ThenWith(s, [Loaded EXCEPT !.keyring = ring], TrySave)
         ELSE Then(s, <<>>)
    /\ Quiet

\* unlock_with_passphrase: the passphrase opens its wrapper, which is rewrapped
\* when it is dated, and then the keyring's is looked at.
Check(s) == /\ At(s, "check")
            /\ IF Readable /\ Loaded.pass # None /\ Loaded.pass = job[s].phrase
                 THEN ThenWith(s, Loaded, IF Loaded.dated THEN <<"upgrade", "repair">>
                                                          ELSE <<"repair">>)
                 ELSE Abort(s)
            /\ Quiet

\* upgrade_passphrase_wrapper; an error is logged.
Upgrade(s) ==
    /\ At(s, "upgrade")
    /\ IF Readable
         THEN ThenWith(s, [Loaded EXCEPT !.pass = job[s].phrase, !.dated = FALSE], TrySave)
         ELSE Then(s, <<>>)
    /\ Quiet

\* should_repair_keyring: a keyring that answers and does not open the wrapper.
Repair(s) ==
    /\ At(s, "repair")
    /\ IF ~job[s].copy.ask /\ ring \in Keks /\ job[s].copy.keyring # ring
         THEN Then(s, <<"ring">>) ELSE Then(s, <<>>)
    /\ Quiet

\* check_passphrase compares with the key in memory, which a lock takes away.
SameKey(s) == /\ At(s, "same_key")
              /\ IF phase = "open" THEN Then(s, <<>>) ELSE Abort(s)
              /\ Quiet

\* Mutant: the failure is counted in memory and saved with the result.
PinCountLate(s) ==
    /\ At(s, "pin_count")
    /\ IF Readable /\ Loaded.pin # None
         THEN ThenWith(s, [Loaded EXCEPT !.pin = @ + 1], <<>>)
         ELSE Abort(s)
    /\ Quiet

\* unlock_with_pin: the failure is on the disk before the PIN is checked.
PinCount(s) ==
    /\ At(s, "pin_count")
    /\ IF Readable /\ Loaded.pin # None
         THEN ThenWith(s, [Loaded EXCEPT !.pin = @ + 1], Save)
         ELSE Abort(s)
    /\ Quiet

\* flag: whether the PIN typed is the right one. The copy saved here is the one
\* loaded before the count.
PinCheck(s) ==
    /\ At(s, "pin_check")
    /\ \/ /\ job[s].flag
          /\ ThenWith(s, [job[s].copy EXCEPT !.pin = 0], Save \o <<"open">>)
          /\ guesses' = 0
       \/ /\ ~job[s].flag
          /\ IF job[s].copy.pin >= PinTries
               THEN ThenWith(s, [job[s].copy EXCEPT !.pin = None], Save)
               ELSE Then(s, <<>>)
          /\ guesses' = IF guesses > PinTries THEN guesses ELSE guesses + 1
    /\ UNCHANGED <<files, ring, phase, counts, midway>>

\* The fingerprint prompt is answered or cancelled; unlocking may also find
\* the hardware key destroyed, which clears the wrapper.
BiometricAsk(s) == /\ At(s, "bio_ask")
                   /\ \/ Then(s, <<>>)
                      \/ Abort(s)
                      \/ /\ job[s].op = "bio"
                         /\ GoesOn(s, job[s].copy, <<"edit">>)
                   /\ Quiet

\* initialize reads back what it wrote before it hands out the key.
Verify(s) == /\ At(s, "verify")
             /\ IF RingOpens \/ FileOpens \/ AsksPassphrase
                  THEN Then(s, <<>>) ELSE Abort(s)
             /\ Quiet

\* The key is published.
Open(s) == /\ At(s, "open") /\ Then(s, <<>>)
           /\ phase' = "open"
           /\ UNCHANGED <<files, ring, counts, history>>

Step(s) == \/ Truncate(s) \/ Write(s) \/ TruncateSecret(s) \/ WriteSecret(s)
           \/ RemoveSecret(s) \/ FileError(s) \/ Edit(s) \/ RingWrap(s)
           \/ Check(s) \/ Upgrade(s) \/ Repair(s) \/ SameKey(s) \/ PinCount(s)
           \/ PinCheck(s) \/ BiometricAsk(s) \/ Verify(s) \/ Open(s)

----------------------------------------------------------------------------
(* Commands *)

\* open_profile: the routes that ask nothing, then the screen that fits.
Launch ==
    /\ phase = "off"
    /\ \/ /\ IsFirstRun /\ phase' = "setup" /\ UNCHANGED job
       \/ /\ ~IsFirstRun /\ (RingOpens \/ FileOpens)
          /\ phase' = "boot" /\ Start("boot", "launch", None, FALSE, <<"ring", "open">>)
       \/ /\ ~IsFirstRun /\ ~RingOpens /\ ~FileOpens
          /\ phase' = IF AsksPassphrase THEN "locked" ELSE "fatal"
          /\ UNCHANGED job
    /\ UNCHANGED <<files, ring, counts, history>>

\* initialize, for each InitMode.
Initialize(mode, p) ==
    /\ phase = "setup" /\ IsFirstRun /\ ~Busy("boot")
    /\ mode = "keyring" => ring \in Keks
    /\ job' = [job EXCEPT !["boot"] =
                 [op |-> "init", phrase |-> p, flag |-> FALSE,
                  copy |-> [Blank EXCEPT !.keyring = IF mode = "keyring" THEN ring ELSE None,
                                         !.pass = IF mode = "file" THEN None ELSE p,
                                         !.ask = (mode = "passphrase")],
                  todo |-> Save \o (IF mode = "file" THEN SaveSecret ELSE <<"check">>)
                                \o <<"verify", "open">>]]
    /\ Quiet

Unlock(p) == /\ phase = "locked"
             /\ Start("boot", "unlock", p, FALSE, <<"check", "open">>) /\ Quiet

UnlockPin(right) == /\ phase = "locked" /\ Readable /\ Loaded.pin # None
                    /\ Start("boot", "pin", None, right, <<"pin_count", "pin_check">>)
                    /\ Quiet

UnlockBiometric == /\ phase = "locked" /\ Readable /\ Loaded.bio
                   /\ Start("boot", "bio", None, FALSE, <<"bio_ask", "open">>) /\ Quiet

\* Mutant: .secret is left where it is.
SetPassphraseKeepsFile(p, always) ==
    /\ phase = "open" /\ Readable /\ Loaded.pass = None
    /\ Start("master", "setpass", p, always,
             <<"edit">> \o (IF always THEN <<>> ELSE <<"ring">>))
    /\ Quiet

\* Offered while no passphrase is set.
SetPassphrase(p, always) ==
    /\ phase = "open" /\ Readable /\ Loaded.pass = None
    /\ Start("master", "setpass", p, always,
             <<"edit">> \o (IF always THEN <<>> ELSE <<"ring">>) \o <<"sec_remove">>)
    /\ Quiet

SetAlwaysAsk(always) ==
    /\ phase = "open" /\ AsksPassphrase
    /\ Start("master", "setask", None, always,
             <<"edit">> \o (IF always THEN <<>> ELSE <<"ring">>))
    /\ Quiet

\* Mutant: the wrapper is dropped before the key is back in .secret.
ClearPassphraseFirst(p) ==
    /\ phase = "open" /\ AsksPassphrase
    /\ Start("master", "clearpass", p, FALSE,
             <<"check", "same_key", "edit">> \o SaveSecret \o <<"ring">>)
    /\ Quiet

ClearPassphrase(p) ==
    /\ phase = "open" /\ AsksPassphrase
    /\ Start("master", "clearpass", p, FALSE,
             <<"check", "same_key">> \o SaveSecret \o <<"edit", "ring">>)
    /\ Quiet

SetPin(p) == /\ phase = "open" /\ AsksPassphrase
             /\ Start("quick", "setpin", p, FALSE, <<"check", "same_key", "edit">>) /\ Quiet

ClearPin == /\ phase = "open" /\ Readable /\ Loaded.pin # None
            /\ Start("quick", "clearpin", None, FALSE, <<"edit">>) /\ Quiet

SetBiometric(p) ==
    /\ phase = "open" /\ AsksPassphrase
    /\ Start("quick", "setbio", p, FALSE, <<"check", "same_key", "bio_ask", "edit">>)
    /\ Quiet

ClearBiometric == /\ phase = "open" /\ Readable /\ Loaded.bio
                  /\ Start("quick", "clearbio", None, FALSE, <<"edit">>) /\ Quiet

\* close_vault, refused while no passphrase is set.
Lock == /\ phase = "open" /\ AsksPassphrase
        /\ Platform \in Serial => AllIdle
        /\ phase' = "locked"
        /\ midway' = (midway \/ ~AllIdle)
        /\ UNCHANGED <<files, ring, job, counts, guesses>>

\* Any command that changes the document writes data.json.
SaveData == /\ phase = "open" /\ ~data /\ data' = TRUE
            /\ UNCHANGED <<ks, secret, ring, phase, job, counts, history>>

----------------------------------------------------------------------------
(* What the app does not decide *)

\* The keyring is locked, unlocked, reset or gone.
RingChanges == /\ ~Phone /\ ring' \in (Keks \cup {Locked, None}) \ {ring}
               /\ UNCHANGED <<files, phase, job, counts, history>>

Quit == /\ phase # "off" /\ AllIdle /\ phase' = "off"
        /\ UNCHANGED <<files, ring, job, counts, history>>

Crash == /\ phase # "off" /\ crashes < MaxCrashes
         /\ crashes' = crashes + 1
         /\ phase' = "off" /\ job' = [s \in Screens |-> Idle]
         /\ UNCHANGED <<files, ring, errors, history>>

InitModes == IF Phone THEN {"file", "passphrase"} ELSE {"file", "passphrase", "keyring"}

BootScreen == \/ \E mode \in InitModes, p \in Phrases : Initialize(mode, p)
              \/ \E p \in Phrases : Unlock(p)
              \/ \E right \in BOOLEAN : UnlockPin(right)
              \/ UnlockBiometric

MasterSection == \/ \E p \in Phrases :
                       \/ \E always \in IF Phone THEN {FALSE} ELSE BOOLEAN :
                             SetPassphrase(p, always)
                       \/ ClearPassphrase(p)
                 \/ ~Phone /\ \E always \in BOOLEAN : SetAlwaysAsk(always)

QuickSection == /\ Phone
                /\ \/ \E p \in Phrases : SetPin(p) \/ SetBiometric(p)
                   \/ ClearPin \/ ClearBiometric

Next == \/ Launch \/ BootScreen \/ MasterSection \/ QuickSection
        \/ Lock \/ SaveData
        \/ \E s \in Screens : Step(s)
        \/ RingChanges \/ Quit \/ Crash

Spec == Init /\ [][Next]_vars

----------------------------------------------------------------------------
(* Properties *)

Jobs == [op : Ops, phrase : Phrases \cup {None}, flag : BOOLEAN, copy : Stores,
         todo : Seq(Steps)]

\* Everything a variable can hold.
TypeOK == /\ ks \in Stores \cup {Absent, Torn}
          /\ secret \in {"none", "torn", "whole"}
          /\ data \in BOOLEAN /\ midway \in BOOLEAN
          /\ ring \in Keks \cup {Locked, None, NoKeyring}
          /\ phase \in {"off", "boot", "setup", "locked", "open", "fatal"}
          /\ job \in [Screens -> Jobs]
          /\ errors \in 0..MaxErrors /\ crashes \in 0..MaxCrashes
          /\ guesses \in 0..PinTries + 1

\* "Nothing can lock the owner out" (set_passphrase): a keystore that parses
\* can be opened without the keyring, by a passphrase that is set or from
\* .secret, wherever a command was interrupted.
ReadableOpens ==
    Readable /\ data => Loaded.pass # None \/ secret = "whole"

\* When nothing fails and nothing is killed, no order of commands, locks,
\* launches and keyring changes ends in a keystore the app cannot open.
NeverFatal == errors = 0 /\ crashes = 0 => phase # "fatal"

\* Fingerprint and PIN are only ever there beside a passphrase.
QuickBesidePassphrase ==
    Readable /\ (Loaded.bio \/ Loaded.pin # None) => Loaded.pass # None

\* No command, whole or cut short, takes away the last way in.
NeverLockedOut == ReadableOpens /\ NeverFatal /\ QuickBesidePassphrase

\* While the passphrase is always asked for there is a passphrase and no
\* keyring wrapper: nothing that refreshes or repairs the wrapper, at a launch,
\* after an unlock or next to another command, puts one back.
AskDropsRing == Readable /\ Loaded.ask => Loaded.keyring = None /\ Loaded.pass # None

\* Stopping the app partway gets no free guess (unlock_with_pin): the disk has
\* counted at least the wrong PINs that were tried.
GuessesCounted == Readable /\ Loaded.pin # None => guesses <= Loaded.pin

\* With always_ask "the passphrase is demanded at every launch" (KeystoreStatus):
\* no order of whole commands, with the keyring coming and going between their
\* steps, leaves a launch that opens by itself.
AskIsAsked ==
    [][phase = "off" /\ phase' = "boot" /\ ~midway /\ errors = 0 /\ crashes = 0
         => ~Loaded.ask]_vars

============================================================================
