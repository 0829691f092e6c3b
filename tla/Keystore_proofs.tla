--------------------------- MODULE Keystore_proofs ---------------------------
(***************************************************************************)
(* What is proved about Vault, and about Keystore for every set of         *)
(* passphrases and keyring keys, any PIN_TRIES and any number of failures  *)
(* and crashes.                                                            *)
(***************************************************************************)
EXTENDS Keystore, Vault, SequenceTheorems, TLAPS

----------------------------------------------------------------------------
(* Vault, for any number of commands and records and any number of failing *)
(* saves. Type correctness needs nothing. The rest is proved for locks     *)
(* that run alone, which is what the code takes for granted and does not   *)
(* enforce: VaultWhole, the inductive invariant, says that while a key is  *)
(* set the document in memory is the one on the disk but for the edits     *)
(* that are not saved yet or were refused.                                 *)

LEMMA VaultStarts == VaultInit => VaultTypeOK
<1> USE VaultAssumption DEF VaultAssumption, NoCommand, EditOps, VaultOps, Places
<1> SUFFICES ASSUME VaultInit PROVE VaultTypeOK
  OBVIOUS
<1>1. cmd \in [Commands -> [op : VaultOps, rec : Records \cup {NoRecord},
                           at : Places, loaded : SUBSET Records]]
  BY DEF VaultInit
<1>2. \A c \in Commands : cmd[c].op = "none"
  BY DEF VaultInit
<1>3. key \in BOOLEAN /\ emptied \in BOOLEAN
  BY DEF VaultInit
<1>4. holder \in Commands \cup {NoRecord} /\ fails \in 0..MaxFails
  BY DEF VaultInit
<1> QED BY <1>1, <1>2, <1>3, <1>4 DEF VaultInit, VaultTypeOK

\* Everything a variable can hold (commands/mod.rs AppState), for any instance.
THEOREM VaultTypes == VaultSpec => []VaultTypeOK
<1> USE VaultAssumption DEF VaultAssumption, NoCommand, EditOps, VaultOps, Places
<1>1. VaultTypeOK /\ [VaultNext]_vvars => VaultTypeOK'
  <2> SUFFICES ASSUME VaultTypeOK, [VaultNext]_vvars PROVE VaultTypeOK'
    OBVIOUS
  <2> USE DEF VaultTypeOK
  <2>1. CASE UNCHANGED vvars
    BY <2>1 DEF vvars
  <2>2. ASSUME NEW c \in Commands, EditStep(c) PROVE VaultTypeOK'
    <3>1. ASSUME NEW r \in Records, BeginSave(c, r) PROVE VaultTypeOK'
      BY <3>1 DEF BeginSave, Starts
    <3>2. ASSUME NEW r \in Records, BeginDelete(c, r) PROVE VaultTypeOK'
      BY <3>2 DEF BeginDelete, Starts
    <3>3. ASSUME NEW r \in Records, BeginImport(c, r) PROVE VaultTypeOK'
      BY <3>3 DEF BeginImport, Starts
    <3>4. CASE BeginTouch(c)
      BY <3>4 DEF BeginTouch, Starts
    <3>5. CASE Enter(c)
      BY <3>5 DEF Enter, Changed, Goto, IsAt
    <3>6. CASE Store(c)
      BY <3>6 DEF Store, Answer, Return, IsAt
    <3>7. CASE StoreFails(c)
      BY <3>7 DEF StoreFails, Answer, Return, IsAt
    <3> QED BY <2>2, <3>1, <3>2, <3>3, <3>4, <3>5, <3>6, <3>7 DEF EditStep
  <2>3. ASSUME NEW c \in Commands, CloseStep(c) PROVE VaultTypeOK'
    <3>1. CASE BeginLock(c)
      BY <3>1 DEF BeginLock, Starts
    <3>2. CASE ClearData(c)
      BY <3>2 DEF ClearData, Goto, IsAt
    <3>3. CASE ClearKey(c)
      BY <3>3 DEF ClearKey, Return, IsAt
    <3> QED BY <2>3, <3>1, <3>2, <3>3 DEF CloseStep
  <2>4. ASSUME NEW c \in Commands, OpenStep(c) PROVE VaultTypeOK'
    <3>1. CASE BeginUnlock(c)
      BY <3>1 DEF BeginUnlock, Starts
    <3>2. CASE Load(c)
      BY <3>2 DEF Load, IsAt
    <3>3. CASE Assign(c)
      BY <3>3 DEF Assign, Goto, IsAt
    <3>4. CASE Publish(c)
      BY <3>4 DEF Publish, Return, IsAt
    <3> QED BY <2>4, <3>1, <3>2, <3>3, <3>4 DEF OpenStep
  <2> QED BY <2>1, <2>2, <2>3, <2>4 DEF VaultNext
<1> QED BY VaultStarts, <1>1, PTL DEF VaultSpec

-----------------------------------------------------------------------------
(* The inductive invariant *)

\* Where a command of each kind can be.
Shape ==
    \A c \in Commands :
       /\ cmd[c].op = "none" <=> cmd[c].at = "idle"
       /\ cmd[c].op \in EditOps => cmd[c].at \in {"wait", "hold"}
       /\ cmd[c].op = "lock" => cmd[c].at \in {"wait", "key"}
       /\ cmd[c].op = "unlock" => cmd[c].at \in {"load", "assign", "publish"}
       /\ cmd[c].at = "hold" <=> holder = c

\* A lock and an import run with the key set, an unlock without it; nothing is
\* in flight beside a lock, and one unlock at most.
LocksApart ==
    \A c, d \in Commands :
       /\ cmd[c].op \in {"lock", "import"} => key
       /\ cmd[c].op = "unlock" => ~key
       /\ cmd[c].op = "lock" /\ cmd[d].op # "none" => c = d
       /\ cmd[c].op = "unlock" /\ cmd[d].op = "unlock" => c = d

\* What is owed to the user is not about to be deleted.
Owed == \A c \in Commands : cmd[c].op = "delete" => cmd[c].rec \notin acked

\* What a command saves is in the document it changed.
Saved == \A c \in Commands : cmd[c].at = "hold" /\ cmd[c].op \in {"save", "import"}
                                => cmd[c].rec \in mem

\* The document in memory is in use: the key is set and no lock has emptied
\* it, or an unlock has just put it there.
Live == \/ key /\ \A c \in Commands : cmd[c].at # "key"
        \/ \E c \in Commands : cmd[c].at = "publish"

\* Where memory and disk differ there is an edit to save or a refused one.
Agree == \A r \in Records : (r \in mem) # (r \in disk)
                              => \/ r \in refused
                                 \/ holder # NoRecord /\ r = cmd[holder].rec

\* Disk and memory hold what is owed, and an unlock holds what the disk does.
OwedIsHeld ==
    /\ acked \subseteq disk
    /\ Live => acked \subseteq mem /\ Agree
    /\ \A c \in Commands : cmd[c].at = "assign" => cmd[c].loaded = disk

Control == Shape /\ LocksApart /\ Owed /\ Saved

VaultWhole == VaultTypeOK /\ Control /\ OwedIsHeld

LEMMA WholeInit == VaultInit => VaultWhole
<1> USE VaultAssumption DEF VaultAssumption, NoCommand, EditOps, VaultOps, Places
<1> SUFFICES ASSUME VaultInit PROVE VaultWhole
  OBVIOUS
<1>1. \A c \in Commands : cmd[c] = NoCommand
  BY DEF VaultInit
<1>2. VaultTypeOK
  BY VaultStarts
<1>3. Control
  BY <1>1 DEF VaultInit, Control, Shape, LocksApart, Owed, Saved
<1>4. OwedIsHeld
  BY <1>1 DEF VaultInit, OwedIsHeld, Live, Agree
<1> QED BY <1>2, <1>3, <1>4 DEF VaultWhole

LEMMA EditKeepsWhole ==
  ASSUME Alone, VaultWhole, VaultTypeOK', NEW c \in Commands, EditStep(c)
  PROVE  VaultWhole'
<1> USE VaultAssumption DEF VaultAssumption, NoCommand, EditOps, VaultOps, Places
<1> USE DEF VaultWhole, VaultTypeOK
<1>1. ASSUME NEW r \in Records, BeginSave(c, r) PROVE VaultWhole'
  <2>1. Control'
    BY <1>1 DEF BeginSave, Starts, InFlight, Control, Shape, LocksApart, Owed, Saved
  <2>2. OwedIsHeld'
    BY <1>1 DEF BeginSave, Starts, InFlight, Control, Shape, LocksApart, Owed, Saved,
           OwedIsHeld, Live, Agree
  <2> QED BY <2>1, <2>2
<1>2. ASSUME NEW r \in Records, BeginDelete(c, r) PROVE VaultWhole'
  <2>1. Control'
    BY <1>2 DEF BeginDelete, Starts, InFlight, Control, Shape, LocksApart, Owed, Saved
  <2>2. OwedIsHeld'
    BY <1>2 DEF BeginDelete, Starts, InFlight, Control, Shape, LocksApart, Owed, Saved,
           OwedIsHeld, Live, Agree
  <2> QED BY <2>1, <2>2
<1>3. ASSUME NEW r \in Records, BeginImport(c, r) PROVE VaultWhole'
  <2>1. Control'
    BY <1>3 DEF BeginImport, Starts, InFlight, Control, Shape, LocksApart, Owed, Saved
  <2>2. OwedIsHeld'
    BY <1>3 DEF BeginImport, Starts, InFlight, Control, Shape, LocksApart, Owed, Saved,
           OwedIsHeld, Live, Agree
  <2> QED BY <2>1, <2>2
<1>4. CASE BeginTouch(c)
  <2>1. Control'
    BY <1>4 DEF BeginTouch, Starts, InFlight, Control, Shape, LocksApart, Owed, Saved
  <2>2. OwedIsHeld'
    BY <1>4 DEF BeginTouch, Starts, InFlight, Control, Shape, LocksApart, Owed, Saved,
           OwedIsHeld, Live, Agree
  <2> QED BY <2>1, <2>2
<1>5. CASE Enter(c)
  <2>1. Control'
    BY <1>5 DEF Enter, Changed, Goto, IsAt, Control, Shape, LocksApart, Owed, Saved
  <2>2. /\ holder = NoRecord /\ holder' = c /\ disk' = disk /\ refused' = refused
        /\ acked' = acked /\ cmd'[c].rec = cmd[c].rec /\ c # NoRecord
        /\ mem' = Changed(cmd[c], mem)
    BY <1>5 DEF Enter, Goto, IsAt
  <2>3. Live' => Live
    BY <1>5 DEF Enter, Goto, IsAt, Live
  <2>4. Live => acked \subseteq mem' /\ Agree'
    <3> SUFFICES ASSUME Live PROVE acked \subseteq mem' /\ Agree'
      OBVIOUS
    <3>1. acked \subseteq mem /\ Agree
      BY DEF OwedIsHeld
    <3>2. \A r \in Records : r # cmd[c].rec => (r \in mem' <=> r \in mem)
      BY <2>2 DEF Changed
    <3>3. acked \subseteq mem'
      BY <1>5, <2>2, <3>1 DEF Enter, Changed, Control, Owed
    <3> QED BY <2>2, <3>1, <3>2, <3>3 DEF Agree
  <2>5. \A d \in Commands : cmd'[d].at = "assign" => cmd'[d].loaded = disk'
    BY <1>5 DEF Enter, Goto, IsAt, OwedIsHeld
  <2> QED BY <2>1, <2>2, <2>3, <2>4, <2>5 DEF OwedIsHeld
<1>6. CASE Store(c)
  <2>1. Control'
    BY <1>6 DEF Store, Answer, Return, IsAt, HasKey, InFlight, Control, Shape, LocksApart,
           Owed, Saved
  <2>2. /\ key /\ holder = c /\ disk' = mem /\ mem' = mem /\ key' = key
        /\ acked' \subseteq acked \cup {cmd[c].rec}
        /\ acked' # acked => cmd[c].op \in {"save", "import"}
    BY <1>6 DEF Store, Answer, HasKey, IsAt, Control, Shape, LocksApart
  <2>3. \A d \in Commands : cmd[d].at # "key" /\ cmd[d].at # "assign"
    BY <1>6, <2>2 DEF Store, IsAt, Control, Shape, LocksApart
  <2>4. acked \subseteq mem /\ Agree
    BY <2>2, <2>3 DEF OwedIsHeld, Live
  <2>5. cmd[c].op \in {"save", "import"} => cmd[c].rec \in mem
    BY <1>6, <2>2 DEF Store, IsAt, Control, Saved
  <2>6. acked' \subseteq mem
    BY <2>2, <2>4, <2>5
  <2>7. Agree'
    BY <2>2 DEF Agree
  <2>8. \A d \in Commands : cmd'[d].at # "assign"
    BY <1>6, <2>3 DEF Store, Answer, Return, IsAt
  <2> QED BY <2>1, <2>2, <2>6, <2>7, <2>8 DEF OwedIsHeld
<1>7. CASE StoreFails(c)
  <2>1. Control'
    BY <1>7 DEF StoreFails, Answer, Return, IsAt, Control, Shape, LocksApart, Owed, Saved
  <2>2. OwedIsHeld'
    BY <1>7 DEF StoreFails, Answer, Return, IsAt, Control, Shape, LocksApart, Owed, Saved,
           OwedIsHeld,
                Live, Agree
  <2> QED BY <2>1, <2>2
<1> QED BY <1>1, <1>2, <1>3, <1>4, <1>5, <1>6, <1>7 DEF EditStep

LEMMA CloseKeepsWhole ==
  ASSUME Alone, VaultWhole, VaultTypeOK', NEW c \in Commands, CloseStep(c)
  PROVE  VaultWhole'
<1> USE VaultAssumption DEF VaultAssumption, NoCommand, EditOps, VaultOps, Places
<1> USE DEF VaultWhole, VaultTypeOK
<1>1. CASE BeginLock(c)
  <2>1. Control'
    BY <1>1 DEF BeginLock, Starts, NoCommands, InFlight, Control, Shape, LocksApart, Owed, Saved
  <2>2. OwedIsHeld'
    BY <1>1 DEF BeginLock, Starts, NoCommands, InFlight, Control, Shape, LocksApart, Owed, Saved,
                OwedIsHeld, Live, Agree
  <2> QED BY <2>1, <2>2
<1>2. CASE ClearData(c)
  <2>1. Control'
    BY <1>2 DEF ClearData, Goto, IsAt, Control, Shape, LocksApart, Owed, Saved
  <2>2. OwedIsHeld'
    BY <1>2 DEF ClearData, Goto, IsAt, Control, Shape, LocksApart, Owed, Saved, OwedIsHeld,
           Live, Agree
  <2> QED BY <2>1, <2>2
<1>3. CASE ClearKey(c)
  <2>1. Control'
    BY <1>3 DEF ClearKey, Return, IsAt, Control, Shape, LocksApart, Owed, Saved
  <2>2. OwedIsHeld'
    BY <1>3 DEF ClearKey, Return, IsAt, Control, Shape, LocksApart, Owed, Saved, OwedIsHeld,
           Live, Agree
  <2> QED BY <2>1, <2>2
<1> QED BY <1>1, <1>2, <1>3 DEF CloseStep

LEMMA OpenKeepsWhole ==
  ASSUME VaultWhole, VaultTypeOK', NEW c \in Commands, OpenStep(c)
  PROVE  VaultWhole'
<1> USE VaultAssumption DEF VaultAssumption, NoCommand, EditOps, VaultOps, Places
<1> USE DEF VaultWhole, VaultTypeOK
<1>1. CASE BeginUnlock(c)
  <2>1. Control'
    BY <1>1 DEF BeginUnlock, Starts, InFlight, Control, Shape, LocksApart, Owed, Saved
  <2>2. OwedIsHeld'
    BY <1>1 DEF BeginUnlock, Starts, InFlight, Control, Shape, LocksApart, Owed, Saved,
           OwedIsHeld, Live, Agree
  <2> QED BY <2>1, <2>2
<1>2. CASE Load(c)
  <2>1. Control'
    BY <1>2 DEF Load, IsAt, Control, Shape, LocksApart, Owed, Saved
  <2>2. OwedIsHeld'
    BY <1>2 DEF Load, IsAt, Control, Shape, LocksApart, Owed, Saved, OwedIsHeld, Live, Agree
  <2> QED BY <2>1, <2>2
<1>3. CASE Assign(c)
  <2>1. Control'
    BY <1>3 DEF Assign, Goto, IsAt, Control, Shape, LocksApart, Owed, Saved
  <2>2. OwedIsHeld'
    BY <1>3 DEF Assign, Goto, IsAt, Control, Shape, LocksApart, Owed, Saved, OwedIsHeld, Live, Agree
  <2> QED BY <2>1, <2>2
<1>4. CASE Publish(c)
  <2>1. Control'
    BY <1>4 DEF Publish, Return, IsAt, Control, Shape, LocksApart, Owed, Saved
  <2>2. OwedIsHeld'
    BY <1>4 DEF Publish, Return, IsAt, Control, Shape, LocksApart, Owed, Saved, OwedIsHeld,
           Live, Agree
  <2> QED BY <2>1, <2>2
<1> QED BY <1>1, <1>2, <1>3, <1>4 DEF OpenStep

LEMMA WholeStep == Alone /\ VaultWhole /\ VaultTypeOK' /\ [VaultNext]_vvars => VaultWhole'
<1> USE VaultAssumption DEF VaultAssumption, NoCommand, EditOps, VaultOps, Places
<1> SUFFICES ASSUME Alone, VaultWhole, VaultTypeOK', [VaultNext]_vvars PROVE VaultWhole'
  OBVIOUS
<1>1. CASE UNCHANGED vvars
  BY <1>1 DEF vvars, VaultWhole, VaultTypeOK, Control, Shape, LocksApart, Owed, Saved,
         OwedIsHeld, Live, Agree
<1>2. CASE VaultNext
  BY <1>2, EditKeepsWhole, CloseKeepsWhole, OpenKeepsWhole DEF VaultNext
<1> QED BY <1>1, <1>2

THEOREM WholeHolds == Alone => (VaultSpec => []VaultWhole)
<1> USE VaultAssumption DEF VaultAssumption, NoCommand, EditOps, VaultOps, Places
<1> SUFFICES ASSUME Alone PROVE VaultSpec => []VaultWhole
  OBVIOUS
<1>1. VaultWhole /\ VaultTypeOK' /\ [VaultNext]_vvars => VaultWhole'
  BY WholeStep
<1> QED BY <1>1, VaultTypes, WholeInit, PTL DEF VaultSpec

\* What a save returned Ok for stays in data.json (AppState::save), for any
\* number of commands, when locks run alone.
THEOREM AckedStays == Alone => (VaultSpec => []AckedKept)
<1> USE VaultAssumption DEF VaultAssumption, NoCommand, EditOps, VaultOps, Places
<1> SUFFICES ASSUME Alone PROVE VaultSpec => []AckedKept
  OBVIOUS
<1>1. VaultWhole => AckedKept
  BY DEF VaultWhole, OwedIsHeld, AckedKept
<1> QED BY <1>1, WholeHolds, PTL

\* A save writes its own command's record and refused ones and no other.
THEOREM OneEdit == Alone => (VaultSpec => OneEditAtATime)
<1> USE VaultAssumption DEF VaultAssumption, NoCommand, EditOps, VaultOps, Places
<1> SUFFICES ASSUME Alone PROVE VaultSpec => OneEditAtATime
  OBVIOUS
<1>1. VaultWhole /\ [VaultNext]_vvars => [\A c \in Commands, r \in Records :
          IsAt(c, "hold") /\ cmd'[c] = NoCommand /\ (r \in disk') # (r \in disk)
             => r = cmd[c].rec \/ r \in refused]_vvars
  <2> SUFFICES ASSUME VaultWhole, VaultNext, NEW c \in Commands, NEW r \in Records,
                      IsAt(c, "hold"), (r \in disk') # (r \in disk)
               PROVE  r = cmd[c].rec \/ r \in refused
    BY DEF IsAt
  <2>1. PICK d \in Commands : Store(d)
    BY DEF VaultNext, EditStep, CloseStep, OpenStep, BeginSave, BeginDelete, BeginTouch,
           BeginImport,
           Enter, StoreFails, BeginLock, ClearData, ClearKey, BeginUnlock, Load,
           Assign, Publish
  <2>2. holder = c /\ holder = d /\ d = c
    BY <2>1 DEF VaultWhole, Control, Shape, Store, IsAt
  <2>3. key
    BY <2>1 DEF Store, HasKey, VaultWhole, Control, LocksApart
  <2>4. \A e \in Commands : cmd[e].at # "key"
    BY <2>1, <2>2 DEF Store, VaultWhole, VaultTypeOK, Control, Shape, LocksApart, IsAt
  <2>5. Agree
    BY <2>3, <2>4 DEF VaultWhole, OwedIsHeld, Live
  <2> QED BY <2>1, <2>2, <2>5 DEF Agree, Store
<1> QED BY <1>1, WholeHolds, PTL DEF VaultSpec, OneEditAtATime

----------------------------------------------------------------------------
(* Keystore                                                                *)

\* On a phone a command waits for those of the other screens. Nothing in the
\* code enforces it; without it ReadableOpens is false (see Lock).
PhoneWaits == "phone" \in Serial

----------------------------------------------------------------------------
(* The steps a command may have left *)

\* A sequence of steps that is not empty: its first and what comes after.
Cons(step, rest) == <<step>> \o rest

\* A step h with the steps r after it stands in a rewriting of keystore.json,
\* or in a larger part of a command, that the steps in rest follow.
InSave(h, r, rest) == \/ h = "trunc" /\ r = Cons("write", rest)
                      \/ h = "write" /\ r = rest
InTry(h, r, rest) == \/ h = "try_trunc" /\ r = Cons("try_write", rest)
                     \/ h = "try_write" /\ r = rest
InRing(h, r, rest) == \/ h = "ring" /\ r = rest
                      \/ InTry(h, r, rest)
InEdit(h, r, rest) == \/ h = "edit" /\ r = rest
                      \/ InSave(h, r, rest)
InCheck(h, r, rest) == \/ h \in {"check", "repair"} /\ r = rest
                       \/ h = "upgrade" /\ r = Cons("repair", rest)
                       \/ InTry(h, r, Cons("repair", rest))
                       \/ InRing(h, r, rest)

E == <<>>
O == Cons("open", E)
V == Cons("verify", O)
CV == Cons("check", V)
FileWrite == Cons("sec_write", V)
FileTrunc == Cons("sec_trunc", FileWrite)
Drop == Cons("sec_remove", E)
RD == Cons("ring", Drop)
R == Cons("ring", E)
Q == Cons("edit", E)
QK == Cons("same_key", Q)
B == Cons("bio_ask", Q)
BK == Cons("same_key", B)
ER == Cons("edit", R)
CW == Cons("sec_write", ER)
CT == Cons("sec_trunc", CW)
CK == Cons("same_key", CT)
P == Cons("pin_check", E)

\* clear_passphrase before and after the key is back in .secret.
ClearEarly(h, r) == \/ InCheck(h, r, CK)
                    \/ h = "same_key" /\ r = CT
                    \/ h = "sec_trunc" /\ r = CW
                    \/ h = "sec_write" /\ r = ER
ClearLate(h, r) == InEdit(h, r, R) \/ InRing(h, r, E)

\* Where a command of this kind may stand.
PlanAt(op, h, r) ==
    \/ op = "launch" /\ (InRing(h, r, O) \/ (h = "open" /\ r = E))
    \/ op = "unlock" /\ (InCheck(h, r, O) \/ (h = "open" /\ r = E))
    \/ op = "init" /\ \/ InSave(h, r, FileTrunc)
                      \/ h = "sec_trunc" /\ r = FileWrite
                      \/ h = "sec_write" /\ r = V
                      \/ InSave(h, r, CV) \/ InCheck(h, r, V)
                      \/ h = "verify" /\ r = O
                      \/ h = "open" /\ r = E
    \/ op = "pin" /\ \/ h = "pin_count" /\ r = P
                     \/ h \in {"pin_check", "open"} /\ r = E
                     \/ InSave(h, r, P) \/ InSave(h, r, O) \/ InSave(h, r, E)
    \/ op = "bio" /\ \/ h = "bio_ask" /\ r = O
                     \/ h = "open" /\ r = E
                     \/ InEdit(h, r, E)
    \/ op = "setpass" /\ \/ InEdit(h, r, RD) \/ InEdit(h, r, Drop)
                         \/ InRing(h, r, Drop)
                         \/ h = "sec_remove" /\ r = E
    \/ op = "setask" /\ (InEdit(h, r, R) \/ InEdit(h, r, E) \/ InRing(h, r, E))
    \/ op = "clearpass" /\ (ClearEarly(h, r) \/ ClearLate(h, r))
    \/ op = "setpin" /\ \/ InCheck(h, r, QK) \/ InEdit(h, r, E)
                        \/ h = "same_key" /\ r = Q
    \/ op = "setbio" /\ \/ InCheck(h, r, BK) \/ InEdit(h, r, E)
                        \/ h = "same_key" /\ r = B
                        \/ h = "bio_ask" /\ r = Q
    \/ op \in {"clearpin", "clearbio"} /\ InEdit(h, r, E)

\* The same of a sequence of steps.
OnPlan(op, t) == t = E \/ PlanAt(op, Head(t), Tail(t))

LEMMA StepsAre ==
  Steps = {"edit", "trunc", "write", "try_trunc", "try_write", "ring", "upgrade",
           "repair", "check", "sec_trunc", "sec_write", "sec_remove",
           "same_key", "pin_count", "pin_check", "bio_ask", "verify", "open"}
BY DEF Steps

LEMMA ConsFacts ==
  \A step \in Steps, t \in Seq(Steps) :
     /\ Cons(step, t) \in Seq(Steps) /\ Cons(step, t) # E
     /\ Head(Cons(step, t)) = step /\ Tail(Cons(step, t)) = t
<1> SUFFICES ASSUME NEW step \in Steps, NEW t \in Seq(Steps)
             PROVE  /\ Cons(step, t) \in Seq(Steps) /\ Cons(step, t) # E
                    /\ Head(Cons(step, t)) = step /\ Tail(Cons(step, t)) = t
  OBVIOUS
<1>1. <<step>> \in Seq(Steps) /\ Len(<<step>>) = 1 /\ <<step>>[1] = step
  OBVIOUS
<1> QED BY <1>1 DEF Cons, E

LEMMA ConsIs ==
  ASSUME NEW x, NEW step \in Steps, NEW t \in Seq(Steps), x = Cons(step, t)
  PROVE  x \in Seq(Steps) /\ x # E /\ Head(x) = step /\ Tail(x) = t
BY ConsFacts, Zenon

LEMMA Sequels ==
  /\ \A t \in Seq(Steps) : <<>> \o t = t
  /\ \A a \in Steps : <<a>> = Cons(a, E)
  /\ \A a, b \in Steps, t \in Seq(Steps) : <<a, b>> \o t = Cons(a, Cons(b, t))
  /\ \A a, b \in Steps : <<a, b>> = Cons(a, Cons(b, E))
<1>1. ASSUME NEW t \in Seq(Steps) PROVE <<>> \o t = t
  OBVIOUS
<1>2. ASSUME NEW a \in Steps PROVE <<a>> = <<a>> \o <<>>
  OBVIOUS
<1>3. ASSUME NEW a \in Steps, NEW b \in Steps
      PROVE  <<a, b>> = <<a>> \o <<b>>
  <2> DEFINE x == <<a, b>>
             y == <<a>> \o <<b>>
  <2>1. x \in Seq(Steps) /\ Len(x) = 2 /\ x[1] = a /\ x[2] = b
    OBVIOUS
  <2>2. <<a>> \in Seq(Steps) /\ Len(<<a>>) = 1 /\ <<a>>[1] = a
    OBVIOUS
  <2>3. <<b>> \in Seq(Steps) /\ Len(<<b>>) = 1 /\ <<b>>[1] = b
    OBVIOUS
  <2>4. y \in Seq(Steps) /\ Len(y) = 2
    BY <2>2, <2>3, ConcatProperties
  <2>5. y[1] = a /\ y[2] = b
    BY <2>2, <2>3
  <2> HIDE DEF x, y
  <2>6. \A i \in 1 .. Len(x) : x[i] = y[i]
    BY <2>1, <2>5
  <2>7. Len(x) = Len(y)
    BY <2>1, <2>4
  <2>8. x = y
    BY <2>1, <2>4, <2>6, <2>7, SeqEqual
  <2> QED BY <2>8 DEF x, y
<1>4. ASSUME NEW a \in Steps, NEW b \in Steps, NEW t \in Seq(Steps)
      PROVE  <<a, b>> \o t = <<a>> \o (<<b>> \o t)
  <2>1. <<a>> \in Seq(Steps) /\ <<b>> \in Seq(Steps)
    OBVIOUS
  <2> QED BY <2>1, <1>3, ConcatAssociative
<1>5. ASSUME NEW a \in Steps, NEW b \in Steps
      PROVE  <<a, b>> = <<a>> \o (<<b>> \o <<>>)
  BY <1>2, <1>3
<1> QED BY <1>1, <1>2, <1>4, <1>5 DEF Cons, E

LEMMA Triple ==
  ASSUME NEW a \in Steps, NEW b \in Steps, NEW c \in Steps
  PROVE  <<a, b, c>> = Cons(a, <<b, c>>)
<1> DEFINE x == <<a, b, c>>
           y == <<a>> \o <<b, c>>
<1>1. x \in Seq(Steps) /\ Len(x) = 3 /\ x[1] = a /\ x[2] = b /\ x[3] = c
  OBVIOUS
<1>2. <<a>> \in Seq(Steps) /\ Len(<<a>>) = 1 /\ <<a>>[1] = a
  OBVIOUS
<1>3. <<b, c>> \in Seq(Steps) /\ Len(<<b, c>>) = 2 /\ <<b, c>>[1] = b /\ <<b, c>>[2] = c
  OBVIOUS
<1>4. y \in Seq(Steps) /\ Len(y) = 3
  BY <1>2, <1>3, ConcatProperties
<1>5. y[1] = a /\ y[2] = b /\ y[3] = c
  BY <1>2, <1>3
<1> HIDE DEF x, y
<1>6. \A i \in 1 .. Len(x) : x[i] = y[i]
  BY <1>1, <1>5
<1>7. Len(x) = Len(y)
  BY <1>1, <1>4
<1>8. x = y
  BY <1>1, <1>4, <1>6, <1>7, SeqEqual
<1> QED BY <1>8 DEF x, y, Cons

LEMMA Quadruple ==
  ASSUME NEW a \in Steps, NEW b \in Steps, NEW c \in Steps, NEW d \in Steps
  PROVE  <<a, b, c, d>> = Cons(a, <<b, c, d>>)
<1> DEFINE x == <<a, b, c, d>>
           y == <<a>> \o <<b, c, d>>
<1>1. x \in Seq(Steps) /\ Len(x) = 4 /\ x[1] = a /\ x[2] = b /\ x[3] = c /\ x[4] = d
  OBVIOUS
<1>2. <<a>> \in Seq(Steps) /\ Len(<<a>>) = 1 /\ <<a>>[1] = a
  OBVIOUS
<1>3. <<b, c, d>> \in Seq(Steps) /\ Len(<<b, c, d>>) = 3
      /\ <<b, c, d>>[1] = b /\ <<b, c, d>>[2] = c /\ <<b, c, d>>[3] = d
  OBVIOUS
<1>4. y \in Seq(Steps) /\ Len(y) = 4
  BY <1>2, <1>3, ConcatProperties
<1>5. y[1] = a /\ y[2] = b /\ y[3] = c /\ y[4] = d
  BY <1>2, <1>3
<1> HIDE DEF x, y
<1>6. \A i \in 1 .. Len(x) : x[i] = y[i]
  BY <1>1, <1>5
<1>7. Len(x) = Len(y)
  BY <1>1, <1>4
<1>8. x = y
  BY <1>1, <1>4, <1>6, <1>7, SeqEqual
<1> QED BY <1>8 DEF x, y, Cons

LEMMA PlacesAreSeqs ==
  /\ E \in Seq(Steps) /\ O \in Seq(Steps) /\ V \in Seq(Steps) /\ CV \in Seq(Steps)
  /\ FileWrite \in Seq(Steps) /\ FileTrunc \in Seq(Steps) /\ Drop \in Seq(Steps)
  /\ RD \in Seq(Steps) /\ R \in Seq(Steps) /\ Q \in Seq(Steps) /\ QK \in Seq(Steps)
  /\ B \in Seq(Steps) /\ BK \in Seq(Steps) /\ ER \in Seq(Steps) /\ CW \in Seq(Steps)
  /\ CT \in Seq(Steps) /\ CK \in Seq(Steps) /\ P \in Seq(Steps)
<1>1. E \in Seq(Steps)
  BY DEF E
<1>2. O \in Seq(Steps) /\ Drop \in Seq(Steps) /\ R \in Seq(Steps) /\ Q \in Seq(Steps)
      /\ P \in Seq(Steps)
  BY <1>1, StepsAre, ConsFacts DEF O, Drop, R, Q, P
<1>3. V \in Seq(Steps) /\ RD \in Seq(Steps) /\ QK \in Seq(Steps) /\ B \in Seq(Steps)
      /\ ER \in Seq(Steps)
  BY <1>2, StepsAre, ConsFacts DEF V, RD, QK, B, ER
<1>4. CV \in Seq(Steps) /\ FileWrite \in Seq(Steps) /\ BK \in Seq(Steps)
      /\ CW \in Seq(Steps)
  BY <1>3, StepsAre, ConsFacts DEF CV, FileWrite, BK, CW
<1>5. FileTrunc \in Seq(Steps) /\ CT \in Seq(Steps)
  BY <1>4, StepsAre, ConsFacts DEF FileTrunc, CT
<1>6. CK \in Seq(Steps)
  BY <1>5, StepsAre, ConsFacts DEF CK
<1> QED BY <1>1, <1>2, <1>3, <1>4, <1>5, <1>6

\* What each place starts with and goes on with.
LEMMA StepsLeft ==
  /\ O # E /\ Head(O) = "open" /\ Tail(O) = E
  /\ V # E /\ Head(V) = "verify" /\ Tail(V) = O
  /\ CV # E /\ Head(CV) = "check" /\ Tail(CV) = V
  /\ FileWrite # E /\ Head(FileWrite) = "sec_write" /\ Tail(FileWrite) = V
  /\ FileTrunc # E /\ Head(FileTrunc) = "sec_trunc" /\ Tail(FileTrunc) = FileWrite
  /\ Drop # E /\ Head(Drop) = "sec_remove" /\ Tail(Drop) = E
  /\ RD # E /\ Head(RD) = "ring" /\ Tail(RD) = Drop
  /\ R # E /\ Head(R) = "ring" /\ Tail(R) = E
  /\ Q # E /\ Head(Q) = "edit" /\ Tail(Q) = E
  /\ QK # E /\ Head(QK) = "same_key" /\ Tail(QK) = Q
  /\ B # E /\ Head(B) = "bio_ask" /\ Tail(B) = Q
  /\ BK # E /\ Head(BK) = "same_key" /\ Tail(BK) = B
  /\ ER # E /\ Head(ER) = "edit" /\ Tail(ER) = R
  /\ CW # E /\ Head(CW) = "sec_write" /\ Tail(CW) = ER
  /\ CT # E /\ Head(CT) = "sec_trunc" /\ Tail(CT) = CW
  /\ CK # E /\ Head(CK) = "same_key" /\ Tail(CK) = CT
  /\ P # E /\ Head(P) = "pin_check" /\ Tail(P) = E
<1>1. \A x : \A step \in Steps, t \in Seq(Steps) :
         x = Cons(step, t) => x # E /\ Head(x) = step /\ Tail(x) = t
  BY ConsFacts, Zenon
<1>2. O # E /\ Head(O) = "open" /\ Tail(O) = E
  <2>1. "open" \in Steps
    BY StepsAre
  <2> QED BY <1>1, <2>1, PlacesAreSeqs, Zenon DEF O
<1>3. V # E /\ Head(V) = "verify" /\ Tail(V) = O
  <2>1. "verify" \in Steps
    BY StepsAre
  <2> QED BY <1>1, <2>1, PlacesAreSeqs, Zenon DEF V
<1>4. CV # E /\ Head(CV) = "check" /\ Tail(CV) = V
  <2>1. "check" \in Steps
    BY StepsAre
  <2> QED BY <1>1, <2>1, PlacesAreSeqs, Zenon DEF CV
<1>5. FileWrite # E /\ Head(FileWrite) = "sec_write" /\ Tail(FileWrite) = V
  <2>1. "sec_write" \in Steps
    BY StepsAre
  <2> QED BY <1>1, <2>1, PlacesAreSeqs, Zenon DEF FileWrite
<1>6. FileTrunc # E /\ Head(FileTrunc) = "sec_trunc" /\ Tail(FileTrunc) = FileWrite
  <2>1. "sec_trunc" \in Steps
    BY StepsAre
  <2> QED BY <1>1, <2>1, PlacesAreSeqs, Zenon DEF FileTrunc
<1>7. Drop # E /\ Head(Drop) = "sec_remove" /\ Tail(Drop) = E
  <2>1. "sec_remove" \in Steps
    BY StepsAre
  <2> QED BY <1>1, <2>1, PlacesAreSeqs, Zenon DEF Drop
<1>8. RD # E /\ Head(RD) = "ring" /\ Tail(RD) = Drop
  <2>1. "ring" \in Steps
    BY StepsAre
  <2> QED BY <1>1, <2>1, PlacesAreSeqs, Zenon DEF RD
<1>9. R # E /\ Head(R) = "ring" /\ Tail(R) = E
  <2>1. "ring" \in Steps
    BY StepsAre
  <2> QED BY <1>1, <2>1, PlacesAreSeqs, Zenon DEF R
<1>10. Q # E /\ Head(Q) = "edit" /\ Tail(Q) = E
  <2>1. "edit" \in Steps
    BY StepsAre
  <2> QED BY <1>1, <2>1, PlacesAreSeqs, Zenon DEF Q
<1>11. QK # E /\ Head(QK) = "same_key" /\ Tail(QK) = Q
  <2>1. "same_key" \in Steps
    BY StepsAre
  <2> QED BY <1>1, <2>1, PlacesAreSeqs, Zenon DEF QK
<1>12. B # E /\ Head(B) = "bio_ask" /\ Tail(B) = Q
  <2>1. "bio_ask" \in Steps
    BY StepsAre
  <2> QED BY <1>1, <2>1, PlacesAreSeqs, Zenon DEF B
<1>13. BK # E /\ Head(BK) = "same_key" /\ Tail(BK) = B
  <2>1. "same_key" \in Steps
    BY StepsAre
  <2> QED BY <1>1, <2>1, PlacesAreSeqs, Zenon DEF BK
<1>14. ER # E /\ Head(ER) = "edit" /\ Tail(ER) = R
  <2>1. "edit" \in Steps
    BY StepsAre
  <2> QED BY <1>1, <2>1, PlacesAreSeqs, Zenon DEF ER
<1>15. CW # E /\ Head(CW) = "sec_write" /\ Tail(CW) = ER
  <2>1. "sec_write" \in Steps
    BY StepsAre
  <2> QED BY <1>1, <2>1, PlacesAreSeqs, Zenon DEF CW
<1>16. CT # E /\ Head(CT) = "sec_trunc" /\ Tail(CT) = CW
  <2>1. "sec_trunc" \in Steps
    BY StepsAre
  <2> QED BY <1>1, <2>1, PlacesAreSeqs, Zenon DEF CT
<1>17. CK # E /\ Head(CK) = "same_key" /\ Tail(CK) = CT
  <2>1. "same_key" \in Steps
    BY StepsAre
  <2> QED BY <1>1, <2>1, PlacesAreSeqs, Zenon DEF CK
<1>18. P # E /\ Head(P) = "pin_check" /\ Tail(P) = E
  <2>1. "pin_check" \in Steps
    BY StepsAre
  <2> QED BY <1>1, <2>1, PlacesAreSeqs, Zenon DEF P
<1> QED BY <1>2, <1>3, <1>4, <1>5, <1>6, <1>7, <1>8, <1>9, <1>10,
          <1>11, <1>12, <1>13, <1>14, <1>15, <1>16, <1>17, <1>18

----------------------------------------------------------------------------
(* A command stays on its plan *)

LEMMA InnerFacts ==
  ASSUME NEW step \in {"write", "try_write", "repair", "upgrade", "ring", "trunc", "try_trunc"},
         NEW rest \in Seq(Steps)
  PROVE  /\ Cons(step, rest) \in Seq(Steps) /\ Cons(step, rest) # E
         /\ Head(Cons(step, rest)) = step /\ Tail(Cons(step, rest)) = rest
<1>1. step \in Steps
  BY StepsAre
<1> QED BY <1>1, ConsFacts, Zenon

LEMMA SaveGoesOn ==
  ASSUME NEW h, NEW r, NEW rest \in Seq(Steps), InSave(h, r, rest)
  PROVE  r = rest \/ (InSave(Head(r), Tail(r), rest) /\ r # E)
<1>1. /\ Cons("write", rest) # E
      /\ Head(Cons("write", rest)) = "write" /\ Tail(Cons("write", rest)) = rest
  BY InnerFacts
<1> QED BY <1>1 DEF InSave

LEMMA TryGoesOn ==
  ASSUME NEW h, NEW r, NEW rest \in Seq(Steps), InTry(h, r, rest)
  PROVE  r = rest \/ (InTry(Head(r), Tail(r), rest) /\ r # E)
<1>1. /\ Cons("try_write", rest) # E
      /\ Head(Cons("try_write", rest)) = "try_write" /\ Tail(Cons("try_write", rest)) = rest
  BY InnerFacts
<1> QED BY <1>1 DEF InTry

LEMMA CheckGoesOn ==
  ASSUME NEW h, NEW r, NEW rest \in Seq(Steps), InCheck(h, r, rest)
  PROVE  r = rest \/ (InCheck(Head(r), Tail(r), rest) /\ r # E)
<1>1. "repair" \in Steps /\ "try_write" \in Steps
  BY StepsAre
<1>2. CASE h \in {"check", "repair", "ring"} /\ r = rest
  BY <1>2
<1>3. CASE h = "upgrade" /\ r = Cons("repair", rest)
  BY <1>1, <1>3, ConsFacts, Zenon DEF InCheck
<1>4. CASE InTry(h, r, Cons("repair", rest))
  <2>1. Cons("repair", rest) \in Seq(Steps) /\ Cons("repair", rest) # E
        /\ Head(Cons("repair", rest)) = "repair" /\ Tail(Cons("repair", rest)) = rest
    BY <1>1, ConsFacts, Zenon
  <2>2. CASE r = Cons("repair", rest)
    BY <2>1, <2>2 DEF InCheck
  <2>3. CASE r # E /\ InTry(Head(r), Tail(r), Cons("repair", rest))
    BY <2>3 DEF InCheck
  <2> QED BY <1>4, <2>1, <2>2, <2>3, TryGoesOn
<1>5. CASE InTry(h, r, rest)
  BY <1>5, TryGoesOn DEF InCheck, InRing
<1> QED BY <1>2, <1>3, <1>4, <1>5 DEF InCheck, InRing

LEMMA RingGoesOn ==
  ASSUME NEW h, NEW r, NEW rest \in Seq(Steps), InRing(h, r, rest)
  PROVE  r = rest \/ (InRing(Head(r), Tail(r), rest) /\ r # E)
BY TryGoesOn DEF InRing

LEMMA EditGoesOn ==
  ASSUME NEW h, NEW r, NEW rest \in Seq(Steps), InEdit(h, r, rest)
  PROVE  r = rest \/ (InEdit(Head(r), Tail(r), rest) /\ r # E)
BY SaveGoesOn DEF InEdit

\* One step on, the plan is kept.
LEMMA TailOnPlan ==
  ASSUME NEW op, NEW h, NEW r, PlanAt(op, h, r)
  PROVE  OnPlan(op, r)
<1> USE DEF OnPlan
<1>1. CASE op = "launch"
  BY <1>1, RingGoesOn, PlacesAreSeqs, StepsLeft DEF PlanAt
<1>2. CASE op = "unlock"
  BY <1>2, CheckGoesOn, PlacesAreSeqs, StepsLeft DEF PlanAt
<1>3. CASE op = "init"
  <2>1. CASE InSave(h, r, FileTrunc)
    BY <1>3, <2>1, SaveGoesOn, PlacesAreSeqs, StepsLeft DEF PlanAt
  <2>2. CASE InSave(h, r, CV)
    BY <1>3, <2>2, SaveGoesOn, PlacesAreSeqs, StepsLeft DEF PlanAt, InCheck
  <2>3. CASE InCheck(h, r, V)
    BY <1>3, <2>3, CheckGoesOn, PlacesAreSeqs, StepsLeft DEF PlanAt
  <2> QED BY <1>3, <2>1, <2>2, <2>3, StepsLeft DEF PlanAt
<1>4. CASE op = "pin"
  <2>1. CASE InSave(h, r, P)
    BY <1>4, <2>1, SaveGoesOn, PlacesAreSeqs, StepsLeft DEF PlanAt
  <2>2. CASE InSave(h, r, O)
    BY <1>4, <2>2, SaveGoesOn, PlacesAreSeqs, StepsLeft DEF PlanAt
  <2>3. CASE InSave(h, r, E)
    BY <1>4, <2>3, SaveGoesOn, PlacesAreSeqs, StepsLeft DEF PlanAt
  <2> QED BY <1>4, <2>1, <2>2, <2>3, StepsLeft DEF PlanAt
<1>5. CASE op = "bio"
  BY <1>5, EditGoesOn, PlacesAreSeqs, StepsLeft DEF PlanAt
<1>6. CASE op = "setpass"
  <2>1. CASE InEdit(h, r, RD)
    BY <1>6, <2>1, EditGoesOn, PlacesAreSeqs, StepsLeft DEF PlanAt, InRing
  <2>2. CASE InEdit(h, r, Drop)
    BY <1>6, <2>2, EditGoesOn, PlacesAreSeqs, StepsLeft DEF PlanAt
  <2>3. CASE InRing(h, r, Drop)
    BY <1>6, <2>3, RingGoesOn, PlacesAreSeqs, StepsLeft DEF PlanAt
  <2> QED BY <1>6, <2>1, <2>2, <2>3, StepsLeft DEF PlanAt
<1>7. CASE op = "setask"
  <2>1. CASE InEdit(h, r, R)
    BY <1>7, <2>1, EditGoesOn, PlacesAreSeqs, StepsLeft DEF PlanAt, InRing
  <2>2. CASE InEdit(h, r, E)
    BY <1>7, <2>2, EditGoesOn, PlacesAreSeqs, StepsLeft DEF PlanAt
  <2>3. CASE InRing(h, r, E)
    BY <1>7, <2>3, RingGoesOn, PlacesAreSeqs, StepsLeft DEF PlanAt
  <2> QED BY <1>7, <2>1, <2>2, <2>3 DEF PlanAt
<1>8. CASE op = "clearpass"
  <2>1. CASE InCheck(h, r, CK)
    BY <1>8, <2>1, CheckGoesOn, PlacesAreSeqs, StepsLeft DEF PlanAt, ClearEarly
  <2>2. CASE ClearEarly(h, r) /\ ~InCheck(h, r, CK)
    BY <1>8, <2>2, StepsLeft DEF PlanAt, ClearEarly, ClearLate, InEdit
  <2>3. CASE InEdit(h, r, R)
    BY <1>8, <2>3, EditGoesOn, PlacesAreSeqs, StepsLeft DEF PlanAt, ClearLate, InRing
  <2>4. CASE InRing(h, r, E)
    BY <1>8, <2>4, RingGoesOn, PlacesAreSeqs, StepsLeft DEF PlanAt, ClearLate
  <2> QED BY <1>8, <2>1, <2>2, <2>3, <2>4 DEF PlanAt, ClearLate
<1>9. CASE op = "setpin"
  <2>1. CASE InCheck(h, r, QK)
    BY <1>9, <2>1, CheckGoesOn, PlacesAreSeqs, StepsLeft DEF PlanAt
  <2>2. CASE InEdit(h, r, E)
    BY <1>9, <2>2, EditGoesOn, PlacesAreSeqs, StepsLeft DEF PlanAt
  <2> QED BY <1>9, <2>1, <2>2, StepsLeft DEF PlanAt, InEdit
<1>10. CASE op = "setbio"
  <2>1. CASE InCheck(h, r, BK)
    BY <1>10, <2>1, CheckGoesOn, PlacesAreSeqs, StepsLeft DEF PlanAt
  <2>2. CASE InEdit(h, r, E)
    BY <1>10, <2>2, EditGoesOn, PlacesAreSeqs, StepsLeft DEF PlanAt
  <2> QED BY <1>10, <2>1, <2>2, StepsLeft DEF PlanAt, InEdit
<1>11. CASE op \in {"clearpin", "clearbio"}
  BY <1>11, EditGoesOn, PlacesAreSeqs, StepsLeft DEF PlanAt
<1> QED BY <1>1, <1>2, <1>3, <1>4, <1>5, <1>6, <1>7, <1>8, <1>9, <1>10, <1>11
        DEF PlanAt

\* The steps that a step of a command puts before what is left.
LEMMA Prefixed ==
  ASSUME NEW r \in Seq(Steps)
  PROVE  /\ <<>> \o r = r
         /\ Save \o r \in Seq(Steps) /\ Save \o r # E
         /\ Head(Save \o r) = "trunc" /\ Tail(Save \o r) = Cons("write", r)
         /\ TrySave \o r \in Seq(Steps) /\ TrySave \o r # E
         /\ Head(TrySave \o r) = "try_trunc" /\ Tail(TrySave \o r) = Cons("try_write", r)
         /\ <<"ring">> \o r \in Seq(Steps) /\ <<"ring">> \o r # E
         /\ Head(<<"ring">> \o r) = "ring" /\ Tail(<<"ring">> \o r) = r
         /\ <<"repair">> \o r \in Seq(Steps) /\ <<"repair">> \o r # E
         /\ Head(<<"repair">> \o r) = "repair" /\ Tail(<<"repair">> \o r) = r
         /\ <<"upgrade", "repair">> \o r \in Seq(Steps) /\ <<"upgrade", "repair">> \o r # E
         /\ Head(<<"upgrade", "repair">> \o r) = "upgrade"
         /\ Tail(<<"upgrade", "repair">> \o r) = Cons("repair", r)
<1>1. <<>> \o r = r
  BY Sequels
<1>2. /\ "write" \in Steps /\ "try_write" \in Steps /\ "repair" \in Steps
      /\ "upgrade" \in Steps /\ "ring" \in Steps /\ "trunc" \in Steps
      /\ "try_trunc" \in Steps
  BY StepsAre
<1>3. Save \o r = Cons("trunc", Cons("write", r))
  BY <1>2, Sequels, Zenon DEF Save
<1>4. TrySave \o r = Cons("try_trunc", Cons("try_write", r))
  BY <1>2, Sequels, Zenon DEF TrySave
<1>5. <<"upgrade", "repair">> \o r = Cons("upgrade", Cons("repair", r))
  BY <1>2, Sequels, Zenon
<1>6. <<"ring">> \o r = Cons("ring", r) /\ <<"repair">> \o r = Cons("repair", r)
  BY Zenon DEF Cons
<1>7. /\ Cons("write", r) \in Seq(Steps) /\ Cons("try_write", r) \in Seq(Steps)
      /\ Cons("repair", r) \in Seq(Steps)
  BY InnerFacts
<1>8. Save \o r \in Seq(Steps) /\ Save \o r # E
      /\ Head(Save \o r) = "trunc" /\ Tail(Save \o r) = Cons("write", r)
  BY <1>2, <1>3, <1>7, ConsIs
<1>9. TrySave \o r \in Seq(Steps) /\ TrySave \o r # E
      /\ Head(TrySave \o r) = "try_trunc" /\ Tail(TrySave \o r) = Cons("try_write", r)
  BY <1>2, <1>4, <1>7, ConsIs
<1>10. <<"ring">> \o r \in Seq(Steps) /\ <<"ring">> \o r # E
       /\ Head(<<"ring">> \o r) = "ring" /\ Tail(<<"ring">> \o r) = r
       /\ <<"repair">> \o r \in Seq(Steps) /\ <<"repair">> \o r # E
       /\ Head(<<"repair">> \o r) = "repair" /\ Tail(<<"repair">> \o r) = r
  BY <1>2, <1>6, ConsIs
<1>11. <<"upgrade", "repair">> \o r \in Seq(Steps) /\ <<"upgrade", "repair">> \o r # E
       /\ Head(<<"upgrade", "repair">> \o r) = "upgrade"
       /\ Tail(<<"upgrade", "repair">> \o r) = Cons("repair", r)
  <2> DEFINE x == <<"upgrade", "repair">> \o r
  <2>1. x = Cons("upgrade", Cons("repair", r))
    BY <1>5
  <2> HIDE DEF x
  <2>2. x \in Seq(Steps) /\ x # E /\ Head(x) = "upgrade" /\ Tail(x) = Cons("repair", r)
    BY <1>2, <1>7, <2>1, ConsIs
  <2> QED BY <2>2 DEF x
<1> QED BY <1>1, <1>8, <1>9, <1>10, <1>11

\* A step that puts others before what is left stays on the plan.
LEMMA MoreOnPlan ==
  ASSUME NEW op, NEW h, NEW r \in Seq(Steps), PlanAt(op, h, r)
  PROVE  /\ h \in {"edit", "pin_count"} => OnPlan(op, Save \o r)
         /\ h \in {"ring", "upgrade"} => OnPlan(op, TrySave \o r)
         /\ h = "check" => /\ OnPlan(op, <<"repair">> \o r)
                           /\ OnPlan(op, <<"upgrade", "repair">> \o r)
         /\ h = "repair" => OnPlan(op, <<"ring">> \o r)
<1>0. OnPlan(op, Save \o r) <=> PlanAt(op, "trunc", Cons("write", r))
  BY Prefixed DEF OnPlan
<1>1. h \in {"edit", "pin_count"} => PlanAt(op, "trunc", Cons("write", r))
  BY DEF PlanAt, InEdit, InSave, InRing, InTry, InCheck, ClearEarly, ClearLate
<1>2. OnPlan(op, TrySave \o r) <=> PlanAt(op, "try_trunc", Cons("try_write", r))
  BY Prefixed DEF OnPlan
<1>3. h \in {"ring", "upgrade"} => PlanAt(op, "try_trunc", Cons("try_write", r))
  BY DEF PlanAt, InEdit, InSave, InRing, InTry, InCheck, ClearEarly, ClearLate
<1>4. /\ OnPlan(op, <<"repair">> \o r) <=> PlanAt(op, "repair", r)
      /\ OnPlan(op, <<"ring">> \o r) <=> PlanAt(op, "ring", r)
      /\ OnPlan(op, <<"upgrade", "repair">> \o r)
            <=> PlanAt(op, "upgrade", Cons("repair", r))
  BY Prefixed DEF OnPlan
<1>5. h = "check" => PlanAt(op, "repair", r) /\ PlanAt(op, "upgrade", Cons("repair", r))
  BY DEF PlanAt, InEdit, InSave, InRing, InTry, InCheck, ClearEarly, ClearLate
<1>6. h = "repair" => PlanAt(op, "ring", r)
  BY DEF PlanAt, InEdit, InSave, InRing, InTry, InCheck, ClearEarly, ClearLate
<1> QED BY <1>0, <1>1, <1>2, <1>3, <1>4, <1>5, <1>6

\* What unlock_with_pin does after the check.
LEMMA PinOnPlan ==
  ASSUME NEW op, NEW r, PlanAt(op, "pin_check", r)
  PROVE  /\ op = "pin" /\ r = E
         /\ (Save \o <<"open">>) \o r = Save \o O
         /\ OnPlan(op, Save \o O) /\ OnPlan(op, Save \o r)
<1>1. op = "pin" /\ r = E
  BY DEF PlanAt, InEdit, InSave, InRing, InTry, InCheck, ClearEarly, ClearLate
<1>2. Save \in Seq(Steps) /\ <<"open">> \in Seq(Steps)
  BY StepsAre DEF Save
<1>3. Save \o <<"open">> \in Seq(Steps)
  BY <1>2, ConcatProperties
<1>4. (Save \o <<"open">>) \o <<>> = Save \o <<"open">>
  BY <1>3, ConcatEmptySeq
<1>5. <<"open">> = O
  BY StepsAre, Sequels, Zenon DEF O
<1>6. OnPlan(op, Save \o O) /\ OnPlan(op, Save \o E)
  BY <1>1, PlacesAreSeqs, Prefixed DEF OnPlan, PlanAt, InSave
<1> QED BY <1>1, <1>4, <1>5, <1>6 DEF E

----------------------------------------------------------------------------
(* Commands are where their plan says *)

\* The commands each screen starts, and those that come with a passphrase.
OpsOf(s) == IF s = "boot" THEN {"launch", "init", "unlock", "pin", "bio"}
            ELSE IF s = "master" THEN {"setpass", "setask", "clearpass"}
            ELSE {"setpin", "setbio", "clearpin", "clearbio"}

Typed == {"init", "unlock", "setpass", "clearpass", "setpin", "setbio"}

\* A command as its screen may have it.
Fits(s, j) ==
    /\ j.todo = E => j = Idle
    /\ j.todo # E => j.op \in OpsOf(s) /\ PlanAt(j.op, Head(j.todo), Tail(j.todo))
    /\ j.op \in Typed => j.phrase \in Phrases

\* Which commands can be running in which phase, and next to which.
Phases ==
    /\ Busy("boot") => phase = IF job["boot"].op = "init" THEN "setup"
                               ELSE IF job["boot"].op = "launch" THEN "boot"
                               ELSE "locked"
    /\ Busy("master") \/ Busy("quick") => phase \in {"locked", "open"}
    /\ Busy("quick") => Phone
    /\ Phone => \A s, t \in Screens : Busy(s) /\ Busy(t) => s = t

OnPlans == TypeOK /\ Phases /\ \A s \in Screens : Fits(s, job[s])

\* The command with this copy and these steps left.
On(j, copy, rest) == IF rest = <<>> THEN Idle
                     ELSE [j EXCEPT !.copy = copy, !.todo = rest]

\* The command of s goes on so, and that is on its plan.
Moves(s, copy, rest) ==
    /\ job' = [job EXCEPT ![s] = On(job[s], copy, rest)]
    /\ copy \in Stores /\ rest \in Seq(Steps) /\ OnPlan(job[s].op, rest)

h(s) == Head(job[s].todo)
r(s) == Tail(job[s].todo)

LEMMA IdleFits == Idle \in Jobs /\ Blank \in Stores /\ \A s \in Screens : Fits(s, Idle)
BY DEF Idle, Jobs, Blank, Stores, Ops, Fits, E, Typed

LEMMA OnFits ==
  ASSUME NEW s \in Screens, NEW j \in Jobs, NEW copy \in Stores, NEW rest \in Seq(Steps),
         Fits(s, j), j.todo # E, OnPlan(j.op, rest)
  PROVE  /\ On(j, copy, rest) \in Jobs /\ Fits(s, On(j, copy, rest))
         /\ On(j, copy, rest).todo = rest
         /\ rest = E => On(j, copy, rest) = Idle
         /\ rest # E => /\ On(j, copy, rest).op = j.op /\ On(j, copy, rest).copy = copy
                        /\ On(j, copy, rest).phrase = j.phrase
                        /\ On(j, copy, rest).flag = j.flag
<1>1. CASE rest = E
  BY <1>1, IdleFits DEF On, E, Idle
<1>2. CASE rest # E
  <2> DEFINE n == [j EXCEPT !.copy = copy, !.todo = rest]
  <2>1. On(j, copy, rest) = n
    BY <1>2 DEF On, E
  <2>2. n \in Jobs /\ n.todo = rest /\ n.op = j.op /\ n.copy = copy /\ n.phrase = j.phrase
        /\ n.flag = j.flag
    BY DEF Jobs
  <2> HIDE DEF n
  <2>3. Fits(s, n)
    BY <1>2, <2>2 DEF Fits, OnPlan
  <2> QED BY <1>2, <2>1, <2>2, <2>3
<1> QED BY <1>1, <1>2

\* What is known of a screen's command while it is busy.
LEMMA BusyFits ==
  ASSUME OnPlans, NEW s \in Screens, Busy(s)
  PROVE  /\ job[s] \in Jobs /\ job[s].copy \in Stores /\ job[s].todo # E
         /\ r(s) \in Seq(Steps) /\ h(s) \in Steps
         /\ PlanAt(job[s].op, h(s), r(s)) /\ OnPlan(job[s].op, r(s))
         /\ OnPlan(job[s].op, E) /\ job[s].op \in OpsOf(s)
<1>1. job[s] \in Jobs /\ Fits(s, job[s])
  BY DEF OnPlans, TypeOK
<1>2. job[s].todo \in Seq(Steps) /\ job[s].todo # E /\ job[s].copy \in Stores
  BY <1>1 DEF Busy, E, Jobs
<1>3. r(s) \in Seq(Steps) /\ h(s) \in Steps
  BY <1>2, HeadTailProperties DEF r, h, E
<1>4. PlanAt(job[s].op, h(s), r(s)) /\ job[s].op \in OpsOf(s)
  BY <1>1, <1>2 DEF Fits, h, r
<1>5. OnPlan(job[s].op, r(s))
  BY <1>4, TailOnPlan
<1> QED BY <1>1, <1>2, <1>3, <1>4, <1>5 DEF OnPlan

LEMMA Readables ==
  ASSUME TypeOK, Readable
  PROVE  Loaded \in Stores
BY IdleFits DEF TypeOK, Readable, Loaded

LEMMA NonesApart ==
  /\ None \notin Phrases /\ None \notin Keks /\ None \notin Nat
  /\ \A n \in Nat : n # None
  /\ Absent \notin Stores /\ Torn \notin Stores
  /\ Locked \notin Keks /\ NoKeyring \notin Keks /\ NoKeyring # None /\ NoKeyring # Locked
BY KeystoreAssumption, SentinelsAssumption

LEMMA GoesOnMoves ==
  ASSUME OnPlans, NEW s \in Screens, Busy(s),
         NEW copy \in Stores, NEW rest \in Seq(Steps), OnPlan(job[s].op, rest),
         GoesOn(s, copy, rest)
  PROVE  Moves(s, copy, rest)
BY DEF GoesOn, Moves, On

LEMMA AbortMoves ==
  ASSUME OnPlans, NEW s \in Screens, Busy(s), Abort(s)
  PROVE  Moves(s, job[s].copy, E)
BY BusyFits, PlacesAreSeqs DEF Abort, Moves, On, E

LEMMA ThenMoves ==
  ASSUME OnPlans, NEW s \in Screens, Busy(s), Then(s, <<>>)
  PROVE  Moves(s, job[s].copy, r(s))
<1>1. <<>> \o r(s) = r(s)
  BY BusyFits, Prefixed
<1>2. GoesOn(s, job[s].copy, r(s))
  BY <1>1 DEF Then, ThenWith, r
<1> QED BY <1>2, BusyFits, GoesOnMoves

LEMMA MoreMoves ==
  ASSUME OnPlans, NEW s \in Screens, Busy(s), NEW copy \in Stores, NEW more,
         more \o r(s) \in Seq(Steps), OnPlan(job[s].op, more \o r(s)),
         ThenWith(s, copy, more)
  PROVE  Moves(s, copy, more \o r(s))
BY GoesOnMoves DEF ThenWith, r

LEMMA EditedStores ==
  ASSUME NEW j \in Jobs, NEW c \in Stores
  PROVE  Edited(j, c) \in Stores
<1>1. j.phrase \in Phrases \cup {None} /\ j.flag \in BOOLEAN
  BY DEF Jobs
<1>2. CASE j.op = "setpass"
  <2>1. Edited(j, c) = [c EXCEPT !.pass = j.phrase, !.dated = FALSE, !.ask = j.flag,
                                 !.keyring = IF j.flag THEN None ELSE @]
    BY <1>2 DEF Edited
  <2> QED BY <1>1, <2>1 DEF Stores
<1>3. CASE j.op = "setask"
  <2>1. Edited(j, c) = [c EXCEPT !.ask = j.flag, !.keyring = None]
    BY <1>3 DEF Edited
  <2> QED BY <1>1, <2>1 DEF Stores
<1>4. CASE j.op = "clearpass"
  <2>1. Edited(j, c) = [c EXCEPT !.pass = None, !.dated = FALSE, !.ask = FALSE,
                                 !.bio = FALSE, !.pin = None]
    BY <1>4 DEF Edited
  <2> QED BY <2>1 DEF Stores
<1>5. CASE j.op = "setpin"
  <2>1. Edited(j, c) = [c EXCEPT !.pin = 0]
    BY <1>5 DEF Edited
  <2> QED BY <2>1 DEF Stores
<1>6. CASE j.op = "clearpin"
  <2>1. Edited(j, c) = [c EXCEPT !.pin = None]
    BY <1>6 DEF Edited
  <2> QED BY <2>1 DEF Stores
<1>7. CASE j.op = "setbio"
  <2>1. Edited(j, c) = [c EXCEPT !.bio = TRUE]
    BY <1>7 DEF Edited
  <2> QED BY <2>1 DEF Stores
<1>8. CASE j.op \notin {"setpass", "setask", "clearpass", "setpin", "clearpin", "setbio"}
  <2>1. Edited(j, c) = [c EXCEPT !.bio = FALSE]
    BY <1>8 DEF Edited
  <2> QED BY <2>1 DEF Stores
<1> QED BY <1>2, <1>3, <1>4, <1>5, <1>6, <1>7, <1>8

----------------------------------------------------------------------------
(* What each step makes of its command *)

LEMMA TruncateMoves ==
  ASSUME OnPlans, NEW s \in Screens, Truncate(s)
  PROVE  Busy(s) /\ Moves(s, job[s].copy, r(s)) /\ h(s) \in {"trunc", "try_trunc"}
BY ThenMoves DEF Truncate, At, h

LEMMA WriteMoves ==
  ASSUME OnPlans, NEW s \in Screens, Write(s)
  PROVE  Busy(s) /\ Moves(s, job[s].copy, r(s)) /\ h(s) \in {"write", "try_write"}
BY ThenMoves DEF Write, At, h

LEMMA SecretMoves ==
  ASSUME OnPlans, NEW s \in Screens, TruncateSecret(s) \/ WriteSecret(s) \/ RemoveSecret(s)
  PROVE  Busy(s) /\ Moves(s, job[s].copy, r(s))
BY ThenMoves DEF TruncateSecret, WriteSecret, RemoveSecret, At

LEMMA ErrorMoves ==
  ASSUME OnPlans, NEW s \in Screens, FileError(s)
  PROVE  /\ Busy(s)
         /\ \/ Moves(s, job[s].copy, E)
            \/ h(s) = "try_trunc" /\ Moves(s, job[s].copy, Tail(r(s)))
                                  /\ Head(r(s)) = "try_write"
            \/ h(s) = "try_write" /\ Moves(s, job[s].copy, r(s))
<1>1. CASE \E f \in {"trunc", "write", "sec_trunc", "sec_write", "sec_remove"} : At(s, f)
           /\ Abort(s)
  BY <1>1, AbortMoves DEF At
<1>2. CASE At(s, "try_trunc") /\ GoesOn(s, job[s].copy, Tail(Tail(job[s].todo)))
  <2>1. Busy(s) /\ h(s) = "try_trunc"
    BY <1>2 DEF At, h
  <2>2. PlanAt(job[s].op, "try_trunc", r(s)) /\ r(s) \in Seq(Steps)
    BY <2>1, BusyFits
  <2>3. \E rest \in Seq(Steps) : r(s) = Cons("try_write", rest)
    <3>1. \A rest \in Seq(Steps) : Cons("repair", rest) \in Seq(Steps)
      BY InnerFacts
    <3> QED BY <2>2, <3>1, PlacesAreSeqs
            DEF PlanAt, InEdit, InSave, InRing, InTry, InCheck, ClearEarly, ClearLate
  <2>4. r(s) # E /\ Head(r(s)) = "try_write" /\ Tail(r(s)) \in Seq(Steps)
    <3>1. PICK rest \in Seq(Steps) : r(s) = Cons("try_write", rest)
      BY <2>3
    <3>2. "try_write" \in Steps
      BY StepsAre
    <3> QED BY <3>1, <3>2, ConsIs
  <2>5. OnPlan(job[s].op, Tail(r(s)))
    BY <2>1, <2>4, BusyFits, TailOnPlan DEF OnPlan
  <2>6. Moves(s, job[s].copy, Tail(r(s)))
    BY <1>2, <2>1, <2>4, <2>5, BusyFits, GoesOnMoves DEF r
  <2> QED BY <2>1, <2>4, <2>6
<1>3. CASE At(s, "try_write") /\ Then(s, <<>>)
  BY <1>3, ThenMoves DEF At, h
<1> QED BY <1>1, <1>2, <1>3 DEF FileError

LEMMA EditMoves ==
  ASSUME OnPlans, NEW s \in Screens, Edit(s)
  PROVE  /\ Busy(s) /\ h(s) = "edit"
         /\ \/ /\ Moves(s, job[s].copy, E)
               /\ ~(Readable /\ (job[s].op \in NeedsPassphrase => Loaded.pass # None))
            \/ /\ Readable /\ (job[s].op \in NeedsPassphrase => Loaded.pass # None)
               /\ Loaded \in Stores
               /\ Moves(s, Edited(job[s], Loaded), Save \o r(s))
<1>1. Busy(s) /\ h(s) = "edit"
  BY DEF Edit, At, h
<1>2. OnPlan(job[s].op, Save \o r(s)) /\ Save \o r(s) \in Seq(Steps)
  BY <1>1, BusyFits, MoreOnPlan, Prefixed
<1>3. ASSUME Readable, ThenWith(s, Edited(job[s], Loaded), Save)
      PROVE  Moves(s, Edited(job[s], Loaded), Save \o r(s)) /\ Loaded \in Stores
  <2>1. Loaded \in Stores
    BY <1>3, Readables DEF OnPlans
  <2>2. Edited(job[s], Loaded) \in Stores
    BY <1>1, <2>1, BusyFits, EditedStores
  <2> QED BY <1>1, <1>2, <1>3, <2>1, <2>2, MoreMoves
<1> QED BY <1>1, <1>3, AbortMoves DEF Edit

LEMMA RingMoves ==
  ASSUME OnPlans, NEW s \in Screens, RingWrap(s)
  PROVE  /\ Busy(s) /\ h(s) = "ring"
         /\ \/ Moves(s, job[s].copy, r(s))
            \/ /\ Readable /\ ~Loaded.ask /\ ring \in Keks /\ Loaded \in Stores
               /\ Moves(s, [Loaded EXCEPT !.keyring = ring], TrySave \o r(s))
<1>1. Busy(s) /\ h(s) = "ring"
  BY DEF RingWrap, At, h
<1>2. OnPlan(job[s].op, TrySave \o r(s)) /\ TrySave \o r(s) \in Seq(Steps)
  BY <1>1, BusyFits, MoreOnPlan, Prefixed
<1>3. ASSUME Readable, ring \in Keks, ThenWith(s, [Loaded EXCEPT !.keyring = ring], TrySave)
      PROVE  Moves(s, [Loaded EXCEPT !.keyring = ring], TrySave \o r(s)) /\ Loaded \in Stores
  <2>1. Loaded \in Stores
    BY <1>3, Readables DEF OnPlans
  <2>2. [Loaded EXCEPT !.keyring = ring] \in Stores
    BY <1>3, <2>1 DEF Stores
  <2> QED BY <1>1, <1>2, <1>3, <2>1, <2>2, MoreMoves
<1> QED BY <1>1, <1>3, ThenMoves DEF RingWrap

LEMMA CheckMoves ==
  ASSUME OnPlans, NEW s \in Screens, Check(s)
  PROVE  /\ Busy(s) /\ h(s) = "check"
         /\ \/ /\ ~(Readable /\ Loaded.pass # None /\ Loaded.pass = job[s].phrase)
               /\ Moves(s, job[s].copy, E)
            \/ /\ Readable /\ Loaded.pass # None /\ Loaded.pass = job[s].phrase
               /\ Loaded \in Stores
               /\ \/ Moves(s, Loaded, <<"repair">> \o r(s))
                  \/ Moves(s, Loaded, <<"upgrade", "repair">> \o r(s))
<1>1. Busy(s) /\ h(s) = "check"
  BY DEF Check, At, h
<1>2. /\ OnPlan(job[s].op, <<"repair">> \o r(s)) /\ <<"repair">> \o r(s) \in Seq(Steps)
      /\ OnPlan(job[s].op, <<"upgrade", "repair">> \o r(s))
      /\ <<"upgrade", "repair">> \o r(s) \in Seq(Steps)
  BY <1>1, BusyFits, MoreOnPlan, Prefixed
<1>3. ASSUME Readable, NEW more \in {<<"repair">>, <<"upgrade", "repair">>},
             ThenWith(s, Loaded, more)
      PROVE  Moves(s, Loaded, more \o r(s)) /\ Loaded \in Stores
  <2>1. Loaded \in Stores
    BY <1>3, Readables DEF OnPlans
  <2> QED BY <1>1, <1>2, <1>3, <2>1, MoreMoves
<1> QED BY <1>1, <1>3, AbortMoves DEF Check

LEMMA UpgradeMoves ==
  ASSUME OnPlans, NEW s \in Screens, Upgrade(s)
  PROVE  /\ Busy(s) /\ h(s) = "upgrade"
         /\ \/ Moves(s, job[s].copy, r(s))
            \/ /\ Readable /\ Loaded \in Stores /\ job[s].phrase \in Phrases
               /\ Moves(s, [Loaded EXCEPT !.pass = job[s].phrase, !.dated = FALSE],
                        TrySave \o r(s))
<1>1. Busy(s) /\ h(s) = "upgrade"
  BY DEF Upgrade, At, h
<1>2. OnPlan(job[s].op, TrySave \o r(s)) /\ TrySave \o r(s) \in Seq(Steps)
  BY <1>1, BusyFits, MoreOnPlan, Prefixed
<1>3. job[s].phrase \in Phrases
  <2>1. PlanAt(job[s].op, "upgrade", r(s))
    BY <1>1, BusyFits
  <2>2. job[s].op \in Typed
    BY <2>1 DEF PlanAt, InEdit, InSave, InRing, InTry, InCheck, ClearEarly, ClearLate, Typed
  <2> QED BY <2>2 DEF OnPlans, Fits
<1>4. ASSUME Readable,
             ThenWith(s, [Loaded EXCEPT !.pass = job[s].phrase, !.dated = FALSE], TrySave)
      PROVE  /\ Moves(s, [Loaded EXCEPT !.pass = job[s].phrase, !.dated = FALSE],
                      TrySave \o r(s))
             /\ Loaded \in Stores
  <2>1. Loaded \in Stores
    BY <1>4, Readables DEF OnPlans
  <2>2. [Loaded EXCEPT !.pass = job[s].phrase, !.dated = FALSE] \in Stores
    BY <1>3, <2>1 DEF Stores
  <2> QED BY <1>1, <1>2, <1>4, <2>1, <2>2, MoreMoves
<1> QED BY <1>1, <1>3, <1>4, ThenMoves DEF Upgrade

LEMMA RepairMoves ==
  ASSUME OnPlans, NEW s \in Screens, Repair(s)
  PROVE  /\ Busy(s) /\ h(s) = "repair"
         /\ \/ Moves(s, job[s].copy, r(s))
            \/ Moves(s, job[s].copy, <<"ring">> \o r(s))
<1>1. Busy(s) /\ h(s) = "repair"
  BY DEF Repair, At, h
<1>2. OnPlan(job[s].op, <<"ring">> \o r(s)) /\ <<"ring">> \o r(s) \in Seq(Steps)
  BY <1>1, BusyFits, MoreOnPlan, Prefixed
<1>3. Then(s, <<"ring">>) => Moves(s, job[s].copy, <<"ring">> \o r(s))
  BY <1>1, <1>2, BusyFits, MoreMoves DEF Then
<1> QED BY <1>1, <1>3, ThenMoves DEF Repair

LEMMA SameKeyMoves ==
  ASSUME OnPlans, NEW s \in Screens, SameKey(s)
  PROVE  /\ Busy(s) /\ h(s) = "same_key"
         /\ \/ Moves(s, job[s].copy, E)
            \/ phase = "open" /\ Moves(s, job[s].copy, r(s))
BY ThenMoves, AbortMoves DEF SameKey, At, h

LEMMA PinCountMoves ==
  ASSUME OnPlans, NEW s \in Screens, PinCount(s)
  PROVE  /\ Busy(s) /\ h(s) = "pin_count" /\ job[s].op = "pin" /\ r(s) = P
         /\ \/ Moves(s, job[s].copy, E)
            \/ /\ Readable /\ Loaded \in Stores /\ Loaded.pin \in Nat
               /\ Moves(s, [Loaded EXCEPT !.pin = Loaded.pin + 1], Save \o P)
<1>1. Busy(s) /\ h(s) = "pin_count"
  BY DEF PinCount, At, h
<1>2. OnPlan(job[s].op, Save \o r(s)) /\ Save \o r(s) \in Seq(Steps)
  BY <1>1, BusyFits, MoreOnPlan, Prefixed
<1>3. job[s].op = "pin" /\ r(s) = P
  <2>1. PlanAt(job[s].op, "pin_count", r(s))
    BY <1>1, BusyFits
  <2> QED BY <2>1 DEF PlanAt, InEdit, InSave, InRing, InTry, InCheck, ClearEarly, ClearLate
<1>4. ASSUME Readable, Loaded.pin # None,
             ThenWith(s, [Loaded EXCEPT !.pin = @ + 1], Save)
      PROVE  /\ Moves(s, [Loaded EXCEPT !.pin = Loaded.pin + 1], Save \o P)
             /\ Loaded \in Stores /\ Loaded.pin \in Nat
  <2>1. Loaded \in Stores
    BY <1>4, Readables DEF OnPlans
  <2>2. Loaded.pin \in Nat /\ [Loaded EXCEPT !.pin = Loaded.pin + 1] \in Stores
    BY <1>4, <2>1 DEF Stores
  <2>3. ThenWith(s, [Loaded EXCEPT !.pin = Loaded.pin + 1], Save)
    BY <1>4
  <2> QED BY <1>1, <1>2, <1>3, <2>1, <2>2, <2>3, MoreMoves
<1> QED BY <1>1, <1>3, <1>4, AbortMoves DEF PinCount

LEMMA PinCheckMoves ==
  ASSUME OnPlans, NEW s \in Screens, PinCheck(s)
  PROVE  /\ Busy(s) /\ h(s) = "pin_check" /\ job[s].op = "pin" /\ r(s) = E
         /\ \/ guesses' = 0 /\ Moves(s, [job[s].copy EXCEPT !.pin = 0], Save \o O)
            \/ /\ guesses' = IF guesses > PinTries THEN guesses ELSE guesses + 1
               /\ \/ Moves(s, [job[s].copy EXCEPT !.pin = None], Save \o E)
                  \/ Moves(s, job[s].copy, E)
<1>1. Busy(s) /\ h(s) = "pin_check"
  BY DEF PinCheck, At, h
<1>2. PlanAt(job[s].op, "pin_check", r(s)) /\ r(s) \in Seq(Steps)
  BY <1>1, BusyFits
<1>3. /\ job[s].op = "pin" /\ r(s) = E
      /\ (Save \o <<"open">>) \o r(s) = Save \o O
      /\ OnPlan(job[s].op, Save \o O) /\ OnPlan(job[s].op, Save \o r(s))
  BY <1>2, PinOnPlan
<1>4. Save \o O \in Seq(Steps) /\ Save \o E \in Seq(Steps)
  BY PlacesAreSeqs, Prefixed
<1>5. /\ [job[s].copy EXCEPT !.pin = 0] \in Stores
      /\ [job[s].copy EXCEPT !.pin = None] \in Stores
  BY <1>1, BusyFits DEF Stores
<1>6. ThenWith(s, [job[s].copy EXCEPT !.pin = 0], Save \o <<"open">>)
        => Moves(s, [job[s].copy EXCEPT !.pin = 0], Save \o O)
  BY <1>1, <1>3, <1>4, <1>5, GoesOnMoves DEF ThenWith, r
<1>7. ThenWith(s, [job[s].copy EXCEPT !.pin = None], Save)
        => Moves(s, [job[s].copy EXCEPT !.pin = None], Save \o E)
  BY <1>1, <1>3, <1>4, <1>5, GoesOnMoves DEF ThenWith, r
<1>8. Then(s, <<>>) => Moves(s, job[s].copy, E)
  BY <1>1, <1>3, ThenMoves
<1> QED BY <1>1, <1>3, <1>6, <1>7, <1>8 DEF PinCheck

LEMMA BiometricMoves ==
  ASSUME OnPlans, NEW s \in Screens, BiometricAsk(s)
  PROVE  /\ Busy(s) /\ h(s) = "bio_ask"
         /\ \/ Moves(s, job[s].copy, r(s))
            \/ Moves(s, job[s].copy, E)
            \/ job[s].op = "bio" /\ Moves(s, job[s].copy, Q)
<1>1. Busy(s) /\ h(s) = "bio_ask"
  BY DEF BiometricAsk, At, h
<1>2. <<"edit">> = Q
  BY StepsAre, Sequels, Zenon DEF Q
<1>3. OnPlan("bio", Q)
  BY StepsLeft DEF OnPlan, PlanAt, InEdit
<1>4. job[s].op = "bio" /\ GoesOn(s, job[s].copy, <<"edit">>) => Moves(s, job[s].copy, Q)
  BY <1>1, <1>2, <1>3, BusyFits, PlacesAreSeqs, GoesOnMoves
<1> QED BY <1>1, <1>4, ThenMoves, AbortMoves DEF BiometricAsk

LEMMA VerifyMoves ==
  ASSUME OnPlans, NEW s \in Screens, Verify(s)
  PROVE  /\ Busy(s) /\ h(s) = "verify" /\ job[s].op = "init" /\ r(s) = O
         /\ \/ ~(RingOpens \/ FileOpens \/ AsksPassphrase) /\ Moves(s, job[s].copy, E)
            \/ (RingOpens \/ FileOpens \/ AsksPassphrase) /\ Moves(s, job[s].copy, O)
<1>1. Busy(s) /\ h(s) = "verify"
  BY DEF Verify, At, h
<1>2. job[s].op = "init" /\ r(s) = O
  <2>1. PlanAt(job[s].op, "verify", r(s))
    BY <1>1, BusyFits
  <2> QED BY <2>1 DEF PlanAt, InEdit, InSave, InRing, InTry, InCheck, ClearEarly, ClearLate
<1> QED BY <1>1, <1>2, ThenMoves, AbortMoves DEF Verify

LEMMA OpenMoves ==
  ASSUME OnPlans, NEW s \in Screens, Open(s)
  PROVE  /\ Busy(s) /\ h(s) = "open" /\ r(s) = E /\ Moves(s, job[s].copy, E)
         /\ job[s].op \in {"launch", "unlock", "init", "pin", "bio"}
<1>1. Busy(s) /\ h(s) = "open"
  BY DEF Open, At, h
<1>2. r(s) = E /\ job[s].op \in {"launch", "unlock", "init", "pin", "bio"}
  <2>1. PlanAt(job[s].op, "open", r(s))
    BY <1>1, BusyFits
  <2> QED BY <2>1 DEF PlanAt, InEdit, InSave, InRing, InTry, InCheck, ClearEarly, ClearLate
<1> QED BY <1>1, <1>2, ThenMoves DEF Open

\* A step of s moves the command of s and touches nothing else of Phases.
LEMMA StepMoves ==
  ASSUME OnPlans, NEW s \in Screens, Step(s)
  PROVE  /\ Busy(s)
         /\ \E copy, rest : Moves(s, copy, rest)
         /\ ring' = ring
         /\ phase' = phase \/ (Open(s) /\ phase' = "open")
<1> USE DEF counts, files, history, Quiet
<1>1. CASE Truncate(s)
  BY <1>1, TruncateMoves DEF Truncate
<1>2. CASE Write(s)
  BY <1>2, WriteMoves DEF Write
<1>3. CASE TruncateSecret(s) \/ WriteSecret(s) \/ RemoveSecret(s)
  BY <1>3, SecretMoves DEF TruncateSecret, WriteSecret, RemoveSecret
<1>4. CASE FileError(s)
  BY <1>4, ErrorMoves DEF FileError
<1>5. CASE Edit(s)
  BY <1>5, EditMoves DEF Edit
<1>6. CASE RingWrap(s)
  BY <1>6, RingMoves DEF RingWrap
<1>7. CASE Check(s)
  BY <1>7, CheckMoves DEF Check
<1>8. CASE Upgrade(s)
  BY <1>8, UpgradeMoves DEF Upgrade
<1>9. CASE Repair(s)
  BY <1>9, RepairMoves DEF Repair
<1>10. CASE SameKey(s)
  BY <1>10, SameKeyMoves DEF SameKey
<1>11. CASE PinCount(s)
  BY <1>11, PinCountMoves DEF PinCount
<1>12. CASE PinCheck(s)
  BY <1>12, PinCheckMoves DEF PinCheck
<1>13. CASE BiometricAsk(s)
  BY <1>13, BiometricMoves DEF BiometricAsk
<1>14. CASE Verify(s)
  BY <1>14, VerifyMoves DEF Verify
<1>15. CASE Open(s)
  BY <1>15, OpenMoves DEF Open
<1> QED BY <1>1, <1>2, <1>3, <1>4, <1>5, <1>6, <1>7, <1>8, <1>9, <1>10, <1>11, <1>12,
           <1>13, <1>14, <1>15 DEF Step

\* The variables other than job keep their types over a step.
LEMMA StepTypes ==
  ASSUME OnPlans, NEW s \in Screens, Step(s)
  PROVE  /\ ks' \in Stores \cup {Absent, Torn}
         /\ secret' \in {"none", "torn", "whole"}
         /\ data' \in BOOLEAN /\ midway' \in BOOLEAN
         /\ ring' \in Keks \cup {Locked, None, NoKeyring}
         /\ phase' \in {"off", "boot", "setup", "locked", "open", "fatal"}
         /\ errors' \in 0..MaxErrors /\ crashes' \in 0..MaxCrashes
         /\ guesses' \in 0..PinTries + 1
<1> USE DEF counts, files, history, Quiet, OnPlans, TypeOK
<1>1. CASE Write(s)
  <2>1. job[s].copy \in Stores
    BY <1>1, BusyFits DEF Write, At
  <2> QED BY <1>1, <2>1, KeystoreAssumption DEF Write
<1>2. CASE FileError(s)
  BY <1>2, KeystoreAssumption DEF FileError
<1>3. CASE PinCheck(s)
  BY <1>3, KeystoreAssumption DEF PinCheck
<1>4. CASE Truncate(s) \/ TruncateSecret(s) \/ WriteSecret(s) \/ RemoveSecret(s)
  BY <1>4 DEF Truncate, TruncateSecret, WriteSecret, RemoveSecret
<1>5. CASE Edit(s) \/ RingWrap(s) \/ Check(s) \/ Upgrade(s) \/ Repair(s) \/ SameKey(s)
           \/ PinCount(s) \/ BiometricAsk(s) \/ Verify(s) \/ Open(s)
  BY <1>5 DEF Edit, RingWrap, Check, Upgrade, Repair, SameKey, PinCount, BiometricAsk,
              Verify, Open
<1> QED BY <1>1, <1>2, <1>3, <1>4, <1>5 DEF Step

\* One command moved: it fits, the others are as they were.
LEMMA MovedFits ==
  ASSUME OnPlans, NEW s \in Screens, Busy(s), NEW copy, NEW rest, Moves(s, copy, rest)
  PROVE  /\ job' \in [Screens -> Jobs] /\ \A t \in Screens : Fits(t, job'[t])
         /\ job'[s] = On(job[s], copy, rest) /\ job'[s].todo = rest
         /\ rest = E => job'[s] = Idle
         /\ rest # E => /\ job'[s].op = job[s].op /\ job'[s].copy = copy
                        /\ job'[s].phrase = job[s].phrase /\ job'[s].flag = job[s].flag
         /\ \A t \in Screens \ {s} : job'[t] = job[t]
<1>1. job[s] \in Jobs /\ Fits(s, job[s]) /\ job[s].todo # E
  BY BusyFits DEF OnPlans
<1>2. On(job[s], copy, rest) \in Jobs /\ Fits(s, On(job[s], copy, rest))
  BY <1>1, OnFits DEF Moves
<1>3. job'[s] = On(job[s], copy, rest) /\ \A t \in Screens \ {s} : job'[t] = job[t]
  BY DEF Moves, OnPlans, TypeOK
<1>4. job' \in [Screens -> Jobs]
  BY <1>2 DEF Moves, OnPlans, TypeOK
<1>5. \A t \in Screens : Fits(t, job'[t])
  BY <1>2, <1>3 DEF OnPlans
<1> QED BY <1>1, <1>3, <1>4, <1>5, OnFits DEF Moves

LEMMA StepOnPlans ==
  ASSUME OnPlans, NEW s \in Screens, Step(s)
  PROVE  OnPlans'
<1>1. PICK copy, rest : Moves(s, copy, rest)
  BY StepMoves
<1>2. Busy(s) /\ ring' = ring /\ (phase' = phase \/ (Open(s) /\ phase' = "open"))
  BY StepMoves
<1>3. /\ job' \in [Screens -> Jobs] /\ \A t \in Screens : Fits(t, job'[t])
      /\ job'[s].todo = rest
      /\ rest # E => job'[s].op = job[s].op
      /\ \A t \in Screens \ {s} : job'[t] = job[t]
  BY <1>1, <1>2, MovedFits
<1>4. TypeOK'
  BY <1>3, StepTypes DEF TypeOK
<1>5. \A t \in Screens : Busy(t)' => Busy(t) /\ job'[t].op = job[t].op
  BY <1>2, <1>3 DEF Busy, E
<1>6. Phases'
  <2>1. CASE phase' = phase
    BY <1>2, <1>5, <2>1 DEF Phases, OnPlans, Phone, Screens
  <2>2. CASE Open(s) /\ phase' = "open"
    <3>1. ~Busy(s)' /\ s = "boot"
      <4>1. Moves(s, job[s].copy, E) /\ job[s].op \in {"launch", "unlock", "init", "pin", "bio"}
        BY <2>2, OpenMoves
      <4>2. job'[s].todo = E
        BY <1>2, <4>1, MovedFits
      <4>3. job[s].op \in OpsOf(s)
        BY <1>2, BusyFits
      <4> QED BY <4>1, <4>2, <4>3 DEF Busy, E, OpsOf, Screens
    <3> QED BY <1>2, <1>5, <2>2, <3>1 DEF Phases, OnPlans, Phone, Screens
  <2> QED BY <1>2, <2>1, <2>2
<1> QED BY <1>3, <1>4, <1>6 DEF OnPlans

----------------------------------------------------------------------------
(* Commands begin on their plan *)

LEMMA Beginnings ==
  /\ <<"ring", "open">> = Cons("ring", O)
  /\ <<"check", "open">> = Cons("check", O)
  /\ <<"pin_count", "pin_check">> = Cons("pin_count", P)
  /\ <<"bio_ask", "open">> = Cons("bio_ask", O)
  /\ <<"edit">> = Q
  /\ <<"check", "same_key", "edit">> = Cons("check", QK)
  /\ <<"check", "same_key", "bio_ask", "edit">> = Cons("check", BK)
  /\ <<"edit">> \o <<>> = Q /\ <<"edit">> \o <<"ring">> = ER
  /\ (<<"edit">> \o <<>>) \o <<"sec_remove">> = Cons("edit", Drop)
  /\ (<<"edit">> \o <<"ring">>) \o <<"sec_remove">> = Cons("edit", RD)
  /\ (<<"check", "same_key">> \o SaveSecret) \o <<"edit", "ring">> = Cons("check", CK)
  /\ (Save \o SaveSecret) \o <<"verify", "open">> = Save \o FileTrunc
  /\ (Save \o <<"check">>) \o <<"verify", "open">> = Save \o CV
<1>1. /\ "ring" \in Steps /\ "open" \in Steps /\ "check" \in Steps /\ "pin_count" \in Steps
      /\ "pin_check" \in Steps /\ "bio_ask" \in Steps /\ "edit" \in Steps
      /\ "same_key" \in Steps /\ "sec_remove" \in Steps /\ "verify" \in Steps
      /\ "sec_trunc" \in Steps /\ "sec_write" \in Steps
  BY StepsAre
<1>2. /\ <<"ring", "open">> = Cons("ring", O)
      /\ <<"check", "open">> = Cons("check", O)
      /\ <<"pin_count", "pin_check">> = Cons("pin_count", P)
      /\ <<"bio_ask", "open">> = Cons("bio_ask", O)
  <2>1. <<"ring", "open">> = Cons("ring", O)
    BY <1>1, Sequels, Zenon DEF O
  <2>2. <<"check", "open">> = Cons("check", O)
    BY <1>1, Sequels, Zenon DEF O
  <2>3. <<"pin_count", "pin_check">> = Cons("pin_count", P)
    BY <1>1, Sequels, Zenon DEF P
  <2>4. <<"bio_ask", "open">> = Cons("bio_ask", O)
    BY <1>1, Sequels, Zenon DEF O
  <2> QED BY <2>1, <2>2, <2>3, <2>4
<1>3. <<"edit">> = Q /\ <<"ring">> = R /\ <<"sec_remove">> = Drop
  BY <1>1, Sequels, Zenon DEF Q, R, Drop
<1>4. <<"same_key", "edit">> = QK /\ <<"bio_ask", "edit">> = B
  BY <1>1, Sequels, Zenon DEF Q, QK, B
<1>5. <<"check", "same_key", "edit">> = Cons("check", QK)
  BY <1>1, <1>4, Triple
<1>6. <<"same_key", "bio_ask", "edit">> = BK
  BY <1>1, <1>4, Triple DEF BK
<1>7. <<"check", "same_key", "bio_ask", "edit">> = Cons("check", BK)
  BY <1>1, <1>6, Quadruple
<1>8. <<"edit">> \o <<>> = Q /\ <<"edit">> \o <<"ring">> = ER
  BY <1>3 DEF Q, ER, Cons, E
<1>9. <<"edit">> \in Seq(Steps) /\ <<"ring">> \in Seq(Steps) /\ <<>> \in Seq(Steps)
      /\ <<"sec_remove">> \in Seq(Steps)
  BY <1>1
<1>10. (<<"edit">> \o <<>>) \o <<"sec_remove">> = Cons("edit", Drop)
  <2>1. (<<"edit">> \o <<>>) \o <<"sec_remove">> = <<"edit">> \o (<<>> \o <<"sec_remove">>)
    BY <1>9, ConcatAssociative
  <2>2. <<>> \o <<"sec_remove">> = <<"sec_remove">>
    BY <1>9, Sequels
  <2> QED BY <1>3, <2>1, <2>2 DEF Cons
<1>11. (<<"edit">> \o <<"ring">>) \o <<"sec_remove">> = Cons("edit", RD)
  <2>1. (<<"edit">> \o <<"ring">>) \o <<"sec_remove">>
          = <<"edit">> \o (<<"ring">> \o <<"sec_remove">>)
    BY <1>9, ConcatAssociative
  <2>2. <<"ring">> \o <<"sec_remove">> = RD
    BY <1>3 DEF RD, Cons
  <2> QED BY <2>1, <2>2 DEF Cons
<1>12. SaveSecret \in Seq(Steps) /\ Save \in Seq(Steps) /\ <<"check">> \in Seq(Steps)
       /\ <<"check", "same_key">> \in Seq(Steps) /\ <<"edit", "ring">> \in Seq(Steps)
       /\ <<"verify", "open">> \in Seq(Steps)
  BY <1>1, StepsAre DEF SaveSecret, Save
<1>13. <<"edit", "ring">> = ER /\ <<"verify", "open">> = V
  BY <1>1, Sequels, Zenon DEF ER, R, V, O
<1>14. SaveSecret \o ER = CT /\ SaveSecret \o V = FileTrunc
  <2>1. ASSUME NEW t \in Seq(Steps)
        PROVE  SaveSecret \o t = Cons("sec_trunc", Cons("sec_write", t))
    <3>1. "sec_trunc" \in Steps /\ "sec_write" \in Steps
      BY <1>1
    <3> QED BY <3>1, Sequels, Zenon DEF SaveSecret
  <2> QED BY <2>1, PlacesAreSeqs DEF CT, CW, FileTrunc, FileWrite
<1>15. (<<"check", "same_key">> \o SaveSecret) \o <<"edit", "ring">> = Cons("check", CK)
  <2>1. (<<"check", "same_key">> \o SaveSecret) \o <<"edit", "ring">>
          = <<"check", "same_key">> \o (SaveSecret \o <<"edit", "ring">>)
    BY <1>12, ConcatAssociative
  <2>2. ASSUME NEW t \in Seq(Steps)
        PROVE  <<"check", "same_key">> \o t = Cons("check", Cons("same_key", t))
    <3>1. "check" \in Steps /\ "same_key" \in Steps
      BY <1>1
    <3> QED BY <3>1, Sequels, Zenon
  <2> QED BY <1>13, <1>14, <2>1, <2>2, PlacesAreSeqs DEF CK
<1>16. (Save \o SaveSecret) \o <<"verify", "open">> = Save \o FileTrunc
  <2>1. (Save \o SaveSecret) \o <<"verify", "open">> = Save \o (SaveSecret \o <<"verify", "open">>)
    BY <1>12, ConcatAssociative
  <2> QED BY <1>13, <1>14, <2>1
<1>17. (Save \o <<"check">>) \o <<"verify", "open">> = Save \o CV
  <2>1. (Save \o <<"check">>) \o <<"verify", "open">> 
       = Save \o (<<"check">> \o <<"verify", "open">>)
    BY <1>12, ConcatAssociative
  <2> QED BY <1>13, <2>1 DEF CV, Cons
<1> QED BY <1>2, <1>3, <1>5, <1>7, <1>8, <1>10, <1>11, <1>15, <1>16, <1>17

\* A command of screen s begins with these steps.
Begins(s, op, phrase, flag, copy, todo) ==
    /\ job' = [job EXCEPT ![s] = [op |-> op, phrase |-> phrase, flag |-> flag,
                                  copy |-> copy, todo |-> todo]]
    /\ ~Busy(s)
    /\ todo \in Seq(Steps) /\ todo # E /\ OnPlan(op, todo)
    /\ op \in OpsOf(s) /\ flag \in BOOLEAN /\ copy \in Stores
    /\ phrase \in Phrases \cup {None} /\ (op \in Typed => phrase \in Phrases)

LEMMA BegunFits ==
  ASSUME OnPlans, NEW s \in Screens, NEW op, NEW phrase, NEW flag, NEW copy, NEW todo,
         Begins(s, op, phrase, flag, copy, todo)
  PROVE  /\ job' \in [Screens -> Jobs] /\ \A t \in Screens : Fits(t, job'[t])
         /\ job'[s] = [op |-> op, phrase |-> phrase, flag |-> flag, copy |-> copy,
                       todo |-> todo]
         /\ job'[s].op = op /\ job'[s].todo = todo /\ job'[s].copy = copy
         /\ job'[s].phrase = phrase
         /\ Busy(s)'
         /\ \A t \in Screens \ {s} : job'[t] = job[t]
<1> DEFINE n == [op |-> op, phrase |-> phrase, flag |-> flag, copy |-> copy, todo |-> todo]
<1>1. op \in Ops
  BY DEF Begins, OpsOf, Ops
<1>2. n \in Jobs /\ n.todo = todo /\ n.op = op /\ n.phrase = phrase /\ n.copy = copy
  BY <1>1 DEF Begins, Jobs
<1> HIDE DEF n
<1>3. Fits(s, n)
  BY <1>2 DEF Begins, Fits, OnPlan
<1>4. job' = [job EXCEPT ![s] = n]
  BY DEF Begins, n
<1>5. job'[s] = n /\ \A t \in Screens \ {s} : job'[t] = job[t]
  BY <1>4 DEF OnPlans, TypeOK
<1>6. job' \in [Screens -> Jobs]
  BY <1>2, <1>4 DEF OnPlans, TypeOK
<1>7. \A t \in Screens : Fits(t, job'[t])
  BY <1>3, <1>5 DEF OnPlans
<1>8. Busy(s)'
  BY <1>2, <1>5 DEF Busy, Begins, E
<1>9. /\ job'[s].op = op /\ job'[s].todo = todo /\ job'[s].copy = copy
      /\ job'[s].phrase = phrase
  BY <1>2, <1>5
<1> QED BY <1>5, <1>6, <1>7, <1>8, <1>9 DEF n

\* On a phone nothing else is running when a command begins.
LEMMA StartBegins ==
  ASSUME OnPlans, PhoneWaits, NEW s \in Screens, NEW op, NEW phrase, NEW flag, NEW todo,
         Start(s, op, phrase, flag, todo),
         todo \in Seq(Steps), todo # E, OnPlan(op, todo),
         op \in OpsOf(s), flag \in BOOLEAN,
         phrase \in Phrases \cup {None}, op \in Typed => phrase \in Phrases
  PROVE  Begins(s, op, phrase, flag, Blank, todo) /\ (Phone => AllIdle)
<1>1. ~Busy(s) /\ (Phone => AllIdle)
  BY DEF Start, MayStart, AllIdle, Platform, PhoneWaits
<1> QED BY <1>1, IdleFits DEF Start, Begins

\* The first step and those after it.
LEMMA Begun ==
  ASSUME NEW x, NEW step \in Steps, NEW t \in Seq(Steps), x = Cons(step, t), NEW op,
         PlanAt(op, step, t)
  PROVE  x \in Seq(Steps) /\ x # E /\ OnPlan(op, x) /\ Head(x) = step /\ Tail(x) = t
BY ConsIs DEF OnPlan

LEMMA LaunchBegins ==
  ASSUME OnPlans, PhoneWaits, Start("boot", "launch", None, FALSE, <<"ring", "open">>)
  PROVE  /\ Begins("boot", "launch", None, FALSE, Blank, Cons("ring", O))
         /\ Phone => AllIdle
<1>1. "ring" \in Steps /\ PlanAt("launch", "ring", O)
  BY StepsAre DEF PlanAt, InRing
<1>2. <<"ring", "open">> = Cons("ring", O)
  BY Beginnings
<1> QED BY <1>1, <1>2, Begun, PlacesAreSeqs, StartBegins DEF Screens, OpsOf, Typed

\* What is written first: every mode but "file" wraps the key under p.
InitCopy(mode, p) ==
    [Blank EXCEPT !.keyring = IF mode = "keyring" THEN ring ELSE None,
                  !.pass = IF mode = "file" THEN None ELSE p,
                  !.ask = (mode = "passphrase")]

LEMMA InitializeBegins ==
  ASSUME OnPlans, NEW mode, NEW p \in Phrases, Initialize(mode, p)
  PROVE  Begins("boot", "init", p, FALSE, InitCopy(mode, p),
                IF mode = "file" THEN Save \o FileTrunc ELSE Save \o CV)
<1>1. InitCopy(mode, p) \in Stores
  <2>1. mode = "keyring" => ring \in Keks
    BY DEF Initialize
  <2> QED BY <2>1, IdleFits DEF InitCopy, Stores
<1>2. /\ PlanAt("init", "trunc", Cons("write", FileTrunc))
      /\ PlanAt("init", "trunc", Cons("write", CV))
  BY DEF PlanAt, InSave
<1>3. /\ Save \o FileTrunc \in Seq(Steps) /\ Save \o FileTrunc # E
      /\ OnPlan("init", Save \o FileTrunc)
      /\ Save \o CV \in Seq(Steps) /\ Save \o CV # E /\ OnPlan("init", Save \o CV)
  <2>1. /\ Save \o FileTrunc \in Seq(Steps) /\ Save \o FileTrunc # E
        /\ Head(Save \o FileTrunc) = "trunc"
        /\ Tail(Save \o FileTrunc) = Cons("write", FileTrunc)
    BY PlacesAreSeqs, Prefixed
  <2>2. /\ Save \o CV \in Seq(Steps) /\ Save \o CV # E
        /\ Head(Save \o CV) = "trunc" /\ Tail(Save \o CV) = Cons("write", CV)
    BY PlacesAreSeqs, Prefixed
  <2> QED BY <1>2, <2>1, <2>2 DEF OnPlan
<1>4. Save \o (IF mode = "file" THEN SaveSecret ELSE <<"check">>) \o <<"verify", "open">>
        = IF mode = "file" THEN Save \o FileTrunc ELSE Save \o CV
  BY Beginnings
<1>5. ~Busy("boot")
  BY DEF Initialize
<1>6. job' = [job EXCEPT !["boot"] =
                [op |-> "init", phrase |-> p, flag |-> FALSE, copy |-> InitCopy(mode, p),
                 todo |-> IF mode = "file" THEN Save \o FileTrunc ELSE Save \o CV]]
  BY <1>4 DEF Initialize, InitCopy
<1> QED BY <1>1, <1>3, <1>5, <1>6 DEF Begins, OpsOf, Typed

LEMMA UnlockBegins ==
  ASSUME OnPlans, PhoneWaits, NEW p \in Phrases, Unlock(p)
  PROVE  /\ Begins("boot", "unlock", p, FALSE, Blank, Cons("check", O))
         /\ Phone => AllIdle
<1>1. "check" \in Steps /\ PlanAt("unlock", "check", O)
  BY StepsAre DEF PlanAt, InCheck
<1>2. Start("boot", "unlock", p, FALSE, Cons("check", O))
  BY Beginnings DEF Unlock
<1>3. Cons("check", O) \in Seq(Steps) /\ Cons("check", O) # E
      /\ OnPlan("unlock", Cons("check", O))
  BY <1>1, Begun, PlacesAreSeqs
<1> QED BY <1>2, <1>3, StartBegins DEF Screens, OpsOf, Typed

LEMMA PinBegins ==
  ASSUME OnPlans, PhoneWaits, NEW right \in BOOLEAN, UnlockPin(right)
  PROVE  /\ Begins("boot", "pin", None, right, Blank, Cons("pin_count", P))
         /\ Phone => AllIdle
<1>1. "pin_count" \in Steps /\ PlanAt("pin", "pin_count", P)
  BY StepsAre DEF PlanAt
<1>2. Start("boot", "pin", None, right, Cons("pin_count", P))
  BY Beginnings DEF UnlockPin
<1>3. Cons("pin_count", P) \in Seq(Steps) /\ Cons("pin_count", P) # E
      /\ OnPlan("pin", Cons("pin_count", P))
  BY <1>1, Begun, PlacesAreSeqs
<1> QED BY <1>2, <1>3, StartBegins DEF Screens, OpsOf, Typed

LEMMA BiometricBegins ==
  ASSUME OnPlans, PhoneWaits, UnlockBiometric
  PROVE  /\ Begins("boot", "bio", None, FALSE, Blank, Cons("bio_ask", O))
         /\ Phone => AllIdle
<1>1. "bio_ask" \in Steps /\ PlanAt("bio", "bio_ask", O)
  BY StepsAre DEF PlanAt
<1>2. Start("boot", "bio", None, FALSE, Cons("bio_ask", O))
  BY Beginnings DEF UnlockBiometric
<1>3. Cons("bio_ask", O) \in Seq(Steps) /\ Cons("bio_ask", O) # E
      /\ OnPlan("bio", Cons("bio_ask", O))
  BY <1>1, Begun, PlacesAreSeqs
<1> QED BY <1>2, <1>3, StartBegins DEF Screens, OpsOf, Typed

LEMMA SetPassphraseBegins ==
  ASSUME OnPlans, PhoneWaits, NEW p \in Phrases, NEW always \in BOOLEAN,
         SetPassphrase(p, always)
  PROVE  /\ Begins("master", "setpass", p, always, Blank,
                   Cons("edit", IF always THEN Drop ELSE RD))
         /\ Phone => AllIdle
<1>1. /\ "edit" \in Steps
      /\ PlanAt("setpass", "edit", Drop) /\ PlanAt("setpass", "edit", RD)
  BY StepsAre DEF PlanAt, InEdit
<1>2. <<"edit">> \o (IF always THEN <<>> ELSE <<"ring">>) \o <<"sec_remove">>
        = Cons("edit", IF always THEN Drop ELSE RD)
  BY Beginnings
<1>3. Start("master", "setpass", p, always, Cons("edit", IF always THEN Drop ELSE RD))
  BY <1>2 DEF SetPassphrase
<1>4. (IF always THEN Drop ELSE RD) \in Seq(Steps)
  BY PlacesAreSeqs
<1> QED BY <1>1, <1>3, <1>4, Begun, StartBegins DEF Screens, OpsOf, Typed

LEMMA SetAskBegins ==
  ASSUME OnPlans, PhoneWaits, NEW always \in BOOLEAN, SetAlwaysAsk(always)
  PROVE  /\ Begins("master", "setask", None, always, Blank, IF always THEN Q ELSE ER)
         /\ Phone => AllIdle
<1>1. PlanAt("setask", "edit", E) /\ PlanAt("setask", "edit", R)
  BY DEF PlanAt, InEdit
<1>2. <<"edit">> \o (IF always THEN <<>> ELSE <<"ring">>) = IF always THEN Q ELSE ER
  BY Beginnings
<1>3. Start("master", "setask", None, always, IF always THEN Q ELSE ER)
  BY <1>2 DEF SetAlwaysAsk
<1>4. /\ (IF always THEN Q ELSE ER) \in Seq(Steps) /\ (IF always THEN Q ELSE ER) # E
      /\ OnPlan("setask", IF always THEN Q ELSE ER)
  BY <1>1, PlacesAreSeqs, StepsLeft DEF OnPlan
<1> QED BY <1>3, <1>4, StartBegins DEF Screens, OpsOf, Typed

LEMMA ClearPassphraseBegins ==
  ASSUME OnPlans, PhoneWaits, NEW p \in Phrases, ClearPassphrase(p)
  PROVE  /\ Begins("master", "clearpass", p, FALSE, Blank, Cons("check", CK))
         /\ Phone => AllIdle
<1>1. "check" \in Steps /\ PlanAt("clearpass", "check", CK)
  BY StepsAre DEF PlanAt, ClearEarly, InCheck
<1>2. Start("master", "clearpass", p, FALSE, Cons("check", CK))
  BY Beginnings DEF ClearPassphrase
<1>3. Cons("check", CK) \in Seq(Steps) /\ Cons("check", CK) # E
      /\ OnPlan("clearpass", Cons("check", CK))
  BY <1>1, Begun, PlacesAreSeqs
<1> QED BY <1>2, <1>3, StartBegins DEF Screens, OpsOf, Typed

\* What "Fingerprint and PIN" starts.
QuickTodo == {<<"setpin", Cons("check", QK)>>, <<"setbio", Cons("check", BK)>>,
              <<"clearpin", Q>>, <<"clearbio", Q>>}

LEMMA QuickBegins ==
  ASSUME OnPlans, PhoneWaits, QuickSection
  PROVE  /\ Phone /\ AllIdle /\ phase = "open" /\ Quiet
         /\ \E q \in QuickTodo : \E phrase :
               Begins("quick", q[1], phrase, FALSE, Blank, q[2])
<1>1. /\ "check" \in Steps /\ "edit" \in Steps
      /\ PlanAt("setpin", "check", QK) /\ PlanAt("setbio", "check", BK)
      /\ PlanAt("clearpin", "edit", E) /\ PlanAt("clearbio", "edit", E)
  BY StepsAre DEF PlanAt, InCheck, InEdit
<1>2. /\ Cons("check", QK) \in Seq(Steps) /\ Cons("check", QK) # E
      /\ OnPlan("setpin", Cons("check", QK))
  BY <1>1, Begun, PlacesAreSeqs
<1>3. /\ Cons("check", BK) \in Seq(Steps) /\ Cons("check", BK) # E
      /\ OnPlan("setbio", Cons("check", BK))
  BY <1>1, Begun, PlacesAreSeqs
<1>4. Q \in Seq(Steps) /\ Q # E /\ OnPlan("clearpin", Q) /\ OnPlan("clearbio", Q)
  BY <1>1, PlacesAreSeqs, StepsLeft DEF OnPlan
<1>5. ASSUME NEW p \in Phrases, SetPin(p)
      PROVE  /\ phase = "open" /\ Quiet /\ (Phone => AllIdle)
             /\ Begins("quick", "setpin", p, FALSE, Blank, Cons("check", QK))
  <2>1. Start("quick", "setpin", p, FALSE, Cons("check", QK)) /\ phase = "open" /\ Quiet
    BY <1>5, Beginnings DEF SetPin
  <2> QED BY <1>2, <2>1, StartBegins DEF Screens, OpsOf, Typed
<1>6. ASSUME NEW p \in Phrases, SetBiometric(p)
      PROVE  /\ phase = "open" /\ Quiet /\ (Phone => AllIdle)
             /\ Begins("quick", "setbio", p, FALSE, Blank, Cons("check", BK))
  <2>1. Start("quick", "setbio", p, FALSE, Cons("check", BK)) /\ phase = "open" /\ Quiet
    BY <1>6, Beginnings DEF SetBiometric
  <2> QED BY <1>3, <2>1, StartBegins DEF Screens, OpsOf, Typed
<1>7. ASSUME ClearPin
      PROVE  /\ phase = "open" /\ Quiet /\ (Phone => AllIdle)
             /\ Begins("quick", "clearpin", None, FALSE, Blank, Q)
  <2>1. Start("quick", "clearpin", None, FALSE, Q) /\ phase = "open" /\ Quiet
    BY <1>7, Beginnings DEF ClearPin
  <2> QED BY <1>4, <2>1, StartBegins DEF Screens, OpsOf, Typed
<1>8. ASSUME ClearBiometric
      PROVE  /\ phase = "open" /\ Quiet /\ (Phone => AllIdle)
             /\ Begins("quick", "clearbio", None, FALSE, Blank, Q)
  <2>1. Start("quick", "clearbio", None, FALSE, Q) /\ phase = "open" /\ Quiet
    BY <1>8, Beginnings DEF ClearBiometric
  <2> QED BY <1>4, <2>1, StartBegins DEF Screens, OpsOf, Typed
<1>9. Phone
  BY DEF QuickSection
<1>10. CASE \E p \in Phrases : SetPin(p)
  BY <1>5, <1>9, <1>10 DEF QuickTodo
<1>11. CASE \E p \in Phrases : SetBiometric(p)
  BY <1>6, <1>9, <1>11 DEF QuickTodo
<1>12. CASE ClearPin
  BY <1>7, <1>9, <1>12 DEF QuickTodo
<1>13. CASE ClearBiometric
  BY <1>8, <1>9, <1>13 DEF QuickTodo
<1> QED BY <1>10, <1>11, <1>12, <1>13 DEF QuickSection

\* A command that begins in a phase where it may fits beside the others.
LEMMA BegunOnPlans ==
  ASSUME OnPlans, NEW s \in Screens, NEW op, NEW phrase, NEW flag, NEW copy, NEW todo,
         Begins(s, op, phrase, flag, copy, todo),
         Phone => AllIdle, ring' = ring,
         s = "boot" => /\ phase' = IF op = "init" THEN "setup"
                                   ELSE IF op = "launch" THEN "boot" ELSE "locked"
                       /\ phase' = phase \/ AllIdle,
         s # "boot" => phase' = phase /\ phase = "open",
         s = "quick" => Phone
  PROVE  Phases' /\ job' \in [Screens -> Jobs] /\ \A t \in Screens : Fits(t, job'[t])
<1>1. /\ job' \in [Screens -> Jobs] /\ \A t \in Screens : Fits(t, job'[t])
      /\ job'[s].op = op
      /\ Busy(s)' /\ \A t \in Screens \ {s} : job'[t] = job[t]
  BY BegunFits
<1>2. \A t \in Screens \ {s} : (Busy(t)' <=> Busy(t)) /\ job'[t].op = job[t].op
  BY <1>1 DEF Busy
<1>3. \A t \in Screens : AllIdle => ~Busy(t)
  BY DEF AllIdle
<1>4. /\ "boot" \in Screens /\ "master" \in Screens /\ "quick" \in Screens
      /\ \A t \in Screens : t \in {"boot", "master", "quick"}
  BY DEF Screens
<1>5. Phone' = Phone
  BY DEF Phone
<1>6. CASE s = "boot"
  <2>1. /\ Busy("boot")' => phase' = IF job'["boot"].op = "init" THEN "setup"
                                     ELSE IF job'["boot"].op = "launch" THEN "boot"
                                     ELSE "locked"
    BY <1>1, <1>6
  <2>2. Busy("master")' \/ Busy("quick")' => phase' \in {"locked", "open"}
    BY <1>2, <1>3, <1>4, <1>6 DEF Phases, OnPlans
  <2>3. Busy("quick")' => Phone'
    BY <1>2, <1>4, <1>5, <1>6 DEF Phases, OnPlans
  <2>4. Phone' => \A t, u \in Screens : Busy(t)' /\ Busy(u)' => t = u
    BY <1>2, <1>3, <1>4, <1>5, <1>6
  <2> QED BY <1>1, <2>1, <2>2, <2>3, <2>4 DEF Phases
<1>7. CASE s # "boot"
  <2>1. ~Busy("boot") /\ phase' = "open"
    BY <1>7 DEF Phases, OnPlans
  <2>2. ~Busy("boot")'
    BY <1>2, <1>4, <1>7, <2>1
  <2>3. Busy("quick")' => Phone'
    BY <1>2, <1>4, <1>5 DEF Phases, OnPlans
  <2>4. Phone' => \A t, u \in Screens : Busy(t)' /\ Busy(u)' => t = u
    BY <1>2, <1>3, <1>4, <1>5
  <2> QED BY <1>1, <2>1, <2>2, <2>3, <2>4 DEF Phases
<1> QED BY <1>6, <1>7

LEMMA OffMeansIdle ==
  ASSUME OnPlans, phase \notin {"boot", "setup", "locked", "open"}
  PROVE  AllIdle
BY DEF OnPlans, Phases, AllIdle, Screens

LEMMA LaunchOnPlans ==
  ASSUME OnPlans, PhoneWaits, Launch
  PROVE  OnPlans'
<1>1. AllIdle /\ ring' = ring /\ UNCHANGED <<ks, secret, data, errors, crashes, guesses, midway>>
  BY OffMeansIdle DEF Launch, files, counts, history
<1>2. phase' \in {"off", "boot", "setup", "locked", "open", "fatal"}
  BY DEF Launch
<1>3. CASE job' = job
  <2>1. \A t \in Screens : ~Busy(t) /\ ~Busy(t)'
    BY <1>1, <1>3 DEF AllIdle, Busy
  <2>2. Phases'
    BY <2>1 DEF Phases, Screens
  <2> QED BY <1>1, <1>2, <1>3, <2>2 DEF OnPlans, TypeOK
<1>4. CASE phase' = "boot" /\ Start("boot", "launch", None, FALSE, <<"ring", "open">>)
  <2>1. Begins("boot", "launch", None, FALSE, Blank, Cons("ring", O))
    BY <1>4, LaunchBegins
  <2>2. Phases' /\ job' \in [Screens -> Jobs] /\ \A t \in Screens : Fits(t, job'[t])
    BY <1>1, <1>4, <2>1, BegunOnPlans DEF Screens
  <2> QED BY <1>1, <1>2, <2>2 DEF OnPlans, TypeOK
<1> QED BY <1>3, <1>4 DEF Launch

LEMMA CommandOnPlans ==
  ASSUME OnPlans, PhoneWaits, BootScreen \/ MasterSection \/ QuickSection
  PROVE  OnPlans'
<1> DEFINE Fine == Phases' /\ job' \in [Screens -> Jobs] /\ \A t \in Screens : Fits(t, job'[t])
<1>1. Quiet
  BY QuickBegins DEF BootScreen, MasterSection, Initialize, Unlock, UnlockPin, UnlockBiometric,
     SetPassphrase, SetAlwaysAsk, ClearPassphrase
<1>2. ring' = ring /\ phase' = phase
  BY <1>1 DEF Quiet
<1>3. "boot" \in Screens /\ "master" \in Screens /\ "quick" \in Screens
  BY DEF Screens
<1>4. ASSUME NEW mode, NEW p \in Phrases, Initialize(mode, p)
      PROVE  Fine
  <2>1. phase = "setup"
    BY <1>4 DEF Initialize
  <2>2. AllIdle
    BY <1>4, <2>1 DEF Initialize, AllIdle, Phases, OnPlans, Screens
  <2> QED BY <1>2, <1>3, <1>4, <2>1, <2>2, InitializeBegins, BegunOnPlans
<1>5. ASSUME NEW p \in Phrases, Unlock(p)
      PROVE  Fine
  <2>1. phase = "locked"
    BY <1>5 DEF Unlock
  <2> QED BY <1>2, <1>3, <1>5, <2>1, UnlockBegins, BegunOnPlans
<1>6. ASSUME NEW right \in BOOLEAN, UnlockPin(right)
      PROVE  Fine
  <2>1. phase = "locked"
    BY <1>6 DEF UnlockPin
  <2> QED BY <1>2, <1>3, <1>6, <2>1, PinBegins, BegunOnPlans
<1>7. ASSUME UnlockBiometric
      PROVE  Fine
  <2>1. phase = "locked"
    BY <1>7 DEF UnlockBiometric
  <2> QED BY <1>2, <1>3, <1>7, <2>1, BiometricBegins, BegunOnPlans
<1>8. ASSUME NEW p \in Phrases, NEW always \in BOOLEAN, SetPassphrase(p, always)
      PROVE  Fine
  <2>1. phase = "open"
    BY <1>8 DEF SetPassphrase
  <2> QED BY <1>2, <1>3, <1>8, <2>1, SetPassphraseBegins, BegunOnPlans
<1>9. ASSUME NEW always \in BOOLEAN, SetAlwaysAsk(always)
      PROVE  Fine
  <2>1. phase = "open"
    BY <1>9 DEF SetAlwaysAsk
  <2> QED BY <1>2, <1>3, <1>9, <2>1, SetAskBegins, BegunOnPlans
<1>10. ASSUME NEW p \in Phrases, ClearPassphrase(p)
       PROVE  Fine
  <2>1. phase = "open"
    BY <1>10 DEF ClearPassphrase
  <2> QED BY <1>2, <1>3, <1>10, <2>1, ClearPassphraseBegins, BegunOnPlans
<1>11. ASSUME QuickSection
       PROVE  Fine
  <2>1. PICK q \in QuickTodo : \E phrase : Begins("quick", q[1], phrase, FALSE, Blank, q[2])
    BY <1>11, QuickBegins
  <2>2. PICK phrase : Begins("quick", q[1], phrase, FALSE, Blank, q[2])
    BY <2>1
  <2>3. Phone /\ AllIdle /\ phase = "open"
    BY <1>11, QuickBegins
  <2> QED BY <1>2, <1>3, <2>2, <2>3, BegunOnPlans
<1>12. Fine
  <2>1. CASE BootScreen
    BY <1>4, <1>5, <1>6, <1>7, <2>1 DEF BootScreen
  <2>2. CASE MasterSection
    BY <1>8, <1>9, <1>10, <2>2 DEF MasterSection
  <2> QED BY <1>11, <2>1, <2>2
<1> QED BY <1>1, <1>12 DEF OnPlans, TypeOK, Quiet, files, counts, history

LEMMA OthersOnPlans ==
  ASSUME OnPlans, PhoneWaits, Lock \/ SaveData \/ RingChanges \/ Quit \/ Crash \/ UNCHANGED vars
  PROVE  OnPlans'
<1> USE DEF files, counts, history
<1>1. TypeOK'
  <2>1. CASE Lock \/ SaveData \/ RingChanges \/ Quit
    BY <2>1 DEF Lock, SaveData, RingChanges, Quit, OnPlans, TypeOK
  <2>2. CASE Crash
    BY <2>2, IdleFits, KeystoreAssumption DEF Crash, OnPlans, TypeOK
  <2>3. CASE UNCHANGED vars
    BY <2>3 DEF vars, OnPlans, TypeOK
  <2> QED BY <2>1, <2>2, <2>3
<1>2. \A s \in Screens : Fits(s, job'[s])
  <2>1. CASE Crash
    BY <2>1, IdleFits DEF Crash
  <2>2. CASE job' = job
    BY <2>2 DEF OnPlans
  <2> QED BY <2>1, <2>2 DEF Lock, SaveData, RingChanges, Quit, vars
<1>3. \A s \in Screens : Busy(s)' => Busy(s) /\ job'[s].op = job[s].op
  <2>1. CASE Crash
    BY <2>1 DEF Crash, Busy, Idle
  <2>2. CASE job' = job
    BY <2>2 DEF Busy
  <2> QED BY <2>1, <2>2 DEF Lock, SaveData, RingChanges, Quit, vars
<1>4. "boot" \in Screens /\ "master" \in Screens /\ "quick" \in Screens
  BY DEF Screens
<1>5. Phases'
  <2>1. CASE Lock
    <3>1. phase = "open" /\ phase' = "locked" /\ ring' = ring
      BY <2>1 DEF Lock
    <3> QED BY <1>3, <1>4, <3>1 DEF Phases, OnPlans, Phone
  <2>2. CASE SaveData \/ UNCHANGED vars
    <3>1. phase' = phase /\ ring' = ring
      BY <2>2 DEF SaveData, vars
    <3> QED BY <1>3, <1>4, <3>1 DEF Phases, OnPlans, Phone
  <2>3. CASE RingChanges
    <3>1. phase' = phase /\ ~Phone /\ ~Phone'
      BY <2>3, NonesApart DEF RingChanges, Phone
    <3> QED BY <1>3, <1>4, <3>1 DEF Phases, OnPlans
  <2>4. CASE Quit
    <3>1. \A s \in Screens : ~Busy(s)'
      BY <1>3, <2>4 DEF Quit, AllIdle
    <3> QED BY <1>4, <3>1 DEF Phases
  <2>5. CASE Crash
    <3>1. \A s \in Screens : ~Busy(s)'
      BY <2>5 DEF Crash, Busy, Idle
    <3> QED BY <1>4, <3>1 DEF Phases
  <2> QED BY <2>1, <2>2, <2>3, <2>4, <2>5
<1> QED BY <1>1, <1>2, <1>5 DEF OnPlans

LEMMA InitOnPlans == Init => OnPlans
<1> SUFFICES ASSUME Init PROVE OnPlans
  OBVIOUS
<1>1. job \in [Screens -> Jobs] /\ \A s \in Screens : Fits(s, job[s]) /\ ~Busy(s)
  BY IdleFits DEF Init, Busy, Idle
<1>2. ks \in Stores \cup {Absent, Torn}
  BY IdleFits DEF Init, Stores
<1>3. TypeOK
  <2>1. /\ secret \in {"none", "torn", "whole"} /\ data \in BOOLEAN /\ midway \in BOOLEAN
        /\ ring \in Keks \cup {Locked, None, NoKeyring}
        /\ phase \in {"off", "boot", "setup", "locked", "open", "fatal"}
    BY DEF Init
  <2>2. errors \in 0..MaxErrors /\ crashes \in 0..MaxCrashes /\ guesses \in 0..PinTries + 1
    <3>1. MaxErrors \in Nat /\ MaxCrashes \in Nat /\ PinTries \in Nat
      BY KeystoreAssumption
    <3>2. errors = 0 /\ crashes = 0 /\ guesses = 0
      BY DEF Init
    <3> QED BY <3>1, <3>2
  <2> QED BY <1>1, <1>2, <2>1, <2>2 DEF TypeOK
<1>4. Phases
  BY <1>1 DEF Phases, Screens
<1> QED BY <1>1, <1>3, <1>4 DEF OnPlans

LEMMA NextOnPlans ==
  ASSUME OnPlans, PhoneWaits, [Next]_vars
  PROVE  OnPlans'
BY LaunchOnPlans, CommandOnPlans, OthersOnPlans, StepOnPlans DEF Next

\* Nothing holds a value it should not, and every command stands where its
\* own steps lead: the screens' commands never get into each other's.
THEOREM TypeCorrect ==
  ASSUME PhoneWaits
  PROVE  Spec => []TypeOK
<1>1. Init => OnPlans
  BY InitOnPlans
<1>2. OnPlans /\ [Next]_vars => OnPlans'
  BY NextOnPlans
<1>3. OnPlans => TypeOK
  BY DEF OnPlans
<1> QED BY <1>1, <1>2, <1>3, PTL DEF Spec

----------------------------------------------------------------------------
(* Nobody is locked out *)

\* What opens without the keyring, and from when on something must.
Opens(c) == c.pass # None \/ secret = "whole"
Founded == data \/ phase \in {"boot", "locked", "open"}

\* A keystore.json that may stand on the disk.
Sound(c) ==
    /\ c.keyring # None => Opens(c)
    /\ c.ask => c.keyring = None /\ c.pass # None
    /\ c.bio \/ c.pin # None => Phone /\ c.pass # None
    /\ Founded => Opens(c)

\* Those that do and those that are about to: a command's copy is written
\* whatever the file has become in between.
SaveSteps == {"trunc", "write", "try_trunc", "try_write"}
Saving(s) == Busy(s) /\ h(s) \in SaveSteps
Held == (IF Readable THEN {Loaded} ELSE {})
        \cup {job[s].copy : s \in {t \in Screens : Saving(t)}}

\* Commands during which the passphrase is the way in: from the first save of
\* initialize on, until clear_passphrase has the key in .secret, and in
\* set_passphrase from the save on, or with a lock in between.
KeepsPass(op, hh, rr) ==
    \/ op = "init" /\ hh \in {"check", "upgrade", "repair", "ring", "try_trunc", "try_write"}
    \/ op = "clearpass" /\ ClearEarly(hh, rr)
    \/ op = "setpass" /\ \/ phase = "locked"
                         \/ hh \in {"ring", "try_trunc", "try_write", "sec_remove"}
PassKept == \E s \in Screens : KeepsPass(job[s].op, h(s), r(s))

\* What a command relies on at each place.
FactsOf(op, hh, rr, c) ==
    /\ op = "setpass" /\ hh \in {"trunc", "write"} => c.pass # None
    /\ op = "init" /\ InSave(hh, rr, CV) => c.pass # None
    /\ op = "init" /\ (InSave(hh, rr, FileTrunc) \/ hh = "sec_trunc") => secret # "whole"
    /\ op = "init" /\ hh = "verify" /\ Readable => Opens(Loaded)
    /\ op = "init" /\ hh = "open" => Readable /\ Opens(Loaded)
    /\ op = "clearpass" /\ ClearLate(hh, rr) => secret = "whole"
    /\ op = "pin" /\ (InSave(hh, rr, P) \/ hh = "pin_check")
         => c.pin \in Nat /\ c.pass # None /\ Sound(c)
Facts(s) == FactsOf(job[s].op, h(s), r(s), job[s].copy)

Safe == /\ \A c \in Held : Sound(c)
        /\ PassKept => \A c \in Held : c.pass # None
        /\ \A s \in Screens : Facts(s)

LEMMA InHeld ==
  /\ Readable => Loaded \in Held
  /\ \A s \in Screens : Saving(s) => job[s].copy \in Held
  /\ \A d \in Held : \/ Readable /\ d = Loaded
                     \/ \E s \in Screens : Saving(s) /\ d = job[s].copy
BY DEF Held

\* Only initialize runs before there is a way in.
LEMMA BusyFounded ==
  ASSUME OnPlans, NEW s \in Screens, Busy(s)
  PROVE  /\ job[s].op # "init" => Founded
         /\ phase = "setup" => s = "boot" /\ job[s].op = "init"
         /\ job[s].op = "init" => phase = "setup"
                                  /\ s = "boot" /\ \A t \in Screens \ {s} : ~Busy(t)
<1>1. job[s].op \in OpsOf(s)
  BY BusyFits
<1>2. CASE s = "boot"
  BY <1>1, <1>2 DEF OnPlans, Phases, Founded, Screens
<1>3. CASE s # "boot"
  BY <1>1, <1>3 DEF OnPlans, Phases, Founded, Screens, OpsOf
<1> QED BY <1>2, <1>3

LEMMA NotBusyIdle ==
  ASSUME OnPlans, NEW s \in Screens, ~Busy(s)
  PROVE  job[s] = Idle /\ job[s].op = "none"
<1>1. Fits(s, job[s]) /\ job[s].todo = E
  BY DEF OnPlans, Busy, E
<1>2. job[s] = Idle
  BY <1>1 DEF Fits
<1>3. Idle.op = "none"
  BY DEF Idle
<1> QED BY <1>2, <1>3

LEMMA IdleFacts ==
  /\ \A hh, rr, c : FactsOf("none", hh, rr, c)
  /\ \A hh, rr : ~KeepsPass("none", hh, rr)
BY DEF FactsOf, KeepsPass

\* Where s stands after the move.
LEMMA MovedTo ==
  ASSUME OnPlans, NEW s \in Screens, Busy(s), NEW c, NEW rest, Moves(s, c, rest)
  PROVE  /\ \A t \in Screens \ {s} : /\ job'[t] = job[t] /\ (Busy(t)' <=> Busy(t))
                                     /\ h(t)' = h(t) /\ r(t)' = r(t)
         /\ rest = E => ~Busy(s)' /\ job'[s].op = "none"
         /\ rest # E => /\ Busy(s)' /\ job'[s].op = job[s].op /\ job'[s].copy = c
                        /\ h(s)' = Head(rest) /\ r(s)' = Tail(rest)
<1>1. /\ job'[s].todo = rest
      /\ rest = E => job'[s] = Idle
      /\ rest # E => job'[s].op = job[s].op /\ job'[s].copy = c
      /\ \A t \in Screens \ {s} : job'[t] = job[t]
  BY MovedFits
<1> QED BY <1>1 DEF Busy, h, r, E, Idle

\* What may be on the disk after the move: what might before, or the copy.
LEMMA HeldNext ==
  ASSUME OnPlans, NEW s \in Screens, Busy(s), NEW c, NEW rest, Moves(s, c, rest),
         ks' = ks \/ ks' = Torn \/ (ks' = job[s].copy /\ Saving(s))
  PROVE  \A d \in Held' : d \in Held \/ (d = c /\ rest # E /\ Head(rest) \in SaveSteps)
<1> SUFFICES ASSUME NEW d \in Held'
             PROVE  d \in Held \/ (d = c /\ rest # E /\ Head(rest) \in SaveSteps)
  OBVIOUS
<1>1. CASE Readable' /\ d = Loaded'
  <2>1. CASE ks' = ks
    BY <1>1, <2>1, InHeld DEF Readable, Loaded
  <2>2. CASE ks' = job[s].copy /\ Saving(s)
    <3>1. job[s].copy # Absent /\ job[s].copy # Torn
      BY BusyFits, NonesApart
    <3> QED BY <1>1, <2>2, <3>1, InHeld DEF Loaded
  <2> QED BY <1>1, <2>1, <2>2 DEF Readable
<1>2. CASE \E t \in Screens : Saving(t)' /\ d = job'[t].copy
  <2>1. PICK t \in Screens : Saving(t)' /\ d = job'[t].copy
    BY <1>2
  <2>2. CASE t = s
    BY <2>1, <2>2, MovedTo DEF Saving
  <2>3. CASE t # s
    <3>1. Saving(t) /\ d = job[t].copy
      BY <2>1, <2>3, MovedTo DEF Saving
    <3> QED BY <3>1, InHeld
  <2> QED BY <2>2, <2>3
<1>3. (Readable' /\ d = Loaded') \/ \E t \in Screens : Saving(t)' /\ d = job'[t].copy
  BY DEF Held
<1> QED BY <1>1, <1>2, <1>3

\* Nothing but a command and keystore.json changes.
Still == secret' = secret /\ data' = data /\ phase' = phase /\ ring' = ring

LEMMA StillSound ==
  ASSUME Still
  PROVE  /\ \A c : Sound(c)' <=> Sound(c)
         /\ \A c : Opens(c)' <=> Opens(c)
         /\ \A op, hh, rr : KeepsPass(op, hh, rr)' <=> KeepsPass(op, hh, rr)
<1>1. ASSUME NEW c PROVE (Sound(c)' <=> Sound(c)) /\ (Opens(c)' <=> Opens(c))
  BY DEF Still, Sound, Opens, Founded, Phone
<1>2. ASSUME NEW op, NEW hh, NEW rr PROVE KeepsPass(op, hh, rr)' <=> KeepsPass(op, hh, rr)
  BY DEF Still, KeepsPass
<1> QED BY <1>1, <1>2

\* The commands of the other screens rely on nothing that a move changes.
LEMMA OthersFacts ==
  ASSUME OnPlans, Safe, NEW s \in Screens, Busy(s), NEW c, NEW rest, Moves(s, c, rest), Still
  PROVE  \A t \in Screens \ {s} : Facts(t)'
<1> SUFFICES ASSUME NEW t \in Screens \ {s}
             PROVE  Facts(t)'
  OBVIOUS
<1>1. job'[t] = job[t] /\ h(t)' = h(t) /\ r(t)' = r(t)
  BY MovedTo
<1>2. job[t].op # "init"
  BY BusyFounded, NotBusyIdle
<1>3. Facts(t)
  BY DEF Safe
<1> DEFINE op == job[t].op
           hh == h(t)
           rr == r(t)
           d == job[t].copy
<1>4. FactsOf(op, hh, rr, d) /\ op # "init"
  BY <1>2, <1>3 DEF Facts
<1>5. PICK o, x, y, e : o = op /\ x = hh /\ y = rr /\ e = d
  OBVIOUS
<1>6. FactsOf(o, x, y, e) /\ o # "init"
  BY <1>4, <1>5
<1>7. FactsOf(o, x, y, e)'
  BY <1>6, StillSound DEF FactsOf, Still
<1>8. job'[t].op = o /\ h(t)' = x /\ r(t)' = y /\ job'[t].copy = e
  BY <1>1, <1>5
<1> QED BY <1>7, <1>8 DEF Facts

\* A step that leaves the rest as it was keeps everybody's way in, if the
\* copy it goes on with may be written.
LEMMA MoveSafe ==
  ASSUME OnPlans, Safe, NEW s \in Screens, Busy(s), NEW op, op = job[s].op,
         NEW c, NEW rest, Moves(s, c, rest), Still,
         ks' = ks \/ ks' = Torn \/ (ks' = job[s].copy /\ Saving(s)),
         rest # E /\ Head(rest) \in SaveSteps =>
            Sound(c) /\ (PassKept => c.pass # None),
         rest # E /\ KeepsPass(op, Head(rest), Tail(rest)) =>
            PassKept \/ \A d \in Held' : d.pass # None,
         rest # E => FactsOf(op, Head(rest), Tail(rest), c)'
  PROVE  Safe'
<1>1. \A d \in Held' : d \in Held \/ (d = c /\ rest # E /\ Head(rest) \in SaveSteps)
  BY HeldNext
<1>2. \A d \in Held' : Sound(d)'
  BY <1>1, StillSound DEF Safe
<1>3. PassKept => \A d \in Held' : d.pass # None
  BY <1>1 DEF Safe
<1>4. ASSUME PassKept' PROVE PassKept \/ \A d \in Held' : d.pass # None
  <2>1. PICK t \in Screens : KeepsPass(job[t].op, h(t), r(t))'
    BY <1>4 DEF PassKept
  <2>2. CASE t # s
    <3>1. job'[t].op = job[t].op /\ h(t)' = h(t) /\ r(t)' = r(t)
      BY <2>2, MovedTo
    <3>2. KeepsPass(job[t].op, h(t), r(t))
      BY <2>1, <3>1 DEF KeepsPass, Still
    <3> QED BY <3>2 DEF PassKept
  <2>3. CASE t = s
    <3>1. rest # E
      BY <2>1, <2>3, MovedTo DEF KeepsPass
    <3>2. job'[s].op = op /\ h(s)' = Head(rest) /\ r(s)' = Tail(rest)
      BY <3>1, MovedTo
    <3>3. KeepsPass(op, Head(rest), Tail(rest))
      BY <2>1, <2>3, <3>2 DEF KeepsPass, Still
    <3> QED BY <3>1, <3>3
  <2> QED BY <2>2, <2>3
<1>5. Facts(s)'
  <2>1. CASE rest = E
    BY <2>1, MovedTo DEF Facts, FactsOf
  <2>2. CASE rest # E
    <3>1. job'[s].op = op /\ h(s)' = Head(rest) /\ r(s)' = Tail(rest)
          /\ job'[s].copy = c
      BY <2>2, MovedTo
    <3> QED BY <2>2, <3>1 DEF Facts
  <2> QED BY <2>1, <2>2
<1>6. \A t \in Screens : Facts(t)'
  BY <1>5, OthersFacts
<1> QED BY <1>2, <1>3, <1>4, <1>6 DEF Safe

\* What a copy must have, restated for the forms it is made in.
LEMMA HeldGood ==
  ASSUME OnPlans, Safe, Readable
  PROVE  Loaded \in Stores /\ Sound(Loaded) /\ (PassKept => Loaded.pass # None)
BY InHeld, Readables DEF Safe, OnPlans

\* A command that is not initialize runs when there is a way in.
LEMMA LoadedOpens ==
  ASSUME OnPlans, Safe, Readable, NEW s \in Screens, Busy(s),
         job[s].op # "init" \/ PassKept
  PROVE  Opens(Loaded)
BY HeldGood, BusyFounded DEF Sound, Opens

LEMMA KeptBy ==
  ASSUME OnPlans, NEW s \in Screens, Busy(s), KeepsPass(job[s].op, h(s), r(s))
  PROVE  PassKept
BY DEF PassKept

\* A truncated file is written next.
LEMMA TruncateNext ==
  ASSUME NEW op, NEW hh \in {"trunc", "try_trunc"}, NEW rr, PlanAt(op, hh, rr)
  PROVE  \E rest \in Seq(Steps) :
            /\ rr = Cons(IF hh = "trunc" THEN "write" ELSE "try_write", rest) /\ rr # E
            /\ Head(rr) = (IF hh = "trunc" THEN "write" ELSE "try_write")
            /\ Tail(rr) = rest
<1>1. \A rest \in Seq(Steps) : Cons("repair", rest) \in Seq(Steps)
  BY InnerFacts
<1>2. CASE hh = "trunc"
  <2>1. PICK rest \in Seq(Steps) : rr = Cons("write", rest)
    BY <1>2, PlacesAreSeqs
       DEF PlanAt, InEdit, InSave, InRing, InTry, InCheck, ClearEarly, ClearLate
  <2>2. "write" \in Steps
    BY StepsAre
  <2>3. rr # E /\ Head(rr) = "write" /\ Tail(rr) = rest
    BY <2>1, <2>2, ConsIs
  <2> QED BY <1>2, <2>1, <2>3
<1>3. CASE hh = "try_trunc"
  <2>1. PICK rest \in Seq(Steps) : rr = Cons("try_write", rest)
    BY <1>1, <1>3, PlacesAreSeqs
       DEF PlanAt, InEdit, InSave, InRing, InTry, InCheck, ClearEarly, ClearLate
  <2>2. "try_write" \in Steps
    BY StepsAre
  <2>3. rr # E /\ Head(rr) = "try_write" /\ Tail(rr) = rest
    BY <2>1, <2>2, ConsIs
  <2> QED BY <1>3, <2>1, <2>3
<1> QED BY <1>2, <1>3

LEMMA TruncateFacts ==
  ASSUME NEW op, NEW hh \in {"trunc", "try_trunc"}, NEW rr, NEW c, PlanAt(op, hh, rr),
         FactsOf(op, hh, rr, c)
  PROVE  /\ KeepsPass(op, Head(rr), Tail(rr)) => KeepsPass(op, hh, rr)
         /\ FactsOf(op, Head(rr), Tail(rr), c)
<1>1. PICK rest \in Seq(Steps) :
         /\ rr = Cons(IF hh = "trunc" THEN "write" ELSE "try_write", rest) /\ rr # E
         /\ Head(rr) = (IF hh = "trunc" THEN "write" ELSE "try_write")
         /\ Tail(rr) = rest
  BY TruncateNext
<1>2. CASE hh = "trunc"
  BY <1>1, <1>2 DEF FactsOf, KeepsPass, InSave, InTry, InRing, InEdit, InCheck, ClearLate,
     ClearEarly
<1>3. CASE hh = "try_trunc"
  BY <1>1, <1>3 DEF FactsOf, KeepsPass, InSave, InTry, InRing, InEdit, InCheck, ClearLate,
     ClearEarly
<1> QED BY <1>2, <1>3

LEMMA TruncateSafe ==
  ASSUME OnPlans, Safe, NEW s \in Screens, Truncate(s)
  PROVE  Safe'
<1>1. /\ Busy(s) /\ Moves(s, job[s].copy, r(s)) /\ h(s) \in {"trunc", "try_trunc"}
      /\ ks' = Torn /\ Still
  BY TruncateMoves DEF Truncate, Still
<1>2. Saving(s) /\ job[s].copy \in Held
  BY <1>1, InHeld DEF Saving, SaveSteps
<1>3. Sound(job[s].copy) /\ (PassKept => job[s].copy.pass # None) /\ Facts(s)
  BY <1>2 DEF Safe
<1>4. PICK op, hh, rr, c : op = job[s].op /\ hh = h(s) /\ rr = r(s) /\ c = job[s].copy
  OBVIOUS
<1>5. PlanAt(op, hh, rr) /\ FactsOf(op, hh, rr, c) /\ hh \in {"trunc", "try_trunc"}
  BY <1>1, <1>3, <1>4, BusyFits DEF Facts
<1>6. /\ KeepsPass(op, Head(rr), Tail(rr)) => KeepsPass(op, hh, rr)
      /\ FactsOf(op, Head(rr), Tail(rr), c)
      /\ Head(rr) # "verify" /\ Head(rr) # "open"
  BY <1>5, TruncateFacts, TruncateNext
<1>7. FactsOf(op, Head(rr), Tail(rr), c)'
  BY <1>1, <1>6, StillSound DEF FactsOf, Still
<1>8. KeepsPass(op, hh, rr) => PassKept
  BY <1>4 DEF PassKept
<1>9. Moves(s, c, rr)
  BY <1>1, <1>4
<1>10. Sound(c) /\ (PassKept => c.pass # None)
  BY <1>3, <1>4
<1> QED BY <1>1, <1>4, <1>6, <1>7, <1>8, <1>9, <1>10, MoveSafe

\* What follows a write is not another one.
LEMMA WriteNext ==
  ASSUME NEW op, NEW hh \in {"write", "try_write"}, NEW rr, PlanAt(op, hh, rr)
  PROVE  \/ hh = "write" /\ rr \in {FileTrunc, CV, P, O, E, RD, Drop, R}
         \/ /\ hh = "try_write"
            /\ \/ rr \in {O, V, CK, QK, BK, E, Drop}
               \/ \E rest \in {O, V, CK, QK, BK} : rr = Cons("repair", rest)
BY DEF PlanAt, InEdit, InSave, InRing, InTry, InCheck, ClearEarly, ClearLate

LEMMA WriteFacts ==
  ASSUME NEW op, NEW hh \in {"write", "try_write"}, NEW rr, NEW c, PlanAt(op, hh, rr),
         FactsOf(op, hh, rr, c), rr # E
  PROVE  /\ Head(rr) \notin SaveSteps
         /\ KeepsPass(op, Head(rr), Tail(rr)) =>
               \/ KeepsPass(op, hh, rr)
               \/ op \in {"init", "setpass"} /\ hh = "write" /\ c.pass # None
         /\ op = "init" /\ Head(rr) = "verify" => hh = "try_write"
         /\ op = "init" => Head(rr) # "open"
         /\ op = "init" /\ Head(rr) = "sec_trunc" => secret # "whole"
         /\ op = "clearpass" /\ ClearLate(Head(rr), Tail(rr)) => secret = "whole"
         /\ op = "pin" /\ Head(rr) = "pin_check"
               => c.pin \in Nat /\ c.pass # None /\ Sound(c)
<1> USE DEF SaveSteps, FactsOf, KeepsPass, PlanAt, InEdit, InSave, InRing, InTry, InCheck,
            ClearEarly, ClearLate
<1>1. CASE hh = "write"
  <2>1. rr \in {FileTrunc, CV, P, O, RD, Drop, R}
    BY <1>1, WriteNext
  <2>2. Head(rr) \in {"sec_trunc", "check", "pin_check", "open", "ring", "sec_remove"}
    BY <2>1, StepsLeft
  <2>3. CASE op = "init"
    BY <1>1, <2>1, <2>2, <2>3, StepsLeft
  <2>4. CASE op = "setpass"
    BY <1>1, <2>1, <2>2, <2>4, StepsLeft
  <2>5. CASE op = "clearpass"
    BY <1>1, <2>1, <2>2, <2>5, StepsLeft
  <2>6. CASE op = "pin"
    BY <1>1, <2>1, <2>2, <2>6, StepsLeft
  <2> QED BY <2>2, <2>3, <2>4, <2>5, <2>6
<1>2. CASE hh = "try_write" /\ rr \in {O, V, CK, QK, BK, Drop}
  <2>1. Head(rr) \in {"open", "verify", "same_key", "sec_remove"}
    BY <1>2, StepsLeft
  <2>2. CASE op = "init"
    <3>1. rr = V \/ rr = Cons("repair", V)
      BY <1>2, <2>2
    <3>2. V \in Seq(Steps) /\ "repair" \in Steps
      BY PlacesAreSeqs, StepsAre
    <3>3. Head(rr) \in {"verify", "repair"}
      BY <3>1, <3>2, ConsIs, StepsLeft
    <3> QED BY <1>2, <2>1, <2>2, <3>3
  <2>3. CASE op = "setpass"
    BY <1>2, <2>1, <2>3, StepsLeft
  <2>4. CASE op = "clearpass"
    BY <1>2, <2>1, <2>4, StepsLeft
  <2>5. CASE op = "pin"
    BY <1>2, <2>1, <2>5, StepsLeft
  <2> QED BY <2>1, <2>2, <2>3, <2>4, <2>5
<1>3. CASE hh = "try_write" /\ \E rest \in {O, V, CK, QK, BK} : rr = Cons("repair", rest)
  <2>1. PICK rest \in {O, V, CK, QK, BK} : rr = Cons("repair", rest)
    BY <1>3
  <2>2. Head(rr) = "repair" /\ Tail(rr) = rest
    <3>1. rest \in Seq(Steps) /\ "repair" \in Steps
      BY <2>1, PlacesAreSeqs, StepsAre
    <3> QED BY <2>1, <3>1, ConsIs
  <2>3. CASE op = "init"
    BY <1>3, <2>2, <2>3
  <2>4. CASE op = "clearpass"
    BY <1>3, <2>1, <2>2, <2>4, StepsLeft
  <2> QED BY <1>3, <2>2, <2>3, <2>4
<1> QED BY <1>1, <1>2, <1>3, WriteNext

LEMMA WriteSafe ==
  ASSUME OnPlans, Safe, NEW s \in Screens, Write(s)
  PROVE  Safe'
<1>1. /\ Busy(s) /\ Moves(s, job[s].copy, r(s)) /\ h(s) \in {"write", "try_write"}
      /\ ks' = job[s].copy /\ Still
  BY WriteMoves DEF Write, Still
<1>2. Saving(s) /\ job[s].copy \in Held
  BY <1>1, InHeld DEF Saving, SaveSteps
<1>3. Sound(job[s].copy) /\ (PassKept => job[s].copy.pass # None) /\ Facts(s)
  BY <1>2 DEF Safe
<1>4. PICK op, hh, rr, c : op = job[s].op /\ hh = h(s) /\ rr = r(s) /\ c = job[s].copy
  OBVIOUS
<1>5. PlanAt(op, hh, rr) /\ FactsOf(op, hh, rr, c) /\ hh \in {"write", "try_write"}
  BY <1>1, <1>3, <1>4, BusyFits DEF Facts
<1>6. Sound(c) /\ (PassKept => c.pass # None) /\ Moves(s, c, rr) /\ ks' = c /\ Saving(s)
      /\ (KeepsPass(op, hh, rr) => PassKept)
  BY <1>1, <1>2, <1>3, <1>4 DEF PassKept
<1>7. Loaded' = c
  <2>1. c # Absent
    BY <1>1, <1>4, BusyFits, NonesApart
  <2> QED BY <1>6, <2>1 DEF Loaded
<1>8. rr # E => Head(rr) \notin SaveSteps
  BY <1>5, WriteFacts
<1>9. ASSUME rr # E, KeepsPass(op, Head(rr), Tail(rr))
      PROVE  PassKept \/ \A d \in Held' : d.pass # None
  <2>1. KeepsPass(op, hh, rr) \/ (op \in {"init", "setpass"} /\ c.pass # None)
    BY <1>5, <1>9, WriteFacts
  <2>2. CASE op \in {"init", "setpass"} /\ c.pass # None /\ ~PassKept
    <3>1. \A t \in Screens \ {s} : ~Busy(t)
      <4>1. CASE op = "init"
        BY <1>1, <1>4, <4>1, BusyFounded
      <4>2. CASE op = "setpass"
        <5>1. s = "master" /\ phase # "locked"
          <6>1. s = "master"
            BY <1>1, <1>4, <4>2, BusyFits DEF OpsOf
          <6> QED BY <1>4, <2>2, <4>2, <6>1 DEF PassKept, KeepsPass
        <5>2. phase = "open"
          BY <1>1, <5>1 DEF OnPlans, Phases
        <5> QED BY <1>1, <5>1, <5>2 DEF OnPlans, Phases, Screens
      <4> QED BY <2>2, <4>1, <4>2
    <3>2. ASSUME NEW d \in Held' PROVE d = c
      <4>1. ASSUME NEW t \in Screens, Saving(t)' PROVE FALSE
        <5>1. CASE t = s
          BY <1>1, <1>6, <1>8, <4>1, <5>1, MovedTo DEF Saving
        <5>2. CASE t # s
          BY <1>1, <1>6, <3>1, <4>1, <5>2, MovedTo DEF Saving
        <5> QED BY <5>1, <5>2
      <4> QED BY <1>7, <4>1 DEF Held
    <3> QED BY <2>2, <3>2
  <2> QED BY <1>6, <2>1, <2>2
<1>10. rr # E => FactsOf(op, Head(rr), Tail(rr), c)'
  <2> SUFFICES ASSUME rr # E PROVE FactsOf(op, Head(rr), Tail(rr), c)'
    OBVIOUS
  <2>1. op = "init" /\ Head(rr) = "verify" => c.pass # None
    BY <1>5, <1>6, WriteFacts DEF KeepsPass
  <2>2. Sound(c)' <=> Sound(c)
    BY <1>1, StillSound
  <2>3. /\ Head(rr) \notin SaveSteps
        /\ op = "init" => Head(rr) # "open"
        /\ op = "init" /\ Head(rr) = "sec_trunc" => secret # "whole"
        /\ op = "clearpass" /\ ClearLate(Head(rr), Tail(rr)) => secret = "whole"
        /\ op = "pin" /\ Head(rr) = "pin_check"
               => c.pin \in Nat /\ c.pass # None /\ Sound(c)
    BY <1>5, WriteFacts
  <2>4. secret' = secret
    BY <1>1 DEF Still
  <2> QED BY <1>7, <2>1, <2>2, <2>3, <2>4 DEF FactsOf, Opens, InSave, SaveSteps
<1> QED BY <1>1, <1>4, <1>6, <1>8, <1>9, <1>10, MoveSafe

\* The command returns.
LEMMA AbortSafe ==
  ASSUME OnPlans, Safe, NEW s \in Screens, Busy(s), NEW c, Moves(s, c, E), Still, ks' = ks
  PROVE  Safe'
<1>1. PICK op : op = job[s].op
  OBVIOUS
<1> QED BY <1>1, MoveSafe

LEMMA InnerApart ==
  ASSUME NEW x \in Seq(Steps), NEW y \in Seq(Steps)
  PROVE  /\ Cons("write", x) = Cons("write", y) => x = y
         /\ Cons("try_write", x) = Cons("try_write", y) => x = y
<1>1. "write" \in Steps /\ "try_write" \in Steps
  BY StepsAre
<1>2. ASSUME Cons("write", x) = Cons("write", y) PROVE x = y
  <2>1. PICK z : z = Cons("write", x) /\ z = Cons("write", y)
    BY <1>2
  <2>2. Tail(z) = x /\ Tail(z) = y
    BY <1>1, <2>1, ConsIs
  <2> QED BY <2>2
<1>3. ASSUME Cons("try_write", x) = Cons("try_write", y) PROVE x = y
  <2>1. PICK z : z = Cons("try_write", x) /\ z = Cons("try_write", y)
    BY <1>3
  <2>2. Tail(z) = x /\ Tail(z) = y
    BY <1>1, <2>1, ConsIs
  <2> QED BY <2>2
<1> QED BY <1>2, <1>3

\* A rewriting that is not to be, or whose error is ignored, is passed over.
LEMMA SkipSafe ==
  ASSUME OnPlans, Safe, NEW s \in Screens, Busy(s), NEW op, op = job[s].op,
         NEW rr, NEW c, c = job[s].copy, Moves(s, c, rr), Still, ks' = ks,
         PlanAt(op, "try_write", rr), FactsOf(op, "try_write", rr, c),
         KeepsPass(op, "try_write", rr) => PassKept
  PROVE  Safe'
<1>1. CASE rr = E
  BY <1>1, AbortSafe
<1>2. CASE rr # E
  <2>1. /\ Head(rr) \notin SaveSteps
        /\ KeepsPass(op, Head(rr), Tail(rr)) => PassKept
        /\ op = "init" => Head(rr) \notin {"open", "sec_trunc"}
        /\ op = "clearpass" /\ ClearLate(Head(rr), Tail(rr)) => secret = "whole"
        /\ op = "pin" /\ Head(rr) = "pin_check" => c.pin \in Nat /\ c.pass # None /\ Sound(c)
    <3>1. op = "init" => Head(rr) # "sec_trunc"
      <4>1. CASE rr \in {O, V, CK, QK, BK, E, Drop}
        BY <1>2, <4>1, StepsLeft
      <4>2. CASE \E rest \in {O, V, CK, QK, BK} : rr = Cons("repair", rest)
        <5>1. PICK rest \in {O, V, CK, QK, BK} : rr = Cons("repair", rest)
          BY <4>2
        <5>2. rest \in Seq(Steps) /\ "repair" \in Steps
          BY <5>1, PlacesAreSeqs, StepsAre
        <5> QED BY <5>1, <5>2, ConsIs
      <4> QED BY <4>1, <4>2, WriteNext
    <3> QED BY <1>2, <3>1, WriteFacts
  <2>2. op = "init" /\ Readable => Opens(Loaded)
    <3>1. op = "init" => PassKept
      BY DEF KeepsPass
    <3> QED BY <3>1, LoadedOpens
  <2>3. /\ Opens(Loaded)' <=> Opens(Loaded)
        /\ Readable' = Readable /\ (Sound(c)' <=> Sound(c)) /\ secret' = secret
    BY StillSound DEF Still, Readable, Loaded, Opens
  <2>4. FactsOf(op, Head(rr), Tail(rr), c)'
    BY <2>1, <2>2, <2>3 DEF FactsOf, InSave, SaveSteps
  <2> QED BY <1>2, <2>1, <2>4, MoveSafe
<1> QED BY <1>1, <1>2

LEMMA ErrorSafe ==
  ASSUME OnPlans, Safe, NEW s \in Screens, FileError(s)
  PROVE  Safe'
<1>1. Busy(s) /\ Still /\ ks' = ks
  BY ErrorMoves DEF FileError, Still, files
<1>2. PICK op, hh, rr, c : op = job[s].op /\ hh = h(s) /\ rr = r(s) /\ c = job[s].copy
  OBVIOUS
<1>3. PlanAt(op, hh, rr) /\ FactsOf(op, hh, rr, c) /\ (KeepsPass(op, hh, rr) => PassKept)
  BY <1>1, <1>2, BusyFits DEF Facts, Safe, PassKept
<1>4. CASE Moves(s, job[s].copy, E)
  BY <1>1, <1>4, AbortSafe
<1>5. CASE h(s) = "try_trunc" /\ Moves(s, job[s].copy, Tail(r(s)))
  <2>1. PICK rest \in Seq(Steps) : rr # E /\ Head(rr) = "try_write" /\ Tail(rr) = rest
    BY <1>2, <1>3, <1>5, TruncateNext
  <2>2. PlanAt(op, "try_write", rest)
    BY <1>3, <2>1, TailOnPlan DEF OnPlan
  <2>3. FactsOf(op, "try_write", rest, c) /\ (KeepsPass(op, "try_write", rest) => PassKept)
    BY <1>2, <1>3, <1>5, <2>1, TruncateFacts
  <2>4. Moves(s, c, rest)
    BY <1>2, <1>5, <2>1
  <2> QED BY <1>1, <1>2, <2>2, <2>3, <2>4, SkipSafe
<1>6. CASE h(s) = "try_write" /\ Moves(s, job[s].copy, r(s))
  <2>1. hh = "try_write" /\ Moves(s, c, rr)
    BY <1>2, <1>6
  <2> QED BY <1>1, <1>2, <1>3, <2>1, SkipSafe
<1> QED BY <1>4, <1>5, <1>6, ErrorMoves

LEMMA EditedSound ==
  ASSUME OnPlans, Safe, Readable, NEW s \in Screens, Busy(s), h(s) = "edit",
         job[s].op \in NeedsPassphrase => Loaded.pass # None
  PROVE  /\ Sound(Edited(job[s], Loaded))
         /\ job[s].op = "setpass" => Edited(job[s], Loaded).pass # None
         /\ PassKept => Edited(job[s], Loaded).pass # None
<1>1. Loaded \in Stores /\ Sound(Loaded) /\ (PassKept => Loaded.pass # None)
  BY HeldGood
<1>2. /\ job[s] \in Jobs /\ PlanAt(job[s].op, "edit", r(s)) /\ job[s].op \in OpsOf(s)
      /\ job[s].op \in Typed => job[s].phrase \in Phrases
  BY BusyFits DEF OnPlans, Fits
<1>3. job[s].op \in {"bio", "setpass", "setask", "clearpass", "setpin", "setbio", "clearpin",
                     "clearbio"}
  BY <1>2 DEF PlanAt, InEdit, InSave, InRing, InTry, InCheck, ClearEarly, ClearLate
<1>4. Founded /\ Opens(Loaded)
  BY <1>3, BusyFounded, LoadedOpens
<1>5. PICK j, c : j = job[s] /\ c = Loaded
  OBVIOUS
<1>6. c \in Stores /\ j \in Jobs /\ Sound(c) /\ Opens(c) /\ (PassKept => c.pass # None)
  BY <1>1, <1>2, <1>4, <1>5
<1> DEFINE d == Edited(j, c)
<1> SUFFICES Sound(d) /\ (j.op = "setpass" => d.pass # None) /\ (PassKept => d.pass # None)
  BY <1>5
<1>7. CASE j.op = "setpass"
  <2>1. j.phrase # None
    BY <1>2, <1>5, <1>7, NonesApart DEF Typed
  <2>2. d = [c EXCEPT !.pass = j.phrase, !.dated = FALSE, !.ask = j.flag,
                      !.keyring = IF j.flag THEN None ELSE c.keyring]
    BY <1>7 DEF Edited
  <2>3. /\ d.pass = j.phrase /\ d.ask = j.flag
        /\ d.keyring = IF j.flag THEN None ELSE c.keyring
        /\ d.bio = c.bio /\ d.pin = c.pin
    BY <1>6, <2>2 DEF Stores
  <2> HIDE DEF d
  <2> QED BY <1>6, <2>1, <2>3 DEF Sound, Opens
<1>8. CASE j.op = "setask"
  <2>1. d = [c EXCEPT !.ask = j.flag, !.keyring = None] /\ c.pass # None
    BY <1>5, <1>8 DEF Edited, NeedsPassphrase
  <2>2. d.pass = c.pass /\ d.ask = j.flag /\ d.keyring = None /\ d.bio = c.bio /\ d.pin = c.pin
    BY <1>6, <2>1 DEF Stores
  <2> HIDE DEF d
  <2> QED BY <1>6, <1>8, <2>1, <2>2 DEF Sound, Opens
<1>9. CASE j.op = "clearpass"
  <2>1. secret = "whole" /\ ~PassKept
    <3>1. ClearLate("edit", r(s)) /\ ~ClearEarly("edit", r(s)) /\ Facts(s)
      BY <1>2, <1>5, <1>9
         DEF PlanAt, ClearEarly, ClearLate, InEdit, InSave, InRing, InTry, InCheck, Safe
    <3>2. secret = "whole"
      BY <1>5, <1>9, <3>1 DEF Facts, FactsOf
    <3>3. s = "master"
      BY <1>2, <1>5, <1>9 DEF OpsOf
    <3>4. ASSUME NEW t \in Screens, KeepsPass(job[t].op, h(t), r(t)) PROVE FALSE
      <4>1. CASE t = s
        BY <1>5, <1>9, <3>1, <3>4, <4>1 DEF KeepsPass
      <4>2. CASE t # s
        <5>1. Busy(t)
          BY <3>4, NotBusyIdle, IdleFacts
        <5>2. job[t].op # "init"
          BY <3>3, <4>2, <5>1, BusyFounded
        <5>3. job[t].op \in OpsOf(t)
          BY <5>1, BusyFits
        <5> QED BY <3>3, <3>4, <4>2, <5>2, <5>3 DEF KeepsPass, OpsOf
      <4> QED BY <4>1, <4>2
    <3> QED BY <3>2, <3>4 DEF PassKept
  <2>2. d = [c EXCEPT !.pass = None, !.dated = FALSE, !.ask = FALSE, !.bio = FALSE, !.pin = None]
    BY <1>9 DEF Edited
  <2>3. d.pass = None /\ ~d.ask /\ ~d.bio /\ d.pin = None
    BY <1>6, <2>2 DEF Stores
  <2> HIDE DEF d
  <2> QED BY <1>9, <2>1, <2>3 DEF Sound, Opens
<1>10. CASE j.op = "setpin"
  <2>1. d = [c EXCEPT !.pin = 0] /\ c.pass # None
    BY <1>5, <1>10 DEF Edited, NeedsPassphrase
  <2>2. Phone
    <3>1. s = "quick"
      BY <1>2, <1>5, <1>10 DEF OpsOf, Screens
    <3> QED BY <3>1 DEF OnPlans, Phases
  <2>3. d.pass = c.pass /\ d.ask = c.ask /\ d.keyring = c.keyring
    BY <1>6, <2>1 DEF Stores
  <2> HIDE DEF d
  <2> QED BY <1>6, <1>10, <2>1, <2>2, <2>3 DEF Sound, Opens
<1>11. CASE j.op = "setbio"
  <2>1. d = [c EXCEPT !.bio = TRUE] /\ c.pass # None
    BY <1>5, <1>11 DEF Edited, NeedsPassphrase
  <2>2. Phone
    <3>1. s = "quick"
      BY <1>2, <1>5, <1>11 DEF OpsOf, Screens
    <3> QED BY <3>1 DEF OnPlans, Phases
  <2>3. d.pass = c.pass /\ d.ask = c.ask /\ d.keyring = c.keyring
    BY <1>6, <2>1 DEF Stores
  <2> HIDE DEF d
  <2> QED BY <1>6, <1>11, <2>1, <2>2, <2>3 DEF Sound, Opens
<1>12. CASE j.op = "clearpin"
  <2>1. d = [c EXCEPT !.pin = None]
    BY <1>12 DEF Edited
  <2>2. d.pass = c.pass /\ d.ask = c.ask /\ d.keyring = c.keyring /\ d.bio = c.bio
        /\ d.pin = None
    BY <1>6, <2>1 DEF Stores
  <2> HIDE DEF d
  <2> QED BY <1>6, <1>12, <2>2 DEF Sound, Opens
<1>13. CASE j.op \in {"clearbio", "bio"}
  <2>1. d = [c EXCEPT !.bio = FALSE]
    BY <1>13 DEF Edited
  <2>2. d.pass = c.pass /\ d.ask = c.ask /\ d.keyring = c.keyring /\ d.pin = c.pin /\ ~d.bio
    BY <1>6, <2>1 DEF Stores
  <2> HIDE DEF d
  <2> QED BY <1>6, <1>13, <2>2 DEF Sound, Opens
<1> QED BY <1>3, <1>5, <1>7, <1>8, <1>9, <1>10, <1>11, <1>12, <1>13

LEMMA EditSafe ==
  ASSUME OnPlans, Safe, NEW s \in Screens, Edit(s)
  PROVE  Safe'
<1>1. Busy(s) /\ h(s) = "edit" /\ Still /\ ks' = ks
  BY EditMoves DEF Edit, Quiet, Still, files
<1>2. CASE Moves(s, job[s].copy, E)
  BY <1>1, <1>2, AbortSafe
<1>3. CASE /\ Readable /\ (job[s].op \in NeedsPassphrase => Loaded.pass # None)
           /\ Moves(s, Edited(job[s], Loaded), Save \o r(s))
  <2>1. PICK op, rr, c : op = job[s].op /\ rr = r(s) /\ c = Edited(job[s], Loaded)
    OBVIOUS
  <2>2. Sound(c) /\ (op = "setpass" => c.pass # None) /\ (PassKept => c.pass # None)
    BY <1>1, <1>3, <2>1, EditedSound
  <2>3. PlanAt(op, "edit", rr) /\ rr \in Seq(Steps) /\ FactsOf(op, "edit", rr, job[s].copy)
        /\ (KeepsPass(op, "edit", rr) => PassKept)
    BY <1>1, <2>1, BusyFits DEF Safe, Facts, PassKept
  <2>4. PICK t : t = Save \o rr
    OBVIOUS
  <2>5. t # E /\ Head(t) = "trunc" /\ Tail(t) = Cons("write", rr)
    BY <2>3, <2>4, Prefixed
  <2>6. Moves(s, c, t)
    BY <1>3, <2>1, <2>4
  <2>7. KeepsPass(op, "trunc", Cons("write", rr)) => KeepsPass(op, "edit", rr)
    BY DEF KeepsPass, ClearEarly, InCheck, InTry, InRing
  <2>8. op # "init" /\ op # "pin" /\ (op = "clearpass" => secret = "whole")
    BY <2>3 DEF PlanAt, InEdit, InSave, InRing, InTry, InCheck, ClearEarly, ClearLate, FactsOf
  <2>9. FactsOf(op, "trunc", Cons("write", rr), c)'
    BY <1>1, <2>2, <2>8 DEF FactsOf, Still
  <2> QED BY <1>1, <2>1, <2>2, <2>3, <2>5, <2>6, <2>7, <2>9, MoveSafe
<1> QED BY <1>2, <1>3, EditMoves

LEMMA RingSafe ==
  ASSUME OnPlans, Safe, NEW s \in Screens, RingWrap(s)
  PROVE  Safe'
<1>1. Busy(s) /\ h(s) = "ring" /\ Still /\ ks' = ks
  BY RingMoves DEF RingWrap, Quiet, Still, files
<1>2. PICK op, rr : op = job[s].op /\ rr = r(s)
  OBVIOUS
<1>3. PlanAt(op, "ring", rr) /\ rr \in Seq(Steps) /\ FactsOf(op, "ring", rr, job[s].copy)
      /\ (KeepsPass(op, "ring", rr) => PassKept)
  BY <1>1, <1>2, BusyFits DEF Safe, Facts, PassKept
<1>4. CASE Moves(s, job[s].copy, r(s))
  <2>1. PICK c : c = job[s].copy
    OBVIOUS
  <2>2. Moves(s, c, rr)
    BY <1>2, <1>4, <2>1
  <2>3. PlanAt(op, "try_write", rr)
    BY <1>3 DEF PlanAt, InEdit, InSave, InRing, InTry, InCheck, ClearEarly, ClearLate
  <2>4. FactsOf(op, "try_write", rr, c)
    BY <1>3, <2>1 DEF FactsOf, InSave, ClearLate, InRing, InTry, InEdit
  <2>5. KeepsPass(op, "try_write", rr) => KeepsPass(op, "ring", rr)
    <3>1. CK # E /\ Cons("repair", CK) # E
      BY StepsLeft, PlacesAreSeqs, InnerFacts
    <3> QED BY <1>3, <3>1
            DEF KeepsPass, PlanAt, InEdit, InSave, InRing, InTry, InCheck, ClearEarly, ClearLate
  <2> QED BY <1>1, <1>2, <1>3, <2>1, <2>2, <2>3, <2>4, <2>5, SkipSafe
<1>5. CASE /\ Readable /\ ~Loaded.ask /\ ring \in Keks /\ Loaded \in Stores
           /\ Moves(s, [Loaded EXCEPT !.keyring = ring], TrySave \o r(s))
  <2>1. PICK c : c = [Loaded EXCEPT !.keyring = ring]
    OBVIOUS
  <2>2. Sound(Loaded) /\ (PassKept => Loaded.pass # None) /\ Opens(Loaded)
    <3>1. op = "init" => PassKept
      BY <1>3 DEF KeepsPass
    <3> QED BY <1>1, <1>2, <1>5, <3>1, HeldGood, LoadedOpens
  <2>3. Sound(c) /\ (PassKept => c.pass # None)
    <3>1. c.pass = Loaded.pass /\ c.ask = Loaded.ask /\ c.bio = Loaded.bio /\ c.pin = Loaded.pin
      BY <1>5, <2>1 DEF Stores
    <3> QED BY <1>5, <2>2, <3>1 DEF Sound, Opens
  <2>4. PICK t : t = TrySave \o rr
    OBVIOUS
  <2>5. t # E /\ Head(t) = "try_trunc" /\ Tail(t) = Cons("try_write", rr)
    BY <1>3, <2>4, Prefixed
  <2>6. Moves(s, c, t)
    BY <1>2, <1>5, <2>1, <2>4
  <2>7. /\ KeepsPass(op, "try_trunc", Cons("try_write", rr)) => KeepsPass(op, "ring", rr)
        /\ op = "clearpass" /\ ClearLate("try_trunc", Cons("try_write", rr))
             => ClearLate("ring", rr)
    <3>1. CASE op = "clearpass"
      <4>1. rr \in {CK, E} /\ CK # E /\ CK \in Seq(Steps) /\ E \in Seq(Steps)
        BY <1>3, <3>1, StepsLeft, PlacesAreSeqs
           DEF PlanAt, InEdit, InSave, InRing, InTry, InCheck, ClearEarly, ClearLate
      <4>2. CASE rr = CK
        <5>1. Cons("try_write", CK) # Cons("try_write", E)
          BY <4>1, InnerApart
        <5> QED BY <3>1, <4>2, <5>1
                DEF KeepsPass, InEdit, InSave, InRing, InTry, InCheck, ClearEarly, ClearLate
      <4>3. CASE rr = E
        <5>1. /\ Cons("repair", CK) \in Seq(Steps) /\ Cons("repair", CK) # E
          BY <4>1, InnerFacts
        <5>2. /\ Cons("try_write", E) # Cons("try_write", CK)
              /\ Cons("try_write", E) # Cons("try_write", Cons("repair", CK))
          BY <4>1, <5>1, InnerApart
        <5> QED BY <3>1, <4>3, <5>2
                DEF KeepsPass, InEdit, InSave, InRing, InTry, InCheck, ClearEarly, ClearLate
      <4> QED BY <4>1, <4>2, <4>3
    <3>2. CASE op # "clearpass"
      BY <3>2 DEF KeepsPass
    <3> QED BY <3>1, <3>2
  <2>8. FactsOf(op, "try_trunc", Cons("try_write", rr), c)'
    BY <1>1, <1>3, <2>7 DEF FactsOf, Still, InSave
  <2> QED BY <1>1, <1>2, <1>3, <2>3, <2>5, <2>6, <2>7, <2>8, MoveSafe
<1> QED BY <1>4, <1>5, RingMoves

LEMMA CheckSafe ==
  ASSUME OnPlans, Safe, NEW s \in Screens, Check(s)
  PROVE  Safe'
<1>1. Busy(s) /\ h(s) = "check" /\ Still /\ ks' = ks
  BY CheckMoves DEF Check, Quiet, Still, files
<1>2. PICK op, rr, c : op = job[s].op /\ rr = r(s) /\ c = Loaded
  OBVIOUS
<1>3. PlanAt(op, "check", rr) /\ rr \in Seq(Steps) /\ (KeepsPass(op, "check", rr) => PassKept)
  BY <1>1, <1>2, BusyFits DEF PassKept
<1>4. CASE Moves(s, job[s].copy, E)
  BY <1>1, <1>4, AbortSafe
<1>5. CASE Moves(s, Loaded, <<"repair">> \o r(s))
  <2>1. PICK t : t = <<"repair">> \o rr
    OBVIOUS
  <2>2. t # E /\ Head(t) = "repair" /\ Tail(t) = rr /\ Moves(s, c, t)
    BY <1>2, <1>3, <1>5, <2>1, Prefixed
  <2>3. KeepsPass(op, "repair", rr) => KeepsPass(op, "check", rr)
    BY DEF KeepsPass, ClearEarly, InCheck, InTry, InRing
  <2>4. FactsOf(op, "repair", rr, c)'
    BY DEF FactsOf, InSave, ClearLate, InEdit, InRing, InTry
  <2>5. "repair" \notin SaveSteps
    BY DEF SaveSteps
  <2> QED BY <1>1, <1>2, <1>3, <2>2, <2>3, <2>4, <2>5, MoveSafe
<1>6. CASE Moves(s, Loaded, <<"upgrade", "repair">> \o r(s))
  <2>1. PICK t : t = <<"upgrade", "repair">> \o rr
    OBVIOUS
  <2>2. t # E /\ Head(t) = "upgrade" /\ Tail(t) = Cons("repair", rr) /\ Moves(s, c, t)
    BY <1>2, <1>3, <1>6, <2>1, Prefixed
  <2>3. KeepsPass(op, "upgrade", Cons("repair", rr)) => KeepsPass(op, "check", rr)
    BY <1>3 DEF KeepsPass, PlanAt, InEdit, InSave, InRing, InTry, InCheck, ClearEarly, ClearLate
  <2>4. FactsOf(op, "upgrade", Cons("repair", rr), c)'
    BY DEF FactsOf, InSave, ClearLate, InEdit, InRing, InTry
  <2>5. "upgrade" \notin SaveSteps
    BY DEF SaveSteps
  <2> QED BY <1>1, <1>2, <1>3, <2>2, <2>3, <2>4, <2>5, MoveSafe
<1> QED BY <1>4, <1>5, <1>6, CheckMoves

LEMMA UpgradeSafe ==
  ASSUME OnPlans, Safe, NEW s \in Screens, Upgrade(s)
  PROVE  Safe'
<1>1. Busy(s) /\ h(s) = "upgrade" /\ Still /\ ks' = ks
  BY UpgradeMoves DEF Upgrade, Quiet, Still, files
<1>2. PICK op, rr : op = job[s].op /\ rr = r(s)
  OBVIOUS
<1>3. PlanAt(op, "upgrade", rr) /\ rr \in Seq(Steps) /\ FactsOf(op, "upgrade", rr, job[s].copy)
      /\ (KeepsPass(op, "upgrade", rr) => PassKept)
  BY <1>1, <1>2, BusyFits DEF Safe, Facts, PassKept
<1>4. PICK rest \in {O, V, CK, QK, BK} : rr = Cons("repair", rest)
  BY <1>3 DEF PlanAt, InEdit, InSave, InRing, InTry, InCheck, ClearEarly, ClearLate
<1>5. CASE Moves(s, job[s].copy, r(s))
  <2>1. PICK c : c = job[s].copy
    OBVIOUS
  <2>2. Moves(s, c, rr)
    BY <1>2, <1>5, <2>1
  <2>3. PlanAt(op, "try_write", rr)
    BY <1>3 DEF PlanAt, InEdit, InSave, InRing, InTry, InCheck, ClearEarly, ClearLate
  <2>4. FactsOf(op, "try_write", rr, c)
    <3>1. rr # E
      <4>1. rest \in Seq(Steps) /\ "repair" \in Steps
        BY <1>4, PlacesAreSeqs, StepsAre
      <4> QED BY <1>4, <4>1, ConsIs
    <3> QED BY <3>1 DEF FactsOf, InSave, ClearLate, InRing, InTry, InEdit
  <2>5. KeepsPass(op, "try_write", rr) => KeepsPass(op, "upgrade", rr)
    BY <1>3 DEF KeepsPass, PlanAt, InEdit, InSave, InRing, InTry, InCheck, ClearEarly, ClearLate
  <2> QED BY <1>1, <1>2, <1>3, <2>1, <2>2, <2>3, <2>4, <2>5, SkipSafe
<1>6. CASE /\ Readable /\ Loaded \in Stores /\ job[s].phrase \in Phrases
           /\ Moves(s, [Loaded EXCEPT !.pass = job[s].phrase, !.dated = FALSE], TrySave \o r(s))
  <2>1. PICK c : c = [Loaded EXCEPT !.pass = job[s].phrase, !.dated = FALSE]
    OBVIOUS
  <2>2. Sound(Loaded)
    BY <1>6, HeldGood
  <2>3. Sound(c) /\ c.pass # None
    <3>1. /\ c.pass = job[s].phrase /\ c.ask = Loaded.ask /\ c.bio = Loaded.bio
          /\ c.pin = Loaded.pin /\ c.keyring = Loaded.keyring
      BY <1>6, <2>1 DEF Stores
    <3> QED BY <1>6, <2>2, <3>1, NonesApart DEF Sound, Opens
  <2>4. PICK t : t = TrySave \o rr
    OBVIOUS
  <2>5. t # E /\ Head(t) = "try_trunc" /\ Tail(t) = Cons("try_write", rr)
    BY <1>3, <2>4, Prefixed
  <2>6. Moves(s, c, t)
    BY <1>2, <1>6, <2>1, <2>4
  <2>7. KeepsPass(op, "try_trunc", Cons("try_write", rr)) => KeepsPass(op, "upgrade", rr)
    BY <1>3 DEF KeepsPass, PlanAt, InEdit, InSave, InRing, InTry, InCheck, ClearEarly, ClearLate
  <2>8. ~ClearLate("try_trunc", Cons("try_write", rr))
    <3>1. rr # E /\ E \in Seq(Steps)
      <4>1. rest \in Seq(Steps) /\ "repair" \in Steps
        BY <1>4, PlacesAreSeqs, StepsAre
      <4> QED BY <1>4, <4>1, ConsIs, PlacesAreSeqs
    <3>2. Cons("try_write", rr) # Cons("try_write", E)
      BY <1>3, <3>1, InnerApart
    <3> QED BY <3>2 DEF ClearLate, InEdit, InSave, InRing, InTry
  <2>9. FactsOf(op, "try_trunc", Cons("try_write", rr), c)'
    BY <2>8 DEF FactsOf, InSave
  <2> QED BY <1>1, <1>2, <1>3, <2>3, <2>5, <2>6, <2>7, <2>9, MoveSafe
<1> QED BY <1>5, <1>6, UpgradeMoves

LEMMA RepairSafe ==
  ASSUME OnPlans, Safe, NEW s \in Screens, Repair(s)
  PROVE  Safe'
<1>1. Busy(s) /\ h(s) = "repair" /\ Still /\ ks' = ks
  BY RepairMoves DEF Repair, Quiet, Still, files
<1>2. PICK op, rr, c : op = job[s].op /\ rr = r(s) /\ c = job[s].copy
  OBVIOUS
<1>3. PlanAt(op, "repair", rr) /\ rr \in Seq(Steps) /\ FactsOf(op, "repair", rr, c)
      /\ (KeepsPass(op, "repair", rr) => PassKept)
  BY <1>1, <1>2, BusyFits DEF Safe, Facts, PassKept
<1>4. rr # E
  BY <1>3, StepsLeft DEF PlanAt, InEdit, InSave, InRing, InTry, InCheck, ClearEarly, ClearLate
<1>5. CASE Moves(s, job[s].copy, r(s))
  <2>1. Moves(s, c, rr)
    BY <1>2, <1>5
  <2>2. PlanAt(op, "try_write", rr)
    BY <1>3 DEF PlanAt, InEdit, InSave, InRing, InTry, InCheck, ClearEarly, ClearLate
  <2>3. FactsOf(op, "try_write", rr, c)
    BY <1>4 DEF FactsOf, InSave, ClearLate, InRing, InTry, InEdit
  <2>4. KeepsPass(op, "try_write", rr) => KeepsPass(op, "repair", rr)
    BY <1>3 DEF KeepsPass, PlanAt, InEdit, InSave, InRing, InTry, InCheck, ClearEarly, ClearLate
  <2> QED BY <1>1, <1>2, <1>3, <2>1, <2>2, <2>3, <2>4, SkipSafe
<1>6. CASE Moves(s, job[s].copy, <<"ring">> \o r(s))
  <2>1. PICK t : t = <<"ring">> \o rr
    OBVIOUS
  <2>2. t # E /\ Head(t) = "ring" /\ Tail(t) = rr /\ Moves(s, c, t)
    BY <1>2, <1>3, <1>6, <2>1, Prefixed
  <2>3. KeepsPass(op, "ring", rr) => KeepsPass(op, "repair", rr)
    BY <1>3 DEF KeepsPass, PlanAt, InEdit, InSave, InRing, InTry, InCheck, ClearEarly, ClearLate
  <2>4. FactsOf(op, "ring", rr, c)'
    BY <1>4 DEF FactsOf, InSave, ClearLate, InEdit, InRing, InTry
  <2>5. "ring" \notin SaveSteps
    BY DEF SaveSteps
  <2> QED BY <1>1, <1>2, <1>3, <2>2, <2>3, <2>4, <2>5, MoveSafe
<1> QED BY <1>5, <1>6, RepairMoves

LEMMA SameKeySafe ==
  ASSUME OnPlans, Safe, NEW s \in Screens, SameKey(s)
  PROVE  Safe'
<1>1. Busy(s) /\ h(s) = "same_key" /\ Still /\ ks' = ks
  BY SameKeyMoves DEF SameKey, Quiet, Still, files
<1>2. PICK op, rr, c : op = job[s].op /\ rr = r(s) /\ c = job[s].copy
  OBVIOUS
<1>3. PlanAt(op, "same_key", rr) /\ (KeepsPass(op, "same_key", rr) => PassKept)
  BY <1>1, <1>2, BusyFits DEF PassKept
<1>4. \/ op = "clearpass" /\ rr = CT
      \/ op \in {"setpin", "setbio"} /\ rr \in {Q, B}
  BY <1>3 DEF PlanAt, InEdit, InSave, InRing, InTry, InCheck, ClearEarly, ClearLate
<1>5. Head(rr) \in {"sec_trunc", "edit", "bio_ask"}
  BY <1>4, StepsLeft
<1>6. CASE Moves(s, job[s].copy, E)
  BY <1>1, <1>6, AbortSafe
<1>7. CASE Moves(s, job[s].copy, r(s))
  <2>1. Moves(s, c, rr)
    BY <1>2, <1>7
  <2>2. Head(rr) \notin SaveSteps
    BY <1>5 DEF SaveSteps
  <2>3. KeepsPass(op, Head(rr), Tail(rr)) => KeepsPass(op, "same_key", rr)
    BY <1>4 DEF KeepsPass, ClearEarly
  <2>4. FactsOf(op, Head(rr), Tail(rr), c)'
    <3>1. CASE op = "clearpass"
      BY <1>4, <3>1, StepsLeft DEF FactsOf, ClearLate, InEdit, InSave, InRing, InTry
    <3>2. CASE op \in {"setpin", "setbio"}
      BY <3>2 DEF FactsOf
    <3> QED BY <1>4, <3>1, <3>2
  <2> QED BY <1>1, <1>2, <1>3, <2>1, <2>2, <2>3, <2>4, MoveSafe
<1> QED BY <1>6, <1>7, SameKeyMoves

LEMMA PinCountSafe ==
  ASSUME OnPlans, Safe, NEW s \in Screens, PinCount(s)
  PROVE  Safe'
<1>1. Busy(s) /\ Still /\ ks' = ks /\ job[s].op = "pin"
  BY PinCountMoves DEF PinCount, Quiet, Still, files
<1>2. CASE Moves(s, job[s].copy, E)
  BY <1>1, <1>2, AbortSafe
<1>3. CASE /\ Readable /\ Loaded \in Stores /\ Loaded.pin \in Nat
           /\ Moves(s, [Loaded EXCEPT !.pin = Loaded.pin + 1], Save \o P)
  <2>1. PICK c, t : c = [Loaded EXCEPT !.pin = Loaded.pin + 1] /\ t = Save \o P
    OBVIOUS
  <2>2. t # E /\ Head(t) = "trunc" /\ Tail(t) = Cons("write", P) /\ Moves(s, c, t)
    BY <1>3, <2>1, PlacesAreSeqs, Prefixed
  <2>3. Sound(Loaded) /\ Loaded.pin # None
    BY <1>3, HeldGood, NonesApart
  <2>4. Sound(c) /\ c.pass # None /\ c.pin \in Nat
    <3>1. /\ c.pass = Loaded.pass /\ c.ask = Loaded.ask /\ c.bio = Loaded.bio
          /\ c.pin = Loaded.pin + 1 /\ c.keyring = Loaded.keyring
      BY <1>3, <2>1 DEF Stores
    <3> QED BY <1>3, <2>3, <3>1 DEF Sound, Opens
  <2>5. ~KeepsPass("pin", "trunc", Cons("write", P))
    BY DEF KeepsPass
  <2>6. FactsOf("pin", "trunc", Cons("write", P), c)'
    <3>1. Sound(c)'
      BY <1>1, <2>4, StillSound
    <3> QED BY <2>4, <3>1 DEF FactsOf
  <2> QED BY <1>1, <2>2, <2>4, <2>5, <2>6, MoveSafe
<1> QED BY <1>2, <1>3, PinCountMoves

LEMMA PinCheckSafe ==
  ASSUME OnPlans, Safe, NEW s \in Screens, PinCheck(s)
  PROVE  Safe'
<1>1. Busy(s) /\ Still /\ ks' = ks /\ h(s) = "pin_check" /\ job[s].op = "pin"
  BY PinCheckMoves DEF PinCheck, Still, files
<1>2. PICK c : c = job[s].copy
  OBVIOUS
<1>3. c \in Stores /\ c.pass # None /\ Sound(c)
  BY <1>1, <1>2, BusyFits DEF Safe, Facts, FactsOf
<1>4. CASE Moves(s, [job[s].copy EXCEPT !.pin = 0], Save \o O)
  <2>1. PICK d, t : d = [c EXCEPT !.pin = 0] /\ t = Save \o O
    OBVIOUS
  <2>2. t # E /\ Head(t) = "trunc" /\ Tail(t) = Cons("write", O) /\ Moves(s, d, t)
    BY <1>2, <1>4, <2>1, PlacesAreSeqs, Prefixed
  <2>3. Sound(d) /\ d.pass # None /\ d.pin = 0
    <3>1. /\ d.pass = c.pass /\ d.ask = c.ask /\ d.bio = c.bio /\ d.pin = 0
          /\ d.keyring = c.keyring
      BY <1>3, <2>1 DEF Stores
    <3>2. Phone
      <4>1. job[s].op \in OpsOf(s) /\ PlanAt(job[s].op, h(s), r(s))
        BY <1>1, BusyFits
      <4>2. c.pin # None
        BY <1>1, <1>2, NonesApart DEF Safe, Facts, FactsOf
      <4> QED BY <1>3, <4>2 DEF Sound
    <3> QED BY <1>3, <3>1, <3>2 DEF Sound, Opens
  <2>4. ~KeepsPass("pin", "trunc", Cons("write", O))
    BY DEF KeepsPass
  <2>5. FactsOf("pin", "trunc", Cons("write", O), d)'
    <3>1. Sound(d)'
      BY <1>1, <2>3, StillSound
    <3> QED BY <2>3, <3>1 DEF FactsOf
  <2> QED BY <1>1, <2>2, <2>3, <2>4, <2>5, MoveSafe
<1>5. CASE Moves(s, [job[s].copy EXCEPT !.pin = None], Save \o E)
  <2>1. PICK d, t : d = [c EXCEPT !.pin = None] /\ t = Save \o E
    OBVIOUS
  <2>2. t # E /\ Head(t) = "trunc" /\ Tail(t) = Cons("write", E) /\ Moves(s, d, t)
    BY <1>2, <1>5, <2>1, PlacesAreSeqs, Prefixed
  <2>3. Sound(d) /\ d.pass # None
    <3>1. /\ d.pass = c.pass /\ d.ask = c.ask /\ d.bio = c.bio /\ d.pin = None
          /\ d.keyring = c.keyring
      BY <1>3, <2>1 DEF Stores
    <3> QED BY <1>3, <3>1 DEF Sound, Opens
  <2>4. ~KeepsPass("pin", "trunc", Cons("write", E))
    BY DEF KeepsPass
  <2>5. FactsOf("pin", "trunc", Cons("write", E), d)'
    <3>1. Cons("write", E) # Cons("write", P)
      BY PlacesAreSeqs, StepsLeft, InnerApart
    <3> QED BY <3>1 DEF FactsOf, InSave
  <2> QED BY <1>1, <2>2, <2>3, <2>4, <2>5, MoveSafe
<1>6. CASE Moves(s, job[s].copy, E)
  BY <1>1, <1>6, AbortSafe
<1> QED BY <1>4, <1>5, <1>6, PinCheckMoves

LEMMA BiometricSafe ==
  ASSUME OnPlans, Safe, NEW s \in Screens, BiometricAsk(s)
  PROVE  Safe'
<1>1. Busy(s) /\ Still /\ ks' = ks /\ h(s) = "bio_ask"
  BY BiometricMoves DEF BiometricAsk, Quiet, Still, files
<1>2. PICK op, c : op = job[s].op /\ c = job[s].copy
  OBVIOUS
<1>3. PlanAt(op, "bio_ask", r(s))
  BY <1>1, <1>2, BusyFits
<1>4. op \in {"bio", "setbio"} /\ r(s) \in {O, Q}
  BY <1>3 DEF PlanAt, InEdit, InSave, InRing, InTry, InCheck, ClearEarly, ClearLate
<1>5. ASSUME NEW t \in {O, Q}, Moves(s, c, t)
      PROVE  Safe'
  <2>1. t # E /\ Head(t) \notin SaveSteps
    BY StepsLeft DEF SaveSteps
  <2>2. ~KeepsPass(op, Head(t), Tail(t)) /\ FactsOf(op, Head(t), Tail(t), c)'
    BY <1>4 DEF KeepsPass, FactsOf
  <2> QED BY <1>1, <1>2, <1>5, <2>1, <2>2, MoveSafe
<1>6. CASE Moves(s, job[s].copy, E)
  BY <1>1, <1>6, AbortSafe
<1> QED BY <1>2, <1>4, <1>5, <1>6, BiometricMoves

LEMMA VerifySafe ==
  ASSUME OnPlans, Safe, NEW s \in Screens, Verify(s)
  PROVE  Safe'
<1>1. /\ Busy(s) /\ Still /\ ks' = ks /\ h(s) = "verify" /\ job[s].op = "init"
  BY VerifyMoves DEF Verify, Quiet, Still, files
<1>2. CASE Moves(s, job[s].copy, E)
  BY <1>1, <1>2, AbortSafe
<1>3. CASE (RingOpens \/ FileOpens \/ AsksPassphrase) /\ Moves(s, job[s].copy, O)
  <2>1. Readable
    BY <1>3 DEF RingOpens, FileOpens, AsksPassphrase
  <2>2. Opens(Loaded)
    BY <1>1, <2>1 DEF Safe, Facts, FactsOf
  <2>3. Readable' /\ Opens(Loaded)'
    BY <1>1, <2>1, <2>2 DEF Still, Readable, Loaded, Opens
  <2>4. PICK c : c = job[s].copy
    OBVIOUS
  <2>5. O # E /\ Head(O) \notin SaveSteps /\ Head(O) = "open"
    BY StepsLeft DEF SaveSteps
  <2>6. ~KeepsPass("init", Head(O), Tail(O)) /\ FactsOf("init", Head(O), Tail(O), c)'
    BY <2>3, <2>5 DEF KeepsPass, FactsOf, InSave
  <2>7. Moves(s, c, O)
    BY <1>3, <2>4
  <2> QED BY <1>1, <2>5, <2>6, <2>7, MoveSafe
<1> QED BY <1>2, <1>3, VerifyMoves

\* The commands that write .secret or remove it.
SecretOps == {"init", "setpass", "clearpass"}

\* .secret changes and nothing else. That takes nobody's way in while the
\* passphrase is kept, or when the file opened nothing before.
LEMMA SecretSafe ==
  ASSUME OnPlans, Safe, NEW s \in Screens, Busy(s), NEW op, op = job[s].op, NEW c, NEW rest,
         op \in SecretOps, Moves(s, c, rest),
         ks' = ks, data' = data, phase' = phase, ring' = ring,
         secret' = "whole" \/ secret # "whole" \/ PassKept,
         rest # E => Head(rest) \notin SaveSteps,
         rest # E /\ KeepsPass(op, Head(rest), Tail(rest)) => PassKept,
         rest # E => FactsOf(op, Head(rest), Tail(rest), c)'
  PROVE  Safe'
<1>1. ASSUME NEW d \in Held, Opens(d) PROVE Opens(d)'
  BY <1>1 DEF Safe, Opens
<1>2. ASSUME NEW d \in Held PROVE Sound(d)'
  <2>1. Sound(d)
    BY DEF Safe
  <2> QED BY <1>1, <2>1 DEF Sound, Founded, Phone
<1>3. \A d \in Held' : d \in Held
  BY HeldNext
<1>4. PassKept' => PassKept
  <2> SUFFICES ASSUME PassKept' PROVE PassKept
    OBVIOUS
  <2>1. PICK t \in Screens : KeepsPass(job[t].op, h(t), r(t))'
    BY DEF PassKept
  <2>2. CASE t # s
    <3>1. job'[t].op = job[t].op /\ h(t)' = h(t) /\ r(t)' = r(t)
      BY <2>2, MovedTo
    <3>2. KeepsPass(job[t].op, h(t), r(t))
      BY <2>1, <3>1 DEF KeepsPass
    <3> QED BY <3>2 DEF PassKept
  <2>3. CASE t = s
    <3>1. rest # E
      BY <2>1, <2>3, MovedTo DEF KeepsPass
    <3>2. job'[s].op = op /\ h(s)' = Head(rest) /\ r(s)' = Tail(rest)
      BY <3>1, MovedTo
    <3>3. KeepsPass(op, Head(rest), Tail(rest))
      BY <2>1, <2>3, <3>2 DEF KeepsPass
    <3> QED BY <3>1, <3>3
  <2> QED BY <2>2, <2>3
<1>5. ASSUME NEW t \in Screens PROVE Facts(t)'
  <2>1. CASE t = s /\ rest = E
    BY <2>1, MovedTo DEF Facts, FactsOf
  <2>2. CASE t = s /\ rest # E
    <3>1. job'[s].op = op /\ h(s)' = Head(rest) /\ r(s)' = Tail(rest)
          /\ job'[s].copy = c
      BY <2>2, MovedTo
    <3> QED BY <2>2, <3>1 DEF Facts
  <2>3. CASE t # s
    <3>1. job'[t] = job[t] /\ h(t)' = h(t) /\ r(t)' = r(t) /\ Facts(t)
      BY <2>3, MovedTo DEF Safe
    <3>2. PICK o, x, y, e : o = job[t].op /\ x = h(t) /\ y = r(t) /\ e = job[t].copy
      OBVIOUS
    <3>3. o \notin {"init", "clearpass"}
      <4>1. CASE op = "init"
        BY <2>3, <3>2, <4>1, BusyFounded, NotBusyIdle
      <4>2. CASE op # "init"
        <5>1. s = "master"
          BY <4>2, BusyFits DEF OpsOf, SecretOps
        <5>2. CASE Busy(t)
          <6>1. o \in OpsOf(t) /\ t # "master"
            BY <2>3, <3>2, <5>1, <5>2, BusyFits
          <6>2. o # "init"
            BY <2>3, <3>2, <4>2, <5>2, BusyFounded
          <6> QED BY <6>1, <6>2 DEF OpsOf
        <5>3. CASE ~Busy(t)
          BY <3>2, <5>3, NotBusyIdle
        <5> QED BY <5>2, <5>3
      <4> QED BY <4>1, <4>2
    <3>4. FactsOf(o, x, y, e)
      BY <3>1, <3>2 DEF Facts
    <3>5. e.pass # None /\ Sound(e) => Sound(e)'
      BY DEF Sound, Opens, Founded, Phone
    <3>6. FactsOf(o, x, y, e)'
      BY <3>3, <3>4, <3>5 DEF FactsOf
    <3> QED BY <3>1, <3>2, <3>6 DEF Facts
  <2> QED BY <2>1, <2>2, <2>3
<1> QED BY <1>2, <1>3, <1>4, <1>5 DEF Safe

LEMMA TruncateSecretSafe ==
  ASSUME OnPlans, Safe, NEW s \in Screens, TruncateSecret(s)
  PROVE  Safe'
<1>1. /\ Busy(s) /\ Moves(s, job[s].copy, r(s)) /\ h(s) = "sec_trunc" /\ secret' = "torn"
      /\ ks' = ks /\ data' = data /\ phase' = phase /\ ring' = ring
  BY SecretMoves DEF TruncateSecret, At, h
<1>2. PICK op, rr, c : op = job[s].op /\ rr = r(s) /\ c = job[s].copy
  OBVIOUS
<1>3. /\ PlanAt(op, "sec_trunc", rr) /\ (KeepsPass(op, "sec_trunc", rr) => PassKept)
      /\ FactsOf(op, "sec_trunc", rr, c) /\ Moves(s, c, rr)
  BY <1>1, <1>2, BusyFits DEF PassKept, Safe, Facts
<1>4. (op = "init" /\ rr = FileWrite) \/ (op = "clearpass" /\ rr = CW)
  BY <1>3 DEF PlanAt, InEdit, InSave, InRing, InTry, InCheck, ClearEarly, ClearLate
<1>5. CASE op = "init"
  <2>1. rr # E /\ Head(rr) = "sec_write" /\ secret # "whole"
    BY <1>3, <1>4, <1>5, StepsLeft DEF FactsOf
  <2>2. FactsOf(op, Head(rr), Tail(rr), c)' /\ ~KeepsPass(op, Head(rr), Tail(rr))
    BY <1>5, <2>1 DEF FactsOf, InSave, KeepsPass
  <2>9. /\ op \in SecretOps /\ Head(rr) \notin SaveSteps
        /\ secret' = "whole" \/ secret # "whole" \/ PassKept
        /\ KeepsPass(op, Head(rr), Tail(rr)) => PassKept
    BY <1>1, <1>2, <1>3, <1>5, <2>1, <2>2 DEF SaveSteps, SecretOps
  <2> QED BY <1>1, <1>2, <1>3, <1>5, <2>1, <2>2, <2>9, SecretSafe
<1>6. CASE op = "clearpass"
  <2>1. rr # E /\ Head(rr) = "sec_write" /\ Tail(rr) = ER /\ PassKept
    BY <1>3, <1>4, <1>6, StepsLeft DEF KeepsPass, ClearEarly
  <2>2. FactsOf(op, Head(rr), Tail(rr), c)'
    BY <1>6, <2>1 DEF FactsOf, ClearLate, InEdit, InSave, InRing, InTry
  <2>9. /\ op \in SecretOps /\ Head(rr) \notin SaveSteps
        /\ secret' = "whole" \/ secret # "whole" \/ PassKept
        /\ KeepsPass(op, Head(rr), Tail(rr)) => PassKept
    BY <1>1, <1>2, <1>3, <1>6, <2>1, <2>2 DEF SaveSteps, SecretOps
  <2> QED BY <1>1, <1>2, <1>3, <1>6, <2>1, <2>2, <2>9, SecretSafe
<1> QED BY <1>4, <1>5, <1>6

LEMMA WriteSecretSafe ==
  ASSUME OnPlans, Safe, NEW s \in Screens, WriteSecret(s)
  PROVE  Safe'
<1>1. /\ Busy(s) /\ Moves(s, job[s].copy, r(s)) /\ h(s) = "sec_write" /\ secret' = "whole"
      /\ ks' = ks /\ data' = data /\ phase' = phase /\ ring' = ring
  BY SecretMoves DEF WriteSecret, At, h
<1>2. PICK op, rr, c : op = job[s].op /\ rr = r(s) /\ c = job[s].copy
  OBVIOUS
<1>3. PlanAt(op, "sec_write", rr) /\ Moves(s, c, rr)
  BY <1>1, <1>2, BusyFits
<1>4. (op = "init" /\ rr = V) \/ (op = "clearpass" /\ rr = ER)
  BY <1>3 DEF PlanAt, InEdit, InSave, InRing, InTry, InCheck, ClearEarly, ClearLate
<1>5. CASE op = "init"
  <2>1. rr # E /\ Head(rr) = "verify"
    BY <1>4, <1>5, StepsLeft
  <2>2. FactsOf(op, Head(rr), Tail(rr), c)' /\ ~KeepsPass(op, Head(rr), Tail(rr))
    BY <1>1, <1>5, <2>1 DEF FactsOf, InSave, KeepsPass, Opens
  <2>9. /\ op \in SecretOps /\ Head(rr) \notin SaveSteps
        /\ secret' = "whole" \/ secret # "whole" \/ PassKept
        /\ KeepsPass(op, Head(rr), Tail(rr)) => PassKept
    BY <1>1, <1>2, <1>3, <1>5, <2>1, <2>2 DEF SaveSteps, SecretOps
  <2> QED BY <1>1, <1>2, <1>3, <1>5, <2>1, <2>2, <2>9, SecretSafe
<1>6. CASE op = "clearpass"
  <2>1. rr # E /\ Head(rr) = "edit"
    BY <1>4, <1>6, StepsLeft
  <2>2. FactsOf(op, Head(rr), Tail(rr), c)'
    BY <1>1, <1>6, <2>1 DEF FactsOf
  <2>3. ~KeepsPass(op, Head(rr), Tail(rr))
    BY <1>6, <2>1 DEF KeepsPass, ClearEarly, InCheck, InTry, InRing
  <2>9. /\ op \in SecretOps /\ Head(rr) \notin SaveSteps
        /\ secret' = "whole" \/ secret # "whole" \/ PassKept
        /\ KeepsPass(op, Head(rr), Tail(rr)) => PassKept
    BY <1>1, <1>2, <1>3, <1>6, <2>1, <2>2, <2>3 DEF SaveSteps, SecretOps
  <2> QED BY <1>1, <1>2, <1>3, <1>6, <2>1, <2>2, <2>3, <2>9, SecretSafe
<1> QED BY <1>4, <1>5, <1>6

LEMMA RemoveSecretSafe ==
  ASSUME OnPlans, Safe, NEW s \in Screens, RemoveSecret(s)
  PROVE  Safe'
<1>1. /\ Busy(s) /\ Moves(s, job[s].copy, r(s)) /\ h(s) = "sec_remove"
      /\ ks' = ks /\ data' = data /\ phase' = phase /\ ring' = ring
  BY SecretMoves DEF RemoveSecret, At, h
<1>2. PICK op, rr, c : op = job[s].op /\ rr = r(s) /\ c = job[s].copy
  OBVIOUS
<1>3. PlanAt(op, "sec_remove", rr) /\ Moves(s, c, rr)
      /\ (KeepsPass(op, "sec_remove", rr) => PassKept)
  BY <1>1, <1>2, BusyFits DEF PassKept
<1>4. op = "setpass" /\ rr = E
  BY <1>3 DEF PlanAt, InEdit, InSave, InRing, InTry, InCheck, ClearEarly, ClearLate
<1>5. PassKept
  BY <1>3, <1>4 DEF KeepsPass
<1>6. op \in SecretOps /\ (secret' = "whole" \/ secret # "whole" \/ PassKept)
  BY <1>4, <1>5 DEF SecretOps
<1> QED BY <1>1, <1>2, <1>3, <1>4, <1>5, <1>6, SecretSafe

\* The key is published: from here on something must open the keystore.
LEMMA OpenSafe ==
  ASSUME OnPlans, Safe, NEW s \in Screens, Open(s)
  PROVE  Safe'
<1>1. /\ Busy(s) /\ h(s) = "open" /\ Moves(s, job[s].copy, E)
      /\ job[s].op \in {"launch", "unlock", "init", "pin", "bio"}
      /\ phase' = "open" /\ ks' = ks /\ secret' = secret /\ data' = data /\ ring' = ring
  BY OpenMoves DEF Open, files
<1>2. s = "boot"
  BY <1>1, BusyFits DEF OpsOf
<1>3. \A d \in Held' : d \in Held
  BY <1>1, HeldNext
<1>4. ASSUME NEW d \in Held PROVE Opens(d)
  <2>1. CASE job[s].op = "init"
    <3>1. Readable /\ Opens(Loaded)
      BY <1>1, <2>1 DEF Safe, Facts, FactsOf
    <3>2. ASSUME NEW t \in Screens PROVE ~Saving(t)
      <4>1. CASE t = s
        BY <1>1, <4>1 DEF Saving, SaveSteps
      <4>2. CASE t # s
        BY <1>1, <2>1, <4>2, BusyFounded DEF Saving
      <4> QED BY <4>1, <4>2
    <3> QED BY <3>1, <3>2, InHeld
  <2>2. CASE job[s].op # "init"
    BY <1>1, <2>2, BusyFounded DEF Safe, Sound
  <2> QED BY <2>1, <2>2
<1>5. ASSUME NEW d \in Held PROVE Sound(d)'
  BY <1>1, <1>4 DEF Safe, Sound, Opens, Phone
<1>6. ~KeepsPass(job[s].op, h(s), r(s))' /\ Facts(s)'
  BY <1>1, MovedTo DEF KeepsPass, Facts, FactsOf
<1>7. ASSUME NEW t \in Screens, t # s
      PROVE  /\ KeepsPass(job[t].op, h(t), r(t))' => KeepsPass(job[t].op, h(t), r(t))
             /\ Facts(t)'
  <2>1. job'[t] = job[t] /\ h(t)' = h(t) /\ r(t)' = r(t) /\ Facts(t)
    BY <1>1, <1>7, MovedTo DEF Safe
  <2>2. PICK o, x, y, e : o = job[t].op /\ x = h(t) /\ y = r(t) /\ e = job[t].copy
    OBVIOUS
  <2>3. o \notin {"init", "pin"}
    <3>1. CASE Busy(t)
      BY <1>2, <1>7, <2>2, <3>1, BusyFits DEF OpsOf
    <3>2. CASE ~Busy(t)
      BY <2>2, <3>2, NotBusyIdle
    <3> QED BY <3>1, <3>2
  <2>4. FactsOf(o, x, y, e)
    BY <2>1, <2>2 DEF Facts
  <2>5. FactsOf(o, x, y, e)'
    BY <1>1, <2>3, <2>4 DEF FactsOf
  <2>6. KeepsPass(o, x, y)' => KeepsPass(o, x, y)
    BY <1>1 DEF KeepsPass
  <2>7. job'[t].op = o /\ h(t)' = x /\ r(t)' = y /\ job'[t].copy = e
    BY <2>1, <2>2
  <2>8. KeepsPass(job[t].op, h(t), r(t))' => KeepsPass(job[t].op, h(t), r(t))
    BY <2>1, <1>1 DEF KeepsPass
  <2> QED BY <2>5, <2>7, <2>8 DEF Facts
<1>8. PassKept' => PassKept
  BY <1>6, <1>7 DEF PassKept
<1> QED BY <1>3, <1>5, <1>6, <1>7, <1>8 DEF Safe

LEMMA StepSafe ==
  ASSUME OnPlans, Safe, NEW s \in Screens, Step(s)
  PROVE  Safe'
<1>1. CASE Truncate(s) \/ Write(s) \/ FileError(s)
  BY <1>1, TruncateSafe, WriteSafe, ErrorSafe
<1>2. CASE TruncateSecret(s) \/ WriteSecret(s) \/ RemoveSecret(s)
  BY <1>2, TruncateSecretSafe, WriteSecretSafe, RemoveSecretSafe
<1>3. CASE Edit(s) \/ RingWrap(s) \/ Check(s) \/ Upgrade(s) \/ Repair(s)
  BY <1>3, EditSafe, RingSafe, CheckSafe, UpgradeSafe, RepairSafe
<1>4. CASE SameKey(s) \/ PinCount(s) \/ PinCheck(s) \/ BiometricAsk(s)
  BY <1>4, SameKeySafe, PinCountSafe, PinCheckSafe, BiometricSafe
<1>5. CASE Verify(s) \/ Open(s)
  BY <1>5, VerifySafe, OpenSafe
<1> QED BY <1>1, <1>2, <1>3, <1>4, <1>5 DEF Step

\* No command moves and no file changes.
LEMMA StaySafe ==
  ASSUME Safe, job' = job, ks' = ks, secret' = secret, Founded' => Founded, Phone' = Phone,
         PassKept' => PassKept \/ \A d \in Held : d.pass # None
  PROVE  Safe'
<1>1. ASSUME NEW t \in Screens PROVE Saving(t)' = Saving(t) /\ job'[t].copy = job[t].copy
  BY DEF Saving, Busy, h
<1>2. Held' = Held
  BY <1>1 DEF Held, Readable, Loaded
<1>3. \A c : Sound(c) => Sound(c)'
  BY DEF Sound, Opens
<1>4. ASSUME NEW t \in Screens PROVE Facts(t)'
  <2>1. PICK o, x, y, e : o = job[t].op /\ x = h(t) /\ y = r(t) /\ e = job[t].copy
    OBVIOUS
  <2>2. FactsOf(o, x, y, e)
    BY <2>1 DEF Safe, Facts
  <2>3. FactsOf(o, x, y, e)'
    BY <1>3, <2>2 DEF FactsOf, Readable, Loaded, Opens
  <2>4. job'[t].op = o /\ h(t)' = x /\ r(t)' = y /\ job'[t].copy = e
    BY <2>1 DEF h, r
  <2> QED BY <2>3, <2>4 DEF Facts
<1> QED BY <1>2, <1>3, <1>4 DEF Safe

\* No command runs any longer.
LEMMA IdleSafe ==
  ASSUME Safe, \A t \in Screens : job'[t] = Idle, ks' = ks, secret' = secret, Phone' = Phone,
         Founded' => Founded \/ (Readable => Opens(Loaded))
  PROVE  Safe'
<1>1. \A t \in Screens : job'[t].op = "none" /\ ~Saving(t)'
  BY DEF Idle, Saving, Busy
<1>2. ~PassKept' /\ \A t \in Screens : Facts(t)'
  BY <1>1 DEF PassKept, KeepsPass, Facts, FactsOf
<1>3. ASSUME NEW d \in Held' PROVE Readable /\ d = Loaded
  BY <1>1 DEF Held, Readable, Loaded
<1>4. Readable => Sound(Loaded)
  BY InHeld DEF Safe
<1>5. ASSUME NEW d \in Held' PROVE Sound(d)'
  BY <1>3, <1>4 DEF Sound, Opens
<1> QED BY <1>2, <1>5 DEF Safe

\* A command begins, and the others stand where they stood.
LEMMA BegunStands ==
  ASSUME OnPlans, NEW s \in Screens, NEW op, NEW phrase, NEW flag, NEW copy, NEW todo,
         Begins(s, op, phrase, flag, copy, todo)
  PROVE  /\ Busy(s)' /\ job'[s].op = op /\ job'[s].copy = copy
         /\ h(s)' = Head(todo) /\ r(s)' = Tail(todo)
         /\ \A t \in Screens \ {s} : /\ job'[t] = job[t] /\ (Busy(t)' <=> Busy(t))
                                     /\ h(t)' = h(t) /\ r(t)' = r(t)
<1>1. /\ job' \in [Screens -> Jobs]
      /\ job'[s].op = op
      /\ Busy(s)' /\ \A t \in Screens \ {s} : job'[t] = job[t]
  BY BegunFits
<1>2. job' = [job EXCEPT ![s] = [op |-> op, phrase |-> phrase, flag |-> flag,
                                 copy |-> copy, todo |-> todo]]
  BY DEF Begins
<1>3. job'[s].todo = todo /\ job'[s].copy = copy
  BY <1>2 DEF OnPlans, TypeOK
<1> QED BY <1>1, <1>2, <1>3 DEF Busy, h, r

\* What may be on the disk when a command has begun.
LEMMA HeldBegun ==
  ASSUME OnPlans, NEW s \in Screens, NEW op, NEW phrase, NEW flag, NEW copy, NEW todo,
         Begins(s, op, phrase, flag, copy, todo), ks' = ks
  PROVE  \A d \in Held' : d \in Held \/ (d = copy /\ Head(todo) \in SaveSteps)
<1> SUFFICES ASSUME NEW d \in Held'
             PROVE  d \in Held \/ (d = copy /\ Head(todo) \in SaveSteps)
  OBVIOUS
<1>1. CASE Readable' /\ d = Loaded'
  BY <1>1, InHeld DEF Readable, Loaded
<1>2. CASE \E t \in Screens : Saving(t)' /\ d = job'[t].copy
  <2>1. PICK t \in Screens : Saving(t)' /\ d = job'[t].copy
    BY <1>2
  <2>2. CASE t = s
    BY <2>1, <2>2, BegunStands DEF Saving
  <2>3. CASE t # s
    <3>1. Saving(t) /\ d = job[t].copy
      BY <2>1, <2>3, BegunStands DEF Saving
    <3> QED BY <3>1, InHeld
  <2> QED BY <2>2, <2>3
<1>3. (Readable' /\ d = Loaded') \/ \E t \in Screens : Saving(t)' /\ d = job'[t].copy
  BY DEF Held
<1> QED BY <1>1, <1>2, <1>3

LEMMA BegunSafe ==
  ASSUME OnPlans, Safe, NEW s \in Screens, NEW op, NEW phrase, NEW flag, NEW copy, NEW todo,
         Begins(s, op, phrase, flag, copy, todo), Still, ks' = ks,
         Head(todo) \in SaveSteps => Sound(copy) /\ ~PassKept,
         KeepsPass(op, Head(todo), Tail(todo)) =>
            Head(todo) \notin SaveSteps /\ \A d \in Held : d.pass # None,
         FactsOf(op, Head(todo), Tail(todo), copy)
  PROVE  Safe'
<1>1. \A d \in Held' : d \in Held \/ (d = copy /\ Head(todo) \in SaveSteps)
  BY HeldBegun
<1>2. \A d \in Held' : Sound(d)'
  BY <1>1, StillSound DEF Safe
<1>3. PassKept' => PassKept \/ (KeepsPass(op, Head(todo), Tail(todo)))
  <2> SUFFICES ASSUME PassKept' PROVE PassKept \/ KeepsPass(op, Head(todo), Tail(todo))
    OBVIOUS
  <2>1. PICK t \in Screens : KeepsPass(job[t].op, h(t), r(t))'
    BY DEF PassKept
  <2>2. CASE t # s
    <3>1. job'[t].op = job[t].op /\ h(t)' = h(t) /\ r(t)' = r(t)
      BY <2>2, BegunStands
    <3>2. KeepsPass(job[t].op, h(t), r(t))
      BY <2>1, <3>1 DEF KeepsPass, Still
    <3> QED BY <3>2 DEF PassKept
  <2>3. CASE t = s
    <3>1. job'[s].op = op /\ h(s)' = Head(todo) /\ r(s)' = Tail(todo)
      BY BegunStands
    <3> QED BY <2>1, <2>3, <3>1 DEF KeepsPass, Still
  <2> QED BY <2>2, <2>3
<1>4. PassKept' => \A d \in Held' : d.pass # None
  BY <1>1, <1>3 DEF Safe
<1>5. ASSUME NEW t \in Screens PROVE Facts(t)'
  <2>1. CASE t = s
    <3>1. job'[s].op = op /\ h(s)' = Head(todo) /\ r(s)' = Tail(todo) /\ job'[s].copy = copy
      BY BegunStands
    <3>2. PICK x, y : x = Head(todo) /\ y = Tail(todo)
      OBVIOUS
    <3>3. FactsOf(op, x, y, copy)
      BY <3>2
    <3>4. FactsOf(op, x, y, copy)'
      BY <3>3, StillSound DEF FactsOf, Still, Readable, Loaded, Opens
    <3> QED BY <2>1, <3>1, <3>2, <3>4 DEF Facts
  <2>2. CASE t # s
    <3>1. job'[t] = job[t] /\ h(t)' = h(t) /\ r(t)' = r(t) /\ Facts(t)
      BY <2>2, BegunStands DEF Safe
    <3>2. PICK o, x, y, e : o = job[t].op /\ x = h(t) /\ y = r(t) /\ e = job[t].copy
      OBVIOUS
    <3>3. FactsOf(o, x, y, e)
      BY <3>1, <3>2 DEF Facts
    <3>4. FactsOf(o, x, y, e)'
      BY <3>3, StillSound DEF FactsOf, Still, Readable, Loaded, Opens
    <3>5. job'[t].op = o /\ h(t)' = x /\ r(t)' = y /\ job'[t].copy = e
      BY <3>1, <3>2
    <3> QED BY <3>4, <3>5 DEF Facts
  <2> QED BY <2>1, <2>2
<1> QED BY <1>2, <1>4, <1>5 DEF Safe

LEMMA LaunchSafe ==
  ASSUME OnPlans, PhoneWaits, Safe, Launch
  PROVE  Safe'
<1>1. /\ AllIdle /\ phase = "off" /\ ring' = ring /\ ks' = ks /\ secret' = secret
      /\ data' = data
  BY OffMeansIdle DEF Launch, files
<1>2. \A t \in Screens : job[t] = Idle
  BY <1>1, NotBusyIdle DEF AllIdle
<1>3. Readable => Sound(Loaded)
  BY InHeld DEF Safe
<1>4. CASE /\ job' = job /\ phase' \in {"setup", "locked", "fatal"}
           /\ phase' = "locked" => AsksPassphrase
  <2>1. Founded' => Founded \/ (Readable => Opens(Loaded))
    BY <1>1, <1>4 DEF Founded, AsksPassphrase, Opens
  <2> QED BY <1>1, <1>2, <1>4, <2>1, IdleSafe DEF Phone
<1>5. CASE /\ RingOpens \/ FileOpens
           /\ phase' = "boot" /\ Start("boot", "launch", None, FALSE, <<"ring", "open">>)
  <2>1. Begins("boot", "launch", None, FALSE, Blank, Cons("ring", O))
    BY <1>5, LaunchBegins
  <2>2. Readable /\ Opens(Loaded)
    BY <1>3, <1>5 DEF RingOpens, FileOpens, Sound, Opens
  <2>3. "boot" \in Screens /\ "ring" \in Steps /\ O \in Seq(Steps)
    BY PlacesAreSeqs, StepsAre DEF Screens
  <2>4. Head(Cons("ring", O)) = "ring" /\ Tail(Cons("ring", O)) = O
    BY <2>3, ConsFacts
  <2>5. job'["boot"].op = "launch" /\ h("boot")' = "ring"
    <3>1. PICK t : t = Cons("ring", O)
      OBVIOUS
    <3>2. Begins("boot", "launch", None, FALSE, Blank, t) /\ Head(t) = "ring"
      BY <2>1, <2>4, <3>1
    <3> QED BY <2>3, <3>2, BegunStands
  <2>6. ASSUME NEW t \in Screens
        PROVE  (job'[t].op = "launch" /\ h(t)' = "ring") \/ (job'[t].op = "none" /\ ~Busy(t)')
    <3>1. CASE t = "boot"
      BY <2>5, <3>1
    <3>2. CASE t # "boot"
      <4>1. job'[t] = Idle
        BY <1>2, <2>1, <2>3, <3>2, BegunFits
      <4> QED BY <4>1 DEF Idle, Busy
    <3> QED BY <3>1, <3>2
  <2>7. ASSUME NEW t \in Screens
        PROVE  ~Saving(t)' /\ Facts(t)' /\ ~KeepsPass(job[t].op, h(t), r(t))'
    BY <2>6 DEF Saving, SaveSteps, Facts, FactsOf, KeepsPass
  <2>8. ASSUME NEW d \in Held' PROVE d = Loaded
    BY <1>1, <2>7 DEF Held, Readable, Loaded
  <2>9. Sound(Loaded)'
    BY <1>1, <1>3, <2>2 DEF Sound, Opens, Readable, Loaded, Phone
  <2>10. \A d \in Held' : Sound(d)'
    <3>1. ASSUME NEW d \in Held' PROVE Sound(d)'
      <4>1. Sound(Loaded) /\ Opens(Loaded) /\ d = Loaded
        BY <1>3, <2>2, <2>8
      <4> QED BY <1>1, <4>1 DEF Sound, Opens, Phone
    <3> QED BY <3>1
  <2> QED BY <2>7, <2>10 DEF Safe, PassKept
<1> QED BY <1>4, <1>5 DEF Launch

LEMMA PlainSafe ==
  ASSUME OnPlans, Safe, NEW s \in Screens, NEW op, NEW phrase, NEW flag, NEW copy, NEW todo,
         Begins(s, op, phrase, flag, copy, todo), Still, ks' = ks,
         Head(todo) \in {"check", "pin_count", "bio_ask", "edit"},
         op \notin {"init", "clearpass"}, phase # "locked" \/ op # "setpass"
  PROVE  Safe'
<1>1. Head(todo) \notin SaveSteps
  BY DEF SaveSteps
<1>2. ~KeepsPass(op, Head(todo), Tail(todo))
  BY DEF KeepsPass
<1>3. FactsOf(op, Head(todo), Tail(todo), copy)
  BY DEF FactsOf, InSave
<1> QED BY <1>1, <1>2, <1>3, BegunSafe

LEMMA InitializeSafe ==
  ASSUME OnPlans, Safe, NEW mode, NEW p \in Phrases, Initialize(mode, p)
  PROVE  Safe'
<1>1. Still /\ ks' = ks /\ phase = "setup" /\ ~data /\ secret = "none" /\ ~Busy("boot")
  BY DEF Initialize, Quiet, files, Still, IsFirstRun
<1>2. PICK c : c = InitCopy(mode, p)
  OBVIOUS
<1>3. PICK t : t = IF mode = "file" THEN Save \o FileTrunc ELSE Save \o CV
  OBVIOUS
<1>4. Begins("boot", "init", p, FALSE, c, t)
  BY <1>2, <1>3, InitializeBegins
<1>5. Head(t) = "trunc" /\ Tail(t) = Cons("write", IF mode = "file" THEN FileTrunc ELSE CV)
  BY <1>3, PlacesAreSeqs, Prefixed
<1>6. c.pass = (IF mode = "file" THEN None ELSE p) /\ c.bio = FALSE /\ c.pin = None
      /\ c.keyring = (IF mode = "keyring" THEN ring ELSE None)
      /\ c.ask = (mode = "passphrase")
  BY <1>2 DEF InitCopy, Blank
<1>7. Sound(c)
  BY <1>1, <1>6, NonesApart DEF Sound, Opens, Founded
<1>8. ~PassKept
  <2>1. \A s \in Screens : ~Busy(s)
    BY <1>1 DEF OnPlans, Phases, Screens
  <2>2. \A s \in Screens : job[s].op = "none"
    BY <2>1, NotBusyIdle
  <2> QED BY <2>2 DEF PassKept, KeepsPass
<1>9. ~KeepsPass("init", Head(t), Tail(t))
  BY <1>5 DEF KeepsPass
<1>10. FactsOf("init", Head(t), Tail(t), c)
  <2>1. Cons("write", FileTrunc) # Cons("write", CV)
    BY PlacesAreSeqs, StepsLeft, InnerApart
  <2>2. InSave(Head(t), Tail(t), CV) => mode # "file"
    BY <1>5, <2>1 DEF InSave
  <2>3. mode # "file" => c.pass # None
    BY <1>6, NonesApart
  <2> QED BY <1>1, <1>5, <2>2, <2>3 DEF FactsOf
<1>11. "boot" \in Screens
  BY DEF Screens
<1> QED BY <1>1, <1>4, <1>7, <1>8, <1>9, <1>10, <1>11, BegunSafe

LEMMA ClearPassphraseSafe ==
  ASSUME OnPlans, PhoneWaits, Safe, NEW p \in Phrases, ClearPassphrase(p)
  PROVE  Safe'
<1>1. Still /\ ks' = ks /\ phase = "open" /\ AsksPassphrase
  BY DEF ClearPassphrase, Quiet, files, Still
<1>2. PICK t : t = Cons("check", CK)
  OBVIOUS
<1>3. Begins("master", "clearpass", p, FALSE, Blank, t) /\ (Phone => AllIdle)
  BY <1>2, ClearPassphraseBegins
<1>4. Head(t) = "check" /\ Tail(t) = CK
  <2>1. "check" \in Steps /\ CK \in Seq(Steps)
    BY PlacesAreSeqs, StepsAre
  <2> QED BY <1>2, <2>1, ConsIs
<1>5. ASSUME NEW s \in Screens PROVE ~Saving(s)
  <2>1. ~Busy("master") /\ ~Busy("boot")
    BY <1>1, <1>3 DEF Begins, OnPlans, Phases
  <2>2. ~Busy("quick")
    BY <1>3 DEF OnPlans, Phases, AllIdle, Screens
  <2> QED BY <2>1, <2>2 DEF Saving, Screens
<1>6. \A d \in Held : d.pass # None
  BY <1>1, <1>5, InHeld DEF AsksPassphrase
<1>7. Head(t) \notin SaveSteps /\ FactsOf("clearpass", Head(t), Tail(t), Blank)
  BY <1>4 DEF SaveSteps, FactsOf, ClearLate, InEdit, InSave, InRing, InTry
<1>8. "master" \in Screens
  BY DEF Screens
<1> QED BY <1>1, <1>3, <1>6, <1>7, <1>8, BegunSafe

LEMMA CommandSafe ==
  ASSUME OnPlans, PhoneWaits, Safe, BootScreen \/ MasterSection \/ QuickSection
  PROVE  Safe'
<1>1. Still /\ ks' = ks
  <2>1. Quiet
    BY QuickBegins DEF BootScreen, MasterSection, Initialize, Unlock, UnlockPin,
       UnlockBiometric, SetPassphrase, SetAlwaysAsk, ClearPassphrase
  <2> QED BY <2>1 DEF Quiet, files, Still
<1>2. "boot" \in Screens /\ "master" \in Screens /\ "quick" \in Screens
  BY DEF Screens
<1>3. /\ \A t \in Seq(Steps) : /\ Head(Cons("check", t)) = "check"
                               /\ Head(Cons("pin_count", t)) = "pin_count"
                               /\ Head(Cons("bio_ask", t)) = "bio_ask"
                               /\ Head(Cons("edit", t)) = "edit"
      /\ Head(Q) = "edit" /\ Head(ER) = "edit"
  BY StepsAre, ConsFacts, StepsLeft
<1>4. ASSUME NEW p \in Phrases, Unlock(p)
      PROVE  Safe'
  <2>1. PICK t : t = Cons("check", O)
    OBVIOUS
  <2>2. Begins("boot", "unlock", p, FALSE, Blank, t) /\ Head(t) = "check"
    BY <1>3, <1>4, <2>1, UnlockBegins, PlacesAreSeqs
  <2>3. /\ Head(t) \in {"check", "pin_count", "bio_ask", "edit"}
        /\ "unlock" \notin {"init", "clearpass"} /\ "unlock" # "setpass"
    BY <2>2
  <2> QED BY <1>1, <1>2, <2>2, <2>3, PlainSafe
<1>5. ASSUME NEW right \in BOOLEAN, UnlockPin(right)
      PROVE  Safe'
  <2>1. PICK t : t = Cons("pin_count", P)
    OBVIOUS
  <2>2. Begins("boot", "pin", None, right, Blank, t) /\ Head(t) = "pin_count"
    BY <1>3, <1>5, <2>1, PinBegins, PlacesAreSeqs
  <2>3. Head(t) \in {"check", "pin_count", "bio_ask", "edit"} /\ "pin" \notin {"init", "clearpass"}
    BY <2>2
  <2> QED BY <1>1, <1>2, <2>2, <2>3, PlainSafe
<1>6. ASSUME UnlockBiometric
      PROVE  Safe'
  <2>1. PICK t : t = Cons("bio_ask", O)
    OBVIOUS
  <2>2. Begins("boot", "bio", None, FALSE, Blank, t) /\ Head(t) = "bio_ask"
    BY <1>3, <1>6, <2>1, BiometricBegins, PlacesAreSeqs
  <2>3. /\ Head(t) \in {"check", "pin_count", "bio_ask", "edit"}
        /\ "bio" \notin {"init", "clearpass"} /\ "bio" # "setpass"
    BY <2>2
  <2> QED BY <1>1, <1>2, <2>2, <2>3, PlainSafe
<1>7. ASSUME NEW p \in Phrases, NEW always \in BOOLEAN, SetPassphrase(p, always)
      PROVE  Safe'
  <2>1. PICK t : t = Cons("edit", IF always THEN Drop ELSE RD)
    OBVIOUS
  <2>2. Begins("master", "setpass", p, always, Blank, t) /\ Head(t) = "edit"
    BY <1>3, <1>7, <2>1, SetPassphraseBegins, PlacesAreSeqs
  <2>3. phase = "open"
    BY <1>7 DEF SetPassphrase
  <2> QED BY <1>1, <1>2, <2>2, <2>3, PlainSafe
<1>8. ASSUME NEW always \in BOOLEAN, SetAlwaysAsk(always)
      PROVE  Safe'
  <2>1. PICK t : t = IF always THEN Q ELSE ER
    OBVIOUS
  <2>2. Begins("master", "setask", None, always, Blank, t) /\ Head(t) = "edit"
    BY <1>3, <1>8, <2>1, SetAskBegins
  <2>3. /\ Head(t) \in {"check", "pin_count", "bio_ask", "edit"}
        /\ "setask" \notin {"init", "clearpass"} /\ "setask" # "setpass"
    BY <2>2
  <2> QED BY <1>1, <1>2, <2>2, <2>3, PlainSafe
<1>9. ASSUME QuickSection
      PROVE  Safe'
  <2>1. PICK q \in QuickTodo : \E phrase : Begins("quick", q[1], phrase, FALSE, Blank, q[2])
    BY <1>9, QuickBegins
  <2>2. PICK phrase : Begins("quick", q[1], phrase, FALSE, Blank, q[2])
    BY <2>1
  <2>3. Head(q[2]) \in {"check", "edit"} /\ q[1] \notin {"init", "clearpass", "setpass"}
    <3>1. PICK x, y : x = Cons("check", QK) /\ y = Cons("check", BK)
      OBVIOUS
    <3>2. Head(x) = "check" /\ Head(y) = "check"
      BY <1>3, <3>1, PlacesAreSeqs
    <3>3. q \in {<<"setpin", x>>, <<"setbio", y>>, <<"clearpin", Q>>, <<"clearbio", Q>>}
      BY <3>1 DEF QuickTodo
    <3>4. \/ q[1] = "setpin" /\ q[2] = x
          \/ q[1] = "setbio" /\ q[2] = y
          \/ q[1] \in {"clearpin", "clearbio"} /\ q[2] = Q
      BY <3>3
    <3> QED BY <1>3, <3>2, <3>4
  <2>4. PICK o, t : o = q[1] /\ t = q[2]
    OBVIOUS
  <2>5. /\ Begins("quick", o, phrase, FALSE, Blank, t) /\ Head(t) \in {"check", "edit"}
        /\ o \notin {"init", "clearpass", "setpass"}
    BY <2>2, <2>3, <2>4
  <2> QED BY <1>1, <1>2, <2>5, PlainSafe
<1>10. CASE BootScreen
  BY <1>4, <1>5, <1>6, <1>10, InitializeSafe DEF BootScreen
<1>11. CASE MasterSection
  BY <1>7, <1>8, <1>11, ClearPassphraseSafe DEF MasterSection
<1> QED BY <1>9, <1>10, <1>11

\* A lock in the middle of set_passphrase: on the disk there still is the
\* passphrase that let it lock, and the command's copy holds the new one.
LEMMA LockSafe ==
  ASSUME OnPlans, Safe, Lock
  PROVE  Safe'
<1>1. /\ phase = "open" /\ phase' = "locked" /\ Readable /\ Loaded.pass # None /\ job' = job
      /\ ks' = ks /\ secret' = secret /\ data' = data /\ ring' = ring
  BY DEF Lock, AsksPassphrase, files
<1>2. ASSUME PassKept', ~PassKept
      PROVE  \A d \in Held : d.pass # None
  <2>1. PICK s \in Screens : KeepsPass(job[s].op, h(s), r(s))'
    BY <1>2 DEF PassKept
  <2>2. job'[s].op = job[s].op /\ h(s)' = h(s) /\ r(s)' = r(s)
    BY <1>1 DEF h, r
  <2>3. ~KeepsPass(job[s].op, h(s), r(s))
    BY <1>2 DEF PassKept
  <2>4. job[s].op = "setpass"
    BY <1>1, <2>1, <2>2, <2>3 DEF KeepsPass
  <2>5. Busy(s) /\ s = "master"
    <3>1. Busy(s)
      BY <2>4, NotBusyIdle
    <3> QED BY <2>4, <3>1, BusyFits DEF OpsOf
  <2>6. \A t \in Screens \ {s} : ~Busy(t)
    BY <1>1, <2>5 DEF OnPlans, Phases, Screens
  <2>7. Saving(s) => job[s].copy.pass # None
    <3>1. Facts(s)
      BY DEF Safe
    <3> QED BY <2>3, <2>4, <3>1 DEF Saving, SaveSteps, Facts, FactsOf, KeepsPass
  <2>8. \A t \in Screens : Saving(t) => job[t].copy.pass # None
    BY <2>6, <2>7 DEF Saving
  <2> QED BY <1>1, <2>8, InHeld
<1> QED BY <1>1, <1>2, StaySafe DEF Founded, Phone

LEMMA OthersSafe ==
  ASSUME OnPlans, Safe, Lock \/ SaveData \/ RingChanges \/ Quit \/ Crash \/ UNCHANGED vars
  PROVE  Safe'
<1> USE DEF files, counts, history
<1>1. CASE SaveData \/ RingChanges \/ UNCHANGED vars
  <2>1. /\ job' = job /\ ks' = ks /\ secret' = secret /\ phase' = phase
        /\ Founded' => Founded
    BY <1>1 DEF SaveData, RingChanges, vars, Founded
  <2>2. Phone' = Phone
    BY <1>1, NonesApart DEF SaveData, RingChanges, vars, Phone
  <2>3. \A s \in Screens : KeepsPass(job[s].op, h(s), r(s))' <=> KeepsPass(job[s].op, h(s), r(s))
    BY <2>1 DEF KeepsPass, h, r
  <2>4. PassKept' => PassKept
    BY <2>3 DEF PassKept
  <2> QED BY <2>1, <2>2, <2>4, StaySafe
<1>2. CASE Quit \/ Crash
  <2>1. \A t \in Screens : job'[t] = Idle
    BY <1>2, NotBusyIdle DEF Quit, Crash, AllIdle
  <2>2. /\ ks' = ks /\ secret' = secret /\ Phone' = Phone /\ data' = data
        /\ phase' = "off"
    BY <1>2 DEF Quit, Crash, Phone
  <2>3. Founded' => Founded
    BY <2>2 DEF Founded
  <2> QED BY <2>1, <2>2, <2>3, IdleSafe
<1> QED BY <1>1, <1>2, LockSafe

LEMMA InitSafe ==
  ASSUME Init
  PROVE  Safe
<1>1. \A s \in Screens : job[s].op = "none" /\ ~Saving(s)
  BY DEF Init, Idle, Saving, Busy
<1>2. ~PassKept /\ \A s \in Screens : Facts(s)
  BY <1>1 DEF PassKept, KeepsPass, Facts, FactsOf
<1>3. ASSUME NEW d \in Held PROVE Sound(d)
  <2>1. d = Loaded
    BY <1>1 DEF Held
  <2>2. CASE ks = Absent
    <3>1. d = Blank /\ ~data /\ phase = "off"
      BY <2>1, <2>2 DEF Init, Loaded
    <3> QED BY <3>1 DEF Sound, Blank, Founded
  <2>3. CASE ks # Absent
    <3>1. PICK p \in Phrases : ks = [Blank EXCEPT !.pass = p, !.dated = TRUE]
      BY <2>3 DEF Init
    <3>2. d = ks /\ ks.pass = p /\ p # None /\ ks.keyring = None /\ ks.ask = FALSE
          /\ ks.bio = FALSE /\ ks.pin = None
      BY <2>1, <2>3, <3>1, NonesApart DEF Loaded, Blank
    <3> QED BY <3>2 DEF Sound, Opens
  <2> QED BY <2>2, <2>3
<1> QED BY <1>2, <1>3 DEF Safe

LEMMA NextSafe ==
  ASSUME OnPlans, PhoneWaits, Safe, [Next]_vars
  PROVE  Safe'
BY LaunchSafe, CommandSafe, OthersSafe, StepSafe DEF Next

LEMMA StaysSafe ==
  ASSUME PhoneWaits
  PROVE  Spec => [](OnPlans /\ Safe)
<1>1. Init => OnPlans /\ Safe
  BY InitOnPlans, InitSafe
<1>2. OnPlans /\ Safe /\ [Next]_vars => (OnPlans /\ Safe)'
  BY NextOnPlans, NextSafe
<1> QED BY <1>1, <1>2, PTL DEF Spec

\* keystore.rs, set_always_ask and store_keyring_wrapper: once the passphrase
\* is to be asked for at every launch, no refresh, repair or save of an older
\* copy leaves a wrapper that the keyring opens.
THEOREM AskStaysAsked ==
  ASSUME PhoneWaits
  PROVE  Spec => []AskDropsRing
<1>1. OnPlans /\ Safe => AskDropsRing
  BY HeldGood DEF AskDropsRing, Sound
<1> QED BY <1>1, StaysSafe, PTL

\* "Nothing can lock the owner out": with data there is a way in that needs no
\* keyring, and a PIN or a fingerprint never outlives the passphrase.
LEMMA AWayIn ==
  ASSUME OnPlans, Safe
  PROVE  ReadableOpens /\ QuickBesidePassphrase
BY HeldGood DEF ReadableOpens, QuickBesidePassphrase, Sound, Opens, Founded

----------------------------------------------------------------------------
(* Without a failure and a crash every launch finds its way in *)

Rewriting(s) == Busy(s) /\ h(s) \in {"write", "try_write"}
Whole == /\ ks = Torn => \E s \in Screens : Rewriting(s)
         /\ secret = "torn" => \E s \in Screens : Busy(s) /\ h(s) = "sec_write"
EntersAgain == ~Founded /\ ~Busy("boot") => IsFirstRun \/ (Readable /\ Opens(Loaded))
Unharmed == errors = 0 /\ crashes = 0 => phase # "fatal" /\ Whole /\ EntersAgain

\* What a step that does not fail does to the files.
LEMMA StepFiles ==
  ASSUME OnPlans, NEW s \in Screens, Step(s), ~FileError(s)
  PROVE  /\ \/ Truncate(s)
            \/ ks' \in Stores
            \/ ks' = ks /\ ~Rewriting(s)
         /\ \/ TruncateSecret(s)
            \/ secret' \in {"whole", "none"}
            \/ secret' = secret /\ h(s) # "sec_write"
         /\ errors' = errors /\ crashes' = crashes /\ data' = data
         /\ phase' = phase \/ phase' = "open"
         /\ h(s) = "open" => phase' = "open"
         /\ h(s) \in {"check", "verify"} => ks' = ks /\ secret' = secret
<1> USE DEF At, h, files, counts, history, Quiet, Rewriting
<1>1. CASE Truncate(s)
  BY <1>1 DEF Truncate
<1>2. CASE Write(s)
  <2>1. job[s].copy \in Stores
    BY <1>2, WriteMoves, BusyFits
  <2> QED BY <1>2, <2>1 DEF Write
<1>3. CASE TruncateSecret(s) \/ WriteSecret(s) \/ RemoveSecret(s)
  BY <1>3 DEF TruncateSecret, WriteSecret, RemoveSecret
<1>4. CASE Edit(s) \/ RingWrap(s) \/ Check(s) \/ Upgrade(s) \/ Repair(s)
  BY <1>4 DEF Edit, RingWrap, Check, Upgrade, Repair
<1>5. CASE SameKey(s) \/ PinCount(s) \/ PinCheck(s) \/ BiometricAsk(s)
  BY <1>5 DEF SameKey, PinCount, PinCheck, BiometricAsk
<1>6. CASE Verify(s) \/ Open(s)
  BY <1>6 DEF Verify, Open
<1> QED BY <1>1, <1>2, <1>3, <1>4, <1>5, <1>6 DEF Step

\* initialize ends where it gives up or where it has published the key.
LEMMA InitPlanEnds ==
  ASSUME NEW hh, PlanAt("init", hh, E)
  PROVE  hh = "open"
<1>1. \A t \in Seq(Steps) : Cons("write", t) # E /\ Cons("try_write", t) # E
                            /\ Cons("repair", t) # E /\ Cons("repair", t) \in Seq(Steps)
  BY InnerFacts
<1> QED BY <1>1, StepsLeft, PlacesAreSeqs DEF PlanAt, InSave, InCheck, InTry, InRing

LEMMA InitEnds ==
  ASSUME OnPlans, NEW s \in Screens, Step(s), ~FileError(s), job[s].op = "init", ~Busy(s)'
  PROVE  h(s) \in {"check", "verify", "open"}
<1>1. Busy(s) /\ PlanAt("init", h(s), r(s)) /\ r(s) \in Seq(Steps)
  BY StepMoves, BusyFits
<1>2. r(s) = E => h(s) = "open"
  BY <1>1, InitPlanEnds
<1>3. ASSUME NEW c, NEW rest, Moves(s, c, rest) PROVE rest = E
  BY <1>1, <1>3, MovedTo
<1>4. \A c : Moves(s, c, r(s)) => h(s) = "open"
  BY <1>2, <1>3
<1>5. \A c : /\ ~Moves(s, c, TrySave \o r(s)) /\ ~Moves(s, c, Save \o r(s))
             /\ ~Moves(s, c, <<"ring">> \o r(s))
  BY <1>1, <1>3, Prefixed
<1>6. CASE Truncate(s) \/ Write(s)
  BY <1>4, <1>6, TruncateMoves, WriteMoves
<1>7. CASE TruncateSecret(s) \/ WriteSecret(s) \/ RemoveSecret(s)
  BY <1>4, <1>7, SecretMoves
<1>8. CASE RingWrap(s)
  BY <1>4, <1>5, <1>8, RingMoves
<1>9. CASE Upgrade(s)
  BY <1>4, <1>5, <1>9, UpgradeMoves
<1>10. CASE Repair(s)
  BY <1>4, <1>5, <1>10, RepairMoves
<1>11. CASE Check(s) \/ Verify(s) \/ Open(s)
  BY <1>11, CheckMoves, VerifyMoves, OpenMoves
<1>12. ~Edit(s) /\ ~SameKey(s) /\ ~PinCount(s) /\ ~PinCheck(s) /\ ~BiometricAsk(s)
  <2>1. h(s) \notin {"edit", "same_key", "bio_ask"}
    BY <1>1 DEF PlanAt, InSave, InCheck, InTry, InRing
  <2> QED BY <2>1, EditMoves, SameKeyMoves, PinCountMoves, PinCheckMoves, BiometricMoves
<1> QED BY <1>6, <1>7, <1>8, <1>9, <1>10, <1>11, <1>12 DEF Step

LEMMA StepWhole ==
  ASSUME OnPlans, Whole, NEW s \in Screens, Step(s), ~FileError(s)
  PROVE  Whole'
<1>1. PICK c, rest : Busy(s) /\ Moves(s, c, rest)
  BY StepMoves
<1>2. ASSUME NEW t \in Screens, t # s
      PROVE  /\ Rewriting(t) => Rewriting(t)'
             /\ Busy(t) /\ h(t) = "sec_write" => (Busy(t) /\ h(t) = "sec_write")'
  BY <1>1, <1>2, MovedTo DEF Rewriting
<1>3. ks' = Torn => \E t \in Screens : Rewriting(t)'
  <2>1. CASE Truncate(s)
    <3>1. Moves(s, job[s].copy, r(s)) /\ h(s) \in {"trunc", "try_trunc"}
          /\ PlanAt(job[s].op, h(s), r(s))
      BY <2>1, TruncateMoves, BusyFits
    <3>2. r(s) # E /\ Head(r(s)) \in {"write", "try_write"}
      BY <3>1, TruncateNext
    <3>3. Rewriting(s)'
      BY <1>1, <3>1, <3>2, MovedTo DEF Rewriting
    <3> QED BY <3>3
  <2>2. CASE ks' \in Stores
    BY <2>2, NonesApart
  <2>3. CASE ks' = ks /\ ~Rewriting(s)
    BY <1>2, <2>3 DEF Whole
  <2> QED BY <2>1, <2>2, <2>3, StepFiles
<1>4. secret' = "torn" => \E t \in Screens : (Busy(t) /\ h(t) = "sec_write")'
  <2>1. CASE TruncateSecret(s)
    <3>1. Moves(s, job[s].copy, r(s)) /\ h(s) = "sec_trunc" /\ PlanAt(job[s].op, h(s), r(s))
      BY <1>1, <2>1, SecretMoves, BusyFits DEF TruncateSecret, At, h
    <3>2. r(s) \in {FileWrite, CW}
      BY <3>1 DEF PlanAt, InEdit, InSave, InRing, InTry, InCheck, ClearEarly, ClearLate
    <3>3. r(s) # E /\ Head(r(s)) = "sec_write"
      BY <3>2, StepsLeft
    <3>4. (Busy(s) /\ h(s) = "sec_write")'
      BY <1>1, <3>1, <3>3, MovedTo
    <3> QED BY <3>4
  <2>2. CASE secret' = secret /\ h(s) # "sec_write"
    BY <1>2, <2>2 DEF Whole
  <2> QED BY <2>1, <2>2, StepFiles
<1> QED BY <1>3, <1>4 DEF Whole

LEMMA StepUnharmed ==
  ASSUME OnPlans, Safe, Unharmed, NEW s \in Screens, Step(s)
  PROVE  Unharmed'
<1> SUFFICES ASSUME errors' = 0 /\ crashes' = 0
             PROVE  phase' # "fatal" /\ Whole' /\ EntersAgain'
  BY DEF Unharmed
<1>1. ~FileError(s)
  <2>1. errors \in Nat
    BY KeystoreAssumption DEF OnPlans, TypeOK
  <2> QED BY <2>1 DEF FileError
<1>2. /\ errors = 0 /\ crashes = 0 /\ data' = data /\ (phase' = phase \/ phase' = "open")
      /\ h(s) = "open" => phase' = "open"
      /\ h(s) \in {"check", "verify"} => ks' = ks /\ secret' = secret
  BY <1>1, StepFiles
<1>3. phase # "fatal" /\ Whole /\ EntersAgain
  BY <1>2 DEF Unharmed
<1>4. Whole'
  BY <1>1, <1>3, StepWhole
<1>5. ASSUME ~Founded', ~Busy("boot")'
      PROVE  Readable' /\ Opens(Loaded)'
  <2>1. phase' = phase /\ ~Founded
    BY <1>2, <1>5 DEF Founded
  <2>2. Busy(s) /\ job[s].op = "init"
    BY <2>1, StepMoves, BusyFounded
  <2>3. s = "boot" /\ \A t \in Screens \ {s} : ~Busy(t)
    BY <2>2, BusyFounded
  <2>4. h(s) \in {"check", "verify"}
    BY <1>1, <1>2, <1>5, <2>1, <2>2, <2>3, InitEnds DEF Founded
  <2>5. Readable
    <3>1. \A t \in Screens : ~Rewriting(t)
      BY <2>3, <2>4 DEF Rewriting
    <3> QED BY <1>3, <3>1 DEF Whole, Readable
  <2>6. Opens(Loaded)
    <3>1. CASE h(s) = "check"
      <4>1. PassKept
        BY <2>2, <3>1 DEF PassKept, KeepsPass
      <4> QED BY <2>5, <4>1, HeldGood DEF Opens
    <3>2. CASE h(s) = "verify"
      BY <2>2, <2>5, <3>2 DEF Safe, Facts, FactsOf
    <3> QED BY <2>4, <3>1, <3>2
  <2> QED BY <1>2, <2>4, <2>5, <2>6 DEF Readable, Loaded, Opens
<1> QED BY <1>2, <1>3, <1>4, <1>5 DEF EntersAgain

\* Every command begins on a screen that was not busy, with a copy that holds
\* no PIN, and changes no file.
BeginsOn(s) == \E op, phrase, flag, copy, todo :
                  /\ Begins(s, op, phrase, flag, copy, todo)
                  /\ copy.pin = None /\ (op = "pin" => Head(todo) = "pin_count")

LEMMA CommandsStart ==
  ASSUME NEW s, NEW op, NEW phrase, NEW flag, NEW copy, NEW todo,
         Begins(s, op, phrase, flag, copy, todo), copy.pin = None, op # "pin"
  PROVE  BeginsOn(s)
BY DEF BeginsOn

LEMMA CommandBegins ==
  ASSUME OnPlans, PhoneWaits, BootScreen \/ MasterSection \/ QuickSection
  PROVE  Quiet /\ \E s \in Screens : (s = "boot" \/ Founded) /\ BeginsOn(s)
<1>1. Quiet
  BY QuickBegins DEF BootScreen, MasterSection, Initialize, Unlock, UnlockPin,
     UnlockBiometric, SetPassphrase, SetAlwaysAsk, ClearPassphrase
<1>2. Blank.pin = None /\ \A mode, p : InitCopy(mode, p).pin = None
  BY DEF InitCopy, Blank
<1>3. Head(Cons("pin_count", P)) = "pin_count"
  BY PlacesAreSeqs, StepsAre, ConsFacts
<1>4. ASSUME BootScreen PROVE BeginsOn("boot")
  <2>1. ASSUME NEW mode, NEW p \in Phrases, Initialize(mode, p)
        PROVE  BeginsOn("boot")
    <3>1. PICK t : Begins("boot", "init", p, FALSE, InitCopy(mode, p), t)
      BY <2>1, InitializeBegins
    <3> QED BY <1>2, <3>1, CommandsStart
  <2>2. ASSUME NEW p \in Phrases, Unlock(p)
        PROVE  BeginsOn("boot")
    <3>1. Begins("boot", "unlock", p, FALSE, Blank, Cons("check", O))
      BY <2>2, UnlockBegins
    <3> QED BY <1>2, <3>1, CommandsStart
  <2>3. ASSUME NEW right \in BOOLEAN, UnlockPin(right)
        PROVE  BeginsOn("boot")
    BY <1>2, <1>3, <2>3, PinBegins DEF BeginsOn
  <2>4. ASSUME UnlockBiometric
        PROVE  BeginsOn("boot")
    <3>1. Begins("boot", "bio", None, FALSE, Blank, Cons("bio_ask", O))
      BY <2>4, BiometricBegins
    <3> QED BY <1>2, <3>1, CommandsStart
  <2> QED BY <1>4, <2>1, <2>2, <2>3, <2>4 DEF BootScreen
<1>5. ASSUME MasterSection PROVE BeginsOn("master") /\ phase = "open"
  <2>1. ASSUME NEW p \in Phrases, NEW always \in BOOLEAN, SetPassphrase(p, always)
        PROVE  BeginsOn("master")
    <3>1. PICK t : Begins("master", "setpass", p, always, Blank, t)
      BY <2>1, SetPassphraseBegins
    <3> QED BY <1>2, <3>1, CommandsStart
  <2>2. ASSUME NEW always \in BOOLEAN, SetAlwaysAsk(always)
        PROVE  BeginsOn("master")
    <3>1. PICK t : Begins("master", "setask", None, always, Blank, t)
      BY <2>2, SetAskBegins
    <3> QED BY <1>2, <3>1, CommandsStart
  <2>3. ASSUME NEW p \in Phrases, ClearPassphrase(p)
        PROVE  BeginsOn("master")
    <3>1. Begins("master", "clearpass", p, FALSE, Blank, Cons("check", CK))
      BY <2>3, ClearPassphraseBegins
    <3> QED BY <1>2, <3>1, CommandsStart
  <2>4. phase = "open"
    BY <1>5 DEF MasterSection, SetPassphrase, SetAlwaysAsk, ClearPassphrase
  <2> QED BY <1>5, <2>1, <2>2, <2>3, <2>4 DEF MasterSection
<1>6. ASSUME QuickSection PROVE BeginsOn("quick") /\ phase = "open"
  <2>1. PICK q \in QuickTodo : \E phrase : Begins("quick", q[1], phrase, FALSE, Blank, q[2])
    BY <1>6, QuickBegins
  <2>2. q[1] # "pin"
    BY DEF QuickTodo
  <2>3. phase = "open"
    BY <1>6, QuickBegins
  <2>4. PICK phrase : Begins("quick", q[1], phrase, FALSE, Blank, q[2])
    BY <2>1
  <2>5. PICK o, t : o = q[1] /\ t = q[2]
    OBVIOUS
  <2>6. Begins("quick", o, phrase, FALSE, Blank, t) /\ o # "pin"
    BY <2>2, <2>4, <2>5
  <2> QED BY <1>2, <2>3, <2>6, CommandsStart
<1>7. "boot" \in Screens /\ "master" \in Screens /\ "quick" \in Screens
  BY DEF Screens
<1>8. CASE BootScreen
  BY <1>1, <1>4, <1>7, <1>8
<1>9. CASE MasterSection
  BY <1>1, <1>5, <1>7, <1>9 DEF Founded
<1>10. CASE QuickSection
  BY <1>1, <1>6, <1>7, <1>10 DEF Founded
<1> QED BY <1>8, <1>9, <1>10

LEMMA CommandUnharmed ==
  ASSUME OnPlans, PhoneWaits, Unharmed, BootScreen \/ MasterSection \/ QuickSection
  PROVE  Unharmed'
<1>1. PICK s \in Screens : (s = "boot" \/ Founded) /\ BeginsOn(s)
  BY CommandBegins
<1>2. PICK op, phrase, flag, copy, todo : Begins(s, op, phrase, flag, copy, todo)
  BY <1>1 DEF BeginsOn
<1>3. /\ errors' = errors /\ crashes' = crashes /\ phase' = phase /\ ks' = ks
      /\ secret' = secret /\ data' = data
  BY CommandBegins DEF Quiet, counts, files
<1>4. /\ Busy(s)' /\ ~Busy(s)
      /\ \A t \in Screens \ {s} : (Busy(t)' <=> Busy(t)) /\ h(t)' = h(t)
  BY <1>2, BegunStands DEF Begins
<1>5. Whole => Whole'
  BY <1>3, <1>4 DEF Whole, Rewriting
<1>6. EntersAgain'
  BY <1>1, <1>3, <1>4 DEF EntersAgain, Founded
<1> QED BY <1>3, <1>5, <1>6 DEF Unharmed

LEMMA LaunchUnharmed ==
  ASSUME OnPlans, PhoneWaits, Safe, Unharmed, Launch
  PROVE  Unharmed'
<1> SUFFICES ASSUME errors' = 0 /\ crashes' = 0
             PROVE  phase' # "fatal" /\ Whole' /\ EntersAgain'
  BY DEF Unharmed
<1>1. /\ AllIdle /\ phase = "off" /\ ks' = ks /\ secret' = secret /\ data' = data
      /\ errors = 0 /\ crashes = 0
  BY OffMeansIdle DEF Launch, files, counts
<1>2. ks # Torn /\ secret # "torn" /\ EntersAgain
  BY <1>1 DEF Unharmed, Whole, Rewriting, AllIdle
<1>3. Whole'
  BY <1>1, <1>2 DEF Whole
<1>4. IsFirstRun \/ Opens(Loaded)
  <2>1. CASE Founded
    BY <1>2, <2>1, HeldGood DEF Sound, Readable
  <2>2. CASE ~Founded
    <3>1. ~Busy("boot")
      BY <1>1 DEF AllIdle, Screens
    <3> QED BY <1>2, <2>2, <3>1 DEF EntersAgain
  <2> QED BY <2>1, <2>2
<1>5. phase' # "fatal"
  BY <1>2, <1>4 DEF Launch, Opens, FileOpens, AsksPassphrase, Readable
<1>6. EntersAgain'
  <2>1. CASE IsFirstRun
    BY <1>1, <2>1 DEF EntersAgain, IsFirstRun, Readable, Loaded
  <2>2. CASE ~IsFirstRun
    <3>1. phase' \in {"boot", "locked"}
      BY <1>5, <2>2 DEF Launch
    <3> QED BY <3>1 DEF EntersAgain, Founded
  <2> QED BY <2>1, <2>2
<1> QED BY <1>3, <1>5, <1>6

LEMMA OthersUnharmed ==
  ASSUME OnPlans, Safe, Unharmed, Lock \/ SaveData \/ RingChanges \/ Quit \/ Crash \/ UNCHANGED vars
  PROVE  Unharmed'
<1> USE DEF files, counts, history
<1>1. CASE Crash
  <2>1. crashes \in Nat /\ crashes' = crashes + 1
    BY <1>1, KeystoreAssumption DEF Crash, OnPlans, TypeOK
  <2>2. crashes' # 0
    BY <2>1
  <2> QED BY <2>2 DEF Unharmed
<1>2. CASE ~Crash
  <2>1. /\ errors' = errors /\ crashes' = crashes /\ ks' = ks /\ secret' = secret /\ job' = job
    BY <1>2 DEF Lock, SaveData, RingChanges, Quit, vars
  <2>2. Whole => Whole'
    BY <2>1 DEF Whole, Rewriting, Busy, h
  <2>3. phase # "fatal" => phase' # "fatal"
    BY <1>2 DEF Lock, SaveData, RingChanges, Quit, vars
  <2>4. ASSUME Whole, EntersAgain, phase # "fatal" PROVE EntersAgain'
    <3>1. CASE Quit
      <4>1. AllIdle /\ phase' = "off" /\ data' = data
        BY <3>1 DEF Quit
      <4>2. Readable
        BY <2>4, <4>1 DEF Whole, AllIdle, Rewriting, Readable
      <4>3. Founded => Opens(Loaded)
        BY <4>2, HeldGood DEF Sound
      <4>4. IsFirstRun \/ Opens(Loaded)
        BY <2>4, <4>1, <4>3 DEF EntersAgain, AllIdle, Screens
      <4>5. (IsFirstRun \/ (Readable /\ Opens(Loaded)))'
        BY <2>1, <4>1, <4>2, <4>4 DEF IsFirstRun, Readable, Loaded, Opens
      <4> QED BY <4>5 DEF EntersAgain
    <3>2. CASE Lock \/ SaveData
      BY <3>2 DEF Lock, SaveData, EntersAgain, Founded
    <3>3. CASE RingChanges \/ UNCHANGED vars
      BY <2>1, <2>4, <3>3 DEF RingChanges, vars, EntersAgain, Founded, Busy, IsFirstRun,
         Readable, Loaded, Opens
    <3> QED BY <1>2, <3>1, <3>2, <3>3
  <2> QED BY <2>1, <2>2, <2>3, <2>4 DEF Unharmed
<1> QED BY <1>1, <1>2

LEMMA InitUnharmed ==
  ASSUME Init
  PROVE  Unharmed
<1>1. ks # Torn
  <2>1. ks \in {Absent} \cup Stores
    BY IdleFits DEF Init, Stores
  <2> QED BY <2>1, NonesApart, SentinelsAssumption
<1>2. EntersAgain
  <2>1. CASE ks = Absent
    BY <1>1, <2>1 DEF Init, EntersAgain, IsFirstRun, Readable, Loaded, Blank
  <2>2. CASE ks # Absent
    BY <2>2 DEF Init, EntersAgain, Founded
  <2> QED BY <2>1, <2>2
<1> QED BY <1>1, <1>2 DEF Unharmed, Init, Whole

\* keystore.rs, set_passphrase ("Nothing can lock the owner out"), unlock and
\* open_profile: however commands, locks, launches and the keyring's answers
\* mix, a keystore that parses opens without the keyring and no PIN outlives
\* the passphrase, a failure or a crash at any step included; without either of
\* those no launch ends at the fatal screen.
THEOREM NobodyIsLockedOut ==
  ASSUME PhoneWaits
  PROVE  Spec => []NeverLockedOut
<1>1. Init => OnPlans /\ Safe /\ Unharmed
  BY InitOnPlans, InitSafe, InitUnharmed
<1>2. OnPlans /\ Safe /\ Unharmed /\ [Next]_vars => (OnPlans /\ Safe /\ Unharmed)'
  BY NextOnPlans, NextSafe, LaunchUnharmed, CommandUnharmed, OthersUnharmed, StepUnharmed
     DEF Next
<1>3. OnPlans /\ Safe /\ Unharmed => NeverLockedOut
  BY AWayIn DEF NeverLockedOut, NeverFatal, Unharmed
<1> QED BY <1>1, <1>2, <1>3, PTL DEF Spec

----------------------------------------------------------------------------
(* While nothing fails, is killed or is locked midway, no passphrase stands *)
(* beside a .secret but between two steps of the command that moves the key *)

Clean == ~midway /\ errors = 0 /\ crashes = 0

\* A keystore.json that may stand beside .secret.
Apart(c) == c.pass # None => secret # "whole"

\* set_passphrase until .secret is removed, and clear_passphrase from then on
\* that .secret is back until the passphrase is dropped.
Between(op, hh, rr) == \/ op = "setpass" /\ hh # "edit"
                       \/ op = "clearpass" /\ InEdit(hh, rr, R)

\* What the other commands rely on at each place.
PartOf(op, hh, rr, c) ==
    /\ op = "clearpass" /\ hh \in {"trunc", "write"} => c.pass = None
    /\ op = "init" /\ InSave(hh, rr, FileTrunc) => c.pass = None
    /\ op = "init" /\ hh \in {"sec_trunc", "sec_write"} /\ Readable => Loaded.pass = None
    /\ hh = "upgrade" => secret # "whole"
    /\ op = "pin" /\ hh = "pin_check" => Apart(c)

Midway(s) == Busy(s) /\ Between(job[s].op, h(s), r(s))

Orderly == /\ Busy("master") \/ Busy("quick") => phase = "open"
           /\ (\A c \in Held : Apart(c)) \/ \E s \in Screens : Midway(s)
           /\ \A s \in Screens : Busy(s) => PartOf(job[s].op, h(s), r(s), job[s].copy)

\* One screen at a time has a command.
LEMMA OnlyOne ==
  ASSUME OnPlans, Orderly, NEW s \in Screens, Busy(s)
  PROVE  \A t \in Screens \ {s} : ~Busy(t)
<1>1. Busy("boot") => ~Busy("master") /\ ~Busy("quick")
  BY DEF OnPlans, Phases, Orderly
<1>2. Busy("quick") => ~Busy("master")
  BY DEF OnPlans, Phases, Screens
<1> QED BY <1>1, <1>2 DEF Screens

\* What may be written lies apart, unless the command is between its steps.
LEMMA ApartNow ==
  ASSUME OnPlans, Orderly, NEW s \in Screens, Busy(s), ~Between(job[s].op, h(s), r(s))
  PROVE  \A d \in Held : Apart(d)
BY OnlyOne DEF Orderly, Midway

LEMMA NotBetween ==
  ASSUME NEW op, NEW hh, NEW rr, PlanAt(op, hh, rr),
         hh \in {"check", "upgrade", "repair", "same_key", "pin_count", "pin_check",
                 "bio_ask", "verify", "open", "sec_trunc", "sec_write"}
  PROVE  ~Between(op, hh, rr)
BY DEF PlanAt, InEdit, InSave, InRing, InTry, InCheck, ClearEarly, ClearLate, Between

LEMMA OnwardOrderly ==
  ASSUME OnPlans, Orderly, NEW s \in Screens, Busy(s), NEW op, op = job[s].op,
         NEW c, NEW rest, Moves(s, c, rest), phase' = phase \/ phase' = "open",
         \/ \A d \in Held' : Apart(d)'
         \/ rest # E /\ Between(op, Head(rest), Tail(rest)),
         rest # E => PartOf(op, Head(rest), Tail(rest), c)'
  PROVE  Orderly'
<1>1. /\ \A t \in Screens \ {s} : Busy(t)' <=> Busy(t)
      /\ rest = E => ~Busy(s)'
      /\ rest # E => /\ Busy(s)' /\ job'[s].op = op /\ job'[s].copy = c
                     /\ h(s)' = Head(rest) /\ r(s)' = Tail(rest)
  BY MovedTo
<1>2. (Busy("master") \/ Busy("quick") => phase = "open")'
  BY <1>1 DEF Orderly, Screens
<1>3. ((\A d \in Held : Apart(d)) \/ \E t \in Screens : Midway(t))'
  <2>1. CASE rest # E /\ Between(op, Head(rest), Tail(rest))
    <3>1. Between(job[s].op, h(s), r(s))'
      BY <1>1, <2>1 DEF Between
    <3> QED BY <1>1, <2>1, <3>1 DEF Midway
  <2> QED BY <2>1
<1>4. ASSUME NEW t \in Screens, Busy(t)'
      PROVE  PartOf(job[t].op, h(t), r(t), job[t].copy)'
  <2>1. t = s /\ rest # E
    BY <1>1, <1>4, OnlyOne
  <2> QED BY <1>1, <2>1
<1> QED BY <1>2, <1>3, <1>4 DEF Orderly

\* A step that leaves .secret as it is.
LEMMA StillOrderly ==
  ASSUME OnPlans, Orderly, NEW s \in Screens, Busy(s), NEW op, op = job[s].op,
         NEW c, NEW rest, Moves(s, c, rest), secret' = secret,
         ks' = ks \/ ks' = Torn \/ (ks' = job[s].copy /\ Saving(s)),
         phase' = phase \/ phase' = "open",
         rest # E /\ Head(rest) \in SaveSteps /\ ~Between(op, h(s), r(s))
            => Apart(c) \/ Between(op, Head(rest), Tail(rest)),
         Between(op, h(s), r(s)) => rest # E /\ Between(op, Head(rest), Tail(rest)),
         rest # E => PartOf(op, Head(rest), Tail(rest), c)'
  PROVE  Orderly'
<1>1. \A d \in Held' : d \in Held \/ (d = c /\ rest # E /\ Head(rest) \in SaveSteps)
  BY HeldNext
<1>2. ASSUME ~(rest # E /\ Between(op, Head(rest), Tail(rest)))
      PROVE  \A d \in Held' : Apart(d)'
  <2>1. ~Between(op, h(s), r(s))
    BY <1>2
  <2>2. \A d \in Held : Apart(d)
    BY <2>1, ApartNow
  <2>3. ASSUME NEW d \in Held' PROVE Apart(d)
    BY <1>1, <1>2, <2>1, <2>2
  <2> QED BY <2>3 DEF Apart
<1> QED BY <1>2, OnwardOrderly

Plain == Steps \ ({"trunc", "write", "try_trunc", "try_write", "sec_trunc", "sec_write",
                   "upgrade", "pin_check"})

LEMMA PlainPart ==
  ASSUME NEW op, NEW hh, NEW rr, NEW c, hh \in Plain
  PROVE  PartOf(op, hh, rr, c)
BY DEF Plain, PartOf, InSave

\* A step of a command that moves no key leads to one that saves nothing.
LEMMA PlainOrderly ==
  ASSUME OnPlans, Orderly, NEW s \in Screens, Busy(s), ~Between(job[s].op, h(s), r(s)),
         NEW c, NEW rest, Moves(s, c, rest), secret' = secret, ks' = ks,
         phase' = phase \/ phase' = "open",
         rest # E => Head(rest) \in Plain
  PROVE  Orderly'
<1>1. PICK op : op = job[s].op
  OBVIOUS
<1>2. rest # E => Head(rest) \notin SaveSteps
  BY DEF Plain, SaveSteps
<1>3. rest # E => PartOf(op, Head(rest), Tail(rest), c)'
  <2>1. PICK hh, rr : hh = Head(rest) /\ rr = Tail(rest)
    OBVIOUS
  <2>2. rest # E => hh \in Plain
    BY <2>1
  <2>3. rest # E => PartOf(op, hh, rr, c)'
    BY <2>2 DEF Plain, PartOf, InSave
  <2> QED BY <2>1, <2>3
<1> QED BY <1>1, <1>2, <1>3, StillOrderly

LEMMA TruncateOrderly ==
  ASSUME OnPlans, Orderly, NEW s \in Screens, Truncate(s)
  PROVE  Orderly'
<1>1. /\ Busy(s) /\ Moves(s, job[s].copy, r(s)) /\ h(s) \in {"trunc", "try_trunc"}
      /\ ks' = Torn /\ secret' = secret /\ phase' = phase
  BY TruncateMoves DEF Truncate
<1>2. PICK op, hh, rr, c : op = job[s].op /\ hh = h(s) /\ rr = r(s) /\ c = job[s].copy
  OBVIOUS
<1>3. /\ PlanAt(op, hh, rr) /\ PartOf(op, hh, rr, c) /\ hh \in {"trunc", "try_trunc"}
      /\ Moves(s, c, rr)
  BY <1>1, <1>2, BusyFits DEF Orderly
<1>4. PICK rest \in Seq(Steps) :
         /\ rr = Cons(IF hh = "trunc" THEN "write" ELSE "try_write", rest) /\ rr # E
         /\ Head(rr) = (IF hh = "trunc" THEN "write" ELSE "try_write")
         /\ Tail(rr) = rest
  BY <1>3, TruncateNext
<1>5. Between(op, hh, rr) => Between(op, Head(rr), Tail(rr))
  <2>1. CASE hh = "trunc"
    <3>1. R \in Seq(Steps)
      BY PlacesAreSeqs
    <3>2. rr = Cons("write", R) => rest = R
      BY <1>4, <2>1, <3>1, InnerApart
    <3> QED BY <1>4, <2>1, <3>2 DEF Between, InEdit, InSave
  <2>2. CASE hh = "try_trunc"
    BY <1>3, <1>4, <2>2 DEF Between, InEdit, InSave
  <2> QED BY <1>3, <2>1, <2>2
<1>6. ~Between(op, hh, rr) => Apart(c)
  <2>1. c \in Held
    BY <1>1, <1>2, InHeld DEF Saving, SaveSteps
  <2> QED BY <1>1, <1>2, <2>1, ApartNow
<1>7. PartOf(op, Head(rr), Tail(rr), c)'
  <2>1. CASE hh = "trunc"
    <3>1. Head(rr) = "write" /\ rr = Cons("write", Tail(rr))
      BY <1>4, <2>1
    <3>2. PICK x, y : x = Head(rr) /\ y = Tail(rr)
      OBVIOUS
    <3>3. PartOf(op, x, y, c)'
      BY <1>3, <2>1, <3>1, <3>2 DEF PartOf, InSave
    <3> QED BY <3>2, <3>3
  <2>2. CASE hh = "try_trunc"
    <3>1. PICK x, y : x = Head(rr) /\ y = Tail(rr)
      OBVIOUS
    <3>2. x = "try_write"
      BY <1>4, <2>2, <3>1
    <3>3. PartOf(op, x, y, c)'
      BY <3>2 DEF PartOf, InSave
    <3> QED BY <3>1, <3>3
  <2> QED BY <1>3, <2>1, <2>2
<1> QED BY <1>1, <1>2, <1>3, <1>4, <1>5, <1>6, <1>7, StillOrderly

LEMMA WriteOrderly ==
  ASSUME OnPlans, Orderly, NEW s \in Screens, Write(s)
  PROVE  Orderly'
<1>1. /\ Busy(s) /\ Moves(s, job[s].copy, r(s)) /\ h(s) \in {"write", "try_write"}
      /\ ks' = job[s].copy /\ secret' = secret /\ phase' = phase
  BY WriteMoves DEF Write
<1>2. PICK op, hh, rr, c : op = job[s].op /\ hh = h(s) /\ rr = r(s) /\ c = job[s].copy
  OBVIOUS
<1>3. /\ PlanAt(op, hh, rr) /\ PartOf(op, hh, rr, c) /\ hh \in {"write", "try_write"}
      /\ Moves(s, c, rr) /\ ks' = c
  BY <1>1, <1>2, BusyFits DEF Orderly
<1>4. Loaded' = c
  <2>1. c # Absent
    BY <1>1, <1>2, BusyFits, NonesApart
  <2> QED BY <1>3, <2>1 DEF Loaded
<1>5. rr = E \/ Head(rr) \in {"sec_trunc", "check", "pin_check", "open", "ring", "sec_remove",
                              "verify", "same_key", "repair"}
  <2>1. ASSUME NEW rest \in {O, V, CK, QK, BK}, rr = Cons("repair", rest)
        PROVE  Head(rr) = "repair"
    <3>1. rest \in Seq(Steps) /\ "repair" \in Steps
      BY <2>1, PlacesAreSeqs, StepsAre
    <3> QED BY <2>1, <3>1, ConsIs
  <2> QED BY <1>3, <2>1, WriteNext, StepsLeft
<1>6. ASSUME NEW d \in Held' PROVE d = c
  <2>1. (Readable' /\ d = Loaded') \/ \E t \in Screens : Saving(t)' /\ d = job'[t].copy
    BY <1>6 DEF Held
  <2>2. ASSUME NEW t \in Screens, Saving(t)' PROVE FALSE
    <3>1. CASE t = s
      BY <1>1, <1>2, <1>3, <1>5, <2>2, <3>1, MovedTo DEF Saving, SaveSteps
    <3>2. CASE t # s
      BY <1>1, <2>2, <3>2, MovedTo, OnlyOne DEF Saving
    <3> QED BY <3>1, <3>2
  <2> QED BY <1>4, <2>1, <2>2
<1>7. ~Between(op, hh, rr) => Apart(c)
  <2>1. c \in Held
    BY <1>1, <1>2, InHeld DEF Saving, SaveSteps
  <2> QED BY <1>1, <1>2, <2>1, ApartNow
<1>8. \/ \A d \in Held' : Apart(d)'
      \/ rr # E /\ Between(op, Head(rr), Tail(rr))
  <2>1. CASE op = "setpass"
    <3>1. rr \in {RD, Drop}
      BY <1>3, <2>1 DEF PlanAt, InEdit, InSave, InRing, InTry
    <3> QED BY <2>1, <3>1, StepsLeft DEF Between
  <2>2. CASE op # "setpass"
    <3>1. Apart(c)
      BY <1>3, <1>7, <2>2 DEF Between, InEdit, InSave, PartOf, Apart
    <3> QED BY <1>1, <1>6, <3>1 DEF Apart
  <2> QED BY <2>1, <2>2
<1>9. rr # E => PartOf(op, Head(rr), Tail(rr), c)'
  <2> SUFFICES ASSUME rr # E PROVE PartOf(op, Head(rr), Tail(rr), c)'
    OBVIOUS
  <2>1. PICK x, y : x = Head(rr) /\ y = Tail(rr)
    OBVIOUS
  <2>2. op = "init" /\ x = "sec_trunc" => c.pass = None
    <3> SUFFICES ASSUME op = "init", x = "sec_trunc" PROVE c.pass = None
      OBVIOUS
    <3>1. hh = "write" /\ rr = FileTrunc
      <4>1. rr \in {FileTrunc, CV} \/ rr = V \/ rr = Cons("repair", V)
        BY <1>3 DEF PlanAt, InSave, InCheck, InTry, InRing
      <4>2. V \in Seq(Steps) /\ "repair" \in Steps
        BY PlacesAreSeqs, StepsAre
      <4>3. rr = Cons("repair", V) => Head(rr) = "repair"
        BY <4>2, ConsIs
      <4>4. rr = FileTrunc /\ rr # V /\ rr # Cons("repair", V)
        BY <2>1, <4>1, <4>3, StepsLeft
      <4> QED BY <1>3, <4>4 DEF PlanAt, InSave, InCheck, InTry, InRing
    <3> QED BY <1>3, <3>1 DEF PartOf, InSave
  <2>3. op = "pin" => Apart(c)
    BY <1>7 DEF Between
  <2>4. x \in {"sec_trunc", "check", "pin_check", "open", "ring", "sec_remove",
               "verify", "same_key", "repair"}
    BY <1>5, <2>1
  <2>5. PartOf(op, x, y, c)'
    BY <1>1, <1>4, <2>2, <2>3, <2>4 DEF PartOf, InSave, Apart
  <2> QED BY <2>1, <2>5
<1> QED BY <1>1, <1>2, <1>3, <1>8, <1>9, OnwardOrderly

LEMMA SecretOrderly ==
  ASSUME OnPlans, Orderly, NEW s \in Screens,
         TruncateSecret(s) \/ WriteSecret(s) \/ RemoveSecret(s)
  PROVE  Orderly'
<1>1. /\ Busy(s) /\ Moves(s, job[s].copy, r(s)) /\ ks' = ks /\ phase' = phase
  BY SecretMoves DEF TruncateSecret, WriteSecret, RemoveSecret
<1>2. PICK op, hh, rr, c : op = job[s].op /\ hh = h(s) /\ rr = r(s) /\ c = job[s].copy
  OBVIOUS
<1>3. /\ PlanAt(op, hh, rr) /\ PartOf(op, hh, rr, c) /\ Moves(s, c, rr)
  BY <1>1, <1>2, BusyFits DEF Orderly
<1>4. CASE TruncateSecret(s)
  <2>1. hh = "sec_trunc" /\ secret' = "torn"
    BY <1>2, <1>4 DEF TruncateSecret, At, h
  <2>2. rr \in {FileWrite, CW}
    BY <1>3, <2>1 DEF PlanAt, InEdit, InSave, InRing, InTry, InCheck, ClearEarly, ClearLate
  <2>3. PICK x, y : x = Head(rr) /\ y = Tail(rr)
    OBVIOUS
  <2>4. x = "sec_write"
    BY <2>2, <2>3, StepsLeft
  <2>5. PartOf(op, x, y, c)'
    BY <1>1, <1>3, <2>1, <2>4 DEF PartOf, InSave, Readable, Loaded
  <2>6. \A d \in Held' : Apart(d)'
    BY <2>1 DEF Apart
  <2> QED BY <1>1, <1>2, <1>3, <2>3, <2>5, <2>6, OnwardOrderly
<1>5. CASE WriteSecret(s)
  <2>1. hh = "sec_write" /\ secret' = "whole"
    BY <1>2, <1>5 DEF WriteSecret, At, h
  <2>2. (op = "init" /\ rr = V) \/ (op = "clearpass" /\ rr = ER)
    BY <1>3, <2>1 DEF PlanAt, InEdit, InSave, InRing, InTry, InCheck, ClearEarly, ClearLate
  <2>3. PICK x, y : x = Head(rr) /\ y = Tail(rr)
    OBVIOUS
  <2>4. /\ rr # E /\ op = "init" => x = "verify"
        /\ op = "clearpass" => x = "edit" /\ y = R
    BY <2>2, <2>3, StepsLeft
  <2>5. x \in {"verify", "edit"}
    BY <2>2, <2>3, StepsLeft
  <2>6. PartOf(op, x, y, c)'
    BY <2>5 DEF PartOf, InSave
  <2>7. CASE op = "init"
    <3>1. \A d \in Held' : d \in Held
      <4>1. x \notin SaveSteps
        BY <2>5 DEF SaveSteps
      <4> QED BY <1>1, <1>2, <1>3, <2>3, <4>1, HeldNext
    <3>2. \A d \in Held : Readable /\ d = Loaded
      <4>1. \A t \in Screens : ~Saving(t)
        BY <1>1, <1>2, <2>1, OnlyOne DEF Saving, SaveSteps
      <4> QED BY <4>1, InHeld
    <3>3. Readable => Loaded.pass = None
      BY <1>3, <2>1, <2>7 DEF PartOf
    <3>4. \A d \in Held' : Apart(d)'
      BY <3>1, <3>2, <3>3 DEF Apart
    <3> QED BY <1>1, <1>2, <1>3, <2>3, <2>6, <3>4, OnwardOrderly
  <2>8. CASE op = "clearpass"
    <3>1. rr # E /\ Between(op, Head(rr), Tail(rr))
      BY <2>2, <2>3, <2>4, <2>8, StepsLeft DEF Between, InEdit
    <3> QED BY <1>1, <1>2, <1>3, <2>3, <2>6, <3>1, OnwardOrderly
  <2> QED BY <2>2, <2>7, <2>8
<1>6. CASE RemoveSecret(s)
  <2>1. hh = "sec_remove" /\ secret' = "none"
    BY <1>2, <1>6 DEF RemoveSecret, At, h
  <2>2. rr = E
    BY <1>3, <2>1 DEF PlanAt, InEdit, InSave, InRing, InTry, InCheck, ClearEarly, ClearLate
  <2>3. \A d \in Held' : Apart(d)'
    BY <2>1 DEF Apart
  <2> QED BY <1>1, <1>2, <1>3, <2>2, <2>3, OnwardOrderly
<1> QED BY <1>4, <1>5, <1>6

\* A command that edits leaves the passphrase as it is, or moves the key.
LEMMA EditedPass ==
  ASSUME NEW j \in Jobs, NEW c \in Stores
  PROVE  /\ j.op = "clearpass" => Edited(j, c).pass = None
         /\ j.op \notin {"setpass", "clearpass"} => Edited(j, c).pass = c.pass
<1>1. CASE j.op = "clearpass"
  <2>1. Edited(j, c) = [c EXCEPT !.pass = None, !.dated = FALSE, !.ask = FALSE,
                                 !.bio = FALSE, !.pin = None]
    BY <1>1 DEF Edited
  <2> QED BY <1>1, <2>1 DEF Stores
<1>2. CASE j.op = "setask"
  <2>1. Edited(j, c) = [c EXCEPT !.ask = j.flag, !.keyring = None]
    BY <1>2 DEF Edited
  <2> QED BY <1>2, <2>1 DEF Stores
<1>3. CASE j.op = "setpin"
  <2>1. Edited(j, c) = [c EXCEPT !.pin = 0]
    BY <1>3 DEF Edited
  <2> QED BY <1>3, <2>1 DEF Stores
<1>4. CASE j.op = "clearpin"
  <2>1. Edited(j, c) = [c EXCEPT !.pin = None]
    BY <1>4 DEF Edited
  <2> QED BY <1>4, <2>1 DEF Stores
<1>5. CASE j.op = "setbio"
  <2>1. Edited(j, c) = [c EXCEPT !.bio = TRUE]
    BY <1>5 DEF Edited
  <2> QED BY <1>5, <2>1 DEF Stores
<1>6. CASE j.op \notin {"setpass", "setask", "clearpass", "setpin", "clearpin", "setbio"}
  <2>1. Edited(j, c) = [c EXCEPT !.bio = FALSE]
    BY <1>6 DEF Edited
  <2> QED BY <1>6, <2>1 DEF Stores
<1> QED BY <1>1, <1>2, <1>3, <1>4, <1>5, <1>6

LEMMA EditOrderly ==
  ASSUME OnPlans, Whole, Orderly, NEW s \in Screens, Edit(s)
  PROVE  Orderly'
<1>1. Busy(s) /\ h(s) = "edit" /\ ks' = ks /\ secret' = secret /\ phase' = phase
  BY EditMoves DEF Edit, Quiet, files
<1>2. Readable
  <2>1. \A t \in Screens : ~Rewriting(t)
    BY <1>1, OnlyOne DEF Rewriting
  <2> QED BY <2>1 DEF Whole, Readable
<1>3. PICK op, rr, c : op = job[s].op /\ rr = r(s) /\ c = Edited(job[s], Loaded)
  OBVIOUS
<1>4. PlanAt(op, "edit", rr) /\ rr \in Seq(Steps) /\ job[s] \in Jobs
  BY <1>1, <1>3, BusyFits
<1>5. CASE op \in NeedsPassphrase /\ Moves(s, job[s].copy, E)
  <2>1. ~Between(op, h(s), r(s))
    BY <1>5 DEF Between, NeedsPassphrase
  <2> QED BY <1>1, <1>3, <1>5, <2>1, PlainOrderly
<1>6. CASE Loaded \in Stores /\ Moves(s, c, Save \o rr)
  <2>1. PICK t : t = Save \o rr
    OBVIOUS
  <2>2. t # E /\ Head(t) = "trunc" /\ Tail(t) = Cons("write", rr)
    BY <1>4, <2>1, Prefixed
  <2>3. op = "clearpass" => c.pass = None /\ rr = R
    BY <1>3, <1>4, <1>6, EditedPass
       DEF PlanAt, InEdit, InSave, InRing, InTry, InCheck, ClearEarly, ClearLate
  <2>4. op \in {"setpass", "clearpass"} => Between(op, Head(t), Tail(t))
    BY <2>2, <2>3 DEF Between, InEdit, InSave
  <2>5. op \notin {"setpass", "clearpass"} => Apart(c)
    <3>1. op \notin {"setpass", "clearpass"} => c.pass = Loaded.pass
      BY <1>3, <1>4, <1>6, EditedPass
    <3>2. op \notin {"setpass", "clearpass"} => Apart(Loaded)
      BY <1>1, <1>2, <1>3, ApartNow, InHeld DEF Between
    <3> QED BY <3>1, <3>2 DEF Apart
  <2>6. Between(op, h(s), r(s)) => op = "clearpass"
    BY <1>1 DEF Between
  <2>7. PartOf(op, "trunc", Cons("write", rr), c)'
    <3>1. op # "init"
      BY <1>4 DEF PlanAt, InEdit, InSave, InRing, InTry, InCheck
    <3> QED BY <2>3, <3>1 DEF PartOf
  <2>8. Moves(s, c, t)
    BY <1>6, <2>1
  <2> QED BY <1>1, <1>3, <2>2, <2>4, <2>5, <2>6, <2>7, <2>8, StillOrderly
<1> QED BY <1>2, <1>3, <1>5, <1>6, EditMoves

\* What follows a look at the keyring.
LEMMA RingNext ==
  ASSUME NEW op, NEW rr, PlanAt(op, "ring", rr)
  PROVE  /\ rr \in Seq(Steps)
         /\ rr # E => Head(rr) \in Plain
         /\ op = "setpass" => rr = Drop
<1>1. /\ rr \in {O, V, CK, QK, BK, Drop, E}
      /\ op = "setpass" => rr = Drop
  BY DEF PlanAt, InEdit, InSave, InRing, InTry, InCheck, ClearEarly, ClearLate
<1>2. rr # E => Head(rr) \in {"open", "verify", "same_key", "sec_remove"}
  BY <1>1, StepsLeft
<1> QED BY <1>1, <1>2, PlacesAreSeqs, StepsAre DEF Plain

\* A rewriting that keeps the passphrase, or one where no .secret is.
LEMMA TryOrderly ==
  ASSUME OnPlans, Orderly, NEW s \in Screens, Busy(s), NEW c, NEW rr \in Seq(Steps),
         Moves(s, c, TrySave \o rr), secret' = secret, ks' = ks, phase' = phase,
         Between(job[s].op, h(s), r(s)) => job[s].op = "setpass",
         ~Between(job[s].op, h(s), r(s)) => Apart(c)
  PROVE  Orderly'
<1>1. PICK op : op = job[s].op
  OBVIOUS
<1>2. PICK t : t = TrySave \o rr
  OBVIOUS
<1>3. t # E /\ Head(t) = "try_trunc" /\ Tail(t) = Cons("try_write", rr)
  BY <1>2, Prefixed
<1>4. PartOf(op, "try_trunc", Cons("try_write", rr), c)'
  BY DEF PartOf, InSave
<1>5. op = "setpass" => Between(op, "try_trunc", Cons("try_write", rr))
  BY DEF Between
<1>6. Moves(s, c, t)
  BY <1>2
<1> QED BY <1>1, <1>3, <1>4, <1>5, <1>6, StillOrderly

LEMMA RingOrderly ==
  ASSUME OnPlans, Orderly, NEW s \in Screens, RingWrap(s)
  PROVE  Orderly'
<1>1. Busy(s) /\ h(s) = "ring" /\ ks' = ks /\ secret' = secret /\ phase' = phase
  BY RingMoves DEF RingWrap, Quiet, files
<1>2. PICK op, rr : op = job[s].op /\ rr = r(s)
  OBVIOUS
<1>3. PlanAt(op, "ring", rr)
  BY <1>1, <1>2, BusyFits
<1>4. rr \in Seq(Steps) /\ (rr # E => Head(rr) \in Plain) /\ (op = "setpass" => rr = Drop)
  BY <1>3, RingNext
<1>5. Between(op, h(s), r(s)) => op = "setpass"
  BY <1>1 DEF Between, InEdit, InSave
<1>6. CASE Moves(s, job[s].copy, r(s))
  <2>1. CASE op = "setpass"
    <3>1. PICK c : c = job[s].copy
      OBVIOUS
    <3>2. rr # E /\ Head(rr) = "sec_remove"
      BY <1>4, <2>1, StepsLeft
    <3>3. Between(op, Head(rr), Tail(rr))
      BY <2>1, <3>2 DEF Between
    <3>4. PICK x, y : x = Head(rr) /\ y = Tail(rr)
      OBVIOUS
    <3>5. PartOf(op, x, y, c)'
      BY <3>2, <3>4 DEF PartOf, InSave
    <3>6. Moves(s, c, rr)
      BY <1>2, <1>6, <3>1
    <3> QED BY <1>1, <1>2, <3>2, <3>3, <3>4, <3>5, <3>6, StillOrderly
  <2>2. CASE op # "setpass"
    BY <1>1, <1>2, <1>4, <1>5, <1>6, <2>2, PlainOrderly
  <2> QED BY <2>1, <2>2
<1>7. CASE /\ Readable /\ Loaded \in Stores /\ ring \in Keks
           /\ Moves(s, [Loaded EXCEPT !.keyring = ring], TrySave \o r(s))
  <2>1. PICK c : c = [Loaded EXCEPT !.keyring = ring]
    OBVIOUS
  <2>2. c.pass = Loaded.pass
    BY <1>7, <2>1 DEF Stores
  <2>3. ~Between(op, h(s), r(s)) => Apart(c)
    BY <1>1, <1>2, <1>7, <2>2, ApartNow, InHeld DEF Apart
  <2>4. Moves(s, c, TrySave \o rr)
    BY <1>2, <1>7, <2>1
  <2> QED BY <1>1, <1>2, <1>4, <1>5, <2>3, <2>4, TryOrderly
<1> QED BY <1>6, <1>7, RingMoves

LEMMA CheckOrderly ==
  ASSUME OnPlans, Orderly, NEW s \in Screens, Check(s)
  PROVE  Orderly'
<1>1. Busy(s) /\ h(s) = "check" /\ ks' = ks /\ secret' = secret /\ phase' = phase
  BY CheckMoves DEF Check, Quiet, files
<1>2. PICK op, rr : op = job[s].op /\ rr = r(s)
  OBVIOUS
<1>3. PlanAt(op, "check", rr) /\ rr \in Seq(Steps)
  BY <1>1, <1>2, BusyFits
<1>4. ~Between(op, h(s), r(s))
  BY <1>1, <1>2, <1>3, NotBetween
<1>5. CASE Moves(s, job[s].copy, E)
  BY <1>1, <1>2, <1>4, <1>5, PlainOrderly
<1>6. CASE Moves(s, Loaded, <<"repair">> \o r(s))
  <2>1. PICK t : t = <<"repair">> \o r(s)
    OBVIOUS
  <2>2. Head(t) \in Plain
    BY <1>2, <1>3, <2>1, Prefixed, StepsAre DEF Plain
  <2> QED BY <1>1, <1>2, <1>4, <1>6, <2>1, <2>2, PlainOrderly
<1>7. CASE Readable /\ Loaded.pass # None /\ Moves(s, Loaded, <<"upgrade", "repair">> \o r(s))
  <2>1. PICK t, c : t = <<"upgrade", "repair">> \o r(s) /\ c = Loaded
    OBVIOUS
  <2>2. Head(t) = "upgrade" /\ t # E
    BY <1>2, <1>3, <2>1, Prefixed
  <2>3. secret # "whole"
    BY <1>1, <1>2, <1>4, <1>7, ApartNow, InHeld DEF Apart
  <2>4. PICK x, y : x = Head(t) /\ y = Tail(t)
    OBVIOUS
  <2>5. PartOf(op, x, y, c)'
    BY <1>1, <2>2, <2>3, <2>4 DEF PartOf, InSave
  <2>6. Moves(s, c, t) /\ Head(t) \notin SaveSteps
    BY <1>7, <2>1, <2>2 DEF SaveSteps
  <2> QED BY <1>1, <1>2, <1>4, <2>4, <2>5, <2>6, StillOrderly
<1> QED BY <1>5, <1>6, <1>7, CheckMoves

LEMMA UpgradeOrderly ==
  ASSUME OnPlans, Orderly, NEW s \in Screens, Upgrade(s)
  PROVE  Orderly'
<1>1. Busy(s) /\ h(s) = "upgrade" /\ ks' = ks /\ secret' = secret /\ phase' = phase
  BY UpgradeMoves DEF Upgrade, Quiet, files
<1>2. PICK op, rr, c : op = job[s].op /\ rr = r(s) /\ c = job[s].copy
  OBVIOUS
<1>3. PlanAt(op, "upgrade", rr) /\ rr \in Seq(Steps) /\ PartOf(op, "upgrade", rr, c)
  BY <1>1, <1>2, BusyFits DEF Orderly
<1>4. ~Between(op, h(s), r(s)) /\ secret # "whole"
  BY <1>1, <1>2, <1>3, NotBetween DEF PartOf
<1>5. Head(rr) = "repair"
  <2>1. PICK rest \in {O, V, CK, QK, BK} : rr = Cons("repair", rest)
    BY <1>3 DEF PlanAt, InEdit, InSave, InRing, InTry, InCheck, ClearEarly, ClearLate
  <2>2. rest \in Seq(Steps) /\ "repair" \in Steps
    BY <2>1, PlacesAreSeqs, StepsAre
  <2> QED BY <2>1, <2>2, ConsIs
<1>6. CASE Moves(s, job[s].copy, r(s))
  <2>1. Head(rr) \in Plain
    BY <1>5, StepsAre DEF Plain
  <2> QED BY <1>1, <1>2, <1>4, <1>6, <2>1, PlainOrderly
<1>7. ASSUME NEW d, Moves(s, d, TrySave \o r(s)) PROVE Orderly'
  <2>1. Apart(d)
    BY <1>4 DEF Apart
  <2> QED BY <1>1, <1>2, <1>3, <1>4, <1>7, <2>1, TryOrderly
<1> QED BY <1>6, <1>7, UpgradeMoves

LEMMA RepairOrderly ==
  ASSUME OnPlans, Orderly, NEW s \in Screens, Repair(s)
  PROVE  Orderly'
<1>1. Busy(s) /\ h(s) = "repair" /\ ks' = ks /\ secret' = secret /\ phase' = phase
  BY RepairMoves DEF Repair, Quiet, files
<1>2. PICK op, rr : op = job[s].op /\ rr = r(s)
  OBVIOUS
<1>3. PlanAt(op, "repair", rr) /\ rr \in Seq(Steps)
  BY <1>1, <1>2, BusyFits
<1>4. ~Between(op, h(s), r(s))
  BY <1>1, <1>2, <1>3, NotBetween
<1>5. Head(rr) \in Plain
  <2>1. rr \in {O, V, CK, QK, BK}
    BY <1>3 DEF PlanAt, InEdit, InSave, InRing, InTry, InCheck, ClearEarly, ClearLate
  <2>2. Head(rr) \in {"open", "verify", "same_key"}
    BY <2>1, StepsLeft
  <2> QED BY <2>2, StepsAre DEF Plain
<1>6. CASE Moves(s, job[s].copy, r(s))
  BY <1>1, <1>2, <1>4, <1>5, <1>6, PlainOrderly
<1>7. CASE Moves(s, job[s].copy, <<"ring">> \o r(s))
  <2>1. PICK t : t = <<"ring">> \o r(s)
    OBVIOUS
  <2>2. Head(t) \in Plain
    BY <1>2, <1>3, <2>1, Prefixed, StepsAre DEF Plain
  <2> QED BY <1>1, <1>2, <1>4, <1>7, <2>1, <2>2, PlainOrderly
<1> QED BY <1>6, <1>7, RepairMoves

\* Steps that look, ask or publish the key.
LEMMA LookOrderly ==
  ASSUME OnPlans, Orderly, NEW s \in Screens,
         SameKey(s) \/ BiometricAsk(s) \/ Verify(s) \/ Open(s)
  PROVE  Orderly'
<1>1. /\ Busy(s) /\ h(s) \in {"same_key", "bio_ask", "verify", "open"}
      /\ ks' = ks /\ secret' = secret /\ (phase' = phase \/ phase' = "open")
  <2>1. CASE SameKey(s)
    BY <2>1, SameKeyMoves DEF SameKey, Quiet, files
  <2>2. CASE BiometricAsk(s)
    BY <2>2, BiometricMoves DEF BiometricAsk, Quiet, files
  <2>3. CASE Verify(s)
    BY <2>3, VerifyMoves DEF Verify, Quiet, files
  <2>4. CASE Open(s)
    BY <2>4, OpenMoves DEF Open, files
  <2> QED BY <2>1, <2>2, <2>3, <2>4
<1>2. PICK op, hh, rr : op = job[s].op /\ hh = h(s) /\ rr = r(s)
  OBVIOUS
<1>3. PlanAt(op, hh, rr)
  BY <1>1, <1>2, BusyFits
<1>4. ~Between(op, hh, rr)
  BY <1>1, <1>2, <1>3, NotBetween
<1>5. CASE rr = E \/ Head(rr) \in Plain
  <2>1. Q # E /\ Head(Q) \in Plain
    BY StepsLeft, StepsAre DEF Plain
  <2>2. O # E /\ Head(O) \in Plain
    BY StepsLeft, StepsAre DEF Plain
  <2>3. \E rest : (rest # E => Head(rest) \in Plain) /\ Moves(s, job[s].copy, rest)
    BY <1>2, <1>5, <2>1, <2>2, SameKeyMoves, BiometricMoves, VerifyMoves, OpenMoves
  <2> QED BY <1>1, <1>2, <1>4, <2>3, PlainOrderly
<1>6. CASE hh = "same_key" /\ rr = CT
  <2>1. CASE Moves(s, job[s].copy, E)
    BY <1>1, <1>2, <1>4, <2>1, PlainOrderly
  <2>2. CASE Moves(s, job[s].copy, r(s))
    <3>1. op = "clearpass"
      <4>1. CT # Q /\ CT # B
        <5>1. Head(CT) = "sec_trunc" /\ Head(Q) = "edit" /\ Head(B) = "bio_ask"
          BY StepsLeft
        <5> QED BY <5>1
      <4> QED BY <1>3, <1>6, <4>1 DEF PlanAt, InEdit, InSave, InRing, InTry, InCheck
    <3>2. PICK c, x, y : c = job[s].copy /\ x = Head(rr) /\ y = Tail(rr)
      OBVIOUS
    <3>3. x = "sec_trunc"
      BY <1>6, <3>2, StepsLeft
    <3>4. PartOf(op, x, y, c)'
      BY <3>1, <3>3 DEF PartOf, InSave
    <3>5. Moves(s, c, rr) /\ Head(rr) \notin SaveSteps
      BY <1>2, <2>2, <3>2, <3>3 DEF SaveSteps
    <3> QED BY <1>1, <1>2, <1>4, <3>2, <3>4, <3>5, StillOrderly
  <2> QED BY <1>1, <1>2, <1>6, <2>1, <2>2, SameKeyMoves, BiometricMoves, VerifyMoves, OpenMoves
<1>7. rr \in {Q, B, CT, O, E}
  BY <1>1, <1>2, <1>3 DEF PlanAt, InEdit, InSave, InRing, InTry, InCheck, ClearEarly, ClearLate
<1>8. rr = CT => hh = "same_key"
  <2>1. CT \notin {Q, B, O, E}
    <3>1. Head(CT) = "sec_trunc" /\ Head(Q) = "edit" /\ Head(B) = "bio_ask" /\ Head(O) = "open"
      BY StepsLeft
    <3> QED BY <3>1, StepsLeft
  <2> QED BY <1>1, <1>2, <1>3, <2>1
          DEF PlanAt, InEdit, InSave, InRing, InTry, InCheck, ClearEarly, ClearLate
<1>9. rr # CT => rr = E \/ Head(rr) \in {"edit", "bio_ask", "open"}
  BY <1>7, StepsLeft
<1> QED BY <1>5, <1>6, <1>8, <1>9, StepsAre DEF Plain

LEMMA PinOrderly ==
  ASSUME OnPlans, Orderly, NEW s \in Screens, PinCount(s) \/ PinCheck(s)
  PROVE  Orderly'
<1>1. /\ Busy(s) /\ h(s) \in {"pin_count", "pin_check"} /\ job[s].op = "pin"
      /\ ks' = ks /\ secret' = secret /\ phase' = phase
  BY PinCountMoves, PinCheckMoves DEF PinCount, PinCheck, Quiet, files
<1>2. PICK op, c : op = job[s].op /\ c = job[s].copy
  OBVIOUS
<1>3. ~Between(op, h(s), r(s))
  BY <1>1, <1>2 DEF Between
<1>4. CASE Moves(s, job[s].copy, E)
  BY <1>1, <1>2, <1>3, <1>4, PlainOrderly
<1>5. ASSUME NEW d, NEW rr \in {P, O, E}, Moves(s, d, Save \o rr), Apart(d)
      PROVE  Orderly'
  <2>1. PICK t : t = Save \o rr
    OBVIOUS
  <2>2. t # E /\ Head(t) = "trunc" /\ Tail(t) = Cons("write", rr) /\ Moves(s, d, t)
    <3>1. rr \in Seq(Steps)
      BY PlacesAreSeqs
    <3>2. t # E /\ Head(t) = "trunc" /\ Tail(t) = Cons("write", rr)
      BY <2>1, <3>1, Prefixed
    <3> QED BY <1>5, <2>1, <3>2
  <2>3. PartOf(op, "trunc", Cons("write", rr), d)'
    BY <1>1, <1>2 DEF PartOf
  <2> QED BY <1>1, <1>2, <1>3, <1>5, <2>2, <2>3, StillOrderly
<1>6. CASE PinCount(s)
  <2>1. CASE /\ Readable /\ Loaded \in Stores /\ Loaded.pin \in Nat
             /\ Moves(s, [Loaded EXCEPT !.pin = Loaded.pin + 1], Save \o P)
    <3>1. PICK d : d = [Loaded EXCEPT !.pin = Loaded.pin + 1]
      OBVIOUS
    <3>2. d.pass = Loaded.pass
      BY <2>1, <3>1 DEF Stores
    <3>3. Apart(d)
      BY <1>1, <1>2, <1>3, <2>1, <3>2, ApartNow, InHeld DEF Apart
    <3> QED BY <1>5, <2>1, <3>1, <3>3
  <2> QED BY <1>4, <1>6, <2>1, PinCountMoves
<1>7. CASE PinCheck(s)
  <2>1. c \in Stores /\ Apart(c)
    <3>1. h(s) = "pin_check"
      BY <1>7, PinCheckMoves
    <3> QED BY <1>1, <1>2, <3>1, BusyFits DEF Orderly, PartOf
  <2>2. CASE Moves(s, [job[s].copy EXCEPT !.pin = 0], Save \o O)
    <3>1. PICK d : d = [c EXCEPT !.pin = 0]
      OBVIOUS
    <3>2. d.pass = c.pass
      BY <2>1, <3>1 DEF Stores
    <3> QED BY <1>2, <1>5, <2>1, <2>2, <3>1, <3>2 DEF Apart
  <2>3. CASE Moves(s, [job[s].copy EXCEPT !.pin = None], Save \o E)
    <3>1. PICK d : d = [c EXCEPT !.pin = None]
      OBVIOUS
    <3>2. d.pass = c.pass
      BY <2>1, <3>1 DEF Stores
    <3> QED BY <1>2, <1>5, <2>1, <2>3, <3>1, <3>2 DEF Apart
  <2> QED BY <1>4, <1>7, <2>2, <2>3, PinCheckMoves
<1> QED BY <1>6, <1>7

LEMMA StepOrderly ==
  ASSUME OnPlans, Whole, Orderly, NEW s \in Screens, Step(s), ~FileError(s)
  PROVE  Orderly'
BY TruncateOrderly, WriteOrderly, SecretOrderly, EditOrderly, RingOrderly, CheckOrderly,
   UpgradeOrderly, RepairOrderly, PinOrderly, LookOrderly DEF Step

LEMMA StepClean ==
  ASSUME OnPlans, NEW s \in Screens, Step(s), Clean'
  PROVE  Clean /\ ~FileError(s)
<1>1. ~FileError(s)
  <2>1. errors \in Nat
    BY KeystoreAssumption DEF OnPlans, TypeOK
  <2> QED BY <2>1 DEF FileError, Clean
<1>2. errors' = errors /\ crashes' = crashes
  BY <1>1, StepFiles
<1>3. midway' = midway
  BY <1>1 DEF Step, history, Quiet, Truncate, Write, TruncateSecret, WriteSecret, RemoveSecret,
     Edit, RingWrap, Check, Upgrade, Repair, SameKey, PinCount, PinCheck, BiometricAsk,
     Verify, Open
<1> QED BY <1>1, <1>2, <1>3 DEF Clean

\* A command begins while no other screen is busy.
LEMMA BegunOrderly ==
  ASSUME OnPlans, Orderly, NEW s \in Screens, NEW op, NEW phrase, NEW flag, NEW copy, NEW todo,
         Begins(s, op, phrase, flag, copy, todo), ks' = ks, secret' = secret,
         \A t \in Screens \ {s} : ~Busy(t), s # "boot" => phase' = "open",
         Head(todo) \in SaveSteps => Apart(copy),
         PartOf(op, Head(todo), Tail(todo), copy)'
  PROVE  Orderly'
<1>1. /\ Busy(s)' /\ job'[s].op = op /\ job'[s].copy = copy
      /\ h(s)' = Head(todo) /\ r(s)' = Tail(todo)
      /\ \A t \in Screens \ {s} : ~Busy(t)'
  BY BegunStands
<1>2. (Busy("master") \/ Busy("quick") => phase = "open")'
  BY <1>1 DEF Screens
<1>3. \A d \in Held' : Apart(d)'
  <2>1. \A t \in Screens : ~Midway(t)
    BY DEF Midway, Begins
  <2>2. \A d \in Held : Apart(d)
    BY <2>1 DEF Orderly
  <2>3. ASSUME NEW d \in Held' PROVE Apart(d)
    BY <2>2, HeldBegun
  <2> QED BY <2>3 DEF Apart
<1>4. ASSUME NEW t \in Screens, Busy(t)'
      PROVE  PartOf(job[t].op, h(t), r(t), job[t].copy)'
  <2>1. t = s
    BY <1>1, <1>4
  <2> QED BY <1>1, <2>1
<1> QED BY <1>2, <1>3, <1>4 DEF Orderly

LEMMA PlainBegun ==
  ASSUME OnPlans, Orderly, NEW s \in Screens, NEW op, NEW phrase, NEW flag, NEW copy, NEW todo,
         Begins(s, op, phrase, flag, copy, todo), ks' = ks, secret' = secret,
         \A t \in Screens \ {s} : ~Busy(t), s # "boot" => phase' = "open",
         Head(todo) \in Plain
  PROVE  Orderly'
<1>1. Head(todo) \notin SaveSteps
  BY DEF Plain, SaveSteps
<1>2. PICK x, y : x = Head(todo) /\ y = Tail(todo)
  OBVIOUS
<1>3. PartOf(op, x, y, copy)'
  BY <1>2 DEF Plain, PartOf, InSave
<1> QED BY <1>1, <1>2, <1>3, BegunOrderly

LEMMA InitializeOrderly ==
  ASSUME OnPlans, Orderly, NEW mode, NEW p \in Phrases, Initialize(mode, p)
  PROVE  Orderly'
<1>1. /\ ks' = ks /\ secret' = secret /\ phase = "setup" /\ secret = "none"
      /\ "boot" \in Screens
  BY DEF Initialize, Quiet, files, IsFirstRun, Screens
<1>2. PICK c : c = InitCopy(mode, p)
  OBVIOUS
<1>3. PICK t : t = IF mode = "file" THEN Save \o FileTrunc ELSE Save \o CV
  OBVIOUS
<1>4. Begins("boot", "init", p, FALSE, c, t)
  BY <1>2, <1>3, InitializeBegins
<1>5. Head(t) = "trunc" /\ Tail(t) = Cons("write", IF mode = "file" THEN FileTrunc ELSE CV)
  BY <1>3, PlacesAreSeqs, Prefixed
<1>6. c.pass = (IF mode = "file" THEN None ELSE p)
  BY <1>2 DEF InitCopy, Blank
<1>7. \A u \in Screens \ {"boot"} : ~Busy(u)
  BY <1>1 DEF Orderly, Screens
<1>8. PartOf("init", Head(t), Tail(t), c)'
  <2>1. PICK x, y : x = Head(t) /\ y = Tail(t)
    OBVIOUS
  <2>2. Cons("write", FileTrunc) # Cons("write", CV)
    BY PlacesAreSeqs, StepsLeft, InnerApart
  <2>3. InSave(x, y, FileTrunc) => c.pass = None
    BY <1>5, <1>6, <2>1, <2>2 DEF InSave
  <2>4. x = "trunc"
    BY <1>5, <2>1
  <2>5. PartOf("init", x, y, c)'
    BY <2>3, <2>4 DEF PartOf
  <2> QED BY <2>1, <2>5
<1>9. Apart(c)
  BY <1>1 DEF Apart
<1> QED BY <1>1, <1>4, <1>7, <1>8, <1>9, BegunOrderly

LEMMA CommandOrderly ==
  ASSUME OnPlans, PhoneWaits, Orderly, BootScreen \/ MasterSection \/ QuickSection
  PROVE  Orderly'
<1>1. ks' = ks /\ secret' = secret /\ phase' = phase
  <2>1. Quiet
    BY CommandBegins
  <2> QED BY <2>1 DEF Quiet, files
<1>2. "boot" \in Screens /\ "master" \in Screens /\ "quick" \in Screens
  BY DEF Screens
<1>3. {"check", "pin_count", "bio_ask", "edit"} \subseteq Plain
  BY StepsAre DEF Plain
<1>4. /\ \A t \in Seq(Steps) : /\ Head(Cons("check", t)) = "check"
                               /\ Head(Cons("pin_count", t)) = "pin_count"
                               /\ Head(Cons("bio_ask", t)) = "bio_ask"
                               /\ Head(Cons("edit", t)) = "edit"
      /\ Head(Q) = "edit" /\ Head(ER) = "edit"
  BY StepsAre, ConsFacts, StepsLeft
<1>5. ASSUME phase = "locked", NEW op, NEW phrase, NEW flag, NEW copy, NEW todo,
             Begins("boot", op, phrase, flag, copy, todo),
             Head(todo) \in {"check", "pin_count", "bio_ask", "edit"}
      PROVE  Orderly'
  <2>1. \A t \in Screens \ {"boot"} : ~Busy(t)
    BY <1>5 DEF Orderly, Screens
  <2> QED BY <1>1, <1>2, <1>3, <1>5, <2>1, PlainBegun
<1>6. ASSUME phase = "open", NEW s \in {"master", "quick"}, NEW op, NEW phrase, NEW flag,
             NEW copy, NEW todo, Begins(s, op, phrase, flag, copy, todo),
             s = "quick" \/ Phone => AllIdle,
             Head(todo) \in {"check", "pin_count", "bio_ask", "edit"}
      PROVE  Orderly'
  <2>1. ~Busy("boot") /\ (Busy("quick") => Phone)
    BY <1>6 DEF OnPlans, Phases
  <2>2. \A t \in Screens \ {s} : ~Busy(t)
    BY <1>6, <2>1 DEF AllIdle, Screens
  <2> QED BY <1>1, <1>2, <1>3, <1>6, <2>2, PlainBegun
<1>7. ASSUME NEW p \in Phrases, Unlock(p) PROVE Orderly'
  <2>1. PICK t : t = Cons("check", O)
    OBVIOUS
  <2>2. Begins("boot", "unlock", p, FALSE, Blank, t) /\ Head(t) = "check"
    BY <1>4, <1>7, <2>1, UnlockBegins, PlacesAreSeqs
  <2> QED BY <1>5, <1>7, <2>2 DEF Unlock
<1>8. ASSUME NEW right \in BOOLEAN, UnlockPin(right) PROVE Orderly'
  <2>1. PICK t : t = Cons("pin_count", P)
    OBVIOUS
  <2>2. Begins("boot", "pin", None, right, Blank, t) /\ Head(t) = "pin_count"
    BY <1>4, <1>8, <2>1, PinBegins, PlacesAreSeqs
  <2> QED BY <1>5, <1>8, <2>2 DEF UnlockPin
<1>9. ASSUME UnlockBiometric PROVE Orderly'
  <2>1. PICK t : t = Cons("bio_ask", O)
    OBVIOUS
  <2>2. Begins("boot", "bio", None, FALSE, Blank, t) /\ Head(t) = "bio_ask"
    BY <1>4, <1>9, <2>1, BiometricBegins, PlacesAreSeqs
  <2> QED BY <1>5, <1>9, <2>2 DEF UnlockBiometric
<1>10. ASSUME NEW p \in Phrases, NEW always \in BOOLEAN, SetPassphrase(p, always)
       PROVE  Orderly'
  <2>1. PICK t : t = Cons("edit", IF always THEN Drop ELSE RD)
    OBVIOUS
  <2>2. Begins("master", "setpass", p, always, Blank, t) /\ Head(t) = "edit"
        /\ (Phone => AllIdle)
    BY <1>4, <1>10, <2>1, SetPassphraseBegins, PlacesAreSeqs
  <2> QED BY <1>6, <1>10, <2>2 DEF SetPassphrase
<1>11. ASSUME NEW always \in BOOLEAN, SetAlwaysAsk(always)
       PROVE  Orderly'
  <2>1. PICK t : t = IF always THEN Q ELSE ER
    OBVIOUS
  <2>2. Begins("master", "setask", None, always, Blank, t) /\ Head(t) = "edit"
        /\ (Phone => AllIdle)
    BY <1>4, <1>11, <2>1, SetAskBegins
  <2> QED BY <1>6, <1>11, <2>2 DEF SetAlwaysAsk
<1>12. ASSUME NEW p \in Phrases, ClearPassphrase(p) PROVE Orderly'
  <2>1. PICK t : t = Cons("check", CK)
    OBVIOUS
  <2>2. Begins("master", "clearpass", p, FALSE, Blank, t) /\ Head(t) = "check"
        /\ (Phone => AllIdle)
    BY <1>4, <1>12, <2>1, ClearPassphraseBegins, PlacesAreSeqs
  <2> QED BY <1>6, <1>12, <2>2 DEF ClearPassphrase
<1>13. ASSUME QuickSection PROVE Orderly'
  <2>1. AllIdle /\ phase = "open"
    BY <1>13, QuickBegins
  <2>2. PICK q \in QuickTodo : \E phrase : Begins("quick", q[1], phrase, FALSE, Blank, q[2])
    BY <1>13, QuickBegins
  <2>3. PICK phrase : Begins("quick", q[1], phrase, FALSE, Blank, q[2])
    BY <2>2
  <2>4. Head(q[2]) \in {"check", "edit"}
    <3>1. PICK x, y : x = Cons("check", QK) /\ y = Cons("check", BK)
      OBVIOUS
    <3>2. Head(x) = "check" /\ Head(y) = "check"
      BY <1>4, <3>1, PlacesAreSeqs
    <3>3. q \in {<<"setpin", x>>, <<"setbio", y>>, <<"clearpin", Q>>, <<"clearbio", Q>>}
      BY <3>1 DEF QuickTodo
    <3> QED BY <1>4, <3>2, <3>3
  <2>5. PICK o, t : o = q[1] /\ t = q[2]
    OBVIOUS
  <2>6. Begins("quick", o, phrase, FALSE, Blank, t) /\ Head(t) \in {"check", "edit"}
    BY <2>3, <2>4, <2>5
  <2> QED BY <1>6, <2>1, <2>6
<1>14. CASE BootScreen
  BY <1>7, <1>8, <1>9, <1>14, InitializeOrderly DEF BootScreen
<1>15. CASE MasterSection
  BY <1>10, <1>11, <1>12, <1>15 DEF MasterSection
<1> QED BY <1>13, <1>14, <1>15

\* No command moves and neither file changes.
LEMMA StayOrderly ==
  ASSUME Orderly, job' = job, ks' = ks, secret' = secret, phase' = phase \/ AllIdle
  PROVE  Orderly'
<1>1. \A t \in Screens : (Busy(t)' <=> Busy(t)) /\ h(t)' = h(t) /\ r(t)' = r(t)
  BY DEF Busy, h, r
<1>2. (Busy("master") \/ Busy("quick") => phase = "open")'
  BY <1>1 DEF Orderly, AllIdle, Screens
<1>3. ASSUME NEW t \in Screens PROVE Midway(t)' <=> Midway(t)
  BY <1>1 DEF Midway, Between
<1>4. Held' = Held
  BY <1>1 DEF Held, Saving, Readable, Loaded
<1>5. ((\A c \in Held : Apart(c)) \/ \E t \in Screens : Midway(t))'
  BY <1>3, <1>4 DEF Orderly, Apart
<1>6. ASSUME NEW t \in Screens, Busy(t)'
      PROVE  PartOf(job[t].op, h(t), r(t), job[t].copy)'
  <2>1. PICK o, x, y, e : o = job[t].op /\ x = h(t) /\ y = r(t) /\ e = job[t].copy
    OBVIOUS
  <2>2. PartOf(o, x, y, e)
    BY <1>1, <1>6, <2>1 DEF Orderly
  <2>3. PartOf(o, x, y, e)'
    BY <2>2 DEF PartOf, Apart, Readable, Loaded
  <2> QED BY <1>1, <2>1, <2>3
<1> QED BY <1>2, <1>5, <1>6 DEF Orderly

LEMMA LaunchOrderly ==
  ASSUME OnPlans, PhoneWaits, Orderly, Launch
  PROVE  Orderly'
<1>1. AllIdle /\ ks' = ks /\ secret' = secret
  BY OffMeansIdle DEF Launch, files
<1>2. CASE job' = job
  BY <1>1, <1>2, StayOrderly
<1>3. CASE Start("boot", "launch", None, FALSE, <<"ring", "open">>)
  <2>1. PICK t : t = Cons("ring", O)
    OBVIOUS
  <2>2. Begins("boot", "launch", None, FALSE, Blank, t)
    BY <1>3, <2>1, LaunchBegins
  <2>3. Head(t) \in Plain
    <3>1. "ring" \in Steps /\ O \in Seq(Steps)
      BY PlacesAreSeqs, StepsAre
    <3> QED BY <2>1, <3>1, ConsIs DEF Plain
  <2>4. "boot" \in Screens /\ \A u \in Screens \ {"boot"} : ~Busy(u)
    BY <1>1 DEF AllIdle, Screens
  <2> QED BY <1>1, <2>2, <2>3, <2>4, PlainBegun
<1> QED BY <1>2, <1>3 DEF Launch

Tidy == Clean => Orderly

LEMMA OthersTidy ==
  ASSUME OnPlans, Tidy, Lock \/ SaveData \/ RingChanges \/ Quit \/ Crash \/ UNCHANGED vars
  PROVE  Tidy'
<1> USE DEF files, counts, history
<1>1. CASE Crash
  <2>1. crashes \in Nat /\ crashes' = crashes + 1
    BY <1>1, KeystoreAssumption DEF Crash, OnPlans, TypeOK
  <2>2. crashes' # 0
    BY <2>1
  <2> QED BY <2>2 DEF Tidy, Clean
<1>2. CASE ~Crash
  <2>1. /\ errors' = errors /\ crashes' = crashes /\ ks' = ks /\ secret' = secret /\ job' = job
    BY <1>2 DEF Lock, SaveData, RingChanges, Quit, vars
  <2>2. ~midway' => ~midway /\ (phase' = phase \/ AllIdle)
    BY <1>2 DEF Lock, SaveData, RingChanges, Quit, vars
  <2> QED BY <2>1, <2>2, StayOrderly DEF Tidy, Clean
<1> QED BY <1>1, <1>2

LEMMA InitTidy ==
  ASSUME Init
  PROVE  Tidy
<1>1. \A s \in Screens : ~Busy(s)
  BY DEF Init, Idle, Busy
<1>2. secret = "none" /\ "master" \in Screens /\ "quick" \in Screens
  BY DEF Init, Screens
<1> QED BY <1>1, <1>2 DEF Tidy, Orderly, Apart

LEMMA NextTidy ==
  ASSUME OnPlans, PhoneWaits, Unharmed, Tidy, [Next]_vars
  PROVE  Tidy'
<1>1. CASE Launch
  <2>1. Clean' => Clean
    BY <1>1 DEF Launch, Clean, counts, history
  <2> QED BY <1>1, <2>1, LaunchOrderly DEF Tidy
<1>2. CASE BootScreen \/ MasterSection \/ QuickSection
  <2>1. Clean' => Clean
    BY <1>2, CommandBegins DEF Quiet, Clean, counts, history
  <2> QED BY <1>2, <2>1, CommandOrderly DEF Tidy
<1>3. ASSUME NEW s \in Screens, Step(s) PROVE Tidy'
  <2> SUFFICES ASSUME Clean' PROVE Orderly'
    BY DEF Tidy
  <2>1. Clean /\ ~FileError(s)
    BY <1>3, StepClean
  <2>2. Orderly /\ Whole
    BY <2>1 DEF Tidy, Clean, Unharmed
  <2> QED BY <1>3, <2>1, <2>2, StepOrderly
<1>4. CASE Lock \/ SaveData \/ RingChanges \/ Quit \/ Crash \/ UNCHANGED vars
  BY <1>4, OthersTidy
<1> QED BY <1>1, <1>2, <1>3, <1>4 DEF Next

\* A launch that opens by itself does so with a key that asks for nothing.
LEMMA LaunchAsks ==
  ASSUME OnPlans, PhoneWaits, Safe, Tidy, Clean, [Next]_vars, phase = "off", phase' = "boot"
  PROVE  ~Loaded.ask
<1>1. Launch
  <2>1. ~\E s \in Screens : Step(s)
    BY StepMoves
  <2>2. ~(BootScreen \/ MasterSection \/ QuickSection)
    BY CommandBegins DEF Quiet
  <2> QED BY <2>1, <2>2 DEF Next, Lock, SaveData, RingChanges, Quit, Crash, vars
<1>2. AllIdle /\ (RingOpens \/ FileOpens)
  BY <1>1, OffMeansIdle DEF Launch
<1>3. Readable /\ Sound(Loaded)
  BY <1>2, InHeld DEF RingOpens, FileOpens, Safe
<1>4. Apart(Loaded)
  BY <1>2, <1>3, InHeld DEF Tidy, Orderly, Midway, AllIdle
<1> QED BY <1>2, <1>3, <1>4 DEF RingOpens, FileOpens, Sound, Apart

\* keystore.rs, set_passphrase, set_always_ask and clear_passphrase: with
\* always_ask no launch opens by itself, however whole commands, locks and the
\* keyring's answers mix: .secret is gone before the passphrase counts, and
\* back only while a command is dropping it.
THEOREM NoSilentLaunch ==
  ASSUME PhoneWaits
  PROVE  Spec => AskIsAsked
<1>1. Init => OnPlans /\ Safe /\ Unharmed /\ Tidy
  BY InitOnPlans, InitSafe, InitUnharmed, InitTidy
<1>2. OnPlans /\ Safe /\ Unharmed /\ Tidy /\ [Next]_vars
        => (OnPlans /\ Safe /\ Unharmed /\ Tidy)'
  BY NextOnPlans, NextSafe, LaunchUnharmed, CommandUnharmed, OthersUnharmed, StepUnharmed,
     NextTidy DEF Next
<1>3. OnPlans /\ Safe /\ Unharmed /\ Tidy /\ [Next]_vars
        => [phase = "off" /\ phase' = "boot" /\ ~midway /\ errors = 0 /\ crashes = 0
              => ~Loaded.ask]_vars
  BY LaunchAsks DEF Clean
<1> QED BY <1>1, <1>2, <1>3, PTL DEF Spec, AskIsAsked

----------------------------------------------------------------------------
(* Every wrong PIN is on the disk *)

\* The store has counted the guesses, and n more.
Counted(c, n) == c.pin # None => guesses + n <= c.pin

\* What a command's copy has counted: one more than the guesses while a PIN
\* is being tried. set_pin alone starts over, with the wrapper it writes.
TallyOf(op, hh, rr, c) ==
    /\ hh \in SaveSteps /\ ~(op = "setpin" /\ InSave(hh, rr, E)) => Counted(c, 0)
    /\ op = "pin" /\ InSave(hh, rr, P) => Counted(c, 1)
    /\ op = "pin" /\ hh = "pin_check" => Counted(c, 1) /\ (Readable => Loaded.pin = c.pin)
Tally(s) == TallyOf(job[s].op, h(s), r(s), job[s].copy)

AllCounted == /\ Readable => Counted(Loaded, 0)
              /\ \A s \in Screens : Tally(s)

LEMMA IdleTally == \A hh, rr, c : hh \notin SaveSteps => TallyOf("none", hh, rr, c)
BY DEF TallyOf

\* A PIN is tried on a phone, and there nothing else is running.
LEMMA PinAlone ==
  ASSUME OnPlans, Safe, NEW s \in Screens, job[s].op = "pin", h(s) = "pin_check"
  PROVE  /\ Busy(s) /\ \A t \in Screens \ {s} : ~Busy(t)
         /\ job[s].copy.pin \in Nat
<1>1. Busy(s)
  BY NotBusyIdle
<1>2. job[s].copy.pin \in Nat /\ Sound(job[s].copy)
  BY DEF Safe, Facts, FactsOf
<1>3. Phone
  BY <1>2, NonesApart DEF Sound
<1> QED BY <1>1, <1>2, <1>3 DEF OnPlans, Phases

LEMMA MoveCounted ==
  ASSUME OnPlans, Safe, AllCounted, NEW s \in Screens, Busy(s), NEW op, op = job[s].op,
         NEW c, NEW rest, Moves(s, c, rest), guesses' = guesses,
         \/ ks' = ks
         \/ ks' = Torn
         \/ ks' = job[s].copy /\ Saving(s) /\ Counted(job[s].copy, 0),
         rest # E => TallyOf(op, Head(rest), Tail(rest), c)'
  PROVE  AllCounted'
<1>1. Readable' => Counted(Loaded, 0)'
  <2>1. CASE ks' = ks
    BY <2>1 DEF AllCounted, Readable, Loaded, Counted
  <2>2. CASE ks' = Torn
    BY <2>2 DEF Readable
  <2>3. CASE ks' = job[s].copy /\ Counted(job[s].copy, 0)
    <3>1. job[s].copy # Absent
      BY BusyFits, NonesApart
    <3> QED BY <2>3, <3>1 DEF Loaded, Counted
  <2> QED BY <2>1, <2>2, <2>3
<1>2. ASSUME NEW t \in Screens PROVE Tally(t)'
  <2>1. CASE t = s /\ rest = E
    <3>1. ~Busy(s)' /\ job'[s].op = "none"
      BY <2>1, MovedTo
    <3>2. job'[s] = Idle
      BY <2>1, MovedFits
    <3>3. PICK x, y, e : x = h(s)' /\ y = r(s)' /\ e = job'[s].copy
      OBVIOUS
    <3>4. Counted(e, 0)'
      BY <3>2, <3>3 DEF Idle, Blank, Counted
    <3>5. TallyOf("none", x, y, e)'
      BY <3>4 DEF TallyOf
    <3> QED BY <2>1, <3>1, <3>3, <3>5 DEF Tally
  <2>2. CASE t = s /\ rest # E
    <3>1. job'[s].op = op /\ h(s)' = Head(rest) /\ r(s)' = Tail(rest) /\ job'[s].copy = c
      BY <2>2, MovedTo
    <3> QED BY <2>2, <3>1 DEF Tally
  <2>3. CASE t # s
    <3>1. job'[t] = job[t] /\ h(t)' = h(t) /\ r(t)' = r(t) /\ Tally(t)
      BY <2>3, MovedTo DEF AllCounted
    <3>2. PICK o, x, y, e : o = job[t].op /\ x = h(t) /\ y = r(t) /\ e = job[t].copy
      OBVIOUS
    <3>3. ~(o = "pin" /\ x = "pin_check")
      BY <2>3, <3>2, PinAlone
    <3>4. TallyOf(o, x, y, e)
      BY <3>1, <3>2 DEF Tally
    <3>5. TallyOf(o, x, y, e)'
      BY <3>3, <3>4 DEF TallyOf, Counted
    <3> QED BY <3>1, <3>2, <3>5 DEF Tally
  <2> QED BY <2>1, <2>2, <2>3
<1> QED BY <1>1, <1>2 DEF AllCounted

\* What comes next is not a save and not a PIN's check.
LEMMA OnwardCounted ==
  ASSUME OnPlans, Safe, AllCounted, NEW s \in Screens, Busy(s), NEW c, NEW rest,
         Moves(s, c, rest), guesses' = guesses, ks' = ks,
         rest # E => Head(rest) \notin SaveSteps /\ Head(rest) # "pin_check"
  PROVE  AllCounted'
<1>1. PICK op : op = job[s].op
  OBVIOUS
<1>2. rest # E => TallyOf(op, Head(rest), Tail(rest), c)'
  BY DEF TallyOf, InSave, SaveSteps
<1> QED BY <1>1, <1>2, MoveCounted

\* What comes next is the save of a copy that has counted.
LEMMA SavedCounted ==
  ASSUME OnPlans, Safe, AllCounted, NEW s \in Screens, Busy(s), job[s].op # "pin",
         NEW c, NEW rest,
         Moves(s, c, rest), guesses' = guesses, ks' = ks, Counted(c, 0),
         Head(rest) \in SaveSteps
  PROVE  AllCounted'
<1>1. PICK op : op = job[s].op
  OBVIOUS
<1>2. TallyOf(op, Head(rest), Tail(rest), c)'
  <2>1. Counted(c, 0)' /\ op # "pin"
    BY <1>1 DEF Counted
  <2> QED BY <2>1 DEF TallyOf
<1> QED BY <1>1, <1>2, MoveCounted

LEMMA TruncateCounted ==
  ASSUME OnPlans, Safe, AllCounted, NEW s \in Screens, Truncate(s)
  PROVE  AllCounted'
<1>1. /\ Busy(s) /\ Moves(s, job[s].copy, r(s)) /\ h(s) \in {"trunc", "try_trunc"}
      /\ ks' = Torn /\ guesses' = guesses
  BY TruncateMoves DEF Truncate, history
<1>2. PICK op, hh, rr, c : op = job[s].op /\ hh = h(s) /\ rr = r(s) /\ c = job[s].copy
  OBVIOUS
<1>3. PlanAt(op, hh, rr) /\ TallyOf(op, hh, rr, c) /\ Moves(s, c, rr)
  BY <1>1, <1>2, BusyFits DEF AllCounted, Tally
<1>4. PICK rest \in Seq(Steps) :
         /\ rr = Cons(IF hh = "trunc" THEN "write" ELSE "try_write", rest) /\ rr # E
         /\ Head(rr) = (IF hh = "trunc" THEN "write" ELSE "try_write")
         /\ Tail(rr) = rest
  BY <1>1, <1>2, <1>3, TruncateNext
<1>5. TallyOf(op, Head(rr), Tail(rr), c)
  <2>1. ASSUME NEW t \in Seq(Steps) PROVE InSave(Head(rr), Tail(rr), t) => InSave(hh, rr, t)
    BY <1>1, <1>2, <1>4 DEF InSave
  <2>2. ASSUME NEW t \in Seq(Steps) PROVE InSave(hh, rr, t) => InSave(Head(rr), Tail(rr), t)
    BY <1>1, <1>2, <1>4, InnerApart DEF InSave
  <2>3. hh \in SaveSteps /\ Head(rr) # "pin_check" /\ E \in Seq(Steps) /\ P \in Seq(Steps)
    BY <1>1, <1>2, <1>4, PlacesAreSeqs DEF SaveSteps
  <2> QED BY <1>3, <2>1, <2>2, <2>3 DEF TallyOf
<1>6. TallyOf(op, Head(rr), Tail(rr), c)'
  <2>1. Head(rr) # "pin_check"
    BY <1>4
  <2> QED BY <1>1, <1>5, <2>1 DEF TallyOf, Counted
<1> QED BY <1>1, <1>2, <1>3, <1>6, MoveCounted

\* What follows a write, as far as a PIN is concerned.
LEMMA WriteTally ==
  ASSUME NEW op, NEW hh \in {"write", "try_write"}, NEW rr, PlanAt(op, hh, rr), rr # E
  PROVE  /\ Head(rr) \notin SaveSteps
         /\ op = "pin" /\ Head(rr) = "pin_check" => InSave(hh, rr, P)
<1>1. Head(rr) \notin SaveSteps
  <2>1. CASE hh = "write"
    <3>1. rr \in {FileTrunc, CV, P, O, RD, Drop, R}
      BY <2>1, WriteNext
    <3> QED BY <3>1, StepsLeft DEF SaveSteps
  <2>2. CASE rr \in {O, V, CK, QK, BK, Drop}
    BY <2>2, StepsLeft DEF SaveSteps
  <2>3. CASE \E rest \in {O, V, CK, QK, BK} : rr = Cons("repair", rest)
    <3>1. PICK rest \in {O, V, CK, QK, BK} : rr = Cons("repair", rest)
      BY <2>3
    <3>2. Head(rr) = "repair"
      <4>1. rest \in Seq(Steps) /\ "repair" \in Steps
        BY <3>1, PlacesAreSeqs, StepsAre
      <4> QED BY <3>1, <4>1, ConsIs
    <3> QED BY <3>2 DEF SaveSteps
  <2> QED BY <2>1, <2>2, <2>3, WriteNext
<1>2. ASSUME op = "pin", Head(rr) = "pin_check" PROVE InSave(hh, rr, P)
  <2>1. hh = "write" /\ rr \in {P, O, E}
    BY <1>2 DEF PlanAt, InSave
  <2> QED BY <1>2, <2>1, StepsLeft DEF InSave
<1> QED BY <1>1, <1>2

LEMMA WriteCounted ==
  ASSUME OnPlans, Safe, AllCounted, NEW s \in Screens, Write(s)
  PROVE  AllCounted'
<1>1. /\ Busy(s) /\ Moves(s, job[s].copy, r(s)) /\ h(s) \in {"write", "try_write"}
      /\ ks' = job[s].copy /\ Saving(s) /\ job[s].copy \in Stores
      /\ guesses' = IF h(s) = "write" /\ job[s].op = "setpin" THEN 0 ELSE guesses
  <2>1. Busy(s) /\ Moves(s, job[s].copy, r(s)) /\ h(s) \in {"write", "try_write"}
        /\ job[s].copy \in Stores
    BY WriteMoves, BusyFits
  <2>2. /\ ks' = job[s].copy
        /\ guesses' = IF h(s) = "write" /\ job[s].op = "setpin" THEN 0 ELSE guesses
    BY <2>1 DEF Write, At, h
  <2> QED BY <2>1, <2>2 DEF Saving, SaveSteps
<1>2. PICK op, hh, rr, c : op = job[s].op /\ hh = h(s) /\ rr = r(s) /\ c = job[s].copy
  OBVIOUS
<1>3. /\ PlanAt(op, hh, rr) /\ TallyOf(op, hh, rr, c) /\ Moves(s, c, rr)
      /\ hh \in {"write", "try_write"}
  BY <1>1, <1>2, BusyFits DEF AllCounted, Tally
<1>4. rr # E => /\ Head(rr) \notin SaveSteps
                /\ op = "pin" /\ Head(rr) = "pin_check" => InSave(hh, rr, P)
  BY <1>3, WriteTally
<1>5. Loaded' = c /\ c \in Stores
  BY <1>1, <1>2, NonesApart DEF Loaded
<1>6. CASE op = "setpin" /\ hh = "write"
  <2>1. guesses' = 0
    BY <1>1, <1>2, <1>6
  <2>2. rr = E /\ \A t \in Screens \ {s} : ~Busy(t)
    <3>1. rr = E
      BY <1>3, <1>6 DEF PlanAt, InCheck, InRing, InTry, InEdit, InSave
    <3>2. s = "quick"
      <4>1. job[s].op \in OpsOf(s)
        BY <1>1, BusyFits
      <4>2. job[s].op = "setpin"
        BY <1>2, <1>6
      <4> QED BY <4>1, <4>2 DEF OpsOf, Screens
    <3> QED BY <1>1, <3>1, <3>2 DEF OnPlans, Phases
  <2>3. Readable' => Counted(Loaded, 0)'
    BY <1>5, <2>1, NonesApart DEF Counted, Stores
  <2>4. \A t \in Screens : job'[t] = Idle
    <3>1. job'[s] = Idle
      BY <1>1, <1>3, <2>2, MovedFits
    <3>2. \A t \in Screens \ {s} : job'[t] = job[t]
      BY <1>1, <1>3, MovedFits
    <3> QED BY <2>2, <3>1, <3>2, NotBusyIdle
  <2>5. ASSUME NEW t \in Screens PROVE Tally(t)'
    BY <2>4 DEF Tally, TallyOf, Idle, Blank, Counted
  <2> QED BY <2>3, <2>5 DEF AllCounted
<1>7. CASE ~(op = "setpin" /\ hh = "write")
  <2>1. guesses' = guesses
    BY <1>1, <1>2, <1>7
  <2>2. Counted(c, 0)
    <3>1. ~(op = "setpin" /\ InSave(hh, rr, E))
      BY <1>3, <1>7 DEF InSave
    <3>2. hh \in SaveSteps
      BY <1>3 DEF SaveSteps
    <3> QED BY <1>3, <3>1, <3>2 DEF TallyOf
  <2>3. ASSUME rr # E PROVE TallyOf(op, Head(rr), Tail(rr), c)'
    <3>1. op = "pin" /\ Head(rr) = "pin_check" => Counted(c, 1)'
      BY <1>3, <1>4, <2>1, <2>3 DEF TallyOf, Counted
    <3>2. Head(rr) \notin SaveSteps
      BY <1>4, <2>3
    <3> QED BY <1>5, <3>1, <3>2 DEF TallyOf, InSave, SaveSteps
  <2>4. ks' = job[s].copy /\ Saving(s) /\ Counted(job[s].copy, 0)
    BY <1>1, <1>2, <2>2
  <2> QED BY <1>1, <1>2, <1>3, <2>1, <2>3, <2>4, MoveCounted
<1> QED BY <1>6, <1>7

LEMMA ErrorCounted ==
  ASSUME OnPlans, Safe, AllCounted, NEW s \in Screens, FileError(s)
  PROVE  AllCounted'
<1>1. Busy(s) /\ ks' = ks /\ guesses' = guesses
  BY ErrorMoves DEF FileError, files, history
<1>2. PICK op, hh, rr, c : op = job[s].op /\ hh = h(s) /\ rr = r(s) /\ c = job[s].copy
  OBVIOUS
<1>3. PlanAt(op, hh, rr)
  BY <1>1, <1>2, BusyFits
<1>4. CASE Moves(s, job[s].copy, E)
  BY <1>1, <1>4, OnwardCounted
<1>5. ASSUME NEW rest, PlanAt(op, "try_write", rest), Moves(s, c, rest)
      PROVE  AllCounted'
  <2>1. op # "pin"
    BY <1>5 DEF PlanAt, InSave
  <2>2. rest # E => Head(rest) \notin SaveSteps
    BY <1>5, WriteTally
  <2>3. rest # E => TallyOf(op, Head(rest), Tail(rest), c)'
    BY <2>1, <2>2 DEF TallyOf, InSave, SaveSteps
  <2> QED BY <1>1, <1>2, <1>5, <2>3, MoveCounted
<1>6. CASE h(s) = "try_trunc" /\ Moves(s, job[s].copy, Tail(r(s)))
  <2>1. PICK rest \in Seq(Steps) : rr # E /\ Head(rr) = "try_write" /\ Tail(rr) = rest
    BY <1>2, <1>3, <1>6, TruncateNext
  <2>2. PlanAt(op, "try_write", rest)
    BY <1>3, <2>1, TailOnPlan DEF OnPlan
  <2>3. Moves(s, c, rest)
    BY <1>2, <1>6, <2>1
  <2> QED BY <1>5, <2>2, <2>3
<1>7. CASE h(s) = "try_write" /\ Moves(s, job[s].copy, r(s))
  BY <1>2, <1>3, <1>5, <1>7
<1> QED BY <1>4, <1>6, <1>7, ErrorMoves

\* The steps that save what they read, with one field or another changed.
LEMMA SavesCounted ==
  ASSUME OnPlans, Safe, AllCounted, NEW s \in Screens,
         Edit(s) \/ RingWrap(s) \/ Check(s) \/ Upgrade(s) \/ Repair(s)
  PROVE  AllCounted'
<1>1. ks' = ks /\ guesses' = guesses
  BY DEF Edit, RingWrap, Check, Upgrade, Repair, Quiet, files, history
<1>2. Busy(s) /\ h(s) \in {"edit", "ring", "check", "upgrade", "repair"}
  BY EditMoves, RingMoves, CheckMoves, UpgradeMoves, RepairMoves
<1>3. job[s].op # "pin" /\ r(s) \in Seq(Steps)
  <2>1. PlanAt(job[s].op, h(s), r(s)) /\ r(s) \in Seq(Steps)
    BY <1>2, BusyFits
  <2> QED BY <1>2, <2>1 DEF PlanAt, InSave
<1>4. ASSUME Moves(s, job[s].copy, r(s)), h(s) \in {"ring", "upgrade", "repair"}
      PROVE  AllCounted'
  <2>1. PICK op, hh, rr : op = job[s].op /\ hh = h(s) /\ rr = r(s)
    OBVIOUS
  <2>2. PlanAt(op, hh, rr) /\ hh \in {"ring", "upgrade", "repair"}
    BY <1>2, <1>4, <2>1, BusyFits
  <2>3. \/ rr \in {O, V, CK, QK, BK, E, Drop}
        \/ \E rest \in {O, V, CK, QK, BK} : rr = Cons("repair", rest)
    BY <2>2 DEF PlanAt, InEdit, InSave, InRing, InTry, InCheck, ClearEarly, ClearLate
  <2>4. rr # E => Head(rr) \notin SaveSteps /\ Head(rr) # "pin_check"
    <3>1. CASE rr \in {O, V, CK, QK, BK, E, Drop}
      BY <3>1, StepsLeft DEF SaveSteps
    <3>2. CASE \E rest \in {O, V, CK, QK, BK} : rr = Cons("repair", rest)
      <4>1. PICK rest \in {O, V, CK, QK, BK} : rr = Cons("repair", rest)
        BY <3>2
      <4>2. rest \in Seq(Steps) /\ "repair" \in Steps
        BY <4>1, PlacesAreSeqs, StepsAre
      <4>3. Head(rr) = "repair"
        BY <4>1, <4>2, ConsIs
      <4> QED BY <4>3 DEF SaveSteps
    <3> QED BY <2>3, <3>1, <3>2
  <2>5. Moves(s, job[s].copy, rr)
    BY <1>4, <2>1
  <2> QED BY <1>1, <1>2, <2>4, <2>5, OnwardCounted
<1>5. ASSUME NEW c, NEW t, Moves(s, c, t), t \in {Save \o r(s), TrySave \o r(s)},
             Readable, Loaded \in Stores, c.pin = Loaded.pin
      PROVE  AllCounted'
  <2>1. Counted(c, 0)
    BY <1>5 DEF AllCounted, Counted
  <2>2. Head(t) \in SaveSteps
    <3>1. Head(Save \o r(s)) = "trunc" /\ Head(TrySave \o r(s)) = "try_trunc"
      BY <1>3, Prefixed
    <3>2. Head(t) \in {"trunc", "try_trunc"}
      BY <1>5, <3>1
    <3> QED BY <3>2 DEF SaveSteps
  <2> QED BY <1>1, <1>2, <1>3, <1>5, <2>1, <2>2, SavedCounted
<1>6. ASSUME NEW c, NEW t, Moves(s, c, t), t # E, Head(t) \in {"repair", "upgrade", "ring"}
      PROVE  AllCounted'
  <2>1. Head(t) \notin SaveSteps /\ Head(t) # "pin_check"
    BY <1>6 DEF SaveSteps
  <2> QED BY <1>1, <1>2, <1>6, <2>1, OnwardCounted
<1>7. ASSUME Moves(s, job[s].copy, E) PROVE AllCounted'
  BY <1>1, <1>2, <1>7, OnwardCounted
<1>8. CASE Edit(s)
  <2>1. CASE /\ Readable /\ Loaded \in Stores
             /\ Moves(s, Edited(job[s], Loaded), Save \o r(s))
    <3>1. PICK c, t : c = Edited(job[s], Loaded) /\ t = Save \o r(s)
      OBVIOUS
    <3>2. job[s].op = "setpin" \/ c.pin = Loaded.pin \/ c.pin = None
      BY <2>1, <3>1 DEF Edited, Stores
    <3>3. CASE job[s].op = "setpin"
      <4>1. h(s) = "edit" /\ r(s) = E
        <5>1. h(s) = "edit" /\ PlanAt("setpin", h(s), r(s))
          BY <1>2, <1>8, <3>3, EditMoves, BusyFits
        <5> QED BY <5>1 DEF PlanAt, InCheck, InRing, InTry, InEdit, InSave
      <4>2. t # E /\ Head(t) = "trunc" /\ Tail(t) = Cons("write", E)
        BY <3>1, <4>1, PlacesAreSeqs, Prefixed
      <4>3. TallyOf("setpin", Head(t), Tail(t), c)'
        BY <4>2 DEF TallyOf, InSave
      <4>4. Moves(s, c, t)
        BY <2>1, <3>1
      <4> QED BY <1>1, <1>2, <3>3, <4>3, <4>4, MoveCounted
    <3>4. CASE c.pin = Loaded.pin
      BY <1>5, <2>1, <3>1, <3>4
    <3>5. CASE c.pin = None
      <4>1. Counted(c, 0)
        BY <3>5 DEF Counted
      <4>2. Head(t) \in SaveSteps /\ Moves(s, c, t)
        BY <1>3, <2>1, <3>1, Prefixed DEF SaveSteps
      <4> QED BY <1>1, <1>2, <1>3, <4>1, <4>2, SavedCounted
    <3> QED BY <3>2, <3>3, <3>4, <3>5
  <2> QED BY <1>7, <1>8, <2>1, EditMoves
<1>9. CASE RingWrap(s)
  <2>1. CASE Readable /\ Loaded \in Stores
             /\ Moves(s, [Loaded EXCEPT !.keyring = ring], TrySave \o r(s))
    <3>1. [Loaded EXCEPT !.keyring = ring].pin = Loaded.pin
      BY <2>1 DEF Stores
    <3> QED BY <1>5, <2>1, <3>1
  <2> QED BY <1>4, <1>9, <2>1, RingMoves
<1>10. CASE Check(s)
  <2>1. CASE \/ Moves(s, Loaded, <<"repair">> \o r(s))
             \/ Moves(s, Loaded, <<"upgrade", "repair">> \o r(s))
    BY <1>3, <1>6, <2>1, Prefixed
  <2> QED BY <1>7, <1>10, <2>1, CheckMoves
<1>11. CASE Upgrade(s)
  <2>1. CASE Readable /\ Loaded \in Stores
             /\ Moves(s, [Loaded EXCEPT !.pass = job[s].phrase, !.dated = FALSE],
                      TrySave \o r(s))
    <3>1. [Loaded EXCEPT !.pass = job[s].phrase, !.dated = FALSE].pin = Loaded.pin
      BY <2>1 DEF Stores
    <3> QED BY <1>5, <2>1, <3>1
  <2> QED BY <1>4, <1>11, <2>1, UpgradeMoves
<1>12. CASE Repair(s)
  <2>1. CASE Moves(s, job[s].copy, <<"ring">> \o r(s))
    BY <1>3, <1>6, <2>1, Prefixed
  <2> QED BY <1>4, <1>12, <2>1, RepairMoves
<1> QED BY <1>8, <1>9, <1>10, <1>11, <1>12

LEMMA PinCountCounted ==
  ASSUME OnPlans, Safe, AllCounted, NEW s \in Screens, PinCount(s)
  PROVE  AllCounted'
<1>1. Busy(s) /\ ks' = ks /\ guesses' = guesses /\ job[s].op = "pin"
  BY PinCountMoves DEF PinCount, Quiet, files, history
<1>2. CASE Moves(s, job[s].copy, E)
  BY <1>1, <1>2, OnwardCounted
<1>3. CASE /\ Readable /\ Loaded \in Stores /\ Loaded.pin \in Nat
           /\ Moves(s, [Loaded EXCEPT !.pin = Loaded.pin + 1], Save \o P)
  <2>1. PICK c, t : c = [Loaded EXCEPT !.pin = Loaded.pin + 1] /\ t = Save \o P
    OBVIOUS
  <2>2. t # E /\ Head(t) = "trunc" /\ Tail(t) = Cons("write", P) /\ Moves(s, c, t)
    BY <1>3, <2>1, PlacesAreSeqs, Prefixed
  <2>3. c.pin = Loaded.pin + 1
    BY <1>3, <2>1 DEF Stores
  <2>4. guesses \in Nat /\ guesses <= Loaded.pin
    <3>1. guesses \in Nat
      BY KeystoreAssumption DEF OnPlans, TypeOK
    <3>2. guesses + 0 <= Loaded.pin
      BY <1>3, NonesApart DEF AllCounted, Counted
    <3> QED BY <1>3, <3>1, <3>2
  <2>5. guesses + 0 <= c.pin /\ guesses + 1 <= c.pin
    BY <1>3, <2>3, <2>4
  <2>6. TallyOf("pin", Head(t), Tail(t), c)'
    BY <1>1, <2>2, <2>5 DEF TallyOf, Counted
  <2> QED BY <1>1, <2>2, <2>6, MoveCounted
<1> QED BY <1>2, <1>3, PinCountMoves

\* The right PIN starts the count over; a wrong one had been counted.
LEMMA PinCheckCounted ==
  ASSUME OnPlans, Safe, AllCounted, NEW s \in Screens, PinCheck(s)
  PROVE  AllCounted'
<1>1. Busy(s) /\ ks' = ks /\ h(s) = "pin_check" /\ job[s].op = "pin" /\ r(s) = E
  BY PinCheckMoves DEF PinCheck, files
<1>2. /\ job[s].copy.pin \in Nat /\ job[s].copy \in Stores
      /\ \A t \in Screens \ {s} : ~Busy(t)
  BY <1>1, PinAlone, BusyFits
<1>3. guesses + 1 <= job[s].copy.pin /\ (Readable => Loaded.pin = job[s].copy.pin)
  BY <1>1, <1>2, NonesApart DEF AllCounted, Tally, TallyOf, Counted
<1>4. guesses \in Nat /\ PinTries \in Nat
  BY KeystoreAssumption DEF OnPlans, TypeOK
<1>5. Readable' = Readable /\ Loaded' = Loaded
  BY <1>1 DEF Readable, Loaded
<1>6. guesses' \in Nat /\ guesses' + 0 <= job[s].copy.pin
  <2>1. PICK g \in Nat : g = guesses
    BY <1>4
  <2>2. PICK n \in Nat : n = job[s].copy.pin
    BY <1>2
  <2>3. g + 1 <= n /\ (guesses' = 0 \/ guesses' = g \/ guesses' = g + 1)
    BY <1>3, <2>1, <2>2, PinCheckMoves
  <2>4. guesses' \in Nat /\ guesses' + 0 <= n
    BY <2>3
  <2> QED BY <2>2, <2>4
<1>7. Readable' => Counted(Loaded, 0)'
  BY <1>3, <1>5, <1>6 DEF Counted
<1>8. ASSUME NEW c, NEW t, Moves(s, c, t)
      PROVE  \A u \in Screens \ {s} : Tally(u)'
  <2> SUFFICES ASSUME NEW u \in Screens \ {s} PROVE Tally(u)'
    OBVIOUS
  <2>1. job'[u] = Idle
    BY <1>1, <1>2, <1>8, MovedFits, NotBusyIdle
  <2> QED BY <2>1 DEF Tally, TallyOf, Idle, Blank, Counted
<1>9. ASSUME NEW c, NEW t, Moves(s, c, Save \o t), t \in {O, E}, Counted(c, 0)'
      PROVE  AllCounted'
  <2>1. PICK u : u = Save \o t
    OBVIOUS
  <2>2. u # E /\ Head(u) = "trunc" /\ Tail(u) = Cons("write", t)
    <3>1. t \in Seq(Steps)
      BY <1>9, PlacesAreSeqs
    <3> QED BY <2>1, <3>1, Prefixed
  <2>3. Cons("write", t) # Cons("write", P)
    BY <1>9, PlacesAreSeqs, StepsLeft, InnerApart
  <2>4. TallyOf("pin", Head(u), Tail(u), c)'
    BY <1>9, <2>2, <2>3 DEF TallyOf, InSave
  <2>5. Tally(s)'
    <3>1. job'[s].op = "pin" /\ h(s)' = Head(u) /\ r(s)' = Tail(u) /\ job'[s].copy = c
      BY <1>1, <1>9, <2>1, <2>2, MovedTo
    <3> QED BY <2>4, <3>1 DEF Tally
  <2> QED BY <1>7, <1>8, <1>9, <2>5 DEF AllCounted
<1>10. CASE guesses' = 0 /\ Moves(s, [job[s].copy EXCEPT !.pin = 0], Save \o O)
  <2>1. PICK c : c = [job[s].copy EXCEPT !.pin = 0]
    OBVIOUS
  <2>2. c.pin = 0 /\ Moves(s, c, Save \o O)
    BY <1>2, <1>10, <2>1 DEF Stores
  <2>3. Counted(c, 0)'
    BY <1>10, <2>2 DEF Counted
  <2> QED BY <1>9, <2>2, <2>3
<1>11. CASE Moves(s, [job[s].copy EXCEPT !.pin = None], Save \o E)
  <2>1. PICK c : c = [job[s].copy EXCEPT !.pin = None]
    OBVIOUS
  <2>2. c.pin = None /\ Moves(s, c, Save \o E)
    BY <1>2, <1>11, <2>1 DEF Stores
  <2>3. Counted(c, 0)'
    BY <2>2 DEF Counted
  <2> QED BY <1>9, <2>2, <2>3
<1>12. CASE Moves(s, job[s].copy, E)
  <2>1. job'[s] = Idle
    BY <1>1, <1>12, MovedFits
  <2>2. Tally(s)'
    BY <2>1 DEF Tally, TallyOf, Idle, Blank, Counted
  <2> QED BY <1>7, <1>8, <1>12, <2>2 DEF AllCounted
<1> QED BY <1>10, <1>11, <1>12, PinCheckMoves

LEMMA StepCounted ==
  ASSUME OnPlans, Safe, AllCounted, NEW s \in Screens, Step(s)
  PROVE  AllCounted'
<1>1. CASE Truncate(s) \/ Write(s) \/ FileError(s)
  BY <1>1, TruncateCounted, WriteCounted, ErrorCounted
<1>2. CASE Edit(s) \/ RingWrap(s) \/ Check(s) \/ Upgrade(s) \/ Repair(s)
  BY <1>2, SavesCounted
<1>3. CASE PinCount(s) \/ PinCheck(s)
  BY <1>3, PinCountCounted, PinCheckCounted
<1>4. CASE TruncateSecret(s) \/ WriteSecret(s) \/ RemoveSecret(s)
  <2>1. /\ Busy(s) /\ Moves(s, job[s].copy, r(s)) /\ ks' = ks /\ guesses' = guesses
        /\ h(s) \in {"sec_trunc", "sec_write", "sec_remove"}
    <3>1. /\ ks' = ks /\ guesses' = guesses
          /\ h(s) \in {"sec_trunc", "sec_write", "sec_remove"}
      BY <1>4 DEF TruncateSecret, WriteSecret, RemoveSecret, At, h, history
    <3> QED BY <1>4, <3>1, SecretMoves
  <2>2. PICK op, rr : op = job[s].op /\ rr = r(s)
    OBVIOUS
  <2>3. rr \in {FileWrite, V, CW, ER, E}
    <3>1. PlanAt(op, h(s), rr)
      BY <2>1, <2>2, BusyFits
    <3> QED BY <2>1, <3>1
         DEF PlanAt, InEdit, InSave, InRing, InTry, InCheck, ClearEarly, ClearLate
  <2>4. rr # E => Head(rr) \notin SaveSteps /\ Head(rr) # "pin_check"
    BY <2>3, StepsLeft DEF SaveSteps
  <2>5. Moves(s, job[s].copy, rr)
    BY <2>1, <2>2
  <2> QED BY <2>1, <2>4, <2>5, OnwardCounted
<1>5. CASE SameKey(s) \/ BiometricAsk(s) \/ Verify(s) \/ Open(s)
  <2>1. ks' = ks /\ guesses' = guesses
    BY <1>5 DEF SameKey, BiometricAsk, Verify, Open, Quiet, files, history
  <2>2. Busy(s) /\ h(s) \in {"same_key", "bio_ask", "verify", "open"}
    BY <1>5, SameKeyMoves, BiometricMoves, VerifyMoves, OpenMoves
  <2>3. r(s) \in {CT, Q, B, O, E}
    <3>1. PICK op, hh, rr : op = job[s].op /\ hh = h(s) /\ rr = r(s)
      OBVIOUS
    <3>2. PlanAt(op, hh, rr) /\ hh \in {"same_key", "bio_ask", "verify", "open"}
      BY <2>2, <3>1, BusyFits
    <3>3. rr \in {CT, Q, B, O, E}
      BY <3>2 DEF PlanAt, InEdit, InSave, InRing, InTry, InCheck, ClearEarly, ClearLate
    <3> QED BY <3>1, <3>3
  <2>4. ASSUME NEW t \in {CT, Q, B, O, E}, Moves(s, job[s].copy, t)
        PROVE  AllCounted'
    <3>1. t # E => Head(t) \notin SaveSteps /\ Head(t) # "pin_check"
      BY <2>4, StepsLeft DEF SaveSteps
    <3> QED BY <2>1, <2>2, <2>4, <3>1, OnwardCounted
  <2> QED BY <1>5, <2>3, <2>4, SameKeyMoves, BiometricMoves, VerifyMoves, OpenMoves
<1> QED BY <1>1, <1>2, <1>3, <1>4, <1>5 DEF Step

LEMMA BegunCounted ==
  ASSUME OnPlans, AllCounted, NEW s \in Screens, NEW op, NEW phrase, NEW flag, NEW copy,
         NEW todo, Begins(s, op, phrase, flag, copy, todo), ks' = ks, guesses' = guesses,
         copy.pin = None, Head(todo) # "pin_check" \/ op # "pin"
  PROVE  AllCounted'
<1>1. Readable' => Counted(Loaded, 0)'
  BY DEF AllCounted, Readable, Loaded, Counted
<1>2. ASSUME NEW t \in Screens PROVE Tally(t)'
  <2>1. CASE t = s
    <3>1. job'[s].op = op /\ h(s)' = Head(todo) /\ r(s)' = Tail(todo) /\ job'[s].copy = copy
      BY BegunStands
    <3>2. TallyOf(op, Head(todo), Tail(todo), copy)'
      BY DEF TallyOf, Counted
    <3> QED BY <2>1, <3>1, <3>2 DEF Tally
  <2>2. CASE t # s
    <3>1. job'[t] = job[t] /\ h(t)' = h(t) /\ r(t)' = r(t) /\ Tally(t)
      BY <2>2, BegunStands DEF AllCounted
    <3>2. PICK o, x, y, e : o = job[t].op /\ x = h(t) /\ y = r(t) /\ e = job[t].copy
      OBVIOUS
    <3>3. TallyOf(o, x, y, e)
      BY <3>1, <3>2 DEF Tally
    <3>4. TallyOf(o, x, y, e)'
      BY <3>3 DEF TallyOf, Counted, Readable, Loaded
    <3> QED BY <3>1, <3>2, <3>4 DEF Tally
  <2> QED BY <2>1, <2>2
<1> QED BY <1>1, <1>2 DEF AllCounted

LEMMA CommandCounted ==
  ASSUME OnPlans, PhoneWaits, AllCounted, BootScreen \/ MasterSection \/ QuickSection
  PROVE  AllCounted'
<1>1. PICK s \in Screens : BeginsOn(s)
  BY CommandBegins
<1>2. PICK op, phrase, flag, copy, todo :
         /\ Begins(s, op, phrase, flag, copy, todo)
         /\ copy.pin = None /\ (op = "pin" => Head(todo) = "pin_count")
  BY <1>1 DEF BeginsOn
<1>3. ks' = ks /\ guesses' = guesses
  BY CommandBegins DEF Quiet, files, history
<1>4. Head(todo) # "pin_check" \/ op # "pin"
  BY <1>2
<1> QED BY <1>2, <1>3, <1>4, BegunCounted

\* No command moves, or none is left.
LEMMA StayCounted ==
  ASSUME AllCounted, ks' = ks, guesses' = guesses,
         job' = job \/ \A t \in Screens : job'[t] = Idle
  PROVE  AllCounted'
<1>1. Readable' => Counted(Loaded, 0)'
  BY DEF AllCounted, Readable, Loaded, Counted
<1>2. ASSUME NEW t \in Screens PROVE Tally(t)'
  <2>1. CASE job' = job
    <3>1. PICK o, x, y, e : o = job[t].op /\ x = h(t) /\ y = r(t) /\ e = job[t].copy
      OBVIOUS
    <3>2. TallyOf(o, x, y, e)
      BY <3>1 DEF AllCounted, Tally
    <3>3. TallyOf(o, x, y, e)'
      BY <3>2 DEF TallyOf, Counted, Readable, Loaded
    <3>4. job'[t].op = o /\ h(t)' = x /\ r(t)' = y /\ job'[t].copy = e
      BY <2>1, <3>1 DEF h, r
    <3> QED BY <3>3, <3>4 DEF Tally
  <2>2. CASE job'[t] = Idle
    BY <2>2 DEF Tally, TallyOf, Idle, Blank, Counted
  <2> QED BY <2>1, <2>2
<1> QED BY <1>1, <1>2 DEF AllCounted

LEMMA OthersCounted ==
  ASSUME OnPlans, PhoneWaits, AllCounted,
         Launch \/ Lock \/ SaveData \/ RingChanges \/ Quit \/ Crash \/ UNCHANGED vars
  PROVE  AllCounted'
<1>1. ks' = ks /\ guesses' = guesses
  BY DEF Launch, Lock, SaveData, RingChanges, Quit, Crash, vars, files, history
<1>2. CASE job' = job
  BY <1>1, <1>2, StayCounted
<1>3. CASE Crash
  BY <1>1, <1>3, StayCounted DEF Crash
<1>4. CASE Start("boot", "launch", None, FALSE, <<"ring", "open">>)
  <2>1. PICK t : t = Cons("ring", O)
    OBVIOUS
  <2>2. Begins("boot", "launch", None, FALSE, Blank, t)
    BY <1>4, <2>1, LaunchBegins
  <2>3. Blank.pin = None /\ "boot" \in Screens
    BY DEF Blank, Screens
  <2> QED BY <1>1, <2>2, <2>3, BegunCounted
<1> QED BY <1>2, <1>3, <1>4 DEF Launch, Lock, SaveData, RingChanges, Quit, vars

LEMMA InitCounted ==
  ASSUME Init
  PROVE  AllCounted
<1>1. \A t \in Screens : Tally(t)
  BY DEF Init, Tally, TallyOf, Idle, Blank, Counted
<1>2. Readable => Loaded.pin = None
  <2>1. CASE ks = Absent
    BY <2>1 DEF Loaded, Blank
  <2>2. CASE ks # Absent
    <3>1. PICK p \in Phrases : ks = [Blank EXCEPT !.pass = p, !.dated = TRUE]
      BY <2>2 DEF Init
    <3> QED BY <2>2, <3>1 DEF Loaded, Blank
  <2> QED BY <2>1, <2>2
<1> QED BY <1>1, <1>2 DEF AllCounted, Counted

\* keystore.rs, unlock_with_pin ("stopping the app partway gets no free
\* guess"): whatever is killed or fails, and whichever copy is saved last, the
\* count in keystore.json is never below the wrong PINs that were tried.
THEOREM NoFreeGuess ==
  ASSUME PhoneWaits
  PROVE  Spec => []GuessesCounted
<1>1. Init => OnPlans /\ Safe /\ AllCounted
  BY InitOnPlans, InitSafe, InitCounted
<1>2. OnPlans /\ Safe /\ AllCounted /\ [Next]_vars => (OnPlans /\ Safe /\ AllCounted)'
  BY NextOnPlans, NextSafe, CommandCounted, OthersCounted, StepCounted DEF Next
<1>3. OnPlans /\ AllCounted => GuessesCounted
  <2> SUFFICES ASSUME OnPlans, AllCounted, Readable, Loaded.pin # None
               PROVE  guesses <= Loaded.pin
    BY DEF GuessesCounted
  <2>1. guesses \in Nat /\ guesses + 0 <= Loaded.pin /\ Loaded.pin \in Nat
    <3>1. Loaded.pin \in Nat
      BY Readables DEF OnPlans, Stores
    <3> QED BY <3>1, KeystoreAssumption DEF OnPlans, TypeOK, AllCounted, Counted
  <2> QED BY <2>1
<1> QED BY <1>1, <1>2, <1>3, PTL DEF Spec
=============================================================================
