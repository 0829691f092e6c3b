--------------------------- MODULE DataFile_proofs ---------------------------
(***************************************************************************)
(* Proofs about DataFile, for any set of documents and any bounds.         *)
(***************************************************************************)
EXTENDS DataFile, TLAPS

\* The steps of a save that come after the new file was flushed.
Staged == {"backup", "copying", "rename"}

USE DEF Files, Content, PC, Loading, Saving, disk, history, Quiet, Goto

----------------------------------------------------------------------------
\* Every variable keeps its type, whatever fails and wherever the process dies.
THEOREM TypeCorrect == Spec => []TypeOK
<1>1. Init => TypeOK
  BY DocsAssumption, BoundsAssumption DEF Init, TypeOK
<1>2. TypeOK /\ [Next]_vars => TypeOK'
  <2> SUFFICES ASSUME TypeOK, [Next]_vars PROVE TypeOK'
    OBVIOUS
  <2> USE DocsAssumption, BoundsAssumption DEF TypeOK
  <2>1. CASE Load
    BY <2>1 DEF Load, LoadFirstRun, LoadWhole, LoadRefused, LoadRecover, SetAside,
                RestoreOpen, RestoreWrite, Put, Move, Fails
  <2>2. ASSUME NEW d \in Docs, SaveBegin(d) PROVE TypeOK'
    BY <2>2 DEF SaveBegin
  <2>3. CASE CreateTemp \/ WriteTemp \/ SyncTemp
    BY <2>3 DEF CreateTemp, WriteTemp, SyncTemp, Put, Fails
  <2>4. CASE BackupOpen \/ BackupWrite
    BY <2>4 DEF BackupOpen, BackupWrite, Put, Fails
  <2>5. CASE Rename
    BY <2>5 DEF Rename, Move, Fails
  <2>6. CASE FlushDir
    <3>1. /\ file' = file /\ pc' = "idle" /\ mem' = mem /\ damages' = damages /\ cuts' = cuts
          /\ acked' = mem /\ cut' = {}
      BY <2>6 DEF FlushDir
    <3>2. /\ after' \in [Files -> SUBSET Content]
          /\ errors' \in 0..MaxErrors /\ flushed' \in BOOLEAN
      <4>1. CASE after' = after /\ errors < MaxErrors /\ errors' = errors + 1
                 /\ flushed' = FALSE
        <5>1. errors' \in 0..MaxErrors
          BY <4>1
        <5> QED BY <4>1, <5>1
      <4>2. CASE /\ after' = [after EXCEPT !["data"] = after["tmp"] \ {Absent},
                                          !["tmp"] = {Absent}]
                 /\ UNCHANGED <<errors, flushed>>
        <5> DEFINE kept == after["tmp"] \ {Absent}
        <5>1. kept \in SUBSET Content /\ {Absent} \in SUBSET Content
          OBVIOUS
        <5>2. after' = [after EXCEPT !["data"] = kept, !["tmp"] = {Absent}]
          BY <4>2
        <5> HIDE DEF kept
        <5> QED BY <4>2, <5>1, <5>2
      <4> QED BY <2>6, <4>1, <4>2 DEF FlushDir
    <3> QED BY <3>1, <3>2
  <2>7. CASE Stop
    BY <2>7 DEF Stop
  <2>8. CASE PowerCut
    <3>1. file' \in [Files -> Content] /\ \A f \in Files : file'[f] \in Content
      BY <2>8 DEF PowerCut
    <3>2. after' \in [Files -> SUBSET Content]
      BY <2>8, <3>1 DEF PowerCut
    <3> QED BY <2>8, <3>1, <3>2 DEF PowerCut
  <2>9. CASE Damage
    BY <2>9 DEF Damage
  <2>10. CASE UNCHANGED vars
    BY <2>10 DEF vars
  <2> QED BY <2>1, <2>2, <2>3, <2>4, <2>5, <2>6, <2>7, <2>8, <2>9, <2>10 DEF Next, Save
<1> QED BY <1>1, <1>2, PTL DEF Spec

----------------------------------------------------------------------------
(* Where a save is, what it left on the disk and what is in memory.        *)

\* What a process reads is one of the contents a power cut can leave.
ReadIsPossible == \A f \in Files : file[f] \in after[f]

\* A document is in memory exactly while the vault is open.
MemoryOpen == IF pc \in {"down", "refused"} THEN mem = Absent ELSE mem \in Docs

\* From the flush of the new file to its rename nothing else can be in it; when
\* it has been renamed, it is data.json.
TempIsStaged == /\ pc = "sync" => file["tmp"] = mem
                /\ pc \in Staged => file["tmp"] = mem /\ after["tmp"] = {mem}
                /\ pc = "flush" => /\ file["data"] = mem /\ file["tmp"] = Absent
                                   /\ after["tmp"] \ {Absent} = {mem}

SaveIsCut == pc \in Saving => mem \in cut

StepInv == TypeOK /\ ReadIsPossible /\ MemoryOpen /\ TempIsStaged /\ SaveIsCut

LEMMA StepInvariant == Spec => []StepInv
<1>1. Init => StepInv
  BY DocsAssumption, BoundsAssumption
     DEF Init, StepInv, TypeOK, ReadIsPossible, MemoryOpen, TempIsStaged, SaveIsCut, Staged
<1>2. TypeOK /\ TypeOK' /\ StepInv /\ [Next]_vars => StepInv'
  <2> SUFFICES ASSUME TypeOK, TypeOK', StepInv, [Next]_vars
               PROVE  ReadIsPossible' /\ MemoryOpen' /\ TempIsStaged' /\ SaveIsCut'
    BY DEF StepInv
  <2> USE DocsAssumption DEF StepInv, TypeOK, ReadIsPossible, MemoryOpen, TempIsStaged,
                             SaveIsCut, Staged
  <2>1. CASE LoadFirstRun \/ LoadWhole \/ LoadRefused \/ LoadRecover
    BY <2>1 DEF LoadFirstRun, LoadWhole, LoadRefused, LoadRecover
  <2>2. CASE SetAside
    <3>1. CASE Fails("rec_copy")
      BY <2>2, <3>1 DEF SetAside, Fails
    <3>2. CASE Move("data", "corrupt") /\ Goto("rec_copy") /\ Quiet
      BY <2>2, <3>2 DEF SetAside, Move
    <3> QED BY <2>2, <3>1, <3>2 DEF SetAside
  <2>3. CASE RestoreOpen \/ RestoreWrite
    BY <2>3 DEF RestoreOpen, RestoreWrite, Put, Fails
  <2>4. ASSUME NEW d \in Docs, SaveBegin(d)
        PROVE  ReadIsPossible' /\ MemoryOpen' /\ TempIsStaged' /\ SaveIsCut'
    BY <2>4 DEF SaveBegin
  <2>5. CASE CreateTemp \/ WriteTemp
    BY <2>5 DEF CreateTemp, WriteTemp, Put, Fails
  <2>6. CASE SyncTemp
    BY <2>6 DEF SyncTemp, Fails
  <2>7. CASE BackupOpen \/ BackupWrite
    BY <2>7 DEF BackupOpen, BackupWrite, Put, Fails
  <2>8. CASE Rename
    BY <2>8 DEF Rename, Move, Fails
  <2>9. CASE FlushDir
    <3>1. /\ file' = file /\ pc = "flush" /\ pc' = "idle" /\ mem' = mem
          /\ after["tmp"] \ {Absent} = {mem} /\ file["data"] = mem /\ mem \in Docs
      BY <2>9 DEF FlushDir
    <3>2. \/ after' = after
          \/ after' = [after EXCEPT !["data"] = {mem}, !["tmp"] = {Absent}]
      BY <2>9, <3>1 DEF FlushDir
    <3>3. ReadIsPossible'
      BY <2>9, <3>1, <3>2 DEF FlushDir
    <3> QED BY <3>1, <3>3
  <2>10. CASE Stop
    BY <2>10 DEF Stop
  <2>11. CASE PowerCut
    <3>1. ReadIsPossible'
      BY <2>11 DEF PowerCut
    <3> QED BY <2>11, <3>1 DEF PowerCut
  <2>12. CASE Damage
    BY <2>12 DEF Damage
  <2>13. CASE UNCHANGED vars
    BY <2>13 DEF vars
  <2> QED BY <2>1, <2>2, <2>3, <2>4, <2>5, <2>6, <2>7, <2>8, <2>9, <2>10, <2>11,
             <2>12, <2>13 DEF Next, Load, Save
<1> QED BY <1>1, <1>2, TypeCorrect, PTL DEF Spec

----------------------------------------------------------------------------
(* No damage from outside.                                                 *)

\* AckedSurvives and DataIsWhole hold together with the fact they need: the
\* vault is never refused and nothing is ever recovered.
UndamagedInv == /\ damages = 0 => /\ pc \notin Loading \cup {"refused"}
                                  /\ after["data"] \subseteq Docs \cup {Absent}
                /\ AckedSurvives

LEMMA UndamagedStep == StepInv /\ UndamagedInv /\ [Next]_vars => UndamagedInv'
<1> SUFFICES ASSUME StepInv, UndamagedInv, [Next]_vars PROVE UndamagedInv'
  OBVIOUS
<1> USE DocsAssumption DEF StepInv, TypeOK, UndamagedInv, AckedSurvives, ReadIsPossible,
                           MemoryOpen, TempIsStaged, SaveIsCut, Staged
<1>1. CASE Load
  BY <1>1 DEF Load, LoadFirstRun, LoadWhole, LoadRefused, LoadRecover, SetAside,
              RestoreOpen, RestoreWrite, Put, Move, Fails
<1>2. ASSUME NEW d \in Docs, SaveBegin(d) PROVE UndamagedInv'
  BY <1>2 DEF SaveBegin
<1>3. CASE CreateTemp \/ WriteTemp \/ SyncTemp
  BY <1>3 DEF CreateTemp, WriteTemp, SyncTemp, Put, Fails
<1>4. CASE BackupOpen \/ BackupWrite
  BY <1>4 DEF BackupOpen, BackupWrite, Put, Fails
<1>5. CASE Rename
  BY <1>5 DEF Rename, Move, Fails
<1>6. CASE FlushDir
  BY <1>6 DEF FlushDir
<1>7. CASE Stop
  BY <1>7 DEF Stop
<1>8. CASE PowerCut
  <2>1. after'["data"] \subseteq after["data"]
    BY <1>8 DEF PowerCut
  <2> QED BY <1>8, <2>1 DEF PowerCut
<1>9. CASE Damage
  BY <1>9, BoundsAssumption DEF Damage
<1>10. CASE UNCHANGED vars
  BY <1>10 DEF vars
<1> QED BY <1>1, <1>2, <1>3, <1>4, <1>5, <1>6, <1>7, <1>8, <1>9, <1>10 DEF Next, Save

LEMMA UndamagedInvariant == Spec => []UndamagedInv
<1>1. Init => UndamagedInv
  BY DocsAssumption DEF Init, UndamagedInv, AckedSurvives
<1> QED BY <1>1, StepInvariant, UndamagedStep, PTL DEF Spec

\* What a save reported as done survives any later failure, crash or power cut,
\* or is replaced by a save begun after it.
THEOREM AckedIsSafe == Spec => []AckedSurvives
<1>1. UndamagedInv => AckedSurvives
  BY DEF UndamagedInv
<1> QED BY <1>1, UndamagedInvariant, PTL

\* data.json is at every moment, and after every power cut, one whole version.
THEOREM DataStaysWhole == Spec => []DataIsWhole
<1>1. StepInv /\ UndamagedInv => DataIsWhole
  BY DocsAssumption DEF StepInv, TypeOK, UndamagedInv, AckedSurvives, DataIsWhole
<1> QED BY <1>1, StepInvariant, UndamagedInvariant, PTL

----------------------------------------------------------------------------
(* The refinement.                                                         *)

\* What is damaged stays counted.
LEMMA DamageStays == TypeOK /\ [Next]_vars /\ damages' = 0 => damages = 0
  BY BoundsAssumption
     DEF TypeOK, Next, Load, Save, LoadFirstRun, LoadWhole, LoadRefused, LoadRecover, SetAside,
         RestoreOpen, RestoreWrite, SaveBegin, CreateTemp, WriteTemp, SyncTemp, BackupOpen,
         BackupWrite, Rename, FlushDir, Stop, PowerCut, Damage, Fails, Quiet, vars

LEMMA RegisterStep ==
  StepInv /\ UndamagedInv /\ damages = 0 /\ damages' = 0 /\ [Next]_vars
    => [Register!RWhole]_(Register!rvars)
<1> SUFFICES ASSUME StepInv, UndamagedInv, damages = 0, damages' = 0, [Next]_vars
             PROVE  [Register!RWhole]_(Register!rvars)
  OBVIOUS
<1>0. /\ pc \notin Loading \cup {"refused"} /\ file["data"] # Garbage
      /\ file["data"] \in Docs \cup {Absent}
  BY DocsAssumption DEF StepInv, TypeOK, ReadIsPossible, UndamagedInv
<1> USE DocsAssumption DEF StepInv, TypeOK, MemoryOpen, TempIsStaged, Staged, Register!rvars
<1>1. CASE Load
  <2>1. CASE LoadFirstRun
    BY <2>1 DEF LoadFirstRun, Register!RWhole, Register!ROpen
  <2>2. CASE LoadWhole
    BY <2>2 DEF LoadWhole, Register!RWhole, Register!ROpen
  <2> QED BY <1>0, <1>1, <2>1, <2>2 DEF Load, LoadRefused, LoadRecover, SetAside,
             RestoreOpen, RestoreWrite
<1>2. ASSUME NEW d \in Docs, SaveBegin(d) PROVE Register!RBegin
  BY <1>2 DEF SaveBegin, Register!RBegin
<1>3. CASE CreateTemp \/ WriteTemp \/ SyncTemp
  <2>1. UNCHANGED <<file["data"], after["data"], mem>> /\ pc \in Saving
    BY <1>3 DEF CreateTemp, WriteTemp, SyncTemp, Put, Fails
  <2>2. CASE pc' \in Saving
    BY <2>1, <2>2
  <2>3. CASE pc' \notin Saving
    BY <2>1, <2>3 DEF Register!RWhole, Register!RFail
  <2> QED BY <2>2, <2>3
<1>4. CASE BackupOpen \/ BackupWrite
  <2>1. UNCHANGED <<file["data"], after["data"], mem>>
    BY <1>4 DEF BackupOpen, BackupWrite, Put, Fails
  <2>2. pc \in Saving /\ pc' \in Saving
    BY <1>4 DEF BackupOpen, BackupWrite, Fails
  <2> QED BY <2>1, <2>2
<1>5. CASE Rename
  <2>1. CASE Move("tmp", "data") /\ Goto("flush") /\ Quiet
    <3>1. file'["data"] = mem /\ after'["data"] = after["data"] \cup {mem} /\ mem' = mem
      BY <1>5, <2>1 DEF Rename, Move
    <3>2. pc \in Saving /\ pc' \in Saving
      BY <1>5, <2>1 DEF Rename
    <3> QED BY <3>1, <3>2 DEF Register!RWhole, Register!RCommit
  <2>2. CASE Fails("idle")
    BY <1>5, <2>2 DEF Rename, Fails, Register!RWhole, Register!RFail
  <2> QED BY <1>5, <2>1, <2>2 DEF Rename
<1>6. CASE FlushDir
  <2>1. /\ file["data"] = mem /\ UNCHANGED <<file, mem>>
        /\ after'["data"] = after["data"] \/ after'["data"] = {mem}
    BY <1>6 DEF FlushDir
  <2>2. pc \in Saving /\ pc' \notin Saving
    BY <1>6 DEF FlushDir
  <2> QED BY <2>1, <2>2 DEF Register!RWhole, Register!RSucceed
<1>7. CASE Stop
  BY <1>0, <1>7 DEF Stop, Register!RWhole, Register!RStop
<1>8. CASE PowerCut
  BY <1>8 DEF PowerCut, Register!RWhole, Register!RPowerCut
<1>9. CASE Damage
  BY <1>9 DEF Damage
<1>10. CASE UNCHANGED vars
  BY <1>10 DEF vars
<1> QED BY <1>1, <1>2, <1>3, <1>4, <1>5, <1>6, <1>7, <1>8, <1>9, <1>10
        DEF Next, Save, Register!RWhole

\* Until something outside the app damages the file, the four files and the
\* seven steps of a save are one register with an atomic write.
THEOREM DataFileImplementsRegister == Spec => ImplementsRegister
<1>1. Init => Register!RInit
  BY DocsAssumption DEF Init, Register!RInit
<1>2. TypeOK /\ TypeOK' /\ StepInv /\ UndamagedInv /\ [Next]_vars
        => [Register!RNext]_(Register!rvars)
  <2> SUFFICES ASSUME TypeOK, TypeOK', StepInv, UndamagedInv, [Next]_vars
               PROVE  [Register!RNext]_(Register!rvars)
    OBVIOUS
  <2>1. CASE damages' > 0
    BY <2>1 DEF Register!RNext, Register!RHarm
  <2>2. CASE ~(damages' > 0)
    <3>1. damages' = 0
      BY <2>2 DEF TypeOK
    <3>2. damages = 0
      BY <3>1, DamageStays
    <3> QED BY <3>1, <3>2, RegisterStep DEF Register!RNext
  <2> QED BY <2>1, <2>2
<1> QED BY <1>1, <1>2, TypeCorrect, StepInvariant, UndamagedInvariant, PTL
        DEF Spec, ImplementsRegister, Register!RSpec

----------------------------------------------------------------------------
(* Damage from outside, no call that fails and no power cut: the backup is *)
(* readable for as long as it is the only copy.                            *)

CopyInv ==
  errors = 0 /\ cuts = 0 =>
    /\ pc \in Saving \cup {"idle"} => file["data"] # Garbage
    /\ pc \in Loading \/ file["data"] = Garbage => file["bak"] \in Docs
    /\ pc = "copying" => file["data"] \in Docs
    /\ acked # Absent /\ file["data"] = Absent => file["bak"] \in Docs

LEMMA CopyStep == StepInv /\ CopyInv /\ [Next]_vars => CopyInv'
<1> SUFFICES ASSUME StepInv, CopyInv, [Next]_vars PROVE CopyInv'
  OBVIOUS
<1> USE DocsAssumption DEF StepInv, TypeOK, MemoryOpen, TempIsStaged, Staged, CopyInv
<1>1. CASE LoadFirstRun \/ LoadWhole \/ LoadRefused \/ LoadRecover
  BY <1>1 DEF LoadFirstRun, LoadWhole, LoadRefused, LoadRecover
<1>2. CASE SetAside \/ RestoreOpen \/ RestoreWrite
  <2>1. CASE SetAside
    BY <1>2, <2>1 DEF SetAside, Move, Fails
  <2>2. CASE RestoreOpen
    BY <1>2, <2>2 DEF RestoreOpen, Put, Fails
  <2>3. CASE RestoreWrite
    BY <1>2, <2>3 DEF RestoreWrite, Put, Fails
  <2> QED BY <1>2, <2>1, <2>2, <2>3
<1>3. ASSUME NEW d \in Docs, SaveBegin(d) PROVE CopyInv'
  BY <1>3 DEF SaveBegin
<1>4. CASE CreateTemp \/ WriteTemp \/ SyncTemp
  BY <1>4 DEF CreateTemp, WriteTemp, SyncTemp, Put, Fails
<1>5. CASE BackupOpen \/ BackupWrite
  BY <1>5 DEF BackupOpen, BackupWrite, Put, Fails
<1>6. CASE Rename
  BY <1>6 DEF Rename, Move, Fails
<1>7. CASE FlushDir
  BY <1>7 DEF FlushDir
<1>8. CASE Stop
  BY <1>8 DEF Stop
<1>9. CASE PowerCut
  BY <1>9, BoundsAssumption DEF PowerCut
<1>10. CASE Damage
  BY <1>10 DEF Damage
<1>11. CASE UNCHANGED vars
  BY <1>11 DEF vars
<1> QED BY <1>1, <1>2, <1>3, <1>4, <1>5, <1>6, <1>7, <1>8, <1>9, <1>10, <1>11
        DEF Next, Load, Save

\* However often data.json is damaged while the app is not using it, and
\* wherever in the recovery or a later save the process dies, one readable copy
\* of the data is left.
THEOREM OneCopyIsLeft == Spec => []OneCopyWhole
<1>1. Init => CopyInv
  BY DocsAssumption DEF Init, CopyInv
<1>2. StepInv /\ CopyInv => OneCopyWhole
  BY DocsAssumption DEF StepInv, TypeOK, CopyInv, OneCopyWhole
<1> QED BY <1>1, <1>2, StepInvariant, CopyStep, PTL DEF Spec
============================================================================
