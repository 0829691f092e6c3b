---------------------------- MODULE DocRegister ----------------------------
(***************************************************************************)
(* What the data file promises, with no files in it: one document register *)
(* whose value changes in a single step.                                   *)
(*                                                                         *)
(*   cur   what opening the vault reads now                                *)
(*   may   what opening it could read after the power goes                 *)
(*   busy  a save is running; held is the document it is saving            *)
(*   harmed  something outside the app has damaged what is stored, which   *)
(*         ends the promise                                                *)
(*                                                                         *)
(* DataFile implements this with four files and a save of seven steps.     *)
(***************************************************************************)
CONSTANTS Docs, None

VARIABLES cur, may, held, busy, harmed

rvars == <<cur, may, held, busy, harmed>>

RInit == cur = None /\ may = {None} /\ held = None /\ ~busy /\ ~harmed

\* Opening the vault gives a caller the stored document, or a fresh one when
\* nothing was ever stored.
ROpen(fresh) == /\ held = None
                /\ held' = IF cur = None THEN fresh ELSE cur
                /\ UNCHANGED <<cur, may, busy>>

RBegin == /\ ~busy /\ held # None
          /\ held' \in Docs /\ busy' = TRUE
          /\ UNCHANGED <<cur, may>>

\* The one step that changes the document: from here a restart finds the new
\* one, and until it is settled a power cut may still find an older one.
RCommit == /\ busy
           /\ cur' = held /\ may' = may \cup {held}
           /\ UNCHANGED <<held, busy>>

\* A save that says it worked was committed. It is settled as well unless the
\* file system refused the flush.
RSucceed == /\ busy /\ cur = held
            /\ may' \in {may, {held}} /\ busy' = FALSE
            /\ UNCHANGED <<cur, held>>

\* A save that fails has changed nothing.
RFail == /\ busy /\ busy' = FALSE /\ UNCHANGED <<cur, may, held>>

RStop == /\ held # None
         /\ held' = None /\ busy' = FALSE
         /\ UNCHANGED <<cur, may>>

RPowerCut == /\ cur' \in may /\ may' = {cur'}
             /\ held' = None /\ busy' = FALSE

RWhole == /\ ~harmed'
          /\ \/ (\E fresh \in Docs : ROpen(fresh)) \/ RBegin \/ RCommit
             \/ RSucceed \/ RFail \/ RStop \/ RPowerCut
RHarm == harmed'

RNext == RWhole \/ RHarm

RSpec == RInit /\ [][RNext]_rvars
============================================================================
