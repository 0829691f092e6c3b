--------------------------- MODULE Transfer_proofs ---------------------------
(***************************************************************************)
(* Proofs about Transfer, for a tree of any size and any contents, any     *)
(* number of attempts and of rewritings. The first two invariants say      *)
(* where in an attempt the two histories can be trusted. The third, IInv,  *)
(* says what the name a file lands under is worth: it exists, also where   *)
(* Keep both has to find a free one (RoomLeft), a part that changed is     *)
(* offered or could not be helped (Offers), and what was there is never    *)
(* the file that is written (Apart).                                       *)
(*                                                                         *)
(* And proofs about Files, one invariant for each thing it plays: a copy   *)
(* that is edited (EditInv), a stream of tar (StreamInv), two trees that   *)
(* are compared (CompareInv) and a directory that is deleted (DeleteInv).  *)
(***************************************************************************)
EXTENDS Transfer, Files, FiniteSetTheorems, SequenceTheorems, WellFoundedInduction, TLAPS

Copying == {"copy", "close", "stopping", "failing"}
Before == {"next", "open", "compare", "create"}

----------------------------------------------------------------------------
(* Half files *)

\* While a file is copied it is the only one begun under a real name, and not
\* if it is continued under its part's; before it none is; and after the batch
\* only one that could be neither finished nor moved aside.
OneTorn ==
    /\ pc \in Copying => torn \subseteq (IF offset > 0 THEN {} ELSE {<<Head1, dest>>})
    /\ pc \in Before => torn = {}
    /\ pc \notin Copying \cup Before => torn = {} \/ ~Obliging

\* What ends a batch keeps OneTorn if it leaves nothing, or for want of help.
LEMMA EndKeeps ==
  ASSUME NEW how, EndWith(how), torn' = {} \/ ~Obliging'
  PROVE  OneTorn'
BY DEF EndWith, OneTorn, Copying, Before

\* A stopped file is moved aside, taken away, or could not be.
LEMMA SetAsideTorn == OneTorn /\ SetAside => OneTorn'
<1> SUFFICES ASSUME OneTorn, SetAside PROVE OneTorn'
  OBVIOUS
<1>1. PICK how : EndWith(how)
  BY DEF SetAside
<1>2. torn \subseteq (IF offset > 0 THEN {} ELSE {<<Head1, dest>>})
  BY DEF OneTorn, SetAside, Copying
<1>3. CASE offset > 0 /\ UNCHANGED <<place, torn, refused>>
  BY <1>1, <1>2, <1>3, EndKeeps
<1>4. CASE MovedAside \/ Removed
  <2>1. torn' = torn \ {<<Head1, dest>>}
    BY <1>4 DEF MovedAside, Removed
  <2>2. torn' = {}
    BY <1>2, <2>1
  <2> QED BY <1>1, <2>2, EndKeeps
<1>5. CASE LeftAsItIs
  <2>1. ~Obliging'
    BY <1>5 DEF LeftAsItIs, SetAside, Obliging
  <2> QED BY <1>1, <2>1, EndKeeps
<1> QED BY <1>3, <1>4, <1>5 DEF SetAside

LEMMA StepTorn == OneTorn /\ Step => OneTorn'
<1> SUFFICES ASSUME OneTorn, Step PROVE OneTorn'
  OBVIOUS
<1> USE DEF OneTorn, Copying, Before, history, copy
<1>1. CASE Resolve
  BY <1>1 DEF Resolve
<1>2. CASE AllDone
  BY <1>2, EndKeeps DEF AllDone
<1>3. CASE OpenRead
  BY <1>3 DEF OpenRead
<1>4. CASE Compare
  BY <1>4 DEF Compare
<1>5. CASE SourceRefused
  BY <1>5, EndKeeps DEF SourceRefused, Failed
<1>6. CASE Create
  BY <1>6 DEF Create, Head1
<1>7. CASE CreateRefused
  BY <1>7, EndKeeps DEF CreateRefused, Failed
<1>8. CASE Chunk \/ Eof
  BY <1>8 DEF Chunk, Eof, Head1
<1>9. CASE Cancelled \/ Stalled
  BY <1>9 DEF Cancelled, Stalled, Head1
<1>10. CASE SetAside
  BY <1>10, SetAsideTorn
<1>11. CASE Finish
  <2>1. torn' = {}
    BY <1>11 DEF Finish
  <2> QED BY <1>11, <2>1 DEF Finish
<1>12. CASE FinishRefused
  <2>1. ~Obliging'
    BY <1>12 DEF FinishRefused, Failed, Obliging
  <2> QED BY <1>12, <2>1, EndKeeps DEF FinishRefused, Failed
<1>13. CASE CheckResumed \/ Return
  BY <1>13 DEF CheckResumed, Return, Obliging
<1> QED BY <1>1, <1>2, <1>3, <1>4, <1>5, <1>6, <1>7, <1>8, <1>9, <1>10, <1>11, <1>12, <1>13
        DEF Step

LEMMA TornInvariant == Spec => []OneTorn
<1>1. Init => OneTorn
  BY DEF Init, OneTorn, Copying, Before
<1>2. OneTorn /\ [Next]_vars => OneTorn'
  <2> SUFFICES ASSUME OneTorn, [Next]_vars PROVE OneTorn'
    OBVIOUS
  <2> USE DEF OneTorn, Copying, Before, Obliging, Head1, copy, history
  <2>1. CASE Start
    BY <2>1 DEF Start, Begin
  <2>2. CASE CopyAgain
    BY <2>2 DEF CopyAgain, Begin
  <2>3. CASE Refused
    BY <2>3 DEF Refused
  <2>4. CASE Step
    BY <2>4, StepTorn
  <2>5. CASE RequestCancel \/ Rewrite
    BY <2>5 DEF RequestCancel, Rewrite
  <2>6. CASE Vanish
    BY <2>6 DEF Vanish
  <2>7. CASE UNCHANGED vars
    BY <2>7 DEF vars
  <2> QED BY <2>1, <2>2, <2>3, <2>4, <2>5, <2>6, <2>7 DEF Next
<1> QED BY <1>1, <1>2, PTL DEF Spec

\* No attempt leaves a half file under its real name at a destination that
\* does what it is asked (transfer_one).
THEOREM NoHalfFileIsNamed == Spec => []HalfIsSetAside
<1>1. OneTorn => HalfIsSetAside
  BY DEF OneTorn, Copying, Before, HalfIsSetAside, Over
<1> QED BY <1>1, TornInvariant, PTL

----------------------------------------------------------------------------
(* Joined files *)

\* Nothing counts as different or as verified before it was read back, and
\* after that nothing of the destination changes until the next attempt.
ReadBack ==
    /\ pc # "idle" => ~verified
    /\ pc \in {"verify", "idle"} =>
          \A f \in IF verified THEN Files ELSE joined \ wrong : real[f][Wanted] = sent[f]

LEMMA EndReads ==
  ASSUME ReadBack, pc # "idle", NEW how, EndWith(how), UNCHANGED <<joined, verified>>
  PROVE  ReadBack'
BY DEF EndWith, ReadBack

LEMMA StepReads == ReadBack /\ Step => ReadBack'
<1> SUFFICES ASSUME ReadBack, Step PROVE ReadBack'
  OBVIOUS
<1> USE DEF ReadBack, summary
<1>1. CASE AllDone
  BY <1>1, EndReads DEF AllDone
<1>2. CASE SourceRefused \/ CreateRefused \/ FinishRefused
  BY <1>2, EndReads DEF SourceRefused, CreateRefused, FinishRefused, Failed
<1>3. CASE SetAside
  BY <1>3, EndReads DEF SetAside
<1>4. CASE Resolve \/ OpenRead \/ Compare \/ Create
  BY <1>4 DEF Resolve, OpenRead, Compare, Create
<1>5. CASE Chunk \/ Eof \/ Cancelled \/ Stalled \/ Finish
  BY <1>5 DEF Chunk, Eof, Cancelled, Stalled, Finish
<1>6. CASE CheckResumed
  BY <1>6 DEF CheckResumed, place
<1>7. CASE Return
  BY <1>7 DEF Return, place
<1> QED BY <1>1, <1>2, <1>3, <1>4, <1>5, <1>6, <1>7 DEF Step

LEMMA ReadInvariant == Spec => []ReadBack
<1>1. Init => ReadBack
  BY DEF Init, ReadBack
<1>2. ReadBack /\ [Next]_vars => ReadBack'
  <2> SUFFICES ASSUME ReadBack, [Next]_vars PROVE ReadBack'
    OBVIOUS
  <2> USE DEF ReadBack, place, summary, history
  <2>1. CASE Start
    BY <2>1 DEF Start, Begin
  <2>2. CASE CopyAgain
    BY <2>2 DEF CopyAgain, Begin
  <2>3. CASE Refused
    BY <2>3 DEF Refused
  <2>4. CASE Step
    BY <2>4, StepReads
  <2>5. CASE RequestCancel \/ Rewrite \/ Vanish
    BY <2>5 DEF RequestCancel, Rewrite, Vanish
  <2>6. CASE UNCHANGED vars
    BY <2>6 DEF vars
  <2> QED BY <2>1, <2>2, <2>3, <2>4, <2>5, <2>6 DEF Next
<1> QED BY <1>1, <1>2, PTL DEF Spec

\* A joined file that is not reported as different, and every file of a tree
\* that was verified, is the source that was read back (check_resumed).
THEOREM DoneIsTheSource == Spec => []DoneIsWhole
<1>1. ReadBack => DoneIsWhole
  BY DEF ReadBack, DoneIsWhole, Over
<1> QED BY <1>1, ReadInvariant, PTL

----------------------------------------------------------------------------
(* Types *)

LEMMA LeastOf ==
  ASSUME NEW T \in SUBSET Nat, T # {}
  PROVE  \E x \in T : \A y \in T : x <= y
<1>1. PICK x \in T : \A y \in T : ~(<<y, x>> \in OpToRel(<, Nat))
  BY NatLessThanWellFounded, WFMin
<1>2. \A y \in T : ~(y < x)
  BY <1>1 DEF OpToRel
<1> QED BY <1>2

\* A function whose value at n comes from the one at n - 1 exists.
Iterates(f, N, S, b, G) ==
    f \in [0 .. N -> S] /\ f[0] = b /\ \A n \in 1 .. N : f[n] = G[n][f[n - 1]]

LEMMA Iterated ==
  ASSUME NEW N, NEW S, NEW b, NEW G, N \in Nat, b \in S, G \in [1 .. N -> [S -> S]]
  PROVE  \E f : Iterates(f, N, S, b, G)
<1> DEFINE Good(m) == \E f \in [0 .. m -> S] :
                         f[0] = b /\ \A n \in 1 .. m : f[n] = G[n][f[n - 1]]
           T == {m \in 0 .. N : ~Good(m)}
<1>1. N \in 0 .. N /\ T \in SUBSET Nat /\ (T = {} => Good(N))
  <2> HIDE DEF Good
  <2> QED OBVIOUS
<1>2. SUFFICES ASSUME T # {} PROVE FALSE
  BY <1>1 DEF Iterates
<1>3. PICK m \in T : \A y \in T : m <= y
  <2> HIDE DEF T
  <2> QED BY <1>1, <1>2, LeastOf
<1>4. m \in 0 .. N /\ ~Good(m)
  OBVIOUS
<1>5. CASE m = 0
  <2> DEFINE f == [n \in 0 .. 0 |-> b]
  <2>1. f \in [0 .. 0 -> S] /\ f[0] = b /\ \A n \in 1 .. 0 : f[n] = G[n][f[n - 1]]
    OBVIOUS
  <2>2. Good(0)
    BY <2>1
  <2> QED BY <1>4, <1>5, <2>2
<1>6. CASE m # 0
  <2>1. m - 1 \in 0 .. N /\ Good(m - 1)
    <3> HIDE DEF Good
    <3> QED BY <1>3, <1>4, <1>6
  <2>2. PICK f \in [0 .. m - 1 -> S] : f[0] = b /\ \A n \in 1 .. m - 1 : f[n] = G[n][f[n - 1]]
    BY <2>1
  <2> DEFINE g == [n \in 0 .. m |-> IF n = m THEN G[m][f[m - 1]] ELSE f[n]]
  <2>3. G[m][f[m - 1]] \in S
    BY <1>4, <1>6
  <2>4. g \in [0 .. m -> S]
    BY <1>4, <2>3
  <2>5. g[0] = b
    BY <1>4, <1>6, <2>2
  <2>6. ASSUME NEW n \in 1 .. m PROVE g[n] = G[n][g[n - 1]]
    <3>1. n \in 0 .. m /\ n - 1 \in 0 .. m /\ n - 1 # m
      BY <1>4
    <3>2. g[n - 1] = f[n - 1]
      BY <3>1
    <3>3. CASE n = m
      BY <3>1, <3>2, <3>3
    <3>4. CASE n # m
      BY <1>4, <2>2, <3>1, <3>2, <3>4
    <3> QED BY <3>3, <3>4
  <2>7. Good(m)
    BY <2>4, <2>5, <2>6
  <2> QED BY <1>4, <2>7
<1> QED BY <1>5, <1>6

\* The files of a set are files, in whatever order.
LEMMA OnlyTyped ==
  ASSUME NEW wanted
  PROVE  Only(wanted) \in Seq(Files)
<1> DEFINE S == Seq(Files)
           step(n, before) == IF n \in wanted THEN Append(before, n) ELSE before
           first[n \in 0 .. NumFiles] ==
             IF n = 0 THEN <<>>
             ELSE IF n \in wanted THEN Append(first[n - 1], n) ELSE first[n - 1]
           G == [n \in 1 .. NumFiles |-> [s \in S |-> step(n, s)]]
<1>1. NumFiles \in Nat /\ <<>> \in S
  BY ConstantsAssumption DEF ConstantsAssumption
<1>2. ASSUME NEW n \in 1 .. NumFiles, NEW s \in S PROVE step(n, s) \in S
  <2>1. n \in Files
    BY DEF Files
  <2> QED BY <2>1, AppendProperties
<1>3. G \in [1 .. NumFiles -> [S -> S]]
  BY <1>2
<1>4. PICK f \in [0 .. NumFiles -> S] :
         f[0] = <<>> /\ \A n \in 1 .. NumFiles : f[n] = G[n][f[n - 1]]
  <2>1. PICK H, M, b, Q : H = G /\ M = NumFiles /\ b = <<>> /\ Q = S
    OBVIOUS
  <2>2. M \in Nat
    BY <1>1, <2>1
  <2>3. b \in Q
    BY <1>1, <2>1
  <2>4. H \in [1 .. M -> [Q -> Q]]
    BY <1>3, <2>1
  <2>5. \E f : Iterates(f, M, Q, b, H)
    BY <2>2, <2>3, <2>4, Iterated, Zenon
  <2> QED BY <2>1, <2>5 DEF Iterates
<1>5. f = [n \in 0 .. NumFiles |-> IF n = 0 THEN <<>>
                                   ELSE IF n \in wanted THEN Append(f[n - 1], n) ELSE f[n - 1]]
  <2>1. ASSUME NEW n \in 0 .. NumFiles, n # 0 PROVE f[n] = step(n, f[n - 1])
    <3>1. n \in 1 .. NumFiles /\ f[n - 1] \in S
      BY <1>1, <2>1
    <3> QED BY <1>4, <3>1
  <2> QED BY <1>4, <2>1
<1>6. first = [n \in 0 .. NumFiles |->
                 IF n = 0 THEN <<>>
                 ELSE IF n \in wanted THEN Append(first[n - 1], n) ELSE first[n - 1]]
  <2> DEFINE Is(g) == g = [n \in 0 .. NumFiles |->
                             IF n = 0 THEN <<>>
                             ELSE IF n \in wanted THEN Append(g[n - 1], n) ELSE g[n - 1]]
  <2>1. Is(f)
    BY <1>5
  <2>2. first = CHOOSE g : Is(g)
    OBVIOUS
  <2> HIDE DEF Is, first
  <2>3. Is(first)
    BY <2>1, <2>2
  <2> QED BY <2>3 DEF Is
<1>7. Only(wanted) = first[NumFiles]
  BY DEF Only
<1> DEFINE T == {n \in 0 .. NumFiles : first[n] \notin S}
<1> HIDE DEF first, S
<1>8. T = {}
  <2> SUFFICES ASSUME T # {} PROVE FALSE
    OBVIOUS
  <2>1. PICK n \in T : \A y \in T : n <= y
    <3>1. T \in SUBSET Nat
      BY <1>1
    <3> QED BY <3>1, LeastOf
  <2>2. CASE n = 0
    BY <1>1, <1>6, <2>2
  <2>3. CASE n # 0
    <3>1. n - 1 \in 0 .. NumFiles /\ n \in 1 .. NumFiles /\ n - 1 \notin T
      BY <1>1, <2>1, <2>3
    <3>2. PICK s \in S : s = first[n - 1]
      BY <3>1
    <3>3. first[n] = step(n, s)
      BY <1>6, <2>3, <3>2
    <3> QED BY <1>2, <3>1, <3>2, <3>3
  <2> QED BY <2>2, <2>3
<1> QED BY <1>1, <1>7, <1>8 DEF S

InFile == {"open", "compare", "create"} \cup Copying

Table == [Files -> [Names -> File]]
Rows == Seq(Nat) \ {<<>>}

\* Where in the copy of a file something of it is there.
Placed ==
    /\ pc \in InFile => todo # <<>>
    /\ pc \in Copying \cup {"create"} =>
          (offset > 0 => policy = "resume" /\ part[Head1][dest] \in Rows)
    /\ pc = "create" => got = offset
    /\ pc \in Copying /\ offset = 0 =>
          real[Head1][dest] \in Seq(Nat) /\ (got > 0 => real[Head1][dest] \in Rows)

Shaped == TypeOK /\ Placed

Put(t, f, n, x) == [t EXCEPT ![f][n] = x]

LEMMA PutIs ==
  ASSUME NEW t \in Table, NEW f \in Files, NEW n \in Names, NEW x \in File
  PROVE  /\ Put(t, f, n, x) \in Table /\ Put(t, f, n, x)[f][n] = x
         /\ \A g \in Files, m \in Names : ~(g = f /\ m = n) => Put(t, f, n, x)[g][m] = t[g][m]
BY DEF Put, Table

LEMMA HeadIs ==
  ASSUME TypeOK, todo # <<>>
  PROVE  /\ Head1 \in Files /\ Tail(todo) \in Seq(Files) /\ dest \in Names
         /\ src[Head1] \in Seq(Nat) /\ real \in Table /\ part \in Table
         /\ real[Head1][dest] \in File /\ part[Head1][dest] \in File
<1>1. todo \in Seq(Files) /\ dest \in Names /\ real \in Table /\ part \in Table
      /\ src \in [Files -> Contents]
  BY DEF TypeOK, Table
<1>2. Head1 \in Files /\ Tail(todo) \in Seq(Files)
  BY <1>1, HeadTailProperties DEF Head1
<1>3. \A c \in Contents : c \in Seq(Nat)
  BY ConstantsAssumption DEF ConstantsAssumption
<1>4. src[Head1] \in Contents
  BY <1>1, <1>2
<1>5. real[Head1][dest] \in File /\ part[Head1][dest] \in File
  BY <1>1, <1>2 DEF Table
<1> QED BY <1>1, <1>2, <1>3, <1>4, <1>5

LEMMA FilesAre ==
  /\ Seq(Nat) \subseteq File /\ None \in File
  /\ None \notin Seq(Nat) /\ Rows \subseteq Seq(Nat)
BY ConstantsAssumption DEF ConstantsAssumption, File, Rows

\* A chunk more: of the part that is continued, or of the file itself.
LEMMA GrownIs ==
  ASSUME Shaped, pc = "copy", got < Len(src[Head1]), Grown
  PROVE  \/ /\ offset > 0 /\ real' = real
            /\ \E x \in Rows : part' = Put(part, Head1, dest, x)
         \/ /\ offset = 0 /\ part' = part
            /\ \E x \in Rows : real' = Put(real, Head1, dest, x)
<1>1. /\ TypeOK /\ todo # <<>> /\ offset \in Nat /\ got \in Nat
      /\ offset > 0 => part[Head1][dest] \in Seq(Nat)
      /\ offset = 0 => real[Head1][dest] \in Seq(Nat)
  BY DEF Shaped, Placed, InFile, Copying, TypeOK, Rows
<1>2. src[Head1] \in Seq(Nat)
  BY <1>1, HeadIs
<1>3. src[Head1][got + 1] \in Nat
  BY <1>1, <1>2
<1>4. ASSUME NEW s \in Seq(Nat) PROVE Append(s, src[Head1][got + 1]) \in Rows
  BY <1>3, AppendProperties DEF Rows
<1>5. CASE offset > 0
  <2>1. /\ real' = real
        /\ part' = Put(part, Head1, dest, Append(part[Head1][dest], src[Head1][got + 1]))
    BY <1>5 DEF Grown, Put
  <2> QED BY <1>1, <1>4, <1>5, <2>1
<1>6. CASE offset = 0
  <2>1. /\ part' = part
        /\ real' = Put(real, Head1, dest, Append(real[Head1][dest], src[Head1][got + 1]))
    BY <1>6 DEF Grown, Put
  <2> QED BY <1>1, <1>4, <1>6, <2>1
<1> QED BY <1>1, <1>5, <1>6

\* An attempt begins.
LEMMA BeginShaped ==
  ASSUME Shaped, NEW p \in Policies \cup Replacing, NEW files \in Seq(Files), Begin(p, files)
  PROVE  Shaped'
<1>1. TypeOK'
  <2>1. attempts' \in 0 .. MaxAttempts
    BY ConstantsAssumption DEF ConstantsAssumption, Shaped, TypeOK, Begin
  <2>2. seen' \in [real : [Files -> [Names -> File]], part : [Files -> [Names -> File]]]
    BY DEF Shaped, TypeOK, Begin
  <2>3. UNCHANGED <<src, place, edits, copy>> /\ pc' = "next" /\ policy' = p /\ todo' = files
        /\ flag' = FALSE /\ link' = "up" /\ left' = {} /\ kept' = {} /\ joined' = {} /\ wrong' = {}
        /\ end' = "none" /\ verified' = FALSE /\ sent' = <<>> /\ torn' = {} /\ refused' = FALSE
    BY DEF Begin
  <2> QED BY <2>1, <2>2, <2>3 DEF Shaped, TypeOK, place, copy
<1>2. pc' = "next"
  BY DEF Begin
<1> QED BY <1>1, <1>2 DEF Shaped, Placed, InFile, Copying

LEMMA AllFilesTyped == [i \in Files |-> i] \in Seq(Files)
<1>1. NumFiles \in Nat
  BY ConstantsAssumption DEF ConstantsAssumption
<1>2. [i \in Files |-> i] \in [1 .. NumFiles -> Files]
  BY DEF Files
<1> QED BY <1>1, <1>2, SeqDef

LEMMA StartShaped ==
  ASSUME Shaped, Start \/ CopyAgain
  PROVE  Shaped'
<1>1. CASE Start
  <2>1. PICK p \in Policies : Begin(p, [i \in Files |-> i])
    BY <1>1 DEF Start
  <2> QED BY <2>1, AllFilesTyped, BeginShaped
<1>2. CASE CopyAgain
  <2>1. Begin("again", Only(wrong)) /\ "again" \in Policies \cup Replacing
    BY <1>2 DEF CopyAgain, Replacing
  <2> QED BY <2>1, OnlyTyped, BeginShaped
<1> QED BY <1>1, <1>2

\* A batch ends.
LEMMA EndShaped ==
  ASSUME Shaped, NEW how \in {"done", "cancelled", "failed"}, EndWith(how),
         FileOver \/ UNCHANGED copy,
         real' \in Table, part' \in Table, torn' \subseteq torn, refused' \in BOOLEAN,
         kept' \subseteq Files, UNCHANGED <<left, joined, wrong, verified>>,
         UNCHANGED <<src, link, edits, attempts, policy, flag, seen, sent>>
  PROVE  Shaped'
<1>1. pc' \in {"verify", "check"} /\ todo' = <<>> /\ end' = how
  BY DEF EndWith
<1>2. dest' \in Names /\ offset' \in Nat /\ got' \in Nat /\ total' \in Nat
  <2>1. Wanted \in Names
    BY ConstantsAssumption DEF ConstantsAssumption, Wanted, Names
  <2> QED BY <2>1 DEF Shaped, TypeOK, FileOver, copy
<1>3. TypeOK'
  BY <1>1, <1>2 DEF Shaped, TypeOK, Table
<1>4. Placed'
  BY <1>1 DEF Placed, InFile, Copying
<1> QED BY <1>3, <1>4 DEF Shaped

\* A step that leaves the files and its place among them as they are.
LEMMA StillShaped ==
  ASSUME Shaped, UNCHANGED <<place, policy, dest, offset, got, todo, pc>>,
         src' \in [Files -> Contents], link' \in {"up", "src", "dst"}, edits' \in 0 .. MaxEdits,
         attempts' \in 0 .. MaxAttempts, flag' \in BOOLEAN,
         UNCHANGED <<total, summary, history>>
  PROVE  Shaped'
<1>1. TypeOK'
  BY DEF Shaped, TypeOK, place, summary, history
<1>2. Placed'
  BY DEF Shaped, Placed, place, Head1
<1> QED BY <1>1, <1>2 DEF Shaped

Batch == {"next"} \cup InFile

\* Under Keep both every file that is still to come has a name to land under.
RoomLeft ==
    pc \in Batch /\ policy = "keep_both" =>
        /\ \A i, j \in DOMAIN todo : i # j => todo[i] # todo[j]
        /\ \A i \in DOMAIN todo : i > 1 \/ pc = "next" => FreeNames(todo[i]) # {}

LEMMA LeastIs ==
  ASSUME NEW S \in SUBSET Names, S # {}
  PROVE  Least(S) \in S
<1>1. S \in SUBSET Nat
  BY DEF Names
<1>2. \E x \in S : \A y \in S : x <= y
  BY <1>1, LeastOf
<1> QED BY <1>2 DEF Least

LEMMA ResolveIs ==
  ASSUME Shaped, RoomLeft, Resolve
  PROVE  /\ pc = "next" /\ todo # <<>> /\ Head1 \in Files
         /\ UNCHANGED <<place, policy, seen, link, refused, torn, kept>>
         /\ \/ pc' = "next" /\ todo' = Tail(todo) /\ dest' = dest
            \/ /\ pc' = "open" /\ todo' = todo /\ dest' \in Names
               /\ policy = "skip" => ~Exists(Head1, Wanted) \/ link = "dst"
               /\ policy = "keep_both" =>
                     ~Exists(Head1, Wanted) \/ link = "dst" \/ dest' # Wanted
<1>1. pc = "next" /\ todo # <<>> /\ UNCHANGED <<place, policy, seen, link, refused, torn, kept>>
  BY DEF Resolve, history
<1>2. Head1 \in Files /\ Wanted \in Names
  BY <1>1, HeadIs, ConstantsAssumption DEF Shaped, ConstantsAssumption, Wanted, Names
<1>3. CASE policy = "skip" /\ Exists(Head1, Wanted) /\ link # "dst"
  BY <1>1, <1>2, <1>3 DEF Resolve
<1>4. CASE ~(policy = "skip" /\ Exists(Head1, Wanted) /\ link # "dst")
  <2>1. /\ pc' = "open" /\ todo' = todo
        /\ dest' = IF policy = "keep_both" /\ Exists(Head1, Wanted) /\ link # "dst"
                     THEN Least(FreeNames(Head1)) ELSE Wanted
    BY <1>4 DEF Resolve
  <2>2. policy = "keep_both" => Least(FreeNames(Head1)) \in Names \ {Wanted}
    <3>1. SUFFICES ASSUME policy = "keep_both" PROVE Least(FreeNames(Head1)) \in Names \ {Wanted}
      OBVIOUS
    <3>2. 1 \in DOMAIN todo /\ Head1 = todo[1]
      BY <1>1 DEF Shaped, TypeOK, Head1
    <3>3. FreeNames(Head1) # {}
      BY <1>1, <3>1, <3>2 DEF RoomLeft, Batch
    <3>4. FreeNames(Head1) \in SUBSET Names /\ FreeNames(Head1) \subseteq Names \ {Wanted}
      BY DEF FreeNames
    <3>5. Least(FreeNames(Head1)) \in FreeNames(Head1)
      BY <3>3, <3>4, LeastIs
    <3> QED BY <3>4, <3>5
  <2> QED BY <1>1, <1>2, <1>4, <2>1, <2>2
<1> QED BY <1>3, <1>4

LEMMA ResolveShaped ==
  ASSUME Shaped, RoomLeft, Resolve
  PROVE  Shaped'
<1>1. todo # <<>> /\ Head1 \in Files /\ todo' \in {todo, Tail(todo)} /\ dest' \in Names
      /\ pc' \in {"next", "open"} /\ pc = "next" /\ (pc' = "open" => todo' = todo)
  BY ResolveIs DEF Shaped, TypeOK
<1>2. Tail(todo) \in Seq(Files)
  BY <1>1, HeadIs DEF Shaped
<1>3. left' \subseteq Files
  BY <1>1 DEF Resolve, Shaped, TypeOK
<1>4. UNCHANGED <<src, place, link, edits, attempts, policy, offset, got, total, flag,
                   kept, joined, wrong, end, verified, history>>
  BY DEF Resolve
<1>5. TypeOK'
  BY <1>1, <1>2, <1>3, <1>4 DEF Shaped, TypeOK, place, history
<1>6. Placed'
  BY <1>1 DEF Placed, InFile, Copying
<1> QED BY <1>5, <1>6 DEF Shaped

\* What the steps on a file leave of the rest.
LEMMA InFileShaped ==
  ASSUME Shaped, pc \in InFile, pc' \in InFile,
         UNCHANGED <<src, link, edits, attempts, policy, todo, dest, flag, summary, refused, seen,
                     sent>>,
         real' \in Table, part' \in Table, offset' \in Nat, got' \in Nat, total' \in Nat,
         torn' \subseteq Files \X Names,
         pc' \in Copying \cup {"create"} =>
            (offset' > 0 => policy = "resume" /\ part'[Head1][dest] \in Rows),
         pc' = "create" => got' = offset',
         pc' \in Copying /\ offset' = 0 =>
            real'[Head1][dest] \in Seq(Nat) /\ (got' > 0 => real'[Head1][dest] \in Rows)
  PROVE  Shaped'
<1>1. TypeOK'
  BY DEF Shaped, TypeOK, summary, Table, InFile, Copying
<1>2. Placed'
  BY DEF Shaped, Placed, Head1
<1> QED BY <1>1, <1>2 DEF Shaped

LEMMA OpenShaped ==
  ASSUME Shaped, OpenRead \/ Compare \/ Create \/ Chunk \/ Eof \/ Cancelled \/ Stalled
  PROVE  Shaped'
<1>1. /\ TypeOK /\ real \in Table /\ part \in Table /\ offset \in Nat /\ got \in Nat
      /\ total \in Nat /\ torn \subseteq Files \X Names
  BY DEF Shaped, TypeOK, Table
<1>2. todo # <<>>
  BY DEF Shaped, Placed, OpenRead, Compare, Create, Chunk, Eof, Cancelled, Stalled, InFile, Copying
<1>3. /\ Head1 \in Files /\ dest \in Names /\ src[Head1] \in Seq(Nat)
      /\ real[Head1][dest] \in File /\ part[Head1][dest] \in File
  BY <1>1, <1>2, HeadIs
<1> USE DEF InFile, Copying
<1>4. CASE OpenRead
  <2>1. total' \in Nat
    BY <1>3, <1>4 DEF OpenRead
  <2> QED BY <1>1, <1>4, <2>1, InFileShaped DEF OpenRead, place, history
<1>5. CASE Compare
  <2>1. PICK n : /\ n = IF policy = "resume" /\ link = "up" THEN ResumeOffset(Head1) ELSE 0
                 /\ offset' \in IF n > 0 /\ SamePrefix(Head1, n) THEN {0, n} ELSE {0}
    BY <1>5 DEF Compare
  <2>2. ResumeOffset(Head1) \in Nat /\ (ResumeOffset(Head1) > 0 => Part(Head1) \in Rows)
    <3>1. Part(Head1) = part[Head1][dest]
      BY DEF Part
    <3>2. CASE Part(Head1) # None
      <4>1. Part(Head1) \in Seq(Nat)
        BY <1>3, <3>1, <3>2 DEF File
      <4>2. Len(Part(Head1)) \in Nat /\ (Len(Part(Head1)) > 0 => Part(Head1) \in Rows)
        BY <4>1 DEF Rows
      <4> QED BY <4>2 DEF ResumeOffset
    <3>3. CASE Part(Head1) = None
      BY <3>3 DEF ResumeOffset
    <3> QED BY <3>2, <3>3
  <2>3. offset' \in Nat /\ (offset' > 0 => policy = "resume" /\ part[Head1][dest] \in Rows)
    BY <2>1, <2>2 DEF Part
  <2> QED BY <1>1, <1>5, <2>3, InFileShaped DEF Compare, place, history
<1>6. CASE Create
  <2>1. got = offset
    BY <1>6 DEF Shaped, Placed, Create
  <2>2. offset > 0 => part' = part /\ policy = "resume" /\ part[Head1][dest] \in Rows
    BY <1>6 DEF Create, PartsLeft, Shaped, Placed
  <2>3. part' \in Table
    <3>1. Put(part, Head1, dest, None) \in Table
      BY <1>1, <1>3, FilesAre, PutIs
    <3>2. part' = part \/ part' = Put(part, Head1, dest, None)
      BY <1>6 DEF Create, PartsLeft, Put
    <3> QED BY <1>1, <3>1, <3>2
  <2>4. CASE offset = 0
    <3>1. real' = Put(real, Head1, dest, <<>>) /\ torn' = torn \cup {<<Head1, dest>>}
      BY <1>6, <2>4 DEF Create, Put
    <3>2. <<>> \in Seq(Nat)
      OBVIOUS
    <3>3. <<>> \in File
      BY <3>2 DEF File
    <3>4. real' \in Table /\ real'[Head1][dest] = <<>>
      BY <1>1, <1>3, <3>1, <3>3, PutIs
    <3>5. torn' \subseteq Files \X Names
      BY <1>1, <1>3, <3>1
    <3>6. /\ pc = "create" /\ pc' = "copy" /\ offset' = offset /\ got' = got /\ total' = total
          /\ UNCHANGED <<src, link, edits, attempts, policy, todo, dest, flag, summary, refused,
                         seen, sent>>
      BY <1>6 DEF Create, copy
    <3>7. real'[Head1][dest] \in Seq(Nat) /\ ~(got > 0) /\ ~(offset > 0)
      BY <2>1, <2>4, <3>2, <3>4
    <3> QED BY <1>1, <2>3, <3>4, <3>5, <3>6, <3>7, InFileShaped
  <2>5. CASE offset # 0
    <3>1. real' = real /\ torn' = torn
      BY <1>6, <2>5 DEF Create
    <3>2. offset > 0
      BY <1>1, <2>5
    <3> QED BY <1>1, <1>3, <1>6, <2>2, <2>3, <3>1, <3>2, InFileShaped DEF Create, copy
  <2> QED BY <2>4, <2>5
<1>7. ASSUME pc \in Copying, pc' \in Copying, got' \in Nat,
             UNCHANGED <<src, link, edits, attempts, policy, todo, dest, offset, total, flag,
                         summary, history>>,
             \/ UNCHANGED place /\ got' = got
             \/ pc = "copy" /\ got < Len(src[Head1]) /\ Grown
      PROVE  Shaped'
  <2>1. /\ offset > 0 => policy = "resume" /\ part[Head1][dest] \in Rows
        /\ offset = 0 =>
              real[Head1][dest] \in Seq(Nat) /\ (got > 0 => real[Head1][dest] \in Rows)
    BY <1>7 DEF Shaped, Placed
  <2>2. CASE UNCHANGED place /\ got' = got
    BY <1>1, <1>7, <2>1, <2>2, InFileShaped DEF place, history
  <2>3. CASE pc = "copy" /\ got < Len(src[Head1]) /\ Grown
    <3>1. CASE offset > 0
      <4>1. PICK x \in Rows : real' = real /\ part' = Put(part, Head1, dest, x)
        BY <2>3, <3>1, GrownIs
      <4>2. x \in File
        BY FilesAre
      <4>3. part' \in Table /\ part'[Head1][dest] \in Rows
        BY <1>1, <1>3, <4>1, <4>2, PutIs
      <4>4. offset # 0
        BY <3>1
      <4> QED BY <1>1, <1>7, <2>1, <3>1, <4>1, <4>3, <4>4, InFileShaped DEF history
    <3>2. CASE offset = 0
      <4>1. PICK x \in Rows : part' = part /\ real' = Put(real, Head1, dest, x)
        BY <2>3, <3>2, GrownIs
      <4>2. x \in File /\ x \in Seq(Nat)
        BY FilesAre
      <4>3. real' \in Table /\ real'[Head1][dest] = x
        BY <1>1, <1>3, <4>1, <4>2, PutIs
      <4> QED BY <1>1, <1>7, <3>2, <4>1, <4>2, <4>3, InFileShaped DEF history
    <3> QED BY <1>1, <3>1, <3>2
  <2> QED BY <1>7, <2>2, <2>3
<1>8. CASE Chunk
  BY <1>1, <1>7, <1>8 DEF Chunk
<1>9. CASE Eof
  BY <1>1, <1>7, <1>9 DEF Eof, copy
<1>10. CASE Cancelled
  BY <1>1, <1>7, <1>10 DEF Cancelled, InFlight, copy
<1>11. CASE Stalled
  BY <1>1, <1>7, <1>11 DEF Stalled, InFlight, copy
<1> QED BY <1>4, <1>5, <1>6, <1>8, <1>9, <1>10, <1>11

\* A part that may be gone.
Cleared == part' = part \/ part' = Put(part, Head1, dest, None)

\* A file that stopped: its part stays, it becomes the part, or nothing is kept.
LEMMA SetAsideIs ==
  ASSUME Shaped, SetAside
  PROVE  /\ pc \in Copying /\ Head1 \in Files /\ dest \in Names /\ FileOver
         /\ \E how \in {"cancelled", "failed"} : EndWith(how)
         /\ UNCHANGED <<src, link, edits, attempts, policy, flag, left, joined, wrong, verified,
                        seen, sent>>
         /\ torn' \subseteq torn /\ refused' \in BOOLEAN
         /\ \/ offset > 0 /\ UNCHANGED <<place, refused>> /\ kept' = Kept
            \/ /\ offset = 0 /\ got > 0 /\ kept' = Kept /\ refused' = refused
               /\ real' = Put(real, Head1, dest, None)
               /\ part' = Put(part, Head1, dest, real[Head1][dest])
            \/ /\ offset = 0 /\ real' = Put(real, Head1, dest, None) /\ Cleared
               /\ kept' = kept /\ refused' = refused
            \/ offset = 0 /\ real' = real /\ Cleared /\ kept' = kept /\ (refused' \/ link = "dst")
<1>1. TypeOK /\ pc \in Copying /\ todo # <<>>
  BY DEF Shaped, Placed, SetAside, InFile, Copying
<1>2. Head1 \in Files /\ dest \in Names
  BY <1>1, HeadIs
<1>3. refused \in BOOLEAN
  BY <1>1 DEF TypeOK
<1>4. /\ FileOver /\ \E how \in {"cancelled", "failed"} : EndWith(how)
      /\ UNCHANGED <<src, link, edits, attempts, policy, flag, left, joined, wrong, verified,
                        seen, sent>>
  BY DEF SetAside
<1>5. PartMayBeGone => Cleared
  BY DEF PartMayBeGone, Cleared, Put
<1>6. \/ offset > 0 /\ UNCHANGED <<place, torn, refused>> /\ kept' = Kept
      \/ offset = 0 /\ got > 0 /\ link # "dst" /\ MovedAside /\ kept' = Kept
      \/ offset = 0 /\ link # "dst" /\ Removed /\ UNCHANGED kept
      \/ offset = 0 /\ LeftAsItIs /\ UNCHANGED kept
  BY DEF SetAside
<1>7. CASE offset > 0 /\ UNCHANGED <<place, torn, refused>> /\ kept' = Kept
  BY <1>1, <1>2, <1>3, <1>4, <1>7
<1>8. CASE offset = 0 /\ got > 0 /\ link # "dst" /\ MovedAside /\ kept' = Kept
  BY <1>1, <1>2, <1>3, <1>4, <1>8 DEF MovedAside, Put
<1>9. CASE offset = 0 /\ link # "dst" /\ Removed /\ UNCHANGED kept
  BY <1>1, <1>2, <1>3, <1>4, <1>5, <1>9 DEF Removed, Put
<1>10. CASE offset = 0 /\ LeftAsItIs /\ UNCHANGED kept
  BY <1>1, <1>2, <1>3, <1>4, <1>5, <1>10 DEF LeftAsItIs
<1> QED BY <1>6, <1>7, <1>8, <1>9, <1>10

LEMMA ClearedTyped ==
  ASSUME Shaped, todo # <<>>, Cleared
  PROVE  part' \in Table
<1>1. part \in Table /\ Head1 \in Files /\ dest \in Names /\ None \in File
  BY HeadIs, FilesAre DEF Shaped
<1>2. Put(part, Head1, dest, None) \in Table
  BY <1>1, PutIs
<1> QED BY <1>1, <1>2 DEF Cleared

LEMMA SetAsideShaped ==
  ASSUME Shaped, SetAside
  PROVE  Shaped'
<1>1. /\ TypeOK /\ todo # <<>> /\ real \in Table /\ part \in Table /\ None \in File
      /\ kept \subseteq Files
  <2>1. pc \in Copying
    BY SetAsideIs
  <2> QED BY <2>1, FilesAre DEF Shaped, Placed, InFile, TypeOK, Table
<1>2. /\ Head1 \in Files /\ dest \in Names /\ FileOver /\ real[Head1][dest] \in File
      /\ UNCHANGED <<src, link, edits, attempts, policy, flag, left, joined, wrong, verified,
                        seen, sent>>
      /\ torn' \subseteq torn /\ refused' \in BOOLEAN
  BY <1>1, HeadIs, SetAsideIs
<1>3. PICK how \in {"cancelled", "failed"} : EndWith(how)
  BY SetAsideIs
<1>4. Kept \subseteq Files
  BY <1>1, <1>2 DEF Kept
<1>5. Put(real, Head1, dest, None) \in Table /\ Put(part, Head1, dest, real[Head1][dest]) \in Table
  <2>1. Put(real, Head1, dest, None) \in Table
    BY <1>1, <1>2, PutIs
  <2>2. Put(part, Head1, dest, real[Head1][dest]) \in Table
    BY <1>1, <1>2, PutIs
  <2> QED BY <2>1, <2>2
<1>6. Cleared => part' \in Table
  BY <1>1, ClearedTyped
<1>7. real' \in Table /\ part' \in Table /\ kept' \in {Kept, kept}
  BY <1>1, <1>5, <1>6, SetAsideIs DEF place
<1>8. how \in {"done", "cancelled", "failed"} /\ kept' \subseteq Files
  BY <1>1, <1>4, <1>7
<1> QED BY <1>2, <1>3, <1>7, <1>8, EndShaped

\* The file takes its name, or the batch ends with that refused.
LEMMA FinishIs ==
  ASSUME Shaped, Finish \/ FinishRefused
  PROVE  /\ pc = "close" /\ todo # <<>> /\ Head1 \in Files /\ dest \in Names /\ FileOver
         /\ UNCHANGED <<src, link, policy, kept, seen>>
         /\ real' = real \/ \E x \in File : offset > 0 /\ real' = Put(real, Head1, dest, x)
         /\ Finish => /\ pc' = "next" /\ todo' = Tail(todo) /\ refused' = refused
                      /\ IF offset > 0 THEN part' = Put(part, Head1, dest, None) ELSE part' = part
         /\ FinishRefused => /\ EndWith("failed") /\ part' = part
                             /\ refused' = (refused \/ link # "dst")
<1>1. TypeOK /\ pc = "close" /\ todo # <<>> /\ FileOver /\ UNCHANGED <<src, link, policy, kept, seen>>
  BY DEF Shaped, Placed, Finish, FinishRefused, Failed, InFile, Copying
<1>2. Head1 \in Files /\ dest \in Names /\ part[Head1][dest] \in File /\ None \in File
  BY <1>1, HeadIs, FilesAre
<1>3. CASE Finish
  BY <1>1, <1>2, <1>3 DEF Finish, FinishRefused, Failed, EndWith, Put, Part, place
<1>4. CASE FinishRefused
  BY <1>1, <1>2, <1>4 DEF Finish, FinishRefused, Failed, EndWith, Put, Part, place
<1> QED BY <1>3, <1>4

LEMMA FinishShaped ==
  ASSUME Shaped, Finish \/ FinishRefused
  PROVE  Shaped'
<1>1. /\ TypeOK /\ pc = "close" /\ todo # <<>> /\ Head1 \in Files /\ dest \in Names /\ FileOver
      /\ real \in Table /\ part \in Table /\ None \in File /\ Tail(todo) \in Seq(Files)
  BY FinishIs, HeadIs, FilesAre DEF Shaped
<1>2. real' \in Table
  <2>1. ASSUME NEW x \in File, real' = Put(real, Head1, dest, x) PROVE real' \in Table
    BY <1>1, <2>1, PutIs
  <2> QED BY <1>1, <2>1, FinishIs
<1>3. Put(part, Head1, dest, None) \in Table
  BY <1>1, PutIs
<1>4. CASE Finish
  <2>1. /\ pc' = "next" /\ todo' = Tail(todo) /\ part' \in Table
    BY <1>1, <1>3, <1>4, FinishIs
  <2>2. /\ UNCHANGED <<src, link, edits, attempts, policy, flag, left, kept, wrong, end, verified,
                         refused, seen, sent>>
        /\ joined' \subseteq Files /\ torn' \subseteq torn
    BY <1>1, <1>4 DEF Finish, TypeOK
  <2>3. dest' \in Names /\ offset' \in Nat /\ got' \in Nat /\ total' \in Nat
    BY <1>1, ConstantsAssumption DEF FileOver, ConstantsAssumption, Wanted, Names
  <2>4. TypeOK'
    BY <1>1, <1>2, <2>1, <2>2, <2>3 DEF TypeOK, Table
  <2> QED BY <2>1, <2>4 DEF Shaped, Placed, InFile, Copying
<1>5. CASE FinishRefused
  <2>1. EndWith("failed") /\ part' \in Table
    BY <1>1, <1>5, FinishIs
  <2>2. /\ UNCHANGED <<src, link, edits, attempts, policy, flag, left, kept, joined, wrong,
                         verified, torn, seen, sent>>
        /\ refused' \in BOOLEAN /\ kept \subseteq Files
    BY <1>1, <1>5 DEF FinishRefused, Failed, TypeOK
  <2> QED BY <1>1, <1>2, <2>1, <2>2, EndShaped
<1> QED BY <1>4, <1>5

LEMMA EndsShaped ==
  ASSUME Shaped, AllDone \/ SourceRefused \/ CreateRefused
  PROVE  Shaped'
<1>1. /\ TypeOK /\ real \in Table /\ part \in Table /\ kept \subseteq Files /\ refused \in BOOLEAN
  BY DEF Shaped, TypeOK, Table
<1>2. CASE AllDone
  BY <1>1, <1>2, EndShaped DEF AllDone, place, history
<1>3. CASE SourceRefused
  BY <1>1, <1>3, EndShaped DEF SourceRefused, Failed, place
<1>4. CASE CreateRefused
  <2>1. todo # <<>>
    BY <1>4 DEF CreateRefused, Shaped, Placed, InFile
  <2>2. Cleared
    BY <1>4 DEF CreateRefused, PartsLeft, Cleared, Put
  <2>3. part' \in Table
    BY <2>1, <2>2, ClearedTyped
  <2> QED BY <1>1, <1>4, <2>3, EndShaped DEF CreateRefused, Failed
<1> QED BY <1>2, <1>3, <1>4

\* Reading back touches no file at the destination.
LEMMA BackShaped ==
  ASSUME Shaped, CheckResumed \/ Return \/ Refused
  PROVE  Shaped'
<1>1. /\ UNCHANGED <<src, place, link, edits, todo, copy>> /\ pc' \in {"verify", "idle"}
      /\ attempts' \in 0 .. MaxAttempts /\ flag' \in BOOLEAN /\ policy' \in Policies \cup Replacing
      /\ torn' \subseteq Files \X Names /\ refused' \in BOOLEAN
      /\ seen' \in [real : [Files -> [Names -> File]], part : [Files -> [Names -> File]]]
  <2>1. CASE CheckResumed
    BY <2>1 DEF CheckResumed, Shaped, TypeOK
  <2>2. CASE Return
    BY <2>2 DEF Return, Shaped, TypeOK, Policies
  <2>3. CASE Refused
    <3>1. attempts' \in 0 .. MaxAttempts
      BY <2>3, ConstantsAssumption DEF Refused, Shaped, TypeOK, ConstantsAssumption
    <3>2. seen' \in [real : [Files -> [Names -> File]], part : [Files -> [Names -> File]]]
      BY <2>3 DEF Refused, Shaped, TypeOK
    <3>3. torn' = {} /\ refused' = FALSE /\ pc' = "idle"
          /\ UNCHANGED <<src, place, link, edits, policy, todo, copy, flag>>
      BY <2>3 DEF Refused
    <3> QED BY <3>1, <3>2, <3>3 DEF Shaped, TypeOK
  <2> QED BY <2>1, <2>2, <2>3
<1>2. /\ left' \subseteq Files /\ kept' \subseteq Files /\ joined' \subseteq Files
      /\ wrong' \subseteq Files /\ end' \in {"none", "done", "cancelled", "failed", "refused"}
      /\ verified' \in BOOLEAN /\ sent' \in {<<>>} \cup [Files -> Contents]
  <2>1. CASE CheckResumed
    BY <2>1 DEF CheckResumed, Shaped, TypeOK
  <2>2. CASE Return
    BY <2>2 DEF Return, Shaped, TypeOK, summary
  <2>3. CASE Refused
    BY <2>3 DEF Refused, Shaped, TypeOK
  <2> QED BY <2>1, <2>2, <2>3
<1>3. TypeOK'
  BY <1>1, <1>2 DEF Shaped, TypeOK, place, copy
<1>4. Placed'
  BY <1>1 DEF Placed, InFile, Copying
<1> QED BY <1>3, <1>4 DEF Shaped

LEMMA ShapedStays ==
  ASSUME Shaped, RoomLeft, [Next]_vars
  PROVE  Shaped'
<1>1. CASE Step
  BY <1>1, ResolveShaped, OpenShaped, SetAsideShaped, FinishShaped, EndsShaped, BackShaped DEF Step
<1>2. CASE RequestCancel \/ Rewrite \/ Vanish
  <2>1. /\ UNCHANGED <<place, policy, dest, offset, got, todo, pc>>
        /\ src' \in [Files -> Contents] /\ link' \in {"up", "src", "dst"} /\ edits' \in 0 .. MaxEdits
        /\ attempts' \in 0 .. MaxAttempts /\ flag' \in BOOLEAN
        /\ UNCHANGED <<total, summary, history>>
    <3>1. CASE Rewrite
      <4>1. edits' \in 0 .. MaxEdits
        BY <3>1, ConstantsAssumption DEF Rewrite, Shaped, TypeOK, ConstantsAssumption
      <4> QED BY <3>1, <4>1 DEF Rewrite, Shaped, TypeOK, copy
    <3>2. CASE RequestCancel \/ Vanish
      BY <3>2 DEF RequestCancel, Vanish, Shaped, TypeOK, copy
    <3> QED BY <1>2, <3>1, <3>2
  <2> QED BY <2>1, StillShaped
<1>3. CASE UNCHANGED vars
  <2>1. /\ UNCHANGED <<place, policy, dest, offset, got, todo, pc>>
        /\ src' \in [Files -> Contents] /\ link' \in {"up", "src", "dst"} /\ edits' \in 0 .. MaxEdits
        /\ attempts' \in 0 .. MaxAttempts /\ flag' \in BOOLEAN
        /\ UNCHANGED <<total, summary, history>>
    BY <1>3 DEF vars, Shaped, TypeOK, place, summary, history
  <2> QED BY <2>1, StillShaped
<1> QED BY <1>1, <1>2, <1>3, StartShaped, BackShaped DEF Next

----------------------------------------------------------------------------
(* Where a step writes *)

\* A step of an attempt writes only the file in flight, under the name it is to
\* land under.
WritesHere ==
    /\ pc \in InFile /\ Head1 \in Files /\ dest \in Names
    /\ real' = real \/ \E x \in File : real' = Put(real, Head1, dest, x)
    /\ part' = part \/ \E x \in File : part' = Put(part, Head1, dest, x)

LEMMA WritesOnly ==
  ASSUME Shaped, [Next]_vars
  PROVE  UNCHANGED place \/ WritesHere
<1>1. /\ TypeOK /\ None \in File /\ Rows \subseteq File /\ <<>> \in File
  BY FilesAre DEF Shaped, File
<1>2. ASSUME pc \in InFile PROVE /\ Head1 \in Files /\ dest \in Names
                                 /\ real[Head1][dest] \in File /\ part[Head1][dest] \in File
  BY <1>1, <1>2, HeadIs DEF Shaped, Placed
<1>3. Cleared => part' = part \/ \E x \in File : part' = Put(part, Head1, dest, x)
  BY <1>1 DEF Cleared
<1>4. CASE Create
  BY <1>1, <1>2, <1>4 DEF Create, PartsLeft, Put, WritesHere, InFile
<1>5. CASE CreateRefused
  <2>1. Cleared /\ real' = real /\ pc \in InFile
    BY <1>5 DEF CreateRefused, PartsLeft, Cleared, Put, InFile
  <2> QED BY <1>2, <1>3, <2>1 DEF WritesHere
<1>6. CASE Chunk \/ Cancelled \/ Stalled
  <2>1. pc \in InFile
    BY <1>6 DEF Chunk, Cancelled, Stalled, InFile, Copying
  <2>2. CASE pc = "copy" /\ got < Len(src[Head1]) /\ Grown
    BY <1>1, <1>2, <2>1, <2>2, GrownIs DEF WritesHere
  <2> QED BY <1>6, <2>2 DEF Chunk, Cancelled, Stalled, InFlight
<1>7. CASE SetAside
  <2>1. /\ pc \in InFile
        /\ \/ UNCHANGED place
           \/ /\ real' = Put(real, Head1, dest, None)
              /\ part' = Put(part, Head1, dest, real[Head1][dest])
           \/ real' = Put(real, Head1, dest, None) /\ Cleared
           \/ real' = real /\ Cleared
    BY <1>7, SetAsideIs DEF InFile
  <2> QED BY <1>1, <1>2, <1>3, <2>1 DEF WritesHere
<1>8. CASE Finish \/ FinishRefused
  <2>1. /\ pc = "close"
        /\ real' = real \/ \E x \in File : real' = Put(real, Head1, dest, x)
        /\ part' = part \/ part' = Put(part, Head1, dest, None)
    BY <1>8, FinishIs
  <2> QED BY <1>1, <1>2, <2>1 DEF WritesHere, InFile, Copying
<1>9. CASE Start \/ CopyAgain \/ Refused \/ RequestCancel \/ Rewrite \/ Vanish \/ UNCHANGED vars
  BY <1>9 DEF Start, CopyAgain, Begin, Refused, RequestCancel, Rewrite, Vanish, vars, place
<1>10. CASE Resolve \/ AllDone \/ OpenRead \/ Compare \/ SourceRefused \/ Eof
  BY <1>10 DEF Resolve, AllDone, OpenRead, Compare, SourceRefused, Eof
<1>11. CASE CheckResumed \/ Return
  BY <1>11 DEF CheckResumed, Return
<1> QED BY <1>4, <1>5, <1>6, <1>7, <1>8, <1>9, <1>10, <1>11 DEF Next, Step

\* Any other entry is as it was.
LEMMA ElsewhereStays ==
  ASSUME Shaped, [Next]_vars, NEW f \in Files, NEW n \in Names,
         pc \in InFile => f # Head1 \/ n # dest
  PROVE  real'[f][n] = real[f][n] /\ part'[f][n] = part[f][n]
<1>1. CASE UNCHANGED place
  BY <1>1 DEF place
<1>2. CASE WritesHere
  <2>1. real \in Table /\ part \in Table /\ Head1 \in Files /\ dest \in Names
        /\ (f # Head1 \/ n # dest)
    BY <1>2 DEF Shaped, TypeOK, Table, WritesHere
  <2>2. ASSUME NEW x \in File
        PROVE  Put(real, Head1, dest, x)[f][n] = real[f][n] /\ Put(part, Head1, dest, x)[f][n] = part[f][n]
    <3>1. Put(real, Head1, dest, x)[f][n] = real[f][n]
      BY <2>1, PutIs
    <3>2. Put(part, Head1, dest, x)[f][n] = part[f][n]
      BY <2>1, PutIs
    <3> QED BY <3>1, <3>2
  <2> QED BY <1>2, <2>2 DEF WritesHere
<1> QED BY <1>1, <1>2, WritesOnly

\* How an attempt goes through its files.
LEMMA Passes ==
  ASSUME Shaped, RoomLeft, [Next]_vars, pc' \in Batch
  PROVE  \/ pc = "idle" /\ pc' = "next" /\ (Start \/ CopyAgain)
         \/ /\ pc \in Batch /\ policy' = policy
            /\ \/ todo' = todo /\ (pc' = "next" => pc = "next")
               \/ todo' = Tail(todo) /\ todo # <<>> /\ pc' = "next"
<1> USE DEF Batch, InFile, Copying
<1>1. CASE Start \/ CopyAgain
  BY <1>1 DEF Start, CopyAgain, Begin
<1>2. CASE Resolve
  BY <1>2, ResolveIs
<1>3. CASE OpenRead \/ Compare \/ Create \/ Chunk \/ Eof \/ Cancelled \/ Stalled
  BY <1>3 DEF OpenRead, Compare, Create, Chunk, Eof, Cancelled, Stalled
<1>4. CASE Finish
  BY <1>4, FinishIs
<1>5. CASE AllDone \/ SourceRefused \/ CreateRefused \/ SetAside \/ FinishRefused
  BY <1>5 DEF AllDone, SourceRefused, CreateRefused, SetAside, FinishRefused, Failed, EndWith
<1>6. CASE CheckResumed \/ Return \/ Refused
  BY <1>6 DEF CheckResumed, Return, Refused
<1>7. CASE RequestCancel \/ Rewrite \/ Vanish \/ UNCHANGED vars
  BY <1>7 DEF RequestCancel, Rewrite, Vanish, vars
<1> QED BY <1>1, <1>2, <1>3, <1>4, <1>5, <1>6, <1>7 DEF Next, Step

LEMMA TailIs ==
  ASSUME NEW S, NEW list \in Seq(S), list # <<>>
  PROVE  /\ DOMAIN list = 1 .. Len(list) /\ 1 \in DOMAIN list /\ Head(list) = list[1]
         /\ \A i \in DOMAIN Tail(list) :
               i \in Nat \ {0} /\ i + 1 \in DOMAIN list /\ Tail(list)[i] = list[i + 1]
<1>1. Len(list) \in Nat \ {0}
  OBVIOUS
<1>2. Tail(list) \in Seq(S) /\ Len(Tail(list)) = Len(list) - 1
  BY HeadTailProperties
<1>3. DOMAIN Tail(list) = 1 .. Len(list) - 1
  BY <1>2
<1>4. \A i \in 1 .. Len(list) - 1 : Tail(list)[i] = list[i + 1]
  BY HeadTailProperties
<1> QED BY <1>1, <1>3, <1>4

\* The names a file can still land under, where table says what is there.
FreeIn(table, f) == {n \in Names \ {Wanted} : table[f][n] = None}

LEMMA RoomStays ==
  ASSUME Shaped, RoomLeft, [Next]_vars
  PROVE  RoomLeft'
<1>1. SUFFICES ASSUME pc' \in Batch, policy' = "keep_both"
               PROVE  /\ \A i, j \in DOMAIN todo' : i # j => todo'[i] # todo'[j]
                      /\ \A i \in DOMAIN todo' : i > 1 \/ pc' = "next" => FreeIn(real', todo'[i]) # {}
  BY DEF RoomLeft, FreeNames, Exists, FreeIn
<1>2. CASE pc = "idle" /\ pc' = "next" /\ (Start \/ CopyAgain)
  <2>1. /\ todo' = [i \in Files |-> i] /\ real' = real
        /\ \A f \in Files : FreeIn(real, f) # {}
    BY <1>1, <1>2 DEF Start, CopyAgain, Begin, place, FreeNames, Exists, FreeIn
  <2> QED BY <2>1 DEF FreeIn
<1>3. CASE /\ pc \in Batch /\ policy' = policy
           /\ todo' = todo /\ (pc' = "next" => pc = "next")
  <2>1. /\ \A i, j \in DOMAIN todo : i # j => todo[i] # todo[j]
        /\ \A i \in DOMAIN todo : i > 1 \/ pc = "next" => FreeIn(real, todo[i]) # {}
    BY <1>1, <1>3 DEF RoomLeft, FreeNames, Exists, FreeIn
  <2>2. ASSUME NEW i \in DOMAIN todo, i > 1 \/ pc' = "next" PROVE FreeIn(real', todo[i]) # {}
    <3>1. todo \in Seq(Files) /\ todo[i] \in Files
      BY DEF Shaped, TypeOK
    <3>2. pc \in InFile => Head1 # todo[i]
      <4>1. SUFFICES ASSUME pc \in InFile PROVE Head1 # todo[i]
        OBVIOUS
      <4>2. pc # "next" /\ todo # <<>> /\ i > 1
        BY <1>3, <2>2, <4>1 DEF InFile, Copying, Shaped, Placed
      <4>3. Head1 = todo[1] /\ 1 \in DOMAIN todo /\ i # 1
        BY <3>1, <4>2, TailIs DEF Head1
      <4> QED BY <2>1, <4>3
    <3>3. \A n \in Names : real'[todo[i]][n] = real[todo[i]][n]
      BY <3>1, <3>2, ElsewhereStays
    <3>4. FreeIn(real, todo[i]) # {}
      BY <1>3, <2>1, <2>2
    <3> QED BY <3>3, <3>4 DEF FreeIn
  <2> QED BY <1>3, <2>1, <2>2
<1>4. CASE pc \in Batch /\ policy' = policy /\ todo' = Tail(todo) /\ todo # <<>> /\ pc' = "next"
  <2>1. /\ \A i, j \in DOMAIN todo : i # j => todo[i] # todo[j]
        /\ \A i \in DOMAIN todo : i > 1 \/ pc = "next" => FreeIn(real, todo[i]) # {}
    BY <1>1, <1>4 DEF RoomLeft, FreeNames, Exists, FreeIn
  <2>2. todo \in Seq(Files)
    BY DEF Shaped, TypeOK
  <2>3. /\ Head1 = todo[1] /\ 1 \in DOMAIN todo
        /\ \A i \in DOMAIN todo' :
              i \in Nat \ {0} /\ i + 1 \in DOMAIN todo /\ todo'[i] = todo[i + 1]
    BY <1>4, <2>2, TailIs DEF Head1
  <2>4. ASSUME NEW i \in DOMAIN todo' PROVE FreeIn(real', todo'[i]) # {}
    <3>1. PICK f \in Files : f = todo'[i] /\ f = todo[i + 1]
      BY <2>2, <2>3
    <3>2. f # Head1 /\ FreeIn(real, f) # {}
      BY <2>1, <2>3, <3>1
    <3>3. \A n \in Names : real'[f][n] = real[f][n]
      BY <3>2, ElsewhereStays
    <3> QED BY <3>1, <3>2, <3>3 DEF FreeIn
  <2>5. \A i, j \in DOMAIN todo' : i # j => todo'[i] # todo'[j]
    BY <2>1, <2>3
  <2> QED BY <2>4, <2>5
<1> QED BY <1>1, <1>2, <1>3, <1>4, Passes

----------------------------------------------------------------------------
(* What a summary offers to continue *)

\* The part of a file has changed since the attempt began, and is still there.
Changed(f) == part[f][Wanted] \notin {None, seen.part[f][Wanted]}

\* A changed part is offered, or could not be helped, or its file is in flight.
Offers ==
    /\ pc \in Batch => kept = {}
    /\ \A f \in kept : part[f][Wanted] \in Rows
    /\ \A f \in Files : Changed(f) =>
          \/ ~Obliging \/ f \in kept
          \/ pc \in Copying /\ offset > 0 /\ f = Head1 /\ dest = Wanted

LEMMA WantedIs == Wanted \in Names
BY ConstantsAssumption DEF ConstantsAssumption, Wanted, Names

\* A part that is cleared has not changed, and no other has.
LEMMA ClearedChanges ==
  ASSUME TypeOK, todo # <<>>, Cleared, seen' = seen, NEW f \in Files, Changed(f)'
  PROVE  Changed(f) /\ part'[f][Wanted] = part[f][Wanted]
<1>1. part \in Table /\ Head1 \in Files /\ dest \in Names /\ None \in File /\ Wanted \in Names
  BY HeadIs, FilesAre, WantedIs
<1>2. CASE part' = Put(part, Head1, dest, None)
  <2>1. part'[f][Wanted] = part[f][Wanted] \/ part'[f][Wanted] = None
    BY <1>1, <1>2, PutIs
  <2> QED BY <2>1 DEF Changed
<1>3. CASE part' = part
  BY <1>3 DEF Changed
<1> QED BY <1>2, <1>3 DEF Cleared

LEMMA SetAsideOffers ==
  ASSUME Shaped, Offers, SetAside
  PROVE  Offers'
<1>1. /\ TypeOK /\ pc \in Copying /\ Head1 \in Files /\ dest \in Names /\ todo # <<>> /\ kept = {}
      /\ seen' = seen /\ link' = link /\ offset \in Nat /\ part \in Table /\ Wanted \in Names
      /\ pc' \in {"verify", "check"}
  BY SetAsideIs, WantedIs DEF Shaped, Placed, Offers, Batch, InFile, EndWith, TypeOK, Table
<1>2. SUFFICES /\ \A f \in kept' : part'[f][Wanted] \in Rows
               /\ \A f \in Files : Changed(f)' => ~Obliging' \/ f \in kept'
  BY <1>1 DEF Offers, Batch, InFile, Copying
<1>3. CASE offset > 0 /\ UNCHANGED <<place, refused>> /\ kept' = Kept
  <2>1. part[Head1][dest] \in Rows /\ part' = part
    BY <1>1, <1>3 DEF Shaped, Placed, place
  <2>2. kept' = IF dest = Wanted THEN {Head1} ELSE {}
    BY <1>1, <1>3 DEF Kept
  <2>3. \A f \in Files : Changed(f) => ~Obliging \/ (f = Head1 /\ dest = Wanted)
    BY <1>1 DEF Offers
  <2> QED BY <1>1, <1>3, <2>1, <2>2, <2>3 DEF Changed, Obliging
<1>4. CASE /\ offset = 0 /\ got > 0 /\ kept' = Kept /\ refused' = refused
           /\ part' = Put(part, Head1, dest, real[Head1][dest])
  <2>1. real[Head1][dest] \in Rows /\ real[Head1][dest] \in File
    BY <1>1, <1>4, FilesAre DEF Shaped, Placed
  <2>2. /\ part'[Head1][dest] \in Rows
        /\ \A f \in Files : ~(f = Head1 /\ Wanted = dest) => part'[f][Wanted] = part[f][Wanted]
    BY <1>1, <1>4, <2>1, PutIs
  <2>3. kept' = IF dest = Wanted THEN {Head1} ELSE {}
    BY <1>1, <1>4 DEF Kept
  <2>4. \A f \in Files : Changed(f) => ~Obliging
    BY <1>1, <1>4 DEF Offers
  <2> QED BY <1>1, <1>4, <2>2, <2>3, <2>4 DEF Changed, Obliging
<1>5. CASE offset = 0 /\ Cleared /\ kept' = kept /\ (refused' = refused \/ refused' \/ link = "dst")
  <2>1. \A f \in Files : Changed(f) => ~Obliging
    BY <1>1, <1>5 DEF Offers
  <2>2. \A f \in Files : Changed(f)' => Changed(f)
    BY <1>1, <1>5, ClearedChanges
  <2>3. ASSUME NEW f \in Files, Changed(f)' PROVE ~Obliging'
    BY <1>1, <1>5, <2>1, <2>2, <2>3 DEF Obliging
  <2> QED BY <1>1, <1>5, <2>3
<1> QED BY <1>3, <1>4, <1>5, SetAsideIs

LEMMA FinishOffers ==
  ASSUME Shaped, Offers, Finish \/ FinishRefused
  PROVE  Offers'
<1>1. /\ TypeOK /\ pc \in Copying /\ Head1 \in Files /\ dest \in Names /\ todo # <<>> /\ kept = {}
      /\ seen' = seen /\ link' = link /\ kept' = {} /\ part \in Table /\ Wanted \in Names
  BY FinishIs, WantedIs DEF Shaped, Offers, Batch, InFile, Copying, TypeOK, Table
<1>2. CASE Finish
  <2>1. pc' = "next" /\ refused' = refused
        /\ IF offset > 0 THEN part' = Put(part, Head1, dest, None) ELSE part' = part
    BY <1>2, FinishIs
  <2>2. Cleared
    BY <2>1 DEF Cleared
  <2>3. ASSUME NEW f \in Files, Changed(f)' PROVE ~Obliging'
    <3>1. Changed(f) /\ part'[f][Wanted] = part[f][Wanted]
      BY <1>1, <2>2, <2>3, ClearedChanges
    <3>2. ~(offset > 0 /\ f = Head1 /\ dest = Wanted)
      <4>1. SUFFICES ASSUME offset > 0, f = Head1, dest = Wanted PROVE FALSE
        OBVIOUS
      <4>2. part'[Head1][dest] = None
        BY <1>1, <2>1, <4>1, FilesAre, PutIs
      <4> QED BY <2>3, <4>1, <4>2 DEF Changed
    <3> QED BY <1>1, <2>1, <3>1, <3>2 DEF Offers, Obliging
  <2> QED BY <1>1, <2>1, <2>3 DEF Offers
<1>3. CASE FinishRefused
  <2>1. ~Obliging' /\ pc' \in {"verify", "check"}
    BY <1>1, <1>3, FinishIs DEF Obliging, EndWith
  <2> QED BY <1>1, <2>1 DEF Offers
<1> QED BY <1>2, <1>3

LEMMA CopyOffers ==
  ASSUME Shaped, Offers, Create \/ CreateRefused \/ Chunk \/ Cancelled \/ Stalled
  PROVE  Offers'
<1>1. /\ TypeOK /\ pc \in InFile /\ Head1 \in Files /\ dest \in Names /\ todo # <<>> /\ kept = {}
      /\ seen' = seen /\ link' = link /\ refused' = refused /\ kept' = {} /\ part \in Table
      /\ Wanted \in Names /\ offset \in Nat
  <2>1. pc \in InFile /\ seen' = seen /\ link' = link /\ refused' = refused /\ kept' = kept
    BY DEF Create, CreateRefused, Failed, Chunk, Cancelled, Stalled, history, summary, InFile, Copying
  <2>2. TypeOK /\ todo # <<>> /\ kept = {}
    BY <2>1 DEF Shaped, Placed, Offers, Batch
  <2> QED BY <2>1, <2>2, HeadIs, WantedIs DEF TypeOK, Table
<1>2. Obliging' <=> Obliging
  BY <1>1 DEF Obliging
<1>3. CASE Create \/ CreateRefused
  <2>1. Cleared /\ pc = "create"
    BY <1>3 DEF Create, CreateRefused, PartsLeft, Cleared, Put
  <2>2. ASSUME NEW f \in Files, Changed(f)' PROVE ~Obliging'
    <3>1. Changed(f)
      BY <1>1, <2>1, <2>2, ClearedChanges
    <3> QED BY <1>1, <1>2, <2>1, <3>1 DEF Offers, Copying
  <2> QED BY <1>1, <2>2 DEF Offers
<1>4. CASE Chunk \/ Cancelled \/ Stalled
  <2>1. /\ pc \in Copying /\ pc' \in Copying /\ UNCHANGED <<offset, todo, dest>>
        /\ part' = part \/ (offset > 0 /\ \E x \in Rows : part' = Put(part, Head1, dest, x))
    <3>1. pc \in Copying /\ pc' \in Copying /\ UNCHANGED <<offset, todo, dest>>
      BY <1>4 DEF Chunk, Cancelled, Stalled, copy, Copying
    <3>2. UNCHANGED place \/ (pc = "copy" /\ got < Len(src[Head1]) /\ Grown)
      BY <1>4 DEF Chunk, Cancelled, Stalled, InFlight
    <3> QED BY <3>1, <3>2, GrownIs DEF place
  <2>2. ASSUME NEW f \in Files, Changed(f)', ~(offset > 0 /\ f = Head1 /\ dest = Wanted)
        PROVE  ~Obliging'
    <3>1. part'[f][Wanted] = part[f][Wanted]
      <4>1. CASE part' = part
        BY <4>1
      <4>2. ASSUME offset > 0, NEW x \in Rows, part' = Put(part, Head1, dest, x)
            PROVE  part'[f][Wanted] = part[f][Wanted]
        <5>1. x \in File /\ ~(f = Head1 /\ Wanted = dest)
          BY <2>2, <4>2, FilesAre
        <5> QED BY <1>1, <4>2, <5>1, PutIs
      <4> QED BY <2>1, <4>1, <4>2
    <3>2. Changed(f)
      BY <1>1, <2>2, <3>1 DEF Changed
    <3> QED BY <1>1, <1>2, <2>2, <3>2 DEF Offers
  <2>3. Head1' = Head1 /\ dest' = dest /\ offset' = offset /\ pc' \in Copying
    BY <2>1 DEF Head1
  <2>4. \A f \in Files : Changed(f)' => ~Obliging' \/ (offset > 0 /\ f = Head1 /\ dest = Wanted)
    BY <2>2
  <2> QED BY <1>1, <2>3, <2>4 DEF Offers
<1> QED BY <1>3, <1>4

LEMMA OffersStay ==
  ASSUME Shaped, Offers, [Next]_vars
  PROVE  Offers'
<1>1. CASE Start \/ CopyAgain \/ Refused
  BY <1>1 DEF Start, CopyAgain, Begin, Refused, Offers, Changed, place
<1>2. CASE /\ UNCHANGED <<place, seen, kept, refused>> /\ (link' = "dst" \/ link' = link \/ link' = "src")
           /\ (link = "dst" => link' = "dst")
           /\ pc' \in Batch => pc \in Batch
           /\ pc \in Copying => pc' \in Copying /\ UNCHANGED <<offset, todo, dest>>
  <2>1. kept' = kept /\ seen' = seen /\ part' = part
    BY <1>2 DEF place
  <2>2. Obliging' => Obliging
    BY <1>2 DEF Obliging
  <2>3. ASSUME NEW f \in Files PROVE Changed(f)' <=> Changed(f)
    BY <2>1 DEF Changed
  <2>4. ASSUME pc \in Copying
        PROVE  pc' \in Copying /\ offset' = offset /\ dest' = dest /\ Head1' = Head1
    BY <1>2, <2>4 DEF Head1
  <2>5. pc' \in Batch => kept' = {}
    BY <1>2, <2>1 DEF Offers
  <2>6. \A f \in kept' : part'[f][Wanted] \in Rows
    BY <2>1 DEF Offers
  <2>7. ASSUME NEW f \in Files, Changed(f)'
        PROVE  \/ ~Obliging' \/ f \in kept'
               \/ pc' \in Copying /\ offset' > 0 /\ f = Head1' /\ dest' = Wanted
    <3>1. Changed(f)
      BY <2>3, <2>7
    <3>2. ~Obliging \/ f \in kept \/ (pc \in Copying /\ offset > 0 /\ f = Head1 /\ dest = Wanted)
      BY <3>1 DEF Offers
    <3> QED BY <2>1, <2>2, <2>4, <3>2
  <2> QED BY <2>5, <2>6, <2>7 DEF Offers
<1>3. CASE RequestCancel \/ Rewrite \/ Vanish \/ UNCHANGED vars
  <2>1. /\ UNCHANGED <<place, seen, kept, refused, pc, offset, todo, dest>>
        /\ link' = "dst" \/ link' = link \/ link' = "src"
        /\ link = "dst" => link' = "dst"
    BY <1>3 DEF RequestCancel, Rewrite, Vanish, vars, place, summary, history, copy
  <2> QED BY <1>2, <2>1
<1>4. CASE Resolve \/ OpenRead \/ Compare \/ Eof
  BY <1>2, <1>4 DEF Resolve, OpenRead, Compare, Eof, summary, history, copy, Batch, InFile, Copying
<1>5. CASE AllDone \/ SourceRefused \/ CheckResumed \/ Return
  BY <1>2, <1>5 DEF AllDone, SourceRefused, Failed, EndWith, CheckResumed, Return, summary, history,
     Batch, InFile, Copying
<1> QED BY <1>1, <1>3, <1>4, <1>5, CopyOffers, SetAsideOffers, FinishOffers DEF Next, Step

----------------------------------------------------------------------------
(* What Skip and Keep both leave alone *)

Keeping == {"skip", "keep_both"}

\* A file that was there is not the one that is written, unless the destination
\* has gone before anything of it was.
Apart ==
    policy \in Keeping /\ pc \in InFile /\ seen.real[Head1][Wanted] # None =>
        dest # Wanted \/ (link = "dst" /\ pc \notin Copying)

\* An attempt keeps its policy and what it saw.
LEMMA SameAttempt ==
  ASSUME [Next]_vars, pc' # "idle"
  PROVE  \/ pc = "idle" /\ pc' = "next" /\ seen' = [real |-> real, part |-> part] /\ UNCHANGED place
         \/ /\ pc # "idle" /\ policy' = policy /\ seen' = seen
            /\ link = "dst" => link' = "dst"
<1>1. CASE Start \/ CopyAgain \/ Refused
  BY <1>1 DEF Start, CopyAgain, Begin, Refused
<1>2. CASE RequestCancel \/ Rewrite \/ Vanish \/ UNCHANGED vars
  BY <1>2 DEF RequestCancel, Rewrite, Vanish, vars, history
<1>3. CASE Step
  BY <1>3 DEF Step, Resolve, AllDone, OpenRead, Compare, SourceRefused, Create, CreateRefused, Chunk,
     Eof, Cancelled, Stalled, SetAside, Finish, FinishRefused, CheckResumed, Return, Failed, history
<1> QED BY <1>1, <1>2, <1>3 DEF Next

\* Nothing is written where the destination went away before the file was made.
LEMMA GoneStays ==
  ASSUME [Next]_vars, pc \in InFile \ Copying, link = "dst", policy \in Keeping
  PROVE  UNCHANGED place
BY DEF Next, Step, Start, CopyAgain, Begin, Refused, RequestCancel, Rewrite, Vanish, vars, InFile,
   Copying, Resolve, AllDone, OpenRead, Compare, SourceRefused, Create, CreateRefused, Chunk, Eof,
   Cancelled, Stalled, SetAside, Finish, FinishRefused, CheckResumed, Return, Failed, PartsLeft,
   Replacing, Keeping, place

LEMMA ApartStays ==
  ASSUME Shaped, RoomLeft, Apart, ExistingStays, [Next]_vars
  PROVE  Apart' /\ ExistingStays'
<1>1. ExistingStays'
  <2>1. SUFFICES ASSUME pc' # "idle", policy' \in Keeping, NEW f \in Files,
                        seen'.real[f][Wanted] # None
                 PROVE  /\ real'[f][Wanted] = seen'.real[f][Wanted]
                        /\ part'[f][Wanted] = seen'.part[f][Wanted]
    BY DEF ExistingStays, Keeping
  <2>2. CASE pc = "idle" /\ seen' = [real |-> real, part |-> part] /\ UNCHANGED place
    BY <2>2 DEF place
  <2>3. CASE pc # "idle" /\ policy' = policy /\ seen' = seen
    <3>1. real[f][Wanted] = seen.real[f][Wanted] /\ part[f][Wanted] = seen.part[f][Wanted]
      BY <2>1, <2>3 DEF ExistingStays, Keeping
    <3>2. real'[f][Wanted] = real[f][Wanted] /\ part'[f][Wanted] = part[f][Wanted]
      <4>1. CASE pc \in InFile => f # Head1 \/ Wanted # dest
        BY <4>1, ElsewhereStays, WantedIs
      <4>2. CASE pc \in InFile /\ f = Head1 /\ Wanted = dest
        <5>1. link = "dst" /\ pc \notin Copying
          BY <2>1, <2>3, <4>2 DEF Apart
        <5> QED BY <2>1, <2>3, <4>2, <5>1, GoneStays DEF place
      <4> QED BY <4>1, <4>2
    <3> QED BY <2>3, <3>1, <3>2
  <2> QED BY <2>1, <2>2, <2>3, SameAttempt
<1>2. Apart'
  <2>1. SUFFICES ASSUME pc' \in InFile, policy' \in Keeping, seen'.real[Head1'][Wanted] # None
                 PROVE  dest' # Wanted \/ (link' = "dst" /\ pc' \notin Copying)
    BY DEF Apart
  <2>2. pc # "idle" /\ policy' = policy /\ seen' = seen /\ (link = "dst" => link' = "dst")
    BY <2>1, SameAttempt DEF InFile, Copying
  <2>3. CASE Resolve
    <3>1. /\ Head1 \in Files /\ todo' = todo /\ pc' = "open" /\ pc = "next" /\ link' = link
          /\ ~Exists(Head1, Wanted) \/ link = "dst" \/ dest' # Wanted
      BY <2>1, <2>2, <2>3, ResolveIs DEF Keeping, InFile, Copying
    <3>2. seen.real[Head1][Wanted] # None
      BY <2>1, <2>2, <3>1 DEF Head1
    <3>3. Exists(Head1, Wanted)
      BY <2>1, <2>2, <3>1, <3>2 DEF ExistingStays, Keeping, Exists
    <3> QED BY <3>1, <3>3 DEF Copying
  <2>4. CASE ~Resolve
    <3>1. /\ pc \in InFile /\ UNCHANGED <<todo, dest>>
          /\ pc' \in Copying => pc \in Copying \/ link # "dst"
      BY <2>1, <2>4 DEF Next, Step, Start, CopyAgain, Begin, Refused, RequestCancel, Rewrite, Vanish,
         vars, InFile, Copying, AllDone, OpenRead, Compare, SourceRefused, Create, CreateRefused,
         Chunk, Eof, Cancelled, Stalled, SetAside, Finish, FinishRefused, CheckResumed, Return,
         Failed, EndWith, copy
    <3>2. dest # Wanted \/ (link = "dst" /\ pc \notin Copying)
      BY <2>1, <2>2, <3>1 DEF Apart, Head1
    <3> QED BY <2>2, <3>1, <3>2
  <2> QED BY <2>3, <2>4
<1> QED BY <1>1, <1>2

----------------------------------------------------------------------------
(* The theorems *)

IInv == Shaped /\ RoomLeft /\ Offers /\ Apart /\ ExistingStays

LEMMA InitHolds ==
  ASSUME Init
  PROVE  IInv
<1>1. /\ Old \in Rows /\ Begun \in Rows /\ Rows \subseteq File /\ None \in File /\ Wanted \in Names
      /\ Begun # None
  BY ConstantsAssumption, FilesAre, WantedIs DEF ConstantsAssumption, Rows
<1>2. real \in Table /\ part \in Table /\ src \in [Files -> Contents]
  BY <1>1 DEF Init, Table
<1>3. TypeOK
  <2>1. seen \in [real : [Files -> [Names -> File]], part : [Files -> [Names -> File]]]
    BY <1>2 DEF Init, Table
  <2>2. todo \in Seq(Files) /\ dest \in Names /\ kept \subseteq Files
    BY <1>1 DEF Init
  <2>3. edits \in 0 .. MaxEdits /\ attempts \in 0 .. MaxAttempts
    BY ConstantsAssumption DEF Init, ConstantsAssumption
  <2> QED BY <1>2, <2>1, <2>2, <2>3 DEF Init, TypeOK, Table, Policies
<1>4. pc = "idle"
  BY DEF Init
<1>5. Placed /\ RoomLeft /\ Apart /\ ExistingStays
  BY <1>4 DEF Placed, RoomLeft, Apart, ExistingStays, Batch, InFile, Copying
<1>6. Offers
  <2>1. \A f \in kept : part[f][Wanted] \in Rows
    BY <1>1 DEF Init
  <2>2. \A f \in Files : seen.part[f][Wanted] = part[f][Wanted]
    BY DEF Init
  <2> QED BY <1>4, <2>1, <2>2 DEF Offers, Changed, Batch, InFile, Copying
<1> QED BY <1>3, <1>5, <1>6 DEF IInv, Shaped

LEMMA Invariance == Spec => []IInv
<1>1. IInv /\ [Next]_vars => IInv'
  BY ShapedStays, RoomStays, OffersStay, ApartStays DEF IInv
<1> QED BY <1>1, InitHolds, PTL DEF Spec

\* The files, their parts, the row of files to come and the summary are what
\* their types say; the name a file is to land under exists, also where Keep
\* both has to find a free one.
THEOREM TypeCorrect == Spec => []TypeOK
<1>1. IInv => TypeOK
  BY DEF IInv, Shaped
<1> QED BY <1>1, Invariance, PTL

\* However an attempt ends, Skip and Keep both have left what was there and the
\* part beside it alone, and what is unfinished is what the summary offers to
\* continue, unless the destination was gone or refused (transfer_one).
THEOREM NothingIsSpoilt == Spec => []SpoilsNothing
<1>1. IInv => SpoilsNothing
  <2> SUFFICES ASSUME IInv PROVE SpoilsNothing
    OBVIOUS
  <2>1. OfferIsTrue
    <3>1. None \notin Rows /\ <<>> \notin Rows
      BY FilesAre DEF Rows
    <3> QED BY <3>1 DEF IInv, Offers, OfferIsTrue, Over, Changed, Copying
  <2> QED BY <2>1 DEF IInv, SpoilsNothing
<1> QED BY <1>1, Invariance, PTL
-----------------------------------------------------------------------------
(* Files: a copy that is edited *)

\* A version of the copy that it will not be again.
Past(v) ==
    /\ v # opened /\ ~(opened < Missing /\ v = 0 - opened)
    /\ 0 - (Original + saves) <= v /\ v <= Original + saves

WatchType ==
    [at : {"none", "fetching", "left", "watching", "sending", "copying", "ended"},
     last : Int, pending : Int, missing : Nat, now : Int, read : Int, failed : BOOLEAN]

EditTypeOK ==
    /\ opened \in Int /\ server \in Int /\ saves \in Nat /\ others \in Nat
    /\ watch \in WatchType

\* Only the watcher's own uploads change the server's file, and the copy does
\* not come back to what the watcher took a stamp of.
Edited ==
    /\ 0 - (Original + saves) <= opened /\ opened <= Original + saves
    /\ watch.at \in {"none", "fetching"} => server = Original
    /\ watch.at = "watching" /\ ~watch.failed =>
          /\ watch.last # Missing
          /\ (opened = watch.last /\ server = opened) \/ Past(watch.last)
    /\ watch.at \in {"sending", "copying"} => watch.now # Missing
    /\ watch.at = "sending" => opened = watch.now \/ Past(watch.now)
    /\ watch.at = "copying" => (opened = watch.now /\ watch.read = opened) \/ Past(watch.now)

EditInv == EditTypeOK /\ (others = 0 => Edited)

(* One field of the watch at a time. *)
LEMMA WatchUpdates ==
  ASSUME NEW w \in WatchType
  PROVE  /\ \A x \in {"sending", "copying", "watching"} : [w EXCEPT !.at = x] \in WatchType
         /\ \A x \in Int : [w EXCEPT !.last = x] \in WatchType
         /\ \A x \in Int : [w EXCEPT !.pending = x] \in WatchType
         /\ \A x \in Nat : [w EXCEPT !.missing = x] \in WatchType
         /\ \A x \in Int : [w EXCEPT !.now = x] \in WatchType
         /\ \A x \in Int : [w EXCEPT !.read = x] \in WatchType
         /\ \A x \in BOOLEAN : [w EXCEPT !.failed = x] \in WatchType
<1>1. ASSUME NEW x \in {"sending", "copying", "watching"} PROVE [w EXCEPT !.at = x] \in WatchType
  BY DEF WatchType
<1>2. ASSUME NEW x \in Int PROVE [w EXCEPT !.last = x] \in WatchType
  BY DEF WatchType
<1>3. ASSUME NEW x \in Int PROVE [w EXCEPT !.pending = x] \in WatchType
  BY DEF WatchType
<1>4. ASSUME NEW x \in Nat PROVE [w EXCEPT !.missing = x] \in WatchType
  BY DEF WatchType
<1>5. ASSUME NEW x \in Int PROVE [w EXCEPT !.now = x] \in WatchType
  BY DEF WatchType
<1>6. ASSUME NEW x \in Int PROVE [w EXCEPT !.read = x] \in WatchType
  BY DEF WatchType
<1>7. ASSUME NEW x \in BOOLEAN PROVE [w EXCEPT !.failed = x] \in WatchType
  BY DEF WatchType
<1> QED BY <1>1, <1>2, <1>3, <1>4, <1>5, <1>6, <1>7

LEMMA WatchFields ==
  ASSUME NEW w \in WatchType
  PROVE  /\ w.last \in Int /\ w.pending \in Int /\ w.missing \in Nat /\ w.now \in Int
         /\ w.read \in Int
         /\ w.failed \in BOOLEAN
         /\ w.at \in {"none", "fetching", "left", "watching", "sending", "copying", "ended"}
  BY DEF WatchType

LEMMA WatchingAgain ==
  ASSUME watch \in WatchType
  PROVE  /\ WatchesAgain \in WatchType /\ WatchesAgain.at = "watching"
         /\ WatchesAgain.last = watch.now /\ WatchesAgain.failed = FALSE
<1>0. PICK z \in Int : z = 0
  OBVIOUS
<1> DEFINE a1 == [watch EXCEPT !.at = "watching"]
           a2 == [a1 EXCEPT !.last = watch.now]
           a3 == [a2 EXCEPT !.pending = z]
           a4 == [a3 EXCEPT !.now = z]
           a5 == [a4 EXCEPT !.read = z]
           a6 == [a5 EXCEPT !.failed = FALSE]
<1>1. watch.now \in Int
  BY WatchFields
<1>2. a1 \in WatchType
  BY WatchUpdates
<1>3. a2 \in WatchType
  <2> HIDE DEF a1
  <2> QED BY <1>1, <1>2, WatchUpdates
<1>4. a3 \in WatchType
  <2> HIDE DEF a2
  <2> QED BY <1>0, <1>3, WatchUpdates
<1>5. a4 \in WatchType
  <2> HIDE DEF a3
  <2> QED BY <1>0, <1>4, WatchUpdates
<1>6. a5 \in WatchType
  <2> HIDE DEF a4
  <2> QED BY <1>0, <1>5, WatchUpdates
<1>7. a6 \in WatchType
  <2> HIDE DEF a5
  <2> QED BY <1>6, WatchUpdates
<1>8. WatchesAgain = a6
  BY <1>0 DEF WatchesAgain, Missing
<1>9. a6.at = "watching" /\ a6.last = watch.now /\ a6.failed = FALSE
  BY <1>7 DEF WatchType
<1> QED BY <1>7, <1>8, <1>9

-----------------------------------------------------------------------------
(* Files: what a step leaves alone *)

EditingStays ==
    /\ UNCHANGED editing
    /\ others' = others \/ others' = others + 1
PanelStays == conn' = conn /\ held' = held
DeletingStays == UNCHANGED deleting /\ PanelStays /\ (others' = others \/ others' = others + 1)
ListStep == ListRows \/ delete_remote \/ delete_local \/ DeleteStep \/ OtherChanges

LEMMA PanelLeaves ==
  ASSUME PanelStep
  PROVE  EditingStays /\ arc' = arc /\ UNCHANGED comparing /\ UNCHANGED deleting /\ others' = others
BY DEF PanelStep, connect_sftp, disconnect_sftp, FoundDead, Vanishes, EditingStays

LEMMA EditLeaves ==
  ASSUME EditStep
  PROVE  arc' = arc /\ UNCHANGED comparing /\ DeletingStays
BY DEF EditStep, open_remote, Fetched, FetchFails, EditorSaves, EditorFinishes, Tick, SendStep,
   SendBegins, SendRefused, SendEnds, SendBreaks, OtherWrites, DeletingStays, PanelStays, panel

LEMMA OverLeaves ==
  ASSUME NEW next, OverTable(next)
  PROVE  EditingStays /\ UNCHANGED comparing /\ DeletingStays
BY DEF OverTable, EditingStays, DeletingStays, PanelStays, panel

LEMMA StreamLeaves ==
  ASSUME StreamStep
  PROVE  EditingStays /\ UNCHANGED comparing /\ DeletingStays
<1>1. \E next : OverTable(next)
  BY DEF StreamStep, StreamBegins, CancelPressed, Passed, Unpacked, PackingEnds, PackingCut,
     UnpackingFails, UnpackingCut, StreamCloses, SendingFails, UnpackingEnds, Reported,
     HashSource, HashLanded, NextStream, Unverified
<1> QED BY <1>1, OverLeaves

LEMMA ComparesLeaves ==
  ASSUME NEW next, Compares(next)
  PROVE  EditingStays /\ arc' = arc /\ DeletingStays
BY DEF Compares, EditingStays, DeletingStays, PanelStays, panel

LEMMA CompareLeaves ==
  ASSUME CompareStep
  PROVE  EditingStays /\ arc' = arc /\ DeletingStays
<1>1. CASE OtherEdits
  BY <1>1 DEF OtherEdits, EditingStays, DeletingStays, PanelStays, panel
<1>2. CASE \E next : Compares(next)
  BY <1>2, ComparesLeaves
<1>3. CompareStep => OtherEdits \/ \E next : Compares(next)
  BY DEF CompareStep, compare_trees, CompareCancelled, Walked, Sized, LeftHashed, RightHashed,
     CompareClosed, HashOne
<1> QED BY <1>1, <1>2, <1>3

LEMMA ListLeaves ==
  ASSUME ListStep
  PROVE  EditingStays /\ arc' = arc /\ UNCHANGED comparing /\ PanelStays
BY DEF ListStep, ListRows, delete_remote, delete_local, DeleteStep, RemoveRefused, SingleFile,
   WalkOne, RemoveFile, RemoveDir, Deleted, OtherChanges, EditingStays, PanelStays, panel

LEMMA NothingLeaves ==
  ASSUME UNCHANGED fvars
  PROVE  EditingStays /\ arc' = arc /\ UNCHANGED comparing /\ DeletingStays
BY DEF fvars, EditingStays, DeletingStays, PanelStays, panel

LEMMA FilesSteps ==
  ASSUME [FilesNext]_fvars
  PROVE  PanelStep \/ EditStep \/ StreamStep \/ CompareStep \/ ListStep \/ UNCHANGED fvars
BY DEF FilesNext, ListStep

-----------------------------------------------------------------------------
(* Files: no save is passed over *)

LEMMA EditStarts ==
  ASSUME FilesInit PROVE EditInv
BY FilesAssumption DEF FilesAssumption, FilesInit, EditInv, EditTypeOK, WatchType, Edited,
   NoWatch, Original,
   Missing

LEMMA EditingStaysKeeps ==
  ASSUME EditInv, EditingStays PROVE EditInv'
<1>1. /\ opened' = opened /\ server' = server /\ watch' = watch /\ saves' = saves
      /\ others' = others \/ others' = others + 1
  BY DEF EditingStays, editing
<1>2. EditTypeOK'
  BY <1>1 DEF EditInv, EditTypeOK, WatchType
<1>3. others' = 0 => others = 0
  BY <1>1 DEF EditInv, EditTypeOK, WatchType
<1>4. others = 0 => Edited'
  BY <1>1 DEF EditInv, Edited, Past
<1> QED BY <1>2, <1>3, <1>4 DEF EditInv

\* A version that is past stays so, and one that is replaced becomes it.
LEMMA NewVersion ==
  ASSUME EditTypeOK, 0 - (Original + saves) <= opened, opened <= Original + saves,
         NEW v \in Int, v # Missing, v = opened \/ Past(v),
         \/ EditorSaves
         \/ EditorFinishes
  PROVE  Past(v)' \/ (UNCHANGED opened /\ v = opened)
<1> USE DEF Original, Missing
<1>1. CASE EditorSaves
  <2>1. saves' = saves + 1 /\ saves \in Nat /\ opened \in Int /\ opened >= 0
    BY <1>1 DEF EditorSaves, EditTypeOK, WatchType
  <2>2. 0 - (1 + saves) <= v /\ v <= 1 + saves
    BY DEF Past
  <2>3. CASE opened' \in {0 - (1 + saves'), 1 + saves'}
    <3>1. PICK w \in Nat : w = 2 + saves
      BY <2>1
    <3>2. opened' = 0 - w \/ opened' = w
      BY <2>1, <2>3, <3>1
    <3>3. 0 - w < v /\ v < w
      BY <2>1, <2>2, <3>1
    <3>4. v # opened' /\ ~(opened' < 0 /\ v = 0 - opened')
      BY <3>2, <3>3
    <3>5. 0 - (1 + saves') <= v /\ v <= 1 + saves'
      BY <2>1, <2>2
    <3> QED BY <3>4, <3>5 DEF Past
  <2>4. CASE opened > 0 /\ opened' = 0
    BY <2>1, <2>2, <2>4 DEF Past
  <2> QED BY <1>1, <2>3, <2>4 DEF EditorSaves
<1>2. CASE EditorFinishes
  <2>1. opened < 0 /\ opened' = 0 - opened /\ saves' = saves /\ opened \in Int /\ saves \in Nat
    BY <1>2 DEF EditorFinishes, EditTypeOK, WatchType
  <2>2. 0 - (1 + saves) <= v /\ v <= 1 + saves
    BY DEF Past
  <2>3. v # opened'
    BY <2>1 DEF Past
  <2> QED BY <2>1, <2>2, <2>3 DEF Past
<1> QED BY <1>1, <1>2

LEMMA EditorKeeps ==
  ASSUME EditInv, EditorSaves \/ EditorFinishes PROVE EditInv'
<1>1. /\ watch' = watch /\ server' = server /\ others' = others
      /\ \/ saves' = saves + 1
            /\ opened' \in {0 - (Original + saves'), Original + saves', Missing}
         \/ saves' = saves /\ opened' = 0 - opened
  BY DEF EditorSaves, EditorFinishes, Missing
<1>2. EditTypeOK /\ Original \in Nat /\ Missing \in Int
  BY DEF EditInv, Original, Missing
<1>3. EditTypeOK'
  BY <1>1, <1>2 DEF EditTypeOK, WatchType
<1>4. SUFFICES ASSUME others = 0 PROVE Edited'
  BY <1>1, <1>3 DEF EditInv
<1>5. Edited
  BY <1>4 DEF EditInv
<1>6. 0 - (Original + saves) <= opened /\ opened <= Original + saves
  BY <1>5 DEF Edited
<1>7. 0 - (Original + saves') <= opened' /\ opened' <= Original + saves'
  BY <1>1, <1>2, <1>6 DEF EditTypeOK, WatchType, Missing, Original
<1>8. opened \in Int /\ saves \in Nat
  BY <1>2 DEF EditTypeOK, WatchType
<1>9. watch.last \in Int /\ watch.now \in Int
  BY <1>2 DEF EditTypeOK, WatchType
<1>10. ASSUME NEW v \in Int, v # Missing, v = opened \/ Past(v)
       PROVE  Past(v)' \/ (UNCHANGED opened /\ v = opened)
  BY <1>2, <1>6, <1>10, NewVersion
<1>11. watch.at = "watching" /\ ~watch.failed =>
          /\ watch.last # Missing
          /\ (opened' = watch.last /\ server = opened') \/ Past(watch.last)'
  <2>1. SUFFICES ASSUME watch.at = "watching", ~watch.failed
                 PROVE  /\ watch.last # Missing
                        /\ (opened' = watch.last /\ server = opened') \/ Past(watch.last)'
    OBVIOUS
  <2>2. PICK v \in Int : v = watch.last
    BY <1>9
  <2>3. v # Missing /\ ((opened = v /\ server = opened) \/ Past(v))
    BY <1>5, <2>1, <2>2 DEF Edited
  <2>4. Past(v)' \/ (UNCHANGED opened /\ v = opened)
    BY <1>10, <2>3
  <2>5. Past(v)' => Past(watch.last)'
    BY <1>1, <2>2 DEF Past
  <2>6. UNCHANGED opened /\ v = opened => opened' = watch.last /\ (Past(v) \/ server = opened')
    BY <2>2, <2>3
  <2>7. Past(v) => v # opened
    BY DEF Past
  <2> QED BY <2>2, <2>3, <2>4, <2>5, <2>6, <2>7
<1>12. watch.at \in {"sending", "copying"} =>
          /\ watch.now # Missing
          /\ watch.at = "sending" => opened' = watch.now \/ Past(watch.now)'
          /\ watch.at = "copying" =>
                (opened' = watch.now /\ watch.read = opened') \/ Past(watch.now)'
  <2>1. SUFFICES ASSUME watch.at \in {"sending", "copying"}
                 PROVE  /\ watch.now # Missing
                        /\ watch.at = "sending" => opened' = watch.now \/ Past(watch.now)'
                        /\ watch.at = "copying" =>
                              (opened' = watch.now /\ watch.read = opened') \/ Past(watch.now)'
    OBVIOUS
  <2>2. PICK v \in Int : v = watch.now
    BY <1>9
  <2>3. /\ v # Missing /\ (v = opened \/ Past(v))
        /\ watch.at = "copying" => (opened = v /\ watch.read = opened) \/ Past(v)
    BY <1>5, <2>1, <2>2 DEF Edited
  <2>4. Past(v)' \/ (UNCHANGED opened /\ v = opened)
    <3>1. v # Missing /\ (v = opened \/ Past(v))
      BY <2>3
    <3> QED BY <1>10, <3>1
  <2>5. Past(v)' => Past(watch.now)'
    BY <1>1, <2>2 DEF Past
  <2>6. Past(v) => v # opened
    BY DEF Past
  <2>7. CASE Past(v)'
    BY <2>2, <2>3, <2>5, <2>7
  <2>8. CASE opened' = opened /\ v = opened
    BY <2>2, <2>3, <2>6, <2>8
  <2> QED BY <2>4, <2>7, <2>8
<1>13. watch'.at = watch.at /\ watch'.last = watch.last /\ watch'.now = watch.now
       /\ watch'.read = watch.read /\ watch'.failed = watch.failed
  BY <1>1
<1>14. watch.at \in {"none", "fetching"} => server' = Original
  BY <1>1, <1>5 DEF Edited
<1> QED BY <1>1, <1>7, <1>11, <1>12, <1>13, <1>14 DEF Edited

LEMMA WatcherKeeps ==
  ASSUME EditInv, open_remote \/ Fetched \/ FetchFails \/ Tick PROVE EditInv'
<1>1. saves' = saves /\ server' = server /\ others' = others
  BY DEF open_remote, Fetched, FetchFails, Tick
<1>2. EditTypeOK /\ Original = 1
  BY DEF EditInv, Original
<1> USE DEF Missing
<1>3. EditTypeOK'
  <2>1. CASE open_remote
    BY <1>1, <1>2, <2>1 DEF open_remote, EditTypeOK, WatchType
  <2>2. CASE Fetched
    <3>1. opened' = server
          /\ watch' = [at |-> "watching", last |-> server, pending |-> 0, missing |-> 0, now |-> 0,
                   read |-> 0, failed |-> FALSE]
      BY <2>2 DEF Fetched, NoWatch
    <3> QED BY <1>1, <1>2, <3>1 DEF EditTypeOK, WatchType
  <2>3. CASE FetchFails
    <3>1. opened' = opened
          /\ watch' = [at |-> "left", last |-> 0, pending |-> 0, missing |-> 0, now |-> 0,
                   read |-> 0, failed |-> FALSE]
      BY <2>3 DEF FetchFails, NoWatch
    <3> QED BY <1>1, <1>2, <3>1 DEF EditTypeOK, WatchType
  <2>4. CASE Tick
    <3>1. CASE WatchEnds
      <4>1. opened' = 0
            /\ watch' = [at |-> "ended", last |-> 0, pending |-> 0, missing |-> 0, now |-> 0,
                   read |-> 0, failed |-> FALSE]
        BY <3>1 DEF WatchEnds, NoWatch
      <4> QED BY <1>1, <1>2, <4>1 DEF EditTypeOK, WatchType
    <3>2. CASE opened' = opened /\ watch' = [watch EXCEPT !.missing = @ + 1]
      BY <1>1, <1>2, <3>2 DEF EditTypeOK, WatchType
    <3>3. ASSUME NEW x \in Int, opened' = opened,
                 watch' = [watch EXCEPT !.missing = 0, !.pending = x]
          PROVE  EditTypeOK'
      <4>1. PICK z \in Nat : z = 0
        OBVIOUS
      <4>2. [watch EXCEPT !.missing = z] \in WatchType
        BY <1>2, WatchUpdates DEF EditTypeOK
      <4>3. [[watch EXCEPT !.missing = z] EXCEPT !.pending = x] \in WatchType
        BY <4>2, WatchUpdates
      <4>4. watch' = [[watch EXCEPT !.missing = z] EXCEPT !.pending = x]
        BY <3>3, <4>1
      <4>5. watch' \in WatchType
        BY <4>3, <4>4
      <4> QED BY <1>1, <1>2, <3>3, <4>5 DEF EditTypeOK
    <3>4. CASE /\ opened' = opened
               /\ watch' = [watch EXCEPT !.missing = 0, !.at = "sending", !.now = opened]
      <4>1. PICK z \in Nat : z = 0
        OBVIOUS
      <4>2. [watch EXCEPT !.missing = z] \in WatchType
        BY <1>2, WatchUpdates DEF EditTypeOK
      <4>3. [[watch EXCEPT !.missing = z] EXCEPT !.at = "sending"] \in WatchType
        BY <4>2, WatchUpdates
      <4>4. [[[watch EXCEPT !.missing = z] EXCEPT !.at = "sending"] EXCEPT !.now = opened]
                \in WatchType
        BY <1>2, <4>3, WatchUpdates DEF EditTypeOK
      <4>5. watch' = [[[watch EXCEPT !.missing = z] EXCEPT !.at = "sending"] EXCEPT !.now = opened]
        BY <3>4, <4>1
      <4>6. watch' \in WatchType
        BY <4>4, <4>5
      <4> QED BY <1>1, <1>2, <3>4, <4>6 DEF EditTypeOK
    <3>5. opened \in Int /\ Missing \in Int
      BY <1>2 DEF EditTypeOK
    <3>6. ASSUME opened' = opened, watch' = [watch EXCEPT !.missing = 0, !.pending = Missing]
          PROVE  EditTypeOK'
      BY <3>3, <3>5, <3>6
    <3>7. ASSUME opened' = opened, watch' = [watch EXCEPT !.missing = 0, !.pending = opened]
          PROVE  EditTypeOK'
      BY <3>3, <3>5, <3>7
    <3> QED BY <2>4, <3>1, <3>2, <3>4, <3>6, <3>7 DEF Tick
  <2> QED BY <2>1, <2>2, <2>3, <2>4
<1>4. SUFFICES ASSUME others = 0 PROVE Edited'
  BY <1>1, <1>3 DEF EditInv
<1>5. Edited
  BY <1>4 DEF EditInv
<1>6. CASE open_remote
  <2>1. watch' = [watch EXCEPT !.at = "fetching"] /\ watch.at = "none" /\ opened' = opened
    BY <1>6 DEF open_remote
  <2>2. watch'.at = "fetching"
    BY <1>2, <2>1 DEF EditTypeOK, WatchType
  <2> QED BY <1>1, <1>5, <2>1, <2>2 DEF Edited
<1>7. CASE Fetched
  <2>1. /\ watch'.at = "watching" /\ watch'.last = server /\ opened' = server
        /\ watch.at = "fetching"
    BY <1>7 DEF Fetched, NoWatch
  <2>2. server = Original
    BY <1>5, <2>1 DEF Edited
  <2>3. saves \in Nat
    BY <1>2 DEF EditTypeOK, WatchType
  <2> QED BY <1>1, <1>2, <2>1, <2>2, <2>3 DEF Edited
<1>8. CASE FetchFails
  <2>1. watch'.at = "left" /\ opened' = opened
    BY <1>8 DEF FetchFails, NoWatch
  <2> QED BY <1>1, <1>5, <2>1 DEF Edited
<1>9. CASE Tick
  <2>1. watch.at = "watching"
    BY <1>9 DEF Tick
  <2>2. CASE WatchEnds
    <3>1. watch'.at = "ended" /\ opened' = 0 /\ saves \in Nat
      BY <1>2, <2>2 DEF WatchEnds, NoWatch, EditTypeOK, WatchType
    <3> QED BY <1>1, <1>2, <3>1 DEF Edited
  <2>3. CASE /\ opened' = opened
             /\ watch' \in {[watch EXCEPT !.missing = @ + 1],
                           [watch EXCEPT !.missing = 0, !.pending = Missing],
                           [watch EXCEPT !.missing = 0, !.pending = opened]}
    <3>1. watch'.at = "watching" /\ watch'.last = watch.last /\ watch'.failed = watch.failed
      BY <1>2, <2>1, <2>3 DEF EditTypeOK, WatchType
    <3> QED BY <1>1, <1>5, <2>1, <2>3, <3>1 DEF Edited, Past
  <2>4. CASE /\ opened' = opened /\ opened # Missing
             /\ watch' = [watch EXCEPT !.missing = 0, !.at = "sending", !.now = opened]
    <3>1. watch'.at = "sending" /\ watch'.now = opened
      BY <1>2, <2>1, <2>4 DEF EditTypeOK, WatchType
    <3> QED BY <1>1, <1>5, <2>4, <3>1 DEF Edited
  <2> QED BY <1>9, <2>2, <2>3, <2>4 DEF Tick
<1> QED BY <1>6, <1>7, <1>8, <1>9

LEMMA SendKeeps ==
  ASSUME EditInv, SendStep PROVE EditInv'
<1>1. saves' = saves /\ opened' = opened /\ others' = others
  BY DEF SendStep, SendBegins, SendRefused, SendEnds, SendBreaks
<1>2. EditTypeOK /\ Original = 1
  BY DEF EditInv, Original
<1> USE DEF Missing
<1>3. Torn \in Int /\ watch \in WatchType
  BY <1>2, FilesAssumption DEF FilesAssumption, Torn, Foreign, EditTypeOK
<1>4. EditTypeOK' /\ (~SendBegins => watch'.at = "watching" /\ watch'.last = watch.now)
  <2>1. CASE SendBegins
    <3>1. watch' = [[watch EXCEPT !.at = "copying"] EXCEPT !.read = opened] /\ opened \in Int
          /\ server' = Torn
      BY <1>2, <2>1 DEF SendBegins, EditTypeOK
    <3>2. [watch EXCEPT !.at = "copying"] \in WatchType
      BY <1>3, WatchUpdates
    <3>3. watch' \in WatchType
      BY <3>1, <3>2, WatchUpdates
    <3> QED BY <1>1, <1>2, <1>3, <2>1, <3>1, <3>3 DEF EditTypeOK
  <2>2. CASE ~SendBegins
    <3>1. WatchesAgain \in WatchType /\ WatchesAgain.at = "watching"
          /\ WatchesAgain.last = watch.now
      BY <1>3, WatchingAgain
    <3>2. watch' = WatchesAgain \/ watch' = [WatchesAgain EXCEPT !.failed = TRUE]
      BY <2>2 DEF SendStep, SendRefused, SendEnds, SendBreaks
    <3>3. /\ watch' \in WatchType
          /\ watch'.at = "watching" /\ watch'.last = watch.now
      <4> HIDE DEF WatchesAgain
      <4>1. CASE watch' = WatchesAgain
        BY <3>1, <4>1
      <4>2. CASE watch' = [WatchesAgain EXCEPT !.failed = TRUE]
        <5>1. [WatchesAgain EXCEPT !.failed = TRUE] \in WatchType
          BY <3>1, WatchUpdates
        <5>2. watch'.at = WatchesAgain.at /\ watch'.last = WatchesAgain.last
          BY <3>1, <4>2 DEF WatchType
        <5> QED BY <3>1, <4>2, <5>1, <5>2
      <4> QED BY <3>2, <4>1, <4>2
    <3>4. server' \in Int
      <4>1. watch.read \in Int /\ opened \in Int /\ server \in Int
        BY <1>2, WatchFields DEF EditTypeOK
      <4> QED BY <1>3, <2>2, <4>1 DEF SendStep, SendRefused, SendEnds, SendBreaks
    <3> QED BY <1>1, <1>2, <3>3, <3>4 DEF EditTypeOK
  <2> QED BY <2>1, <2>2
<1>5. SUFFICES ASSUME others = 0 PROVE Edited'
  BY <1>1, <1>4 DEF EditInv
<1>6. Edited
  BY <1>5 DEF EditInv
<1>7. CASE SendBegins
  <2>1. /\ watch' = [watch EXCEPT !.at = "copying", !.read = opened] /\ watch.at = "sending"
        /\ opened # Missing
    BY <1>7 DEF SendBegins
  <2>2. watch'.at = "copying" /\ watch'.read = opened /\ watch'.now = watch.now
    BY <1>2, <2>1 DEF EditTypeOK, WatchType
  <2> QED BY <1>1, <1>6, <2>1, <2>2 DEF Edited, Past
<1>8. CASE ~SendBegins /\ watch'.failed
  BY <1>1, <1>4, <1>6, <1>8 DEF Edited
<1>9. CASE /\ watch.at = "copying" /\ ~SendBegins
           /\ server' \in {watch.read, opened} \ {Missing}
  <2>1. watch'.at = "watching" /\ watch'.last = watch.now
    BY <1>4, <1>9
  <2>2. /\ watch.now # Missing
        /\ (opened = watch.now /\ watch.read = opened) \/ Past(watch.now)
    BY <1>6, <1>9 DEF Edited
  <2>3. (opened' = watch'.last /\ server' = opened') \/ Past(watch.last)'
    BY <1>1, <1>9, <2>1, <2>2 DEF Past
  <2> QED BY <1>1, <1>6, <2>1, <2>2, <2>3 DEF Edited
<1>10. ASSUME watch' = [WatchesAgain EXCEPT !.failed = TRUE] PROVE watch'.failed
  <2>1. WatchesAgain \in WatchType
    BY <1>3, WatchingAgain
  <2> QED BY <1>10, <2>1 DEF WatchType
<1>11. CASE SendRefused
  BY <1>7, <1>8, <1>10, <1>11 DEF SendRefused
<1>12. CASE SendEnds
  BY <1>8, <1>9, <1>10, <1>12 DEF SendEnds, SendBegins
<1>13. CASE SendBreaks
  BY <1>8, <1>10, <1>13 DEF SendBreaks, SendBegins
<1> QED BY <1>7, <1>11, <1>12, <1>13 DEF SendStep

LEMMA OtherWritesKeeps ==
  ASSUME EditInv, OtherWrites PROVE EditInv'
<1>1. /\ others' = others + 1 /\ server' = Foreign /\ saves' = saves /\ opened' = opened
      /\ watch' = watch
  BY DEF OtherWrites
<1>2. Foreign \in Int
  BY FilesAssumption DEF FilesAssumption, Foreign, Original
<1> QED BY <1>1, <1>2 DEF EditInv, EditTypeOK, WatchType

LEMMA EditStepKeeps ==
  ASSUME EditInv, [FilesNext]_fvars PROVE EditInv'
<1>1. CASE EditStep
  BY <1>1, EditorKeeps, WatcherKeeps, SendKeeps, OtherWritesKeeps DEF EditStep
<1>2. CASE PanelStep \/ StreamStep \/ CompareStep \/ ListStep \/ UNCHANGED fvars
  <2>1. EditingStays
    BY <1>2, PanelLeaves, StreamLeaves, CompareLeaves, ListLeaves, NothingLeaves
  <2> QED BY <2>1, EditingStaysKeeps
<1> QED BY <1>1, <1>2, FilesSteps

(* What the copy holds when the watcher has nothing to send is on the       *)
(* server, for any number of saves, whenever in an upload they are made,    *)
(* if no upload failed and nobody else wrote there (edit.rs, watch).        *)
THEOREM SavedStaysThere ==
  FilesSpec => []SavedIsThere
<1>1. EditInv => SavedIsThere
  BY DEF EditInv, Edited, Past, SavedIsThere
<1> QED BY <1>1, EditStarts, EditStepKeeps, PTL DEF FilesSpec

-----------------------------------------------------------------------------
(* Files: a stream and what it reports *)

Whole(k) == {<<n, TRUE>> : n \in 1 .. k}

StreamType ==
    [at : {"idle", "moving", "ending", "hashing", "comparing", "over"}, kind : Kinds,
     flag : BOOLEAN, cut : BOOLEAN, sent : 0 .. Entries, got : 0 .. Entries,
     sound : BOOLEAN, src : {"running", "ok", "bad", "silent"},
     dst : {"running", "ok", "bad", "silent"}, more : BOOLEAN,
     hashes : SUBSET Whole(Entries), count : Nat,
     end : {"none", "done", "failed", "cancelled", "verified"}]

\* A sound stream whose packer did not complain holds every entry, and an
\* unpacker that found it sound has unpacked what was sent.
Streamed ==
    /\ arc.got <= arc.sent
    /\ arc.sound => arc.src = "bad" \/ (arc.src = "ok" /\ arc.sent = Entries)
    /\ arc.at \in {"moving", "ending"} /\ arc.dst = "ok" =>
          arc.at = "ending" /\ arc.got = arc.sent /\ arc.sound
    /\ arc.at # "over" => arc.end = "none"
    /\ arc.at \in {"hashing", "comparing"} =>
          arc.dst # "running" /\ (arc.got = Entries \/ arc.dst = "silent")
    /\ arc.at = "over" => arc.dst # "running"

StreamInv == arc \in StreamType /\ Streamed /\ DoneIsUnpacked /\ VerifiedHaveArrived

LEMMA StreamStarts ==
  ASSUME arc = NoStream PROVE StreamInv
<1>1. arc \in StreamType
  BY FilesAssumption DEF FilesAssumption, NoStream, StreamType, Kinds
<1>2. Streamed /\ DoneIsUnpacked /\ VerifiedHaveArrived
  BY DEF NoStream, Streamed, DoneIsUnpacked, VerifiedHaveArrived
<1> QED BY <1>1, <1>2 DEF StreamInv

LEMMA PackingKeeps ==
  ASSUME StreamInv, CancelPressed \/ Passed \/ Unpacked \/ PackingEnds \/ PackingCut
  PROVE  StreamInv'
<1>1. CASE CancelPressed
  BY <1>1 DEF CancelPressed, OverTable, StreamInv, StreamType, Streamed, DoneIsUnpacked,
     VerifiedHaveArrived
<1>2. CASE Passed
  <2>1. CASE arc.flag
    <3>1. arc' = [arc EXCEPT !.at = "ending", !.cut = TRUE]
          /\ arc.at = "moving" /\ arc.src = "running"
      BY <1>2, <2>1 DEF Passed, OverTable
    <3>2. arc' \in StreamType
      BY <3>1 DEF StreamInv, StreamType
    <3>3. /\ arc'.at = "ending" /\ arc'.end = arc.end /\ arc'.got = arc.got
          /\ arc'.sent = arc.sent /\ arc'.dst = arc.dst /\ arc'.src = arc.src
          /\ arc'.sound = arc.sound
      BY <3>1 DEF StreamInv, StreamType
    <3>4. Streamed' /\ DoneIsUnpacked' /\ VerifiedHaveArrived'
      BY <3>1, <3>3 DEF StreamInv, Streamed, DoneIsUnpacked, VerifiedHaveArrived
    <3> QED BY <3>2, <3>4 DEF StreamInv
  <2>2. CASE ~arc.flag
    <3>1. PICK n \in 0 .. Entries : n = arc.sent + 1
      BY <1>2, FilesAssumption DEF FilesAssumption, Passed, StreamInv, StreamType
    <3>2. arc' = [arc EXCEPT !.sent = n]
      BY <1>2, <2>2, <3>1 DEF Passed, OverTable
    <3>3. arc' \in StreamType
      BY <3>2 DEF StreamInv, StreamType
    <3>4. Streamed' /\ DoneIsUnpacked' /\ VerifiedHaveArrived'
      BY <1>2, <3>1, <3>2, FilesAssumption DEF FilesAssumption, Passed, StreamInv, StreamType,
         Streamed, DoneIsUnpacked, VerifiedHaveArrived
    <3> QED BY <3>3, <3>4 DEF StreamInv
  <2> QED BY <2>1, <2>2
<1>3. CASE Unpacked
  BY <1>3, FilesAssumption DEF FilesAssumption, Unpacked, OverTable, StreamInv, StreamType,
     Streamed, DoneIsUnpacked, VerifiedHaveArrived
<1>4. CASE PackingEnds
  BY <1>4 DEF PackingEnds, OverTable, StreamInv, StreamType, Streamed, DoneIsUnpacked,
     VerifiedHaveArrived
<1>5. CASE PackingCut
  BY <1>5 DEF PackingCut, OverTable, StreamInv, StreamType, Streamed, DoneIsUnpacked,
     VerifiedHaveArrived
<1> QED BY <1>1, <1>2, <1>3, <1>4, <1>5

LEMMA StreamBeginKeeps ==
  ASSUME StreamInv, StreamBegins \/ NextStream PROVE StreamInv'
<1>1. CASE StreamBegins
  <2>1. PICK kind \in Kinds, more \in BOOLEAN :
            arc' = [at |-> "moving", kind |-> kind, flag |-> FALSE, cut |-> FALSE,
                    sent |-> 0, got |-> 0, sound |-> FALSE, src |-> "running", dst |-> "running",
                    more |-> more, hashes |-> {}, count |-> 0, end |-> "none"]
    <3>1. PICK kind \in Kinds, more \in BOOLEAN :
              arc' = [NoStream EXCEPT !.at = "moving", !.kind = kind, !.more = more,
                                      !.src = "running", !.dst = "running"]
      BY <1>1 DEF StreamBegins, OverTable
    <3>2. arc' = [at |-> "moving", kind |-> kind, flag |-> FALSE, cut |-> FALSE,
                  sent |-> 0, got |-> 0, sound |-> FALSE, src |-> "running", dst |-> "running",
                  more |-> more, hashes |-> {}, count |-> 0, end |-> "none"]
      BY <3>1 DEF NoStream
    <3> QED BY <3>2
  <2>2. arc' \in StreamType
    BY <2>1, FilesAssumption DEF FilesAssumption, StreamType
  <2>3. Streamed' /\ DoneIsUnpacked' /\ VerifiedHaveArrived'
    BY <2>1 DEF Streamed, DoneIsUnpacked, VerifiedHaveArrived
  <2> QED BY <2>2, <2>3 DEF StreamInv
<1>2. CASE NextStream
  <2>1. arc' = NoStream
    BY <1>2 DEF NextStream, OverTable
  <2>2. arc' \in StreamType
    BY <2>1, FilesAssumption DEF FilesAssumption, NoStream, StreamType, Kinds
  <2>3. Streamed' /\ DoneIsUnpacked' /\ VerifiedHaveArrived'
    BY <2>1 DEF NoStream, Streamed, DoneIsUnpacked, VerifiedHaveArrived
  <2> QED BY <2>2, <2>3 DEF StreamInv
<1> QED BY <1>1, <1>2

LEMMA UnpackingKeeps ==
  ASSUME StreamInv,
         \/ UnpackingFails \/ UnpackingCut \/ StreamCloses \/ SendingFails \/ UnpackingEnds
         \/ Reported
  PROVE  StreamInv'
<1>1. CASE UnpackingFails
  BY <1>1 DEF UnpackingFails, OverTable, StreamInv, StreamType, Streamed, DoneIsUnpacked,
     VerifiedHaveArrived
<1>2. CASE UnpackingCut
  BY <1>2 DEF UnpackingCut, OverTable, StreamInv, StreamType, Streamed, DoneIsUnpacked,
     VerifiedHaveArrived
<1>3. CASE StreamCloses
  BY <1>3 DEF StreamCloses, OverTable, StreamInv, StreamType, Streamed, DoneIsUnpacked,
     VerifiedHaveArrived
<1>4. CASE SendingFails
  BY <1>4 DEF SendingFails, OverTable, StreamInv, StreamType, Streamed, DoneIsUnpacked,
     VerifiedHaveArrived
<1>5. CASE UnpackingEnds
  BY <1>5 DEF UnpackingEnds, OverTable, StreamInv, StreamType, Streamed, DoneIsUnpacked,
     VerifiedHaveArrived
<1>6. CASE Reported
  <2>1. PICK at \in {"over", "hashing"}, how \in {"none", "done", "failed", "cancelled"} :
            /\ arc' = [arc EXCEPT !.at = at, !.end = how]
            /\ at = "hashing" <=> how = "none"
            /\ how \in {"none", "done"} => ~arc.cut /\ ~StreamFailed(arc)
    <3>1. CASE OverTable([arc EXCEPT !.at = "hashing"]) /\ ~arc.cut /\ ~StreamFailed(arc)
      <4>1. arc.end = "none" /\ arc \in StreamType
        BY <1>6 DEF Reported, StreamInv, Streamed
      <4>2. [arc EXCEPT !.at = "hashing"] = [arc EXCEPT !.at = "hashing", !.end = "none"]
        BY <4>1 DEF StreamType
      <4> QED BY <3>1, <4>2 DEF OverTable
    <3>2. CASE /\ OverTable([arc EXCEPT !.at = "over", !.end = "done"])
               /\ ~arc.cut /\ ~StreamFailed(arc)
      BY <3>2 DEF OverTable
    <3>3. CASE \/ OverTable([arc EXCEPT !.at = "over", !.end = "failed"])
               \/ OverTable([arc EXCEPT !.at = "over", !.end = "cancelled"])
      BY <3>3 DEF OverTable
    <3> QED BY <1>6, <3>1, <3>2, <3>3 DEF Reported
  <2>2. arc' \in StreamType
    BY <2>1 DEF StreamInv, StreamType
  <2>3. /\ arc'.at = at /\ arc'.end = how /\ arc'.got = arc.got /\ arc'.sent = arc.sent
        /\ arc'.dst = arc.dst /\ arc'.src = arc.src /\ arc'.sound = arc.sound
    BY <2>1 DEF StreamInv, StreamType
  <2>4. arc.at = "ending" /\ arc.dst # "running" /\ Streamed
    BY <1>6 DEF Reported, StreamInv
  <2>5. how \in {"none", "done"} => arc.got = Entries \/ arc.dst = "silent"
    BY <2>1, <2>4 DEF Streamed, StreamFailed, StreamInv, StreamType
  <2>6. Streamed'
    BY <2>1, <2>3, <2>4, <2>5 DEF Streamed
  <2>7. DoneIsUnpacked' /\ VerifiedHaveArrived'
    BY <2>1, <2>3, <2>5 DEF DoneIsUnpacked, VerifiedHaveArrived
  <2> QED BY <2>2, <2>6, <2>7 DEF StreamInv
<1> QED BY <1>1, <1>2, <1>3, <1>4, <1>5, <1>6

\* Names said to be whole by the source, and among what has landed.
LEMMA LandedWhole ==
  ASSUME NEW files, NEW k \in Nat, files \subseteq Whole(k)
  PROVE  IsFiniteSet(files) /\ Cardinality(files) <= k
<1> DEFINE f == [e \in files |-> CHOOSE n \in 1 .. k : e = <<n, TRUE>>]
<1>1. \A e \in files : f[e] \in 1 .. k /\ e = <<f[e], TRUE>>
  BY DEF Whole
<1>2. f \in Injection(files, 1 .. k)
  <2>1. f \in [files -> 1 .. k]
    BY <1>1
  <2>2. \A a, b \in files : f[a] = f[b] => a = b
    <3> HIDE DEF f
    <3> QED BY <1>1
  <2> QED BY <2>1, <2>2 DEF Injection, IsInjective
<1>3. IsFiniteSet(1 .. k) /\ Cardinality(1 .. k) = k
  BY FS_Interval
<1> QED BY <1>2, <1>3, FS_Injection

LEMMA HashingKeeps ==
  ASSUME StreamInv, HashSource \/ HashLanded PROVE StreamInv'
<1>1. CASE HashSource
  <2>1. CASE Unverified
    BY <1>1, <2>1 DEF HashSource, Unverified, OverTable, StreamInv, StreamType, Streamed,
       DoneIsUnpacked, VerifiedHaveArrived
  <2>2. CASE \E hashes \in SourceDigests(arc) :
               OverTable([arc EXCEPT !.at = "comparing", !.hashes = hashes])
    <3>1. PICK hashes \in SourceDigests(arc) :
               arc' = [arc EXCEPT !.at = "comparing", !.hashes = hashes]
      BY <2>2 DEF OverTable
    <3>2. hashes \subseteq Whole(Entries)
      <4>1. SourceDigests(arc) \subseteq SUBSET Whole(Entries)
        BY DEF SourceDigests, Digests, Whole
      <4> QED BY <3>1, <4>1
    <3> QED BY <1>1, <3>1, <3>2 DEF HashSource, OverTable, StreamInv, StreamType, Streamed,
               DoneIsUnpacked, VerifiedHaveArrived
  <2> QED BY <1>1, <2>1, <2>2 DEF HashSource
<1>2. CASE HashLanded
  <2>1. CASE Unverified
    BY <1>2, <2>1 DEF HashLanded, Unverified, OverTable, StreamInv, StreamType, Streamed,
       DoneIsUnpacked, VerifiedHaveArrived
  <2>2. CASE \E arrived \in LandedDigests(arc) :
                /\ compare(arc.hashes, arrived)
                /\ OverTable([arc EXCEPT !.at = "over", !.end = "verified",
                                         !.count = Cardinality(arc.hashes)])
    <3>1. PICK arrived \in LandedDigests(arc) :
                /\ compare(arc.hashes, arrived)
                /\ arc' = [arc EXCEPT !.at = "over", !.end = "verified",
                                         !.count = Cardinality(arc.hashes)]
      BY <2>2 DEF OverTable
    <3>2. arc.hashes \subseteq Whole(Entries) /\ arc.got \in Nat /\ arc.got <= Entries
      BY FilesAssumption DEF FilesAssumption, StreamInv, StreamType
    <3>3. arc.hashes \subseteq Whole(arc.got)
      <4>1. arc.hashes \subseteq arrived
        BY <3>1 DEF compare
      <4> DEFINE piece == IF arc.got < arc.sent THEN {<<arc.got + 1, FALSE>>} ELSE {}
                 rest == IF arc.more THEN {<<Entries + 1, TRUE>>} ELSE {}
      <4>2. LandedDigests(arc) \subseteq SUBSET (Whole(arc.got) \union piece \union rest)
        BY DEF LandedDigests, Digests, Whole
      <4>3. arrived \subseteq Whole(arc.got) \union piece \union rest
        BY <3>1, <4>2
      <4>4. \A e \in Whole(Entries) : e \notin piece
        <5>1. \A n : <<n, TRUE>> # <<arc.got + 1, FALSE>>
          OBVIOUS
        <5> QED BY <5>1 DEF Whole
      <4>5. \A e \in Whole(Entries) : e \notin rest
        <5>1. \A n \in 1 .. Entries : <<n, TRUE>> # <<Entries + 1, TRUE>>
          BY FilesAssumption DEF FilesAssumption
        <5> QED BY <5>1 DEF Whole
      <4> HIDE DEF piece, rest
      <4> QED BY <3>2, <4>1, <4>3, <4>4, <4>5
    <3>4. Cardinality(arc.hashes) <= arc.got
      BY <3>2, <3>3, LandedWhole
    <3>5. Cardinality(arc.hashes) \in Nat
      BY <3>2, <3>3, LandedWhole, FS_CardinalityType
    <3>6. PICK c \in Nat : c = Cardinality(arc.hashes)
      BY <3>5
    <3>7. c <= arc.got /\ arc' = [arc EXCEPT !.at = "over", !.end = "verified", !.count = c]
      BY <3>1, <3>4, <3>6
    <3> QED BY <1>2, <3>7 DEF HashLanded, OverTable, StreamInv, StreamType, Streamed,
               DoneIsUnpacked, VerifiedHaveArrived
  <2> QED BY <1>2, <2>1, <2>2 DEF HashLanded
<1> QED BY <1>1, <1>2

LEMMA StreamStepKeeps ==
  ASSUME StreamInv, [FilesNext]_fvars PROVE StreamInv'
<1>1. CASE StreamStep
  BY <1>1, PackingKeeps, StreamBeginKeeps, UnpackingKeeps, HashingKeeps DEF StreamStep
<1>2. CASE PanelStep \/ EditStep \/ CompareStep \/ ListStep \/ UNCHANGED fvars
  <2>1. arc' = arc
    BY <1>2, PanelLeaves, EditLeaves, CompareLeaves, ListLeaves, NothingLeaves
  <2> QED BY <2>1 DEF StreamInv, Streamed, DoneIsUnpacked, VerifiedHaveArrived
<1> QED BY <1>1, <1>2, FilesSteps

-----------------------------------------------------------------------------
(* Files: two trees that are compared *)

Partial == UNION {[D -> Int] : D \in SUBSET TreeNames}

CompareType ==
    [at : {"idle", "left", "right", "sized", "hashing left", "hashing right", "over", "failed"},
     far : SUBSET Sides, sizes : [Sides -> Partial], candidates : SUBSET TreeNames,
     digests : [Sides -> Partial], flag : BOOLEAN, cancelled : BOOLEAN,
     same : SUBSET TreeNames, differing : SUBSET TreeNames, met : SUBSET TreeNames,
     cut : BOOLEAN]

CompareTypeOK == cmp \in CompareType /\ trees \in [Sides -> [TreeNames -> TreeContents]]

Paired(n) == trees["left"][n] # Absent /\ trees["right"][n] # Absent

\* The walk of a side found what is there.
Seen(side, n) ==
    /\ n \in DOMAIN cmp.sizes[side] <=> trees[side][n] # Absent
    /\ n \in DOMAIN cmp.sizes[side] => cmp.sizes[side][n] = Size(trees[side][n])

\* What was found out of a name that nobody has changed since is still so.
Found(n) ==
    /\ cmp.at \in {"right", "sized"} => Seen("left", n)
    /\ cmp.at = "sized" => Seen("right", n)
    /\ cmp.at \in {"hashing left", "hashing right"} =>
          /\ Paired(n) <=> n \in cmp.candidates \union cmp.differing
          /\ n \in cmp.differing => trees["left"][n] # trees["right"][n]
          /\ \A side \in Sides : n \in DOMAIN cmp.digests[side] =>
                \/ cmp.digests[side][n] = trees[side][n]
                \/ cmp.digests[side][n] = Absent /\ cmp.cut

\* What is said at the end of a name.
Told(n) ==
    LET alike == Paired(n) /\ trees["left"][n] = trees["right"][n]
    IN /\ Paired(n) <=> n \in cmp.same \union cmp.differing
       /\ n \in cmp.same => alike
       /\ alike => n \in cmp.same \/ cmp.cut

\* Of a side nothing is hashed before its turn, and all before the other's.
InTurn ==
    /\ \A side \in Sides : DOMAIN cmp.digests[side] \subseteq cmp.candidates
    /\ cmp.at \in {"left", "right", "sized"} =>
          /\ \A side \in Sides : DOMAIN cmp.digests[side] = {}
          /\ cmp.same = {}
    /\ cmp.at = "hashing right" => Due("left") = {}

Compared ==
    /\ InTurn
    /\ \A n \in TreeNames \ cmp.met :
          Found(n) /\ (cmp.at = "over" /\ ~cmp.cancelled => Told(n))

CompareInv == CompareTypeOK /\ Compared

LEMMA PartialFunctions ==
  /\ <<>> \in Partial
  /\ \A f \in Partial, n \in TreeNames, v \in Int : WithDigest(f, n, v) \in Partial
<1>1. <<>> \in [{} -> Int]
  OBVIOUS
<1>2. ASSUME NEW f \in Partial, NEW n \in TreeNames, NEW v \in Int
      PROVE  WithDigest(f, n, v) \in Partial
  <2>1. PICK D \in SUBSET TreeNames : f \in [D -> Int]
    BY DEF Partial
  <2>2. WithDigest(f, n, v) \in [D \union {n} -> Int]
    BY <2>1 DEF WithDigest
  <2>3. D \union {n} \in SUBSET TreeNames
    OBVIOUS
  <2> QED BY <2>2, <2>3 DEF Partial
<1> QED BY <1>1, <1>2 DEF Partial

LEMMA NoDigests ==
  /\ NoCompare \in CompareType
  /\ NoCompare.sizes = [side \in Sides |-> <<>>]
  /\ NoCompare.digests = [side \in Sides |-> <<>>]
  /\ NoCompare.digests \in [Sides -> Partial] /\ NoCompare.sizes \in [Sides -> Partial]
  /\ \A side \in Sides : DOMAIN NoCompare.digests[side] = {}
  /\ NoCompare.same = {} /\ NoCompare.candidates = {} /\ NoCompare.met = {}
  /\ NoCompare.at = "idle"
<1>1. [side \in Sides |-> <<>>] \in [Sides -> Partial]
  BY PartialFunctions
<1>2. DOMAIN <<>> = {}
  OBVIOUS
<1>3. NoCompare \in CompareType
  BY <1>1 DEF NoCompare, CompareType
<1> QED BY <1>1, <1>2, <1>3 DEF NoCompare

LEMMA CompareStarts ==
  ASSUME FilesInit PROVE CompareInv
<1>1. cmp = NoCompare /\ trees \in [Sides -> [TreeNames -> TreeContents]]
  BY DEF FilesInit
<1>2. CompareTypeOK
  BY <1>1, NoDigests DEF CompareTypeOK
<1>3. InTurn
  BY <1>1, NoDigests DEF InTurn, Due
<1> QED BY <1>1, <1>2, <1>3, NoDigests DEF CompareInv, Compared, Found

LEMMA CompareBegins ==
  ASSUME CompareInv, compare_trees \/ CompareClosed PROVE CompareInv'
<1>0. trees' = trees /\ trees \in [Sides -> [TreeNames -> TreeContents]]
  BY DEF compare_trees, CompareClosed, Compares, CompareInv, CompareTypeOK
<1>1. CASE compare_trees
  <2>1. PICK far \in SUBSET Sides : cmp' = [NoCompare EXCEPT !.at = "left", !.far = far]
    BY <1>1 DEF compare_trees, Compares
  <2>2. cmp' \in CompareType
    BY <2>1, NoDigests DEF CompareType
  <2>3. /\ cmp'.at = "left" /\ cmp'.digests = NoCompare.digests /\ cmp'.same = NoCompare.same
        /\ cmp'.candidates = NoCompare.candidates
    BY <2>1, NoDigests DEF CompareType
  <2>4. InTurn'
    BY <2>3, NoDigests DEF InTurn
  <2> QED BY <1>0, <2>2, <2>3, <2>4 DEF CompareInv, CompareTypeOK, Compared, Found
<1>2. CASE CompareClosed
  <2>1. cmp' = NoCompare
    BY <1>2 DEF CompareClosed, Compares
  <2>2. CompareTypeOK'
    BY <1>0, <2>1, NoDigests DEF CompareTypeOK
  <2>3. InTurn'
    BY <2>1, NoDigests DEF InTurn, Due
  <2> QED BY <2>1, <2>2, <2>3, NoDigests DEF CompareInv, Compared, Found
<1> QED BY <1>1, <1>2

LEMMA CompareCancelledKeeps ==
  ASSUME CompareInv, CompareCancelled PROVE CompareInv'
<1>1. cmp' = [cmp EXCEPT !.flag = TRUE] /\ trees' = trees /\ cmp.at # "over"
  BY DEF CompareCancelled, Compares
<1>2. CompareTypeOK'
  BY <1>1 DEF CompareInv, CompareTypeOK, CompareType
<1>3. /\ cmp'.at = cmp.at /\ cmp'.far = cmp.far /\ cmp'.sizes = cmp.sizes
      /\ cmp'.candidates = cmp.candidates /\ cmp'.digests = cmp.digests
      /\ cmp'.cancelled = cmp.cancelled /\ cmp'.same = cmp.same
      /\ cmp'.differing = cmp.differing /\ cmp'.met = cmp.met /\ cmp'.cut = cmp.cut
  BY <1>1 DEF CompareInv, CompareTypeOK, CompareType
<1>4. InTurn'
  BY <1>3 DEF CompareInv, Compared, InTurn, Due
<1>5. ASSUME NEW n \in TreeNames \ cmp'.met PROVE Found(n)'
  <2>1. Found(n)
    BY <1>3 DEF CompareInv, Compared
  <2> QED BY <1>1, <1>3, <2>1 DEF Found, Seen, Paired
<1> QED BY <1>1, <1>2, <1>3, <1>4, <1>5 DEF CompareInv, Compared

LEMMA WalkedKeeps ==
  ASSUME CompareInv, Walked("left", "right") \/ Walked("right", "sized") PROVE CompareInv'
<1>1. PICK side \in Sides, next \in {"right", "sized"} :
          Walked(side, next) /\ (side = "left" <=> next = "right")
  BY DEF Sides
<1> DEFINE on == {m \in TreeNames : trees[side][m] # Absent}
           walk == [n \in on |-> Size(trees[side][n])]
<1>2. /\ cmp.at = side /\ trees' = trees /\ cmp' = [cmp EXCEPT !.sizes[side] = walk, !.at = next]
  BY <1>1 DEF Walked, Compares
<1>3. walk \in Partial /\ DOMAIN walk = on
  <2>1. on \in SUBSET TreeNames
    OBVIOUS
  <2>2. walk \in [on -> Int]
    BY DEF Size
  <2> QED BY <2>1, <2>2 DEF Partial
<1>4. \A n \in on : walk[n] = Size(trees[side][n])
  OBVIOUS
<1> HIDE DEF walk
<1>5. [cmp.sizes EXCEPT ![side] = walk] \in [Sides -> Partial]
  BY <1>3 DEF CompareInv, CompareTypeOK, CompareType
<1>6. CompareTypeOK'
  BY <1>1, <1>2, <1>5 DEF CompareInv, CompareTypeOK, CompareType
<1>7. /\ cmp'.far = cmp.far /\ cmp'.candidates = cmp.candidates /\ cmp'.digests = cmp.digests
      /\ cmp'.flag = cmp.flag /\ cmp'.cancelled = cmp.cancelled /\ cmp'.same = cmp.same
      /\ cmp'.differing = cmp.differing /\ cmp'.met = cmp.met /\ cmp'.cut = cmp.cut
      /\ cmp'.at = next /\ cmp'.sizes = [cmp.sizes EXCEPT ![side] = walk]
  BY <1>1, <1>2 DEF CompareInv, CompareTypeOK, CompareType
<1>8. cmp'.sizes[side] = walk /\ \A s \in Sides : s # side => cmp'.sizes[s] = cmp.sizes[s]
  BY <1>5, <1>7 DEF CompareInv, CompareTypeOK, CompareType
<1>9. InTurn'
  BY <1>1, <1>2, <1>7 DEF CompareInv, Compared, InTurn, Sides
<1>10. ASSUME NEW n \in TreeNames \ cmp'.met PROVE Found(n)'
  <2>1. Seen(side, n)'
    BY <1>2, <1>3, <1>4, <1>8 DEF Seen
  <2>2. ASSUME next = "sized" PROVE Seen("left", n)'
    <3>1. side = "right" /\ "left" \in Sides /\ Seen("left", n)
      BY <1>1, <1>2, <1>7, <2>2 DEF CompareInv, Compared, Found, Sides
    <3>2. cmp'.sizes["left"] = cmp.sizes["left"]
      BY <1>8, <3>1
    <3> QED BY <1>2, <3>1, <3>2 DEF Seen
  <2> QED BY <1>1, <1>7, <2>1, <2>2 DEF Found, Sides
<1> QED BY <1>1, <1>6, <1>7, <1>9, <1>10 DEF CompareInv, Compared

LEMMA SizedKeeps ==
  ASSUME CompareInv, Sized PROVE CompareInv'
<1> DEFINE both == DOMAIN cmp.sizes["left"] \intersect DOMAIN cmp.sizes["right"]
           unequal == {n \in both : cmp.sizes["left"][n] # cmp.sizes["right"][n]}
           rest == both \ unequal
           base == [cmp EXCEPT !.differing = unequal, !.candidates = rest,
                               !.sizes = NoCompare.sizes]
<1>1. cmp.at = "sized" /\ trees' = trees /\ cmp \in CompareType
  BY DEF Sized, Compares, CompareInv, CompareTypeOK
<1>2. both \subseteq TreeNames
  <2>1. PICK D \in SUBSET TreeNames : cmp.sizes["left"] \in [D -> Int]
    <3>1. cmp.sizes["left"] \in Partial
      BY <1>1 DEF CompareType, Sides
    <3> QED BY <3>1 DEF Partial
  <2> QED BY <2>1
<1>3. /\ base \in CompareType /\ base.differing = unequal /\ base.candidates = rest
      /\ base.digests = cmp.digests /\ base.same = cmp.same /\ base.met = cmp.met
      /\ base.cut = cmp.cut /\ base.flag = cmp.flag
  <2>1. unequal \subseteq TreeNames /\ rest \subseteq TreeNames
    BY <1>2
  <2> HIDE DEF unequal, rest
  <2> QED BY <1>1, <2>1, NoDigests DEF CompareType
<1>4. cmp' = IF cmp.flag \/ rest = {}
             THEN [base EXCEPT !.at = "over", !.cancelled = cmp.flag]
             ELSE [base EXCEPT !.at = "hashing left"]
  <2>1. Compares(IF cmp.flag \/ base.candidates = {}
                   THEN [base EXCEPT !.at = "over", !.cancelled = cmp.flag]
                   ELSE [base EXCEPT !.at = "hashing left"])
    BY DEF Sized
  <2> QED BY <1>3, <2>1 DEF Compares
<1> HIDE DEF base
<1>5. ASSUME NEW n \in TreeNames \ cmp.met
      PROVE  /\ n \in both <=> Paired(n)
             /\ n \in unequal => trees["left"][n] # trees["right"][n]
  <2>1. Seen("left", n) /\ Seen("right", n)
    BY <1>1, <1>5 DEF CompareInv, Compared, Found
  <2> QED BY <2>1 DEF Seen, Paired
<1>6. unequal \subseteq both /\ rest \union unequal = both
  OBVIOUS
<1> HIDE DEF both, unequal, rest
<1>7. (\A side \in Sides : DOMAIN cmp.digests[side] = {}) /\ cmp.same = {}
  BY <1>1 DEF CompareInv, Compared, InTurn
<1>8. /\ cmp' \in CompareType /\ cmp'.differing = unequal /\ cmp'.candidates = rest
      /\ cmp'.digests = cmp.digests /\ cmp'.same = {} /\ cmp'.met = cmp.met
      /\ cmp'.at = IF cmp.flag \/ rest = {} THEN "over" ELSE "hashing left"
      /\ cmp'.at = "over" => cmp'.cancelled = cmp.flag
  <2>1. CASE cmp.flag \/ rest = {}
    <3>1. cmp' = [base EXCEPT !.at = "over", !.cancelled = cmp.flag]
      BY <1>4, <2>1
    <3> QED BY <1>1, <1>3, <1>7, <2>1, <3>1 DEF CompareType
  <2>2. CASE ~(cmp.flag \/ rest = {})
    <3>1. cmp' = [base EXCEPT !.at = "hashing left"]
      BY <1>4, <2>2
    <3> QED BY <1>1, <1>3, <1>7, <2>2, <3>1 DEF CompareType
  <2> QED BY <2>1, <2>2
<1>9. CompareTypeOK'
  BY <1>1, <1>8 DEF CompareInv, CompareTypeOK
<1>10. InTurn'
  BY <1>7, <1>8 DEF InTurn
<1>11. ASSUME NEW n \in TreeNames \ cmp'.met
       PROVE  Found(n)' /\ (cmp'.at = "over" /\ ~cmp'.cancelled => Told(n)')
  <2>1. /\ n \in rest \union unequal <=> Paired(n)
        /\ n \in unequal => trees["left"][n] # trees["right"][n]
    BY <1>5, <1>6, <1>8
  <2>2. Found(n)'
    BY <1>1, <1>7, <1>8, <2>1 DEF Found, Paired
  <2>3. ASSUME cmp'.at = "over", ~cmp'.cancelled PROVE Told(n)'
    <3>1. rest = {}
      BY <1>8, <2>3
    <3> QED BY <1>1, <1>8, <2>1, <3>1 DEF Told, Paired
  <2> QED BY <2>2, <2>3
<1> QED BY <1>8, <1>9, <1>10, <1>11 DEF CompareInv, Compared

LEMMA HashOneKeeps ==
  ASSUME CompareInv, NEW side \in Sides, HashOne(side) PROVE CompareInv'
<1>1. PICK n \in Due(side) :
          IF trees[side][n] = Absent THEN Compares([cmp EXCEPT !.at = "failed"])
          ELSE \/ Compares([cmp EXCEPT !.digests[side] = WithDigest(@, n, trees[side][n])])
               \/ /\ side \in cmp.far
                  /\ Compares([cmp EXCEPT !.digests[side] = WithDigest(@, n, Absent),
                                           !.cut = TRUE])
  BY DEF HashOne
<1>2. /\ cmp.at = Hashing(side) /\ cmp \in CompareType
      /\ trees \in [Sides -> [TreeNames -> TreeContents]]
      /\ n \in cmp.candidates /\ n \in TreeNames /\ n \notin DOMAIN cmp.digests[side]
  BY <1>1 DEF HashOne, CompareInv, CompareTypeOK, CompareType, Due
<1>3. trees' = trees
  BY <1>1 DEF Compares
<1>4. CASE cmp' = [cmp EXCEPT !.at = "failed"]
  <2>1. cmp' \in CompareType
    BY <1>2, <1>4 DEF CompareType
  <2>2. /\ cmp'.at = "failed" /\ cmp'.digests = cmp.digests /\ cmp'.candidates = cmp.candidates
    BY <1>2, <1>4 DEF CompareType
  <2>3. InTurn'
    BY <2>2 DEF CompareInv, Compared, InTurn
  <2> QED BY <1>2, <1>3, <2>1, <2>2, <2>3 DEF CompareInv, CompareTypeOK, Compared, Found
<1>5. ASSUME NEW v \in Int, NEW cut \in BOOLEAN, v = trees[side][n] \/ (v = Absent /\ cut),
             cmp.cut => cut,
             cmp' = [cmp EXCEPT !.digests[side] = WithDigest(@, n, v), !.cut = cut]
      PROVE  CompareInv'
  <2> DEFINE known == WithDigest(cmp.digests[side], n, v)
  <2>1. known \in Partial
    BY <1>2, PartialFunctions DEF CompareType
  <2>2. /\ DOMAIN known = DOMAIN cmp.digests[side] \union {n} /\ known[n] = v
        /\ \A m \in DOMAIN cmp.digests[side] : m # n => known[m] = cmp.digests[side][m]
    BY DEF WithDigest
  <2> HIDE DEF known
  <2>3. [cmp.digests EXCEPT ![side] = known] \in [Sides -> Partial]
    BY <1>2, <2>1 DEF CompareType
  <2>4. cmp' = [cmp EXCEPT !.digests[side] = known, !.cut = cut]
    BY <1>5 DEF known
  <2>5. cmp' \in CompareType
    BY <1>2, <2>3, <2>4 DEF CompareType
  <2>6. /\ cmp'.at = cmp.at /\ cmp'.sizes = cmp.sizes /\ cmp'.candidates = cmp.candidates
        /\ cmp'.flag = cmp.flag /\ cmp'.cancelled = cmp.cancelled /\ cmp'.same = cmp.same
        /\ cmp'.differing = cmp.differing /\ cmp'.met = cmp.met
        /\ cmp'.cut = cut /\ cmp'.digests = [cmp.digests EXCEPT ![side] = known]
    BY <1>2, <2>4 DEF CompareType
  <2>7. /\ cmp'.digests[side] = known
        /\ \A s \in Sides : s # side => cmp'.digests[s] = cmp.digests[s]
    BY <1>2, <2>6 DEF CompareType
  <2>8. cmp.at \in {"hashing left", "hashing right"} /\ (cmp.at = "hashing right" => side = "right")
    BY <1>2 DEF Hashing, Sides
  <2>9. InTurn'
    <3>1. \A s \in Sides : DOMAIN cmp'.digests[s] \subseteq cmp'.candidates
      BY <1>2, <2>2, <2>6, <2>7 DEF CompareInv, Compared, InTurn
    <3>2. cmp.at = "hashing right" => Due("left")'
                 = {}
      <4>1. cmp.at = "hashing right" => cmp'.digests["left"] = cmp.digests["left"]
        BY <2>7, <2>8 DEF Sides
      <4> QED BY <2>6, <4>1 DEF Due, CompareInv, Compared, InTurn
    <3> QED BY <2>6, <2>8, <3>1, <3>2 DEF InTurn
  <2>10. ASSUME NEW m \in TreeNames \ cmp'.met PROVE Found(m)'
    <3>1. Found(m)
      BY <2>6 DEF CompareInv, Compared
    <3>2. ASSUME NEW s \in Sides, m \in DOMAIN cmp'.digests[s]
          PROVE  cmp'.digests[s][m] = trees[s][m] \/ (cmp'.digests[s][m] = Absent /\ cut)
      <4>1. CASE s = side /\ m = n
        BY <1>5, <2>2, <2>7, <4>1
      <4>2. CASE ~(s = side /\ m = n)
        <5>1. m \in DOMAIN cmp.digests[s] /\ cmp'.digests[s][m] = cmp.digests[s][m]
          BY <2>2, <2>7, <3>2, <4>2
        <5> QED BY <1>5, <2>8, <3>1, <5>1 DEF Found
      <4> QED BY <4>1, <4>2
    <3> QED BY <1>3, <2>6, <2>8, <3>1, <3>2 DEF Found, Paired
  <2> QED BY <1>2, <1>3, <2>5, <2>6, <2>8, <2>9, <2>10 DEF CompareInv, CompareTypeOK, Compared
<1>6. trees[side][n] \in Int /\ Absent \in Int /\ cmp.cut \in BOOLEAN
  <2>1. trees[side][n] \in TreeContents
    BY <1>2
  <2>2. cmp.cut \in BOOLEAN
    BY <1>2 DEF CompareType
  <2> QED BY <2>1, <2>2 DEF TreeContents, Absent
<1>7. CASE cmp' = [cmp EXCEPT !.digests[side] = WithDigest(@, n, trees[side][n])]
  <2>1. cmp' = [cmp EXCEPT !.digests[side] = WithDigest(@, n, trees[side][n]), !.cut = cmp.cut]
    BY <1>2, <1>7 DEF CompareType
  <2> QED BY <1>5, <1>6, <2>1
<1>8. CASE cmp' = [cmp EXCEPT !.digests[side] = WithDigest(@, n, Absent), !.cut = TRUE]
  BY <1>5, <1>6, <1>8
<1> QED BY <1>1, <1>4, <1>7, <1>8 DEF Compares

LEMMA LeftHashedKeeps ==
  ASSUME CompareInv, LeftHashed PROVE CompareInv'
<1>1. /\ cmp.at = "hashing left" /\ HashedSide("left") /\ trees' = trees
      /\ cmp \in CompareType /\ trees \in [Sides -> [TreeNames -> TreeContents]]
  BY DEF LeftHashed, Compares, CompareInv, CompareTypeOK
<1>2. CASE cmp.flag
  <2>1. cmp' = [cmp EXCEPT !.at = "over", !.cancelled = TRUE]
    BY <1>2 DEF LeftHashed, Compares
  <2>2. cmp' \in CompareType
    BY <1>1, <2>1 DEF CompareType
  <2>3. /\ cmp'.at = "over" /\ cmp'.cancelled /\ cmp'.digests = cmp.digests
        /\ cmp'.candidates = cmp.candidates
    BY <1>1, <2>1 DEF CompareType
  <2>4. InTurn'
    BY <2>3 DEF CompareInv, Compared, InTurn
  <2> QED BY <1>1, <2>2, <2>3, <2>4 DEF CompareInv, CompareTypeOK, Compared, Found
<1>3. CASE ~cmp.flag
  <2>1. cmp' = [cmp EXCEPT !.at = "hashing right"]
    BY <1>3 DEF LeftHashed, Compares
  <2>2. cmp' \in CompareType
    BY <1>1, <2>1 DEF CompareType
  <2>3. /\ cmp'.at = "hashing right"
        /\ cmp'.sizes = cmp.sizes /\ cmp'.candidates = cmp.candidates
        /\ cmp'.digests = cmp.digests /\ cmp'.flag = cmp.flag
        /\ cmp'.cancelled = cmp.cancelled /\ cmp'.same = cmp.same
        /\ cmp'.differing = cmp.differing /\ cmp'.met = cmp.met /\ cmp'.cut = cmp.cut
    BY <1>1, <2>1 DEF CompareType
  <2>4. Due("left") = {}
    BY <1>1, <1>3 DEF HashedSide
  <2>5. InTurn'
    BY <2>3, <2>4 DEF CompareInv, Compared, InTurn, Due
  <2>6. ASSUME NEW n \in TreeNames \ cmp'.met PROVE Found(n)'
    <3>1. Found(n)
      BY <2>3 DEF CompareInv, Compared
    <3> QED BY <1>1, <2>3, <3>1 DEF Found, Paired
  <2> QED BY <1>1, <2>2, <2>3, <2>5, <2>6 DEF CompareInv, CompareTypeOK, Compared
<1> QED BY <1>2, <1>3, <1>1 DEF CompareType

LEMMA RightHashedKeeps ==
  ASSUME CompareInv, RightHashed PROVE CompareInv'
<1>1. /\ cmp.at = "hashing right" /\ HashedSide("right") /\ trees' = trees
      /\ cmp \in CompareType /\ trees \in [Sides -> [TreeNames -> TreeContents]]
  BY DEF RightHashed, Compares, CompareInv, CompareTypeOK
<1> DEFINE alike == Alike(cmp)
           rest == cmp.differing \union (cmp.candidates \ alike)
<1>2. /\ Due("left") = {}
      /\ \A side \in Sides : DOMAIN cmp.digests[side] \subseteq cmp.candidates
  BY <1>1 DEF CompareInv, Compared, InTurn
<1>3. /\ alike \subseteq cmp.candidates /\ cmp.candidates \subseteq TreeNames
      /\ cmp.differing \subseteq TreeNames
  BY <1>1, <1>2 DEF Alike, CompareType, Sides
<1>4. cmp' = [[cmp EXCEPT !.same = alike, !.differing = rest, !.cancelled = cmp.flag]
                 EXCEPT !.at = "over", !.digests = NoCompare.digests]
  <2>1. RightHashed => cmp' = [Matched(cmp) EXCEPT !.at = "over", !.digests = NoCompare.digests]
    BY DEF RightHashed, Compares
  <2> QED BY <2>1 DEF Matched
<1>5. ASSUME NEW n \in TreeNames \ cmp.met, ~cmp.flag
      PROVE  /\ Paired(n) <=> n \in cmp.candidates \union cmp.differing
             /\ n \in alike => Paired(n) /\ trees["left"][n] = trees["right"][n]
             /\ Paired(n) /\ trees["left"][n] = trees["right"][n] => n \in alike \/ cmp.cut
  <2>1. Found(n)
    BY <1>5 DEF CompareInv, Compared
  <2>2. Due("right") = {}
    BY <1>1, <1>5 DEF HashedSide
  <2>3. \A side \in Sides : n \in cmp.candidates <=> n \in DOMAIN cmp.digests[side]
    BY <1>2, <2>2 DEF Due, Sides
  <2>4. \A side \in Sides : n \in DOMAIN cmp.digests[side] =>
                \/ cmp.digests[side][n] = trees[side][n]
                \/ cmp.digests[side][n] = Absent /\ cmp.cut
    BY <1>1, <2>1 DEF Found
  <2>5. /\ Paired(n) <=> n \in cmp.candidates \union cmp.differing
        /\ n \in cmp.differing => trees["left"][n] # trees["right"][n]
    BY <1>1, <2>1 DEF Found
  <2>6. n \in alike <=> /\ n \in DOMAIN cmp.digests["left"] /\ n \in DOMAIN cmp.digests["right"]
                       /\ cmp.digests["left"][n] = cmp.digests["right"][n]
                       /\ cmp.digests["left"][n] # Absent
    BY DEF Alike
  <2> HIDE DEF alike
  <2>7. "left" \in Sides /\ "right" \in Sides
    BY DEF Sides
  <2>8. n \in alike => Paired(n) /\ trees["left"][n] = trees["right"][n]
    BY <2>4, <2>6, <2>7 DEF Paired
  <2>9. Paired(n) /\ trees["left"][n] = trees["right"][n] => n \in alike \/ cmp.cut
    BY <2>3, <2>4, <2>5, <2>6, <2>7 DEF Paired
  <2> QED BY <2>5, <2>8, <2>9
<1> HIDE DEF alike
<1>6. rest \subseteq TreeNames /\ alike \subseteq TreeNames
  BY <1>3
<1>7. \A n \in TreeNames : n \in alike \union rest <=> n \in cmp.candidates \union cmp.differing
  BY <1>3
<1> HIDE DEF rest
<1>8. cmp' \in CompareType
  <2>1. [cmp EXCEPT !.same = alike, !.differing = rest, !.cancelled = cmp.flag] \in CompareType
    BY <1>1, <1>6 DEF CompareType
  <2> QED BY <1>4, <2>1, NoDigests DEF CompareType
<1>9. /\ cmp'.at = "over" /\ cmp'.same = alike /\ cmp'.differing = rest
      /\ cmp'.cancelled = cmp.flag /\ cmp'.met = cmp.met /\ cmp'.cut = cmp.cut
      /\ cmp'.digests = NoCompare.digests /\ cmp'.candidates = cmp.candidates
  BY <1>1, <1>4 DEF CompareType
<1>10. InTurn'
  BY <1>9, NoDigests DEF InTurn
<1>11. ASSUME NEW n \in TreeNames \ cmp'.met, ~cmp'.cancelled PROVE Told(n)'
  <2>1. n \in TreeNames \ cmp.met /\ ~cmp.flag
    BY <1>9, <1>11
  <2> QED BY <1>1, <1>5, <1>7, <1>9, <2>1 DEF Told, Paired
<1> QED BY <1>1, <1>8, <1>9, <1>10, <1>11 DEF CompareInv, CompareTypeOK, Compared, Found

LEMMA OtherEditsKeeps ==
  ASSUME CompareInv, OtherEdits PROVE CompareInv'
<1>1. PICK side \in Sides, n \in TreeNames, c \in TreeContents :
          /\ trees' = [trees EXCEPT ![side][n] = c]
          /\ cmp' = [cmp EXCEPT !.met = @ \union {n}]
  BY DEF OtherEdits
<1>2. cmp \in CompareType /\ trees \in [Sides -> [TreeNames -> TreeContents]]
  BY DEF CompareInv, CompareTypeOK
<1>3. trees' \in [Sides -> [TreeNames -> TreeContents]]
  BY <1>1, <1>2
<1>4. cmp' \in CompareType
  BY <1>1, <1>2 DEF CompareType
<1>5. /\ cmp'.at = cmp.at /\ cmp'.sizes = cmp.sizes /\ cmp'.candidates = cmp.candidates
      /\ cmp'.digests = cmp.digests /\ cmp'.flag = cmp.flag /\ cmp'.cancelled = cmp.cancelled
      /\ cmp'.same = cmp.same /\ cmp'.differing = cmp.differing /\ cmp'.cut = cmp.cut
      /\ cmp'.met = cmp.met \union {n}
  BY <1>1, <1>2 DEF CompareType
<1>6. InTurn'
  BY <1>5 DEF CompareInv, Compared, InTurn, Due
<1>7. ASSUME NEW m \in TreeNames \ cmp'.met
      PROVE  Found(m)' /\ (cmp'.at = "over" /\ ~cmp'.cancelled => Told(m)')
  <2>1. m \in TreeNames \ cmp.met /\ m # n
    BY <1>5, <1>7
  <2>2. trees'["left"][m] = trees["left"][m] /\ trees'["right"][m] = trees["right"][m]
    BY <1>1, <1>2, <2>1 DEF Sides
  <2>3. Found(m)'
    <3>1. Found(m)
      BY <2>1 DEF CompareInv, Compared
    <3> QED BY <1>5, <2>2, <3>1 DEF Found, Seen, Paired, Sides
  <2>4. ASSUME cmp'.at = "over", ~cmp'.cancelled PROVE Told(m)'
    <3>1. Told(m)
      BY <1>5, <2>1, <2>4 DEF CompareInv, Compared
    <3> QED BY <1>5, <2>2, <3>1 DEF Told, Paired
  <2> QED BY <2>3, <2>4
<1> QED BY <1>3, <1>4, <1>6, <1>7 DEF CompareInv, CompareTypeOK, Compared

LEMMA CompareStepKeeps ==
  ASSUME CompareInv, [FilesNext]_fvars PROVE CompareInv'
<1>1. CASE CompareStep
  BY <1>1, CompareBegins, CompareCancelledKeeps, WalkedKeeps, SizedKeeps, LeftHashedKeeps,
     RightHashedKeeps, OtherEditsKeeps, HashOneKeeps DEF CompareStep
<1>2. CASE PanelStep \/ EditStep \/ StreamStep \/ ListStep \/ UNCHANGED fvars
  <2>1. trees' = trees /\ cmp' = cmp
    BY <1>2, PanelLeaves, EditLeaves, StreamLeaves, ListLeaves, NothingLeaves DEF comparing
  <2> QED BY <2>1 DEF CompareInv, CompareTypeOK, Compared, InTurn, Due, Found, Seen, Paired, Told
<1> QED BY <1>1, <1>2, FilesSteps

(* What is said of a stream, of its files and of two trees is so, for any   *)
(* number of files in the stream (archive.rs, exec_failure; verify.rs).     *)
THEOREM ReportsStayTrue ==
  FilesSpec => []ReportsAreTrue
<1>1. FilesInit => StreamInv /\ CompareInv
  BY StreamStarts, CompareStarts DEF FilesInit
<1>2. StreamInv /\ CompareInv /\ [FilesNext]_fvars => (StreamInv /\ CompareInv)'
  BY StreamStepKeeps, CompareStepKeeps
<1>3. StreamInv /\ CompareInv => ReportsAreTrue
  BY DEF StreamInv, CompareInv, Compared, Told, Paired, ReportsAreTrue, CompareIsTrue
<1> QED BY <1>1, <1>2, <1>3, PTL DEF FilesSpec

-----------------------------------------------------------------------------
(* Files: a directory that is deleted *)

TopRows == [node : {"d", "t", "l"}, is_dir : BOOLEAN]
Chains == {<<>>, <<"b">>, <<"b", "c">>}
Queues == {<<>>, <<"d">>, <<"t">>, <<"l">>, <<"b">>, <<"c">>}

DeleteType ==
    [at : {"idle", "single", "walking", "done", "failed"}, here : BOOLEAN,
     root : {"d", "t", "l", Top}, queue : Queues, files : SUBSET {"g", "x"}, dirs : Chains,
     gone : SUBSET Nodes, met : BOOLEAN]

DeleteTypeOK ==
    /\ there \subseteq Nodes /\ rows \subseteq TopRows /\ del \in DeleteType
    /\ conn \in [Sids -> {"new", "open", "lost", "gone"}] /\ held \in Sids \union {Nobody}
    /\ others \in Nat

\* What is said of a directory is a directory, and the walk, links and changes
\* by others included, finds only what is in the row's own tree.
Within ==
    /\ \A row \in rows : row.node # "l" => row.is_dir
    /\ del.at = "single" => del.root = "l"
    /\ del.at \in {"single", "walking"} => ~del.here
    /\ del.at = "walking" =>
          \/ /\ del.root = "d" /\ del.files \subseteq {"g"}
             /\ \/ del.queue = <<>>
                \/ del.queue = <<"d">> /\ del.dirs = <<>>
                \/ del.queue = <<"b">> /\ del.dirs = <<"b">>
                \/ del.queue = <<"c">> /\ del.dirs = <<"b", "c">>
          \/ /\ del.root \in {"t", "l"} /\ del.files \subseteq {"x"} /\ del.dirs = <<>>
             /\ del.queue \in {<<>>, <<del.root>>}

\* Nobody interferes with a delete under way, and there is no link in the tree.
Alone == ~del.met /\ conn[1] = "open"
NoLinks == \A n \in Links : ~(n \in there /\ n \in Under(del.root))

\* The walk goes down one chain of directories, and the leaves go first.
InOrder ==
    \/ /\ del.root = "t" /\ "t" \in there
       /\ \/ del.queue = <<"t">> /\ del.files = {}
          \/ del.queue = <<>> /\ del.files = there \intersect {"x"}
    \/ /\ del.root = "d" /\ "d" \in there /\ "k" \notin there
       /\ \/ del.queue # <<>> /\ del.files = {}
          \/ del.queue = <<>> /\ del.dirs # <<"b", "c">> /\ del.files = {}
          \/ del.queue = <<>> /\ del.dirs = <<"b", "c">> /\ del.files = there \intersect {"g"}
       /\ del.dirs # <<>> => "b" \in there
       /\ del.dirs = <<"b", "c">> => "c" \in there
       /\ del.queue = <<>> /\ del.dirs = <<>> => "b" \notin there
       /\ del.queue = <<>> /\ del.dirs = <<"b">> => "c" \notin there

Exact ==
    /\ others = 0 /\ conn[1] = "open" /\ held = 1 /\ del.at = "idle" => rows \subseteq Listing
    /\ del.at = "single" /\ Alone => del.root \in there
    /\ del.at = "walking" /\ Alone /\ NoLinks => InOrder

DeleteInv == DeleteTypeOK /\ Within /\ Exact /\ DeleteIsExact

-----------------------------------------------------------------------------
(* Files: the tree that is deleted, and the walk of it *)

LEMMA Parents ==
  /\ Parent["d"] = Top /\ Parent["t"] = Top /\ Parent["l"] = Top
  /\ Parent["b"] = "d" /\ Parent["k"] = "d" /\ Parent["c"] = "b" /\ Parent["g"] = "c"
  /\ Parent["x"] = "t"
BY DEF Parent, Nodes, Dirs, Links, Top

LEMMA TheTree ==
  /\ Under("d") = {"d", "b", "k", "c", "g"} /\ Under("t") = {"t", "x"} /\ Under("l") = {"l"}
  /\ there \subseteq Nodes =>
        /\ read_dir(Top) = there \intersect {"d", "t", "l"}
        /\ read_dir("d") = there \intersect {"b", "k"} /\ read_dir("b") = there \intersect {"c"}
        /\ read_dir("c") = there \intersect {"g"} /\ read_dir("t") = there \intersect {"x"}
        /\ read_dir("l") = there \intersect {"x"}
<1>1. Under("d") = {"d", "b", "k", "c", "g"}
  BY Parents DEF Under, Above, Nodes, Dirs, Links, Top
<1>2. Under("t") = {"t", "x"}
  BY Parents DEF Under, Above, Nodes, Dirs, Links, Top
<1>3. Under("l") = {"l"}
  BY Parents DEF Under, Above, Nodes, Dirs, Links, Top
<1>4. ASSUME there \subseteq Nodes
      PROVE  /\ read_dir(Top) = there \intersect {"d", "t", "l"}
             /\ read_dir("d") = there \intersect {"b", "k"}
             /\ read_dir("b") = there \intersect {"c"}
             /\ read_dir("c") = there \intersect {"g"}
             /\ read_dir("t") = there \intersect {"x"}
             /\ read_dir("l") = there \intersect {"x"}
  BY <1>4, Parents DEF read_dir, Resolved, Nodes, Dirs, Links, Top
<1> QED BY <1>1, <1>2, <1>3, <1>4

LEMMA ShortSeqs ==
  /\ SetToSeq({}) = <<>> /\ \A x : SetToSeq({x}) = <<x>>
<1>1. SetToSeq({}) = <<>>
  <2>1. <<>> \in [1 .. 0 -> {}] /\ IsInjective(<<>>)
    BY DEF IsInjective
  <2>2. SetToSeq({}) \in [1 .. 0 -> {}]
    BY <2>1, FS_EmptySet DEF SetToSeq
  <2> QED BY <2>2
<1>2. ASSUME NEW x PROVE SetToSeq({x}) = <<x>>
  <2>1. <<x>> \in [1 .. 1 -> {x}] /\ IsInjective(<<x>>)
    BY DEF IsInjective
  <2>2. Cardinality({x}) = 1
    BY FS_Singleton
  <2>3. SetToSeq({x}) \in [1 .. 1 -> {x}]
    BY <2>1, <2>2 DEF SetToSeq
  <2> QED BY <2>3
<1> QED BY <1>1, <1>2

LEMMA ChainSeqs ==
  /\ \A x : /\ Last(<<x>>) = x /\ Front(<<x>>) = <<>>
            /\ <<>> \o <<x>> = <<x>> /\ <<x>> \o <<>> = <<x>>
  /\ <<>> \o <<>> = <<>>
  /\ <<"b">> \o <<"c">> = <<"b", "c">> /\ <<"b", "c">> \o <<>> = <<"b", "c">>
  /\ Front(<<"b", "c">>) = <<"b">>
  /\ \A r : /\ Last(<<r>> \o <<>>) = r /\ Last(<<r>> \o <<"b">>) = "b"
            /\ Last(<<r>> \o <<"b", "c">>) = "c"
<1>1. \A x : /\ Last(<<x>>) = x /\ Front(<<x>>) = <<>>
            /\ <<>> \o <<x>> = <<x>> /\ <<x>> \o <<>> = <<x>>
  BY DEF Last, Front
<1>2. <<>> \o <<>> = <<>>
  OBVIOUS
<1>3. <<"b">> \o <<"c">> = <<"b", "c">> /\ <<"b", "c">> \o <<>> = <<"b", "c">>
  <2>1. {<<"b">>, <<"c">>, <<"b", "c">>} \subseteq Seq({"b", "c"})
    OBVIOUS
  <2>2. <<"b", "c">> \o <<>> = <<"b", "c">>
    BY <2>1, ConcatEmptySeq
  <2> DEFINE s == <<"b">> \o <<"c">>
  <2>3. s \in Seq({"b", "c"}) /\ Len(s) = 2 /\ s[1] = "b" /\ s[2] = "c"
    BY <2>1, ConcatProperties
  <2>4. s = <<"b", "c">>
    <3> HIDE DEF s
    <3> QED BY <2>3
  <2> QED BY <2>2, <2>4
<1>4. Front(<<"b", "c">>) = <<"b">>
  <2> DEFINE s == SubSeq(<<"b", "c">>, 1, 1)
  <2>1. <<"b", "c">> \in Seq({"b", "c"}) /\ Len(<<"b", "c">>) = 2
    OBVIOUS
  <2>2. s \in Seq({"b", "c"}) /\ Len(s) = 1 /\ s[1] = "b"
    BY <2>1, SubSeqProperties
  <2>3. s = <<"b">>
    <3> HIDE DEF s
    <3> QED BY <2>2
  <2> QED BY <2>1, <2>3 DEF Front
<1>5. \A r : /\ Last(<<r>> \o <<>>) = r /\ Last(<<r>> \o <<"b">>) = "b"
            /\ Last(<<r>> \o <<"b", "c">>) = "c"
  BY DEF Last
<1> QED BY <1>1, <1>2, <1>3, <1>4, <1>5

LEMMA DeleteStarts ==
  ASSUME FilesInit PROVE DeleteInv
<1>1. NoDelete \in DeleteType
  BY DEF DeleteType, NoDelete, Queues, Chains
<1>2. /\ there \subseteq Nodes /\ rows = {} /\ del = NoDelete /\ held = 1 /\ others = 0
      /\ conn \in [Sids -> {"new", "open", "lost", "gone"}]
  BY DEF FilesInit
<1>3. DeleteTypeOK
  BY <1>1, <1>2 DEF DeleteTypeOK, Sids
<1>4. del.at = "idle" /\ del.gone = {}
  BY <1>2 DEF NoDelete
<1>5. Within /\ Exact
  BY <1>2, <1>4 DEF Within, Exact
<1>6. DeleteIsExact
  BY <1>4 DEF DeleteIsExact, OnlyInside, DeleteGoesThrough
<1> QED BY <1>3, <1>5, <1>6 DEF DeleteInv

\* Sessions come and go, and others change something else.
LEMMA DeletingUntouched ==
  ASSUME DeleteInv, UNCHANGED deleting,
         conn' \in [Sids -> {"new", "open", "lost", "gone"}], held' \in Sids \union {Nobody},
         others' \in Nat, others' = 0 => others = 0,
         conn'[1] = "open" => conn[1] = "open", held' = 1 => held = 1
  PROVE  DeleteInv'
<1>1. there' = there /\ rows' = rows /\ del' = del
  BY DEF deleting
<1>2. DeleteTypeOK'
  BY <1>1 DEF DeleteInv, DeleteTypeOK
<1>3. Within'
  BY <1>1 DEF DeleteInv, Within
<1>4. Listing' = Listing
  BY <1>1 DEF Listing, read_dir, IsDir
<1>5. NoLinks' <=> NoLinks
  BY <1>1 DEF NoLinks
<1>6. InOrder' <=> InOrder
  BY <1>1 DEF InOrder
<1>7. Exact'
  BY <1>1, <1>4, <1>5, <1>6 DEF DeleteInv, Exact, Alone
<1>8. OnlyInside'
  BY <1>1 DEF DeleteInv, DeleteIsExact, OnlyInside
<1>9. DeleteGoesThrough'
  BY <1>1 DEF DeleteInv, DeleteIsExact, DeleteGoesThrough
<1> QED BY <1>2, <1>3, <1>7, <1>8, <1>9 DEF DeleteInv, DeleteIsExact

LEMMA PanelKeeps ==
  ASSUME DeleteInv, PanelStep PROVE DeleteInv'
<1>1. /\ conn \in [Sids -> {"new", "open", "lost", "gone"}] /\ held \in Sids \union {Nobody}
      /\ others \in Nat /\ Nobody # 1
  BY FilesAssumption DEF FilesAssumption, DeleteInv, DeleteTypeOK
<1>2. UNCHANGED deleting /\ others' = others
  BY PanelLeaves
<1>3. /\ conn' \in [Sids -> {"new", "open", "lost", "gone"}] /\ held' \in Sids \union {Nobody}
      /\ conn'[1] = "open" => conn[1] = "open"
      /\ held' = 1 => held = 1
  <2>1. CASE connect_sftp
    BY <1>1, <2>1 DEF connect_sftp, Sids
  <2>2. CASE disconnect_sftp
    BY <1>1, <2>2 DEF disconnect_sftp, Sids
  <2>3. CASE FoundDead
    BY <1>1, <2>3 DEF FoundDead, Sids
  <2>4. CASE \E s \in Sids : Vanishes(s)
    BY <1>1, <2>4 DEF Vanishes, Sids
  <2> QED BY <2>1, <2>2, <2>3, <2>4 DEF PanelStep
<1> QED BY <1>1, <1>2, <1>3, DeletingUntouched

LEMMA DeletingStaysKeeps ==
  ASSUME DeleteInv, DeletingStays PROVE DeleteInv'
<1>1. others \in Nat /\ (others' = others \/ others' = others + 1) /\ conn' = conn /\ held' = held
  BY DEF DeletingStays, PanelStays, DeleteInv, DeleteTypeOK
<1> QED BY <1>1, DeletingUntouched DEF DeletingStays, DeleteInv, DeleteTypeOK

LEMMA ListingRows ==
  ASSUME there \subseteq Nodes
  PROVE  /\ Listing \subseteq TopRows
         /\ \A row \in Listing : row.node \in there /\ (row.node # "l" => row.is_dir)
<1>1. ASSUME NEW row \in Listing
      PROVE  row \in TopRows /\ row.node \in there /\ (row.node # "l" => row.is_dir)
  <2>1. PICK n \in there \intersect {"d", "t", "l"} : row = [node |-> n, is_dir |-> IsDir(n)]
    BY TheTree DEF Listing
  <2>2. IsDir(n) \in BOOLEAN /\ (n # "l" => IsDir(n))
    BY <2>1 DEF IsDir, Resolved, Links, Dirs
  <2> QED BY <2>1, <2>2 DEF TopRows
<1> QED BY <1>1

LEMMA ListRowsKeeps ==
  ASSUME DeleteInv, ListRows PROVE DeleteInv'
<1>1. /\ rows' = Listing /\ there' = there /\ del' = del /\ conn' = conn /\ held' = held
      /\ others' = others
  BY DEF ListRows, panel
<1>2. DeleteTypeOK' /\ Within'
  BY <1>1, ListingRows DEF DeleteInv, DeleteTypeOK, Within
<1>3. Listing' = Listing
  BY <1>1 DEF Listing, read_dir, IsDir
<1>4. Exact'
  BY <1>1, <1>3 DEF DeleteInv, Exact, Alone, NoLinks, InOrder
<1>5. DeleteIsExact'
  BY <1>1 DEF DeleteInv, DeleteIsExact, OnlyInside, DeleteGoesThrough
<1> QED BY <1>2, <1>4, <1>5 DEF DeleteInv

LEMMA DeletedKeeps ==
  ASSUME DeleteInv, Deleted PROVE DeleteInv'
<1>1. /\ del' = NoDelete /\ there' = there /\ conn' = conn /\ held' = held /\ others' = others
      /\ rows' \in {rows, Listing} /\ (held = 1 /\ conn[1] = "open" => rows' = Listing)
  BY FilesAssumption DEF FilesAssumption, Deleted, panel, Answers
<1>2. NoDelete \in DeleteType /\ NoDelete.at = "idle" /\ NoDelete.gone = {}
  BY DEF DeleteType, NoDelete, Queues, Chains
<1>3. DeleteTypeOK' /\ Within'
  BY <1>1, <1>2, ListingRows DEF DeleteInv, DeleteTypeOK, Within
<1>4. Listing' = Listing
  BY <1>1 DEF Listing, read_dir, IsDir
<1>5. Exact'
  BY <1>1, <1>2, <1>4 DEF DeleteInv, Exact
<1>6. DeleteIsExact'
  BY <1>1, <1>2 DEF DeleteIsExact, OnlyInside, DeleteGoesThrough
<1> QED BY <1>3, <1>5, <1>6 DEF DeleteInv

LEMMA DeleteRemoteKeeps ==
  ASSUME DeleteInv, delete_remote PROVE DeleteInv'
<1>1. PICK row \in rows :
          del' = [NoDelete EXCEPT !.root = row.node,
                                  !.at = IF row.is_dir THEN "walking" ELSE "single",
                                  !.queue = IF row.is_dir THEN <<row.node>> ELSE <<>>,
                                  !.met = others > 0]
  BY DEF delete_remote
<1>2. /\ there' = there /\ rows' = rows /\ conn' = conn /\ held' = held /\ others' = others
      /\ held = 1 /\ del.at = "idle"
  BY DEF delete_remote, panel
<1>3. /\ row.node \in {"d", "t", "l"} /\ row.is_dir \in BOOLEAN /\ (row.node # "l" => row.is_dir)
      /\ others \in Nat /\ there \subseteq Nodes
  BY DEF DeleteInv, DeleteTypeOK, TopRows, Within
<1>4. del' = [at |-> IF row.is_dir THEN "walking" ELSE "single", here |-> FALSE, root |-> row.node,
              queue |-> IF row.is_dir THEN <<row.node>> ELSE <<>>, files |-> {}, dirs |-> <<>>,
              gone |-> {}, met |-> others > 0]
  BY <1>1 DEF NoDelete
<1>5. del' \in DeleteType
  BY <1>3, <1>4 DEF DeleteType, Queues, Chains
<1>6. DeleteTypeOK'
  BY <1>2, <1>5 DEF DeleteInv, DeleteTypeOK
<1>7. Within'
  BY <1>2, <1>3, <1>4 DEF DeleteInv, Within
<1>8. Alone' => row.node \in there
  <2>1. SUFFICES ASSUME Alone' PROVE row.node \in there
    OBVIOUS
  <2>2. others = 0 /\ conn[1] = "open"
    <3>1. PICK met \in BOOLEAN : met <=> others > 0
      OBVIOUS
    <3>2. del'.met = (others > 0)
      BY <1>4, Zenon
    <3>3. del'.met <=> others > 0
      BY <3>2, Zenon
    <3> QED BY <1>2, <1>3, <2>1, <3>3 DEF Alone
  <2>3. row \in Listing
    BY <1>2, <2>2 DEF DeleteInv, Exact
  <2> QED BY <1>3, <2>3, ListingRows
<1>9. Alone' /\ NoLinks' /\ row.is_dir => InOrder'
  <2>1. SUFFICES ASSUME Alone', NoLinks', row.is_dir PROVE InOrder'
    OBVIOUS
  <2>2. row.node # "l"
    BY <1>2, <1>4, <1>8, <2>1, TheTree DEF NoLinks, Links
  <2>3. row.node = "d" => "k" \notin there
    BY <1>2, <1>4, <2>1, TheTree DEF NoLinks, Links
  <2> QED BY <1>2, <1>3, <1>4, <1>8, <2>1, <2>2, <2>3 DEF InOrder
<1>10. Exact'
  <2>1. /\ del'.at \in {"walking", "single"} /\ (del'.at = "walking" => row.is_dir)
        /\ del'.root = row.node
    BY <1>4
  <2> QED BY <1>2, <1>8, <1>9, <2>1 DEF Exact
<1>11. DeleteIsExact'
  BY <1>4 DEF DeleteIsExact, OnlyInside, DeleteGoesThrough
<1> QED BY <1>6, <1>7, <1>10, <1>11 DEF DeleteInv

LEMMA DeleteLocalKeeps ==
  ASSUME DeleteInv, delete_local PROVE DeleteInv'
<1>1. PICK row \in rows, leads \in BOOLEAN, away \in SUBSET Nodes :
          /\ away = IF row.node \in Links THEN {row.node} ELSE Under(row.node) \intersect there
          /\ there' = IF leads THEN there \ away ELSE there
          /\ del' = [NoDelete EXCEPT !.root = row.node, !.here = TRUE,
                                     !.at = IF leads THEN "done" ELSE "failed",
                                     !.gone = IF leads THEN away ELSE {},
                                     !.met = row.node \notin there]
  <2>1. PICK row \in rows :
          LET leads == row.node \in there /\ Resolved(row.node) \in there
              away == IF row.node \in Links THEN {row.node} ELSE Under(row.node) \intersect there
          IN /\ there' = IF leads THEN there \ away ELSE there
             /\ del' = [NoDelete EXCEPT !.root = row.node, !.here = TRUE,
                                        !.at = IF leads THEN "done" ELSE "failed",
                                        !.gone = IF leads THEN away ELSE {},
                                        !.met = row.node \notin there]
    BY DEF delete_local
  <2>2. (IF row.node \in Links THEN {row.node} ELSE Under(row.node) \intersect there)
            \in SUBSET Nodes
    BY DEF DeleteInv, DeleteTypeOK, Nodes
  <2> QED BY <2>1, <2>2
<1>2. /\ rows' = rows /\ conn' = conn /\ held' = held /\ others' = others
  BY DEF delete_local, panel
<1>3. row.node \in {"d", "t", "l"} /\ there' \subseteq Nodes
  BY <1>1 DEF DeleteInv, DeleteTypeOK, TopRows
<1>4. del' = [at |-> IF leads THEN "done" ELSE "failed", here |-> TRUE, root |-> row.node,
              queue |-> <<>>, files |-> {}, dirs |-> <<>>,
              gone |-> IF leads THEN away ELSE {}, met |-> row.node \notin there]
  BY <1>1 DEF NoDelete
<1>5. del' \in DeleteType
  BY <1>3, <1>4 DEF DeleteType, Queues, Chains
<1>6. DeleteTypeOK'
  BY <1>2, <1>3, <1>5 DEF DeleteInv, DeleteTypeOK
<1>7. Within'
  BY <1>2, <1>4 DEF DeleteInv, Within
<1>8. Exact'
  BY <1>4 DEF Exact
<1>9. DeleteIsExact'
  BY <1>1, <1>4 DEF DeleteIsExact, OnlyInside, DeleteGoesThrough
<1> QED BY <1>6, <1>7, <1>8, <1>9 DEF DeleteInv

\* What a step of a delete under way leaves alone.
Onward == rows' = rows /\ conn' = conn /\ held' = held /\ others' = others

\* A delete that fails, and how it does while nobody interferes.
LEMMA FailsRightly ==
  ASSUME DeleteInv, Onward, there' = there, del.at \in {"single", "walking"},
         NEW met \in BOOLEAN, del' = [del EXCEPT !.at = "failed", !.met = met],
         del.met => met,
         \/ met \/ conn[1] # "open" \/ \E n \in Links : n \in there /\ n \in Under(del.root)
  PROVE  DeleteInv'
<1>1. del \in DeleteType
  BY DEF DeleteInv, DeleteTypeOK
<1>2. del' \in DeleteType
  BY <1>1 DEF DeleteType
<1>3. /\ del'.at = "failed" /\ del'.met = met /\ del'.root = del.root /\ del'.gone = del.gone
      /\ del'.here = del.here
  BY <1>1 DEF DeleteType
<1>4. DeleteTypeOK' /\ Within' /\ Exact'
  BY <1>2, <1>3 DEF Onward, DeleteInv, DeleteTypeOK, Within, Exact
<1>5. OnlyInside'
  BY <1>3 DEF DeleteInv, DeleteIsExact, OnlyInside
<1>6. DeleteGoesThrough'
  BY <1>3 DEF Onward, DeleteGoesThrough
<1> QED BY <1>4, <1>5, <1>6 DEF DeleteInv, DeleteIsExact

LEMMA DeleteFailsRightly ==
  ASSUME DeleteInv, Onward, there' = there, del.at \in {"single", "walking"}, DeleteFails,
         \/ del.met \/ conn[1] # "open" \/ \E n \in Links : n \in there /\ n \in Under(del.root)
  PROVE  DeleteInv'
<1>1. del \in DeleteType
  BY DEF DeleteInv, DeleteTypeOK
<1>2. PICK met \in BOOLEAN : met = del.met
  BY <1>1 DEF DeleteType
<1>3. del' = [del EXCEPT !.at = "failed", !.met = met]
  BY <1>1, <1>2 DEF DeleteFails, DeleteType
<1> QED BY <1>2, <1>3, FailsRightly

\* Nobody interferes: there is a session, and a link would be an excuse.
LEMMA NoExcuse ==
  ASSUME ~(\/ del.met \/ conn[1] # "open"
           \/ \E n \in Links : n \in there /\ n \in Under(del.root))
  PROVE  Alone /\ NoLinks /\ Connected
BY DEF Alone, NoLinks, Connected

LEMMA SingleKeeps ==
  ASSUME DeleteInv, RemoveRefused \/ SingleFile PROVE DeleteInv'
<1>1. del \in DeleteType /\ there \subseteq Nodes
  BY DEF DeleteInv, DeleteTypeOK
<1>2. CASE RemoveRefused
  <2>1. Onward /\ there' = there /\ del.at \in {"single", "walking"}
        /\ del' = [del EXCEPT !.at = "failed", !.met = TRUE]
    BY <1>2 DEF RemoveRefused, Onward, panel
  <2> QED BY <2>1, FailsRightly
<1>3. CASE SingleFile
  <2>1. Onward /\ del.at = "single"
    BY <1>3 DEF SingleFile, Onward, panel
  <2>2. del.root = "l"
    BY <2>1 DEF DeleteInv, Within
  <2>3. CASE Connected /\ del.root \in there \ Dirs
    <3>1. there' = there \ {del.root} /\ del' = [del EXCEPT !.at = "done", !.gone = {del.root}]
      BY <1>3, <2>3 DEF SingleFile
    <3>2. {del.root} \in SUBSET Nodes
      BY <1>1, <2>3
    <3>3. del' \in DeleteType
      BY <1>1, <3>1, <3>2 DEF DeleteType
    <3>4. del'.at = "done" /\ del'.root = "l"
      BY <1>1, <2>2, <3>1 DEF DeleteType
    <3>5. DeleteTypeOK' /\ Within' /\ Exact'
      BY <2>1, <3>1, <3>3, <3>4 DEF Onward, DeleteInv, DeleteTypeOK, Within, Exact
    <3> QED BY <3>4, <3>5 DEF DeleteInv, DeleteIsExact, OnlyInside, DeleteGoesThrough, Links
  <2>4. CASE ~(Connected /\ del.root \in there \ Dirs)
    <3>1. DeleteFails /\ there' = there
      BY <1>3, <2>4 DEF SingleFile
    <3>2. Alone => del.root \in there
      BY <2>1 DEF DeleteInv, Exact
    <3> QED BY <2>1, <2>2, <2>4, <3>1, <3>2, NoExcuse, DeleteFailsRightly DEF Dirs
  <2> QED BY <2>3, <2>4
<1> QED BY <1>2, <1>3

LEMMA OtherChangesKeeps ==
  ASSUME DeleteInv, OtherChanges PROVE DeleteInv'
<1>1. /\ others' = others + 1 /\ rows' = rows /\ conn' = conn /\ held' = held
      /\ there' \subseteq Nodes
      /\ del' = IF del.at = "idle" THEN del ELSE [del EXCEPT !.met = TRUE]
  <2>1. there \subseteq Nodes
    BY DEF DeleteInv, DeleteTypeOK
  <2> QED BY <2>1 DEF OtherChanges, panel
<1>2. others \in Nat /\ del \in DeleteType
  BY DEF DeleteInv, DeleteTypeOK
<1>3. del' \in DeleteType
  BY <1>1, <1>2 DEF DeleteType
<1>4. /\ del'.at = del.at /\ del'.root = del.root /\ del'.here = del.here /\ del'.gone = del.gone
      /\ del'.queue = del.queue /\ del'.dirs = del.dirs /\ del'.files = del.files
      /\ del.at # "idle" => del'.met
  BY <1>1, <1>2 DEF DeleteType
<1>5. DeleteTypeOK'
  BY <1>1, <1>2, <1>3 DEF DeleteInv, DeleteTypeOK
<1>6. Within'
  BY <1>1, <1>4 DEF DeleteInv, Within
<1>7. Exact'
  BY <1>1, <1>2, <1>4 DEF Exact, Alone
<1>8. DeleteIsExact'
  BY <1>1, <1>4 DEF DeleteInv, DeleteIsExact, OnlyInside, DeleteGoesThrough
<1> QED BY <1>5, <1>6, <1>7, <1>8 DEF DeleteInv

\* The directory at the end of the queue.
LEMMA WalkGoes ==
  ASSUME DeleteInv, WalkOne, NEW n, del.queue = <<n>>, Connected, Resolved(n) \in there
  PROVE  LET step == SetToSeq(Walks(n)) IN
         /\ del'.queue = <<>> \o step /\ del'.dirs = del.dirs \o step
         /\ del'.files = del.files \union (read_dir(n) \ (Dirs \union Links))
         /\ del'.at = del.at /\ del'.here = del.here /\ del'.root = del.root
         /\ del'.gone = del.gone /\ del'.met = del.met
         /\ del' = [at |-> del'.at, here |-> del'.here, root |-> del'.root, queue |-> del'.queue,
                    files |-> del'.files, dirs |-> del'.dirs, gone |-> del'.gone,
                    met |-> del'.met]
<1> DEFINE step == SetToSeq(Walks(n))
           found == read_dir(n) \ (Dirs \union Links)
<1>1. Last(del.queue) = n /\ Front(del.queue) = <<>>
  BY ChainSeqs
<1>2. del' = [del EXCEPT !.queue = Front(@) \o step, !.files = @ \union found,
                         !.dirs = del.dirs \o step]
  BY <1>1 DEF WalkOne, Recorded
<1>3. del \in DeleteType
  BY DEF DeleteInv, DeleteTypeOK
<1> HIDE DEF step, found
<1>4. /\ del'.queue = Front(del.queue) \o step /\ del'.dirs = del.dirs \o step
      /\ del'.files = del.files \union found
      /\ del'.at = del.at /\ del'.here = del.here /\ del'.root = del.root
      /\ del'.gone = del.gone /\ del'.met = del.met
  BY <1>2, <1>3 DEF DeleteType
<1>5. del' = [at |-> del'.at, here |-> del'.here, root |-> del'.root, queue |-> del'.queue,
              files |-> del'.files, dirs |-> del'.dirs, gone |-> del'.gone, met |-> del'.met]
  BY <1>2, <1>3 DEF DeleteType
<1> QED BY <1>1, <1>4, <1>5 DEF step, found

LEMMA WalkKeeps ==
  ASSUME DeleteInv, WalkOne PROVE DeleteInv'
<1>1. /\ Onward /\ there' = there /\ del.at = "walking" /\ del.queue # <<>>
      /\ there \subseteq Nodes /\ del \in DeleteType
  BY DEF WalkOne, Onward, panel, DeleteInv, DeleteTypeOK
<1>2. PICK n \in {"d", "b", "c", "t", "l"} :
          /\ del.queue = <<n>>
          /\ \/ n \in {"d", "b", "c"} /\ del.root = "d" /\ del.files \subseteq {"g"}
                /\ del.dirs = (IF n = "d" THEN <<>> ELSE IF n = "b" THEN <<"b">> ELSE <<"b", "c">>)
             \/ n \in {"t", "l"} /\ del.root = n /\ del.files \subseteq {"x"} /\ del.dirs = <<>>
  BY <1>1 DEF DeleteInv, Within
<1>3. Last(del.queue) = n
  BY <1>2, ChainSeqs
<1>4. CASE ~(Connected /\ Resolved(n) \in there)
  <2>1. DeleteFails
    BY <1>3, <1>4 DEF WalkOne
  <2>2. ASSUME Alone, NoLinks, Connected PROVE FALSE
    <3>1. InOrder
      BY <1>1, <2>2 DEF DeleteInv, Exact
    <3>2. n \in there /\ n # "l"
      BY <1>2, <3>1 DEF InOrder
    <3> QED BY <1>2, <1>4, <2>2, <3>2 DEF Resolved, Links
  <2> QED BY <1>1, <2>1, <2>2, NoExcuse, DeleteFailsRightly
<1>5. CASE Connected /\ Resolved(n) \in there
  <2> DEFINE step == SetToSeq(Walks(n))
             found == read_dir(n) \ (Dirs \union Links)
  <2>1. /\ del'.queue = <<>> \o step /\ del'.dirs = del.dirs \o step
        /\ del'.files = del.files \union found
        /\ del'.at = del.at /\ del'.here = del.here /\ del'.root = del.root
        /\ del'.gone = del.gone /\ del'.met = del.met
        /\ del' = [at |-> del'.at, here |-> del'.here, root |-> del'.root, queue |-> del'.queue,
                   files |-> del'.files, dirs |-> del'.dirs, gone |-> del'.gone,
                   met |-> del'.met]
    BY <1>2, <1>5, WalkGoes
  <2>2. /\ found = IF n = "c" THEN there \intersect {"g"}
                   ELSE IF n \in {"t", "l"} THEN there \intersect {"x"} ELSE {}
        /\ Walks(n) = IF n = "d" THEN there \intersect {"b"}
                      ELSE IF n = "b" THEN there \intersect {"c"} ELSE {}
    BY <1>1, <1>2, TheTree DEF Walks, Dirs, Links
  <2> HIDE DEF found
  <2>3. step = IF n = "d" /\ "b" \in there THEN <<"b">>
               ELSE IF n = "b" /\ "c" \in there THEN <<"c">> ELSE <<>>
    <3>1. Walks(n) = IF n = "d" /\ "b" \in there THEN {"b"}
                     ELSE IF n = "b" /\ "c" \in there THEN {"c"} ELSE {}
      BY <2>2
    <3> HIDE DEF Walks
    <3> QED BY <3>1, ShortSeqs
  <2> HIDE DEF step
  <2>4. del'.queue = step
    BY <2>1, <2>3, ChainSeqs
  <2>5. del'.dirs = IF n = "d" THEN (IF "b" \in there THEN <<"b">> ELSE <<>>)
                    ELSE IF n = "b" THEN (IF "c" \in there THEN <<"b", "c">> ELSE <<"b">>)
                    ELSE IF n = "c" THEN <<"b", "c">> ELSE <<>>
    <3>1. CASE n = "d"
      BY <1>2, <2>1, <2>3, <3>1, ChainSeqs
    <3>2. CASE n = "b"
      BY <1>2, <2>1, <2>3, <3>2, ChainSeqs
    <3>3. CASE n = "c"
      BY <1>2, <2>1, <2>3, <3>3, ChainSeqs
    <3>4. CASE n \in {"t", "l"}
      BY <1>2, <2>1, <2>3, <3>4, ChainSeqs
    <3> QED BY <3>1, <3>2, <3>3, <3>4
  <2>6. del' \in DeleteType
    <3>1. del'.queue \in Queues /\ del'.dirs \in Chains /\ del'.files \in SUBSET {"g", "x"}
      BY <1>2, <2>1, <2>2, <2>3, <2>4, <2>5 DEF Queues, Chains
    <3>2. /\ del'.at \in {"idle", "single", "walking", "done", "failed"} /\ del'.here \in BOOLEAN
          /\ del'.root \in {"d", "t", "l", Top} /\ del'.gone \in SUBSET Nodes
          /\ del'.met \in BOOLEAN
      BY <1>1, <2>1 DEF DeleteType
    <3> QED BY <2>1, <3>1, <3>2 DEF DeleteType
  <2>7. DeleteTypeOK'
    BY <1>1, <2>6 DEF Onward, DeleteInv, DeleteTypeOK
  <2>8. Within'
    BY <1>1, <1>2, <2>1, <2>2, <2>3, <2>4, <2>5 DEF Onward, DeleteInv, Within
  <2>9. ASSUME Alone', NoLinks' PROVE InOrder'
    <3>1. Alone /\ NoLinks
      BY <1>1, <2>1, <2>9 DEF Alone, NoLinks, Onward
    <3>2. InOrder
      BY <1>1, <3>1 DEF DeleteInv, Exact
    <3>3. /\ n # "l" /\ del.files = {} /\ n \in there
          /\ n \in {"d", "b", "c"} => "d" \in there /\ "k" \notin there
          /\ n = "c" => "b" \in there
      BY <1>2, <3>2 DEF InOrder
    <3>4. CASE n = "t"
      BY <1>1, <1>2, <2>1, <2>2, <2>3, <2>4, <3>3, <3>4 DEF InOrder
    <3>5. CASE n = "d"
      <4>1. /\ there' = there /\ del'.root = "d" /\ del'.files = {} /\ "d" \in there
            /\ "k" \notin there
        BY <1>1, <1>2, <2>1, <2>2, <3>3, <3>5
      <4>2. CASE "b" \in there
        <5>1. del'.queue = <<"b">> /\ del'.dirs = <<"b">>
          BY <2>3, <2>4, <2>5, <3>5, <4>2
        <5> QED BY <4>1, <4>2, <5>1 DEF InOrder
      <4>3. CASE "b" \notin there
        <5>1. del'.queue = <<>> /\ del'.dirs = <<>>
          BY <2>3, <2>4, <2>5, <3>5, <4>3
        <5> QED BY <4>1, <4>3, <5>1 DEF InOrder
      <4> QED BY <4>2, <4>3
    <3>6. CASE n = "b"
      <4>1. /\ there' = there /\ del'.root = "d" /\ del'.files = {} /\ "d" \in there
            /\ "k" \notin there /\ "b" \in there
        BY <1>1, <1>2, <2>1, <2>2, <3>3, <3>6
      <4>2. CASE "c" \in there
        <5>1. del'.queue = <<"c">> /\ del'.dirs = <<"b", "c">>
          BY <2>3, <2>4, <2>5, <3>6, <4>2
        <5> QED BY <4>1, <4>2, <5>1 DEF InOrder
      <4>3. CASE "c" \notin there
        <5>1. del'.queue = <<>> /\ del'.dirs = <<"b">>
          BY <2>3, <2>4, <2>5, <3>6, <4>3
        <5> QED BY <4>1, <4>3, <5>1 DEF InOrder
      <4> QED BY <4>2, <4>3
    <3>7. CASE n = "c"
      BY <1>1, <1>2, <2>1, <2>2, <2>3, <2>4, <2>5, <3>3, <3>7 DEF InOrder
    <3> QED BY <3>3, <3>4, <3>5, <3>6, <3>7
  <2>10. Exact'
    BY <1>1, <2>1, <2>9 DEF Exact
  <2>11. DeleteIsExact'
    BY <1>1, <2>1 DEF DeleteInv, DeleteIsExact, OnlyInside, DeleteGoesThrough
  <2> QED BY <2>7, <2>8, <2>10, <2>11 DEF DeleteInv
<1> QED BY <1>4, <1>5

LEMMA RemoveFileKeeps ==
  ASSUME DeleteInv, RemoveFile PROVE DeleteInv'
<1>1. PICK f \in del.files :
          IF Connected /\ f \in there
          THEN /\ there' = there \ {f}
               /\ del' = [del EXCEPT !.files = @ \ {f}, !.gone = @ \union {f}]
          ELSE DeleteFails /\ UNCHANGED there
  BY DEF RemoveFile
<1>2. /\ Onward /\ del.at = "walking" /\ del.queue = <<>>
      /\ there \subseteq Nodes /\ del \in DeleteType /\ f \in {"g", "x"}
  BY DEF RemoveFile, Onward, panel, DeleteInv, DeleteTypeOK, DeleteType
<1>3. /\ f = "g" => del.root = "d"
      /\ f = "x" => del.root \in {"t", "l"}
  BY <1>1, <1>2 DEF DeleteInv, Within
<1>4. Alone /\ NoLinks => InOrder
  BY <1>2 DEF DeleteInv, Exact
<1>5. CASE Connected /\ f \in there
  <2>1. there' = there \ {f} /\ del' = [del EXCEPT !.files = @ \ {f}, !.gone = @ \union {f}]
    BY <1>1, <1>5
  <2>2. del.files \ {f} \in SUBSET {"g", "x"} /\ del.gone \union {f} \in SUBSET Nodes
    BY <1>2 DEF DeleteType, Nodes
  <2>3. del' \in DeleteType
    BY <1>2, <2>1, <2>2 DEF DeleteType
  <2>4. /\ del'.files = del.files \ {f} /\ del'.gone = del.gone \union {f} /\ del'.at = del.at
        /\ del'.here = del.here /\ del'.root = del.root /\ del'.queue = del.queue
        /\ del'.dirs = del.dirs /\ del'.met = del.met
    BY <1>2, <2>1 DEF DeleteType
  <2>5. DeleteTypeOK' /\ Within'
    BY <1>2, <2>1, <2>3, <2>4 DEF Onward, DeleteInv, DeleteTypeOK, Within
  <2>6. ASSUME Alone', NoLinks' PROVE InOrder'
    <3>1. Alone /\ NoLinks
      BY <1>2, <2>1, <2>4, <2>6 DEF Alone, NoLinks, Onward, Links
    <3> QED BY <1>2, <1>3, <1>4, <2>1, <2>4, <3>1 DEF InOrder
  <2>7. Exact'
    BY <1>2, <2>4, <2>6 DEF Exact
  <2>8. OnlyInside'
    <3>1. del.root \notin Links => f \in Under(del.root)
      <4>1. CASE f = "g"
        BY <1>3, <4>1, TheTree
      <4>2. CASE f = "x" /\ del.root = "t"
        BY <4>2, TheTree
      <4> QED BY <1>2, <1>3, <4>1, <4>2 DEF Links
    <3> QED BY <2>4, <3>1 DEF DeleteInv, DeleteIsExact, OnlyInside
  <2>9. DeleteGoesThrough'
    BY <1>2, <2>4 DEF DeleteGoesThrough
  <2> QED BY <2>5, <2>7, <2>8, <2>9 DEF DeleteInv, DeleteIsExact
<1>6. CASE ~(Connected /\ f \in there)
  <2>1. DeleteFails /\ there' = there
    BY <1>1, <1>6
  <2>2. ASSUME Alone, NoLinks, Connected PROVE FALSE
    BY <1>1, <1>2, <1>4, <1>6, <2>2 DEF InOrder
  <2> QED BY <1>2, <2>1, <2>2, NoExcuse, DeleteFailsRightly
<1> QED BY <1>5, <1>6

LEMMA RemoveDirKeeps ==
  ASSUME DeleteInv, RemoveDir PROVE DeleteInv'
<1>1. /\ Onward /\ del.at = "walking" /\ del.queue = <<>> /\ del.files = {}
      /\ there \subseteq Nodes /\ del \in DeleteType
  BY DEF RemoveDir, Onward, panel, DeleteInv, DeleteTypeOK
<1>2. PICK n \in {"d", "b", "c", "t", "l"} :
          /\ n = Last(<<del.root>> \o del.dirs)
          /\ \/ n = "d" /\ del.root = "d" /\ del.dirs = <<>>
             \/ n = "b" /\ del.root = "d" /\ del.dirs = <<"b">>
             \/ n = "c" /\ del.root = "d" /\ del.dirs = <<"b", "c">>
             \/ n \in {"t", "l"} /\ del.root = n /\ del.dirs = <<>>
  <2>1. /\ del.root \in {"d", "t", "l"} /\ del.dirs \in Chains
        /\ del.root # "d" => del.dirs = <<>>
    BY <1>1 DEF DeleteInv, Within, DeleteType
  <2> QED BY <2>1, ChainSeqs DEF Chains
<1>3. Alone /\ NoLinks => InOrder
  BY <1>1 DEF DeleteInv, Exact
<1>4. CASE Connected /\ n \in there \intersect Dirs /\ read_dir(n) = {}
  <2> DEFINE at == IF del.dirs = <<>> THEN "done" ELSE "walking"
             dirs == IF n = "c" THEN <<"b">> ELSE <<>>
  <2>1. /\ there' = there \ {n}
        /\ del' = [del EXCEPT !.gone = @ \union {n}, !.at = IF del.dirs = <<>> THEN "done" ELSE @,
                              !.dirs = IF @ = <<>> THEN @ ELSE Front(@)]
    BY <1>2, <1>4 DEF RemoveDir
  <2>2. (IF del.dirs = <<>> THEN del.dirs ELSE Front(del.dirs)) = dirs
    BY <1>2, ChainSeqs
  <2>3. del.gone \union {n} \in SUBSET Nodes /\ dirs \in Chains
    BY <1>1, <1>4 DEF DeleteType, Nodes, Chains
  <2>4. del' = [del EXCEPT !.gone = @ \union {n}, !.at = at, !.dirs = dirs]
    BY <1>1, <2>1, <2>2 DEF DeleteType
  <2>5. at \in {"done", "walking"} /\ (at = "walking" <=> n \in {"b", "c"})
    BY <1>2
  <2> HIDE DEF at
  <2>6. dirs = IF n = "c" THEN <<"b">> ELSE <<>>
    OBVIOUS
  <2> HIDE DEF dirs
  <2>7. del' \in DeleteType
    BY <1>1, <2>3, <2>4, <2>5 DEF DeleteType
  <2>8. /\ del'.gone = del.gone \union {n} /\ del'.at = at /\ del'.dirs = dirs
        /\ del'.here = del.here /\ del'.root = del.root /\ del'.queue = del.queue
        /\ del'.files = del.files /\ del'.met = del.met
    BY <1>1, <2>4 DEF DeleteType
  <2>9. DeleteTypeOK' /\ Within'
    BY <1>1, <1>2, <2>1, <2>5, <2>6, <2>7, <2>8 DEF Onward, DeleteInv, DeleteTypeOK, Within
  <2>10. ASSUME Alone', NoLinks', at = "walking" PROVE InOrder'
    <3>1. Alone /\ NoLinks
      BY <1>1, <1>4, <2>1, <2>8, <2>10 DEF Alone, NoLinks, Onward, Links, Dirs
    <3> QED BY <1>1, <1>2, <1>3, <2>1, <2>5, <2>6, <2>8, <2>10, <3>1 DEF InOrder
  <2>11. Exact'
    BY <2>5, <2>8, <2>10 DEF Exact
  <2>12. OnlyInside'
    BY <1>2, <2>8, TheTree DEF DeleteInv, DeleteIsExact, OnlyInside, Links
  <2>13. DeleteGoesThrough'
    BY <2>5, <2>8 DEF DeleteGoesThrough
  <2> QED BY <2>9, <2>11, <2>12, <2>13 DEF DeleteInv, DeleteIsExact
<1>5. CASE ~(Connected /\ n \in there \intersect Dirs /\ read_dir(n) = {})
  <2>1. DeleteFails /\ there' = there
    BY <1>2, <1>5 DEF RemoveDir
  <2>2. ASSUME Alone, NoLinks, Connected PROVE FALSE
    <3>1. InOrder
      BY <1>3, <2>2
    <3>2. n \in there \intersect Dirs /\ read_dir(n) = {}
      BY <1>1, <1>2, <3>1, TheTree DEF InOrder, Dirs
    <3> QED BY <1>5, <2>2, <3>2
  <2> QED BY <1>1, <2>1, <2>2, NoExcuse, DeleteFailsRightly
<1> QED BY <1>4, <1>5

LEMMA DeleteStepKeeps ==
  ASSUME DeleteInv, [FilesNext]_fvars PROVE DeleteInv'
<1>1. CASE ListStep
  BY <1>1, ListRowsKeeps, DeleteRemoteKeeps, DeleteLocalKeeps, SingleKeeps, WalkKeeps,
     RemoveFileKeeps, RemoveDirKeeps, DeletedKeeps, OtherChangesKeeps DEF ListStep, DeleteStep
<1>2. CASE PanelStep
  BY <1>2, PanelKeeps
<1>3. CASE EditStep \/ StreamStep \/ CompareStep \/ UNCHANGED fvars
  BY <1>3, EditLeaves, StreamLeaves, CompareLeaves, NothingLeaves, DeletingStaysKeeps
<1> QED BY <1>1, <1>2, <1>3, FilesSteps

(* A delete on a server does what was asked of it and nothing else, however *)
(* often others change the tree and whenever sessions come and go           *)
(* (ops.rs, delete_remote; listing.rs, collect_remote_tree).                *)
THEOREM DeletesExactly ==
  FilesSpec => []DeleteIsExact
<1>1. DeleteInv => DeleteIsExact
  BY DEF DeleteInv
<1> QED BY <1>1, DeleteStarts, DeleteStepKeeps, PTL DEF FilesSpec
=============================================================================
