--------------------------- MODULE Library_proofs ---------------------------
(***************************************************************************)
(* Proofs about Library and the operators of Records it is built from, for *)
(* any documents to start from, any file and any number of commands.       *)
(***************************************************************************)
EXTENDS Library, SequenceTheorems, WellFoundedInduction, TLAPS

----------------------------------------------------------------------------
(* Folds *)

LEMMA LeastOf ==
  ASSUME NEW T \in SUBSET Nat, T # {}
  PROVE  \E x \in T : \A y \in T : x <= y
<1>1. PICK x \in T : \A y \in T : ~(<<y, x>> \in OpToRel(<, Nat))
  BY NatLessThanWellFounded, WFMin
<1>2. \A y \in T : ~(y < x)
  BY <1>1 DEF OpToRel
<1> QED BY <1>2

\* What holds of 0 and is handed on holds of N.
LEMMA Upwards ==
  ASSUME NEW N \in Nat, NEW T, 0 \in T, \A n \in 1 .. N : n - 1 \in T => n \in T
  PROVE  N \in T
<1> DEFINE U == {n \in 0 .. N : n \notin T}
<1>1. SUFFICES ASSUME U # {} PROVE FALSE
  OBVIOUS
<1>2. PICK n \in U : \A y \in U : n <= y
  <2>1. U \in SUBSET Nat
    OBVIOUS
  <2> HIDE DEF U
  <2> QED BY <1>1, <2>1, LeastOf
<1>3. n # 0
  BY <1>2
<1>4. n \in 1 .. N /\ n - 1 \in 0 .. N /\ n - 1 \notin U
  BY <1>2, <1>3
<1> QED BY <1>2, <1>4

LEMMA MaxIs ==
  ASSUME NEW m \in Nat, NEW s \in SUBSET (1 .. m), s # {}
  PROVE  Max(s) \in s /\ \A y \in s : y <= Max(s)
<1> DEFINE T == {m - x : x \in s}
<1>1. T \in SUBSET Nat /\ T # {}
  <2>1. \A x \in s : m - x \in Nat
    OBVIOUS
  <2> QED BY <2>1
<1>2. PICK t \in T : \A y \in T : t <= y
  <2> HIDE DEF T
  <2> QED BY <1>1, LeastOf
<1>3. PICK x \in s : t = m - x
  OBVIOUS
<1>4. \A y \in s : m - x <= m - y
  BY <1>2, <1>3
<1>5. \A y \in s : x >= y
  BY <1>4
<1>6. Max(s) \in s /\ \A y \in s : Max(s) >= y
  BY <1>5 DEF Max
<1> QED BY <1>6

LEMMA MaxUpTo ==
  ASSUME NEW n \in Nat, n # 0
  PROVE  Max(1 .. n) = n /\ (1 .. n) \ {n} = 1 .. n - 1
<1>1. Max(1 .. n) \in 1 .. n /\ \A y \in 1 .. n : y <= Max(1 .. n)
  <2>1. 1 .. n \in SUBSET (1 .. n) /\ 1 .. n # {}
    OBVIOUS
  <2> QED BY <2>1, MaxIs
<1>2. n \in 1 .. n
  OBVIOUS
<1>3. Max(1 .. n) = n
  BY <1>1, <1>2
<1>4. (1 .. n) \ {n} = 1 .. n - 1
  OBVIOUS
<1> QED BY <1>3, <1>4

\* The function a fold is defined by, when every step stays in S.
Folds(g, m, S, b, G) ==
    /\ g \in [SUBSET (1 .. m) -> S]
    /\ \A s \in SUBSET (1 .. m) :
          g[s] = IF s = {} THEN b ELSE G[Max(s)][g[s \ {Max(s)}]]

LEMMA FoldStep ==
  ASSUME NEW N \in Nat, NEW S, NEW b \in S, NEW G \in [1 .. N -> [S -> S]],
         NEW m \in 1 .. N, NEW h, Folds(h, m - 1, S, b, G)
  PROVE  \E g : Folds(g, m, S, b, G)
<1> DEFINE g == [s \in SUBSET (1 .. m) |-> IF m \in s THEN G[m][h[s \ {m}]] ELSE h[s]]
<1>0. m \in Nat /\ m - 1 \in Nat
  OBVIOUS
<1>1. ASSUME NEW s \in SUBSET (1 .. m)
      PROVE  s \ {m} \in SUBSET (1 .. m - 1) /\ (m \notin s => s \in SUBSET (1 .. m - 1))
  BY <1>1
<1>2. \A s \in SUBSET (1 .. m - 1) : s \in SUBSET (1 .. m) /\ m \notin s
  OBVIOUS
<1>3. g \in [SUBSET (1 .. m) -> S]
  <2> SUFFICES ASSUME NEW s \in SUBSET (1 .. m) PROVE g[s] \in S
    OBVIOUS
  <2>1. h[s \ {m}] \in S /\ (m \notin s => h[s] \in S)
    BY <1>1 DEF Folds
  <2> QED BY <2>1
<1>4. ASSUME NEW s \in SUBSET (1 .. m)
      PROVE  g[s] = IF s = {} THEN b ELSE G[Max(s)][g[s \ {Max(s)}]]
  <2>1. CASE m \in s
    <3>1. Max(s) = m
      <4>1. s # {}
        BY <2>1
      <4>2. Max(s) \in s /\ \A y \in s : y <= Max(s)
        BY <1>0, <4>1, MaxIs
      <4>3. PICK x \in s : x = Max(s) /\ m <= x
        BY <2>1, <4>2
      <4> QED BY <1>0, <4>3
    <3>2. g[s \ {m}] = h[s \ {m}]
      BY <1>1, <1>2
    <3> QED BY <2>1, <3>1, <3>2
  <2>2. CASE m \notin s /\ s = {}
    BY <1>1, <1>2, <2>2 DEF Folds
  <2>3. CASE m \notin s /\ s # {}
    <3>1. s \in SUBSET (1 .. m - 1) /\ g[s] = h[s]
      BY <1>1, <2>3
    <3>2. s \ {Max(s)} \in SUBSET (1 .. m - 1)
      BY <3>1
    <3>3. g[s \ {Max(s)}] = h[s \ {Max(s)}]
      BY <1>2, <3>2
    <3>4. h[s] = G[Max(s)][h[s \ {Max(s)}]]
      BY <2>3, <3>1 DEF Folds
    <3> QED BY <2>3, <3>1, <3>3, <3>4
  <2> QED BY <2>1, <2>2, <2>3
<1>5. Folds(g, m, S, b, G)
  BY <1>3, <1>4 DEF Folds
<1> QED BY <1>5

LEMMA FoldExists ==
  ASSUME NEW N \in Nat, NEW S, NEW b \in S, NEW G \in [1 .. N -> [S -> S]]
  PROVE  \E g : Folds(g, N, S, b, G)
<1> DEFINE T == {m \in 0 .. N : ~\E g : Folds(g, m, S, b, G)}
<1>1. SUFFICES ASSUME T # {} PROVE FALSE
  OBVIOUS
<1>2. PICK m \in T : \A y \in T : m <= y
  <2>1. T \in SUBSET Nat
    OBVIOUS
  <2> HIDE DEF T
  <2> QED BY <1>1, <2>1, LeastOf
<1>3. m # 0
  <2> SUFFICES ASSUME m = 0 PROVE FALSE
    OBVIOUS
  <2> DEFINE g == [s \in SUBSET (1 .. 0) |-> b]
  <2>1. Folds(g, 0, S, b, G)
    BY DEF Folds
  <2> QED BY <1>2, <2>1
<1>4. m \in 1 .. N /\ m - 1 \in 0 .. N /\ m - 1 \notin T
  BY <1>2, <1>3
<1>5. PICK h : Folds(h, m - 1, S, b, G)
  BY <1>4
<1>6. \E g : Folds(g, m, S, b, G)
  BY <1>4, <1>5, FoldStep
<1> QED BY <1>2, <1>6

----------------------------------------------------------------------------
(* Lists *)

LEMMA ListIs ==
  ASSUME NEW list, IsList(list)
  PROVE  /\ Len(list) \in Nat /\ DOMAIN list = 1 .. Len(list)
         /\ \A n \in 1 .. Len(list) : list[n] \in Range(list)
BY DEF IsList

LEMMA ListOver ==
  ASSUME NEW S, NEW list \in Seq(S)
  PROVE  IsList(list) /\ Range(list) \subseteq S
<1>1. Len(list) \in Nat /\ DOMAIN list = 1 .. Len(list) /\ \A n \in 1 .. Len(list) : list[n] \in S
  OBVIOUS
<1>2. \A n \in 1 .. Len(list) : list[n] \in Range(list)
  BY <1>1 DEF Range
<1>3. list \in Seq(Range(list))
  BY <1>1, <1>2
<1> QED BY <1>1, <1>3 DEF IsList, Range

LEMMA AppendedIs ==
  ASSUME NEW S, NEW list \in Seq(S), NEW x \in S
  PROVE  /\ Append(list, x) \in Seq(S)
         /\ Range(Append(list, x)) = Range(list) \cup {x}
         /\ DOMAIN list \subseteq DOMAIN Append(list, x)
         /\ \A n \in DOMAIN list : Append(list, x)[n] = list[n]
         /\ \A n \in DOMAIN Append(list, x) \ DOMAIN list : Append(list, x)[n] = x
<1>1. PICK t \in Seq(S) : t = Append(list, x)
  BY AppendProperties
<1>2. /\ Len(t) = Len(list) + 1 /\ t[Len(list) + 1] = x
      /\ \A i \in 1 .. Len(list) : t[i] = list[i]
  BY <1>1, AppendProperties
<1>3. DOMAIN t = 1 .. Len(list) + 1 /\ DOMAIN list = 1 .. Len(list) /\ Len(list) \in Nat
  BY <1>2
<1>4. 1 .. Len(list) + 1 = (1 .. Len(list)) \cup {Len(list) + 1}
  BY <1>3
<1>5. Range(t) = {t[i] : i \in 1 .. Len(list)} \cup {t[Len(list) + 1]}
  BY <1>3, <1>4 DEF Range
<1>6. Range(t) = Range(list) \cup {x}
  BY <1>2, <1>3, <1>5 DEF Range
<1> QED BY <1>1, <1>2, <1>3, <1>4, <1>6

LEMMA SelectedIs ==
  ASSUME NEW list, IsList(list), NEW keep
  PROVE  /\ IsList(Selected(list, keep))
         /\ Range(Selected(list, keep)) = Range(list) \cap keep
<1> DEFINE N == Len(list)
           S == Seq(Range(list))
           op(so, x) == IF x \in keep THEN Append(so, x) ELSE so
           G == [n \in 1 .. N |-> [so \in S |-> op(so, list[n])]]
           Is(g) == g = [s \in SUBSET (DOMAIN list) |->
                           IF s = {} THEN <<>> ELSE op(g[s \ {Max(s)}], list[Max(s)])]
           it == CHOOSE g : Is(g)
<1>1. N \in Nat /\ DOMAIN list = 1 .. N /\ \A n \in 1 .. N : list[n] \in Range(list)
  BY ListIs
<1>2. \A so \in S : \A n \in 1 .. N : op(so, list[n]) \in S
  BY <1>1, AppendProperties
<1>3. Selected(list, keep) = it[DOMAIN list]
  BY DEF Selected, FoldLeft, MapThenFoldSet
<1>4. Is(it)
  <2>1. G \in [1 .. N -> [S -> S]] /\ <<>> \in S
    BY <1>2
  <2> HIDE DEF N, S, G
  <2>2. PICK g : Folds(g, N, S, <<>>, G)
    BY <1>1, <2>1, FoldExists
  <2>3. ASSUME NEW s \in SUBSET (1 .. N), s # {} PROVE g[s] = op(g[s \ {Max(s)}], list[Max(s)])
    <3>1. Max(s) \in 1 .. N
      <4>1. N \in Nat /\ s \in SUBSET (1 .. N) /\ s # {}
        BY <1>1, <2>3
      <4>2. Max(s) \in s
        BY <4>1, MaxIs
      <4> QED BY <4>1, <4>2
    <3>2. s \ {Max(s)} \in SUBSET (1 .. N)
      OBVIOUS
    <3>3. g[s \ {Max(s)}] \in S /\ g[s] = G[Max(s)][g[s \ {Max(s)}]]
      BY <2>2, <2>3, <3>2 DEF Folds
    <3> QED BY <3>1, <3>3 DEF G
  <2>4. g \in [SUBSET (1 .. N) -> S] /\ g[{}] = <<>>
    BY <2>2 DEF Folds
  <2>5. Is(g)
    BY <1>1, <2>3, <2>4
  <2> HIDE DEF Is
  <2> QED BY <2>5
<1> HIDE DEF it
<1> DEFINE f == [n \in 0 .. N |-> it[1 .. n]]
<1>5. f[0] = <<>>
  <2>1. 1 .. 0 = {} /\ 0 \in 0 .. N
    BY <1>1
  <2> QED BY <1>4, <2>1
<1>6. ASSUME NEW n \in 1 .. N PROVE f[n] = op(f[n - 1], list[n])
  <2>1. n \in Nat /\ n # 0 /\ n \in 0 .. N /\ n - 1 \in 0 .. N /\ 1 .. n # {}
    BY <1>1
  <2>2. Max(1 .. n) = n /\ (1 .. n) \ {n} = 1 .. n - 1
    BY <2>1, MaxUpTo
  <2>3. 1 .. n \in SUBSET (1 .. N)
    BY <1>1
  <2>4. it[1 .. n] = op(it[1 .. n - 1], list[n])
    BY <1>1, <1>4, <2>1, <2>2, <2>3
  <2> QED BY <2>1, <2>4
<1> DEFINE Good(n) == f[n] \in S /\ Range(f[n]) = {list[i] : i \in 1 .. n} \cap keep
           T == {n \in 0 .. N : Good(n)}
<1>7. 0 \in T
  <2>1. Range(<<>>) = {} /\ {list[i] : i \in 1 .. 0} = {} /\ <<>> \in S
    BY DEF Range
  <2>2. Good(0)
    BY <1>5, <2>1
  <2> HIDE DEF Good
  <2> QED BY <1>1, <2>2
<1>8. ASSUME NEW n \in 1 .. N, n - 1 \in T PROVE n \in T
  <2>1. n \in 0 .. N /\ n - 1 \in 0 .. N /\ n - 1 \in Nat
    BY <1>1
  <2>2. Good(n - 1)
    BY <1>8, <2>1
  <2>3. {list[i] : i \in 1 .. n} = {list[i] : i \in 1 .. n - 1} \cup {list[n]}
    BY <2>1
  <2>4. PICK so \in S : so = f[n - 1]
    BY <2>2
  <2>5. CASE list[n] \in keep
    <3>1. f[n] = Append(so, list[n])
      BY <1>6, <2>4, <2>5
    <3>2. so \in Seq(Range(list)) /\ list[n] \in Range(list)
      BY <1>1
    <3>3. f[n] \in S /\ Range(f[n]) = Range(so) \cup {list[n]}
      <4>1. PICK Q, y : Q = Range(list) /\ y = list[n]
        OBVIOUS
      <4>2. so \in Seq(Q) /\ y \in Q
        BY <3>2, <4>1
      <4>3. Append(so, y) \in Seq(Q) /\ Range(Append(so, y)) = Range(so) \cup {y}
        BY <4>2, AppendedIs
      <4> QED BY <3>1, <4>1, <4>3
    <3>4. Good(n)
      BY <2>2, <2>3, <2>4, <2>5, <3>3
    <3> HIDE DEF Good
    <3> QED BY <2>1, <3>4
  <2>6. CASE list[n] \notin keep
    <3>1. f[n] = so
      BY <1>6, <2>4, <2>6
    <3>2. Good(n)
      BY <2>2, <2>3, <2>4, <2>6, <3>1
    <3> HIDE DEF Good
    <3> QED BY <2>1, <3>2
  <2> QED BY <2>5, <2>6
<1>9. Good(N)
  <2>1. N \in T
    <3> HIDE DEF T
    <3> QED BY <1>1, <1>7, <1>8, Upwards
  <2> HIDE DEF Good
  <2> QED BY <2>1
<1>10. {list[i] : i \in 1 .. N} = Range(list)
  BY <1>1 DEF Range
<1>11. Selected(list, keep) = f[N]
  BY <1>1, <1>3
<1>12. Range(Selected(list, keep)) = Range(list) \cap keep /\ Selected(list, keep) \in S
  BY <1>9, <1>10, <1>11
<1> QED BY <1>12, ListOver

\* A list made from another, element by element.
LEMMA RemadeIs ==
  ASSUME NEW list, IsList(list), NEW m, DOMAIN m = DOMAIN list, NEW S, m \in [DOMAIN list -> S]
  PROVE  IsList(m) /\ Range(m) \subseteq S
<1>1. Len(list) \in Nat /\ DOMAIN list = 1 .. Len(list)
  BY ListIs
<1>2. m \in Seq(S)
  BY <1>1
<1> QED BY <1>2, ListOver

LEMMA FirstOf ==
  ASSUME NEW list, IsList(list), NEW id, Present(list, id)
  PROVE  find_by_id(list, id) \in Range(list) /\ find_by_id(list, id).id = id
<1> DEFINE T == {n \in DOMAIN list : list[n].id = id}
<1>1. Len(list) \in Nat /\ DOMAIN list = 1 .. Len(list)
  BY ListIs
<1>2. T \in SUBSET Nat
  BY <1>1
<1>3. T # {}
  BY DEF Present, Ids, Range
<1>4. PICK n \in T : \A y \in T : n <= y
  <2> HIDE DEF T
  <2> QED BY <1>2, <1>3, LeastOf
<1>5. n \in DOMAIN list /\ list[n].id = id /\ \A m \in 1..(n - 1) : list[m].id # id
  <2>1. ASSUME NEW m \in 1..(n - 1) PROVE list[m].id # id
    <3>1. n \in 1 .. Len(list) /\ m \in 1 .. Len(list) /\ ~(n <= m)
      BY <1>1, <1>4, <2>1
    <3>2. m \notin T
      BY <1>4, <3>1
    <3> QED BY <1>1, <3>1, <3>2
  <2> QED BY <1>4, <2>1
<1> DEFINE First(k) == list[k].id = id /\ \A m \in 1..(k - 1) : list[m].id # id
           k == CHOOSE k \in DOMAIN list : First(k)
<1>6. find_by_id(list, id) = list[k]
  BY DEF find_by_id
<1>7. k \in DOMAIN list /\ First(k)
  <2>1. n \in DOMAIN list /\ First(n)
    BY <1>5
  <2> HIDE DEF First
  <2> QED BY <2>1
<1> HIDE DEF k
<1> QED BY <1>6, <1>7 DEF Range

LEMMA UpsertIs ==
  ASSUME NEW list, IsList(list), NEW item
  PROVE  /\ IsList(upsert_by_id(list, item))
         /\ Range(upsert_by_id(list, item)) \subseteq Range(list) \cup {item}
         /\ Ids(list) \subseteq Ids(upsert_by_id(list, item))
<1> DEFINE S == Range(list) \cup {item}
           up == upsert_by_id(list, item)
<1>1. CASE Present(list, item.id)
  <2>1. up = [n \in DOMAIN list |-> IF list[n].id = item.id THEN item ELSE list[n]]
    BY <1>1 DEF upsert_by_id, Mapped
  <2>2. up \in [DOMAIN list -> S] /\ DOMAIN up = DOMAIN list
    BY <2>1 DEF Range
  <2>3. IsList(up) /\ Range(up) \subseteq S
    <3> HIDE DEF up
    <3> QED BY <2>2, RemadeIs
  <2>4. ASSUME NEW r \in Range(list) PROVE r.id \in Ids(up)
    <3>1. PICK n \in DOMAIN list : r = list[n]
      BY DEF Range
    <3>2. up[n] \in Range(up) /\ up[n].id = r.id
      BY <2>1, <2>2, <3>1 DEF Range
    <3> QED BY <3>2 DEF Ids
  <2> QED BY <2>3, <2>4 DEF Ids
<1>2. CASE ~Present(list, item.id)
  <2>1. up = Append(list, item)
    BY <1>2 DEF upsert_by_id
  <2>2. list \in Seq(S) /\ item \in S
    <3>1. list \in Seq(Range(list)) /\ Range(list) \subseteq S
      BY DEF IsList
    <3> QED BY <3>1, SeqMonotonic
  <2>3. Append(list, item) \in Seq(S) /\ Range(Append(list, item)) = Range(list) \cup {item}
    <3> HIDE DEF S
    <3> QED BY <2>2, AppendedIs
  <2>4. IsList(up)
    BY <2>1, <2>3, ListOver
  <2> QED BY <2>1, <2>3, <2>4 DEF Ids
<1> QED BY <1>1, <1>2

LEMMA WithoutIs ==
  ASSUME NEW list, IsList(list), NEW ids
  PROVE  /\ IsList(Without(list, ids))
         /\ Range(Without(list, ids)) = {r \in Range(list) : r.id \notin ids}
         /\ Ids(Without(list, ids)) = Ids(list) \ ids
<1> DEFINE keep == {r \in Range(list) : r.id \notin ids}
<1>1. Without(list, ids) = Selected(list, keep)
  BY DEF Without
<1>2. IsList(Selected(list, keep)) /\ Range(Selected(list, keep)) = Range(list) \cap keep
  BY SelectedIs
<1> QED BY <1>1, <1>2 DEF Ids

----------------------------------------------------------------------------
(* Documents *)

\* What each record of the saved document is.
ServerOK(s) == /\ IsServer(s) /\ s.pw \in {None, "master"}
               /\ s.key # None \/ s.prompts => s.pw = None
IdentityOK(i) == /\ IsIdentity(i) /\ i.pw \in {None, "master"}
                 /\ i.prompts => i.pw = None /\ i.key = None
KeyOK(k) == IsKey(k) /\ k.held \in {None, "master"} /\ k.id # None

Parts6 == {"servers", "identities", "keys", "rules", "marks", "history"}
RecordsOK(d) ==
    /\ IsRecord(d, Parts6)
    /\ IsList(d.servers) /\ \A s \in Range(d.servers) : ServerOK(s)
    /\ IsList(d.identities) /\ \A i \in Range(d.identities) : IdentityOK(i)
    /\ IsList(d.keys) /\ \A k \in Range(d.keys) : KeyOK(k)
    /\ IsList(d.rules) /\ \A r \in Range(d.rules) : IsRule(r)
DocOK(d) == RecordsOK(d) /\ d.history \subseteq Ids(d.servers)

LEMMA SaidTwice ==
  ASSUME NEW d
  PROVE  /\ DocOK(d) => IsDocument(d) /\ OneWay(d) /\ SealedUnder(d, "master")
                        /\ \A k \in Range(d.keys) : k.id # None
         /\ /\ IsDocument(d) /\ OneWay(d) /\ SealedUnder(d, "master")
            /\ \A k \in Range(d.keys) : k.id # None
            => RecordsOK(d)
BY DEF DocOK, RecordsOK, IsDocument, OneWay, SealedUnder, ServerOK, IdentityOK, KeyOK, Parts6

LEMMA UpsertServer ==
  ASSUME NEW d, DocOK(d), NEW s, ServerOK(s),
         NEW e, e = [d EXCEPT !.servers = upsert_by_id(@, s)]
  PROVE  DocOK(e) /\ Ids(e.servers) \subseteq Ids(d.servers) \cup {s.id}
<1>1. PICK l : l = upsert_by_id(d.servers, s)
  OBVIOUS
<1>2. IsList(l) /\ Range(l) \subseteq Range(d.servers) \cup {s} /\ Ids(d.servers) \subseteq Ids(l)
  BY <1>1, UpsertIs DEF DocOK, RecordsOK
<1>3. e = [d EXCEPT !.servers = l]
  BY <1>1
<1>4. /\ IsRecord(e, Parts6) /\ e.servers = l /\ e.identities = d.identities /\ e.keys = d.keys
      /\ e.rules = d.rules /\ e.history = d.history
  <2>1. IsRecord(d, Parts6)
    BY DEF DocOK, RecordsOK
  <2> QED BY <1>3, <2>1 DEF IsRecord, Parts6
<1>5. DocOK(e)
  BY <1>2, <1>4 DEF DocOK, RecordsOK
<1>6. Ids(l) \subseteq Ids(d.servers) \cup {s.id}
  BY <1>2 DEF Ids
<1> QED BY <1>4, <1>5, <1>6

LEMMA UpsertIdentity ==
  ASSUME NEW d, DocOK(d), NEW i, IdentityOK(i),
         NEW e, e = [d EXCEPT !.identities = upsert_by_id(@, i)]
  PROVE  DocOK(e) /\ Ids(e.servers) \subseteq Ids(d.servers)
<1>1. PICK l : l = upsert_by_id(d.identities, i)
  OBVIOUS
<1>2. IsList(l) /\ Range(l) \subseteq Range(d.identities) \cup {i}
  BY <1>1, UpsertIs DEF DocOK, RecordsOK
<1>3. e = [d EXCEPT !.identities = l]
  BY <1>1
<1>4. /\ IsRecord(e, Parts6) /\ e.identities = l /\ e.servers = d.servers /\ e.keys = d.keys
      /\ e.rules = d.rules /\ e.history = d.history
  <2>1. IsRecord(d, Parts6)
    BY DEF DocOK, RecordsOK
  <2> QED BY <1>3, <2>1 DEF IsRecord, Parts6
<1>5. DocOK(e)
  BY <1>2, <1>4 DEF DocOK, RecordsOK
<1> QED BY <1>4, <1>5

LEMMA AppendKey ==
  ASSUME NEW d, DocOK(d), NEW k, KeyOK(k), NEW e, e = [d EXCEPT !.keys = Append(@, k)]
  PROVE  DocOK(e) /\ Ids(e.servers) \subseteq Ids(d.servers)
<1>1. PICK l : l = Append(d.keys, k)
  OBVIOUS
<1>2. IsList(l) /\ Range(l) \subseteq Range(d.keys) \cup {k}
  <2> DEFINE S == Range(d.keys) \cup {k}
  <2>1. d.keys \in Seq(Range(d.keys)) /\ Range(d.keys) \subseteq S /\ k \in S
    BY DEF DocOK, RecordsOK, IsList
  <2>2. d.keys \in Seq(S)
    <3> HIDE DEF S
    <3> QED BY <2>1, SeqMonotonic
  <2>3. PICK q \in Seq(S) : q = d.keys
    BY <2>2
  <2>4. Append(q, k) \in Seq(S) /\ Range(Append(q, k)) = Range(q) \cup {k}
    <3> HIDE DEF S
    <3> QED BY <2>1, AppendedIs
  <2> QED BY <1>1, <2>3, <2>4, ListOver
<1>3. e = [d EXCEPT !.keys = l]
  BY <1>1
<1>4. /\ IsRecord(e, Parts6) /\ e.keys = l /\ e.servers = d.servers /\ e.identities = d.identities
      /\ e.rules = d.rules /\ e.history = d.history
  <2>1. IsRecord(d, Parts6)
    BY DEF DocOK, RecordsOK
  <2> QED BY <1>3, <2>1 DEF IsRecord, Parts6
<1>5. DocOK(e)
  BY <1>2, <1>4 DEF DocOK, RecordsOK
<1> QED BY <1>4, <1>5

LEMMA ServerToSaveOK ==
  ASSUME NEW d, DocOK(d), NEW s, IsServer(s), NEW typed
  PROVE  ServerOK(ServerToSave(d.servers, s, typed))
<1>1. PICK old : old = OldPassword(d.servers, s.id)
  OBVIOUS
<1>2. old \in {None, "master"}
  <2>1. CASE Present(d.servers, s.id)
    <3>1. find_by_id(d.servers, s.id) \in Range(d.servers)
      BY <2>1, FirstOf DEF DocOK, RecordsOK
    <3> QED BY <1>1, <2>1, <3>1 DEF OldPassword, DocOK, RecordsOK, ServerOK
  <2>2. CASE ~Present(d.servers, s.id)
    BY <1>1, <2>2 DEF OldPassword
  <2> QED BY <2>1, <2>2
<1>3. PICK pw : pw = IF s.key # None \/ s.prompts THEN None ELSE IF typed THEN "master" ELSE old
  OBVIOUS
<1>4. ServerToSave(d.servers, s, typed) = [s EXCEPT !.pw = pw]
  BY <1>1, <1>3 DEF ServerToSave
<1>5. IsServer([s EXCEPT !.pw = pw]) /\ [s EXCEPT !.pw = pw].key = s.key
      /\ [s EXCEPT !.pw = pw].prompts = s.prompts /\ [s EXCEPT !.pw = pw].pw = pw
  BY DEF IsServer, IsRecord
<1> QED BY <1>2, <1>3, <1>4, <1>5 DEF ServerOK

LEMMA IdentityToSaveOK ==
  ASSUME NEW d, DocOK(d), NEW i, IsIdentity(i), NEW typed
  PROVE  IdentityOK(IdentityToSave(d.identities, i, typed))
<1>1. PICK old : old = OldPassword(d.identities, i.id)
  OBVIOUS
<1>2. old \in {None, "master"}
  <2>1. CASE Present(d.identities, i.id)
    <3>1. find_by_id(d.identities, i.id) \in Range(d.identities)
      BY <2>1, FirstOf DEF DocOK, RecordsOK
    <3> QED BY <1>1, <2>1, <3>1 DEF OldPassword, DocOK, RecordsOK, IdentityOK
  <2>2. CASE ~Present(d.identities, i.id)
    BY <1>1, <2>2 DEF OldPassword
  <2> QED BY <2>1, <2>2
<1>3. PICK pw : pw = IF typed THEN "master" ELSE IF i.key # None THEN None ELSE old
  OBVIOUS
<1>4. CASE i.prompts
  <2>1. IdentityToSave(d.identities, i, typed) = [i EXCEPT !.pw = None, !.key = None]
    BY <1>4 DEF IdentityToSave
  <2>2. PICK t : t = [i EXCEPT !.pw = None, !.key = None]
    OBVIOUS
  <2>3. IsIdentity(t) /\ t.pw = None /\ t.key = None
    BY <2>2 DEF IsIdentity, IsRecord
  <2> QED BY <2>1, <2>2, <2>3 DEF IdentityOK
<1>5. CASE ~i.prompts
  <2>1. IdentityToSave(d.identities, i, typed) = [i EXCEPT !.pw = pw]
    BY <1>1, <1>3, <1>5 DEF IdentityToSave
  <2>2. PICK t : t = [i EXCEPT !.pw = pw]
    OBVIOUS
  <2>3. IsIdentity(t) /\ t.pw = pw /\ t.prompts = i.prompts
    BY <2>2 DEF IsIdentity, IsRecord
  <2> QED BY <1>2, <1>3, <1>5, <2>1, <2>2, <2>3 DEF IdentityOK
<1> QED BY <1>4, <1>5

LEMMA Forgets ==
  ASSUME NEW d, RecordsOK(d), NEW ids
  PROVE  /\ RecordsOK(forget_references_to(d, ids))
         /\ Ids(forget_references_to(d, ids).servers) = Ids(d.servers)
         /\ forget_references_to(d, ids).history = d.history
<1> DEFINE gone(x) == IF x \in ids THEN None ELSE x
           server(s) == [s EXCEPT !.identity = gone(@), !.key = gone(@), !.jump = gone(@)]
           identity(i) == [i EXCEPT !.key = gone(@)]
           rule(r) == [r EXCEPT !.via = gone(@)]
<1>1. ASSUME NEW s, ServerOK(s) PROVE ServerOK(server(s)) /\ server(s).id = s.id
  <2>1. PICK t : t = server(s)
    OBVIOUS
  <2>2. IsServer(t) /\ t.id = s.id /\ t.pw = s.pw /\ t.prompts = s.prompts /\ t.key = gone(s.key)
    BY <1>1, <2>1 DEF ServerOK, IsServer, IsRecord
  <2> QED BY <1>1, <2>1, <2>2 DEF ServerOK
<1>2. ASSUME NEW i, IdentityOK(i) PROVE IdentityOK(identity(i))
  <2>1. PICK t : t = identity(i)
    OBVIOUS
  <2>2. IsIdentity(t) /\ t.pw = i.pw /\ t.prompts = i.prompts /\ t.key = gone(i.key)
    BY <1>2, <2>1 DEF IdentityOK, IsIdentity, IsRecord
  <2> QED BY <1>2, <2>1, <2>2 DEF IdentityOK
<1>3. ASSUME NEW r, IsRule(r) PROVE IsRule(rule(r))
  BY <1>3 DEF IsRule, IsRecord
<1>4. PICK S, I, R : /\ S = [n \in DOMAIN d.servers |-> server(d.servers[n])]
                     /\ I = [n \in DOMAIN d.identities |-> identity(d.identities[n])]
                     /\ R = [n \in DOMAIN d.rules |-> rule(d.rules[n])]
  OBVIOUS
<1>5. PICK e : e = forget_references_to(d, ids)
  OBVIOUS
<1>6. e = [d EXCEPT !.servers = S, !.identities = I, !.rules = R]
  BY <1>4, <1>5 DEF forget_references_to, Mapped
<1>7. /\ IsRecord(e, Parts6) /\ e.servers = S /\ e.identities = I /\ e.keys = d.keys
      /\ e.rules = R /\ e.history = d.history
  <2>1. IsRecord(d, Parts6)
    BY DEF RecordsOK
  <2> QED BY <1>6, <2>1 DEF IsRecord, Parts6
<1>8. IsList(S) /\ (\A s \in Range(S) : ServerOK(s)) /\ Ids(S) = Ids(d.servers)
  <2> HIDE DEF server
  <2>1. \A n \in DOMAIN d.servers : d.servers[n] \in Range(d.servers) /\ ServerOK(d.servers[n])
    BY DEF RecordsOK, Range
  <2>2. \A n \in DOMAIN d.servers : ServerOK(S[n]) /\ S[n].id = d.servers[n].id
    BY <1>1, <1>4, <2>1
  <2>3. DOMAIN S = DOMAIN d.servers
    BY <1>4
  <2>4. IsList(S)
    <3>1. S \in [DOMAIN d.servers -> Range(S)]
      BY <1>4, <2>3 DEF Range
    <3>2. IsList(d.servers)
      BY DEF RecordsOK
    <3> QED BY <2>3, <3>1, <3>2, RemadeIs
  <2>5. Ids(S) = Ids(d.servers)
    BY <2>2, <2>3 DEF Ids, Range
  <2> QED BY <2>2, <2>3, <2>4, <2>5 DEF Range
<1>9. IsList(I) /\ \A i \in Range(I) : IdentityOK(i)
  <2> HIDE DEF identity
  <2>1. \A n \in DOMAIN d.identities : IdentityOK(d.identities[n])
    BY DEF RecordsOK, Range
  <2>2. \A n \in DOMAIN d.identities : IdentityOK(I[n])
    BY <1>2, <1>4, <2>1
  <2>3. DOMAIN I = DOMAIN d.identities
    BY <1>4
  <2>4. IsList(I)
    <3>1. I \in [DOMAIN d.identities -> Range(I)]
      BY <1>4, <2>3 DEF Range
    <3>2. IsList(d.identities)
      BY DEF RecordsOK
    <3> QED BY <2>3, <3>1, <3>2, RemadeIs
  <2> QED BY <2>2, <2>3, <2>4 DEF Range
<1>10. IsList(R) /\ \A r \in Range(R) : IsRule(r)
  <2> HIDE DEF rule
  <2>1. \A n \in DOMAIN d.rules : IsRule(d.rules[n])
    BY DEF RecordsOK, Range
  <2>2. \A n \in DOMAIN d.rules : IsRule(R[n])
    BY <1>3, <1>4, <2>1
  <2>3. DOMAIN R = DOMAIN d.rules
    BY <1>4
  <2>4. IsList(R)
    <3>1. R \in [DOMAIN d.rules -> Range(R)]
      BY <1>4, <2>3 DEF Range
    <3>2. IsList(d.rules)
      BY DEF RecordsOK
    <3> QED BY <2>3, <3>1, <3>2, RemadeIs
  <2> QED BY <2>2, <2>3, <2>4 DEF Range
<1>11. RecordsOK(e)
  BY <1>7, <1>8, <1>9, <1>10 DEF RecordsOK
<1> QED BY <1>5, <1>7, <1>8, <1>11

LEMMA RemoveServers ==
  ASSUME NEW d, DocOK(d), NEW ids, NEW g, g = remove_servers(d, ids)
  PROVE  DocOK(g) /\ Ids(g.servers) \subseteq Ids(d.servers)
<1>1. PICK l : l = Without(d.servers, ids)
  OBVIOUS
<1>2. IsList(l) /\ Range(l) \subseteq Range(d.servers) /\ Ids(l) = Ids(d.servers) \ ids
  BY <1>1, WithoutIs DEF DocOK, RecordsOK
<1>3. PICK e : e = [d EXCEPT !.servers = l]
  OBVIOUS
<1>4. /\ IsRecord(e, Parts6) /\ e.servers = l /\ e.identities = d.identities /\ e.keys = d.keys
      /\ e.rules = d.rules /\ e.history = d.history
  <2>1. IsRecord(d, Parts6)
    BY DEF DocOK, RecordsOK
  <2> QED BY <1>3, <2>1 DEF IsRecord, Parts6
<1>5. RecordsOK(e)
  BY <1>2, <1>4 DEF DocOK, RecordsOK
<1>6. PICK f : f = forget_references_to(e, ids)
  OBVIOUS
<1>7. RecordsOK(f) /\ Ids(f.servers) = Ids(l) /\ f.history = d.history
  BY <1>4, <1>5, <1>6, Forgets
<1>8. PICK m : m = Off(f.marks, ids)
  OBVIOUS
<1>9. g = [f EXCEPT !.marks = m, !.history = d.history \ ids]
  BY <1>1, <1>3, <1>6, <1>7, <1>8 DEF remove_servers
<1>10. /\ IsRecord(g, Parts6) /\ g.servers = f.servers /\ g.identities = f.identities
       /\ g.keys = f.keys /\ g.rules = f.rules /\ g.history = d.history \ ids
  <2>1. IsRecord(f, Parts6)
    BY <1>7 DEF RecordsOK
  <2> QED BY <1>9, <2>1 DEF IsRecord, Parts6
<1>11. DocOK(g)
  BY <1>2, <1>7, <1>10 DEF DocOK, RecordsOK
<1> QED BY <1>2, <1>7, <1>10, <1>11

LEMMA RemoveIdentities ==
  ASSUME NEW d, DocOK(d), NEW ids,
         NEW f, f = forget_references_to([d EXCEPT !.identities = Without(@, ids)], ids)
  PROVE  DocOK(f) /\ Ids(f.servers) \subseteq Ids(d.servers)
<1>1. PICK l : l = Without(d.identities, ids)
  OBVIOUS
<1>2. IsList(l) /\ Range(l) \subseteq Range(d.identities)
  BY <1>1, WithoutIs DEF DocOK, RecordsOK
<1>3. PICK e : e = [d EXCEPT !.identities = l]
  OBVIOUS
<1>4. /\ IsRecord(e, Parts6) /\ e.servers = d.servers /\ e.identities = l /\ e.keys = d.keys
      /\ e.rules = d.rules /\ e.history = d.history
  <2>1. IsRecord(d, Parts6)
    BY DEF DocOK, RecordsOK
  <2> QED BY <1>3, <2>1 DEF IsRecord, Parts6
<1>5. RecordsOK(e)
  BY <1>2, <1>4 DEF DocOK, RecordsOK
<1>6. f = forget_references_to(e, ids)
  BY <1>1, <1>3
<1>7. RecordsOK(f) /\ Ids(f.servers) = Ids(e.servers) /\ f.history = e.history
  BY <1>5, <1>6, Forgets
<1>8. DocOK(f)
  BY <1>4, <1>7 DEF DocOK
<1> QED BY <1>4, <1>7, <1>8

LEMMA RemoveKeys ==
  ASSUME NEW d, DocOK(d), NEW ids,
         NEW f, f = forget_references_to([d EXCEPT !.keys = Without(@, ids)], ids)
  PROVE  DocOK(f) /\ Ids(f.servers) \subseteq Ids(d.servers)
<1>1. PICK l : l = Without(d.keys, ids)
  OBVIOUS
<1>2. IsList(l) /\ Range(l) \subseteq Range(d.keys)
  BY <1>1, WithoutIs DEF DocOK, RecordsOK
<1>3. PICK e : e = [d EXCEPT !.keys = l]
  OBVIOUS
<1>4. /\ IsRecord(e, Parts6) /\ e.servers = d.servers /\ e.identities = d.identities
      /\ e.keys = l /\ e.rules = d.rules /\ e.history = d.history
  <2>1. IsRecord(d, Parts6)
    BY DEF DocOK, RecordsOK
  <2> QED BY <1>3, <2>1 DEF IsRecord, Parts6
<1>5. RecordsOK(e)
  BY <1>2, <1>4 DEF DocOK, RecordsOK
<1>6. f = forget_references_to(e, ids)
  BY <1>1, <1>3
<1>7. RecordsOK(f) /\ Ids(f.servers) = Ids(e.servers) /\ f.history = e.history
  BY <1>5, <1>6, Forgets
<1>8. DocOK(f)
  BY <1>4, <1>7 DEF DocOK
<1> QED BY <1>4, <1>7, <1>8

\* The keys of these ids are stored, the others as they were.
KeysStored(old, l, ids) ==
    /\ l \in [DOMAIN old -> Range(l)]
    /\ \A n \in DOMAIN old :
          l[n] = IF old[n].id \in ids THEN [old[n] EXCEPT !.held = "master", !.path = None]
                 ELSE old[n]

LEMMA StoreKeys ==
  ASSUME NEW d, DocOK(d), NEW ids, NEW l, KeysStored(d.keys, l, ids),
         NEW e, e = [d EXCEPT !.keys = l]
  PROVE  DocOK(e) /\ Ids(e.servers) \subseteq Ids(d.servers)
<1> DEFINE kept(k) == [k EXCEPT !.held = "master", !.path = None]
           key(k) == IF k.id \in ids THEN kept(k) ELSE k
<1>1. ASSUME NEW k, KeyOK(k) PROVE KeyOK(key(k))
  <2>1. PICK t : t = kept(k)
    OBVIOUS
  <2>2. IsKey(t) /\ t.held = "master" /\ t.id = k.id
    BY <1>1, <2>1 DEF KeyOK, IsKey, IsRecord
  <2> QED BY <1>1, <2>1, <2>2 DEF KeyOK
<1>2. /\ l \in [DOMAIN d.keys -> Range(l)]
      /\ \A n \in DOMAIN d.keys : l[n] = key(d.keys[n])
  BY DEF KeysStored
<1>3. IsList(l) /\ \A k \in Range(l) : KeyOK(k)
  <2> HIDE DEF key
  <2>1. \A n \in DOMAIN d.keys : KeyOK(d.keys[n])
    BY DEF DocOK, RecordsOK, Range
  <2>2. \A n \in DOMAIN d.keys : KeyOK(l[n])
    BY <1>1, <1>2, <2>1
  <2>3. DOMAIN l = DOMAIN d.keys
    BY <1>2
  <2>4. IsList(l)
    <3>1. l \in [DOMAIN d.keys -> Range(l)]
      BY <1>2, <2>3 DEF Range
    <3>2. IsList(d.keys)
      BY DEF DocOK, RecordsOK
    <3> QED BY <2>3, <3>1, <3>2, RemadeIs
  <2> QED BY <2>2, <2>3, <2>4 DEF Range
<1>4. e = [d EXCEPT !.keys = l]
  OBVIOUS
<1>5. /\ IsRecord(e, Parts6) /\ e.servers = d.servers /\ e.identities = d.identities
      /\ e.keys = l /\ e.rules = d.rules /\ e.history = d.history
  <2>1. IsRecord(d, Parts6)
    BY DEF DocOK, RecordsOK
  <2> QED BY <1>4, <2>1 DEF IsRecord, Parts6
<1>6. DocOK(e)
  BY <1>3, <1>5 DEF DocOK, RecordsOK
<1> QED BY <1>5, <1>6

----------------------------------------------------------------------------
(* The merge of an import *)

LEMMA MergeFolds ==
  ASSUME NEW kind, NEW current, NEW incoming, IsList(incoming), NEW S,
         [list |-> current, added |-> {}, ids |-> {}] \in S,
         \A so \in S : \A x \in Range(incoming) : Merging(kind, so, x) \in S
  PROVE  merge_into(incoming, current, kind) \in S
<1> DEFINE N == Len(incoming)
           op(so, x) == Merging(kind, so, x)
           G == [n \in 1 .. N |-> [so \in S |-> op(so, incoming[n])]]
           Is(g) == g = [s \in SUBSET (DOMAIN incoming) |->
                           IF s = {} THEN [list |-> current, added |-> {}, ids |-> {}]
                           ELSE op(g[s \ {Max(s)}], incoming[Max(s)])]
           it == CHOOSE g : Is(g)
<1>1. N \in Nat /\ DOMAIN incoming = 1 .. N /\ \A n \in 1 .. N : incoming[n] \in Range(incoming)
  BY ListIs
<1>2. merge_into(incoming, current, kind) = it[DOMAIN incoming]
  BY DEF merge_into, FoldLeft, MapThenFoldSet
<1> HIDE DEF N, op
<1>3. G \in [1 .. N -> [S -> S]]
  BY <1>1 DEF op
<1>4. PICK b : b = [list |-> current, added |-> {}, ids |-> {}] /\ b \in S
  OBVIOUS
<1>5. PICK g : Folds(g, N, S, b, G)
  <2> HIDE DEF G
  <2> QED BY <1>1, <1>3, <1>4, FoldExists
<1>6. Is(g)
  <2> HIDE DEF G
  <2>1. g = [s \in SUBSET (DOMAIN incoming) |->
               IF s = {} THEN b ELSE op(g[s \ {Max(s)}], incoming[Max(s)])]
    <3>1. ASSUME NEW s \in SUBSET (1 .. N), s # {}
          PROVE  g[s] = op(g[s \ {Max(s)}], incoming[Max(s)])
      <4>1. N \in Nat /\ s \in SUBSET (1 .. N) /\ s # {}
        BY <1>1, <3>1
      <4>2. Max(s) \in s
        BY <4>1, MaxIs
      <4>3. Max(s) \in 1 .. N /\ s \ {Max(s)} \in SUBSET (1 .. N)
        BY <4>1, <4>2
      <4>4. g[s \ {Max(s)}] \in S /\ g[s] = G[Max(s)][g[s \ {Max(s)}]]
        BY <1>5, <3>1, <4>3 DEF Folds
      <4> QED BY <4>3, <4>4 DEF G
    <3>2. g \in [SUBSET (1 .. N) -> S] /\ g[{}] = b
      BY <1>5 DEF Folds
    <3> QED BY <1>1, <3>1, <3>2
  <2> QED BY <1>4, <2>1
<1>7. Is(it)
  <2> HIDE DEF Is
  <2> QED BY <1>6
<1> HIDE DEF it, G
<1>8. it = [s \in SUBSET (1 .. N) |->
              IF s = {} THEN b ELSE op(it[s \ {Max(s)}], incoming[Max(s)])]
  BY <1>1, <1>4, <1>7
<1> HIDE DEF Is
<1> DEFINE T == {n \in 0 .. N : it[1 .. n] \in S}
<1>9. 0 \in T
  <2>1. 1 .. 0 = {} /\ 1 .. 0 \in SUBSET (1 .. N)
    BY <1>1
  <2>2. it[1 .. 0] = b
    BY <1>8, <2>1
  <2> QED BY <1>1, <1>4, <2>2
<1>10. ASSUME NEW n \in 1 .. N, n - 1 \in T PROVE n \in T
  <2>0. n \in Nat /\ n # 0 /\ n \in 0 .. N /\ n \in 1 .. n
    BY <1>1
  <2>1. 1 .. n # {} /\ 1 .. n \in SUBSET (1 .. N)
    <3>1. 1 .. n \subseteq 1 .. N
      BY <1>1, <2>0
    <3> QED BY <2>0, <3>1
  <2>2. Max(1 .. n) = n /\ (1 .. n) \ {n} = 1 .. n - 1
    BY <2>0, MaxUpTo
  <2>3. it[1 .. n] = op(it[1 .. n - 1], incoming[n])
    BY <1>8, <2>1, <2>2
  <2>4. it[1 .. n - 1] \in S
    BY <1>10
  <2>5. op(it[1 .. n - 1], incoming[n]) \in S
    BY <1>1, <2>4 DEF op
  <2> QED BY <2>0, <2>3, <2>5
<1>11. N \in T
  <2> HIDE DEF T
  <2> QED BY <1>1, <1>9, <1>10, Upwards
<1> QED BY <1>1, <1>2, <1>11

\* The list grown from another: what was there stays where it was.
Grown(old, list) == DOMAIN old \subseteq DOMAIN list /\ \A n \in DOMAIN old : list[n] = old[n]

\* What a merge holds halfway: a list grown from the one there was by records
\* of the file, their ids apart from those there were, and for each id the
\* file has the one it is known by here.
Merges(so, current, incoming) ==
    /\ so \in [list : Seq(Range(current) \cup Range(incoming)), added : SUBSET Ids(incoming),
               ids : SUBSET (Ids(incoming) \X {r.id : r \in Range(current) \cup Range(incoming)})]
    /\ Grown(current, so.list)
    /\ \A x \in Range(current) : x.id \notin so.added
    /\ \A n \in DOMAIN so.list \ DOMAIN current : so.list[n].id \in so.added
    /\ \A p \in so.ids : p[2] \in Ids(so.list)

Kinds == {"servers", "identities", "keys", "rules"}

LEMMA MergingStep ==
  ASSUME NEW kind \in Kinds, NEW current, NEW incoming, NEW so, Merges(so, current, incoming),
         NEW x \in Range(incoming)
  PROVE  Merges(Merging(kind, so, x), current, incoming)
<1> DEFINE U == Range(current) \cup Range(incoming)
           hits == {n \in DOMAIN so.list : Same(kind, x, so.list[n])}
<1>1. IsList(so.list) /\ x.id \in Ids(incoming)
  <2>1. so.list \in Seq(U)
    BY DEF Merges
  <2> QED BY <2>1, ListOver DEF Ids
<1>2. PICK t : t = Merging(kind, so, x)
  OBVIOUS
<1>3. CASE hits = {}
  <2>1. t = [list |-> Append(so.list, x), added |-> so.added \union {x.id},
             ids |-> so.ids \union {<<x.id, x.id>>}]
    BY <1>2, <1>3 DEF Merging
  <2>2. PICK l : l = Append(so.list, x)
    OBVIOUS
  <2>3. /\ l \in Seq(U) /\ Range(l) = Range(so.list) \cup {x}
        /\ DOMAIN so.list \subseteq DOMAIN l
        /\ \A n \in DOMAIN so.list : l[n] = so.list[n]
        /\ \A n \in DOMAIN l \ DOMAIN so.list : l[n] = x
    <3>1. so.list \in Seq(U) /\ x \in U
      BY DEF Merges
    <3>2. PICK q \in Seq(U) : q = so.list
      BY <3>1
    <3> HIDE DEF U
    <3> QED BY <2>2, <3>1, <3>2, AppendedIs
  <2>4. Grown(current, l)
    BY <2>3 DEF Merges, Grown
  <2>5. ASSUME NEW y \in Range(current) PROVE y.id \notin so.added \union {x.id}
    <3>1. PICK n \in DOMAIN current : y = current[n]
      BY DEF Range
    <3>2. n \in DOMAIN so.list /\ so.list[n] = y
      BY <3>1 DEF Merges, Grown
    <3>3. ~Same(kind, x, y)
      BY <1>3, <3>2
    <3>4. x.id # y.id
      BY <3>3 DEF Same, same_server, same_identity, same_key, same_forwarding, Kinds
    <3> QED BY <3>4 DEF Merges
  <2>6. ASSUME NEW n \in DOMAIN l \ DOMAIN current PROVE l[n].id \in so.added \union {x.id}
    BY <2>3, <2>6 DEF Merges
  <2>7. ASSUME NEW p \in so.ids \union {<<x.id, x.id>>}
        PROVE  p[2] \in Ids(l)
    <3>1. Ids(so.list) \subseteq Ids(l) /\ x.id \in Ids(l)
      BY <2>3 DEF Ids
    <3> QED BY <2>7, <3>1 DEF Merges
  <2>8. t.list = l /\ t.added = so.added \union {x.id} /\ t.ids = so.ids \union {<<x.id, x.id>>}
    BY <2>1, <2>2
  <2> HIDE DEF hits
  <2>9. t \in [list : Seq(U), added : SUBSET Ids(incoming),
               ids : SUBSET (Ids(incoming) \X {r.id : r \in U})]
    BY <1>1, <2>1, <2>2, <2>3 DEF Merges
  <2>10. Merges(t, current, incoming)
    BY <2>4, <2>5, <2>6, <2>7, <2>8, <2>9 DEF Merges
  <2> QED BY <1>2, <2>10
<1>4. CASE hits # {}
  <2> DEFINE first == CHOOSE n \in hits : \A m \in hits : n <= m
  <2>1. first \in DOMAIN so.list
    <3>1. hits \in SUBSET Nat
      <4>1. DOMAIN so.list = 1 .. Len(so.list)
        BY <1>1, ListIs
      <4> QED BY <4>1
    <3>2. \E n \in hits : \A m \in hits : n <= m
      <4> HIDE DEF hits
      <4> QED BY <1>4, <3>1, LeastOf
    <3>3. first \in hits
      <4> HIDE DEF hits
      <4> QED BY <3>2
    <3> HIDE DEF first
    <3> QED BY <3>3
  <2> DEFINE id == so.list[first].id
  <2>2. t = [so EXCEPT !.ids = @ \union {<<x.id, id>>}]
    BY <1>2, <1>4 DEF Merging
  <2>3. id \in Ids(so.list)
    <3> HIDE DEF first
    <3> QED BY <2>1 DEF Ids, Range
  <2> HIDE DEF id
  <2>4. id \in {r.id : r \in U}
    <3>1. Range(so.list) \subseteq U
      BY DEF Merges, Range
    <3> QED BY <2>3, <3>1 DEF Ids
  <2>5. /\ t \in [list : Seq(U), added : SUBSET Ids(incoming),
                  ids : SUBSET (Ids(incoming) \X {r.id : r \in U})]
        /\ t.list = so.list /\ t.added = so.added /\ t.ids = so.ids \union {<<x.id, id>>}
    BY <1>1, <2>2, <2>4 DEF Merges
  <2> QED BY <1>2, <2>3, <2>5 DEF Merges
<1> QED BY <1>3, <1>4

LEMMA MergedIs ==
  ASSUME NEW kind \in Kinds, NEW current, IsList(current), NEW incoming, IsList(incoming),
         NEW m, m = merge_into(incoming, current, kind)
  PROVE  /\ Merges(m, current, incoming) /\ IsList(m.list)
         /\ Range(current) \subseteq Range(m.list) /\ Ids(current) \subseteq Ids(m.list)
         /\ Range(m.list) \subseteq Range(current) \cup Range(incoming)
<1> DEFINE U == Range(current) \cup Range(incoming)
           A == Ids(incoming)
           B == {r.id : r \in U}
           S == {so \in [list : Seq(U), added : SUBSET A, ids : SUBSET (A \X B)] :
                   Merges(so, current, incoming)}
<1>1. ASSUME NEW so \in S, NEW x \in Range(incoming) PROVE Merging(kind, so, x) \in S
  <2>1. Merges(Merging(kind, so, x), current, incoming)
    BY MergingStep
  <2> QED BY <2>1 DEF Merges
<1>2. PICK b : b = [list |-> current, added |-> {}, ids |-> {}]
  OBVIOUS
<1>3. b \in S
  <2>1. current \in Seq(Range(current)) /\ Range(current) \subseteq U
    BY DEF IsList
  <2>2. current \in Seq(U)
    <3> HIDE DEF U
    <3> QED BY <2>1, SeqMonotonic
  <2>3. b.list = current /\ b.added = {} /\ b.ids = {}
    BY <1>2
  <2>4. b \in [list : Seq(U), added : SUBSET A, ids : SUBSET (A \X B)]
    BY <1>2, <2>2
  <2>5. Merges(b, current, incoming)
    BY <2>3, <2>4 DEF Merges, Grown
  <2> QED BY <2>4, <2>5
<1>4. m \in S
  <2> HIDE DEF S
  <2> QED BY <1>1, <1>2, <1>3, MergeFolds
<1>5. Merges(m, current, incoming)
  BY <1>4
<1>6. IsList(m.list) /\ Range(m.list) \subseteq U
  <2>1. m.list \in Seq(U)
    BY <1>5 DEF Merges
  <2> QED BY <2>1, ListOver
<1>7. Range(current) \subseteq Range(m.list)
  BY <1>5 DEF Merges, Grown, Range
<1> QED BY <1>5, <1>6, <1>7 DEF Ids

\* What a file is, whoever wrote it.
FileOK(d) == IsDocument(d) /\ OneWay(d) /\ \A k \in Range(d.keys) : k.id # None

LEMMA RekeyIs ==
  ASSUME NEW d, FileOK(d), NEW from, from # None, NEW to
  PROVE  /\ FileOK(rekey_all(d, from, to)) /\ SealedUnder(rekey_all(d, from, to), to)
         /\ Ids(rekey_all(d, from, to).servers) = Ids(d.servers)
<1> DEFINE server(s) == [s EXCEPT !.pw = rekey(@, from, to)]
           key(k) == [k EXCEPT !.held = rekey(@, from, to)]
           OneS(s) == IsServer(s) /\ (s.key # None \/ s.prompts => s.pw = None)
           OneI(i) == IsIdentity(i) /\ (i.prompts => i.pw = None /\ i.key = None)
           OneK(k) == IsKey(k) /\ k.id # None
<1>1. ASSUME NEW s, OneS(s) PROVE OneS(server(s)) /\ server(s).pw \in {None, to}
  <2>1. PICK t, pw : t = server(s) /\ pw = rekey(s.pw, from, to)
    OBVIOUS
  <2>2. pw \in {None, to} /\ (s.pw = None => pw = None)
    BY <2>1 DEF rekey
  <2>3. IsServer(t) /\ t.key = s.key /\ t.prompts = s.prompts /\ t.pw = pw
    BY <1>1, <2>1 DEF IsServer, IsRecord
  <2> QED BY <1>1, <2>1, <2>2, <2>3
<1>2. ASSUME NEW i, OneI(i) PROVE OneI(server(i)) /\ server(i).pw \in {None, to}
  <2>1. PICK t, pw : t = server(i) /\ pw = rekey(i.pw, from, to)
    OBVIOUS
  <2>2. pw \in {None, to} /\ (i.pw = None => pw = None)
    BY <2>1 DEF rekey
  <2>3. IsIdentity(t) /\ t.key = i.key /\ t.prompts = i.prompts /\ t.pw = pw
    BY <1>2, <2>1 DEF IsIdentity, IsRecord
  <2> QED BY <1>2, <2>1, <2>2, <2>3
<1>3. ASSUME NEW k, OneK(k) PROVE OneK(key(k)) /\ key(k).held \in {None, to}
  <2>1. PICK t, held : t = key(k) /\ held = rekey(k.held, from, to)
    OBVIOUS
  <2>2. held \in {None, to}
    BY <2>1 DEF rekey
  <2>3. IsKey(t) /\ t.id = k.id /\ t.held = held
    BY <1>3, <2>1 DEF IsKey, IsRecord
  <2> QED BY <1>3, <2>1, <2>2, <2>3
<1>4. PICK S, I, K : /\ S = [n \in DOMAIN d.servers |-> server(d.servers[n])]
                     /\ I = [n \in DOMAIN d.identities |-> server(d.identities[n])]
                     /\ K = [n \in DOMAIN d.keys |-> key(d.keys[n])]
  OBVIOUS
<1>5. PICK e : e = rekey_all(d, from, to)
  OBVIOUS
<1>6. e = [d EXCEPT !.servers = S, !.identities = I, !.keys = K]
  BY <1>4, <1>5 DEF rekey_all, Mapped
<1>7. /\ IsRecord(e, Parts6) /\ e.servers = S /\ e.identities = I /\ e.keys = K
      /\ e.rules = d.rules
  <2>1. IsRecord(d, Parts6)
    BY DEF FileOK, IsDocument, Parts6
  <2> QED BY <1>6, <2>1 DEF IsRecord, Parts6
<1>8. IsList(S) /\ \A s \in Range(S) : OneS(s) /\ s.pw \in {None, to}
  <2>1. \A n \in DOMAIN d.servers : OneS(d.servers[n])
    BY DEF FileOK, IsDocument, OneWay, Range
  <2> HIDE DEF server, OneS
  <2>2. \A n \in DOMAIN d.servers : OneS(S[n]) /\ S[n].pw \in {None, to}
    BY <1>1, <1>4, <2>1
  <2>3. DOMAIN S = DOMAIN d.servers
    BY <1>4
  <2>4. IsList(S)
    <3>1. S \in [DOMAIN d.servers -> Range(S)]
      BY <1>4, <2>3 DEF Range
    <3>2. IsList(d.servers)
      BY DEF FileOK, IsDocument
    <3> QED BY <2>3, <3>1, <3>2, RemadeIs
  <2> QED BY <2>2, <2>3, <2>4 DEF Range
<1>9. IsList(I) /\ \A i \in Range(I) : OneI(i) /\ i.pw \in {None, to}
  <2>1. \A n \in DOMAIN d.identities : OneI(d.identities[n])
    BY DEF FileOK, IsDocument, OneWay, Range
  <2> HIDE DEF server, OneI
  <2>2. \A n \in DOMAIN d.identities : OneI(I[n]) /\ I[n].pw \in {None, to}
    BY <1>2, <1>4, <2>1
  <2>3. DOMAIN I = DOMAIN d.identities
    BY <1>4
  <2>4. IsList(I)
    <3>1. I \in [DOMAIN d.identities -> Range(I)]
      BY <1>4, <2>3 DEF Range
    <3>2. IsList(d.identities)
      BY DEF FileOK, IsDocument
    <3> QED BY <2>3, <3>1, <3>2, RemadeIs
  <2> QED BY <2>2, <2>3, <2>4 DEF Range
<1>10. IsList(K) /\ \A k \in Range(K) : OneK(k) /\ k.held \in {None, to}
  <2>1. \A n \in DOMAIN d.keys : OneK(d.keys[n])
    BY DEF FileOK, IsDocument, OneWay, Range
  <2> HIDE DEF key, OneK
  <2>2. \A n \in DOMAIN d.keys : OneK(K[n]) /\ K[n].held \in {None, to}
    BY <1>3, <1>4, <2>1
  <2>3. DOMAIN K = DOMAIN d.keys
    BY <1>4
  <2>4. IsList(K)
    <3>1. K \in [DOMAIN d.keys -> Range(K)]
      BY <1>4, <2>3 DEF Range
    <3>2. IsList(d.keys)
      BY DEF FileOK, IsDocument
    <3> QED BY <2>3, <3>1, <3>2, RemadeIs
  <2> QED BY <2>2, <2>3, <2>4 DEF Range
<1>11. IsList(e.rules) /\ \A r \in Range(e.rules) : IsRule(r)
  BY <1>7 DEF FileOK, IsDocument
<1>12. FileOK(e) /\ SealedUnder(e, to)
  BY <1>7, <1>8, <1>9, <1>10, <1>11 DEF FileOK, IsDocument, OneWay, SealedUnder, Parts6
<1>13. Ids(S) = Ids(d.servers)
  <2>1. \A n \in DOMAIN d.servers : S[n].id = d.servers[n].id
    <3>1. ASSUME NEW n \in DOMAIN d.servers PROVE S[n].id = d.servers[n].id
      <4>1. PICK s : s = d.servers[n]
        OBVIOUS
      <4>2. IsServer(s)
        BY <3>1, <4>1 DEF FileOK, IsDocument, Range
      <4>3. server(s).id = s.id
        BY <4>2 DEF IsServer, IsRecord
      <4> QED BY <1>4, <4>1, <4>3
    <3> QED BY <3>1
  <2>2. DOMAIN S = DOMAIN d.servers
    BY <1>4
  <2> HIDE DEF server
  <2> QED BY <2>1, <2>2 DEF Ids, Range
<1> QED BY <1>5, <1>7, <1>12, <1>13

LEMMA ExportIs ==
  ASSUME NEW d, DocOK(d), NEW secrets
  PROVE  /\ FileOK(build_export(d, secrets))
         /\ Ids(build_export(d, secrets).servers) = Ids(d.servers)
<1>1. PICK e : e = [d EXCEPT !.marks = <<>>, !.history = {}]
  OBVIOUS
<1>2. /\ IsRecord(e, Parts6) /\ e.servers = d.servers /\ e.identities = d.identities
      /\ e.keys = d.keys /\ e.rules = d.rules
  <2>1. IsRecord(d, Parts6)
    BY DEF DocOK, RecordsOK
  <2> QED BY <1>1, <2>1 DEF IsRecord, Parts6
<1>3. FileOK(d)
  BY SaidTwice DEF FileOK
<1>4. FileOK(e)
  BY <1>2, <1>3 DEF FileOK, IsDocument, OneWay, Parts6
<1>5. PICK from : from = IF secrets THEN "master" ELSE "no secret is"
  OBVIOUS
<1>6. from # None
  BY <1>5, LibraryAssumption DEF LibraryAssumption
<1>7. /\ FileOK(rekey_all(e, from, "export"))
      /\ Ids(rekey_all(e, from, "export").servers) = Ids(e.servers)
  BY <1>4, <1>6, RekeyIs
<1>8. build_export(d, secrets) = rekey_all(e, from, "export")
  BY <1>1, <1>5 DEF build_export
<1> QED BY <1>2, <1>7, <1>8

LEMMA ResolveIs ==
  ASSUME NEW id, NEW ids
  PROVE  resolve(id, ids) = None \/ \E p \in ids : p[1] = id /\ p[2] = resolve(id, ids)
<1>1. CASE \E p \in ids : p[1] = id
  <2> DEFINE q == CHOOSE p \in ids : p[1] = id
  <2>1. q \in ids /\ q[1] = id
    BY <1>1
  <2>2. resolve(id, ids) = q[2]
    BY <1>1 DEF resolve
  <2> HIDE DEF q
  <2> QED BY <2>1, <2>2
<1>2. CASE ~\E p \in ids : p[1] = id
  BY <1>2 DEF resolve
<1> QED BY <1>1, <1>2

\* What an import may do to the document, and where what it adds points.
OnlyAdds(d, e) ==
    /\ Grown(d.servers, e.servers) /\ Grown(d.identities, e.identities)
    /\ Grown(d.keys, e.keys) /\ Grown(d.rules, e.rules)
    /\ e.marks = d.marks /\ e.history = d.history
LinksHome(d, e) ==
    /\ \A n \in DOMAIN e.servers \ DOMAIN d.servers : PointsHome(e, e.servers[n])
    /\ \A n \in DOMAIN e.rules \ DOMAIN d.rules : e.rules[n].via \in Ids(e.servers) \cup {None}

\* Ids made by the command, or the user's step, of this number.
MadeAt(ids, n) == \A id \in ids : \E x : id = Fresh(x, n)
ImportOK(d, e, n) == /\ DocOK(e) /\ OnlyAdds(d, e) /\ LinksHome(d, e)
                     /\ MadeAt(Ids(e.servers) \ Ids(d.servers), n)

LEMMA PointedIs ==
  ASSUME NEW x, ServerOK(x), NEW s, NEW i, NEW k, \A p \in k.ids : p[1] # None,
         NEW t, t = PointedServer(x, s, i, k)
  PROVE  /\ ServerOK(t) /\ t.id = x.id
         /\ t.identity = None \/ \E p \in i.ids : t.identity = p[2]
         /\ t.key = None \/ \E p \in k.ids : t.key = p[2]
         /\ t.jump = None \/ \E p \in s.ids : t.jump = p[2]
<1>1. PICK identity, key, jump, hop : /\ identity = resolve(x.identity, i.ids)
                                      /\ key = resolve(x.key, k.ids)
                                      /\ jump = resolve(x.jump, s.ids)
                                      /\ hop = IF jump = x.id THEN None ELSE jump
  OBVIOUS
<1>2. t = [x EXCEPT !.identity = identity, !.key = key, !.jump = hop]
  BY <1>1 DEF PointedServer
<1>3. /\ IsServer(t) /\ t.id = x.id /\ t.pw = x.pw /\ t.prompts = x.prompts
      /\ t.identity = identity /\ t.key = key /\ t.jump = hop
  BY <1>2 DEF ServerOK, IsServer, IsRecord
<1>4. /\ identity = None \/ \E p \in i.ids : p[1] = x.identity /\ p[2] = identity
      /\ key = None \/ \E p \in k.ids : p[1] = x.key /\ p[2] = key
      /\ jump = None \/ \E p \in s.ids : p[1] = x.jump /\ p[2] = jump
  BY <1>1, ResolveIs
<1>5. key # None => x.key # None
  BY <1>4
<1>6. ServerOK(t)
  BY <1>3, <1>5 DEF ServerOK
<1> QED BY <1>1, <1>3, <1>4, <1>6

LEMMA MergeAdds ==
  ASSUME NEW d, DocOK(d), NEW payload, FileOK(payload), NEW opts,
         NEW e, e = apply_merge(payload, d, opts)
  PROVE  /\ DocOK(e) /\ OnlyAdds(d, e) /\ LinksHome(d, e)
         /\ Ids(e.servers) \subseteq Ids(d.servers) \cup Ids(payload.servers)
<1>1. PICK p : p = rekey_all(payload, "export", "master")
  OBVIOUS
<1>2. FileOK(p) /\ SealedUnder(p, "master") /\ Ids(p.servers) = Ids(payload.servers)
  <2>1. "export" # None
    BY LibraryAssumption DEF LibraryAssumption
  <2> QED BY <1>1, <2>1, RekeyIs
<1>3. RecordsOK(p)
  BY <1>2, SaidTwice DEF FileOK
<1> DEFINE In(kind) == IF kind \in opts THEN p[kind] ELSE <<>>
<1>4. PICK iin, kin, sin, rin : /\ iin = In("identities") /\ kin = In("keys")
                                /\ sin = In("servers") /\ rin = In("rules")
  OBVIOUS
<1>5. /\ IsList(iin) /\ \A x \in Range(iin) : IdentityOK(x)
      /\ IsList(kin) /\ \A x \in Range(kin) : KeyOK(x)
      /\ IsList(sin) /\ \A x \in Range(sin) : ServerOK(x)
      /\ IsList(rin) /\ \A x \in Range(rin) : IsRule(x)
      /\ Range(sin) \subseteq Range(p.servers)
  <2>1. IsList(<<>>) /\ Range(<<>>) = {}
    BY DEF IsList, Range
  <2> QED BY <1>3, <1>4, <2>1 DEF RecordsOK
<1>6. PICK i, k, s, r : /\ i = merge_into(iin, d.identities, "identities")
                        /\ k = merge_into(kin, d.keys, "keys")
                        /\ s = merge_into(sin, d.servers, "servers")
                        /\ r = merge_into(rin, d.rules, "rules")
  OBVIOUS
<1>7. /\ IsList(d.identities) /\ IsList(d.keys) /\ IsList(d.servers) /\ IsList(d.rules)
      /\ "identities" \in Kinds /\ "keys" \in Kinds /\ "servers" \in Kinds /\ "rules" \in Kinds
  BY DEF DocOK, RecordsOK, Kinds
<1>8. /\ Merges(i, d.identities, iin) /\ IsList(i.list)
      /\ Range(i.list) \subseteq Range(d.identities) \cup Range(iin)
  <2>1. PICK c, kind : c = d.identities /\ kind = "identities"
    OBVIOUS
  <2>2. kind \in Kinds /\ IsList(c) /\ IsList(iin) /\ i = merge_into(iin, c, kind)
    BY <1>5, <1>6, <1>7, <2>1
  <2>3. /\ Merges(i, c, iin) /\ IsList(i.list) /\ Ids(c) \subseteq Ids(i.list)
        /\ Range(i.list) \subseteq Range(c) \cup Range(iin)
    BY <2>2, MergedIs
  <2> QED BY <2>1, <2>3
<1>9. /\ Merges(k, d.keys, kin) /\ IsList(k.list)
      /\ Range(k.list) \subseteq Range(d.keys) \cup Range(kin)
  <2>1. PICK c, kind : c = d.keys /\ kind = "keys"
    OBVIOUS
  <2>2. kind \in Kinds /\ IsList(c) /\ IsList(kin) /\ k = merge_into(kin, c, kind)
    BY <1>5, <1>6, <1>7, <2>1
  <2>3. /\ Merges(k, c, kin) /\ IsList(k.list) /\ Ids(c) \subseteq Ids(k.list)
        /\ Range(k.list) \subseteq Range(c) \cup Range(kin)
    BY <2>2, MergedIs
  <2> QED BY <2>1, <2>3
<1>10. /\ Merges(s, d.servers, sin) /\ IsList(s.list) /\ Ids(d.servers) \subseteq Ids(s.list)
       /\ Range(s.list) \subseteq Range(d.servers) \cup Range(sin)
  <2>1. PICK c, kind : c = d.servers /\ kind = "servers"
    OBVIOUS
  <2>2. kind \in Kinds /\ IsList(c) /\ IsList(sin) /\ s = merge_into(sin, c, kind)
    BY <1>5, <1>6, <1>7, <2>1
  <2>3. /\ Merges(s, c, sin) /\ IsList(s.list) /\ Ids(c) \subseteq Ids(s.list)
        /\ Range(s.list) \subseteq Range(c) \cup Range(sin)
    BY <2>2, MergedIs
  <2> QED BY <2>1, <2>3
<1>11. /\ Merges(r, d.rules, rin) /\ IsList(r.list)
       /\ Range(r.list) \subseteq Range(d.rules) \cup Range(rin)
  <2>1. PICK c, kind : c = d.rules /\ kind = "rules"
    OBVIOUS
  <2>2. kind \in Kinds /\ IsList(c) /\ IsList(rin) /\ r = merge_into(rin, c, kind)
    BY <1>5, <1>6, <1>7, <2>1
  <2>3. /\ Merges(r, c, rin) /\ IsList(r.list) /\ Ids(c) \subseteq Ids(r.list)
        /\ Range(r.list) \subseteq Range(c) \cup Range(rin)
    BY <2>2, MergedIs
  <2> QED BY <2>1, <2>3
<1> DEFINE server(x) == IF x.id \in s.added THEN PointedServer(x, s, i, k) ELSE x
           rule(x) == IF x.id \notin r.added THEN x ELSE [x EXCEPT !.via = resolve(@, s.ids)]
<1>12. PICK S, R : /\ S = [n \in DOMAIN s.list |-> server(s.list[n])]
                   /\ R = [n \in DOMAIN r.list |-> rule(r.list[n])]
  OBVIOUS
<1>13. e = [d EXCEPT !.identities = i.list, !.keys = k.list, !.servers = S, !.rules = R]
  <2>1. PICK m : m = [kind \in Kinds |-> merge_into(In(kind), d[kind], kind)]
    OBVIOUS
  <2>2. e = [d EXCEPT
               !.identities = merge_into(In("identities"), d["identities"], "identities").list,
               !.keys = merge_into(In("keys"), d["keys"], "keys").list,
               !.servers = PointAdded(
                             merge_into(In("servers"), d["servers"], "servers").list,
                             merge_into(In("servers"), d["servers"], "servers"),
                             merge_into(In("identities"), d["identities"], "identities"),
                             merge_into(In("keys"), d["keys"], "keys")),
               !.rules = Mapped(merge_into(In("rules"), d["rules"], "rules").list, LAMBDA x :
                           IF x.id \notin merge_into(In("rules"), d["rules"], "rules").added
                           THEN x
                           ELSE [x EXCEPT !.via =
                                   resolve(@, merge_into(In("servers"), d["servers"],
                                                         "servers").ids)])]
    BY <1>1 DEF apply_merge
  <2> HIDE DEF In
  <2>3. e = [d EXCEPT !.identities = i.list, !.keys = k.list,
                      !.servers = PointAdded(s.list, s, i, k),
                      !.rules = Mapped(r.list, LAMBDA x : IF x.id \notin r.added THEN x
                                  ELSE [x EXCEPT !.via = resolve(@, s.ids)])]
    BY <1>4, <1>6, <2>2
  <2> QED BY <1>12, <2>3 DEF PointAdded, Mapped
<1> HIDE DEF In
<1>14. /\ IsRecord(e, Parts6) /\ e.servers = S /\ e.identities = i.list /\ e.keys = k.list
       /\ e.rules = R /\ e.marks = d.marks /\ e.history = d.history
  <2>1. IsRecord(d, Parts6)
    BY DEF DocOK, RecordsOK
  <2> QED BY <1>13, <2>1 DEF IsRecord, Parts6
<1>15. \A q \in k.ids : q[1] # None
  <2>1. \A q \in k.ids : q[1] \in Ids(kin)
    BY <1>9 DEF Merges
  <2> QED BY <1>5, <2>1 DEF Ids, KeyOK
<1>16. ASSUME NEW n \in DOMAIN s.list
       PROVE  /\ ServerOK(S[n]) /\ S[n].id = s.list[n].id
              /\ n \in DOMAIN d.servers => S[n] = d.servers[n]
              /\ n \notin DOMAIN d.servers => PointsHome(e, S[n])
  <2>1. PICK x : x = s.list[n]
    OBVIOUS
  <2>2. x \in Range(s.list)
    BY <2>1 DEF Range
  <2>3. ServerOK(x)
    BY <1>5, <1>10, <2>2 DEF DocOK, RecordsOK
  <2>4. n \in DOMAIN d.servers => x = d.servers[n] /\ x.id \notin s.added
    BY <1>10, <2>1 DEF Merges, Grown, Range
  <2>5. n \notin DOMAIN d.servers => x.id \in s.added
    BY <1>10, <2>1 DEF Merges
  <2>6. CASE x.id \in s.added
    <3>1. S[n] = PointedServer(x, s, i, k)
      BY <1>12, <2>1, <2>6
    <3>2. PICK t : t = PointedServer(x, s, i, k)
      OBVIOUS
    <3>3. /\ ServerOK(t) /\ t.id = x.id
          /\ t.identity = None \/ \E q \in i.ids : t.identity = q[2]
          /\ t.key = None \/ \E q \in k.ids : t.key = q[2]
          /\ t.jump = None \/ \E q \in s.ids : t.jump = q[2]
      BY <1>15, <2>3, <3>2, PointedIs
    <3>4. /\ t.identity \in Ids(i.list) \cup {None} /\ t.key \in Ids(k.list) \cup {None}
          /\ t.jump \in Ids(s.list) \cup {None}
      BY <1>8, <1>9, <1>10, <3>3 DEF Merges
    <3>5. Ids(S) = Ids(s.list)
      <4>1. \A m \in DOMAIN s.list : S[m].id = s.list[m].id
        <5>1. ASSUME NEW m \in DOMAIN s.list PROVE S[m].id = s.list[m].id
          <6>1. PICK y : y = s.list[m]
            OBVIOUS
          <6>2. ServerOK(y)
            BY <1>5, <1>10, <6>1 DEF DocOK, RecordsOK, Range
          <6>3. PointedServer(y, s, i, k).id = y.id
            BY <1>15, <6>2, PointedIs
          <6> QED BY <1>12, <6>1, <6>3
        <5> QED BY <5>1
      <4>2. DOMAIN S = DOMAIN s.list
        BY <1>12
      <4> QED BY <4>1, <4>2 DEF Ids, Range
    <3>6. PointsHome(e, t)
      BY <1>14, <3>4, <3>5 DEF PointsHome
    <3> QED BY <2>1, <2>4, <2>6, <3>1, <3>2, <3>3, <3>6
  <2>7. CASE x.id \notin s.added
    <3>1. S[n] = x
      BY <1>12, <2>1, <2>7
    <3> QED BY <2>1, <2>3, <2>4, <2>5, <2>7, <3>1
  <2> QED BY <2>6, <2>7
<1>17. /\ IsList(S) /\ (\A x \in Range(S) : ServerOK(x)) /\ Ids(S) = Ids(s.list)
       /\ DOMAIN S = DOMAIN s.list
  <2>1. DOMAIN S = DOMAIN s.list
    BY <1>12
  <2>2. S \in [DOMAIN s.list -> Range(S)]
    BY <1>12, <2>1 DEF Range
  <2>3. IsList(S)
    BY <1>10, <2>1, <2>2, RemadeIs
  <2> QED BY <1>16, <2>1, <2>3 DEF Ids, Range
<1>18. ASSUME NEW n \in DOMAIN r.list
       PROVE  /\ IsRule(R[n])
              /\ n \in DOMAIN d.rules => R[n] = d.rules[n]
              /\ n \notin DOMAIN d.rules => R[n].via \in Ids(S) \cup {None}
  <2>1. PICK x, via : x = r.list[n] /\ via = resolve(x.via, s.ids)
    OBVIOUS
  <2>2. IsRule(x)
    BY <1>5, <1>11, <2>1 DEF DocOK, RecordsOK, Range
  <2>3. n \in DOMAIN d.rules => x = d.rules[n] /\ x.id \notin r.added
    BY <1>11, <2>1 DEF Merges, Grown, Range
  <2>4. n \notin DOMAIN d.rules => x.id \in r.added
    BY <1>11, <2>1 DEF Merges
  <2>5. via \in Ids(S) \cup {None}
    <3>1. via = None \/ \E q \in s.ids : q[1] = x.via /\ q[2] = via
      BY <2>1, ResolveIs
    <3> QED BY <1>10, <1>17, <3>1 DEF Merges
  <2>6. PICK t : t = [x EXCEPT !.via = via]
    OBVIOUS
  <2>7. IsRule(t) /\ t.via = via
    BY <2>2, <2>6 DEF IsRule, IsRecord
  <2>8. R[n] = IF x.id \notin r.added THEN x ELSE t
    BY <1>12, <2>1, <2>6
  <2> QED BY <2>2, <2>3, <2>4, <2>5, <2>7, <2>8
<1>19. IsList(R) /\ (\A x \in Range(R) : IsRule(x)) /\ DOMAIN R = DOMAIN r.list
  <2>1. DOMAIN R = DOMAIN r.list
    BY <1>12
  <2>2. R \in [DOMAIN r.list -> Range(R)]
    BY <1>12, <2>1 DEF Range
  <2>3. IsList(R)
    BY <1>11, <2>1, <2>2, RemadeIs
  <2> QED BY <1>18, <2>1, <2>3 DEF Range
<1> HIDE DEF server, rule
<1>20. DocOK(e)
  <2>1. (\A x \in Range(i.list) : IdentityOK(x)) /\ (\A x \in Range(k.list) : KeyOK(x))
    BY <1>5, <1>8, <1>9 DEF DocOK, RecordsOK
  <2>2. RecordsOK(e)
    BY <1>8, <1>9, <1>14, <1>17, <1>19, <2>1 DEF RecordsOK
  <2>3. d.history \subseteq Ids(d.servers)
    BY DEF DocOK
  <2> QED BY <1>10, <1>14, <1>17, <2>2, <2>3 DEF DocOK
<1>21. OnlyAdds(d, e)
  <2>1. Grown(d.identities, i.list) /\ Grown(d.keys, k.list)
    BY <1>8, <1>9 DEF Merges
  <2>2. Grown(d.servers, S)
    <3>1. DOMAIN d.servers \subseteq DOMAIN s.list
      BY <1>10 DEF Merges, Grown
    <3> QED BY <1>16, <1>17, <3>1 DEF Grown
  <2>3. Grown(d.rules, R)
    <3>1. DOMAIN d.rules \subseteq DOMAIN r.list
      BY <1>11 DEF Merges, Grown
    <3> QED BY <1>18, <1>19, <3>1 DEF Grown
  <2> QED BY <1>14, <2>1, <2>2, <2>3 DEF OnlyAdds
<1>22. LinksHome(d, e)
  BY <1>14, <1>16, <1>17, <1>18, <1>19 DEF LinksHome
<1>23. Ids(e.servers) \subseteq Ids(d.servers) \cup Ids(payload.servers)
  BY <1>2, <1>5, <1>10, <1>14, <1>17 DEF Ids
<1> QED BY <1>20, <1>21, <1>22, <1>23

----------------------------------------------------------------------------
(* Another client's file *)

LEMMA TermiusFolds ==
  ASSUME NEW rows, IsList(rows), NEW S,
         Nothing \in S,
         \A so \in S : \A x \in Range(rows) : Taken(so, x.protocol, x.address, x.password) \in S
  PROVE  TermiusHosts(rows) \in S
<1> DEFINE N == Len(rows)
           op(so, x) == Taken(so, x.protocol, x.address, x.password)
           G == [n \in 1 .. N |-> [so \in S |-> op(so, rows[n])]]
           Is(g) == g = [s \in SUBSET (DOMAIN rows) |->
                           IF s = {} THEN Nothing
                           ELSE op(g[s \ {Max(s)}], rows[Max(s)])]
           it == CHOOSE g : Is(g)
<1>1. N \in Nat /\ DOMAIN rows = 1 .. N /\ \A n \in 1 .. N : rows[n] \in Range(rows)
  BY ListIs
<1>2. TermiusHosts(rows) = it[DOMAIN rows]
  BY DEF TermiusHosts, FoldLeft, MapThenFoldSet
<1> HIDE DEF N, op
<1>3. G \in [1 .. N -> [S -> S]]
  BY <1>1 DEF op
<1>4. PICK b : b = Nothing /\ b \in S
  OBVIOUS
<1>5. PICK g : Folds(g, N, S, b, G)
  <2> HIDE DEF G
  <2> QED BY <1>1, <1>3, <1>4, FoldExists
<1>6. Is(g)
  <2> HIDE DEF G
  <2>1. g = [s \in SUBSET (DOMAIN rows) |->
               IF s = {} THEN b ELSE op(g[s \ {Max(s)}], rows[Max(s)])]
    <3>1. ASSUME NEW s \in SUBSET (1 .. N), s # {}
          PROVE  g[s] = op(g[s \ {Max(s)}], rows[Max(s)])
      <4>1. N \in Nat /\ s \in SUBSET (1 .. N) /\ s # {}
        BY <1>1, <3>1
      <4>2. Max(s) \in s
        BY <4>1, MaxIs
      <4>3. Max(s) \in 1 .. N /\ s \ {Max(s)} \in SUBSET (1 .. N)
        BY <4>1, <4>2
      <4>4. g[s \ {Max(s)}] \in S /\ g[s] = G[Max(s)][g[s \ {Max(s)}]]
        BY <1>5, <3>1, <4>3 DEF Folds
      <4> QED BY <4>3, <4>4 DEF G
    <3>2. g \in [SUBSET (1 .. N) -> S] /\ g[{}] = b
      BY <1>5 DEF Folds
    <3> QED BY <1>1, <3>1, <3>2
  <2> QED BY <1>4, <2>1
<1>7. Is(it)
  <2> HIDE DEF Is
  <2> QED BY <1>6
<1> HIDE DEF it, G
<1>8. it = [s \in SUBSET (1 .. N) |->
              IF s = {} THEN b ELSE op(it[s \ {Max(s)}], rows[Max(s)])]
  BY <1>1, <1>4, <1>7
<1> HIDE DEF Is
<1> DEFINE T == {n \in 0 .. N : it[1 .. n] \in S}
<1>9. 0 \in T
  <2>1. 1 .. 0 = {} /\ 1 .. 0 \in SUBSET (1 .. N)
    BY <1>1
  <2>2. it[1 .. 0] = b
    BY <1>8, <2>1
  <2> QED BY <1>1, <1>4, <2>2
<1>10. ASSUME NEW n \in 1 .. N, n - 1 \in T PROVE n \in T
  <2>0. n \in Nat /\ n # 0 /\ n \in 0 .. N /\ n \in 1 .. n
    BY <1>1
  <2>1. 1 .. n # {} /\ 1 .. n \in SUBSET (1 .. N)
    <3>1. 1 .. n \subseteq 1 .. N
      BY <1>1, <2>0
    <3> QED BY <2>0, <3>1
  <2>2. Max(1 .. n) = n /\ (1 .. n) \ {n} = 1 .. n - 1
    BY <2>0, MaxUpTo
  <2>3. it[1 .. n] = op(it[1 .. n - 1], rows[n])
    BY <1>8, <2>1, <2>2
  <2>4. it[1 .. n - 1] \in S
    BY <1>10
  <2>5. op(it[1 .. n - 1], rows[n]) \in S
    BY <1>1, <2>4 DEF op
  <2> QED BY <2>0, <2>3, <2>5
<1>11. N \in T
  <2> HIDE DEF T
  <2> QED BY <1>1, <1>9, <1>10, Upwards
<1> QED BY <1>1, <1>2, <1>11


LEMMA PuttyFolds ==
  ASSUME NEW sections, IsList(sections), NEW S,
         Nothing \in S,
         \A so \in S : \A x \in Range(sections) : PuttySession(so, x) \in S
  PROVE  PuttyHosts(sections) \in S
<1> DEFINE N == Len(sections)
           op(so, x) == PuttySession(so, x)
           G == [n \in 1 .. N |-> [so \in S |-> op(so, sections[n])]]
           Is(g) == g = [s \in SUBSET (DOMAIN sections) |->
                           IF s = {} THEN Nothing
                           ELSE op(g[s \ {Max(s)}], sections[Max(s)])]
           it == CHOOSE g : Is(g)
<1>1. N \in Nat /\ DOMAIN sections = 1 .. N /\ \A n \in 1 .. N : sections[n] \in Range(sections)
  BY ListIs
<1>2. PuttyHosts(sections) = it[DOMAIN sections]
  BY DEF PuttyHosts, FoldLeft, MapThenFoldSet
<1> HIDE DEF N, op
<1>3. G \in [1 .. N -> [S -> S]]
  BY <1>1 DEF op
<1>4. PICK b : b = Nothing /\ b \in S
  OBVIOUS
<1>5. PICK g : Folds(g, N, S, b, G)
  <2> HIDE DEF G
  <2> QED BY <1>1, <1>3, <1>4, FoldExists
<1>6. Is(g)
  <2> HIDE DEF G
  <2>1. g = [s \in SUBSET (DOMAIN sections) |->
               IF s = {} THEN b ELSE op(g[s \ {Max(s)}], sections[Max(s)])]
    <3>1. ASSUME NEW s \in SUBSET (1 .. N), s # {}
          PROVE  g[s] = op(g[s \ {Max(s)}], sections[Max(s)])
      <4>1. N \in Nat /\ s \in SUBSET (1 .. N) /\ s # {}
        BY <1>1, <3>1
      <4>2. Max(s) \in s
        BY <4>1, MaxIs
      <4>3. Max(s) \in 1 .. N /\ s \ {Max(s)} \in SUBSET (1 .. N)
        BY <4>1, <4>2
      <4>4. g[s \ {Max(s)}] \in S /\ g[s] = G[Max(s)][g[s \ {Max(s)}]]
        BY <1>5, <3>1, <4>3 DEF Folds
      <4> QED BY <4>3, <4>4 DEF G
    <3>2. g \in [SUBSET (1 .. N) -> S] /\ g[{}] = b
      BY <1>5 DEF Folds
    <3> QED BY <1>1, <3>1, <3>2
  <2> QED BY <1>4, <2>1
<1>7. Is(it)
  <2> HIDE DEF Is
  <2> QED BY <1>6
<1> HIDE DEF it, G
<1>8. it = [s \in SUBSET (1 .. N) |->
              IF s = {} THEN b ELSE op(it[s \ {Max(s)}], sections[Max(s)])]
  BY <1>1, <1>4, <1>7
<1> HIDE DEF Is
<1> DEFINE T == {n \in 0 .. N : it[1 .. n] \in S}
<1>9. 0 \in T
  <2>1. 1 .. 0 = {} /\ 1 .. 0 \in SUBSET (1 .. N)
    BY <1>1
  <2>2. it[1 .. 0] = b
    BY <1>8, <2>1
  <2> QED BY <1>1, <1>4, <2>2
<1>10. ASSUME NEW n \in 1 .. N, n - 1 \in T PROVE n \in T
  <2>0. n \in Nat /\ n # 0 /\ n \in 0 .. N /\ n \in 1 .. n
    BY <1>1
  <2>1. 1 .. n # {} /\ 1 .. n \in SUBSET (1 .. N)
    <3>1. 1 .. n \subseteq 1 .. N
      BY <1>1, <2>0
    <3> QED BY <2>0, <3>1
  <2>2. Max(1 .. n) = n /\ (1 .. n) \ {n} = 1 .. n - 1
    BY <2>0, MaxUpTo
  <2>3. it[1 .. n] = op(it[1 .. n - 1], sections[n])
    BY <1>8, <2>1, <2>2
  <2>4. it[1 .. n - 1] \in S
    BY <1>10
  <2>5. op(it[1 .. n - 1], sections[n]) \in S
    BY <1>1, <2>4 DEF op
  <2> QED BY <2>0, <2>3, <2>5
<1>11. N \in T
  <2> HIDE DEF T
  <2> QED BY <1>1, <1>9, <1>10, Upwards
<1> QED BY <1>1, <1>2, <1>11


LEMMA MobaFolds ==
  ASSUME NEW lines, IsList(lines), NEW S,
         [inside |-> FALSE, scan |-> Nothing] \in S,
         \A so \in S : \A x \in Range(lines) : MobaLine(so, x) \in S
  PROVE  FoldLeft(MobaLine, [inside |-> FALSE, scan |-> Nothing], lines) \in S
<1> DEFINE N == Len(lines)
           op(so, x) == MobaLine(so, x)
           G == [n \in 1 .. N |-> [so \in S |-> op(so, lines[n])]]
           Is(g) == g = [s \in SUBSET (DOMAIN lines) |->
                           IF s = {} THEN [inside |-> FALSE, scan |-> Nothing]
                           ELSE op(g[s \ {Max(s)}], lines[Max(s)])]
           it == CHOOSE g : Is(g)
<1>1. N \in Nat /\ DOMAIN lines = 1 .. N /\ \A n \in 1 .. N : lines[n] \in Range(lines)
  BY ListIs
<1>2. FoldLeft(MobaLine, [inside |-> FALSE, scan |-> Nothing], lines) = it[DOMAIN lines]
  BY DEF FoldLeft, MapThenFoldSet
<1> HIDE DEF N, op
<1>3. G \in [1 .. N -> [S -> S]]
  BY <1>1 DEF op
<1>4. PICK b : b = [inside |-> FALSE, scan |-> Nothing] /\ b \in S
  OBVIOUS
<1>5. PICK g : Folds(g, N, S, b, G)
  <2> HIDE DEF G
  <2> QED BY <1>1, <1>3, <1>4, FoldExists
<1>6. Is(g)
  <2> HIDE DEF G
  <2>1. g = [s \in SUBSET (DOMAIN lines) |->
               IF s = {} THEN b ELSE op(g[s \ {Max(s)}], lines[Max(s)])]
    <3>1. ASSUME NEW s \in SUBSET (1 .. N), s # {}
          PROVE  g[s] = op(g[s \ {Max(s)}], lines[Max(s)])
      <4>1. N \in Nat /\ s \in SUBSET (1 .. N) /\ s # {}
        BY <1>1, <3>1
      <4>2. Max(s) \in s
        BY <4>1, MaxIs
      <4>3. Max(s) \in 1 .. N /\ s \ {Max(s)} \in SUBSET (1 .. N)
        BY <4>1, <4>2
      <4>4. g[s \ {Max(s)}] \in S /\ g[s] = G[Max(s)][g[s \ {Max(s)}]]
        BY <1>5, <3>1, <4>3 DEF Folds
      <4> QED BY <4>3, <4>4 DEF G
    <3>2. g \in [SUBSET (1 .. N) -> S] /\ g[{}] = b
      BY <1>5 DEF Folds
    <3> QED BY <1>1, <3>1, <3>2
  <2> QED BY <1>4, <2>1
<1>7. Is(it)
  <2> HIDE DEF Is
  <2> QED BY <1>6
<1> HIDE DEF it, G
<1>8. it = [s \in SUBSET (1 .. N) |->
              IF s = {} THEN b ELSE op(it[s \ {Max(s)}], lines[Max(s)])]
  BY <1>1, <1>4, <1>7
<1> HIDE DEF Is
<1> DEFINE T == {n \in 0 .. N : it[1 .. n] \in S}
<1>9. 0 \in T
  <2>1. 1 .. 0 = {} /\ 1 .. 0 \in SUBSET (1 .. N)
    BY <1>1
  <2>2. it[1 .. 0] = b
    BY <1>8, <2>1
  <2> QED BY <1>1, <1>4, <2>2
<1>10. ASSUME NEW n \in 1 .. N, n - 1 \in T PROVE n \in T
  <2>0. n \in Nat /\ n # 0 /\ n \in 0 .. N /\ n \in 1 .. n
    BY <1>1
  <2>1. 1 .. n # {} /\ 1 .. n \in SUBSET (1 .. N)
    <3>1. 1 .. n \subseteq 1 .. N
      BY <1>1, <2>0
    <3> QED BY <2>0, <3>1
  <2>2. Max(1 .. n) = n /\ (1 .. n) \ {n} = 1 .. n - 1
    BY <2>0, MaxUpTo
  <2>3. it[1 .. n] = op(it[1 .. n - 1], lines[n])
    BY <1>8, <2>1, <2>2
  <2>4. it[1 .. n - 1] \in S
    BY <1>10
  <2>5. op(it[1 .. n - 1], lines[n]) \in S
    BY <1>1, <2>4 DEF op
  <2> QED BY <2>0, <2>3, <2>5
<1>11. N \in T
  <2> HIDE DEF T
  <2> QED BY <1>1, <1>9, <1>10, Upwards
<1> QED BY <1>1, <1>2, <1>11


LEMMA ClientFolds ==
  ASSUME NEW d, NEW scan, NEW picked, NEW typed, NEW at, IsList(picked), NEW S,
         d \in S,
         \A so \in S : \A x \in Range(picked) :
            (IF x \notin DOMAIN scan THEN so ELSE ClientHost(so, scan[x], typed, at)) \in S
  PROVE  import_client_hosts(d, scan, picked, typed, at) \in S
<1> DEFINE N == Len(picked)
           op(so, x) == IF x \notin DOMAIN scan THEN so ELSE ClientHost(so, scan[x], typed, at)
           G == [n \in 1 .. N |-> [so \in S |-> op(so, picked[n])]]
           Is(g) == g = [s \in SUBSET (DOMAIN picked) |->
                           IF s = {} THEN d
                           ELSE op(g[s \ {Max(s)}], picked[Max(s)])]
           it == CHOOSE g : Is(g)
<1>1. N \in Nat /\ DOMAIN picked = 1 .. N /\ \A n \in 1 .. N : picked[n] \in Range(picked)
  BY ListIs
<1>2. import_client_hosts(d, scan, picked, typed, at) = it[DOMAIN picked]
  BY DEF import_client_hosts, FoldLeft, MapThenFoldSet
<1> HIDE DEF N, op
<1>3. G \in [1 .. N -> [S -> S]]
  BY <1>1 DEF op
<1>4. PICK b : b = d /\ b \in S
  OBVIOUS
<1>5. PICK g : Folds(g, N, S, b, G)
  <2> HIDE DEF G
  <2> QED BY <1>1, <1>3, <1>4, FoldExists
<1>6. Is(g)
  <2> HIDE DEF G
  <2>1. g = [s \in SUBSET (DOMAIN picked) |->
               IF s = {} THEN b ELSE op(g[s \ {Max(s)}], picked[Max(s)])]
    <3>1. ASSUME NEW s \in SUBSET (1 .. N), s # {}
          PROVE  g[s] = op(g[s \ {Max(s)}], picked[Max(s)])
      <4>1. N \in Nat /\ s \in SUBSET (1 .. N) /\ s # {}
        BY <1>1, <3>1
      <4>2. Max(s) \in s
        BY <4>1, MaxIs
      <4>3. Max(s) \in 1 .. N /\ s \ {Max(s)} \in SUBSET (1 .. N)
        BY <4>1, <4>2
      <4>4. g[s \ {Max(s)}] \in S /\ g[s] = G[Max(s)][g[s \ {Max(s)}]]
        BY <1>5, <3>1, <4>3 DEF Folds
      <4> QED BY <4>3, <4>4 DEF G
    <3>2. g \in [SUBSET (1 .. N) -> S] /\ g[{}] = b
      BY <1>5 DEF Folds
    <3> QED BY <1>1, <3>1, <3>2
  <2> QED BY <1>4, <2>1
<1>7. Is(it)
  <2> HIDE DEF Is
  <2> QED BY <1>6
<1> HIDE DEF it, G
<1>8. it = [s \in SUBSET (1 .. N) |->
              IF s = {} THEN b ELSE op(it[s \ {Max(s)}], picked[Max(s)])]
  BY <1>1, <1>4, <1>7
<1> HIDE DEF Is
<1> DEFINE T == {n \in 0 .. N : it[1 .. n] \in S}
<1>9. 0 \in T
  <2>1. 1 .. 0 = {} /\ 1 .. 0 \in SUBSET (1 .. N)
    BY <1>1
  <2>2. it[1 .. 0] = b
    BY <1>8, <2>1
  <2> QED BY <1>1, <1>4, <2>2
<1>10. ASSUME NEW n \in 1 .. N, n - 1 \in T PROVE n \in T
  <2>0. n \in Nat /\ n # 0 /\ n \in 0 .. N /\ n \in 1 .. n
    BY <1>1
  <2>1. 1 .. n # {} /\ 1 .. n \in SUBSET (1 .. N)
    <3>1. 1 .. n \subseteq 1 .. N
      BY <1>1, <2>0
    <3> QED BY <2>0, <3>1
  <2>2. Max(1 .. n) = n /\ (1 .. n) \ {n} = 1 .. n - 1
    BY <2>0, MaxUpTo
  <2>3. it[1 .. n] = op(it[1 .. n - 1], picked[n])
    BY <1>8, <2>1, <2>2
  <2>4. it[1 .. n - 1] \in S
    BY <1>10
  <2>5. op(it[1 .. n - 1], picked[n]) \in S
    BY <1>1, <2>4 DEF op
  <2> QED BY <2>0, <2>3, <2>5
<1>11. N \in T
  <2> HIDE DEF T
  <2> QED BY <1>1, <1>9, <1>10, Upwards
<1> QED BY <1>1, <1>2, <1>11

\* The hosts read from a file, whoever wrote it, are a list.
LEMMA TakenIs ==
  ASSUME NEW V, NEW so \in [hosts : Seq(V), skipped : Nat], NEW protocol, NEW address,
         NEW password, [addr |-> address, password |-> password] \in V
  PROVE  Taken(so, protocol, address, password) \in [hosts : Seq(V), skipped : Nat]
<1>1. PICK h : h = [addr |-> address, password |-> password]
  OBVIOUS
<1>2. Append(so.hosts, h) \in Seq(V)
  BY <1>1, AppendProperties
<1>3. /\ [so EXCEPT !.hosts = Append(@, h)] \in [hosts : Seq(V), skipped : Nat]
      /\ [so EXCEPT !.skipped = @ + 1] \in [hosts : Seq(V), skipped : Nat]
  <2>1. PICK l, n, Q : l = Append(so.hosts, h) /\ n = so.skipped + 1 /\ Q = Seq(V)
    OBVIOUS
  <2>2. l \in Q /\ n \in Nat /\ so \in [hosts : Q, skipped : Nat]
    BY <1>2, <2>1
  <2>3. /\ [so EXCEPT !.hosts = l] \in [hosts : Q, skipped : Nat]
        /\ [so EXCEPT !.skipped = n] \in [hosts : Q, skipped : Nat]
    BY <2>2
  <2> QED BY <2>1, <2>3
<1> QED BY <1>1, <1>3 DEF Taken

LEMMA ClientScanIs == IsList(ClientScan)
<1> DEFINE Scans(V) == [hosts : Seq(V), skipped : Nat]
<1>1. PICK rows : rows = ClientFile /\ IsList(rows)
  BY LibraryAssumption DEF LibraryAssumption
<1>2. \A V : Nothing \in Scans(V)
  BY DEF Nothing
<1>3. \E V : Hosts(ClientSource, rows) \in Scans(V)
  <2>1. CASE ClientSource = "termius"
    <3> DEFINE V == {[addr |-> r.address, password |-> r.password] : r \in Range(rows)}
    <3>1. PICK S : S = Scans(V)
      OBVIOUS
    <3>2. ASSUME NEW so \in S, NEW x \in Range(rows)
          PROVE  Taken(so, x.protocol, x.address, x.password) \in S
      <4>1. PICK protocol, address, password :
               protocol = x.protocol /\ address = x.address /\ password = x.password
        OBVIOUS
      <4>2. [addr |-> address, password |-> password] \in V
        BY <4>1
      <4>3. Taken(so, protocol, address, password) \in S
        BY <3>1, <4>2, TakenIs
      <4> QED BY <4>1, <4>3
    <3>3. Nothing \in S
      BY <1>2, <3>1
    <3>4. TermiusHosts(rows) \in S
      BY <1>1, <3>2, <3>3, TermiusFolds
    <3> QED BY <2>1, <3>1, <3>4 DEF Hosts
  <2>2. CASE ClientSource = "putty"
    <3> DEFINE V == {[addr |-> Setting(c, "HostName"), password |-> FALSE] : c \in Range(rows)}
    <3>1. PICK S : S = Scans(V)
      OBVIOUS
    <3>2. ASSUME NEW so \in S, NEW x \in Range(rows) PROVE PuttySession(so, x) \in S
      <4>1. PICK protocol, address : protocol = Setting(x, "Protocol")
                                     /\ address = Setting(x, "HostName")
        OBVIOUS
      <4>2. [addr |-> address, password |-> FALSE] \in V
        BY <4>1
      <4>3. Taken(so, protocol, address, FALSE) \in S
        BY <3>1, <4>2, TakenIs
      <4> QED BY <4>1, <4>3 DEF PuttySession
    <3>3. Nothing \in S
      BY <1>2, <3>1
    <3>4. PuttyHosts(rows) \in S
      BY <1>1, <3>2, <3>3, PuttyFolds
    <3> QED BY <2>2, <3>1, <3>4 DEF Hosts
  <2>3. CASE ClientSource \notin {"termius", "putty"}
    <3> DEFINE V == {[addr |-> l.address, password |-> FALSE] : l \in Range(rows)}
    <3>1. PICK Q : Q = Scans(V)
      OBVIOUS
    <3>2. PICK S : S = [inside : BOOLEAN, scan : Q]
      OBVIOUS
    <3>3. ASSUME NEW so \in S, NEW x \in Range(rows) PROVE MobaLine(so, x) \in S
      <4>1. PICK t, in : t = Taken(so.scan, x.kind, x.address, FALSE)
                         /\ in = (x.section = "bookmarks")
        OBVIOUS
      <4>2. t \in Q
        <5>1. [addr |-> x.address, password |-> FALSE] \in V /\ so.scan \in Scans(V)
          BY <3>1, <3>2
        <5> QED BY <3>1, <4>1, <5>1, TakenIs
      <4>3. [so EXCEPT !.scan = t] \in S
        BY <3>2, <4>2
      <4>4. [so EXCEPT !.inside = in] \in S
        <5>1. in \in BOOLEAN
          BY <4>1
        <5> QED BY <3>2, <5>1
      <4>5. MobaLine(so, x) = IF x.section # None THEN [so EXCEPT !.inside = in]
                              ELSE IF ~so.inside THEN so ELSE [so EXCEPT !.scan = t]
        BY <4>1 DEF MobaLine
      <4> QED BY <4>3, <4>4, <4>5
    <3>4. [inside |-> FALSE, scan |-> Nothing] \in S
      BY <1>2, <3>1, <3>2
    <3>5. PICK m : m = FoldLeft(MobaLine, [inside |-> FALSE, scan |-> Nothing], rows)
      OBVIOUS
    <3>6. m \in S
      BY <1>1, <3>3, <3>4, <3>5, MobaFolds
    <3>7. MobaHosts(rows) = m.scan
      BY <3>5 DEF MobaHosts
    <3> QED BY <2>3, <3>1, <3>2, <3>6, <3>7 DEF Hosts
  <2> QED BY <2>1, <2>2, <2>3
<1>4. PICK V : Hosts(ClientSource, rows).hosts \in Seq(V)
  BY <1>3
<1> QED BY <1>1, <1>4, ListOver DEF ClientScan

LEMMA ClientAdds ==
  ASSUME NEW d, DocOK(d), NEW scan, NEW picked, IsList(picked), NEW typed, NEW at,
         NEW e, e = import_client_hosts(d, scan, picked, typed, at)
  PROVE  ImportOK(d, e, at)
<1> DEFINE host(n, pw) == NewServer(Fresh(scan[n].addr, at), scan[n].addr, None, pw)
           Made == {host(n, pw) : n \in DOMAIN scan, pw \in {None, "master"}}
           U == Range(d.servers) \cup Made
           with(l) == [d EXCEPT !.servers = l]
           Q == {l \in Seq(U) :
                   /\ Grown(d.servers, l)
                   /\ \A n \in DOMAIN l \ DOMAIN d.servers : l[n] \in Made}
           S == {with(l) : l \in Q}
<1>1. IsRecord(d, Parts6) /\ IsList(d.servers)
  BY DEF DocOK, RecordsOK
<1>2. ASSUME NEW l, NEW m
      PROVE  with(l).servers = l /\ [with(l) EXCEPT !.servers = m] = with(m)
  BY <1>1 DEF IsRecord, Parts6
<1>3. ASSUME NEW so \in S, NEW x \in DOMAIN scan PROVE ClientHost(so, scan[x], typed, at) \in S
  <2>1. PICK l \in Q : so = with(l)
    <3> HIDE DEF Q, with
    <3> QED OBVIOUS
  <2>2. PICK h : h = host(x, IF typed /\ scan[x].password THEN "master" ELSE None)
    OBVIOUS
  <2>3. h \in Made
    BY <2>2
  <2>4. ClientHost(so, scan[x], typed, at) \in {so, [so EXCEPT !.servers = Append(@, h)]}
    BY <2>2 DEF ClientHost
  <2> HIDE DEF Made
  <2>5. PICK k : k = Append(l, h)
    BY Zenon
  <2>6. /\ k \in Seq(U) /\ DOMAIN l \subseteq DOMAIN k
        /\ \A n \in DOMAIN l : k[n] = l[n]
        /\ \A n \in DOMAIN k \ DOMAIN l : k[n] = h
    <3>1. h \in U /\ l \in Seq(U)
      BY <2>3
    <3> HIDE DEF U
    <3> QED BY <2>5, <3>1, AppendedIs
  <2>7. k \in Q
    <3> HIDE DEF U
    <3> QED BY <2>3, <2>6 DEF Grown
  <2>8. [so EXCEPT !.servers = Append(@, h)] = with(k)
    BY <1>2, <2>1, <2>5
  <2> HIDE DEF Q, with
  <2> QED BY <2>4, <2>7, <2>8
<1> HIDE DEF Made
<1>4. d \in S
  <2>1. with(d.servers) = d
    BY <1>1 DEF IsRecord, Parts6
  <2>2. d.servers \in Seq(U)
    <3>1. d.servers \in Seq(Range(d.servers)) /\ Range(d.servers) \subseteq U
      BY <1>1 DEF IsList
    <3> HIDE DEF U
    <3> QED BY <3>1, SeqMonotonic
  <2>3. Grown(d.servers, d.servers)
    BY DEF Grown
  <2>4. d.servers \in Q
    <3> HIDE DEF U
    <3> QED BY <2>2, <2>3
  <2> HIDE DEF Q, with
  <2> QED BY <2>1, <2>4
<1>5. e \in S
  <2> HIDE DEF S
  <2>1. \A so \in S : \A x \in Range(picked) :
           (IF x \notin DOMAIN scan THEN so ELSE ClientHost(so, scan[x], typed, at)) \in S
    BY <1>3
  <2> QED BY <1>4, <2>1, ClientFolds
<1>6. PICK l \in Q : e = with(l)
  <2> HIDE DEF Q, with
  <2> QED BY <1>5
<1>7. /\ IsRecord(e, Parts6) /\ e.servers = l /\ e.identities = d.identities
      /\ e.keys = d.keys /\ e.rules = d.rules /\ e.marks = d.marks /\ e.history = d.history
  <2> HIDE DEF Q
  <2> QED BY <1>1, <1>6 DEF IsRecord, Parts6
<1>8. /\ l \in Seq(U) /\ Grown(d.servers, l)
      /\ \A n \in DOMAIN l \ DOMAIN d.servers : l[n] \in Made
  OBVIOUS
<1>9. \A s \in Made : /\ ServerOK(s) /\ s.identity = None /\ s.key = None /\ s.jump = None
                    /\ \E x : s.id = Fresh(x, at)
  BY DEF Made, ServerOK, IsServer, IsRecord, NewServer
<1>10. IsList(l) /\ \A s \in Range(l) : ServerOK(s)
  <2>1. IsList(l) /\ Range(l) \subseteq U
    <3> HIDE DEF U
    <3> QED BY <1>8, ListOver
  <2> QED BY <1>9, <2>1 DEF DocOK, RecordsOK
<1>11. Ids(d.servers) \subseteq Ids(l)
  <2> HIDE DEF Q, U
  <2> QED BY <1>8 DEF Grown, Ids, Range
<1> HIDE DEF Q, U, S, with
<1>12. DocOK(e)
  BY <1>7, <1>10, <1>11 DEF DocOK, RecordsOK
<1>13. OnlyAdds(d, e)
  BY <1>7, <1>8 DEF OnlyAdds, Grown
<1>14. LinksHome(d, e)
  BY <1>7, <1>8, <1>9 DEF LinksHome, PointsHome
<1>15. \A id \in Ids(e.servers) \ Ids(d.servers) : \E x : id = Fresh(x, at)
  <2>1. ASSUME NEW s \in Range(l), s.id \notin Ids(d.servers) PROVE \E x : s.id = Fresh(x, at)
    <3>1. PICK n \in DOMAIN l : s = l[n]
      BY DEF Range
    <3>2. n \notin DOMAIN d.servers
      BY <1>8, <2>1, <3>1 DEF Grown, Ids, Range
    <3> QED BY <1>8, <1>9, <3>1, <3>2
  <2> QED BY <1>7, <2>1 DEF Ids
<1> QED BY <1>12, <1>13, <1>14, <1>15 DEF ImportOK, MadeAt

LEMMA SshHostFolds ==
  ASSUME NEW d, NEW hosts, NEW onDisk, NEW at, IsList(hosts), NEW S,
         [d |-> d, by_alias |-> <<>>] \in S,
         \A so \in S : \A x \in Range(hosts) : SshHost(so, x, onDisk, at) \in S
  PROVE  AddHosts(d, hosts, onDisk, at) \in S
<1> DEFINE N == Len(hosts)
           op(so, x) == SshHost(so, x, onDisk, at)
           G == [n \in 1 .. N |-> [so \in S |-> op(so, hosts[n])]]
           Is(g) == g = [s \in SUBSET (DOMAIN hosts) |->
                           IF s = {} THEN [d |-> d, by_alias |-> <<>>]
                           ELSE op(g[s \ {Max(s)}], hosts[Max(s)])]
           it == CHOOSE g : Is(g)
<1>1. N \in Nat /\ DOMAIN hosts = 1 .. N /\ \A n \in 1 .. N : hosts[n] \in Range(hosts)
  BY ListIs
<1>2. AddHosts(d, hosts, onDisk, at) = it[DOMAIN hosts]
  BY DEF AddHosts, FoldLeft, MapThenFoldSet
<1> HIDE DEF N, op
<1>3. G \in [1 .. N -> [S -> S]]
  BY <1>1 DEF op
<1>4. PICK b : b = [d |-> d, by_alias |-> <<>>] /\ b \in S
  OBVIOUS
<1>5. PICK g : Folds(g, N, S, b, G)
  <2> HIDE DEF G
  <2> QED BY <1>1, <1>3, <1>4, FoldExists
<1>6. Is(g)
  <2> HIDE DEF G
  <2>1. g = [s \in SUBSET (DOMAIN hosts) |->
               IF s = {} THEN b ELSE op(g[s \ {Max(s)}], hosts[Max(s)])]
    <3>1. ASSUME NEW s \in SUBSET (1 .. N), s # {}
          PROVE  g[s] = op(g[s \ {Max(s)}], hosts[Max(s)])
      <4>1. N \in Nat /\ s \in SUBSET (1 .. N) /\ s # {}
        BY <1>1, <3>1
      <4>2. Max(s) \in s
        BY <4>1, MaxIs
      <4>3. Max(s) \in 1 .. N /\ s \ {Max(s)} \in SUBSET (1 .. N)
        BY <4>1, <4>2
      <4>4. g[s \ {Max(s)}] \in S /\ g[s] = G[Max(s)][g[s \ {Max(s)}]]
        BY <1>5, <3>1, <4>3 DEF Folds
      <4> QED BY <4>3, <4>4 DEF G
    <3>2. g \in [SUBSET (1 .. N) -> S] /\ g[{}] = b
      BY <1>5 DEF Folds
    <3> QED BY <1>1, <3>1, <3>2
  <2> QED BY <1>4, <2>1
<1>7. Is(it)
  <2> HIDE DEF Is
  <2> QED BY <1>6
<1> HIDE DEF it, G
<1>8. it = [s \in SUBSET (1 .. N) |->
              IF s = {} THEN b ELSE op(it[s \ {Max(s)}], hosts[Max(s)])]
  BY <1>1, <1>4, <1>7
<1> HIDE DEF Is
<1> DEFINE T == {n \in 0 .. N : it[1 .. n] \in S}
<1>9. 0 \in T
  <2>1. 1 .. 0 = {} /\ 1 .. 0 \in SUBSET (1 .. N)
    BY <1>1
  <2>2. it[1 .. 0] = b
    BY <1>8, <2>1
  <2> QED BY <1>1, <1>4, <2>2
<1>10. ASSUME NEW n \in 1 .. N, n - 1 \in T PROVE n \in T
  <2>0. n \in Nat /\ n # 0 /\ n \in 0 .. N /\ n \in 1 .. n
    BY <1>1
  <2>1. 1 .. n # {} /\ 1 .. n \in SUBSET (1 .. N)
    <3>1. 1 .. n \subseteq 1 .. N
      BY <1>1, <2>0
    <3> QED BY <2>0, <3>1
  <2>2. Max(1 .. n) = n /\ (1 .. n) \ {n} = 1 .. n - 1
    BY <2>0, MaxUpTo
  <2>3. it[1 .. n] = op(it[1 .. n - 1], hosts[n])
    BY <1>8, <2>1, <2>2
  <2>4. it[1 .. n - 1] \in S
    BY <1>10
  <2>5. op(it[1 .. n - 1], hosts[n]) \in S
    BY <1>1, <2>4 DEF op
  <2> QED BY <2>0, <2>3, <2>5
<1>11. N \in T
  <2> HIDE DEF T
  <2> QED BY <1>1, <1>9, <1>10, Upwards
<1> QED BY <1>1, <1>2, <1>11


LEMMA SshLinksFolds ==
  ASSUME NEW d, NEW hosts, NEW by_alias, IsList(hosts), NEW S,
         d \in S,
         \A so \in S : \A x \in Range(hosts) : SshLinks(so, x, by_alias) \in S
  PROVE  LinkHosts(d, hosts, by_alias) \in S
<1> DEFINE N == Len(hosts)
           op(so, x) == SshLinks(so, x, by_alias)
           G == [n \in 1 .. N |-> [so \in S |-> op(so, hosts[n])]]
           Is(g) == g = [s \in SUBSET (DOMAIN hosts) |->
                           IF s = {} THEN d
                           ELSE op(g[s \ {Max(s)}], hosts[Max(s)])]
           it == CHOOSE g : Is(g)
<1>1. N \in Nat /\ DOMAIN hosts = 1 .. N /\ \A n \in 1 .. N : hosts[n] \in Range(hosts)
  BY ListIs
<1>2. LinkHosts(d, hosts, by_alias) = it[DOMAIN hosts]
  BY DEF LinkHosts, FoldLeft, MapThenFoldSet
<1> HIDE DEF N, op
<1>3. G \in [1 .. N -> [S -> S]]
  BY <1>1 DEF op
<1>4. PICK b : b = d /\ b \in S
  OBVIOUS
<1>5. PICK g : Folds(g, N, S, b, G)
  <2> HIDE DEF G
  <2> QED BY <1>1, <1>3, <1>4, FoldExists
<1>6. Is(g)
  <2> HIDE DEF G
  <2>1. g = [s \in SUBSET (DOMAIN hosts) |->
               IF s = {} THEN b ELSE op(g[s \ {Max(s)}], hosts[Max(s)])]
    <3>1. ASSUME NEW s \in SUBSET (1 .. N), s # {}
          PROVE  g[s] = op(g[s \ {Max(s)}], hosts[Max(s)])
      <4>1. N \in Nat /\ s \in SUBSET (1 .. N) /\ s # {}
        BY <1>1, <3>1
      <4>2. Max(s) \in s
        BY <4>1, MaxIs
      <4>3. Max(s) \in 1 .. N /\ s \ {Max(s)} \in SUBSET (1 .. N)
        BY <4>1, <4>2
      <4>4. g[s \ {Max(s)}] \in S /\ g[s] = G[Max(s)][g[s \ {Max(s)}]]
        BY <1>5, <3>1, <4>3 DEF Folds
      <4> QED BY <4>3, <4>4 DEF G
    <3>2. g \in [SUBSET (1 .. N) -> S] /\ g[{}] = b
      BY <1>5 DEF Folds
    <3> QED BY <1>1, <3>1, <3>2
  <2> QED BY <1>4, <2>1
<1>7. Is(it)
  <2> HIDE DEF Is
  <2> QED BY <1>6
<1> HIDE DEF it, G
<1>8. it = [s \in SUBSET (1 .. N) |->
              IF s = {} THEN b ELSE op(it[s \ {Max(s)}], hosts[Max(s)])]
  BY <1>1, <1>4, <1>7
<1> HIDE DEF Is
<1> DEFINE T == {n \in 0 .. N : it[1 .. n] \in S}
<1>9. 0 \in T
  <2>1. 1 .. 0 = {} /\ 1 .. 0 \in SUBSET (1 .. N)
    BY <1>1
  <2>2. it[1 .. 0] = b
    BY <1>8, <2>1
  <2> QED BY <1>1, <1>4, <2>2
<1>10. ASSUME NEW n \in 1 .. N, n - 1 \in T PROVE n \in T
  <2>0. n \in Nat /\ n # 0 /\ n \in 0 .. N /\ n \in 1 .. n
    BY <1>1
  <2>1. 1 .. n # {} /\ 1 .. n \in SUBSET (1 .. N)
    <3>1. 1 .. n \subseteq 1 .. N
      BY <1>1, <2>0
    <3> QED BY <2>0, <3>1
  <2>2. Max(1 .. n) = n /\ (1 .. n) \ {n} = 1 .. n - 1
    BY <2>0, MaxUpTo
  <2>3. it[1 .. n] = op(it[1 .. n - 1], hosts[n])
    BY <1>8, <2>1, <2>2
  <2>4. it[1 .. n - 1] \in S
    BY <1>10
  <2>5. op(it[1 .. n - 1], hosts[n]) \in S
    BY <1>1, <2>4 DEF op
  <2> QED BY <2>0, <2>3, <2>5
<1>11. N \in T
  <2> HIDE DEF T
  <2> QED BY <1>1, <1>9, <1>10, Upwards
<1> QED BY <1>1, <1>2, <1>11

\* What the first pass over the hosts picked of an ssh config holds halfway:
\* hosts and keys added under ids of this import, each host at a key that is
\* there, and the ids of the hosts added by alias.
SshHostNew(s, A, at, keys) ==
    /\ ServerOK(s) /\ s.identity = None /\ s.jump = None /\ s.key \in Ids(keys) \cup {None}
    /\ \E a \in A : s.id = Fresh(a, at)
SshSoFar(d, ls, lk, B, at) ==
    [d |-> [d EXCEPT !.servers = ls, !.keys = lk], by_alias |-> [a \in B |-> Fresh(a, at)]]
SshPass(d, ls, lk, B, A, at) ==
    /\ Grown(d.servers, ls) /\ Grown(d.keys, lk)
    /\ \A k \in Range(lk) : KeyOK(k)
    /\ \A n \in DOMAIN ls \ DOMAIN d.servers : SshHostNew(ls[n], A, at, lk)
    /\ \A a \in B : \E n \in DOMAIN ls \ DOMAIN d.servers : ls[n].id = Fresh(a, at)

\* Lists a pass may hold, hosts out of US and keys out of UK.
SshLists(d, ls, lk, B, US, UK, A, at) ==
    ls \in Seq(US) /\ lk \in Seq(UK) /\ B \in SUBSET A /\ SshPass(d, ls, lk, B, A, at)
SshMakes(h, lk, US, UK, A, at) ==
    /\ h.alias \in A /\ KeyEntry(Fresh(h.file, at), h.file, h.file, None) \in UK
    /\ \A id \in Ids(lk) \cup {None, Fresh(h.file, at)} :
          NewServer(Fresh(h.alias, at), h.hostname, id, None) \in US

\* One host more: its own record, and its key's where there is none of that path.
LEMMA SshHostStep ==
  ASSUME NEW d, DocOK(d), NEW A, NEW at, NEW onDisk, None \notin onDisk,
         \A f \in onDisk : Fresh(f, at) # None,
         NEW US, NEW UK, NEW ls, NEW lk, NEW B, SshLists(d, ls, lk, B, US, UK, A, at),
         NEW h, SshMakes(h, lk, US, UK, A, at),
         NEW so, so = SshSoFar(d, ls, lk, B, at)
  PROVE  SshHost(so, h, onDisk, at) = so \/
         \E ls2, lk2, B2 : /\ SshLists(d, ls2, lk2, B2, US, UK, A, at)
                           /\ SshHost(so, h, onDisk, at) = SshSoFar(d, ls2, lk2, B2, at)
<1>0. /\ ls \in Seq(US) /\ lk \in Seq(UK) /\ B \in SUBSET A /\ SshPass(d, ls, lk, B, A, at)
      /\ so = [d |-> [d EXCEPT !.servers = ls, !.keys = lk],
               by_alias |-> [a \in B |-> Fresh(a, at)]]
  BY Zenon DEF SshLists, SshSoFar
<1>1. PICK here : here = Selected(lk, {k \in Range(lk) : h.file # None /\ k.path = h.file})
  OBVIOUS
<1>2. PICK key : key = IF h.file \notin onDisk THEN None
                       ELSE IF here # <<>> THEN here[1].id ELSE Fresh(h.file, at)
  OBVIOUS
<1>3. PICK new : new = KeyEntry(Fresh(h.file, at), h.file, h.file, None)
  OBVIOUS
<1>4. PICK lk2 : lk2 = IF key = None \/ here # <<>> THEN lk ELSE Append(lk, new)
  OBVIOUS
<1>5. PICK s : s = NewServer(Fresh(h.alias, at), h.hostname, key, None)
  OBVIOUS
<1>6. PICK ls2 : ls2 = Append(ls, s)
  OBVIOUS
<1>7. /\ IsRecord(d, Parts6) /\ so.d.servers = ls /\ so.d.keys = lk
      /\ so.d = [d EXCEPT !.servers = ls, !.keys = lk]
      /\ so.by_alias = [a \in B |-> Fresh(a, at)]
  <2>1. IsRecord(d, Parts6)
    BY DEF DocOK, RecordsOK
  <2>2. /\ so.d = [d EXCEPT !.servers = ls, !.keys = lk]
        /\ so.by_alias = [a \in B |-> Fresh(a, at)]
    <3>1. PICK e, by : e = [d EXCEPT !.servers = ls, !.keys = lk]
                       /\ by = [a \in B |-> Fresh(a, at)]
      OBVIOUS
    <3>2. so = [d |-> e, by_alias |-> by]
      BY <1>0, <3>1, Zenon
    <3>3. so.d = e /\ so.by_alias = by
      BY <3>2
    <3> QED BY <3>1, <3>3
  <2> QED BY <2>1, <2>2 DEF IsRecord, Parts6
<1>8. IsList(lk) /\ IsList(here) /\ Range(here) \subseteq Range(lk)
  <2>1. IsList(lk)
    BY <1>0, ListOver
  <2>2. PICK keep : here = Selected(lk, keep)
    BY <1>1
  <2> QED BY <2>1, <2>2, SelectedIs
<1>9. here # <<>> => here[1] \in Range(lk)
  <2>1. Len(here) \in Nat /\ DOMAIN here = 1 .. Len(here)
        /\ \A n \in 1 .. Len(here) : here[n] \in Range(here)
    BY <1>8, ListIs
  <2>2. here \in Seq(Range(here))
    BY <1>8 DEF IsList
  <2>3. here # <<>> => Len(here) # 0
    BY <2>2
  <2> QED BY <1>8, <2>1, <2>3
<1>10. key \in Ids(lk) \cup {None, Fresh(h.file, at)}
  BY <1>2, <1>9 DEF Ids
<1>11. s \in US
  BY <1>5, <1>10 DEF SshMakes
<1>12. lk2 \in Seq(UK) /\ Grown(lk, lk2) /\ Range(lk2) \subseteq Range(lk) \cup {new}
       /\ (key # None /\ here = <<>> => new \in Range(lk2))
  <2>1. new \in UK
    BY <1>3 DEF SshMakes
  <2>2. CASE key = None \/ here # <<>>
    BY <1>0, <1>4, <2>2 DEF Grown
  <2>3. CASE key # None /\ here = <<>>
    <3>1. lk2 = Append(lk, new)
      BY <1>4, <2>3
    <3>2. /\ Append(lk, new) \in Seq(UK) /\ Range(Append(lk, new)) = Range(lk) \cup {new}
          /\ DOMAIN lk \subseteq DOMAIN Append(lk, new)
          /\ \A n \in DOMAIN lk : Append(lk, new)[n] = lk[n]
      BY <1>0, <2>1, AppendedIs
    <3> QED BY <3>1, <3>2 DEF Grown
  <2> QED BY <2>2, <2>3
<1>13. Ids(lk) \subseteq Ids(lk2)
  BY <1>12 DEF Ids, Grown, Range
<1>14. key \in Ids(lk2) \cup {None}
  <2>1. CASE key = None
    BY <2>1
  <2>2. CASE key # None /\ here # <<>>
    BY <1>2, <1>9, <1>13, <2>2 DEF Ids
  <2>3. CASE key # None /\ here = <<>>
    <3>1. new \in Range(lk2) /\ key = Fresh(h.file, at)
      BY <1>2, <1>12, <2>3
    <3>2. new.id = key
      BY <1>3, <3>1 DEF KeyEntry
    <3> QED BY <3>1, <3>2 DEF Ids
  <2> QED BY <2>1, <2>2, <2>3
<1>15. \A k \in Range(lk2) : KeyOK(k)
  <2>1. \A k \in Range(lk) : KeyOK(k)
    BY <1>0 DEF SshPass
  <2>2. CASE key = None \/ here # <<>>
    BY <1>4, <2>1, <2>2
  <2>3. CASE key # None /\ here = <<>>
    <3>1. Fresh(h.file, at) # None
      BY <1>2, <2>3
    <3>2. KeyOK(new)
      BY <1>3, <3>1 DEF KeyOK, IsKey, IsRecord, KeyEntry
    <3> QED BY <1>12, <2>1, <3>2
  <2> QED BY <2>2, <2>3
<1>16. SshHostNew(s, A, at, lk2)
  <2>1. ServerOK(s) /\ s.identity = None /\ s.jump = None /\ s.key = key
        /\ s.id = Fresh(h.alias, at)
    BY <1>5 DEF ServerOK, IsServer, IsRecord, NewServer
  <2>2. h.alias \in A
    BY DEF SshMakes
  <2> QED BY <1>14, <2>1, <2>2 DEF SshHostNew
<1>17. /\ ls2 \in Seq(US) /\ DOMAIN ls \subseteq DOMAIN ls2
       /\ \A n \in DOMAIN ls : ls2[n] = ls[n]
       /\ \A n \in DOMAIN ls2 \ DOMAIN ls : ls2[n] = s
       /\ DOMAIN ls2 \ DOMAIN ls # {}
  <2>1. /\ Append(ls, s) \in Seq(US) /\ DOMAIN ls \subseteq DOMAIN Append(ls, s)
        /\ \A n \in DOMAIN ls : Append(ls, s)[n] = ls[n]
        /\ \A n \in DOMAIN Append(ls, s) \ DOMAIN ls : Append(ls, s)[n] = s
    BY <1>0, <1>11, AppendedIs
  <2>2. DOMAIN Append(ls, s) = 1 .. Len(ls) + 1 /\ DOMAIN ls = 1 .. Len(ls) /\ Len(ls) \in Nat
    BY <1>0, <1>11
  <2>3. Len(ls) + 1 \in DOMAIN Append(ls, s) \ DOMAIN ls
    BY <2>2
  <2> QED BY <1>6, <2>1, <2>3
<1>18. PICK B2 : B2 = B \cup {h.alias}
  OBVIOUS
<1>19. SshPass(d, ls2, lk2, B2, A, at)
  <2>1. Grown(d.servers, ls2) /\ Grown(d.keys, lk2)
    BY <1>0, <1>12, <1>17 DEF SshPass, Grown
  <2>2. ASSUME NEW n \in DOMAIN ls2 \ DOMAIN d.servers PROVE SshHostNew(ls2[n], A, at, lk2)
    <3>1. CASE n \in DOMAIN ls
      <4>1. SshHostNew(ls[n], A, at, lk)
        BY <1>0, <3>1, <2>2 DEF SshPass
      <4>2. ls2[n] = ls[n]
        BY <1>17, <3>1
      <4> QED BY <1>13, <4>1, <4>2 DEF SshHostNew
    <3>2. CASE n \notin DOMAIN ls
      BY <1>16, <1>17, <2>2, <3>2
    <3> QED BY <3>1, <3>2
  <2>3. ASSUME NEW a \in B2
        PROVE  \E n \in DOMAIN ls2 \ DOMAIN d.servers : ls2[n].id = Fresh(a, at)
    <3>1. CASE a \in B
      <4>1. PICK n \in DOMAIN ls \ DOMAIN d.servers : ls[n].id = Fresh(a, at)
        BY <1>0, <3>1 DEF SshPass
      <4> QED BY <1>17, <4>1
    <3>2. CASE a = h.alias
      <4>1. PICK n \in DOMAIN ls2 \ DOMAIN ls : ls2[n] = s
        BY <1>17
      <4>2. n \notin DOMAIN d.servers
        BY <1>0, <4>1 DEF SshPass, Grown
      <4>3. s.id = Fresh(h.alias, at)
        BY <1>5 DEF NewServer
      <4> QED BY <3>2, <4>1, <4>2, <4>3
    <3> QED BY <1>18, <3>1, <3>2
  <2> QED BY <1>15, <2>1, <2>2, <2>3 DEF SshPass
<1>20. PICK t : t = SshHost(so, h, onDisk, at)
  OBVIOUS
<1>21. t = so \/ t = [d |-> [so.d EXCEPT !.keys = lk2, !.servers = ls2],
                      by_alias |-> [a \in DOMAIN so.by_alias \union {h.alias} |->
                                      IF a = h.alias THEN Fresh(a, at) ELSE so.by_alias[a]]]
  <2> DEFINE Here == Selected(so.d.keys,
                        {k \in Range(so.d.keys) : h.file # None /\ k.path = h.file})
             Key == IF h.file \notin onDisk THEN None
                    ELSE IF Here # <<>> THEN Here[1].id ELSE Fresh(h.file, at)
             New2 == KeyEntry(Key, h.file, h.file, None)
             host == NewServer(Fresh(h.alias, at), h.hostname, Key, None)
             by == [a \in DOMAIN so.by_alias \union {h.alias} |->
                      IF a = h.alias THEN Fresh(a, at) ELSE so.by_alias[a]]
             known == \E x \in Range(so.d.servers) : x.addr = h.hostname
  <2>1. t = IF known THEN so
            ELSE [d |-> [so.d EXCEPT
                           !.keys = IF Key = None \/ Here # <<>> THEN @ ELSE Append(@, New2),
                           !.servers = Append(@, host)],
                  by_alias |-> by]
    BY <1>20 DEF SshHost
  <2>2. Here = here
    BY <1>1, <1>7
  <2>3. Key = key
    <3> HIDE DEF Here
    <3> QED BY <1>2, <2>2
  <2>4. host = s /\ (key # None /\ here = <<>> => New2 = new)
    <3> HIDE DEF Key
    <3> QED BY <1>2, <1>3, <1>5, <2>3
  <2> HIDE DEF Here, Key, New2, host, known
  <2>5. lk2 = IF Key = None \/ Here # <<>> THEN so.d.keys ELSE Append(so.d.keys, New2)
    BY <1>4, <1>7, <2>2, <2>3, <2>4
  <2>6. ls2 = Append(so.d.servers, host)
    BY <1>6, <1>7, <2>4
  <2> HIDE DEF by
  <2>7. t = so \/ t = [d |-> [so.d EXCEPT !.keys = lk2, !.servers = ls2], by_alias |-> by]
    BY <2>1, <2>5, <2>6
  <2> QED BY <2>7 DEF by
<1>22. [so.d EXCEPT !.keys = lk2, !.servers = ls2] = [d EXCEPT !.servers = ls2, !.keys = lk2]
  BY <1>7 DEF IsRecord, Parts6
<1>23. [a \in DOMAIN so.by_alias \union {h.alias} |->
          IF a = h.alias THEN Fresh(a, at) ELSE so.by_alias[a]] = [a \in B2 |-> Fresh(a, at)]
  BY <1>7, <1>18
<1>24. B2 \in SUBSET A
  BY <1>0, <1>18 DEF SshMakes
<1>25. t # so => t = SshSoFar(d, ls2, lk2, B2, at)
  BY <1>21, <1>22, <1>23 DEF SshSoFar
<1>26. SshLists(d, ls2, lk2, B2, US, UK, A, at)
  BY <1>12, <1>17, <1>19, <1>24 DEF SshLists
<1> QED BY <1>20, <1>25, <1>26

LEMMA NoneYet ==
  ASSUME NEW at
  PROVE  [a \in {} |-> Fresh(a, at)] = <<>>
OBVIOUS

LEMMA SshFirst ==
  ASSUME NEW d, DocOK(d), NEW hosts, IsList(hosts), NEW onDisk, None \notin onDisk, NEW at,
         \A f \in onDisk : Fresh(f, at) # None,
         NEW A, \A h \in Range(hosts) : h.alias \in A,
         NEW first, first = AddHosts(d, hosts, onDisk, at)
  PROVE  \E ls, lk, B : /\ IsList(ls) /\ IsList(lk) /\ B \subseteq A
                        /\ SshPass(d, ls, lk, B, A, at) /\ first = SshSoFar(d, ls, lk, B, at)
<1> DEFINE MadeK == {KeyEntry(Fresh(h.file, at), h.file, h.file, None) : h \in Range(hosts)}
           UK == Range(d.keys) \cup MadeK
           KIds == {k.id : k \in UK} \cup {None} \cup {Fresh(h.file, at) : h \in Range(hosts)}
           MadeS == {NewServer(Fresh(h.alias, at), h.hostname, id, None) :
                       h \in Range(hosts), id \in KIds}
           US == Range(d.servers) \cup MadeS
           Q == {q \in Seq(US) \X Seq(UK) \X SUBSET A :
                   SshLists(d, q[1], q[2], q[3], US, UK, A, at)}
           with(q) == SshSoFar(d, q[1], q[2], q[3], at)
           S == {with(q) : q \in Q}
<1>1. IsRecord(d, Parts6) /\ IsList(d.servers) /\ IsList(d.keys)
  BY DEF DocOK, RecordsOK
<1> HIDE DEF MadeK, UK, KIds, MadeS, US, Q, with, S
<1>2. ASSUME NEW ls, NEW lk, NEW B, SshLists(d, ls, lk, B, US, UK, A, at)
      PROVE  SshSoFar(d, ls, lk, B, at) \in S
  <2>1. PICK q : q = <<ls, lk, B>>
    OBVIOUS
  <2>2. q[1] = ls /\ q[2] = lk /\ q[3] = B
    BY <2>1
  <2>3. q \in Seq(US) \X Seq(UK) \X SUBSET A
    BY <1>2, <2>1 DEF SshLists
  <2>4. q \in Q
    BY <1>2, <2>2, <2>3 DEF Q
  <2>5. with(q) = SshSoFar(d, ls, lk, B, at)
    BY <2>2 DEF with
  <2> QED BY <2>4, <2>5 DEF S
<1>3. ASSUME NEW so \in S
      PROVE  \E ls, lk, B : SshLists(d, ls, lk, B, US, UK, A, at) /\ so = SshSoFar(d, ls, lk, B, at)
  <2>1. PICK q \in Q : so = with(q)
    BY DEF S
  <2>2. SshLists(d, q[1], q[2], q[3], US, UK, A, at)
    BY DEF Q
  <2> QED BY <2>1, <2>2 DEF with
<1>4. ASSUME NEW so \in S, NEW h \in Range(hosts) PROVE SshHost(so, h, onDisk, at) \in S
  <2>1. PICK ls, lk, B :
           SshLists(d, ls, lk, B, US, UK, A, at) /\ so = SshSoFar(d, ls, lk, B, at)
    BY <1>3
  <2>2. KeyEntry(Fresh(h.file, at), h.file, h.file, None) \in UK
    BY DEF UK, MadeK
  <2>3. \A id \in Ids(lk) \cup {None, Fresh(h.file, at)} :
           NewServer(Fresh(h.alias, at), h.hostname, id, None) \in US
    <3>1. Range(lk) \subseteq UK
      BY <2>1, ListOver DEF SshLists
    <3>2. Ids(lk) \cup {None, Fresh(h.file, at)} \subseteq KIds
      BY <3>1 DEF Ids, KIds
    <3>3. ASSUME NEW id \in KIds
          PROVE  NewServer(Fresh(h.alias, at), h.hostname, id, None) \in MadeS
      BY DEF MadeS
    <3> QED BY <3>2, <3>3 DEF US
  <2>4. h.alias \in A
    OBVIOUS
  <2>5. SshHost(so, h, onDisk, at) = so \/
         \E ls2, lk2, B2 : /\ SshLists(d, ls2, lk2, B2, US, UK, A, at)
                           /\ SshHost(so, h, onDisk, at) = SshSoFar(d, ls2, lk2, B2, at)
    <3>1. SshMakes(h, lk, US, UK, A, at)
      BY <2>2, <2>3, <2>4 DEF SshMakes
    <3> QED BY <2>1, <3>1, SshHostStep
  <2> QED BY <1>2, <2>5
<1>5. PICK b : b = [d |-> d, by_alias |-> <<>>]
  OBVIOUS
<1>6. b \in S
  <2>1. d.servers \in Seq(US) /\ d.keys \in Seq(UK)
    <3>1. /\ d.servers \in Seq(Range(d.servers)) /\ Range(d.servers) \subseteq US
          /\ d.keys \in Seq(Range(d.keys)) /\ Range(d.keys) \subseteq UK
      BY <1>1 DEF IsList, US, UK
    <3> QED BY <3>1, SeqMonotonic
  <2>2. SshPass(d, d.servers, d.keys, {}, A, at)
    BY DEF SshPass, Grown, DocOK, RecordsOK
  <2>3. SshSoFar(d, d.servers, d.keys, {}, at) \in S
    BY <1>2, <2>1, <2>2 DEF SshLists
  <2>4. b = SshSoFar(d, d.servers, d.keys, {}, at)
    <3>1. [d EXCEPT !.servers = d.servers, !.keys = d.keys] = d
      BY <1>1 DEF IsRecord, Parts6
    <3> QED BY <1>5, <3>1, NoneYet, Zenon DEF SshSoFar
  <2> QED BY <2>3, <2>4
<1>7. first \in S
  BY <1>4, <1>5, <1>6, SshHostFolds
<1>8. PICK ls, lk, B :
         SshLists(d, ls, lk, B, US, UK, A, at) /\ first = SshSoFar(d, ls, lk, B, at)
  BY <1>3, <1>7
<1>9. IsList(ls) /\ IsList(lk)
  BY <1>8, ListOver DEF SshLists
<1> QED BY <1>8, <1>9 DEF SshLists

\* The second pass changes nothing but the jump host of the hosts added, and
\* leads each to another of them.
LEMMA ChainLinks ==
  ASSUME NEW B, NEW J, NEW by_alias \in [B -> J], NEW server \in J, NEW hops, IsList(hops),
         NEW l \in chain_links(server, hops, by_alias)
  PROVE  l[1] \in J /\ l[2] \in J
<1>1. PICK back : back = Mapped(hops, LAMBDA h : by_alias[h])
  OBVIOUS
<1>2. PICK ids : ids = <<server>> \o Reverse(back)
  OBVIOUS
<1>3. hops # <<>> /\ \A h \in Range(hops) : h \in DOMAIN by_alias
  BY DEF chain_links
<1>4. PICK n \in 1..Len(hops) : l = <<ids[n], ids[n + 1]>>
  BY <1>1, <1>2 DEF chain_links
<1>5. Len(hops) \in Nat /\ DOMAIN hops = 1 .. Len(hops)
      /\ \A m \in 1 .. Len(hops) : hops[m] \in Range(hops)
  BY ListIs
<1>6. back \in [1 .. Len(hops) -> J] /\ Len(back) = Len(hops)
  <2>1. back = [m \in 1 .. Len(hops) |-> by_alias[hops[m]]]
    BY <1>1, <1>5 DEF Mapped
  <2> QED BY <1>3, <1>5, <2>1
<1>7. Reverse(back) \in Seq(J) /\ Len(Reverse(back)) = Len(hops)
  <2>1. Reverse(back) = [i \in 1 .. Len(hops) |-> back[(Len(hops) - i) + 1]]
    BY <1>6 DEF Reverse
  <2>2. \A i \in 1 .. Len(hops) : (Len(hops) - i) + 1 \in 1 .. Len(hops)
    BY <1>5
  <2>3. Reverse(back) \in [1 .. Len(hops) -> J]
    BY <1>6, <2>1, <2>2
  <2> QED BY <1>5, <2>3
<1>8. PICK r \in Seq(J) : r = Reverse(back) /\ Len(r) = Len(hops)
  BY <1>7
<1>9. <<server>> \in Seq(J) /\ Len(<<server>>) = 1
  OBVIOUS
<1>10. ids \in Seq(J) /\ Len(ids) = Len(hops) + 1
  <2>1. PICK s1 \in Seq(J) : s1 = <<server>> /\ Len(s1) = 1
    BY <1>9
  <2>2. s1 \o r \in Seq(J) /\ Len(s1 \o r) = Len(s1) + Len(r)
    BY ConcatProperties
  <2> QED BY <1>2, <1>5, <1>8, <2>1, <2>2
<1>11. ids[n] \in J /\ ids[n + 1] \in J
  BY <1>5, <1>10
<1> QED BY <1>4, <1>11

\* Halfway through the second pass: each host as the first left it but for its
\* jump host, which an import sets for none but its own.
Linking(d, ls, q, J) ==
    /\ q \in Seq(Range(q)) /\ DOMAIN q = DOMAIN ls
    /\ \A n \in DOMAIN d.servers : q[n] = d.servers[n]
    /\ \A n \in DOMAIN ls : \E j \in {ls[n].jump} \cup J : q[n] = [ls[n] EXCEPT !.jump = j]

LEMMA LinkStep ==
  ASSUME NEW d, NEW ls, IsList(ls), \A s \in Range(ls) : IsServer(s), Grown(d.servers, ls), NEW J,
         \A s \in Range(d.servers) : s.id \notin J,
         NEW q, Linking(d, ls, q, J), NEW links, \A l \in links : l[1] \in J /\ l[2] \in J,
         NEW r, r = [n \in DOMAIN q |->
                       IF \E l \in links : l[1] = q[n].id
                       THEN [q[n] EXCEPT !.jump = (CHOOSE l \in links : l[1] = q[n].id)[2]]
                       ELSE q[n]]
  PROVE  Linking(d, ls, r, J)
<1>1. DOMAIN r = DOMAIN ls /\ DOMAIN q = DOMAIN ls
  BY DEF Linking
<1>2. r \in Seq(Range(r))
  <2>1. r \in [DOMAIN ls -> Range(r)]
    BY <1>1 DEF Range
  <2>2. IsList(r)
    BY <1>1, <2>1, RemadeIs
  <2> QED BY <2>2 DEF IsList
<1>3. ASSUME NEW n \in DOMAIN d.servers PROVE r[n] = d.servers[n]
  <2>1. n \in DOMAIN q /\ q[n] = d.servers[n]
    BY <1>1 DEF Linking, Grown
  <2>2. q[n].id \notin J
    BY <2>1 DEF Range
  <2>3. ~\E l \in links : l[1] = q[n].id
    BY <2>2
  <2> QED BY <2>1, <2>3
<1>4. ASSUME NEW n \in DOMAIN ls
      PROVE  \E j \in {ls[n].jump} \cup J : r[n] = [ls[n] EXCEPT !.jump = j]
  <2>1. PICK j \in {ls[n].jump} \cup J : q[n] = [ls[n] EXCEPT !.jump = j]
    BY DEF Linking
  <2>2. CASE \E l \in links : l[1] = q[n].id
    <3>1. PICK m : m = CHOOSE l \in links : l[1] = q[n].id
      OBVIOUS
    <3>2. m \in links
      BY <2>2, <3>1
    <3>3. PICK k : k = m[2]
      OBVIOUS
    <3>4. r[n] = [q[n] EXCEPT !.jump = k]
      BY <1>1, <2>2, <3>1, <3>3
    <3>5. [[ls[n] EXCEPT !.jump = j] EXCEPT !.jump = k] = [ls[n] EXCEPT !.jump = k]
      <4>1. PICK s : s = ls[n]
        OBVIOUS
      <4>2. IsServer(s)
        BY <4>1 DEF Range
      <4>3. [[s EXCEPT !.jump = j] EXCEPT !.jump = k] = [s EXCEPT !.jump = k]
        BY <4>2 DEF IsServer, IsRecord
      <4> QED BY <4>1, <4>3
    <3>6. k \in J
      BY <3>2, <3>3
    <3> QED BY <2>1, <3>4, <3>5, <3>6
  <2>3. CASE ~\E l \in links : l[1] = q[n].id
    BY <1>1, <2>1, <2>3
  <2> QED BY <2>2, <2>3
<1> QED BY <1>1, <1>2, <1>3, <1>4 DEF Linking

LEMMA LinkedIs ==
  ASSUME NEW d, NEW e, IsRecord(e, Parts6), NEW ls, e.servers = ls,
         IsList(ls), \A s \in Range(ls) : IsServer(s), Grown(d.servers, ls),
         NEW B, NEW J, NEW by_alias \in [B -> J], \A s \in Range(d.servers) : s.id \notin J,
         NEW hosts, IsList(hosts), \A h \in Range(hosts) : IsList(h.jump)
  PROVE  \E q : /\ Linking(d, ls, q, J)
                /\ LinkHosts(e, hosts, by_alias) = [e EXCEPT !.servers = q]
<1> DEFINE V == Range(ls) \cup {[s EXCEPT !.jump = j] : s \in Range(ls), j \in J}
           Q == {q \in Seq(V) : Linking(d, ls, q, J)}
           with(q) == [e EXCEPT !.servers = q]
           S == {with(q) : q \in Q}
<1> HIDE DEF V, Q, with, S
<1>1. ASSUME NEW q, NEW m PROVE with(q).servers = q /\ [with(q) EXCEPT !.servers = m] = with(m)
  BY DEF with, IsRecord, Parts6
<1>2. ASSUME NEW q, Linking(d, ls, q, J) PROVE with(q) \in S
  <2>1. \A n \in DOMAIN ls : q[n] \in V
    <3>1. ASSUME NEW n \in DOMAIN ls PROVE q[n] \in V
      <4>1. PICK j \in {ls[n].jump} \cup J : q[n] = [ls[n] EXCEPT !.jump = j]
        BY <1>2 DEF Linking
      <4>2. PICK s \in Range(ls) : s = ls[n]
        BY DEF Range
      <4>3. j = s.jump => [s EXCEPT !.jump = j] = s
        BY <4>2 DEF IsServer, IsRecord
      <4>4. j \in J => [s EXCEPT !.jump = j] \in {[x EXCEPT !.jump = y] : x \in Range(ls), y \in J}
        OBVIOUS
      <4> QED BY <4>1, <4>2, <4>3, <4>4 DEF V
    <3> QED BY <3>1
  <2>2. DOMAIN q = DOMAIN ls /\ q \in Seq(Range(q))
    BY <1>2 DEF Linking
  <2>3. Len(ls) \in Nat /\ DOMAIN ls = 1 .. Len(ls)
    BY ListIs
  <2>4. q \in Seq(V)
    <3>1. q = [n \in 1 .. Len(ls) |-> q[n]]
      BY <2>2, <2>3
    <3> QED BY <2>1, <2>3, <3>1
  <2> QED BY <1>2, <2>4 DEF Q, S
<1>3. ASSUME NEW so \in S PROVE \E q : so = with(q) /\ Linking(d, ls, q, J)
  BY DEF S, Q
<1>4. ASSUME NEW so \in S, NEW h \in Range(hosts) PROVE SshLinks(so, h, by_alias) \in S
  <2>1. PICK q : so = with(q) /\ Linking(d, ls, q, J)
    BY <1>3
  <2>2. PICK links : links = IF h.alias \notin DOMAIN by_alias THEN {}
                             ELSE chain_links(by_alias[h.alias], h.jump, by_alias)
    OBVIOUS
  <2>3. \A l \in links : l[1] \in J /\ l[2] \in J
    <3>1. CASE h.alias \notin DOMAIN by_alias
      BY <2>2, <3>1
    <3>2. CASE h.alias \in DOMAIN by_alias
      <4>1. by_alias[h.alias] \in J /\ IsList(h.jump)
        BY <3>2
      <4> QED BY <2>2, <3>2, <4>1, ChainLinks
    <3> QED BY <3>1, <3>2
  <2>4. PICK r : r = [n \in DOMAIN q |->
                       IF \E l \in links : l[1] = q[n].id
                       THEN [q[n] EXCEPT !.jump = (CHOOSE l \in links : l[1] = q[n].id)[2]]
                       ELSE q[n]]
    OBVIOUS
  <2>5. Linking(d, ls, r, J)
    BY <2>1, <2>3, <2>4, LinkStep
  <2>6. SshLinks(so, h, by_alias) = so \/ SshLinks(so, h, by_alias) = [so EXCEPT !.servers = r]
    <3>1. so.servers = q
      BY <1>1, <2>1
    <3> QED BY <2>2, <2>4, <3>1 DEF SshLinks, Mapped
  <2>7. with(r) \in S
    BY <1>2, <2>5
  <2> QED BY <1>1, <2>1, <2>6, <2>7
<1>5. e \in S
  <2>1. Linking(d, ls, ls, J)
    <3>1. \A n \in DOMAIN ls : ls[n] = [ls[n] EXCEPT !.jump = ls[n].jump]
      BY DEF IsServer, IsRecord, Range
    <3> QED BY <3>1 DEF Linking, Grown, IsList
  <2>2. e = with(ls)
    BY DEF with, IsRecord, Parts6
  <2> QED BY <1>2, <2>1, <2>2
<1>6. LinkHosts(e, hosts, by_alias) \in S
  BY <1>4, <1>5, SshLinksFolds
<1>7. PICK q : LinkHosts(e, hosts, by_alias) = with(q) /\ Linking(d, ls, q, J)
  BY <1>3, <1>6
<1> QED BY <1>7 DEF with

LEMMA SshAdds ==
  ASSUME NEW d, DocOK(d), NEW scan, NEW aliases, NEW onDisk, None \notin onDisk, NEW at,
         \A f \in onDisk : Fresh(f, at) # None,
         NEW hosts, hosts = Picked(scan, aliases), IsList(hosts),
         NEW A, \A h \in Range(hosts) : h.alias \in A /\ IsList(h.jump),
         \A s \in Range(d.servers) : \A a \in A : s.id # Fresh(a, at),
         NEW e, e = import_ssh_config_hosts(d, scan, aliases, onDisk, at)
  PROVE  ImportOK(d, e, at)
<1>1. PICK first : first = AddHosts(d, hosts, onDisk, at)
  OBVIOUS
<1>2. e = LinkHosts(first.d, hosts, first.by_alias)
  BY <1>1, Zenon DEF import_ssh_config_hosts
<1>3. PICK ls, lk, B : /\ IsList(ls) /\ IsList(lk) /\ B \subseteq A
                       /\ SshPass(d, ls, lk, B, A, at) /\ first = SshSoFar(d, ls, lk, B, at)
  BY <1>1, SshFirst
<1> DEFINE J == {Fresh(a, at) : a \in B}
<1>4. PICK mid, by : mid = [d EXCEPT !.servers = ls, !.keys = lk] /\ by = [a \in B |-> Fresh(a, at)]
  OBVIOUS
<1>5. first.d = mid /\ first.by_alias = by
  <2>1. first = [d |-> mid, by_alias |-> by]
    BY <1>3, <1>4, Zenon DEF SshSoFar
  <2> QED BY <2>1
<1>6. by \in [B -> J]
  BY <1>4
<1>7. \A s \in Range(d.servers) : s.id \notin J
  BY <1>3
<1> HIDE DEF J
<1>8. /\ IsRecord(mid, Parts6) /\ mid.servers = ls /\ mid.keys = lk /\ mid.rules = d.rules
      /\ mid.identities = d.identities /\ mid.marks = d.marks /\ mid.history = d.history
  <2>1. IsRecord(d, Parts6)
    BY DEF DocOK, RecordsOK
  <2> QED BY <1>4, <2>1 DEF IsRecord, Parts6
<1>9. Grown(d.servers, ls) /\ Grown(d.keys, lk) /\ \A k \in Range(lk) : KeyOK(k)
  BY <1>3 DEF SshPass
<1>10. \A n \in DOMAIN ls \ DOMAIN d.servers : SshHostNew(ls[n], A, at, lk)
  BY <1>3 DEF SshPass
<1>11. \A s \in Range(ls) : ServerOK(s)
  <2>1. ASSUME NEW n \in DOMAIN ls PROVE ServerOK(ls[n])
    <3>1. CASE n \in DOMAIN d.servers
      <4>1. ls[n] \in Range(d.servers)
        BY <1>9, <3>1 DEF Grown, Range
      <4> QED BY <4>1 DEF DocOK, RecordsOK
    <3>2. CASE n \notin DOMAIN d.servers
      BY <1>10, <2>1, <3>2 DEF SshHostNew
    <3> QED BY <3>1, <3>2
  <2> QED BY <2>1 DEF Range
<1>12. PICK q : Linking(d, ls, q, J) /\ e = [mid EXCEPT !.servers = q]
  <2>1. \A s \in Range(ls) : IsServer(s)
    BY <1>11 DEF ServerOK
  <2>2. \A h \in Range(hosts) : IsList(h.jump)
    OBVIOUS
  <2>3. \E q : Linking(d, ls, q, J) /\ LinkHosts(mid, hosts, by) = [mid EXCEPT !.servers = q]
    BY <1>3, <1>6, <1>7, <1>8, <1>9, <2>1, <2>2, LinkedIs
  <2> QED BY <1>2, <1>5, <2>3
<1>13. /\ IsRecord(e, Parts6) /\ e.servers = q /\ e.keys = lk /\ e.rules = d.rules
       /\ e.identities = d.identities /\ e.marks = d.marks /\ e.history = d.history
  BY <1>8, <1>12 DEF IsRecord, Parts6
<1>14. ASSUME NEW n \in DOMAIN q
       PROVE  /\ ServerOK(q[n]) /\ q[n].id = ls[n].id /\ q[n].identity = ls[n].identity
              /\ q[n].key = ls[n].key /\ q[n].jump \in {ls[n].jump} \cup J
  <2>1. n \in DOMAIN ls
    BY <1>12 DEF Linking
  <2>2. PICK j \in {ls[n].jump} \cup J : q[n] = [ls[n] EXCEPT !.jump = j]
    BY <1>12, <2>1 DEF Linking
  <2>3. PICK s \in Range(ls) : s = ls[n]
    BY <2>1 DEF Range
  <2>4. ServerOK(s) /\ q[n] = [s EXCEPT !.jump = j]
    BY <1>11, <2>2, <2>3
  <2>5. /\ ServerOK(q[n]) /\ q[n].id = s.id /\ q[n].identity = s.identity
        /\ q[n].key = s.key /\ q[n].jump = j
    BY <2>4 DEF ServerOK, IsServer, IsRecord
  <2> QED BY <2>2, <2>3, <2>5
<1>15. DOMAIN q = DOMAIN ls /\ IsList(q)
  BY <1>12 DEF Linking, IsList
<1>16. J \subseteq Ids(q)
  <2>1. ASSUME NEW a \in B PROVE Fresh(a, at) \in Ids(q)
    <3>1. PICK n \in DOMAIN ls : ls[n].id = Fresh(a, at)
      BY <1>3, <2>1 DEF SshPass
    <3>2. q[n].id = Fresh(a, at) /\ n \in DOMAIN q
      BY <1>14, <1>15, <3>1
    <3> QED BY <3>2 DEF Ids, Range
  <2> QED BY <2>1 DEF J
<1>17. Grown(d.servers, q)
  BY <1>9, <1>12, <1>15 DEF Grown, Linking
<1>18. Ids(d.servers) \subseteq Ids(q)
  BY <1>17 DEF Grown, Ids, Range
<1>19. DocOK(e)
  <2>1. \A s \in Range(q) : ServerOK(s)
    BY <1>14 DEF Range
  <2> QED BY <1>3, <1>9, <1>13, <1>15, <1>18, <2>1 DEF DocOK, RecordsOK
<1>20. OnlyAdds(d, e)
  BY <1>9, <1>13, <1>17 DEF OnlyAdds, Grown
<1>21. LinksHome(d, e)
  <2>1. ASSUME NEW n \in DOMAIN q \ DOMAIN d.servers PROVE PointsHome(e, q[n])
    <3>1. SshHostNew(ls[n], A, at, lk)
      BY <1>10, <1>15, <2>1
    <3>2. /\ q[n].identity = None /\ q[n].key \in Ids(lk) \cup {None}
          /\ q[n].jump \in {None} \cup J
      BY <1>14, <2>1, <3>1 DEF SshHostNew
    <3> QED BY <1>13, <1>16, <3>2 DEF PointsHome
  <2> QED BY <1>13, <2>1 DEF LinksHome
<1>22. \A id \in Ids(e.servers) \ Ids(d.servers) : \E x : id = Fresh(x, at)
  <2>1. ASSUME NEW n \in DOMAIN q, q[n].id \notin Ids(d.servers) PROVE \E x : q[n].id = Fresh(x, at)
    <3>1. n \notin DOMAIN d.servers
      BY <1>17, <2>1 DEF Grown, Ids, Range
    <3>2. SshHostNew(ls[n], A, at, lk)
      BY <1>10, <1>15, <3>1
    <3> QED BY <1>14, <3>2 DEF SshHostNew
  <2> QED BY <1>13, <2>1 DEF Ids, Range
<1> QED BY <1>19, <1>20, <1>21, <1>22 DEF ImportOK, MadeAt

LEMMA PickedIs ==
  ASSUME NEW scan, IsList(scan), \A h \in Range(scan) : IsList(h.jump),
         NEW aliases, IsList(aliases),
         NEW hosts, hosts = Picked(scan, aliases)
  PROVE  IsList(hosts) /\ \A h \in Range(hosts) : h.alias \in Range(aliases) /\ IsList(h.jump)
<1> DEFINE named == Selected(aliases, {h.alias : h \in Range(scan)})
           of(a) == Selected(scan, {h \in Range(scan) : h.alias = a})
           V == {h \in Range(scan) : h.alias \in Range(aliases)}
<1>1. IsList(named) /\ Range(named) = Range(aliases) \cap {h.alias : h \in Range(scan)}
  BY SelectedIs
<1>2. ASSUME NEW a \in Range(named) PROVE of(a)[1] \in V
  <2>1. PICK keep : keep = {h \in Range(scan) : h.alias = a}
    OBVIOUS
  <2>2. IsList(of(a)) /\ Range(of(a)) = Range(scan) \cap keep
    BY <2>1, SelectedIs
  <2>3. Range(of(a)) # {}
    <3> HIDE DEF named, of
    <3> QED BY <1>1, <2>1, <2>2
  <2> HIDE DEF of
  <2>4. Len(of(a)) \in Nat /\ DOMAIN of(a) = 1 .. Len(of(a))
        /\ \A n \in 1 .. Len(of(a)) : of(a)[n] \in Range(of(a))
    BY <2>2, ListIs
  <2>5. 1 \in 1 .. Len(of(a))
    BY <2>3, <2>4 DEF Range
  <2>6. of(a)[1] \in Range(of(a))
    BY <2>4, <2>5
  <2> HIDE DEF named
  <2> QED BY <1>1, <2>1, <2>2, <2>6
<1> HIDE DEF named, of
<1>3. hosts = [n \in DOMAIN named |-> of(named[n])[1]]
  BY DEF Picked, Mapped, named, of
<1> HIDE DEF V
<1>4. hosts \in [DOMAIN named -> V] /\ DOMAIN hosts = DOMAIN named
  BY <1>2, <1>3 DEF Range
<1>5. IsList(hosts) /\ Range(hosts) \subseteq V
  BY <1>1, <1>4, RemadeIs
<1> QED BY <1>5 DEF V

LEMMA ParseFolds ==
  ASSUME NEW lines, IsList(lines), NEW S,
         [hosts |-> <<>>, current |-> {}] \in S,
         \A so \in S : \A x \in Range(lines) : ParseLine(so, x) \in S
  PROVE  FoldLeft(ParseLine, [hosts |-> <<>>, current |-> {}], lines) \in S
<1> DEFINE N == Len(lines)
           op(so, x) == ParseLine(so, x)
           G == [n \in 1 .. N |-> [so \in S |-> op(so, lines[n])]]
           Is(g) == g = [s \in SUBSET (DOMAIN lines) |->
                           IF s = {} THEN [hosts |-> <<>>, current |-> {}]
                           ELSE op(g[s \ {Max(s)}], lines[Max(s)])]
           it == CHOOSE g : Is(g)
<1>1. N \in Nat /\ DOMAIN lines = 1 .. N /\ \A n \in 1 .. N : lines[n] \in Range(lines)
  BY ListIs
<1>2. FoldLeft(ParseLine, [hosts |-> <<>>, current |-> {}], lines) = it[DOMAIN lines]
  BY DEF FoldLeft, MapThenFoldSet
<1> HIDE DEF N, op
<1>3. G \in [1 .. N -> [S -> S]]
  BY <1>1 DEF op
<1>4. PICK b : b = [hosts |-> <<>>, current |-> {}] /\ b \in S
  OBVIOUS
<1>5. PICK g : Folds(g, N, S, b, G)
  <2> HIDE DEF G
  <2> QED BY <1>1, <1>3, <1>4, FoldExists
<1>6. Is(g)
  <2> HIDE DEF G
  <2>1. g = [s \in SUBSET (DOMAIN lines) |->
               IF s = {} THEN b ELSE op(g[s \ {Max(s)}], lines[Max(s)])]
    <3>1. ASSUME NEW s \in SUBSET (1 .. N), s # {}
          PROVE  g[s] = op(g[s \ {Max(s)}], lines[Max(s)])
      <4>1. N \in Nat /\ s \in SUBSET (1 .. N) /\ s # {}
        BY <1>1, <3>1
      <4>2. Max(s) \in s
        BY <4>1, MaxIs
      <4>3. Max(s) \in 1 .. N /\ s \ {Max(s)} \in SUBSET (1 .. N)
        BY <4>1, <4>2
      <4>4. g[s \ {Max(s)}] \in S /\ g[s] = G[Max(s)][g[s \ {Max(s)}]]
        BY <1>5, <3>1, <4>3 DEF Folds
      <4> QED BY <4>3, <4>4 DEF G
    <3>2. g \in [SUBSET (1 .. N) -> S] /\ g[{}] = b
      BY <1>5 DEF Folds
    <3> QED BY <1>1, <3>1, <3>2
  <2> QED BY <1>4, <2>1
<1>7. Is(it)
  <2> HIDE DEF Is
  <2> QED BY <1>6
<1> HIDE DEF it, G
<1>8. it = [s \in SUBSET (1 .. N) |->
              IF s = {} THEN b ELSE op(it[s \ {Max(s)}], lines[Max(s)])]
  BY <1>1, <1>4, <1>7
<1> HIDE DEF Is
<1> DEFINE T == {n \in 0 .. N : it[1 .. n] \in S}
<1>9. 0 \in T
  <2>1. 1 .. 0 = {} /\ 1 .. 0 \in SUBSET (1 .. N)
    BY <1>1
  <2>2. it[1 .. 0] = b
    BY <1>8, <2>1
  <2> QED BY <1>1, <1>4, <2>2
<1>10. ASSUME NEW n \in 1 .. N, n - 1 \in T PROVE n \in T
  <2>0. n \in Nat /\ n # 0 /\ n \in 0 .. N /\ n \in 1 .. n
    BY <1>1
  <2>1. 1 .. n # {} /\ 1 .. n \in SUBSET (1 .. N)
    <3>1. 1 .. n \subseteq 1 .. N
      BY <1>1, <2>0
    <3> QED BY <2>0, <3>1
  <2>2. Max(1 .. n) = n /\ (1 .. n) \ {n} = 1 .. n - 1
    BY <2>0, MaxUpTo
  <2>3. it[1 .. n] = op(it[1 .. n - 1], lines[n])
    BY <1>8, <2>1, <2>2
  <2>4. it[1 .. n - 1] \in S
    BY <1>10
  <2>5. op(it[1 .. n - 1], lines[n]) \in S
    BY <1>1, <2>4 DEF op
  <2> QED BY <2>0, <2>3, <2>5
<1>11. N \in T
  <2> HIDE DEF T
  <2> QED BY <1>1, <1>9, <1>10, Upwards
<1> QED BY <1>1, <1>2, <1>11


\* A function that makes each of its values from the one before.
Steps(f, N, S, b, G) ==
    f \in [0 .. N -> S] /\ f[0] = b /\ \A n \in 1 .. N : f[n] = G[n][f[n - 1]]

LEMMA StepsExist ==
  ASSUME NEW N \in Nat, NEW S, NEW b \in S, NEW G \in [1 .. N -> [S -> S]]
  PROVE  \E f : Steps(f, N, S, b, G)
<1>1. PICK g : Folds(g, N, S, b, G)
  BY FoldExists
<1> DEFINE f == [n \in 0 .. N |-> g[1 .. n]]
<1>2. \A n \in 0 .. N : 1 .. n \in SUBSET (1 .. N)
  OBVIOUS
<1>3. f \in [0 .. N -> S]
  BY <1>1, <1>2 DEF Folds
<1>4. f[0] = b
  <2>1. 1 .. 0 = {} /\ 1 .. 0 \in SUBSET (1 .. N)
    OBVIOUS
  <2>2. f[0] = g[{}]
    BY <2>1
  <2> QED BY <1>1, <2>2 DEF Folds
<1>5. ASSUME NEW n \in 1 .. N PROVE f[n] = G[n][f[n - 1]]
  <2>0. n \in Nat /\ n # 0 /\ n \in 0 .. N /\ n - 1 \in 0 .. N /\ n \in 1 .. n
    OBVIOUS
  <2>1. Max(1 .. n) = n /\ (1 .. n) \ {n} = 1 .. n - 1
    BY <2>0, MaxUpTo
  <2>2. 1 .. n # {} /\ 1 .. n \in SUBSET (1 .. N)
    BY <1>2, <2>0
  <2>3. g[1 .. n] = G[n][g[1 .. n - 1]]
    <3>1. g[1 .. n] = G[Max(1 .. n)][g[(1 .. n) \ {Max(1 .. n)}]]
      BY <1>1, <2>2 DEF Folds
    <3> QED BY <2>1, <3>1
  <2> QED BY <2>0, <2>3
<1>6. Steps(f, N, S, b, G)
  BY <1>3, <1>4, <1>5 DEF Steps
<1> QED BY <1>6

LEMMA FlattenIs ==
  ASSUME NEW X, NEW seqs \in Seq(Seq(X))
  PROVE  FlattenSeq(seqs) \in Seq(X)
<1> DEFINE N == Len(seqs)
           S == Seq(X)
           G == [n \in 1 .. N |-> [so \in S |-> so \o seqs[n]]]
           Is(g) == g = [i \in 1 .. Len(seqs) |-> IF i = 1 THEN seqs[i] ELSE g[i-1] \o seqs[i]]
           it == CHOOSE g : Is(g)
<1>1. N \in Nat /\ \A n \in 1 .. N : seqs[n] \in S
  OBVIOUS
<1>2. CASE N = 0
  <2>1. seqs = <<>>
    BY <1>2
  <2> QED BY <1>2, <2>1 DEF FlattenSeq
<1>3. CASE N # 0
  <2>1. FlattenSeq(seqs) = it[N]
    BY <1>3 DEF FlattenSeq
  <2>2. \A so \in S : \A n \in 1 .. N : so \o seqs[n] \in S
    BY <1>1, ConcatProperties
  <2>3. G \in [1 .. N -> [S -> S]] /\ <<>> \in S
    BY <2>2
  <2>4. PICK f \in [0 .. N -> S] : f[0] = <<>> /\ \A n \in 1 .. N : f[n] = G[n][f[n - 1]]
    <3>1. PICK b : b = <<>>
      OBVIOUS
    <3>2. b \in S
      BY <2>3, <3>1
    <3> HIDE DEF G, S, N
    <3>3. PICK f : Steps(f, N, S, b, G)
      BY <1>1, <2>3, <3>2, StepsExist
    <3> QED BY <3>1, <3>3 DEF Steps
  <2> DEFINE g == [n \in 1 .. N |-> f[n]]
  <2>5. ASSUME NEW n \in 1 .. N PROVE f[n] = f[n - 1] \o seqs[n] /\ n - 1 \in 0 .. N
    <3>1. n - 1 \in 0 .. N
      BY <1>1
    <3> QED BY <2>4, <2>5, <3>1
  <2>6. f[1] = seqs[1]
    <3>1. 1 \in 1 .. N
      BY <1>1, <1>3
    <3>2. f[1] = f[0] \o seqs[1]
      <4>1. f[1] = f[1 - 1] \o seqs[1]
        BY <2>5, <3>1, Zenon
      <4>2. 1 - 1 = 0
        OBVIOUS
      <4> QED BY <4>1, <4>2
    <3>3. seqs[1] \in Seq(X)
      BY <1>1, <3>1
    <3> QED BY <2>4, <3>2, <3>3, ConcatEmptySeq
  <2>7. Is(g)
    <3>1. \A i \in 1 .. N : g[i] = IF i = 1 THEN seqs[i] ELSE g[i-1] \o seqs[i]
      <4>1. ASSUME NEW i \in 1 .. N, i # 1 PROVE i - 1 \in 1 .. N
        BY <1>1, <4>1
      <4> HIDE DEF N
      <4> QED BY <2>5, <2>6, <4>1
    <3> QED BY <3>1
  <2>8. Is(it)
    <3> HIDE DEF Is
    <3> QED BY <2>7
  <2>9. ASSUME NEW i \in 1 .. N PROVE it[i] \in S
    <3> DEFINE T == {n \in 0 .. N : n = 0 \/ it[n] \in S}
    <3> HIDE DEF it, S
    <3>1. 0 \in T
      BY <1>1
    <3>2. ASSUME NEW n \in 1 .. i, n - 1 \in T PROVE n \in T
      <4>1. n \in 1 .. N /\ n \in 0 .. N /\ (n # 1 => n - 1 \in 1 .. N)
        BY <1>1
      <4>2. it[n] = IF n = 1 THEN seqs[n] ELSE it[n - 1] \o seqs[n]
        BY <2>8, <4>1
      <4>3. n # 1 => it[n - 1] \in S
        BY <3>2, <4>1
      <4>4. it[n] \in S
        BY <1>1, <2>2, <4>1, <4>2, <4>3
      <4> QED BY <4>1, <4>4
    <3>3. i \in Nat /\ i # 0
      OBVIOUS
    <3>4. i \in T
      <4> HIDE DEF T
      <4> QED BY <3>1, <3>2, <3>3, Upwards
    <3> QED BY <3>3, <3>4
  <2>10. N \in 1 .. N
    BY <1>1, <1>3
  <2> QED BY <2>1, <2>9, <2>10
<1> QED BY <1>2, <1>3

LEMMA MappedIs ==
  ASSUME NEW list, IsList(list), NEW S, NEW m \in [DOMAIN list -> S]
  PROVE  m \in Seq(S)
<1>1. Len(list) \in Nat /\ DOMAIN list = 1 .. Len(list)
  BY ListIs
<1> QED BY <1>1

\* The directives of a config, its includes in their places, are its own.
LEMMA ExpandIs ==
  ASSUME MaxDepth \in Nat, NEW files, NEW main \in DOMAIN files,
         \A f \in DOMAIN files : IsList(files[f]) /\ \A l \in Range(files[f]) : IsList(l.value),
         NEW X, X = UNION {Range(files[f]) : f \in DOMAIN files}
  PROVE  expand_includes(files, main) \in Seq(X)
<1> DEFINE S == [DOMAIN files -> Seq(X)]
           line(l, depth, below) == IF l.key # "include" THEN <<l>>
                                    ELSE IF depth = 0 THEN <<>> ELSE Included(files, l, below)
           next(depth, below) ==
              [f \in DOMAIN files |->
                 FlattenSeq(Mapped(files[f], LAMBDA l : line(l, depth, below)))]
           none == [f \in DOMAIN files |-> <<>>]
           Is(g) == g = [depth \in 0 .. MaxDepth |-> next(depth, g[depth - 1])]
           it == CHOOSE g : Is(g)
<1>1. expand_includes(files, main) = it[MaxDepth][main]
  BY Zenon DEF expand_includes
<1>2. ASSUME NEW below \in S, NEW l, IsList(l.value) PROVE Included(files, l, below) \in Seq(X)
  <2>1. PICK named : named = Selected(l.value, DOMAIN files)
    OBVIOUS
  <2>2. IsList(named) /\ Range(named) \subseteq DOMAIN files
    BY <1>2, <2>1, SelectedIs
  <2>3. PICK m : m = [n \in DOMAIN named |-> below[named[n]]]
    OBVIOUS
  <2>4. m \in [DOMAIN named -> Seq(X)]
    BY <2>2, <2>3 DEF Range
  <2>5. m \in Seq(Seq(X))
    BY <2>2, <2>4, MappedIs
  <2>6. FlattenSeq(m) \in Seq(X)
    BY <2>5, FlattenIs
  <2> QED BY <2>1, <2>3, <2>6 DEF Included, Mapped
<1>3. ASSUME NEW depth, NEW below, depth = 0 \/ below \in S
      PROVE  next(depth, below) \in S
  <2>1. ASSUME NEW f \in DOMAIN files
        PROVE  FlattenSeq(Mapped(files[f], LAMBDA l : line(l, depth, below))) \in Seq(X)
    <3>1. PICK list : list = files[f]
      OBVIOUS
    <3>2. IsList(list) /\ \A l \in Range(list) : IsList(l.value) /\ l \in X
      BY <3>1
    <3>3. ASSUME NEW l \in Range(list) PROVE line(l, depth, below) \in Seq(X)
      <4>1. CASE l.key # "include"
        BY <3>2, <4>1
      <4>2. CASE l.key = "include" /\ depth = 0
        BY <4>2
      <4>3. CASE l.key = "include" /\ depth # 0
        BY <1>2, <1>3, <3>2, <4>3
      <4> QED BY <4>1, <4>2, <4>3
    <3> HIDE DEF line
    <3>4. PICK m : m = [n \in DOMAIN list |-> line(list[n], depth, below)]
      OBVIOUS
    <3>5. m \in [DOMAIN list -> Seq(X)]
      BY <3>3, <3>4 DEF Range
    <3>6. m \in Seq(Seq(X))
      BY <3>2, <3>5, MappedIs
    <3>7. FlattenSeq(m) \in Seq(X)
      BY <3>6, FlattenIs
    <3> QED BY <3>1, <3>4, <3>7 DEF Mapped
  <2> QED BY <2>1
<1> HIDE DEF S, next
<1>4. PICK b : b = next(0, it[0 - 1])
  OBVIOUS
<1>5. \A below : next(0, below) = b
  BY <1>4 DEF next, Mapped
<1>6. PICK G : G = [n \in 1 .. MaxDepth |-> [so \in S |-> next(n, so)]]
  OBVIOUS
<1>7. b \in S /\ G \in [1 .. MaxDepth -> [S -> S]]
  BY <1>3, <1>4, <1>6
<1>8. PICK f : Steps(f, MaxDepth, S, b, G)
  BY <1>7, StepsExist
<1>9. Is(f)
  <2>1. f \in [0 .. MaxDepth -> S] /\ f[0] = b /\ \A n \in 1 .. MaxDepth : f[n] = G[n][f[n - 1]]
    BY <1>8 DEF Steps
  <2>2. ASSUME NEW n \in 0 .. MaxDepth PROVE f[n] = next(n, f[n - 1])
    <3>1. CASE n = 0
      BY <1>5, <2>1, <3>1
    <3>2. CASE n # 0
      <4>1. n \in 1 .. MaxDepth /\ n - 1 \in 0 .. MaxDepth
        BY <3>2
      <4>2. f[n - 1] \in S
        BY <2>1, <4>1
      <4> QED BY <1>6, <2>1, <4>1, <4>2
    <3> QED BY <3>1, <3>2
  <2> QED BY <2>1, <2>2
<1>10. Is(it)
  <2> HIDE DEF Is
  <2> QED BY <1>9
<1> HIDE DEF it
<1> DEFINE T == {n \in 0 .. MaxDepth : it[n] \in S}
<1>11. \A n \in 0 .. MaxDepth : it[n] = next(n, it[n - 1])
  BY <1>10
<1> HIDE DEF Is
<1>12. 0 \in T
  BY <1>3, <1>11
<1>13. ASSUME NEW n \in 1 .. MaxDepth, n - 1 \in T PROVE n \in T
  BY <1>3, <1>11, <1>13
<1>14. MaxDepth \in T
  <2> HIDE DEF T
  <2> QED BY <1>12, <1>13, Upwards
<1> QED BY <1>1, <1>14 DEF S

\* What is read of them is hosts, each with the hops it was said to go through.
LEMMA ParseIs ==
  ASSUME NEW lines, IsList(lines), \A l \in Range(lines) : IsList(l.value)
  PROVE  IsList(parse(lines)) /\ \A h \in Range(parse(lines)) : IsList(h.jump)
<1> DEFINE Words == UNION {Range(l.value) : l \in Range(lines)}
           Said == Words \cup {l.value[1] : l \in Range(lines)}
           Hops == {l.value : l \in Range(lines)} \cup {<<>>}
           V == [alias : Words, hostname : Said, file : Said \cup {None}, jump : Hops]
           S == [hosts : Seq(V), current : SUBSET Int]
<1>1. \A x \in Hops : IsList(x)
  <2>1. IsList(<<>>)
    BY DEF IsList
  <2> QED BY <2>1
<1>2. ASSUME NEW l \in Range(lines)
      PROVE  l.value[1] \in Said /\ l.value \in Hops /\ Range(l.value) \subseteq Words
  OBVIOUS
<1>3. ASSUME NEW w \in Words PROVE NoHost(w) \in V
  <2>1. w \in Said /\ None \in Said \cup {None} /\ <<>> \in Hops
    OBVIOUS
  <2> HIDE DEF Words, Said, Hops
  <2> QED BY <2>1 DEF NoHost
<1>4. ASSUME NEW h \in V, NEW l \in Range(lines) PROVE Directive(h, l) \in V
  <2>1. PICK w, ws : w = l.value[1] /\ ws = l.value
    OBVIOUS
  <2>2. w \in Said /\ ws \in Hops
    BY <1>2, <2>1
  <2> HIDE DEF Words, Said, Hops
  <2>3. [h EXCEPT !.hostname = w] \in V /\ [h EXCEPT !.file = w] \in V
        /\ [h EXCEPT !.jump = ws] \in V
    BY <2>2
  <2> QED BY <2>1, <2>3 DEF Directive
<1> HIDE DEF Words, Said, Hops, V
<1>5. ASSUME NEW so \in S, NEW l \in Range(lines) PROVE ParseLine(so, l) \in S
  <2>1. PICK hs \in Seq(V), cur \in SUBSET Int : so = [hosts |-> hs, current |-> cur]
    OBVIOUS
  <2>2. so.hosts = hs /\ so.current = cur
    BY <2>1
  <2>3. CASE l.key = "host"
    <3>1. PICK named : named = Selected(l.value, Range(l.value) \ {"*"})
      OBVIOUS
    <3>2. IsList(named) /\ Range(named) \subseteq Range(l.value)
      BY <3>1, SelectedIs
    <3>3. PICK m : m = [n \in DOMAIN named |-> NoHost(named[n])]
      OBVIOUS
    <3>4. m \in [DOMAIN named -> V]
      BY <1>2, <1>3, <3>2, <3>3 DEF Range
    <3>5. m \in Seq(V)
      BY <3>2, <3>4, MappedIs
    <3>6. PICK both, now : /\ both = hs \o m
                           /\ now = (Len(hs) + 1)..(Len(hs) + Len(named))
      OBVIOUS
    <3>7. both \in Seq(V) /\ now \in SUBSET Int
      <4>1. Len(hs) \in Nat /\ Len(named) \in Nat
        BY <3>2, ListIs
      <4> QED BY <3>5, <3>6, <4>1, ConcatProperties
    <3>8. ParseLine(so, l) = [hosts |-> both, current |-> now]
      BY <2>2, <2>3, <3>1, <3>3, <3>6 DEF ParseLine, Mapped
    <3> QED BY <3>7, <3>8
  <2>4. CASE l.key = "match"
    <3>1. ParseLine(so, l) = [so EXCEPT !.current = {}]
      BY <2>4 DEF ParseLine
    <3>2. [so EXCEPT !.current = {}] \in S
      OBVIOUS
    <3> QED BY <3>1, <3>2
  <2>5. CASE l.key \notin {"host", "match"}
    <3>1. PICK m : m = [n \in DOMAIN hs |-> IF n \in cur THEN Directive(hs[n], l) ELSE hs[n]]
      OBVIOUS
    <3>2. m \in [DOMAIN hs -> V]
      <4>1. \A n \in DOMAIN hs : hs[n] \in V
        OBVIOUS
      <4> QED BY <1>4, <3>1, <4>1
    <3>3. m \in Seq(V)
      BY <3>2
    <3>4. ParseLine(so, l) = [so EXCEPT !.hosts = m]
      BY <2>2, <2>5, <3>1 DEF ParseLine
    <3>5. [so EXCEPT !.hosts = m] \in S
      BY <3>3
    <3> QED BY <3>4, <3>5
  <2> QED BY <2>3, <2>4, <2>5
<1>6. PICK b : b = [hosts |-> <<>>, current |-> {}]
  OBVIOUS
<1>7. b \in S
  BY <1>6
<1>8. PICK p : p = FoldLeft(ParseLine, b, lines)
  OBVIOUS
<1>9. p \in S
  <2> HIDE DEF S
  <2> QED BY <1>5, <1>6, <1>7, <1>8, ParseFolds
<1>10. parse(lines) = p.hosts
  BY <1>6, <1>8 DEF parse
<1>11. parse(lines) \in Seq(V)
  BY <1>9, <1>10
<1>12. IsList(parse(lines)) /\ Range(parse(lines)) \subseteq V
  BY <1>11, ListOver
<1>13. \A h \in V : h.jump \in Hops
  BY DEF V
<1> QED BY <1>1, <1>12, <1>13

LEMMA SshScanIs == IsList(SshScan) /\ \A h \in Range(SshScan) : IsList(h.jump)
<1>1. PICK files, main : files = Config /\ main = "config"
  OBVIOUS
<1>2. /\ MaxDepth \in Nat /\ main \in DOMAIN files
      /\ \A f \in DOMAIN files : IsList(files[f]) /\ \A l \in Range(files[f]) : IsList(l.value)
  BY <1>1, LibraryAssumption DEF LibraryAssumption
<1>3. PICK X : X = UNION {Range(files[f]) : f \in DOMAIN files}
  OBVIOUS
<1>4. PICK lines : lines = expand_includes(files, main)
  OBVIOUS
<1>5. lines \in Seq(X)
  BY <1>2, <1>3, <1>4, ExpandIs
<1>6. IsList(lines) /\ \A l \in Range(lines) : IsList(l.value)
  BY <1>2, <1>3, <1>5, ListOver
<1>7. SshScan = parse(lines)
  BY <1>1, <1>4 DEF SshScan, scan_content
<1> QED BY <1>6, <1>7, ParseIs

----------------------------------------------------------------------------
(* The inductive invariant: what is kept, shown, sent and answered is made *)
(* of records of its kind, and no host has the id that an import of the    *)
(* ssh config under way, or a command yet to be given, will make.          *)

CallFields == {"op", "n", "rec", "list", "ids", "typed", "answered"}
AnswersMet == {"save_server", "list_servers", "save_identity", "delete_identity",
               "save_key", "list_keys", "delete_key", "load"}

\* What a command takes along, until it is run.
AskOK(c) ==
    /\ c.op = "save_server" => IsServer(c.rec)
    /\ c.op = "save_identity" => IsIdentity(c.rec)
    /\ c.op = "save_key" => KeyOK(c.rec)
    /\ c.op = "save_port_forwardings" => IsList(c.list) /\ \A r \in Range(c.list) : IsRule(r)
    /\ c.op = "import_data" => FileOK(c.rec)

\* What an answer brings.
ReplyOK(c) ==
    /\ c.op \in AnswersMet
    /\ c.op = "save_server" => IsServer(c.rec)
    /\ c.op = "save_identity" => IsIdentity(c.rec)
    /\ c.op = "save_key" => IsKey(c.rec)
    /\ c.op \in {"list_servers", "list_keys", "load"} => IsDocument(c.rec)

CallOK(c) == /\ IsRecord(c, CallFields) /\ c.answered \in BOOLEAN
             /\ IF c.answered THEN ReplyOK(c) ELSE AskOK(c)

\* The imports that make ids of their own, each numbered for itself.
MakesIds(c) == c.op \in {"import_ssh_config_hosts", "import_client_hosts"}
Numbered ==
    /\ \A c \in calls : MakesIds(c) => c.n \in 1 .. edits
    /\ \A c, b \in calls : MakesIds(c) /\ MakesIds(b) /\ c.n = b.n => c = b

\* The ids of the hosts a call brings somewhere.
Brought(c) == CASE c.op = "save_server" -> {c.rec.id}
                [] c.op = "import_data" -> Ids(c.rec.servers)
                [] c.op \in {"list_servers", "load"} /\ c.answered -> Ids(c.rec.servers)
                [] OTHER -> {}
KnownIds == Ids(doc.servers) \cup Ids(win.servers) \cup Ids(file.servers)
              \cup UNION {Brought(c) : c \in calls}
ToCome == {n \in 1 .. MaxEdits : \/ n > edits
                                 \/ \E c \in calls : c.op = "import_ssh_config_hosts" /\ c.n = n}
Apart(ids, numbers) == \A n \in numbers : \A a \in Range(Aliases) : Fresh(a, n) \notin ids

Types == /\ DocOK(doc) /\ IsDocument(win) /\ FileOK(file)
         /\ edits \in 0 .. MaxEdits
         /\ \A c \in calls : CallOK(c)
IInv == Types /\ Numbered /\ Apart(KnownIds, ToCome)

LEMMA ShownIs ==
  ASSUME NEW d, DocOK(d)
  PROVE  IsDocument(Shown(d)) /\ Ids(Shown(d).servers) = Ids(d.servers)
<1> DEFINE key(k) == [k EXCEPT !.held = IF @ = None THEN None ELSE Stored]
<1>1. ASSUME NEW s, IsServer(s) PROVE IsServer(redacted(s)) /\ redacted(s).id = s.id
  BY <1>1 DEF redacted, IsServer, IsRecord
<1>2. ASSUME NEW i, IsIdentity(i) PROVE IsIdentity(redacted(i))
  BY <1>2 DEF redacted, IsIdentity, IsRecord
<1>3. ASSUME NEW k, IsKey(k) PROVE IsKey(key(k))
  BY <1>3 DEF IsKey, IsRecord
<1>4. PICK S, I, K : /\ S = [n \in DOMAIN d.servers |-> redacted(d.servers[n])]
                     /\ I = [n \in DOMAIN d.identities |-> redacted(d.identities[n])]
                     /\ K = [n \in DOMAIN d.keys |-> key(d.keys[n])]
  OBVIOUS
<1>5. PICK e : e = Shown(d)
  OBVIOUS
<1>6. e = [d EXCEPT !.servers = S, !.identities = I, !.keys = K, !.history = {}]
  BY <1>4, <1>5 DEF Shown, Mapped
<1>7. /\ IsRecord(e, Parts6) /\ e.servers = S /\ e.identities = I /\ e.keys = K
      /\ e.rules = d.rules
  <2>1. IsRecord(d, Parts6)
    BY DEF DocOK, RecordsOK
  <2> QED BY <1>6, <2>1 DEF IsRecord, Parts6
<1>8. /\ IsList(d.servers) /\ IsList(d.identities) /\ IsList(d.keys)
      /\ \A n \in DOMAIN d.servers : IsServer(d.servers[n])
      /\ \A n \in DOMAIN d.identities : IsIdentity(d.identities[n])
      /\ \A n \in DOMAIN d.keys : IsKey(d.keys[n])
  BY DEF DocOK, RecordsOK, ServerOK, IdentityOK, KeyOK, Range
<1> HIDE DEF key
<1>9. IsList(S) /\ (\A s \in Range(S) : IsServer(s)) /\ Ids(S) = Ids(d.servers)
  <2>1. /\ DOMAIN S = DOMAIN d.servers
        /\ \A n \in DOMAIN d.servers : IsServer(S[n]) /\ S[n].id = d.servers[n].id
    BY <1>1, <1>4, <1>8
  <2>2. S \in [DOMAIN d.servers -> Range(S)]
    BY <1>4, <2>1 DEF Range
  <2>3. IsList(S)
    BY <1>8, <2>1, <2>2, RemadeIs
  <2> QED BY <2>1, <2>3 DEF Ids, Range
<1>10. IsList(I) /\ \A i \in Range(I) : IsIdentity(i)
  <2>1. /\ DOMAIN I = DOMAIN d.identities
        /\ \A n \in DOMAIN d.identities : IsIdentity(I[n])
    BY <1>2, <1>4, <1>8
  <2>2. I \in [DOMAIN d.identities -> Range(I)]
    BY <1>4, <2>1 DEF Range
  <2>3. IsList(I)
    BY <1>8, <2>1, <2>2, RemadeIs
  <2> QED BY <2>1, <2>3 DEF Range
<1>11. IsList(K) /\ \A k \in Range(K) : IsKey(k)
  <2>1. /\ DOMAIN K = DOMAIN d.keys
        /\ \A n \in DOMAIN d.keys : IsKey(K[n])
    BY <1>3, <1>4, <1>8
  <2>2. K \in [DOMAIN d.keys -> Range(K)]
    BY <1>4, <2>1 DEF Range
  <2>3. IsList(K)
    BY <1>8, <2>1, <2>2, RemadeIs
  <2> QED BY <2>1, <2>3 DEF Range
<1>12. IsDocument(e)
  BY <1>7, <1>9, <1>10, <1>11 DEF IsDocument, Parts6, DocOK, RecordsOK
<1> QED BY <1>5, <1>7, <1>9, <1>12

\* A document with other lists in the place of its own.
LEMMA WithLists ==
  ASSUME NEW w, IsDocument(w), NEW S, IsList(S), \A s \in Range(S) : IsServer(s),
         NEW I, IsList(I), \A i \in Range(I) : IsIdentity(i),
         NEW K, IsList(K), \A k \in Range(K) : IsKey(k),
         NEW R, IsList(R), \A r \in Range(R) : IsRule(r),
         NEW v, IsRecord(v, Parts6),
         v.servers = S, v.identities = I, v.keys = K, v.rules = R
  PROVE  IsDocument(v)
BY DEF IsDocument, Parts6

LEMMA GrownIsPrefix ==
  ASSUME NEW a, IsList(a), NEW b, IsList(b), Grown(a, b)
  PROVE  IsPrefix(a, b)
<1>1. PICK S : a \in Seq(S) /\ b \in Seq(S)
  <2>1. PICK S : S = Range(a) \cup Range(b)
    OBVIOUS
  <2>2. /\ a \in Seq(Range(a)) /\ Range(a) \subseteq S
        /\ b \in Seq(Range(b)) /\ Range(b) \subseteq S
    BY <2>1 DEF IsList
  <2>3. a \in Seq(S) /\ b \in Seq(S)
    BY <2>2, SeqMonotonic
  <2> QED BY <2>3
<1>2. /\ Len(a) \in Nat /\ DOMAIN a = 1 .. Len(a) /\ Len(b) \in Nat /\ DOMAIN b = 1 .. Len(b)
      /\ \A n \in 1 .. Len(a) : n \in 1 .. Len(b) /\ b[n] = a[n]
  BY <1>1 DEF Grown
<1>3. Len(a) <= Len(b)
  <2>1. Len(a) # 0 => Len(a) \in 1 .. Len(a)
    BY <1>2
  <2> QED BY <1>2, <2>1
<1>4. SubSeq(a, 1, Len(a)) = SubSeq(b, 1, Len(a))
  <2>1. /\ SubSeq(a, 1, Len(a)) = [i \in 1 .. Len(a) |-> a[i]]
        /\ SubSeq(b, 1, Len(a)) = [i \in 1 .. Len(a) |-> b[i]]
    BY <1>1, <1>2, <1>3
  <2> QED BY <1>2, <2>1
<1> QED BY <1>3, <1>4 DEF IsPrefix

----------------------------------------------------------------------------
(* What any step keeps.                                                     *)

LEMMA StaysApart ==
  ASSUME Apart(KnownIds, ToCome), ToCome' \subseteq ToCome,
         NEW M, NEW m, m \notin ToCome' \/ M = {}, MadeAt(M, m),
         KnownIds' \subseteq KnownIds \cup M
  PROVE  Apart(KnownIds, ToCome)'
<1>1. SUFFICES ASSUME NEW n \in ToCome', NEW a \in Range(Aliases)
               PROVE  Fresh(a, n) \notin KnownIds'
  BY DEF Apart
<1>2. Fresh(a, n) \notin KnownIds
  BY <1>1 DEF Apart
<1>3. Fresh(a, n) \notin M
  BY <1>1 DEF Fresh, MadeAt
<1> QED BY <1>2, <1>3

LEMMA EditsAre ==
  ASSUME Types
  PROVE  edits \in Nat /\ MaxEdits \in Nat /\ edits <= MaxEdits
<1>1. MaxEdits \in Nat
  BY LibraryAssumption, Zenon DEF LibraryAssumption
<1>2. edits \in 0 .. MaxEdits
  BY DEF Types
<1> QED BY <1>1, <1>2

\* A step gives at most one command that makes ids of its own, or runs one.
LEMMA AnyStep ==
  ASSUME IInv, edits' \in {edits, edits + 1}, edits' <= MaxEdits,
         DocOK(doc'), IsDocument(win'), FileOK(file'),
         NEW M, NEW m, NEW y,
         \A x \in calls' : \/ x \in calls
                           \/ /\ CallOK(x) /\ Brought(x) \subseteq KnownIds \cup M
                              /\ MakesIds(x) => x = y /\ x.n = edits + 1 /\ edits' = edits + 1,
         Ids(doc'.servers) \subseteq KnownIds \cup M,
         Ids(win'.servers) \subseteq KnownIds,
         Ids(file'.servers) \subseteq KnownIds,
         MadeAt(M, m),
         \/ M = {}
         \/ m = edits + 1 /\ edits' = edits + 1 /\ ~MakesIds(y)
         \/ edits' = edits /\ \E c \in calls : c \notin calls' /\ MakesIds(c) /\ m = c.n
  PROVE  IInv'
<1>1. /\ edits \in Nat /\ MaxEdits \in Nat /\ edits' \in 0 .. MaxEdits
      /\ \A c \in calls : CallOK(c)
      /\ \A c \in calls : MakesIds(c) => c.n \in 1 .. edits
      /\ \A c, b \in calls : MakesIds(c) /\ MakesIds(b) /\ c.n = b.n => c = b
  <2>1. Types /\ Numbered
    BY DEF IInv
  <2>2. edits \in Nat /\ MaxEdits \in Nat
    BY <2>1, EditsAre
  <2>3. edits' \in 0 .. MaxEdits
    BY <2>2
  <2> QED BY <2>1, <2>2, <2>3, Zenon DEF Types, Numbered
<1>2. Types'
  <2>1. \A c \in calls' : CallOK(c)
    BY <1>1
  <2>2. (\A c \in calls : CallOK(c))'
    BY <2>1
  <2> QED BY <1>1, <2>2 DEF Types
<1>3. \A x \in calls' : MakesIds(x) => \/ x \in calls
                                       \/ x = y /\ x.n = edits + 1 /\ edits' = edits + 1
  OBVIOUS
<1>4. Numbered'
  <2>1. \A x \in calls' : MakesIds(x) => x.n \in 1 .. edits'
    BY <1>1, <1>3
  <2>2. \A c, b \in calls' : MakesIds(c) /\ MakesIds(b) /\ c.n = b.n => c = b
    <3>1. SUFFICES ASSUME NEW c \in calls', NEW b \in calls', MakesIds(c), MakesIds(b), c.n = b.n
                   PROVE  c = b
      OBVIOUS
    <3>2. CASE c \in calls /\ b \in calls
      BY <1>1, <3>1, <3>2
    <3>3. CASE c = y /\ b = y
      BY <3>3
    <3>4. ~(c \in calls /\ b.n = edits + 1) /\ ~(b \in calls /\ c.n = edits + 1)
      BY <1>1, <3>1
    <3> QED BY <1>3, <3>1, <3>2, <3>3, <3>4
  <2> QED BY <2>1, <2>2 DEF Numbered, MakesIds
<1>5. \A n \in ToCome' : \/ n > edits'
                         \/ \E c \in calls' : c.op = "import_ssh_config_hosts" /\ c.n = n
  BY DEF ToCome
<1>6. ToCome' \subseteq 1 .. MaxEdits
  BY DEF ToCome
<1>7. ToCome' \subseteq ToCome
  <2>1. SUFFICES ASSUME NEW n \in ToCome' PROVE n \in ToCome
    OBVIOUS
  <2>2. CASE n > edits'
    BY <1>1, <1>6, <2>1, <2>2 DEF ToCome
  <2>3. ASSUME NEW c \in calls', c.op = "import_ssh_config_hosts", c.n = n PROVE n \in ToCome
    <3>1. c \in calls \/ n = edits + 1
      BY <1>3, <2>3 DEF MakesIds
    <3> QED BY <1>1, <1>6, <2>1, <2>3, <3>1 DEF ToCome
  <2> QED BY <1>5, <2>1, <2>2, <2>3
<1>8. m \notin ToCome' \/ M = {}
  <2>1. CASE m = edits + 1 /\ edits' = edits + 1 /\ ~MakesIds(y)
    <3>1. SUFFICES ASSUME m \in ToCome' PROVE FALSE
      OBVIOUS
    <3>2. PICK c \in calls' : c.op = "import_ssh_config_hosts" /\ c.n = m
      BY <1>1, <1>5, <2>1, <3>1
    <3>3. c \in calls
      BY <1>3, <2>1, <3>2 DEF MakesIds
    <3> QED BY <1>1, <2>1, <3>2, <3>3 DEF MakesIds
  <2>2. ASSUME edits' = edits, NEW c \in calls, c \notin calls', MakesIds(c), m = c.n
        PROVE  m \notin ToCome'
    <3>1. SUFFICES ASSUME m \in ToCome' PROVE FALSE
      OBVIOUS
    <3>2. m \in 1 .. edits
      BY <1>1, <2>2
    <3>3. PICK b \in calls' : b.op = "import_ssh_config_hosts" /\ b.n = m
      BY <1>1, <1>5, <2>2, <3>1, <3>2
    <3>4. b \in calls
      BY <1>1, <1>3, <2>2, <3>3 DEF MakesIds
    <3> QED BY <1>1, <2>2, <3>3, <3>4 DEF MakesIds
  <2> QED BY <2>1, <2>2
<1>9. KnownIds' \subseteq KnownIds \cup M
  <2>1. \A x \in calls : Brought(x) \subseteq KnownIds
    BY DEF KnownIds
  <2>2. \A x \in calls' : Brought(x) \subseteq KnownIds \cup M
    BY <2>1
  <2>3. UNION {Brought(x) : x \in calls'} \subseteq KnownIds \cup M
    BY <2>2
  <2>4. KnownIds' = Ids(doc'.servers) \cup Ids(win'.servers) \cup Ids(file'.servers)
                      \cup UNION {Brought(x) : x \in calls'}
    BY DEF KnownIds, Brought
  <2> QED BY <2>3, <2>4
<1>10. Apart(KnownIds, ToCome)'
  <2>1. Apart(KnownIds, ToCome)
    BY DEF IInv
  <2> QED BY <1>7, <1>8, <1>9, <2>1, StaysApart
<1> QED BY <1>2, <1>4, <1>10 DEF IInv

\* The user gives a command.
LEMMA Given ==
  ASSUME IInv, NEW c, Sends(c), c.n = edits + 1, CallOK(c), doc' = doc, file' = file,
         IsDocument(win'), Ids(win'.servers) \subseteq Ids(win.servers),
         \A id \in Brought(c) : id \in KnownIds \/ \E x : id = Fresh(x, edits + 1)
  PROVE  IInv'
<1>1. edits \in Nat /\ MaxEdits \in Nat /\ edits < MaxEdits
  BY EditsAre DEF IInv, Sends
<1>2. /\ edits' = edits + 1 /\ calls' = calls \cup {c}
      /\ DocOK(doc') /\ FileOK(file')
      /\ Ids(doc'.servers) \subseteq KnownIds /\ Ids(win'.servers) \subseteq KnownIds
      /\ Ids(file'.servers) \subseteq KnownIds
  BY DEF IInv, Types, Sends, KnownIds
<1>3. PICK M, m : M = Brought(c) \ KnownIds /\ m = edits + 1
  OBVIOUS
<1>4. M = {} \/ ~MakesIds(c)
  BY <1>3 DEF Brought, MakesIds
<1>5. MadeAt(M, m)
  BY <1>3 DEF MadeAt
<1>6. \A x \in calls' : \/ x \in calls
                        \/ /\ CallOK(x) /\ Brought(x) \subseteq KnownIds \cup M
                           /\ MakesIds(x) => x = c /\ x.n = edits + 1 /\ edits' = edits + 1
  BY <1>2, <1>3
<1>7. Ids(doc'.servers) \subseteq KnownIds \cup M
  BY <1>2
<1>8. edits' \in {edits, edits + 1} /\ edits' <= MaxEdits
  BY <1>1, <1>2
<1>9. M = {} \/ (m = edits + 1 /\ edits' = edits + 1 /\ ~MakesIds(c))
  BY <1>2, <1>3, <1>4
<1> QED BY <1>2, <1>5, <1>6, <1>7, <1>8, <1>9, AnyStep

\* A command is run, or its answer met.
LEMMA RunOf ==
  ASSUME IInv, NEW c \in calls, edits' = edits,
         DocOK(doc'), IsDocument(win'), FileOK(file'),
         \A x \in calls' : \/ x \in calls \ {c}
                           \/ ~MakesIds(x) /\ CallOK(x) /\ Brought(x) \subseteq KnownIds,
         NEW M, M = {} \/ (MakesIds(c) /\ MadeAt(M, c.n)),
         Ids(doc'.servers) \subseteq KnownIds \cup M,
         Ids(win'.servers) \subseteq KnownIds,
         Ids(file'.servers) \subseteq KnownIds
  PROVE  IInv'
<1>1. edits \in Nat /\ edits <= MaxEdits
  BY EditsAre DEF IInv
<1>2. PICK m : m = c.n
  OBVIOUS
<1>3. MakesIds(c) => c \notin calls'
  OBVIOUS
<1>4. \/ M = {}
      \/ edits' = edits /\ \E b \in calls : b \notin calls' /\ MakesIds(b) /\ m = b.n
  BY <1>2, <1>3
<1>5. \A x \in calls' : \/ x \in calls
                        \/ /\ CallOK(x) /\ Brought(x) \subseteq KnownIds \cup M
                           /\ MakesIds(x) => x = c /\ x.n = edits + 1 /\ edits' = edits + 1
  OBVIOUS
<1>6. MadeAt(M, m)
  BY <1>2 DEF MadeAt
<1>7. edits' \in {edits, edits + 1} /\ edits' <= MaxEdits
  BY <1>1
<1> QED BY <1>4, <1>5, <1>6, <1>7, AnyStep

----------------------------------------------------------------------------
(* The user's commands.                                                    *)

Laden == {"save_server", "save_identity", "save_key", "save_port_forwardings", "import_data"}

\* A command that takes no record along.
LEMMA GivenBare ==
  ASSUME IInv, NEW c, Sends(c), IsRecord(c, CallFields), c.n = edits + 1, c.answered = FALSE,
         c.op \notin Laden, doc' = doc, file' = file,
         IsDocument(win'), Ids(win'.servers) \subseteq Ids(win.servers)
  PROVE  IInv'
<1>1. CallOK(c)
  BY DEF CallOK, AskOK, Laden
<1>2. Brought(c) = {}
  BY DEF Brought, Laden
<1> QED BY <1>1, <1>2, Given

LEMMA SaveServerKeeps ==
  ASSUME IInv, NEW s, IsServer(s),
         s.id \in KnownIds \/ (\E x : s.id = Fresh(x, edits + 1)), NEW c, Sends(c), NEW typed,
         \/ c = [Call("save_server") EXCEPT !.rec = s]
         \/ c = [Call("save_server") EXCEPT !.rec = s, !.typed = typed],
         UNCHANGED <<doc, win, file>>
  PROVE  IInv'
<1>1. /\ IsRecord(c, CallFields) /\ c.op = "save_server" /\ c.n = edits + 1
      /\ c.rec = s /\ c.answered = FALSE
  BY DEF Call, IsRecord, CallFields
<1>2. CallOK(c) /\ Brought(c) = {s.id}
  BY <1>1 DEF CallOK, AskOK, Brought
<1>3. IsDocument(win') /\ Ids(win'.servers) \subseteq Ids(win.servers)
  BY DEF IInv, Types
<1>4. \A id \in Brought(c) : id \in KnownIds \/ \E x : id = Fresh(x, edits + 1)
  BY <1>2
<1> QED BY <1>1, <1>2, <1>3, <1>4, Given

LEMMA EditServerKeeps ==
  ASSUME IInv, NEW s \in Range(win.servers), EditServer(s)
  PROVE  IInv'
<1>1. PICK t \in Changed(s) : Sends([Call("save_server") EXCEPT !.rec = t])
  BY DEF EditServer
<1>2. IsServer(s) /\ s.id \in KnownIds
  BY DEF IInv, Types, IsDocument, KnownIds, Ids
<1>3. IsServer(t) /\ t.id = s.id
  BY <1>1, <1>2 DEF Changed, IsServer, IsRecord
<1>4. PICK c : c = [Call("save_server") EXCEPT !.rec = t]
  OBVIOUS
<1>5. UNCHANGED <<doc, win, file>>
  BY DEF EditServer
<1> QED BY <1>1, <1>2, <1>3, <1>4, <1>5, SaveServerKeeps

LEMMA SaveIdentityKeeps ==
  ASSUME IInv, NEW i, IsIdentity(i), NEW typed, SaveIdentity(i, typed)
  PROVE  IInv'
<1>1. PICK c : c = [Call("save_identity") EXCEPT !.rec = i, !.typed = typed]
  OBVIOUS
<1>2. /\ IsRecord(c, CallFields) /\ c.op = "save_identity" /\ c.n = edits + 1
      /\ c.rec = i /\ c.answered = FALSE
  BY <1>1 DEF Call, IsRecord, CallFields
<1>3. Sends(c) /\ UNCHANGED <<doc, win, file>>
  BY <1>1 DEF SaveIdentity
<1>4. IsDocument(win') /\ Ids(win'.servers) \subseteq Ids(win.servers)
  BY <1>3 DEF IInv, Types
<1>5. CallOK(c) /\ Brought(c) = {}
  BY <1>2 DEF CallOK, AskOK, Brought
<1>6. \A id \in Brought(c) : id \in KnownIds \/ \E x : id = Fresh(x, edits + 1)
  BY <1>5
<1> QED BY <1>2, <1>3, <1>4, <1>5, <1>6, Given

LEMMA SaveKeyKeeps ==
  ASSUME IInv, NEW name \in OnDisk \cup {"k"}, NEW k, k.id = New(name), IsKey(k),
         k.held \in {None, "master"}, SaveKey(k)
  PROVE  IInv'
<1>1. PICK c : c = [Call("save_key") EXCEPT !.rec = k]
  OBVIOUS
<1>2. /\ IsRecord(c, CallFields) /\ c.op = "save_key" /\ c.n = edits + 1
      /\ c.rec = k /\ c.answered = FALSE
  BY <1>1 DEF Call, IsRecord, CallFields
<1>3. Sends(c) /\ UNCHANGED <<doc, win, file>>
  BY <1>1 DEF SaveKey
<1>4. IsDocument(win') /\ Ids(win'.servers) \subseteq Ids(win.servers)
  BY <1>3 DEF IInv, Types
<1>5. k.id # None
  <2>1. edits + 1 \in 1 .. MaxEdits
    BY <1>3, EditsAre DEF IInv, Sends
  <2>2. \A f \in OnDisk \cup {"k"}, n \in 1 .. MaxEdits : Fresh(f, n) # None
    BY LibraryAssumption, Zenon DEF LibraryAssumption
  <2>3. PICK n : n = edits + 1
    OBVIOUS
  <2>4. Fresh(name, n) # None
    BY <2>1, <2>2, <2>3
  <2> QED BY <2>3, <2>4 DEF New
<1>6. CallOK(c) /\ Brought(c) = {}
  BY <1>2, <1>5 DEF CallOK, AskOK, Brought, KeyOK
<1>7. \A id \in Brought(c) : id \in KnownIds \/ \E x : id = Fresh(x, edits + 1)
  BY <1>6
<1> QED BY <1>2, <1>3, <1>4, <1>6, <1>7, Given

LEMMA PutRulesKeeps ==
  ASSUME IInv, NEW list, IsList(list), \A r \in Range(list) : IsRule(r), PutRules(list)
  PROVE  IInv'
<1>1. PICK c : c = [Call("save_port_forwardings") EXCEPT !.list = list]
  OBVIOUS
<1>2. /\ IsRecord(c, CallFields) /\ c.op = "save_port_forwardings" /\ c.n = edits + 1
      /\ c.list = list /\ c.answered = FALSE
  BY <1>1 DEF Call, IsRecord, CallFields
<1>3. Sends(c) /\ UNCHANGED <<doc, file>> /\ win' = [win EXCEPT !.rules = list]
  BY <1>1 DEF PutRules
<1>4. IsDocument(win') /\ Ids(win'.servers) \subseteq Ids(win.servers)
  <2>1. IsDocument(win) /\ IsRecord(win, Parts6)
    BY DEF IInv, Types, IsDocument, Parts6
  <2>2. PICK v : v = win'
    OBVIOUS
  <2>3. /\ IsRecord(v, Parts6) /\ v.servers = win.servers /\ v.identities = win.identities
        /\ v.keys = win.keys /\ v.rules = list
    BY <1>3, <2>1, <2>2 DEF IsRecord, Parts6
  <2>4. IsDocument(v)
    BY <2>1, <2>3 DEF IsDocument, Parts6
  <2> QED BY <2>2, <2>3, <2>4
<1>5. CallOK(c) /\ Brought(c) = {}
  BY <1>2 DEF CallOK, AskOK, Brought
<1>6. \A id \in Brought(c) : id \in KnownIds \/ \E x : id = Fresh(x, edits + 1)
  BY <1>5
<1> QED BY <1>2, <1>3, <1>4, <1>5, <1>6, Given

LEMMA PutMarksKeeps ==
  ASSUME IInv, NEW list, PutMarks(list)
  PROVE  IInv'
<1>1. PICK c : c = [Call("save_sftp_bookmarks") EXCEPT !.list = list]
  OBVIOUS
<1>2. /\ IsRecord(c, CallFields) /\ c.op = "save_sftp_bookmarks" /\ c.n = edits + 1
      /\ c.answered = FALSE
  BY <1>1 DEF Call, IsRecord, CallFields
<1>3. Sends(c) /\ UNCHANGED <<doc, file>> /\ win' = [win EXCEPT !.marks = list]
  BY <1>1 DEF PutMarks
<1>4. IsDocument(win') /\ Ids(win'.servers) \subseteq Ids(win.servers)
  <2>1. IsDocument(win) /\ IsRecord(win, Parts6)
    BY DEF IInv, Types, IsDocument, Parts6
  <2>2. PICK v : v = win'
    OBVIOUS
  <2>3. /\ IsRecord(v, Parts6) /\ v.servers = win.servers /\ v.identities = win.identities
        /\ v.keys = win.keys /\ v.rules = win.rules
    BY <1>3, <2>1, <2>2 DEF IsRecord, Parts6
  <2>4. IsDocument(v)
    BY <2>1, <2>3 DEF IsDocument, Parts6
  <2> QED BY <2>2, <2>3, <2>4
<1>5. c.op \notin Laden
  BY <1>2 DEF Laden
<1> QED BY <1>2, <1>3, <1>4, <1>5, GivenBare

LEMMA SaveRuleKeeps ==
  ASSUME IInv, SaveRule
  PROVE  IInv'
<1>1. PICK h, r : r = PortForwarding(New("r"), "r", h) /\ PutRules(Append(win.rules, r))
  BY DEF SaveRule
<1>2. IsRule(r)
  BY <1>1 DEF PortForwarding, IsRule, IsRecord
<1>3. IsList(win.rules) /\ \A x \in Range(win.rules) : IsRule(x)
  BY DEF IInv, Types, IsDocument
<1>4. PICK S : S = Range(win.rules) \cup {r}
  OBVIOUS
<1>5. PICK old : old = win.rules
  OBVIOUS
<1>6. old \in Seq(S) /\ r \in S
  <2>1. old \in Seq(Range(old)) /\ Range(old) \subseteq S
    BY <1>3, <1>4, <1>5 DEF IsList
  <2>2. old \in Seq(S)
    BY <2>1, SeqMonotonic
  <2> QED BY <1>4, <2>2
<1>7. PICK list : list = Append(old, r)
  OBVIOUS
<1>8. list \in Seq(S) /\ Range(list) = Range(old) \cup {r}
  BY <1>6, <1>7, AppendedIs
<1>9. IsList(list) /\ \A x \in Range(list) : IsRule(x)
  <2>1. IsList(list)
    BY <1>8, ListOver
  <2> QED BY <1>2, <1>3, <1>5, <1>8, <2>1
<1> QED BY <1>1, <1>5, <1>7, <1>9, PutRulesKeeps

LEMMA DeleteRuleKeeps ==
  ASSUME IInv, NEW id, DeleteRule(id)
  PROVE  IInv'
<1>1. PICK ids, old, list : ids = {id} /\ old = win.rules /\ list = Without(old, ids)
  OBVIOUS
<1>2. IsList(old) /\ \A x \in Range(old) : IsRule(x)
  BY <1>1 DEF IInv, Types, IsDocument
<1>3. IsList(list) /\ Range(list) = {r \in Range(old) : r.id \notin ids}
  BY <1>1, <1>2, WithoutIs
<1>4. \A x \in Range(list) : IsRule(x)
  BY <1>2, <1>3
<1>5. PutRules(list)
  BY <1>1 DEF DeleteRule
<1> QED BY <1>3, <1>4, <1>5, PutRulesKeeps

LEMMA ImportKeeps ==
  ASSUME IInv, NEW opts, Import(opts)
  PROVE  IInv'
<1>1. PICK c : c = [Call("import_data") EXCEPT !.ids = opts, !.rec = file]
  OBVIOUS
<1>2. /\ IsRecord(c, CallFields) /\ c.op = "import_data" /\ c.n = edits + 1
      /\ c.rec = file /\ c.answered = FALSE
  BY <1>1 DEF Call, IsRecord, CallFields
<1>3. Sends(c) /\ UNCHANGED <<doc, win, file>>
  BY <1>1 DEF Import
<1>4. IsDocument(win') /\ Ids(win'.servers) \subseteq Ids(win.servers)
  BY <1>3 DEF IInv, Types
<1>5. CallOK(c) /\ Brought(c) = Ids(file.servers)
  BY <1>2 DEF CallOK, AskOK, Brought, IInv, Types
<1>6. \A id \in Brought(c) : id \in KnownIds \/ \E x : id = Fresh(x, edits + 1)
  BY <1>5 DEF KnownIds
<1> QED BY <1>2, <1>3, <1>4, <1>5, <1>6, Given

Bare(c) == /\ IsRecord(c, CallFields) /\ c.op \notin Laden
           /\ c.n = edits + 1 /\ c.answered = FALSE

LEMMA BareKeeps ==
  ASSUME IInv, NEW c, Bare(c), Sends(c), UNCHANGED <<doc, win, file>>
  PROVE  IInv'
<1>1. IsDocument(win') /\ Ids(win'.servers) \subseteq Ids(win.servers)
  BY DEF IInv, Types
<1> QED BY <1>1, GivenBare DEF Bare

LEMMA CallIsBare ==
  ASSUME NEW op, op \notin Laden, NEW ids, NEW typed
  PROVE  /\ Bare(Call(op)) /\ Bare([Call(op) EXCEPT !.ids = ids])
         /\ Bare([Call(op) EXCEPT !.typed = typed])
BY DEF Bare, Call, IsRecord, CallFields

\* Nothing is on its way but what was, no number but the next is given.
LEMMA QuietStep ==
  ASSUME IInv, UNCHANGED <<doc, file>>, edits' \in {edits, edits + 1}, edits' <= MaxEdits,
         \A x \in calls' : \/ x \in calls
                           \/ /\ IsRecord(x, CallFields) /\ x.answered = FALSE
                              /\ x.op \in {"load", "record_commands"},
         IsDocument(win'), Ids(win'.servers) \subseteq Ids(win.servers)
  PROVE  IInv'
<1>1. PICK M, m, y : M = {} /\ m = edits + 1 /\ y = Call("load")
  OBVIOUS
<1>2. /\ DocOK(doc') /\ FileOK(file')
      /\ Ids(doc'.servers) \subseteq KnownIds \cup M
      /\ Ids(win'.servers) \subseteq KnownIds /\ Ids(file'.servers) \subseteq KnownIds
  BY DEF IInv, Types, KnownIds
<1>3. ASSUME NEW x, IsRecord(x, CallFields), x.answered = FALSE,
             x.op \in {"load", "record_commands"}
      PROVE  CallOK(x) /\ Brought(x) = {} /\ ~MakesIds(x)
  BY <1>3 DEF CallOK, AskOK, Brought, MakesIds
<1>4. \A x \in calls' : \/ x \in calls
                        \/ /\ CallOK(x) /\ Brought(x) \subseteq KnownIds \cup M
                           /\ MakesIds(x) => x = y /\ x.n = edits + 1 /\ edits' = edits + 1
  BY <1>3
<1>5. MadeAt(M, m) /\ ~MakesIds(y)
  BY <1>1 DEF MadeAt, MakesIds, Call
<1> QED BY <1>1, <1>2, <1>4, <1>5, AnyStep

LEMMA LockKeeps ==
  ASSUME IInv, Lock
  PROVE  IInv'
<1>1. PICK v : v = win'
  OBVIOUS
<1>2. v = [Empty EXCEPT !.marks = win.marks]
  BY <1>1 DEF Lock
<1>3. /\ IsRecord(v, Parts6) /\ v.servers = <<>> /\ v.identities = <<>>
      /\ v.keys = <<>> /\ v.rules = <<>>
  BY <1>2 DEF Empty, IsRecord, Parts6
<1>4. IsList(<<>>) /\ Range(<<>>) = {} /\ Ids(<<>>) = {}
  <2>1. Range(<<>>) = {}
    BY DEF Range
  <2> QED BY <2>1 DEF IsList, Ids
<1>5. IsDocument(v) /\ Ids(v.servers) = {}
  BY <1>3, <1>4 DEF IsDocument, Parts6
<1>6. IsDocument(win') /\ Ids(win'.servers) \subseteq Ids(win.servers)
  BY <1>1, <1>5
<1>7. UNCHANGED <<doc, file, calls>> /\ edits' \in {edits, edits + 1} /\ edits' <= MaxEdits
  BY EditsAre DEF Lock, IInv
<1> QED BY <1>6, <1>7, QuietStep

LEMMA StillStep ==
  ASSUME IInv, UNCHANGED <<doc, win, file, calls>>, edits' \in {edits, edits + 1},
         edits' <= MaxEdits
  PROVE  IInv'
<1>1. IsDocument(win') /\ Ids(win'.servers) \subseteq Ids(win.servers)
  BY DEF IInv, Types
<1> QED BY <1>1, QuietStep

LEMMA UnlockKeeps ==
  ASSUME IInv, Unlock
  PROVE  IInv'
<1>1. PICK c : c = Call("load")
  OBVIOUS
<1>2. IsRecord(c, CallFields) /\ c.answered = FALSE /\ c.op = "load"
  BY <1>1 DEF Call, IsRecord, CallFields
<1>3. calls' = calls \cup {c} /\ UNCHANGED <<doc, win, file, edits>>
  BY <1>1 DEF Unlock
<1>4. IsDocument(win') /\ Ids(win'.servers) \subseteq Ids(win.servers) /\ edits' <= MaxEdits
  BY <1>3, EditsAre DEF IInv, Types
<1> QED BY <1>2, <1>3, <1>4, QuietStep

LEMMA FlushKeeps ==
  ASSUME IInv, FlushCommands
  PROVE  IInv'
<1>1. ASSUME NEW h
      PROVE  LET c == [Call("record_commands") EXCEPT !.ids = {h}] IN
             IsRecord(c, CallFields) /\ c.answered = FALSE /\ c.op = "record_commands"
  BY DEF Call, IsRecord, CallFields
<1>2. \A x \in calls' : \/ x \in calls
                        \/ /\ IsRecord(x, CallFields) /\ x.answered = FALSE
                           /\ x.op \in {"load", "record_commands"}
  BY <1>1 DEF FlushCommands
<1>3. UNCHANGED <<doc, win, file, edits>>
  BY DEF FlushCommands
<1>4. IsDocument(win') /\ Ids(win'.servers) \subseteq Ids(win.servers) /\ edits' <= MaxEdits
  BY <1>3, EditsAre DEF IInv, Types
<1> QED BY <1>2, <1>3, <1>4, QuietStep

LEMMA UserKeeps ==
  ASSUME IInv, UserGives
  PROVE  IInv'
<1>1. ASSUME NEW a \in Addrs, SaveServer(NewServer(New("h"), a, None, None)) PROVE IInv'
  <2>1. PICK s : s = NewServer(New("h"), a, None, None)
    OBVIOUS
  <2>2. IsServer(s) /\ s.id = Fresh("h", edits + 1)
    BY <2>1 DEF NewServer, IsServer, IsRecord, New
  <2>3. PICK c, typed : typed = TRUE /\ c = [Call("save_server") EXCEPT !.rec = s, !.typed = typed]
    OBVIOUS
  <2>4. Sends(c) /\ UNCHANGED <<doc, win, file>>
    BY <1>1, <2>1, <2>3 DEF SaveServer
  <2>5. s.id \in KnownIds \/ \E x : s.id = Fresh(x, edits + 1)
    BY <2>2
  <2> QED BY <2>2, <2>3, <2>4, <2>5, SaveServerKeeps
<1>2. ASSUME NEW c, Bare(c), Sends(c), UNCHANGED <<doc, win, file>> PROVE IInv'
  BY <1>2, BareKeeps
<1>3. /\ \A op, ids : op \notin Laden => Bare([Call(op) EXCEPT !.ids = ids])
      /\ \A op, typed : op \notin Laden => Bare([Call(op) EXCEPT !.typed = typed])
      /\ \A op : op \notin Laden => Bare(Call(op))
  BY CallIsBare
<1>4. ASSUME NEW ids, DeleteServers(ids) PROVE IInv'
  BY <1>2, <1>3, <1>4 DEF DeleteServers, Laden
<1>5. ASSUME NEW h, AddBookmark(h) PROVE IInv'
  BY <1>5, PutMarksKeeps DEF AddBookmark
<1>6. ASSUME NEW h, QueueCommand(h) PROVE IInv'
  <2>1. UNCHANGED <<doc, win, file, calls>> /\ edits' = edits + 1 /\ edits' <= MaxEdits
    BY <1>6, EditsAre DEF QueueCommand, IInv
  <2> QED BY <2>1, StillStep
<1>7. ASSUME NEW s \in Range(win.servers),
             EditServer(s) \/ DeleteServers({s.id}) \/ AddBookmark(s.id) \/ QueueCommand(s.id)
      PROVE  IInv'
  BY <1>4, <1>5, <1>6, <1>7, EditServerKeeps
<1>8. ASSUME NEW k, SaveIdentity(NewIdentity(New("i"), "i", k), k = None) PROVE IInv'
  <2>1. PICK i, typed : i = NewIdentity(New("i"), "i", k) /\ typed = (k = None)
    OBVIOUS
  <2>2. IsIdentity(i)
    BY <2>1 DEF NewIdentity, IsIdentity, IsRecord
  <2> QED BY <1>8, <2>1, <2>2, SaveIdentityKeeps
<1>9. ASSUME NEW i \in Range(win.identities), SaveIdentity([i EXCEPT !.prompts = TRUE], FALSE)
      PROVE  IInv'
  <2>1. PICK j, typed : j = [i EXCEPT !.prompts = TRUE] /\ typed = FALSE
    OBVIOUS
  <2>2. IsIdentity(i)
    BY DEF IInv, Types, IsDocument
  <2>3. IsIdentity(j)
    BY <2>1, <2>2 DEF IsIdentity, IsRecord
  <2> QED BY <1>9, <2>1, <2>3, SaveIdentityKeeps
<1>10. ASSUME NEW id, DeleteIdentity(id) PROVE IInv'
  BY <1>2, <1>3, <1>10 DEF DeleteIdentity, Laden
<1>11. ASSUME NEW f \in OnDisk, SaveKey(KeyEntry(New("k"), f, f, None)) PROVE IInv'
  <2>1. PICK k, name : k = KeyEntry(New("k"), f, f, None) /\ name = "k"
    OBVIOUS
  <2>2. name \in OnDisk \cup {"k"} /\ k.id = New(name) /\ IsKey(k) /\ k.held \in {None, "master"}
    BY <2>1 DEF KeyEntry, IsKey, IsRecord
  <2> QED BY <1>11, <2>1, <2>2, SaveKeyKeeps
<1>12. ASSUME SaveKey(KeyEntry(New("k"), "k", None, "master")) PROVE IInv'
  <2>1. PICK k, name : k = KeyEntry(New("k"), "k", None, "master") /\ name = "k"
    OBVIOUS
  <2>2. name \in OnDisk \cup {"k"} /\ k.id = New(name) /\ IsKey(k) /\ k.held \in {None, "master"}
    BY <2>1 DEF KeyEntry, IsKey, IsRecord
  <2> QED BY <1>12, <2>1, <2>2, SaveKeyKeeps
<1>13. ASSUME NEW k, UpdateKey(k) \/ DeleteKey(k) PROVE IInv'
  BY <1>2, <1>3, <1>13 DEF UpdateKey, DeleteKey, Laden
<1>14. ASSUME SaveRule \/ \E r \in Ids(win.rules) : DeleteRule(r) PROVE IInv'
  BY <1>14, SaveRuleKeeps, DeleteRuleKeeps
<1>15. ASSUME NEW b, DeleteBookmark(b) PROVE IInv'
  BY <1>15, PutMarksKeeps DEF DeleteBookmark
<1>16. ASSUME ClearHistory PROVE IInv'
  BY <1>2, <1>3, <1>16 DEF ClearHistory, Laden
<1>17. ASSUME NEW opts, Import(opts) PROVE IInv'
  BY <1>17, ImportKeeps
<1>18. ASSUME ImportSsh \/ ImportClient(TRUE) PROVE IInv'
  BY <1>2, <1>3, <1>18 DEF ImportSsh, ImportClient, Laden
<1>19. ASSUME NEW secrets, Export(secrets) PROVE IInv'
  BY <1>2, <1>3, <1>19 DEF Export, Laden
<1>20. ASSUME Lock PROVE IInv'
  BY <1>20, LockKeeps
<1> QED
  BY <1>1, <1>4, <1>7, <1>8, <1>9, <1>10, <1>11, <1>12, <1>13, <1>14, <1>15, <1>16, <1>17,
     <1>18, <1>19, <1>20, Zenon DEF UserGives

----------------------------------------------------------------------------
(* The commands.                                                           *)

LEMMA CallIs ==
  ASSUME IInv, NEW c \in calls, ~c.answered
  PROVE  /\ IsRecord(c, CallFields) /\ c.answered = FALSE /\ AskOK(c)
         /\ Brought(c) \subseteq KnownIds
<1>1. CallOK(c)
  BY DEF IInv, Types
<1>2. Brought(c) \subseteq KnownIds
  BY DEF KnownIds
<1> QED BY <1>1, <1>2 DEF CallOK

\* A command leaves a document that is one, and a word for the window.
LEMMA RunKeeps ==
  ASSUME IInv, NEW c \in calls, ~c.answered, UNCHANGED <<win, file, edits>>, DocOK(doc'),
         \/ Ends(c)
         \/ \E x : /\ Becomes(c, x) /\ CallOK(x) /\ ~MakesIds(x) /\ Brought(x) \subseteq KnownIds,
         NEW M, M = {} \/ (MakesIds(c) /\ MadeAt(M, c.n)),
         Ids(doc'.servers) \subseteq KnownIds \cup M
  PROVE  IInv'
<1>1. /\ IsDocument(win') /\ FileOK(file')
      /\ Ids(win'.servers) \subseteq KnownIds /\ Ids(file'.servers) \subseteq KnownIds
  BY DEF IInv, Types, KnownIds
<1>2. \A x \in calls' : \/ x \in calls \ {c}
                        \/ ~MakesIds(x) /\ CallOK(x) /\ Brought(x) \subseteq KnownIds
  BY DEF Ends, Becomes
<1> QED BY <1>1, <1>2, RunOf

LEMMA SaveServerRuns ==
  ASSUME IInv, NEW c \in calls, save_server(c)
  PROVE  IInv'
<1>1. ~c.answered /\ c.op = "save_server" /\ UNCHANGED <<win, file, edits>>
  BY DEF save_server, Runs
<1>2. IsRecord(c, CallFields) /\ IsServer(c.rec) /\ c.rec.id \in KnownIds /\ DocOK(doc)
  BY <1>1, CallIs DEF AskOK, Brought, IInv, Types
<1>3. PICK d, r, typed, s : /\ d = doc /\ r = c.rec /\ typed = c.typed
                            /\ s = ServerToSave(d.servers, r, typed)
  OBVIOUS
<1>4. ServerOK(s)
  BY <1>2, <1>3, ServerToSaveOK
<1>5. s.id = r.id
  BY <1>2, <1>3 DEF ServerToSave, IsServer, IsRecord
<1>6. PICK e : e = doc' /\ e = [d EXCEPT !.servers = upsert_by_id(@, s)]
  BY <1>3, Zenon DEF save_server
<1>7. DocOK(e) /\ Ids(e.servers) \subseteq Ids(d.servers) \cup {s.id}
  BY <1>2, <1>3, <1>4, <1>6, UpsertServer
<1>8. PICK told, x : told = redacted(s) /\ x = [c EXCEPT !.answered = TRUE, !.rec = told]
  OBVIOUS
<1>9. Becomes(c, x)
  BY <1>3, <1>8, Zenon DEF save_server, Answers
<1>10. IsServer(told) /\ told.id = s.id
  BY <1>4, <1>8 DEF ServerOK, redacted, IsServer, IsRecord
<1>11. IsRecord(x, CallFields) /\ x.op = "save_server" /\ x.answered = TRUE /\ x.rec = told
  BY <1>1, <1>2, <1>8 DEF IsRecord, CallFields
<1>12. CallOK(x) /\ ~MakesIds(x) /\ Brought(x) = {told.id}
  BY <1>10, <1>11 DEF CallOK, ReplyOK, AnswersMet, MakesIds, Brought
<1>13. DocOK(doc') /\ Ids(doc'.servers) \subseteq KnownIds \cup {}
  BY <1>2, <1>3, <1>5, <1>6, <1>7 DEF KnownIds
<1>14. \E y : Becomes(c, y) /\ CallOK(y) /\ ~MakesIds(y) /\ Brought(y) \subseteq KnownIds
  BY <1>2, <1>3, <1>5, <1>9, <1>10, <1>12
<1>15. PICK M : M = {}
  OBVIOUS
<1> QED BY <1>1, <1>13, <1>14, <1>15, RunKeeps

LEMMA AnswerKeeps ==
  ASSUME IInv, NEW c \in calls, ~c.answered, NEW reply, Answers(c, reply),
         c.op \in AnswersMet \ {"save_server"},
         c.op = "save_identity" => IsIdentity(reply),
         c.op = "save_key" => IsKey(reply),
         c.op \in {"list_servers", "list_keys", "load"}
           => IsDocument(reply) /\ Ids(reply.servers) \subseteq KnownIds,
         UNCHANGED <<win, file, edits>>, DocOK(doc'), Ids(doc'.servers) \subseteq KnownIds
  PROVE  IInv'
<1>1. PICK x : x = [c EXCEPT !.answered = TRUE, !.rec = reply]
  OBVIOUS
<1>2. IsRecord(c, CallFields)
  BY CallIs
<1>3. IsRecord(x, CallFields) /\ x.op = c.op /\ x.answered = TRUE /\ x.rec = reply
  BY <1>1, <1>2 DEF IsRecord, CallFields
<1>4. CallOK(x) /\ ~MakesIds(x)
  BY <1>3 DEF CallOK, ReplyOK, AnswersMet, MakesIds
<1>5. Brought(x) \subseteq KnownIds
  BY <1>3 DEF Brought, AnswersMet
<1>6. Becomes(c, x)
  BY <1>1 DEF Answers
<1>7. PICK M : M = {} /\ Ids(doc'.servers) \subseteq KnownIds \cup M
  OBVIOUS
<1> QED BY <1>4, <1>5, <1>6, <1>7, RunKeeps

LEMMA EndKeeps ==
  ASSUME IInv, NEW c \in calls, ~c.answered, Ends(c), UNCHANGED <<win, file, edits>>,
         DocOK(doc'), Ids(doc'.servers) \subseteq KnownIds
  PROVE  IInv'
<1>1. PICK M : M = {} /\ Ids(doc'.servers) \subseteq KnownIds \cup M
  OBVIOUS
<1> QED BY <1>1, RunKeeps

\* The command goes on to read what it leaves.
LEMMA TurnKeeps ==
  ASSUME IInv, NEW c \in calls, ~c.answered, NEW x, Becomes(c, x),
         x.op \in {"list_servers", "list_keys", "load"},
         IsRecord(x, CallFields), x.answered = c.answered,
         UNCHANGED <<win, file, edits>>, DocOK(doc'),
         NEW M, M = {} \/ (MakesIds(c) /\ MadeAt(M, c.n)),
         Ids(doc'.servers) \subseteq KnownIds \cup M
  PROVE  IInv'
<1>1. x.answered = FALSE
  BY CallIs
<1>2. CallOK(x) /\ ~MakesIds(x) /\ Brought(x) \subseteq KnownIds
  BY <1>1 DEF CallOK, AskOK, MakesIds, Brought
<1> QED BY <1>2, RunKeeps

LEMMA DeleteServersRuns ==
  ASSUME IInv, NEW c \in calls, delete_servers(c)
  PROVE  IInv'
<1>1. ~c.answered /\ UNCHANGED <<win, file, edits>> /\ DocOK(doc) /\ IsRecord(c, CallFields)
  BY CallIs DEF delete_servers, Runs, IInv, Types
<1>2. PICK d, ids, e : d = doc /\ ids = c.ids /\ e = doc' /\ e = remove_servers(d, ids)
  BY DEF delete_servers
<1>3. DocOK(e) /\ Ids(e.servers) \subseteq Ids(d.servers)
  BY <1>1, <1>2, RemoveServers
<1>4. PICK x : x = [c EXCEPT !.op = "list_servers"]
  OBVIOUS
<1>5. IsRecord(x, CallFields) /\ x.op = "list_servers" /\ x.answered = c.answered
  BY <1>1, <1>4 DEF IsRecord, CallFields
<1>6. Becomes(c, x)
  BY <1>4 DEF delete_servers
<1>7. PICK M : M = {} /\ Ids(doc'.servers) \subseteq KnownIds \cup M
  BY <1>2, <1>3 DEF KnownIds
<1>8. DocOK(doc')
  BY <1>2, <1>3
<1> QED BY <1>1, <1>5, <1>6, <1>7, <1>8, TurnKeeps

\* Whatever the window reads of the document, it is the document shown.
LEMMA ListRuns ==
  ASSUME IInv, NEW c \in calls, list_servers(c) \/ list_keys(c) \/ loadAll(c)
  PROVE  IInv'
<1>1. /\ ~c.answered /\ UNCHANGED <<doc, win, file, edits>> /\ Answers(c, Shown(doc))
      /\ c.op \in {"list_servers", "list_keys", "load"}
  BY DEF list_servers, list_keys, loadAll, Runs
<1>2. DocOK(doc)
  BY DEF IInv, Types
<1>3. PICK d, reply : d = doc /\ reply = Shown(d)
  OBVIOUS
<1>4. IsDocument(reply) /\ Ids(reply.servers) = Ids(d.servers)
  BY <1>2, <1>3, ShownIs
<1>5. /\ DocOK(doc') /\ Ids(doc'.servers) \subseteq KnownIds
      /\ Ids(reply.servers) \subseteq KnownIds
  BY <1>1, <1>2, <1>3, <1>4 DEF KnownIds
<1>6. Answers(c, reply) /\ c.op \in AnswersMet \ {"save_server"}
      /\ c.op # "save_identity" /\ c.op # "save_key"
  BY <1>1, <1>3 DEF AnswersMet
<1> QED BY <1>1, <1>4, <1>5, <1>6, AnswerKeeps

LEMMA SaveIdentityRuns ==
  ASSUME IInv, NEW c \in calls, save_identity(c)
  PROVE  IInv'
<1>1. ~c.answered /\ c.op = "save_identity" /\ UNCHANGED <<win, file, edits>>
  BY DEF save_identity, Runs
<1>2. IsIdentity(c.rec) /\ DocOK(doc)
  BY <1>1, CallIs DEF AskOK, IInv, Types
<1>3. PICK d, r, typed, i : /\ d = doc /\ r = c.rec /\ typed = c.typed
                            /\ i = IdentityToSave(d.identities, r, typed)
  OBVIOUS
<1>4. IdentityOK(i)
  BY <1>2, <1>3, IdentityToSaveOK
<1>5. PICK e : e = doc' /\ e = [d EXCEPT !.identities = upsert_by_id(@, i)]
  BY <1>3, Zenon DEF save_identity
<1>6. DocOK(e) /\ Ids(e.servers) \subseteq Ids(d.servers)
  BY <1>2, <1>3, <1>4, <1>5, UpsertIdentity
<1>7. PICK told : told = redacted(i)
  OBVIOUS
<1>8. Answers(c, told)
  BY <1>3, <1>7, Zenon DEF save_identity
<1>9. IsIdentity(told)
  BY <1>4, <1>7 DEF IdentityOK, redacted, IsIdentity, IsRecord
<1>10. DocOK(doc') /\ Ids(doc'.servers) \subseteq KnownIds
  BY <1>3, <1>5, <1>6 DEF KnownIds
<1>11. c.op \in AnswersMet \ {"save_server"}
  BY <1>1 DEF AnswersMet
<1> QED BY <1>1, <1>8, <1>9, <1>10, <1>11, AnswerKeeps

LEMMA DeleteIdentityRuns ==
  ASSUME IInv, NEW c \in calls, delete_identity(c)
  PROVE  IInv'
<1>1. ~c.answered /\ c.op = "delete_identity" /\ UNCHANGED <<win, file, edits>> /\ DocOK(doc)
  BY DEF delete_identity, Runs, IInv, Types
<1>2. PICK d, ids, e :
         /\ d = doc /\ ids = c.ids /\ e = doc'
         /\ e = forget_references_to([d EXCEPT !.identities = Without(@, ids)], ids)
  BY DEF delete_identity
<1>3. DocOK(e) /\ Ids(e.servers) \subseteq Ids(d.servers)
  BY <1>1, <1>2, RemoveIdentities
<1>4. PICK told : told = None /\ Answers(c, told)
  BY DEF delete_identity
<1>5. DocOK(doc') /\ Ids(doc'.servers) \subseteq KnownIds
  BY <1>2, <1>3 DEF KnownIds
<1>6. c.op \in AnswersMet \ {"save_server"}
  BY <1>1 DEF AnswersMet
<1> QED BY <1>1, <1>4, <1>5, <1>6, AnswerKeeps

LEMMA DeleteKeyRuns ==
  ASSUME IInv, NEW c \in calls, delete_key(c)
  PROVE  IInv'
<1>1. ~c.answered /\ c.op = "delete_key" /\ UNCHANGED <<win, file, edits>> /\ DocOK(doc)
  BY DEF delete_key, Runs, IInv, Types
<1>2. PICK d, ids, e :
         /\ d = doc /\ ids = c.ids /\ e = doc'
         /\ e = forget_references_to([d EXCEPT !.keys = Without(@, ids)], ids)
  BY DEF delete_key
<1>3. DocOK(e) /\ Ids(e.servers) \subseteq Ids(d.servers)
  BY <1>1, <1>2, RemoveKeys
<1>4. PICK told : told = None /\ Answers(c, told)
  BY DEF delete_key
<1>5. DocOK(doc') /\ Ids(doc'.servers) \subseteq KnownIds
  BY <1>2, <1>3 DEF KnownIds
<1>6. c.op \in AnswersMet \ {"save_server"}
  BY <1>1 DEF AnswersMet
<1> QED BY <1>1, <1>4, <1>5, <1>6, AnswerKeeps

LEMMA SaveKeyRuns ==
  ASSUME IInv, NEW c \in calls, save_key(c)
  PROVE  IInv'
<1>1. ~c.answered /\ c.op = "save_key" /\ UNCHANGED <<win, file, edits>>
  BY DEF save_key, Runs
<1>2. KeyOK(c.rec) /\ DocOK(doc)
  BY <1>1, CallIs DEF AskOK, IInv, Types
<1>3. PICK d, k, e : d = doc /\ k = c.rec /\ e = doc' /\ e = [d EXCEPT !.keys = Append(@, k)]
  BY DEF save_key
<1>4. DocOK(e) /\ Ids(e.servers) \subseteq Ids(d.servers)
  BY <1>2, <1>3, AppendKey
<1>5. PICK told : told = [c.rec EXCEPT !.held = IF @ = None THEN None ELSE Stored]
                  /\ Answers(c, told)
  BY DEF save_key
<1>6. IsKey(told)
  BY <1>2, <1>5 DEF KeyOK, IsKey, IsRecord
<1>7. DocOK(doc') /\ Ids(doc'.servers) \subseteq KnownIds
  BY <1>3, <1>4 DEF KnownIds
<1>8. c.op \in AnswersMet \ {"save_server"}
  BY <1>1 DEF AnswersMet
<1> QED BY <1>1, <1>5, <1>6, <1>7, <1>8, AnswerKeeps

LEMMA UpdateKeyRuns ==
  ASSUME IInv, NEW c \in calls, update_key(c)
  PROVE  IInv'
<1>1. ~c.answered /\ UNCHANGED <<win, file, edits>> /\ DocOK(doc) /\ IsRecord(c, CallFields)
  BY CallIs DEF update_key, Runs, IInv, Types
<1>2. PICK d, ids, e, l :
         /\ d = doc /\ ids = c.ids /\ e = doc' /\ e = [d EXCEPT !.keys = l]
         /\ l = [n \in DOMAIN d.keys |->
                   IF d.keys[n].id \in ids
                   THEN [d.keys[n] EXCEPT !.held = "master", !.path = None] ELSE d.keys[n]]
  BY Zenon DEF update_key, Mapped
<1>3. DocOK(e) /\ Ids(e.servers) \subseteq Ids(d.servers)
  <2>1. KeysStored(d.keys, l, ids)
    BY <1>2 DEF KeysStored, Range
  <2>2. DocOK(d) /\ e = [d EXCEPT !.keys = l]
    BY <1>1, <1>2
  <2> HIDE <1>2
  <2> QED BY <2>1, <2>2, StoreKeys
<1>4. PICK x : x = [c EXCEPT !.op = "list_keys"]
  OBVIOUS
<1>5. IsRecord(x, CallFields) /\ x.op = "list_keys" /\ x.answered = c.answered
  BY <1>1, <1>4 DEF IsRecord, CallFields
<1>6. Becomes(c, x) \/ Ends(c)
  BY <1>4, Zenon DEF update_key
<1>7. PICK M : M = {} /\ Ids(doc'.servers) \subseteq KnownIds \cup M
  BY <1>2, <1>3 DEF KnownIds
<1>8. DocOK(doc')
  BY <1>2, <1>3
<1>9. CASE Becomes(c, x)
  BY <1>1, <1>5, <1>7, <1>8, <1>9, TurnKeeps
<1>10. CASE Ends(c)
  BY <1>1, <1>7, <1>8, <1>10, EndKeeps
<1> QED BY <1>6, <1>9, <1>10

\* Rules and bookmarks are as the window had them; history is of hosts there are.
LEMMA ListsRun ==
  ASSUME IInv, NEW c \in calls,
         \/ save_port_forwardings(c) \/ save_sftp_bookmarks(c)
         \/ record_commands(c) \/ clear_command_history(c)
  PROVE  IInv'
<1>1. ~c.answered /\ UNCHANGED <<win, file, edits>> /\ Ends(c) /\ DocOK(doc)
  BY DEF save_port_forwardings, save_sftp_bookmarks, record_commands, clear_command_history,
         Runs, IInv, Types
<1>2. PICK d, e : d = doc /\ e = doc'
  OBVIOUS
<1>3. IsRecord(d, Parts6)
  BY <1>1, <1>2 DEF DocOK, RecordsOK
<1>4. /\ IsRecord(e, Parts6) /\ e.servers = d.servers /\ e.identities = d.identities
      /\ e.keys = d.keys
      /\ e.rules = d.rules \/ (IsList(e.rules) /\ \A r \in Range(e.rules) : IsRule(r))
      /\ e.history \subseteq d.history \cup Ids(d.servers)
  <2>1. CASE save_port_forwardings(c)
    <3>1. e = [d EXCEPT !.rules = c.list] /\ c.op = "save_port_forwardings"
      BY <1>2, <2>1 DEF save_port_forwardings, Runs
    <3>2. IsList(c.list) /\ \A r \in Range(c.list) : IsRule(r)
      BY <1>1, <3>1, CallIs DEF AskOK
    <3>3. /\ IsRecord(e, Parts6) /\ e.servers = d.servers /\ e.identities = d.identities
          /\ e.keys = d.keys /\ e.rules = c.list /\ e.history = d.history
      BY <1>3, <3>1 DEF IsRecord, Parts6
    <3> QED BY <3>2, <3>3
  <2>2. CASE save_sftp_bookmarks(c)
    <3>1. e = [d EXCEPT !.marks = c.list]
      BY <1>2, <2>2 DEF save_sftp_bookmarks
    <3> QED BY <1>3, <3>1 DEF IsRecord, Parts6
  <2>3. CASE record_commands(c)
    <3>1. e = [d EXCEPT !.history = @ \cup (c.ids \cap Ids(d.servers))]
      BY <1>2, <2>3 DEF record_commands
    <3>2. /\ IsRecord(e, Parts6) /\ e.servers = d.servers /\ e.identities = d.identities
          /\ e.keys = d.keys /\ e.rules = d.rules
          /\ e.history = d.history \cup (c.ids \cap Ids(d.servers))
      BY <1>3, <3>1 DEF IsRecord, Parts6
    <3> QED BY <3>2
  <2>4. CASE clear_command_history(c)
    <3>1. e = [d EXCEPT !.history = {}]
      BY <1>2, <2>4 DEF clear_command_history
    <3>2. /\ IsRecord(e, Parts6) /\ e.servers = d.servers /\ e.identities = d.identities
          /\ e.keys = d.keys /\ e.rules = d.rules /\ e.history = {}
      BY <1>3, <3>1 DEF IsRecord, Parts6
    <3> QED BY <3>2
  <2> QED BY <2>1, <2>2, <2>3, <2>4
<1>5. DocOK(e)
  BY <1>1, <1>2, <1>4 DEF DocOK, RecordsOK
<1>6. DocOK(doc') /\ Ids(doc'.servers) \subseteq KnownIds
  BY <1>2, <1>4, <1>5 DEF KnownIds
<1> QED BY <1>1, <1>6, EndKeeps

LEMMA ExportRuns ==
  ASSUME IInv, NEW c \in calls, export_data(c)
  PROVE  IInv'
<1>1. UNCHANGED <<doc, win, edits>> /\ Ends(c) /\ DocOK(doc) /\ IsDocument(win)
  BY DEF export_data, IInv, Types
<1>2. PICK d, secrets, e : d = doc /\ secrets = c.typed /\ e = file' /\ e = build_export(d, secrets)
  BY DEF export_data
<1>3. FileOK(e) /\ Ids(e.servers) = Ids(d.servers)
  BY <1>1, <1>2, ExportIs
<1>4. PICK M : M = {} /\ Ids(doc'.servers) \subseteq KnownIds \cup M
  BY <1>1 DEF KnownIds
<1>5. Ids(win'.servers) \subseteq KnownIds /\ Ids(file'.servers) \subseteq KnownIds
  BY <1>1, <1>2, <1>3 DEF KnownIds
<1>6. DocOK(doc') /\ IsDocument(win') /\ FileOK(file')
  BY <1>1, <1>2, <1>3
<1>7. \A x \in calls' : \/ x \in calls \ {c}
                        \/ ~MakesIds(x) /\ CallOK(x) /\ Brought(x) \subseteq KnownIds
  BY <1>1 DEF Ends
<1> QED BY <1>1, <1>4, <1>5, <1>6, <1>7, RunOf

\* What each import makes of the document; for the step it takes, and what it adds.
LEMMA ImportDataIs ==
  ASSUME IInv, NEW c \in calls, import_data(c)
  PROVE  /\ DocOK(doc') /\ OnlyAdds(doc, doc') /\ LinksHome(doc, doc')
         /\ Ids(doc'.servers) \subseteq KnownIds
<1>1. ~c.answered /\ c.op = "import_data"
  BY DEF import_data, Runs
<1>2. DocOK(doc) /\ FileOK(c.rec) /\ Ids(c.rec.servers) \subseteq KnownIds
  BY <1>1, CallIs DEF AskOK, Brought, IInv, Types
<1>3. PICK d, payload, opts, e : /\ d = doc /\ payload = c.rec /\ opts = c.ids /\ e = doc'
                                 /\ e = apply_merge(payload, d, opts)
  BY DEF import_data
<1>4. /\ DocOK(e) /\ OnlyAdds(d, e) /\ LinksHome(d, e)
      /\ Ids(e.servers) \subseteq Ids(d.servers) \cup Ids(payload.servers)
  BY <1>2, <1>3, MergeAdds
<1> QED BY <1>2, <1>3, <1>4 DEF KnownIds

LEMMA ImportClientIs ==
  ASSUME IInv, NEW c \in calls, import_client(c)
  PROVE  ImportOK(doc, doc', c.n)
<1>1. DocOK(doc)
  BY DEF IInv, Types
<1>2. PICK d, scan, picked, typed, at, e :
         /\ d = doc /\ scan = ClientScan /\ picked = [k \in DOMAIN ClientScan |-> k]
         /\ typed = c.typed /\ at = c.n /\ e = doc'
         /\ e = import_client_hosts(d, scan, picked, typed, at)
  BY Zenon DEF import_client, ClientImport
<1>3. IsList(picked)
  <2>1. IsList(scan)
    BY <1>2, ClientScanIs
  <2>2. picked \in [DOMAIN scan -> Range(picked)]
    BY <1>2 DEF Range
  <2> QED BY <2>1, <2>2, RemadeIs
<1>4. ImportOK(d, e, at)
  BY <1>1, <1>2, <1>3, ClientAdds
<1> QED BY <1>2, <1>4

LEMMA ImportSshIs ==
  ASSUME IInv, NEW c \in calls, import_ssh(c)
  PROVE  ImportOK(doc, doc', c.n)
<1>1. DocOK(doc) /\ c.op = "import_ssh_config_hosts"
  BY DEF IInv, Types, import_ssh, Runs
<1>2. PICK d, scan, aliases, onDisk, at, e :
         /\ d = doc /\ scan = SshScan /\ aliases = Aliases /\ onDisk = OnDisk
         /\ at = c.n /\ e = doc'
         /\ e = import_ssh_config_hosts(d, scan, aliases, onDisk, at)
  BY Zenon DEF import_ssh, SshImport
<1>3. PICK hosts, A : hosts = Picked(scan, aliases) /\ A = Range(Aliases)
  OBVIOUS
<1>4. IsList(aliases) /\ None \notin onDisk
  BY <1>2, LibraryAssumption, Zenon DEF LibraryAssumption
<1>5. IsList(hosts) /\ \A h \in Range(hosts) : h.alias \in A /\ IsList(h.jump)
  BY <1>2, <1>3, <1>4, SshScanIs, PickedIs
<1>6. at \in 1 .. MaxEdits
  <2>1. at \in 1 .. edits
    BY <1>1, <1>2 DEF IInv, Numbered, MakesIds
  <2> QED BY <2>1, EditsAre DEF IInv
<1>7. \A f \in onDisk : Fresh(f, at) # None
  <2>1. \A f \in OnDisk \cup {"k"}, n \in 1 .. MaxEdits : Fresh(f, n) # None
    BY LibraryAssumption, Zenon DEF LibraryAssumption
  <2> QED BY <1>2, <1>6, <2>1
<1>8. \A s \in Range(d.servers) : \A a \in A : s.id # Fresh(a, at)
  <2>1. at \in ToCome
    BY <1>1, <1>2, <1>6 DEF ToCome
  <2>2. \A a \in A : Fresh(a, at) \notin KnownIds
    BY <1>3, <2>1 DEF IInv, Apart
  <2>3. \A s \in Range(d.servers) : s.id \in KnownIds
    BY <1>2 DEF KnownIds, Ids
  <2> QED BY <2>2, <2>3
<1>9. ImportOK(d, e, at)
  BY <1>1, <1>2, <1>3, <1>4, <1>5, <1>7, <1>8, SshAdds
<1> QED BY <1>2, <1>9

LEMMA ImportsRun ==
  ASSUME IInv, NEW c \in calls, import_data(c) \/ import_ssh(c) \/ import_client(c)
  PROVE  IInv'
<1>1. ~c.answered /\ UNCHANGED <<win, file, edits>> /\ IsRecord(c, CallFields)
  BY CallIs DEF import_data, import_ssh, import_client, Runs
<1>2. PICK x : /\ Becomes(c, x)
               /\ x = [c EXCEPT !.op = "load", !.rec = None] \/ x = [c EXCEPT !.op = "load"]
  BY DEF import_data, import_ssh, import_client
<1>3. IsRecord(x, CallFields) /\ x.op = "load" /\ x.answered = c.answered
  BY <1>1, <1>2 DEF IsRecord, CallFields
<1>4. CASE import_data(c)
  <2>1. PICK M : M = {} /\ Ids(doc'.servers) \subseteq KnownIds \cup M
    BY <1>4, ImportDataIs
  <2>2. DocOK(doc')
    BY <1>4, ImportDataIs
  <2> QED BY <1>1, <1>2, <1>3, <2>1, <2>2, TurnKeeps
<1>5. CASE import_ssh(c) \/ import_client(c)
  <2>1. PICK M : M = Ids(doc'.servers) \ Ids(doc.servers) /\ MadeAt(M, c.n)
    BY <1>5, ImportSshIs, ImportClientIs DEF ImportOK
  <2>2. Ids(doc'.servers) \subseteq KnownIds \cup M
    BY <2>1 DEF KnownIds
  <2>3. DocOK(doc')
    BY <1>5, ImportSshIs, ImportClientIs DEF ImportOK
  <2>4. MakesIds(c)
    BY <1>5 DEF MakesIds, import_ssh, import_client, Runs
  <2> QED BY <1>1, <1>2, <1>3, <2>1, <2>2, <2>3, <2>4, TurnKeeps
<1> QED BY <1>4, <1>5

----------------------------------------------------------------------------
(* The answers.                                                            *)

\* One list of the window's is replaced.
LEMMA ShowsServers ==
  ASSUME NEW w, IsDocument(w), NEW l, IsList(l), \A s \in Range(l) : IsServer(s),
         NEW v, IsRecord(v, Parts6), v.servers = l, v.identities = w.identities,
         v.keys = w.keys, v.rules = w.rules
  PROVE  IsDocument(v)
BY DEF IsDocument, Parts6

LEMMA ShowsIdentities ==
  ASSUME NEW w, IsDocument(w), NEW l, IsList(l), \A i \in Range(l) : IsIdentity(i),
         NEW v, v = [w EXCEPT !.identities = l]
  PROVE  IsDocument(v) /\ v.servers = w.servers
<1>1. IsRecord(w, Parts6)
  BY DEF IsDocument, Parts6
<1>2. /\ IsRecord(v, Parts6) /\ v.servers = w.servers /\ v.identities = l
      /\ v.keys = w.keys /\ v.rules = w.rules
  BY <1>1 DEF IsRecord, Parts6
<1> QED BY <1>2 DEF IsDocument, Parts6

LEMMA ShowsKeys ==
  ASSUME NEW w, IsDocument(w), NEW l, IsList(l), \A k \in Range(l) : IsKey(k),
         NEW v, v = [w EXCEPT !.keys = l]
  PROVE  IsDocument(v) /\ v.servers = w.servers
<1>1. IsRecord(w, Parts6)
  BY DEF IsDocument, Parts6
<1>2. /\ IsRecord(v, Parts6) /\ v.servers = w.servers /\ v.identities = w.identities
      /\ v.keys = l /\ v.rules = w.rules
  BY <1>1 DEF IsRecord, Parts6
<1> QED BY <1>2 DEF IsDocument, Parts6

\* Hosts that signed in with the identity that is gone sign in by themselves.
LEMMA SignedOffIs ==
  ASSUME NEW old, IsList(old), \A s \in Range(old) : IsServer(s), NEW ids,
         NEW l, l = SignedOff(old, ids)
  PROVE  IsList(l) /\ (\A s \in Range(l) : IsServer(s)) /\ Ids(l) = Ids(old)
<1>1. ASSUME NEW s, IsServer(s), NEW t, t = [s EXCEPT !.identity = None]
      PROVE  IsServer(t) /\ t.id = s.id
  BY <1>1 DEF IsServer, IsRecord
<1>2. \A n \in DOMAIN old : IsServer(old[n])
  BY DEF Range
<1>3. l = [n \in DOMAIN old |-> IF old[n].identity \in ids
                                THEN [old[n] EXCEPT !.identity = None] ELSE old[n]]
  BY DEF SignedOff, Mapped
<1>4. /\ DOMAIN l = DOMAIN old /\ l \in [DOMAIN old -> Range(l)]
      /\ \A n \in DOMAIN old : l[n] \in {old[n], [old[n] EXCEPT !.identity = None]}
  BY <1>3 DEF Range
<1>5. \A n \in DOMAIN old : IsServer(l[n]) /\ l[n].id = old[n].id
  BY <1>1, <1>2, <1>4
<1>6. IsList(l)
  BY <1>4, RemadeIs
<1> QED BY <1>4, <1>5, <1>6 DEF Ids, Range

LEMMA ReceivedKeeps ==
  ASSUME IInv, NEW c \in calls, Received(c)
  PROVE  IInv'
<1>1. c.answered /\ Ends(c) /\ UNCHANGED <<doc, file, edits>>
  BY DEF Received
<1>2. ReplyOK(c)
  BY <1>1 DEF IInv, Types, CallOK
<1>3. Brought(c) \subseteq KnownIds
  BY DEF KnownIds
<1>4. IsDocument(win) /\ DocOK(doc) /\ FileOK(file)
  BY DEF IInv, Types
<1>5. PICK w, v, r, ids : w = win /\ v = win' /\ r = c.rec /\ ids = c.ids
  OBVIOUS
<1>6. /\ IsDocument(w)
      /\ IsList(w.servers) /\ \A s \in Range(w.servers) : IsServer(s)
      /\ IsList(w.identities) /\ \A i \in Range(w.identities) : IsIdentity(i)
      /\ IsList(w.keys) /\ \A k \in Range(w.keys) : IsKey(k)
      /\ IsRecord(w, Parts6)
  BY <1>4, <1>5 DEF IsDocument, Parts6
<1>7. Ids(w.servers) \subseteq KnownIds
  BY <1>5 DEF KnownIds
<1>8. c.op \in AnswersMet
  BY <1>2 DEF ReplyOK
<1>9. IsDocument(v) /\ Ids(v.servers) \subseteq KnownIds
  <2>1. CASE c.op = "save_server"
    <3>1. PICK l : l = upsert_by_id(w.servers, r) /\ v = [w EXCEPT !.servers = l]
      BY <1>5, <2>1 DEF Received
    <3>2. IsServer(r) /\ r.id \in KnownIds
      BY <1>2, <1>3, <1>5, <2>1 DEF ReplyOK, Brought
    <3>3. IsList(l) /\ Range(l) \subseteq Range(w.servers) \cup {r}
      BY <1>6, <3>1, UpsertIs
    <3>4. \A s \in Range(l) : IsServer(s)
      BY <1>6, <3>2, <3>3
    <3>5. /\ IsRecord(v, Parts6) /\ v.servers = l /\ v.identities = w.identities
          /\ v.keys = w.keys /\ v.rules = w.rules
      BY <1>6, <3>1 DEF IsRecord, Parts6
    <3>6. IsDocument(v)
      BY <1>6, <3>3, <3>4, <3>5, ShowsServers
    <3> QED BY <1>7, <3>2, <3>3, <3>5, <3>6 DEF Ids
  <2>2. CASE c.op = "list_servers"
    <3>1. PICK l, marks : /\ l = r.servers /\ marks = Off(w.marks, ids)
                          /\ v = [w EXCEPT !.servers = l, !.marks = marks]
      BY <1>5, <2>2 DEF Received
    <3>2. IsDocument(r) /\ Ids(r.servers) \subseteq KnownIds
      BY <1>1, <1>2, <1>3, <1>5, <2>2 DEF ReplyOK, Brought
    <3>3. IsList(l) /\ \A s \in Range(l) : IsServer(s)
      BY <3>1, <3>2 DEF IsDocument
    <3>4. /\ IsRecord(v, Parts6) /\ v.servers = l /\ v.identities = w.identities
          /\ v.keys = w.keys /\ v.rules = w.rules
      BY <1>6, <3>1 DEF IsRecord, Parts6
    <3>5. IsDocument(v)
      BY <1>6, <3>3, <3>4, ShowsServers
    <3> QED BY <3>1, <3>2, <3>4, <3>5
  <2>3. CASE c.op = "save_identity"
    <3>1. PICK l : l = upsert_by_id(w.identities, r) /\ v = [w EXCEPT !.identities = l]
      BY <1>5, <2>3 DEF Received
    <3>2. IsIdentity(r)
      BY <1>2, <1>5, <2>3 DEF ReplyOK
    <3>3. IsList(l) /\ Range(l) \subseteq Range(w.identities) \cup {r}
      BY <1>6, <3>1, UpsertIs
    <3>4. \A i \in Range(l) : IsIdentity(i)
      BY <1>6, <3>2, <3>3
    <3>5. IsDocument(v) /\ v.servers = w.servers
      BY <1>6, <3>1, <3>3, <3>4, ShowsIdentities
    <3> QED BY <1>7, <3>5
  <2>4. CASE c.op = "delete_identity"
    <3>1. PICK l, old, i : /\ old = w.servers /\ l = SignedOff(old, ids)
                           /\ i = Without(w.identities, ids)
                           /\ v = [w EXCEPT !.identities = i, !.servers = l]
      BY <1>5, <2>4 DEF Received
    <3>2. IsList(i) /\ Range(i) \subseteq Range(w.identities)
      BY <1>6, <3>1, WithoutIs
    <3>3. \A j \in Range(i) : IsIdentity(j)
      BY <1>6, <3>2
    <3>4. IsList(l) /\ (\A s \in Range(l) : IsServer(s)) /\ Ids(l) = Ids(old)
      BY <1>6, <3>1, SignedOffIs
    <3>5. /\ IsRecord(v, Parts6) /\ v.servers = l /\ v.identities = i
          /\ v.keys = w.keys /\ v.rules = w.rules
      BY <1>6, <3>1 DEF IsRecord, Parts6
    <3>6. IsDocument(v)
      BY <1>6, <3>2, <3>3, <3>4, <3>5 DEF IsDocument, Parts6
    <3> QED BY <1>7, <3>1, <3>4, <3>5, <3>6
  <2>5. CASE c.op = "save_key"
    <3>1. PICK l, old : old = w.keys /\ l = Append(old, r) /\ v = [w EXCEPT !.keys = l]
      BY <1>5, <2>5 DEF Received
    <3>2. IsKey(r)
      BY <1>2, <1>5, <2>5 DEF ReplyOK
    <3>3. PICK S : S = Range(old) \cup {r}
      OBVIOUS
    <3>4. old \in Seq(S) /\ r \in S
      <4>1. old \in Seq(Range(old)) /\ Range(old) \subseteq S
        BY <1>6, <3>1, <3>3 DEF IsList
      <4>2. old \in Seq(S)
        BY <4>1, SeqMonotonic
      <4> QED BY <3>3, <4>2
    <3>5. l \in Seq(S) /\ Range(l) = Range(old) \cup {r}
      BY <3>1, <3>4, AppendedIs
    <3>6. IsList(l)
      BY <3>5, ListOver
    <3>7. \A k \in Range(l) : IsKey(k)
      BY <1>6, <3>1, <3>2, <3>5
    <3>8. IsDocument(v) /\ v.servers = w.servers
      BY <1>6, <3>1, <3>6, <3>7, ShowsKeys
    <3> QED BY <1>7, <3>8
  <2>6. CASE c.op = "list_keys"
    <3>1. PICK l : l = r.keys /\ v = [w EXCEPT !.keys = l]
      BY <1>5, <2>6 DEF Received
    <3>2. IsDocument(r)
      BY <1>2, <1>5, <2>6 DEF ReplyOK
    <3>3. IsList(l) /\ \A k \in Range(l) : IsKey(k)
      BY <3>1, <3>2 DEF IsDocument
    <3>4. IsDocument(v) /\ v.servers = w.servers
      BY <1>6, <3>1, <3>3, ShowsKeys
    <3> QED BY <1>7, <3>4
  <2>7. CASE c.op = "delete_key"
    <3>1. PICK l : l = Without(w.keys, ids) /\ v = [w EXCEPT !.keys = l]
      BY <1>5, <2>7 DEF Received
    <3>2. IsList(l) /\ Range(l) \subseteq Range(w.keys)
      BY <1>6, <3>1, WithoutIs
    <3>3. \A k \in Range(l) : IsKey(k)
      BY <1>6, <3>2
    <3>4. IsDocument(v) /\ v.servers = w.servers
      BY <1>6, <3>1, <3>2, <3>3, ShowsKeys
    <3> QED BY <1>7, <3>4
  <2>8. CASE c.op = "load"
    <3>1. v = r
      BY <1>5, <2>8 DEF Received
    <3>2. IsDocument(r) /\ Ids(r.servers) \subseteq KnownIds
      BY <1>1, <1>2, <1>3, <1>5, <2>8 DEF ReplyOK, Brought
    <3> QED BY <3>1, <3>2
  <2> QED BY <1>8, <2>1, <2>2, <2>3, <2>4, <2>5, <2>6, <2>7, <2>8 DEF AnswersMet
<1>10. PICK M : M = {} /\ Ids(doc'.servers) \subseteq KnownIds \cup M
  BY <1>1 DEF KnownIds
<1>11. DocOK(doc') /\ FileOK(file') /\ Ids(file'.servers) \subseteq KnownIds
  BY <1>1, <1>4 DEF KnownIds
<1>12. \A x \in calls' : \/ x \in calls \ {c}
                         \/ ~MakesIds(x) /\ CallOK(x) /\ Brought(x) \subseteq KnownIds
  BY <1>1 DEF Ends
<1>13. IsDocument(win') /\ Ids(win'.servers) \subseteq KnownIds
  BY <1>5, <1>9
<1> QED BY <1>1, <1>10, <1>11, <1>12, <1>13, RunOf

LEMMA FailsKeeps ==
  ASSUME IInv, NEW c \in calls, Fails(c)
  PROVE  IInv'
<1>1. ~c.answered /\ Ends(c) /\ UNCHANGED <<doc, win, file, edits>>
  BY DEF Fails
<1>2. DocOK(doc') /\ Ids(doc'.servers) \subseteq KnownIds
  BY <1>1 DEF IInv, Types, KnownIds
<1> QED BY <1>1, <1>2, EndKeeps

----------------------------------------------------------------------------
(* The invariant holds from the start and through every step.              *)

LEMMA StartHolds == Init => IInv
<1>1. SUFFICES ASSUME Init PROVE IInv
  OBVIOUS
<1>2. PICK d \in Starts : doc = d /\ win = Shown(d) /\ file = Foreign /\ edits = 0 /\ calls = {}
  BY <1>1 DEF Init
<1>3. /\ IsDocument(d) /\ OneWay(d) /\ SealedUnder(d, "master")
      /\ d.history \subseteq Ids(d.servers)
      /\ IsDocument(Foreign) /\ OneWay(Foreign)
  BY LibraryAssumption, Zenon DEF LibraryAssumption
<1>4. (\A k \in Range(d.keys) : k.id # None) /\ \A k \in Range(Foreign.keys) : k.id # None
  <2>1. \A k \in Range(Foreign.keys) \cup UNION {Range(x.keys) : x \in Starts} : k.id # None
    BY LibraryAssumption, Zenon DEF LibraryAssumption
  <2> QED BY <2>1
<1>5. DocOK(d) /\ FileOK(Foreign)
  BY <1>3, <1>4, SaidTwice DEF DocOK, FileOK
<1>6. IsDocument(Shown(d)) /\ Ids(Shown(d).servers) = Ids(d.servers)
  BY <1>5, ShownIs
<1>7. MaxEdits \in Nat
  BY LibraryAssumption, Zenon DEF LibraryAssumption
<1>8. Types
  BY <1>2, <1>5, <1>6, <1>7 DEF Types
<1>9. Numbered
  BY <1>2 DEF Numbered
<1>10. Apart(KnownIds, ToCome)
  <2>1. SUFFICES ASSUME NEW n \in ToCome, NEW a \in Range(Aliases)
                 PROVE  Fresh(a, n) \notin KnownIds
    BY DEF Apart
  <2>2. n \in 1 .. MaxEdits
    BY DEF ToCome
  <2>3. \A b \in Range(Aliases), m \in 1 .. MaxEdits : \A x \in Starts \cup {Foreign} :
           Fresh(b, m) \notin Ids(x.servers)
    BY LibraryAssumption, Zenon DEF LibraryAssumption
  <2>4. Fresh(a, n) \notin Ids(d.servers) /\ Fresh(a, n) \notin Ids(Foreign.servers)
    BY <2>2, <2>3
  <2>5. KnownIds = Ids(d.servers) \cup Ids(Foreign.servers)
    BY <1>2, <1>6 DEF KnownIds
  <2> QED BY <2>4, <2>5
<1> QED BY <1>8, <1>9, <1>10 DEF IInv

LEMMA StepsKeep == IInv /\ [Next]_vars => IInv'
<1>1. SUFFICES ASSUME IInv, [Next]_vars PROVE IInv'
  OBVIOUS
<1>2. CASE UNCHANGED vars
  <2>1. UNCHANGED <<doc, win, file, calls>> /\ edits' = edits /\ edits' <= MaxEdits
    BY <1>1, <1>2, EditsAre DEF vars, IInv
  <2> QED BY <1>1, <2>1, StillStep
<1>3. CASE UserGives
  BY <1>1, <1>3, UserKeeps
<1>4. CASE Unlock
  BY <1>1, <1>4, UnlockKeeps
<1>5. CASE FlushCommands
  BY <1>1, <1>5, FlushKeeps
<1>6. ASSUME NEW c \in calls, save_server(c) \/ delete_servers(c) PROVE IInv'
  BY <1>1, <1>6, SaveServerRuns, DeleteServersRuns
<1>7. ASSUME NEW c \in calls, list_servers(c) \/ list_keys(c) \/ loadAll(c) PROVE IInv'
  BY <1>1, <1>7, ListRuns
<1>8. ASSUME NEW c \in calls, save_identity(c) \/ delete_identity(c) PROVE IInv'
  BY <1>1, <1>8, SaveIdentityRuns, DeleteIdentityRuns
<1>9. ASSUME NEW c \in calls, save_key(c) \/ update_key(c) \/ delete_key(c) PROVE IInv'
  BY <1>1, <1>9, SaveKeyRuns, UpdateKeyRuns, DeleteKeyRuns
<1>10. ASSUME NEW c \in calls, \/ save_port_forwardings(c) \/ save_sftp_bookmarks(c)
                               \/ record_commands(c) \/ clear_command_history(c)
       PROVE  IInv'
  BY <1>1, <1>10, ListsRun
<1>11. ASSUME NEW c \in calls, import_data(c) \/ import_ssh(c) \/ import_client(c) PROVE IInv'
  BY <1>1, <1>11, ImportsRun
<1>12. ASSUME NEW c \in calls, export_data(c) PROVE IInv'
  BY <1>1, <1>12, ExportRuns
<1>13. ASSUME NEW c \in calls, Fails(c) \/ Received(c) PROVE IInv'
  BY <1>1, <1>13, FailsKeeps, ReceivedKeeps
<1> QED BY <1>1, <1>2, <1>3, <1>4, <1>5, <1>6, <1>7, <1>8, <1>9, <1>10, <1>11, <1>12, <1>13
        DEF Next

LEMMA Invariant == Spec => []IInv
<1> QED BY StartHolds, StepsKeep, PTL DEF Spec

(* What is kept, shown, exported, sent and answered is made of records of  *)
(* its kind, a key has a name of its own, and no more than MaxEdits        *)
(* commands are given: whatever the user, the file and the order.          *)
THEOREM LibraryTypes == Spec => []Types
<1>1. IInv => Types
  BY DEF IInv
<1> QED BY <1>1, Invariant, PTL

(* History is of hosts there are, and what was stored opens with this      *)
(* machine's key and stays with no record that signs in another way,       *)
(* through every save, delete, merge and import, in any order.             *)
THEOREM KeptRecordsHold == Spec => []RecordsHold
<1>1. IInv => RecordsHold
  BY SaidTwice DEF IInv, Types, DocOK, RecordsHold, HistoryHasHost, NoSecretLingers
<1> QED BY <1>1, Invariant, PTL

----------------------------------------------------------------------------
(* Imports only add.                                                       *)

\* An import is off its way, with the vault open, when it was run.
LEMMA ImportedBy ==
  ASSUME IInv, Next, NEW c \in calls, Imports(c), c \notin calls', open
  PROVE  import_data(c) \/ import_ssh(c) \/ import_client(c)
<1>1. ~(calls \subseteq calls')
  OBVIOUS
<1>2. ~UserGives /\ ~Unlock /\ ~FlushCommands
  BY <1>1 DEF UserGives, SaveServer, EditServer, DeleteServers, SaveIdentity, DeleteIdentity,
     SaveKey, UpdateKey, DeleteKey, PutRules, SaveRule, DeleteRule, PutMarks, AddBookmark,
     DeleteBookmark, QueueCommand, ClearHistory, Import, ImportSsh, ImportClient, Export, Lock,
     Unlock, FlushCommands, Sends
<1>3. ~(c.answered /\ Imports(c))
  BY DEF IInv, Types, CallOK, ReplyOK, AnswersMet, Imports
<1>4. ASSUME NEW b \in calls, \/ save_server(b) \/ delete_servers(b) \/ list_servers(b)
                              \/ save_identity(b) \/ delete_identity(b)
                              \/ save_key(b) \/ update_key(b) \/ list_keys(b) \/ delete_key(b)
                              \/ save_port_forwardings(b) \/ save_sftp_bookmarks(b)
                              \/ record_commands(b) \/ clear_command_history(b)
                              \/ loadAll(b) \/ Fails(b) \/ Received(b) \/ export_data(b)
      PROVE  FALSE
  <2>1. calls \ {b} \subseteq calls'
    BY <1>4 DEF save_server, delete_servers, list_servers, save_identity, delete_identity,
       save_key, update_key, list_keys, delete_key, save_port_forwardings, save_sftp_bookmarks,
       record_commands, clear_command_history, loadAll, Fails, Received, export_data,
       Answers, Becomes, Ends
  <2>2. b = c
    BY <2>1
  <2>3. ~Fails(b) /\ ~Received(b)
    BY <1>3, <2>2 DEF Fails, Received
  <2>4. ~Imports(b)
    BY <1>4, <2>3 DEF Imports, Runs, save_server, delete_servers, list_servers, save_identity,
       delete_identity, save_key, update_key, list_keys, delete_key, save_port_forwardings,
       save_sftp_bookmarks, record_commands, clear_command_history, loadAll, export_data
  <2> QED BY <2>2, <2>4
<1>5. ASSUME NEW b \in calls, import_data(b) \/ import_ssh(b) \/ import_client(b)
      PROVE  b = c
  <2>1. calls \ {b} \subseteq calls'
    BY <1>5 DEF import_data, import_ssh, import_client, Becomes
  <2> QED BY <2>1
<1> QED BY <1>2, <1>4, <1>5 DEF Next

LEMMA ImportStep ==
  ASSUME IInv, [Next]_vars, Imported
  PROVE  DocOK(doc) /\ DocOK(doc') /\ OnlyAdds(doc, doc') /\ LinksHome(doc, doc')
<1>1. PICK c \in calls : Imports(c) /\ c \notin calls' /\ open
  BY DEF Imported
<1>2. Next
  BY <1>1 DEF vars
<1>3. import_data(c) \/ import_ssh(c) \/ import_client(c)
  BY <1>1, <1>2, ImportedBy
<1>4. DocOK(doc)
  BY DEF IInv, Types
<1> QED BY <1>3, <1>4, ImportDataIs, ImportSshIs, ImportClientIs DEF ImportOK

(* Whatever a merged file, the ssh config or another client's file says:   *)
(* the records that were here stay as they were and where they were, and   *)
(* every host and rule that came refers to records there are, or to none.  *)
THEOREM EveryImportAdds == Spec => ImportsAdd
<1>1. ASSUME IInv, [Next]_vars, Imported
      PROVE  /\ IsPrefix(doc.servers, doc'.servers)
             /\ IsPrefix(doc.identities, doc'.identities)
             /\ IsPrefix(doc.keys, doc'.keys)
             /\ IsPrefix(doc.rules, doc'.rules)
             /\ doc.marks = doc'.marks /\ doc.history = doc'.history
  <2>1. PICK d, e : d = doc /\ e = doc'
    OBVIOUS
  <2>2. DocOK(d) /\ DocOK(e) /\ OnlyAdds(d, e)
    BY <1>1, <2>1, ImportStep
  <2>3. /\ IsList(d.servers) /\ IsList(e.servers) /\ Grown(d.servers, e.servers)
        /\ IsList(d.identities) /\ IsList(e.identities) /\ Grown(d.identities, e.identities)
        /\ IsList(d.keys) /\ IsList(e.keys) /\ Grown(d.keys, e.keys)
        /\ IsList(d.rules) /\ IsList(e.rules) /\ Grown(d.rules, e.rules)
        /\ e.marks = d.marks /\ e.history = d.history
    BY <2>2 DEF DocOK, RecordsOK, OnlyAdds
  <2>4. /\ IsPrefix(d.servers, e.servers) /\ IsPrefix(d.identities, e.identities)
        /\ IsPrefix(d.keys, e.keys) /\ IsPrefix(d.rules, e.rules)
    BY <2>3, GrownIsPrefix
  <2> QED BY <2>1, <2>3, <2>4
<1>2. ASSUME IInv, [Next]_vars, Imported
      PROVE  /\ \A n \in DOMAIN doc'.servers \ DOMAIN doc.servers :
                   PointsHome(doc', doc'.servers[n])
             /\ \A n \in DOMAIN doc'.rules \ DOMAIN doc.rules :
                   doc'.rules[n].via \in Ids(doc'.servers) \cup {None}
  BY <1>2, ImportStep DEF LinksHome
<1>3. IInv /\ [Next]_vars
        => [Imported => /\ IsPrefix(doc.servers, doc'.servers)
                        /\ IsPrefix(doc.identities, doc'.identities)
                        /\ IsPrefix(doc.keys, doc'.keys)
                        /\ IsPrefix(doc.rules, doc'.rules)
                        /\ doc.marks = doc'.marks /\ doc.history = doc'.history]_vars
  BY <1>1
<1>4. IInv /\ [Next]_vars
        => [Imported => /\ \A n \in DOMAIN doc'.servers \ DOMAIN doc.servers :
                              PointsHome(doc', doc'.servers[n])
                        /\ \A n \in DOMAIN doc'.rules \ DOMAIN doc.rules :
                              doc'.rules[n].via \in Ids(doc'.servers) \union {None}]_vars
  BY <1>2
<1> QED BY <1>3, <1>4, StartHolds, StepsKeep, PTL
        DEF Spec, ImportsAdd, ImportOnlyAdds, ImportLinksHome

=============================================================================
