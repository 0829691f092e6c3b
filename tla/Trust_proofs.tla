----------------------------- MODULE Trust_proofs -----------------------------
(***************************************************************************)
(* What is proved about Trust for any hosts, keys, files and connects, and *)
(* any number of questions, jump hosts, rounds and edits; then about Login *)
(* for any credential, identities of an agent, lists of methods and rounds.*)
(***************************************************************************)
EXTENDS Trust, Login, FiniteSetTheorems, SequenceTheorems, WellFoundedInduction, TLAPS

-----------------------------------------------------------------------------
(* Lists *)

LEMMA LeastOf ==
  ASSUME NEW T \in SUBSET Nat, T # {}
  PROVE  \E x \in T : \A y \in T : x <= y
<1>1. PICK x \in T : \A y \in T : ~(<<y, x>> \in OpToRel(<, Nat))
  BY NatLessThanWellFounded, WFMin
<1>2. \A y \in T : ~(y < x)
  BY <1>1 DEF OpToRel
<1> QED BY <1>2

\* A function whose value at n comes from the one at n - 1 exists.
Iterates(f, N, S, b, G) ==
    f \in [0 .. N -> S] /\ f[0] = b /\ \A n \in 1 .. N : f[n] = G[n][f[n - 1]]

LEMMA Iterated ==
  ASSUME NEW N, NEW S, NEW b, NEW G, N \in Nat, b \in S, G \in [1 .. N -> [S -> S]]
  PROVE  \E f : Iterates(f, N, S, b, G)
<1> DEFINE Good(m) == \E f \in [0 .. m -> S] :
                         f[0] = b /\ \A n \in 1 .. m : f[n] = G[n][f[n - 1]]
           T == {m \in 0 .. N : ~Good(m)}
<1>1. N \in 0 .. N /\ T \in SUBSET Nat /\ (T = {} => Good(N))
  <2> HIDE DEF Good
  <2> QED OBVIOUS
<1>2. SUFFICES ASSUME T # {} PROVE FALSE
  BY <1>1 DEF Iterates
<1>3. PICK m \in T : \A y \in T : m <= y
  <2> HIDE DEF T
  <2> QED BY <1>1, <1>2, LeastOf
<1>4. m \in 0 .. N /\ ~Good(m)
  OBVIOUS
<1>5. CASE m = 0
  <2> DEFINE f == [n \in 0 .. 0 |-> b]
  <2>1. f \in [0 .. 0 -> S] /\ f[0] = b /\ \A n \in 1 .. 0 : f[n] = G[n][f[n - 1]]
    OBVIOUS
  <2>2. Good(0)
    BY <2>1
  <2> QED BY <1>4, <1>5, <2>2
<1>6. CASE m # 0
  <2>1. m - 1 \in 0 .. N /\ Good(m - 1)
    <3> HIDE DEF Good
    <3> QED BY <1>3, <1>4, <1>6
  <2>2. PICK f \in [0 .. m - 1 -> S] : f[0] = b /\ \A n \in 1 .. m - 1 : f[n] = G[n][f[n - 1]]
    BY <2>1
  <2> DEFINE g == [n \in 0 .. m |-> IF n = m THEN G[m][f[m - 1]] ELSE f[n]]
  <2>3. G[m][f[m - 1]] \in S
    BY <1>4, <1>6
  <2>4. g \in [0 .. m -> S]
    BY <1>4, <2>3
  <2>5. g[0] = b
    BY <1>4, <1>6, <2>2
  <2>6. ASSUME NEW n \in 1 .. m PROVE g[n] = G[n][g[n - 1]]
    <3>1. n \in 0 .. m /\ n - 1 \in 0 .. m /\ n - 1 # m
      BY <1>4
    <3>2. g[n - 1] = f[n - 1]
      BY <3>1
    <3>3. CASE n = m
      BY <3>1, <3>2, <3>3
    <3>4. CASE n # m
      BY <1>4, <2>2, <3>1, <3>2, <3>4
    <3> QED BY <3>3, <3>4
  <2>7. Good(m)
    BY <2>4, <2>5, <2>6
  <2> QED BY <1>4, <2>7
<1> QED BY <1>5, <1>6

LEMMA AppendAt ==
  ASSUME NEW S, NEW list \in Seq(S), NEW x \in S
  PROVE  \E n : /\ DOMAIN Append(list, x) = DOMAIN list \cup {n} /\ n \notin DOMAIN list
               /\ \A i \in DOMAIN list : i < n /\ Append(list, x)[i] = list[i]
               /\ Append(list, x)[n] = x
<1>1. PICK t \in Seq(S) : t = Append(list, x)
  BY AppendProperties
<1>2. /\ Len(t) = Len(list) + 1 /\ t[Len(list) + 1] = x
      /\ \A i \in 1 .. Len(list) : t[i] = list[i]
  BY <1>1, AppendProperties
<1>3. DOMAIN t = 1 .. Len(list) + 1 /\ DOMAIN list = 1 .. Len(list) /\ Len(list) \in Nat
  BY <1>2
<1>4. /\ DOMAIN t = DOMAIN list \cup {Len(list) + 1} /\ Len(list) + 1 \notin DOMAIN list
      /\ \A i \in DOMAIN list : i < Len(list) + 1
  BY <1>3
<1> QED BY <1>1, <1>2, <1>3, <1>4

LEMMA AppendedIs ==
  ASSUME NEW S, NEW list \in Seq(S), NEW x \in S
  PROVE  Append(list, x) \in Seq(S) /\ ToSet(Append(list, x)) = ToSet(list) \cup {x}
<1>1. PICK t \in Seq(S) : t = Append(list, x)
  BY AppendProperties
<1>2. /\ Len(t) = Len(list) + 1 /\ t[Len(list) + 1] = x
      /\ \A i \in 1 .. Len(list) : t[i] = list[i]
  BY <1>1, AppendProperties
<1>3. DOMAIN t = 1 .. Len(list) + 1 /\ DOMAIN list = 1 .. Len(list) /\ Len(list) \in Nat
  BY <1>2
<1>4. 1 .. Len(list) + 1 = (1 .. Len(list)) \cup {Len(list) + 1}
  BY <1>3
<1>5. ToSet(t) = {t[i] : i \in 1 .. Len(list)} \cup {t[Len(list) + 1]}
  BY <1>3, <1>4 DEF ToSet
<1> QED BY <1>1, <1>2, <1>3, <1>5 DEF ToSet

\* What is selected from a list: the elements that are in keep.
LEMMA SelectedIs ==
  ASSUME NEW S, NEW list \in Seq(S), NEW keep
  PROVE  /\ Selected(list, keep) \in Seq(S)
         /\ ToSet(Selected(list, keep)) = ToSet(list) \cap keep
<1> DEFINE N == Len(list)
           step(n, before) == IF list[n] \in keep THEN Append(before, list[n]) ELSE before
           first[n \in 0 .. N] == IF n = 0 THEN <<>>
                                  ELSE IF list[n] \in keep THEN Append(first[n - 1], list[n])
                                  ELSE first[n - 1]
           G == [n \in 1 .. N |-> [s \in Seq(S) |-> step(n, s)]]
<1>1. N \in Nat /\ \A n \in 1 .. N : list[n] \in S
  OBVIOUS
<1>2. \A n \in 1 .. N : \A s \in Seq(S) : step(n, s) \in Seq(S)
  BY <1>1, AppendProperties
<1>3. G \in [1 .. N -> [Seq(S) -> Seq(S)]]
  BY <1>2
<1>4. <<>> \in Seq(S)
  OBVIOUS
<1>5. PICK f \in [0 .. N -> Seq(S)] :
         f[0] = <<>> /\ \A n \in 1 .. N : f[n] = G[n][f[n - 1]]
  <2>1. PICK H, M, b, Q : H = G /\ M = N /\ b = <<>> /\ Q = Seq(S)
    OBVIOUS
  <2>2. M \in Nat /\ b \in Q /\ H \in [1 .. M -> [Q -> Q]]
    BY <1>1, <1>3, <1>4, <2>1
  <2>3. M \in Nat
    BY <2>2
  <2>4. b \in Q
    BY <2>2
  <2>5. H \in [1 .. M -> [Q -> Q]]
    BY <2>2
  <2>6. \E f : Iterates(f, M, Q, b, H)
    BY <2>3, <2>4, <2>5, Iterated, Zenon
  <2> QED BY <2>1, <2>6 DEF Iterates
<1>6. f = [n \in 0 .. N |-> IF n = 0 THEN <<>>
                            ELSE IF list[n] \in keep THEN Append(f[n - 1], list[n])
                            ELSE f[n - 1]]
  <2>1. ASSUME NEW n \in 0 .. N, n # 0 PROVE f[n] = step(n, f[n - 1])
    <3>1. n \in 1 .. N /\ f[n - 1] \in Seq(S)
      BY <1>1, <2>1
    <3> QED BY <1>5, <3>1
  <2> QED BY <1>5, <2>1
<1>7. first = [n \in 0 .. N |-> IF n = 0 THEN <<>>
                                ELSE IF list[n] \in keep THEN Append(first[n - 1], list[n])
                                ELSE first[n - 1]]
  <2> DEFINE Is(g) == g = [n \in 0 .. N |-> IF n = 0 THEN <<>>
                                ELSE IF list[n] \in keep THEN Append(g[n - 1], list[n])
                                ELSE g[n - 1]]
  <2>1. Is(f)
    BY <1>6
  <2>2. first = CHOOSE g : Is(g)
    OBVIOUS
  <2> HIDE DEF Is, first
  <2>3. Is(first)
    BY <2>1, <2>2
  <2> QED BY <2>3 DEF Is
<1> DEFINE Good(n) == /\ first[n] \in Seq(S)
                      /\ ToSet(first[n]) = {list[i] : i \in 1 .. n} \cap keep
           T == {n \in 0 .. N : ~Good(n)}
<1>8. Selected(list, keep) = first[N]
  BY DEF Selected
<1> HIDE DEF first
<1>9. T = {}
  <2> SUFFICES ASSUME T # {} PROVE FALSE
    OBVIOUS
  <2>1. PICK n \in T : \A y \in T : n <= y
    <3>1. T \in SUBSET Nat
      BY <1>1
    <3> QED BY <3>1, LeastOf
  <2>2. n \in 0 .. N /\ ~Good(n)
    OBVIOUS
  <2>3. CASE n = 0
    <3>1. first[0] = <<>>
      BY <1>1, <1>7
    <3>2. ToSet(first[0]) = {}
      BY <3>1 DEF ToSet
    <3>3. {list[i] : i \in 1 .. 0} = {}
      OBVIOUS
    <3> QED BY <1>4, <2>2, <2>3, <3>1, <3>2, <3>3
  <2>4. CASE n # 0
    <3>1. n - 1 \in 0 .. N /\ Good(n - 1) /\ n \in 1 .. N
      <4> HIDE DEF Good, N
      <4> QED BY <1>1, <2>1, <2>2, <2>4
    <3>2. first[n] = step(n, first[n - 1])
      BY <1>7, <2>2, <2>4
    <3>3. PICK s \in Seq(S) : s = first[n - 1]
      BY <3>1
    <3>4. {list[i] : i \in 1 .. n} = {list[i] : i \in 1 .. n - 1} \cup {list[n]}
      BY <3>1
    <3>5. ToSet(Append(s, list[n])) = ToSet(s) \cup {list[n]}
      BY <1>1, <3>1, AppendedIs
    <3>6. CASE list[n] \in keep
      <4>1. first[n] = Append(s, list[n])
        BY <3>2, <3>3, <3>6
      <4>2. Append(s, list[n]) \in Seq(S)
        BY <1>1, <3>1, AppendProperties
      <4> QED BY <2>2, <3>1, <3>3, <3>4, <3>5, <3>6, <4>1, <4>2
    <3>7. CASE list[n] \notin keep
      BY <2>2, <3>1, <3>2, <3>3, <3>4, <3>7
    <3> QED BY <3>6, <3>7
  <2> QED BY <2>3, <2>4
<1>10. Good(N)
  <2> HIDE DEF Good
  <2>1. N \in 0 .. N
    BY <1>1
  <2> QED BY <1>9, <2>1
<1>11. {list[i] : i \in 1 .. N} = ToSet(list)
  BY DEF ToSet
<1> QED BY <1>8, <1>10, <1>11

LEMMA TailIs ==
  ASSUME NEW S, NEW list \in Seq(S), list # <<>>
  PROVE  /\ Head(list) \in S /\ Tail(list) \in Seq(S)
         /\ Head(list) = list[1] /\ 1 \in DOMAIN list
         /\ \A i \in DOMAIN Tail(list) : i + 1 \in DOMAIN list /\ Tail(list)[i] = list[i + 1]
         /\ \A i \in DOMAIN list : i # 1 => i - 1 \in DOMAIN Tail(list)
         /\ ToSet(list) = {Head(list)} \cup ToSet(Tail(list))
<1>1. /\ Head(list) \in S /\ Tail(list) \in Seq(S)
      /\ Len(Tail(list)) = Len(list) - 1
      /\ \A i \in 1 .. Len(Tail(list)) : Tail(list)[i] = list[i + 1]
      /\ Head(list) = list[1] /\ Len(list) >= 1
  BY HeadTailProperties
<1>2. DOMAIN list = 1 .. Len(list) /\ DOMAIN Tail(list) = 1 .. Len(list) - 1 /\ Len(list) \in Nat
  BY <1>1
<1>3. \A i \in DOMAIN Tail(list) : i + 1 \in DOMAIN list /\ Tail(list)[i] = list[i + 1]
  BY <1>1, <1>2
<1>4. \A i \in DOMAIN list : i # 1 => i - 1 \in DOMAIN Tail(list)
  BY <1>2
<1>5. ASSUME NEW x \in ToSet(list) PROVE x = Head(list) \/ x \in ToSet(Tail(list))
  <2>1. PICK i \in DOMAIN list : x = list[i]
    BY DEF ToSet
  <2>2. CASE i = 1
    BY <1>1, <2>1, <2>2
  <2>3. CASE i # 1
    <3>1. i - 1 \in DOMAIN Tail(list) /\ Tail(list)[i - 1] = list[i - 1 + 1] /\ i - 1 + 1 = i
      BY <1>2, <1>3, <1>4, <2>3
    <3> QED BY <2>1, <3>1 DEF ToSet
  <2> QED BY <2>2, <2>3
<1>6. Head(list) \in ToSet(list) /\ ToSet(Tail(list)) \subseteq ToSet(list)
  BY <1>1, <1>2, <1>3 DEF ToSet
<1> QED BY <1>1, <1>2, <1>3, <1>4, <1>5, <1>6

LEMMA ElementsAre ==
  ASSUME NEW S, NEW list \in Seq(S)
  PROVE  ToSet(list) \subseteq S
BY DEF ToSet

-----------------------------------------------------------------------------
(* The files *)

\* What a merge makes of our file: all of its lines and perhaps more.
LEMMA MergedIs ==
  ASSUME NEW lines \in Seq(Line), ours \in Seq(Line)
  PROVE  merge_lines(lines) \in Seq(Line) /\ ToSet(ours) \subseteq ToSet(merge_lines(lines))
<1> DEFINE N == Len(lines)
           step(n, held) == IF Accepts(held, lines[n]) THEN Append(held, lines[n]) ELSE held
           first[n \in 0 .. N] ==
             IF n = 0 THEN ours
             ELSE IF Accepts(first[n - 1], lines[n]) THEN Append(first[n - 1], lines[n])
             ELSE first[n - 1]
           G == [n \in 1 .. N |-> [s \in Seq(Line) |-> step(n, s)]]
<1>1. N \in Nat /\ \A n \in 1 .. N : lines[n] \in Line
  OBVIOUS
<1>2. \A n \in 1 .. N : \A s \in Seq(Line) : step(n, s) \in Seq(Line)
  BY <1>1, AppendProperties
<1>3. G \in [1 .. N -> [Seq(Line) -> Seq(Line)]]
  BY <1>2
<1>4. PICK f \in [0 .. N -> Seq(Line)] :
         f[0] = ours /\ \A n \in 1 .. N : f[n] = G[n][f[n - 1]]
  <2>1. PICK H, M, b, Q : H = G /\ M = N /\ b = ours /\ Q = Seq(Line)
    OBVIOUS
  <2>2. M \in Nat
    BY <1>1, <2>1
  <2>3. b \in Q
    BY <2>1
  <2>4. H \in [1 .. M -> [Q -> Q]]
    BY <1>3, <2>1
  <2>5. \E f : Iterates(f, M, Q, b, H)
    BY <2>2, <2>3, <2>4, Iterated, Zenon
  <2> QED BY <2>1, <2>5 DEF Iterates
<1>5. f = [n \in 0 .. N |->
             IF n = 0 THEN ours
             ELSE IF Accepts(f[n - 1], lines[n]) THEN Append(f[n - 1], lines[n])
             ELSE f[n - 1]]
  <2>1. ASSUME NEW n \in 0 .. N, n # 0 PROVE f[n] = step(n, f[n - 1])
    <3>1. n \in 1 .. N /\ f[n - 1] \in Seq(Line)
      BY <1>1, <2>1
    <3> QED BY <1>4, <3>1
  <2> QED BY <1>4, <2>1
<1>6. first = [n \in 0 .. N |->
                 IF n = 0 THEN ours
                 ELSE IF Accepts(first[n - 1], lines[n]) THEN Append(first[n - 1], lines[n])
                 ELSE first[n - 1]]
  <2> DEFINE Is(g) == g = [n \in 0 .. N |->
                             IF n = 0 THEN ours
                             ELSE IF Accepts(g[n - 1], lines[n]) THEN Append(g[n - 1], lines[n])
                             ELSE g[n - 1]]
  <2>1. Is(f)
    BY <1>5
  <2>2. first = CHOOSE g : Is(g)
    OBVIOUS
  <2> HIDE DEF Is, first
  <2>3. Is(first)
    BY <2>1, <2>2
  <2> QED BY <2>3 DEF Is
<1> DEFINE Good(n) == first[n] \in Seq(Line) /\ ToSet(ours) \subseteq ToSet(first[n])
           T == {n \in 0 .. N : ~Good(n)}
<1>7. merge_lines(lines) = first[N]
  BY DEF merge_lines
<1> HIDE DEF first
<1>8. T = {}
  <2> SUFFICES ASSUME T # {} PROVE FALSE
    OBVIOUS
  <2>1. PICK n \in T : \A y \in T : n <= y
    <3>1. T \in SUBSET Nat
      BY <1>1
    <3> QED BY <3>1, LeastOf
  <2>2. n \in 0 .. N /\ ~Good(n)
    OBVIOUS
  <2>3. CASE n = 0
    <3>1. first[0] = ours
      BY <1>1, <1>6
    <3> QED BY <2>2, <2>3, <3>1
  <2>4. CASE n # 0
    <3>1. n - 1 \in 0 .. N /\ Good(n - 1) /\ n \in 1 .. N
      <4> HIDE DEF Good, N
      <4> QED BY <1>1, <2>1, <2>2, <2>4
    <3>2. first[n] = step(n, first[n - 1])
      BY <1>6, <2>2, <2>4
    <3>3. PICK s \in Seq(Line) : s = first[n - 1]
      BY <3>1
    <3>4. PICK l \in Line : l = lines[n]
      BY <1>1, <3>1
    <3>5. Append(s, l) \in Seq(Line) /\ ToSet(Append(s, l)) = ToSet(s) \cup {l}
      BY AppendedIs
    <3>6. first[n] = s \/ first[n] = Append(s, l)
      BY <3>2, <3>3, <3>4
    <3> QED BY <2>2, <3>1, <3>3, <3>5, <3>6
  <2> QED BY <2>3, <2>4
<1>9. Good(N)
  <2> HIDE DEF Good
  <2>1. N \in 0 .. N
    BY <1>1
  <2> QED BY <1>8, <2>1
<1> QED BY <1>7, <1>9

-----------------------------------------------------------------------------
(* The invariant *)

\* The places of a connect that waits for an answer.
Asks(c) == conn[c].at \in {"asking", "round"}

\* A question that its connect still waits on, answered or not.
OpenIn(id, numbers, connects) ==
    id.n = numbers[id.by] /\ connects[id.by].at \in {"asking", "round"}
Open(id) == OpenIn(id, asked, conn)

Steady == \A c \in Connects :
    /\ conn[c].at # "idle" => conn[c].path # <<>>
    /\ conn[c].at \in {"asking", "learning", "replacing"} => conn[c].key \in Keys
    /\ rewrite.by = c => conn[c].at = "replacing"
    /\ answer[c] # None => Asks(c)

\* The write lock: who rewrites the file holds what is in it.
Locks ==
    /\ rewrite.by = None => rewrite = NoRewrite
    /\ rewrite.by # None => rewrite.gone = ToSet(ours) \ ToSet(rewrite.kept)

\* No question has a number that its connect has not come to.
Numbers ==
    /\ \A e \in ToSet(mail) \cup ToSet(queue) : e.id.n <= asked[e.id.by]
    /\ \A r \in reply : r.id.n <= asked[r.id.by]

Over(id) == \E i \in DOMAIN mail : mail[i].is = "cancel" /\ mail[i].id = id

\* A question is in one place: in the mail, in the queue, or answered.
Once ==
    /\ \A i, j \in DOMAIN mail :
          mail[i].is # "cancel" /\ mail[j].is # "cancel" /\ i # j => mail[i].id # mail[j].id
    /\ \A i \in DOMAIN mail : mail[i].is # "cancel" =>
          /\ \A e \in ToSet(queue) : e.id # mail[i].id
          /\ \A r \in reply : r.id # mail[i].id
    /\ \A e \in ToSet(queue) : \A r \in reply : e.id # r.id

\* Each question that waits is in such a place, and each that does not has a
\* cancel behind it.
Tracked ==
    /\ \A id \in waiting :
          /\ Open(id)
          /\ \/ \E i \in DOMAIN mail : mail[i].is # "cancel" /\ mail[i].id = id
             \/ \E e \in ToSet(queue) : e.id = id
             \/ \E r \in reply : r.id = id
    /\ \A i \in DOMAIN mail : mail[i].is = "cancel" => ~Open(mail[i].id)
    /\ \A i \in DOMAIN mail : mail[i].is # "cancel" =>
          \/ mail[i].id \in waiting
          \/ \E j \in DOMAIN mail : j > i /\ mail[j].is = "cancel" /\ mail[j].id = mail[i].id
    /\ \A e \in ToSet(queue) : e.id \in waiting \/ Over(e.id)

Dialogs == Numbers /\ Once /\ Tracked

Said(c) == <<c, Host(c), conn[c].key>> \in consent

\* A yes is to the key that its connect is asking about.
Honest ==
    /\ \A e \in ToSet(mail) \cup ToSet(queue) :
          e.is = "host key" /\ Open(e.id) /\ conn[e.id.by].at = "asking" =>
             e.host = Host(e.id.by) /\ e.key = conn[e.id.by].key
    /\ \A r \in reply :
          Open(r.id) /\ conn[r.id.by].at = "asking" /\ r.decision \in Yes => Said(r.id.by)
    /\ \A c \in Connects : conn[c].at = "asking" /\ answer[c] \in Yes => Said(c)

-----------------------------------------------------------------------------
(* Types *)

\* What a step does to its connect.
Turns(c) == \E x \in Conns : conn' = [conn EXCEPT ![c] = x]
Others(c) == \A d \in Connects : d # c => conn'[d] = conn[d]

LEMMA TurnsTyped ==
  ASSUME TypeOK, NEW c \in Connects, Turns(c)
  PROVE  conn' \in [Connects -> Conns]
BY DEF TypeOK, Turns

LEMMA NoConnectTyped == NoConnect \in Conns
<1>1. <<>> \in Seq(Hosts)
  OBVIOUS
<1> QED BY <1>1 DEF NoConnect, Conns, Places, Statuses

LEMMA EndsTurns ==
  ASSUME TypeOK, NEW c \in Connects, Ends(c)
  PROVE  Turns(c) /\ conn'[c] = NoConnect /\ Others(c)
BY NoConnectTyped DEF TypeOK, Ends, Turns, Others

Moved(c, at) == [conn[c] EXCEPT !.at = at]

LEMMA GoesTurns ==
  ASSUME TypeOK, NEW c \in Connects, NEW at \in Places, Goes(c, at)
  PROVE  Turns(c) /\ conn'[c] = Moved(c, at) /\ Others(c)
<1>1. [conn[c] EXCEPT !.at = at] \in Conns
  <2>1. PICK x \in Conns : x = conn[c]
    BY DEF TypeOK
  <2>2. [x EXCEPT !.at = at] \in Conns
    BY DEF Conns
  <2> QED BY <2>1, <2>2
<1>2. conn' = [conn EXCEPT ![c] = [conn[c] EXCEPT !.at = at]]
  BY DEF Goes
<1> QED BY <1>1, <1>2 DEF TypeOK, Turns, Others, Moved

LEMMA MovedIs ==
  ASSUME TypeOK, NEW c \in Connects, NEW at \in Places
  PROVE  /\ Moved(c, at) \in Conns /\ Moved(c, at).at = at
         /\ Moved(c, at).path = conn[c].path /\ Moved(c, at).key = conn[c].key
         /\ Moved(c, at).status = conn[c].status /\ Moved(c, at).policy = conn[c].policy
<1>1. PICK x \in Conns : x = conn[c]
  BY DEF TypeOK
<1>2. PICK y : y = [x EXCEPT !.at = at]
  OBVIOUS
<1>3. /\ y \in Conns /\ y.at = at /\ y.path = x.path /\ y.key = x.key
      /\ y.status = x.status /\ y.policy = x.policy
  BY <1>2 DEF Conns
<1> QED BY <1>1, <1>2, <1>3 DEF Moved

LEMMA HostTyped ==
  ASSUME TypeOK, NEW c \in Connects, conn[c].path # <<>>
  PROVE  Host(c) \in Hosts /\ Tail(conn[c].path) \in Seq(Hosts)
<1>1. conn[c].path \in Seq(Hosts)
  BY DEF TypeOK, Conns
<1> QED BY <1>1, HeadTailProperties DEF Host

LEMMA StatusTyped ==
  ASSUME NEW h \in Hosts, NEW k \in Keys
  PROVE  check_host(h, k) \in Statuses
BY DEF check_host, Statuses

LEMMA NowTyped ==
  ASSUME TypeOK, NEW c \in Connects
  PROVE  Now(c) \in Ids /\ Id(c, asked[c] + 1) \in Ids
BY DEF TypeOK, Now, Id, Ids

LEMMA AskCounts ==
  ASSUME TypeOK, NEW c \in Connects, NEW kind, NEW hh, NEW k, NEW status,
         Ask(c, kind, hh, k, status)
  PROVE  asked' \in [Connects -> Nat] /\ asked'[c] = asked[c] + 1
<1>1. asked \in [Connects -> Nat]
  BY DEF TypeOK
<1>2. asked' = [asked EXCEPT ![c] = @ + 1]
  BY DEF Ask
<1> QED BY <1>1, <1>2

LEMMA AskTyped ==
  ASSUME TypeOK, NEW c \in Connects, NEW kind \in {"host key", "auth"}, NEW hh \in Hosts,
         NEW k, NEW status \in Statuses, Ask(c, kind, hh, k, status),
         IF kind = "auth" THEN k = None ELSE k \in Keys
  PROVE  /\ asked' \in [Connects -> Nat] /\ waiting' \subseteq Ids
         /\ answer' \in [Connects -> Decisions \cup {None}]
         /\ mail' \in Seq(Questions \cup Cancels) /\ queue' \in Seq(Questions)
         /\ reply' \subseteq [id : Ids, decision : Decisions]
         /\ consent' \subseteq Connects \X Hosts \X Keys
<1> DEFINE id == Id(c, asked[c] + 1)
           q == [is |-> kind, id |-> id, host |-> hh, key |-> k, status |-> status]
<1>1. q \in Questions
  BY NowTyped DEF Questions
<1>2. mail' \in Seq(Questions \cup Cancels)
  <2>1. mail' = Append(mail, q) /\ mail \in Seq(Questions \cup Cancels)
    BY DEF Ask, TypeOK
  <2> HIDE DEF q
  <2> QED BY <1>1, <2>1, AppendProperties
<1>3. asked' \in [Connects -> Nat] /\ waiting' \subseteq Ids
  <2>1. id \in Ids
    BY NowTyped
  <2> HIDE DEF q
  <2>2. asked' = [asked EXCEPT ![c] = @ + 1] /\ waiting' = waiting \cup {id}
    BY DEF Ask
  <2> HIDE DEF id
  <2>3. waiting' \subseteq Ids
    BY <2>1, <2>2 DEF TypeOK
  <2>4. asked' \in [Connects -> Nat]
    BY AskCounts
  <2> QED BY <2>3, <2>4
<1>4. answer' = answer /\ queue' = queue /\ reply' = reply /\ consent' = consent
  BY DEF Ask
<1> QED BY <1>2, <1>3, <1>4 DEF TypeOK

LEMMA ResumeTyped ==
  ASSUME TypeOK, NEW c \in Connects, Resume(c)
  PROVE  /\ asked' \in [Connects -> Nat] /\ waiting' \subseteq Ids
         /\ answer' \in [Connects -> Decisions \cup {None}]
         /\ mail' \in Seq(Questions \cup Cancels) /\ queue' \in Seq(Questions)
         /\ reply' \subseteq [id : Ids, decision : Decisions]
         /\ consent' \subseteq Connects \X Hosts \X Keys
<1> DEFINE q == [is |-> "cancel", id |-> Now(c)]
<1>1. q \in Cancels
  BY NowTyped DEF Cancels
<1>2. mail' \in Seq(Questions \cup Cancels)
  <2>1. mail' = Append(mail, q) /\ mail \in Seq(Questions \cup Cancels)
    BY DEF Resume, TypeOK
  <2> HIDE DEF q
  <2> QED BY <1>1, <2>1, AppendProperties
<1> QED BY <1>2 DEF Resume, TypeOK

LEMMA KeptTyped ==
  ASSUME TypeOK, NEW h \in Hosts, NEW types
  PROVE  /\ Kept(h, types) \in Seq(Line) /\ ToSet(Kept(h, types)) \subseteq ToSet(ours)
         /\ ToSet(ours) \subseteq Line
<1>1. ours \in Seq(Line)
  BY DEF TypeOK
<1>2. ToSet(ours) \subseteq Line
  BY <1>1, ElementsAre
<1> QED BY <1>1, <1>2, SelectedIs DEF Kept

LEMMA LearnedIs ==
  ASSUME TypeOK, NEW hh \in Hosts, NEW k \in Keys
  PROVE  /\ Learned(hh, k) \in Seq(Line) /\ ToSet(ours) \subseteq ToSet(Learned(hh, k))
         /\ \E l \in ToSet(Learned(hh, k)) : l.mark = "none" /\ hh \in l.hosts /\ k = l.key
<1>1. ours \in Seq(Line) /\ LineFor(hh, k) \in Line
  BY DEF TypeOK, LineFor, Line
<1>2. ToSet(Matching(ours, hh)) = {l \in ToSet(ours) : hh \in l.hosts}
  BY <1>1, SelectedIs DEF Matching
<1>3. CASE \E l \in ToSet(Matching(ours, hh)) : l.mark = "none" /\ l.key = k
  BY <1>1, <1>2, <1>3 DEF Learned
<1>4. CASE ~\E l \in ToSet(Matching(ours, hh)) : l.mark = "none" /\ l.key = k
  <2>1. Learned(hh, k) = Append(ours, LineFor(hh, k))
    BY <1>4 DEF Learned
  <2>2. /\ Learned(hh, k) \in Seq(Line)
        /\ ToSet(Learned(hh, k)) = ToSet(ours) \cup {LineFor(hh, k)}
    BY <1>1, <2>1, AppendedIs
  <2>3. LineFor(hh, k).mark = "none" /\ hh \in LineFor(hh, k).hosts /\ k = LineFor(hh, k).key
    BY DEF LineFor
  <2> QED BY <2>2, <2>3
<1> QED BY <1>3, <1>4

Shaped == TypeOK /\ Steady

Told(c, k, status, at) ==
    conn' = [[conn EXCEPT ![c].key = k, ![c].status = status] EXCEPT ![c].at = at]

NowTold(c, k, status, at) == [conn[c] EXCEPT !.key = k, !.status = status, !.at = at]

LEMMA ToldTurns ==
  ASSUME TypeOK, NEW c \in Connects, NEW k \in Keys, NEW status \in Statuses,
         NEW at \in Places, Told(c, k, status, at)
  PROVE  /\ Turns(c) /\ Others(c)
         /\ conn'[c] = NowTold(c, k, status, at)
<1>1. PICK x \in Conns : x = conn[c]
  BY DEF TypeOK
<1>2. PICK y : y = [x EXCEPT !.key = k, !.status = status, !.at = at]
  OBVIOUS
<1>3. y \in Conns
  BY <1>2 DEF Conns
<1>4. conn' = [conn EXCEPT ![c] = y]
  BY <1>1, <1>2 DEF TypeOK, Told
<1> QED BY <1>1, <1>2, <1>3, <1>4 DEF TypeOK, Turns, Others, NowTold

LEMMA NowToldIs ==
  ASSUME TypeOK, NEW c \in Connects, NEW k \in Keys, NEW status \in Statuses, NEW at \in Places
  PROVE  /\ NowTold(c, k, status, at).at = at /\ NowTold(c, k, status, at).key = k
         /\ NowTold(c, k, status, at).status = status
         /\ NowTold(c, k, status, at).path = conn[c].path
         /\ NowTold(c, k, status, at).policy = conn[c].policy
<1>1. PICK x \in Conns : x = conn[c]
  BY DEF TypeOK
<1>2. PICK y : y = [x EXCEPT !.key = k, !.status = status, !.at = at]
  OBVIOUS
<1>3. /\ y.at = at /\ y.path = x.path /\ y.key = k
      /\ y.status = status /\ y.policy = x.policy
  BY <1>2 DEF Conns
<1> QED BY <1>1, <1>2, <1>3 DEF NowTold

\* What comes of an offered key: a login, a line to write, a question, or the end.
LEMMA OfferedIs ==
  ASSUME Shaped, NEW c \in Connects, NEW k \in Keys, Offered(c, k)
  PROVE  /\ Turns(c) /\ Others(c) /\ conn[c].at = "dialing" /\ Host(c) \in Hosts
         /\ UNCHANGED <<files, edits>>
         /\ \/ Ends(c) /\ UNCHANGED prompts
            \/ \E status \in Statuses, at \in {"auth", "learning", "asking"} :
                  /\ conn'[c] = NowTold(c, k, status, at)
                  /\ at = "asking" => Ask(c, "host key", Host(c), k, status)
                  /\ at # "asking" =>
                        /\ UNCHANGED prompts
                        /\ \/ status \in {"match", "mirror"}
                           \/ status = "unknown" /\ conn[c].policy = "accept-new"
<1>1. /\ conn[c].at = "dialing" /\ Host(c) \in Hosts /\ UNCHANGED <<files, edits>> /\ TypeOK
  BY HostTyped DEF Shaped, Steady, Offered
<1>2. PICK status \in Statuses : status = check_host(Host(c), k)
  BY <1>1, StatusTyped
<1>3. \/ Ends(c) /\ UNCHANGED prompts
      \/ Told(c, k, status, "auth") /\ UNCHANGED prompts /\ status = "match"
      \/ /\ Told(c, k, status, "learning") /\ UNCHANGED prompts
         /\ status = "mirror" \/ (status = "unknown" /\ conn[c].policy = "accept-new")
      \/ Told(c, k, status, "asking") /\ Ask(c, "host key", Host(c), k, status)
  BY <1>2 DEF Offered, Told
<1>4. CASE Ends(c) /\ UNCHANGED prompts
  BY <1>1, <1>4, EndsTurns
<1>5. ASSUME NEW at \in {"auth", "learning", "asking"}, Told(c, k, status, at)
      PROVE  /\ Turns(c) /\ Others(c)
             /\ conn'[c] = NowTold(c, k, status, at)
  <2>1. at \in Places
    BY DEF Places
  <2>2. status \in Statuses /\ Told(c, k, status, at)
    BY <1>2, <1>5
  <2>3. TypeOK
    BY <1>1
  <2> QED BY <1>2, <2>1, <2>2, <2>3, ToldTurns
<1>6. CASE Told(c, k, status, "auth") /\ UNCHANGED prompts /\ status = "match"
  <2> QED BY <1>1, <1>5, <1>6
<1>7. CASE /\ Told(c, k, status, "learning") /\ UNCHANGED prompts
           /\ status = "mirror" \/ (status = "unknown" /\ conn[c].policy = "accept-new")
  <2> QED BY <1>1, <1>5, <1>7
<1>8. CASE Told(c, k, status, "asking") /\ Ask(c, "host key", Host(c), k, status)
  <2> QED BY <1>1, <1>5, <1>8
<1> QED BY <1>3, <1>4, <1>6, <1>7, <1>8

LEMMA StartIs ==
  ASSUME TypeOK, NEW c \in Connects, Start(c)
  PROVE  /\ Turns(c) /\ Others(c) /\ conn[c].at = "idle"
         /\ conn'[c].at = "dialing" /\ conn'[c].path # <<>>
         /\ UNCHANGED <<files, asked, waiting, answer, mail, queue, reply, edits>>
         /\ consent' = {yes \in consent : yes[1] # c}
<1>1. PICK r \in Requests[c] :
        conn' = [conn EXCEPT ![c] =
                    [NoConnect EXCEPT !.at = "dialing", !.path = r.path,
                                      !.policy = r.policy, !.interactive = r.interactive]]
  BY DEF Start
<1>2. /\ r.path \in Seq(Hosts) \ {<<>>} /\ r.interactive \in BOOLEAN
      /\ r.policy \in {"ask", "accept-new", "strict"}
  BY TrustAssumption DEF TrustAssumption
<1> DEFINE x == [NoConnect EXCEPT !.at = "dialing", !.path = r.path,
                                  !.policy = r.policy, !.interactive = r.interactive]
<1>3. x \in Conns /\ x.at = "dialing" /\ x.path = r.path
  BY <1>2 DEF NoConnect, Conns, Places, Statuses
<1> HIDE DEF x
<1>4. conn' = [conn EXCEPT ![c] = x]
  BY <1>1 DEF x
<1>5. Turns(c) /\ Others(c) /\ conn'[c] = x
  BY <1>3, <1>4 DEF TypeOK, Turns, Others
<1> QED BY <1>2, <1>3, <1>5 DEF Start

LEMMA AuthenticatedIs ==
  ASSUME Shaped, NEW c \in Connects, Authenticated(c)
  PROVE  /\ Turns(c) /\ Others(c) /\ conn[c].at = "auth" /\ UNCHANGED <<files, prompts, edits>>
         /\ conn'[c].at \in {"idle", "dialing"}
         /\ conn'[c].at = "dialing" => conn'[c].path # <<>>
<1>1. TypeOK /\ conn[c].at = "auth" /\ conn[c].path # <<>> /\ UNCHANGED <<files, prompts, edits>>
  BY DEF Shaped, Steady, Authenticated
<1>2. CASE Len(conn[c].path) = 1
  BY <1>1, <1>2, EndsTurns DEF Authenticated, NoConnect
<1>3. CASE Len(conn[c].path) # 1
  <2>1. PICK y \in Conns : y = conn[c]
    BY <1>1 DEF TypeOK
  <2>2. PICK p \in Seq(Hosts) : p = y.path
    BY DEF Conns
  <2>3. Tail(p) \in Seq(Hosts) /\ Tail(p) # <<>>
    <3>1. p # <<>> /\ Len(p) # 1
      BY <1>1, <1>3, <2>1, <2>2
    <3>2. Tail(p) \in Seq(Hosts) /\ Len(Tail(p)) = Len(p) - 1 /\ Len(p) \in Nat
      BY <3>1, HeadTailProperties
    <3>3. Len(Tail(p)) # 0
      BY <3>1, <3>2
    <3> QED BY <3>2, <3>3, EmptySeq
  <2> DEFINE x == [y EXCEPT !.at = "dialing", !.path = Tail(p), !.key = None,
                            !.status = "none", !.rounds = 0]
  <2>4. conn' = [conn EXCEPT ![c] = x]
    BY <1>1, <1>3, <2>1, <2>2 DEF Authenticated, TypeOK
  <2>5. x \in Conns /\ x.at = "dialing" /\ x.path = Tail(p)
    BY <2>3 DEF Conns, Places, Statuses
  <2> HIDE DEF x
  <2> QED BY <1>1, <2>3, <2>4, <2>5 DEF TypeOK, Turns, Others
<1> QED BY <1>2, <1>3

LEMMA InfoRequestIs ==
  ASSUME Shaped, NEW c \in Connects, InfoRequest(c)
  PROVE  /\ Turns(c) /\ Others(c) /\ conn[c].at = "auth" /\ Host(c) \in Hosts
         /\ UNCHANGED <<files, edits>> /\ Ask(c, "auth", Host(c), None, "auth")
         /\ conn'[c].at = "round" /\ conn'[c].path = conn[c].path /\ conn'[c].key = conn[c].key
         /\ conn'[c].status = conn[c].status /\ conn'[c].policy = conn[c].policy
<1>1. /\ TypeOK /\ conn[c].at = "auth" /\ Host(c) \in Hosts /\ UNCHANGED <<files, edits>>
      /\ Ask(c, "auth", Host(c), None, "auth")
  BY HostTyped DEF Shaped, Steady, InfoRequest
<1>2. PICK y \in Conns : y = conn[c]
  BY <1>1 DEF TypeOK
<1>3. PICK n \in Nat : n = y.rounds
  BY DEF Conns
<1>6. PICK m \in Nat : m = n + 1
  OBVIOUS
<1> DEFINE x == [y EXCEPT !.at = "round", !.rounds = m]
<1>4. conn' = [conn EXCEPT ![c] = x]
  BY <1>1, <1>2, <1>3, <1>6 DEF InfoRequest, TypeOK
<1>5. x \in Conns /\ x.at = "round" /\ x.path = y.path /\ x.key = y.key
      /\ x.status = y.status /\ x.policy = y.policy
  BY <1>3 DEF Conns, Places
<1> HIDE DEF x
<1> QED BY <1>1, <1>2, <1>4, <1>5 DEF TypeOK, Turns, Others

-----------------------------------------------------------------------------
(* Every step keeps the types *)

LEMMA SteadyKept ==
  ASSUME Shaped, NEW c \in Connects, Others(c),
         conn'[c].at # "idle" => conn'[c].path # <<>>,
         conn'[c].at \in {"asking", "learning", "replacing"} => conn'[c].key \in Keys,
         rewrite'.by = c => conn'[c].at = "replacing",
         \A d \in Connects : d # c /\ rewrite'.by = d => rewrite.by = d,
         \A d \in Connects : d # c /\ answer'[d] # None => answer[d] # None,
         answer'[c] # None => conn'[c].at \in {"asking", "round"}
  PROVE  Steady'
<1> SUFFICES ASSUME NEW d \in Connects
             PROVE  /\ conn'[d].at # "idle" => conn'[d].path # <<>>
                    /\ conn'[d].at \in {"asking", "learning", "replacing"} => conn'[d].key \in Keys
                    /\ rewrite'.by = d => conn'[d].at = "replacing"
                    /\ answer'[d] # None => conn'[d].at \in {"asking", "round"}
  BY DEF Steady, Asks
<1>1. CASE d = c
  BY <1>1
<1>2. CASE d # c
  <2>1. conn'[d] = conn[d] /\ (rewrite'.by = d => rewrite.by = d)
        /\ (answer'[d] # None => answer[d] # None)
    BY <1>2 DEF Others
  <2> QED BY <2>1 DEF Shaped, Steady, Asks
<1> QED BY <1>1, <1>2

\* What the steps of a connect that waits for nothing have in common.
LEMMA QuietShaped ==
  ASSUME Shaped, NEW c \in Connects, Turns(c), Others(c), ~Asks(c),
         conn'[c].at \notin {"asking", "round"},
         conn'[c].at # "idle" => conn'[c].path # <<>>,
         conn'[c].at \in {"learning", "replacing"} => conn'[c].key \in Keys,
         UNCHANGED <<asked, waiting, answer, mail, queue, reply>>,
         UNCHANGED <<theirs, rewrite>>,
         ours' \in Seq(Line), trusted' \subseteq Hosts \X Keys, edits' \in Nat,
         consent' \subseteq consent,
         rewrite.by = c => conn'[c].at = "replacing"
  PROVE  Shaped'
<1>1. TypeOK'
  BY TurnsTyped DEF Shaped, TypeOK
<1>2. answer[c] = None
  BY DEF Shaped, Steady, Asks
<1>3. Steady'
  BY <1>2, SteadyKept
<1> QED BY <1>1, <1>3 DEF Shaped

LEMMA StartShaped ==
  ASSUME Shaped, NEW c \in Connects, Start(c)
  PROVE  Shaped'
<1>1. /\ Turns(c) /\ Others(c) /\ conn[c].at = "idle"
      /\ conn'[c].at = "dialing" /\ conn'[c].path # <<>>
      /\ UNCHANGED <<files, asked, waiting, answer, mail, queue, reply, edits>>
      /\ consent' = {yes \in consent : yes[1] # c}
  BY StartIs DEF Shaped
<1>2. TypeOK'
  BY <1>1, TurnsTyped DEF Shaped, TypeOK, files
<1>3. rewrite.by # c /\ answer[c] = None
  BY <1>1 DEF Shaped, Steady, Asks
<1>4. Steady'
  BY <1>1, <1>3, SteadyKept DEF files
<1> QED BY <1>2, <1>4 DEF Shaped

LEMMA EndShaped ==
  ASSUME Shaped, NEW c \in Connects, Ends(c), UNCHANGED <<files, prompts, edits>>,
         ~Asks(c), conn[c].at # "replacing"
  PROVE  Shaped'
<1>1. Turns(c) /\ Others(c) /\ conn'[c].at = "idle"
  BY EndsTurns DEF Shaped, NoConnect
<1>2. TypeOK'
  BY <1>1, TurnsTyped DEF Shaped, TypeOK, files, prompts
<1>3. rewrite.by # c /\ answer[c] = None
  BY DEF Shaped, Steady
<1>4. Steady'
  BY <1>1, <1>3, SteadyKept DEF files, prompts
<1> QED BY <1>2, <1>4 DEF Shaped

LEMMA OfferedShaped ==
  ASSUME Shaped, NEW c \in Connects, NEW k \in Keys, Offered(c, k)
  PROVE  Shaped'
<1>1. /\ TypeOK /\ Turns(c) /\ Others(c) /\ conn[c].at = "dialing" /\ Host(c) \in Hosts
      /\ UNCHANGED <<files, edits>>
      /\ rewrite.by # c /\ answer[c] = None /\ conn[c].path # <<>>
  BY OfferedIs DEF Shaped, Steady, Asks
<1>2. CASE Ends(c) /\ UNCHANGED prompts
  BY <1>1, <1>2, EndShaped DEF Asks
<1>3. ASSUME NEW status \in Statuses, NEW at \in {"auth", "learning", "asking"},
             conn'[c] = NowTold(c, k, status, at),
             at = "asking" => Ask(c, "host key", Host(c), k, status),
             at # "asking" => UNCHANGED prompts
      PROVE  Shaped'
  <2>1. conn'[c].at = at /\ conn'[c].key = k /\ conn'[c].path = conn[c].path
    <3>1. at \in Places
      BY DEF Places
    <3>2. TypeOK
      BY <1>1
    <3>3. /\ NowTold(c, k, status, at).at = at /\ NowTold(c, k, status, at).key = k
          /\ NowTold(c, k, status, at).path = conn[c].path
      BY <3>1, <3>2, NowToldIs
    <3> QED BY <1>3, <3>3
  <2>2. TypeOK' /\ answer' = answer
    <3>1. CASE at = "asking"
      <4>1. Ask(c, "host key", Host(c), k, status)
        BY <1>3, <3>1
      <4>2. /\ "host key" \in {"host key", "auth"}
            /\ IF "host key" = "auth" THEN k = None ELSE k \in Keys
        OBVIOUS
      <4>3. /\ asked' \in [Connects -> Nat] /\ waiting' \subseteq Ids
            /\ answer' \in [Connects -> Decisions \cup {None}]
            /\ mail' \in Seq(Questions \cup Cancels) /\ queue' \in Seq(Questions)
            /\ reply' \subseteq [id : Ids, decision : Decisions]
            /\ consent' \subseteq Connects \X Hosts \X Keys
        BY <1>1, <4>1, <4>2, AskTyped
      <4> QED BY <1>1, <4>1, <4>3, TurnsTyped DEF TypeOK, files, Ask
    <3>2. CASE at # "asking"
      BY <1>1, <1>3, <3>2, TurnsTyped DEF TypeOK, files, prompts
    <3> QED BY <3>1, <3>2
  <2>3. Steady'
    BY <1>1, <2>1, <2>2, SteadyKept DEF files
  <2> QED BY <2>2, <2>3 DEF Shaped
<1>4. \/ Ends(c) /\ UNCHANGED prompts
      \/ \E status \in Statuses, at \in {"auth", "learning", "asking"} :
            /\ conn'[c] = NowTold(c, k, status, at)
            /\ at = "asking" => Ask(c, "host key", Host(c), k, status)
            /\ at # "asking" => UNCHANGED prompts
  BY OfferedIs
<1> QED BY <1>2, <1>3, <1>4

LEMMA AskShaped ==
  ASSUME Shaped, NEW c \in Connects, InfoRequest(c)
  PROVE  Shaped'
<1>1. /\ TypeOK /\ Turns(c) /\ Others(c) /\ conn[c].at = "auth" /\ Host(c) \in Hosts
      /\ UNCHANGED <<files, edits>> /\ Ask(c, "auth", Host(c), None, "auth")
      /\ conn'[c].at = "round" /\ conn'[c].path = conn[c].path
  BY InfoRequestIs DEF Shaped
<1>2. rewrite.by # c /\ answer[c] = None /\ conn[c].path # <<>>
  BY <1>1 DEF Shaped, Steady, Asks
<1>3. /\ "auth" \in {"host key", "auth"} /\ "auth" \in Statuses
      /\ IF "auth" = "auth" THEN None = None ELSE None \in Keys
  BY DEF Statuses
<1>4. /\ asked' \in [Connects -> Nat] /\ waiting' \subseteq Ids
      /\ answer' \in [Connects -> Decisions \cup {None}]
      /\ mail' \in Seq(Questions \cup Cancels) /\ queue' \in Seq(Questions)
      /\ reply' \subseteq [id : Ids, decision : Decisions]
      /\ consent' \subseteq Connects \X Hosts \X Keys
  BY <1>1, <1>3, AskTyped
<1>5. TypeOK'
  BY <1>1, <1>4, TurnsTyped DEF TypeOK, files
<1>6. Steady'
  BY <1>1, <1>2, SteadyKept DEF files, Ask
<1> QED BY <1>5, <1>6 DEF Shaped

LEMMA ResumeShaped ==
  ASSUME Shaped, NEW c \in Connects, Asks(c), Resume(c), UNCHANGED <<files, edits>>,
         Turns(c), Others(c), ~(conn'[c].at \in {"asking", "round"}),
         conn'[c].at # "idle" => conn'[c].path # <<>>,
         conn'[c].at \in {"asking", "learning", "replacing"} => conn'[c].key \in Keys
  PROVE  Shaped'
<1>1. TypeOK /\ rewrite.by # c
  BY DEF Shaped, Steady, Asks
<1>2. /\ asked' \in [Connects -> Nat] /\ waiting' \subseteq Ids
      /\ answer' \in [Connects -> Decisions \cup {None}]
      /\ mail' \in Seq(Questions \cup Cancels) /\ queue' \in Seq(Questions)
      /\ reply' \subseteq [id : Ids, decision : Decisions]
      /\ consent' \subseteq Connects \X Hosts \X Keys
  BY <1>1, ResumeTyped
<1>3. TypeOK'
  BY <1>1, <1>2, TurnsTyped DEF TypeOK, files
<1>4. answer'[c] = None /\ \A d \in Connects : d # c => answer'[d] = answer[d]
  BY <1>1 DEF Resume, TypeOK
<1>5. Steady'
  BY <1>1, <1>4, SteadyKept DEF files
<1> QED BY <1>3, <1>5 DEF Shaped

\* Where a connect goes when its wait is over.
LEMMA DecidedIs ==
  ASSUME Shaped, NEW c \in Connects, Decided(c)
  PROVE  /\ Turns(c) /\ Others(c) /\ conn[c].at = "asking" /\ Resume(c)
         /\ UNCHANGED <<files, edits>>
         /\ \/ conn'[c] = NoConnect
            \/ /\ answer[c] \in Yes
               /\ \E at \in {"learning", "auth", "replacing"} : conn'[c] = Moved(c, at)
<1>1. TypeOK /\ conn[c].at = "asking" /\ Resume(c) /\ UNCHANGED <<files, edits>>
  BY DEF Shaped, Decided
<1>2. \/ Ends(c)
      \/ answer[c] \in Yes /\ \E at \in {"learning", "auth", "replacing"} : Goes(c, at)
  BY DEF Decided, Yes
<1>3. CASE Ends(c)
  BY <1>1, <1>3, EndsTurns
<1>4. ASSUME answer[c] \in Yes, NEW at \in {"learning", "auth", "replacing"}, Goes(c, at)
      PROVE  Turns(c) /\ Others(c) /\ conn'[c] = Moved(c, at)
  <2>1. at \in Places
    BY DEF Places
  <2> QED BY <1>1, <1>4, <2>1, GoesTurns
<1> QED BY <1>1, <1>2, <1>3, <1>4

LEMMA DecidedShaped ==
  ASSUME Shaped, NEW c \in Connects, Decided(c)
  PROVE  Shaped'
<1>1. /\ Turns(c) /\ Others(c) /\ conn[c].at = "asking" /\ Resume(c)
      /\ UNCHANGED <<files, edits>> /\ TypeOK /\ conn[c].path # <<>> /\ conn[c].key \in Keys
  BY DecidedIs DEF Shaped, Steady
<1>2. CASE conn'[c] = NoConnect
  BY <1>1, <1>2, ResumeShaped DEF NoConnect, Asks
<1>3. ASSUME NEW at \in {"learning", "auth", "replacing"}, conn'[c] = Moved(c, at)
      PROVE  Shaped'
  <2>1. at \in Places
    BY DEF Places
  <2>2. /\ Moved(c, at).at = at /\ Moved(c, at).path = conn[c].path
        /\ Moved(c, at).key = conn[c].key
    BY <1>1, <2>1, MovedIs
  <2> QED BY <1>1, <1>3, <2>2, ResumeShaped DEF Asks
<1>4. conn'[c] = NoConnect
      \/ \E at \in {"learning", "auth", "replacing"} : conn'[c] = Moved(c, at)
  BY DecidedIs
<1> QED BY <1>2, <1>3, <1>4

LEMMA RoundIs ==
  ASSUME Shaped, NEW c \in Connects, RoundAnswered(c)
  PROVE  /\ Turns(c) /\ Others(c) /\ conn[c].at = "round" /\ Resume(c)
         /\ UNCHANGED <<files, edits>>
         /\ conn'[c] = NoConnect \/ conn'[c] = Moved(c, "auth")
<1>1. TypeOK /\ conn[c].at = "round" /\ Resume(c) /\ UNCHANGED <<files, edits>>
  BY DEF Shaped, RoundAnswered
<1>2. Ends(c) \/ Goes(c, "auth")
  BY DEF RoundAnswered
<1>3. "auth" \in Places
  BY DEF Places
<1> QED BY <1>1, <1>2, <1>3, EndsTurns, GoesTurns

LEMMA RoundShaped ==
  ASSUME Shaped, NEW c \in Connects, RoundAnswered(c)
  PROVE  Shaped'
<1>1. /\ Turns(c) /\ Others(c) /\ conn[c].at = "round" /\ Resume(c)
      /\ UNCHANGED <<files, edits>> /\ TypeOK /\ conn[c].path # <<>>
      /\ conn'[c] = NoConnect \/ conn'[c] = Moved(c, "auth")
  BY RoundIs DEF Shaped, Steady
<1>2. "auth" \in Places
  BY DEF Places
<1>3. Moved(c, "auth").at = "auth" /\ Moved(c, "auth").path = conn[c].path
  BY <1>1, <1>2, MovedIs
<1>4. conn'[c].at \in {"idle", "auth"} /\ (conn'[c].at = "auth" => conn'[c].path # <<>>)
  BY <1>1, <1>3 DEF NoConnect
<1> QED BY <1>1, <1>4, ResumeShaped DEF Asks

\* Where writing a line leads.
LEMMA LearnIs ==
  ASSUME Shaped, NEW c \in Connects, Learn(c)
  PROVE  /\ Turns(c) /\ Others(c) /\ conn[c].at = "learning" /\ conn'[c] = Moved(c, "auth")
         /\ UNCHANGED <<theirs, rewrite, prompts, edits>> /\ LockFree
         /\ Host(c) \in Hosts /\ conn[c].key \in Keys
         /\ ours' = Learned(Host(c), conn[c].key)
         /\ trusted' = trusted \cup {<<Host(c), conn[c].key>>}
<1>1. "auth" \in Places
  BY DEF Places
<1>2. TypeOK /\ conn[c].at = "learning" /\ conn[c].path # <<>> /\ conn[c].key \in Keys
  BY DEF Shaped, Steady, Learn
<1>3. Turns(c) /\ Others(c) /\ conn'[c] = Moved(c, "auth")
  BY <1>1, <1>2, GoesTurns DEF Learn
<1>4. Host(c) \in Hosts
  BY <1>2, HostTyped
<1> QED BY <1>2, <1>3, <1>4 DEF Learn

LEMMA LearnShaped ==
  ASSUME Shaped, NEW c \in Connects, Learn(c)
  PROVE  Shaped'
<1>1. "auth" \in Places /\ TypeOK /\ conn[c].path # <<>>
  BY DEF Places, Shaped, Steady, Learn
<1>2. /\ Turns(c) /\ Others(c) /\ conn[c].at = "learning" /\ conn'[c] = Moved(c, "auth")
      /\ UNCHANGED <<theirs, rewrite, prompts, edits>>
      /\ Host(c) \in Hosts /\ conn[c].key \in Keys
      /\ ours' = Learned(Host(c), conn[c].key)
      /\ trusted' = trusted \cup {<<Host(c), conn[c].key>>}
  BY LearnIs
<1>3. conn'[c].at = "auth" /\ conn'[c].path # <<>>
  <2>1. Moved(c, "auth").at = "auth" /\ Moved(c, "auth").path = conn[c].path
    BY <1>1, MovedIs
  <2> QED BY <1>1, <1>2, <2>1
<1>4. ours' \in Seq(Line)
  BY <1>1, <1>2, LearnedIs
<1>5. trusted' \subseteq Hosts \X Keys /\ edits' \in Nat
  BY <1>1, <1>2 DEF TypeOK
<1>6. rewrite.by # c
  BY <1>2 DEF Shaped, Steady
<1> QED BY <1>2, <1>3, <1>4, <1>5, <1>6, QuietShaped DEF Asks, prompts

LEMMA NotLearnedIs ==
  ASSUME Shaped, NEW c \in Connects, NotLearned(c)
  PROVE  /\ Turns(c) /\ Others(c) /\ conn[c].at = "learning"
         /\ UNCHANGED <<files, prompts, edits>>
         /\ conn'[c] = NoConnect \/ (conn[c].status = "mirror" /\ conn'[c] = Moved(c, "auth"))
<1>1. "auth" \in Places /\ TypeOK
  BY DEF Places, Shaped
<1> QED BY <1>1, EndsTurns, GoesTurns DEF NotLearned

LEMMA NotLearnedShaped ==
  ASSUME Shaped, NEW c \in Connects, NotLearned(c)
  PROVE  Shaped'
<1>1. /\ Turns(c) /\ Others(c) /\ conn[c].at = "learning"
      /\ UNCHANGED <<files, prompts, edits>>
      /\ conn'[c] = NoConnect \/ conn'[c] = Moved(c, "auth")
  BY NotLearnedIs
<1>2. "auth" \in Places /\ TypeOK /\ conn[c].path # <<>> /\ rewrite.by # c
  BY <1>1 DEF Places, Shaped, Steady
<1>3. Moved(c, "auth").at = "auth" /\ Moved(c, "auth").path = conn[c].path
  BY <1>2, MovedIs
<1>4. conn'[c].at \in {"idle", "auth"} /\ (conn'[c].at = "auth" => conn'[c].path # <<>>)
  BY <1>1, <1>2, <1>3 DEF NoConnect
<1> QED BY <1>1, <1>2, <1>4, QuietShaped DEF Asks, prompts, files, TypeOK

LEMMA BreaksShaped ==
  ASSUME Shaped, NEW c \in Connects, Breaks(c)
  PROVE  Shaped'
BY EndShaped DEF Breaks, Asks

LEMMA AuthenticatedShaped ==
  ASSUME Shaped, NEW c \in Connects, Authenticated(c)
  PROVE  Shaped'
<1>1. /\ Turns(c) /\ Others(c) /\ conn[c].at = "auth" /\ UNCHANGED <<files, prompts, edits>>
      /\ conn'[c].at \in {"idle", "dialing"}
      /\ conn'[c].at = "dialing" => conn'[c].path # <<>>
  BY AuthenticatedIs
<1>2. TypeOK /\ rewrite.by # c
  BY <1>1 DEF Shaped, Steady
<1> QED BY <1>1, <1>2, QuietShaped DEF Asks, prompts, files, TypeOK

-----------------------------------------------------------------------------
(* Rewrites, the window and the answers *)

LEMMA ReadIs ==
  ASSUME TypeOK, NEW by \in Connects \cup {"panel"}, NEW hh \in Hosts, NEW types,
         Read(by, hh, types)
  PROVE  /\ rewrite.by = None /\ rewrite'.by = by /\ rewrite' \in
                [by : Connects \cup {"panel", None}, kept : Seq(Line), gone : SUBSET Line]
         /\ rewrite'.gone = ToSet(ours) \ ToSet(rewrite'.kept)
<1>1. PICK kept : kept = Kept(hh, types)
  OBVIOUS
<1>2. kept \in Seq(Line) /\ ToSet(ours) \subseteq Line
  BY <1>1, KeptTyped
<1>3. rewrite.by = None
  BY DEF Read, LockFree, NoRewrite
<1>4. rewrite' = [by |-> by, kept |-> kept, gone |-> ToSet(ours) \ ToSet(kept)]
  BY <1>1 DEF Read
<1> QED BY <1>2, <1>3, <1>4

LEMMA ReplaceReadsShaped ==
  ASSUME Shaped, NEW c \in Connects, ReplaceReads(c)
  PROVE  Shaped'
<1>1. /\ TypeOK /\ conn[c].at = "replacing" /\ conn[c].path # <<>>
      /\ Read(c, Host(c), {KeyType[conn[c].key]})
      /\ UNCHANGED <<ours, theirs, trusted, conn, prompts, edits>>
  BY DEF Shaped, Steady, ReplaceReads
<1>2. Host(c) \in Hosts
  BY <1>1, HostTyped
<1>3. /\ rewrite'.by = c /\ rewrite' \in
            [by : Connects \cup {"panel", None}, kept : Seq(Line), gone : SUBSET Line]
  BY <1>1, <1>2, ReadIs
<1>4. TypeOK'
  BY <1>1, <1>3 DEF TypeOK, prompts
<1>5. Steady'
  BY <1>1, <1>3 DEF Shaped, Steady, Asks, prompts
<1> QED BY <1>4, <1>5 DEF Shaped

LEMMA ForgetReadsShaped ==
  ASSUME Shaped, NEW hh \in Hosts, ForgetReads(hh)
  PROVE  Shaped'
<1>1. /\ TypeOK /\ Read("panel", hh, {KeyType[k] : k \in Keys}) /\ edits' = edits + 1
      /\ UNCHANGED <<ours, theirs, trusted, conn, prompts>>
  BY DEF Shaped, ForgetReads
<1>2. /\ rewrite'.by = "panel" /\ rewrite' \in
            [by : Connects \cup {"panel", None}, kept : Seq(Line), gone : SUBSET Line]
  BY <1>1, ReadIs
<1>3. edits' \in Nat
  BY <1>1 DEF TypeOK
<1>4. TypeOK'
  BY <1>1, <1>2, <1>3 DEF TypeOK, prompts
<1>5. Steady'
  BY <1>1, <1>2, TrustAssumption DEF Shaped, Steady, Asks, prompts, TrustAssumption
<1> QED BY <1>4, <1>5 DEF Shaped

\* A rewrite is finished, or given up, by a step that leaves every rewriter free.
LEMMA FreedShaped ==
  ASSUME Shaped, rewrite' = NoRewrite, UNCHANGED <<theirs, prompts, edits>>,
         ours' \in Seq(Line), trusted' \subseteq trusted,
         UNCHANGED conn \/ \E c \in Connects :
            /\ Turns(c) /\ Others(c) /\ ~Asks(c) /\ conn'[c].at \in {"idle", "learning"}
            /\ conn'[c].at = "learning" => conn'[c].path # <<>> /\ conn'[c].key \in Keys
  PROVE  Shaped'
<1>1. TypeOK /\ None \notin Connects
  BY TrustAssumption DEF Shaped, TrustAssumption
<1>2. rewrite'.by = None /\ rewrite' \in
            [by : Connects \cup {"panel", None}, kept : Seq(Line), gone : SUBSET Line]
  <2>1. <<>> \in Seq(Line) /\ {} \in SUBSET Line
    OBVIOUS
  <2> QED BY <2>1 DEF NoRewrite
<1>3. conn' \in [Connects -> Conns]
  BY <1>1, TurnsTyped DEF TypeOK
<1>4. TypeOK'
  BY <1>1, <1>2, <1>3 DEF TypeOK, prompts
<1>5. CASE UNCHANGED conn
  <2>1. Steady'
    BY <1>1, <1>2, <1>5 DEF Shaped, Steady, Asks, prompts
  <2> QED BY <1>4, <2>1 DEF Shaped
<1>6. ASSUME NEW c \in Connects, Turns(c), Others(c), ~Asks(c),
             conn'[c].at \in {"idle", "learning"},
             conn'[c].at = "learning" => conn'[c].path # <<>> /\ conn'[c].key \in Keys
      PROVE  Shaped'
  <2>1. answer[c] = None
    BY <1>6 DEF Shaped, Steady
  <2>2. answer' = answer
    BY DEF prompts
  <2>3. Steady'
    BY <1>1, <1>2, <1>6, <2>1, <2>2, SteadyKept
  <2> QED BY <1>4, <2>3 DEF Shaped
<1> QED BY <1>5, <1>6

LEMMA ReplaceWritesIs ==
  ASSUME Shaped, NEW c \in Connects, ReplaceWrites(c)
  PROVE  /\ Turns(c) /\ Others(c) /\ conn[c].at = "replacing" /\ rewrite.by = c
         /\ conn'[c] = Moved(c, "learning") /\ conn'[c].at = "learning"
         /\ conn'[c].path # <<>> /\ conn'[c].key \in Keys
         /\ Write /\ UNCHANGED <<theirs, prompts, edits>>
<1>1. /\ "learning" \in Places /\ TypeOK /\ rewrite.by = c
      /\ Write /\ UNCHANGED <<theirs, prompts, edits>>
  BY DEF Places, Shaped, ReplaceWrites
<1>2. conn[c].at = "replacing" /\ conn[c].path # <<>> /\ conn[c].key \in Keys
  BY <1>1 DEF Shaped, Steady
<1>3. Turns(c) /\ Others(c) /\ conn'[c] = Moved(c, "learning")
  BY <1>1, GoesTurns DEF ReplaceWrites
<1>4. /\ Moved(c, "learning").at = "learning" /\ Moved(c, "learning").path = conn[c].path
      /\ Moved(c, "learning").key = conn[c].key
  BY <1>1, MovedIs
<1> QED BY <1>1, <1>2, <1>3, <1>4

LEMMA ReplaceWritesShaped ==
  ASSUME Shaped, NEW c \in Connects, ReplaceWrites(c)
  PROVE  Shaped'
<1>1. /\ Turns(c) /\ Others(c) /\ conn[c].at = "replacing"
      /\ conn'[c].at = "learning" /\ conn'[c].path # <<>> /\ conn'[c].key \in Keys
      /\ Write /\ UNCHANGED <<theirs, prompts, edits>>
  BY ReplaceWritesIs
<1>2. ours' \in Seq(Line) /\ rewrite' = NoRewrite /\ trusted' \subseteq trusted
  BY <1>1 DEF Shaped, TypeOK, Write
<1>3. ~Asks(c) /\ conn'[c].at \in {"idle", "learning"}
  BY <1>1 DEF Asks
<1> QED BY <1>1, <1>2, <1>3, FreedShaped

LEMMA ReplaceFailsIs ==
  ASSUME Shaped, NEW c \in Connects, ReplaceFails(c)
  PROVE  /\ Turns(c) /\ Others(c) /\ conn[c].at = "replacing" /\ conn'[c] = NoConnect
         /\ rewrite' = NoRewrite /\ UNCHANGED <<ours, theirs, trusted, prompts, edits>>
BY EndsTurns DEF ReplaceFails, Shaped, Steady

LEMMA ReplaceFailsShaped ==
  ASSUME Shaped, NEW c \in Connects, ReplaceFails(c)
  PROVE  Shaped'
<1>1. /\ Turns(c) /\ Others(c) /\ conn[c].at = "replacing" /\ conn'[c] = NoConnect
      /\ rewrite' = NoRewrite /\ UNCHANGED <<ours, theirs, trusted, prompts, edits>>
  BY ReplaceFailsIs
<1>2. conn'[c].at = "idle" /\ ~Asks(c) /\ ours' \in Seq(Line) /\ trusted' \subseteq trusted
  BY <1>1 DEF NoConnect, Asks, Shaped, TypeOK
<1> QED BY <1>1, <1>2, FreedShaped

LEMMA ForgetWritesShaped ==
  ASSUME Shaped, ForgetWrites
  PROVE  Shaped'
<1>1. /\ UNCHANGED <<theirs, prompts, edits>> /\ conn' = conn
      /\ ours' \in Seq(Line) /\ rewrite' = NoRewrite /\ trusted' \subseteq trusted
  BY DEF ForgetWrites, Write, Shaped, TypeOK
<1> QED BY <1>1, FreedShaped

LEMMA ImportShaped ==
  ASSUME Shaped, import_lines
  PROVE  /\ Shaped' /\ ToSet(ours) \subseteq ToSet(ours') /\ LockFree
         /\ UNCHANGED <<theirs, rewrite, trusted, conn, prompts>>
<1>1. PICK lines \in Imports : ours' = merge_lines(lines)
  BY DEF import_lines
<1>2. lines \in Seq(Line) /\ TypeOK /\ ours \in Seq(Line)
  BY TrustAssumption DEF TrustAssumption, Shaped, TypeOK
<1>3. ours' \in Seq(Line) /\ ToSet(ours) \subseteq ToSet(ours')
  BY <1>1, <1>2, MergedIs
<1>4. /\ edits' = edits + 1 /\ LockFree
      /\ UNCHANGED <<theirs, rewrite, trusted, conn, prompts>>
  BY DEF import_lines
<1>5. edits' \in Nat
  BY <1>2, <1>4 DEF TypeOK
<1>6. TypeOK'
  BY <1>2, <1>3, <1>4, <1>5 DEF TypeOK, prompts
<1>7. Steady'
  BY <1>4 DEF Shaped, Steady, Asks, prompts
<1> QED BY <1>3, <1>4, <1>6, <1>7 DEF Shaped

LEMMA QuestionIs ==
  ASSUME NEW e \in Questions
  PROVE  e.is \in {"host key", "auth"} /\ e.is # "cancel" /\ e.id \in Ids
         /\ e.host \in Hosts /\ (e.is = "host key" => e.key \in Keys)
BY DEF Questions

LEMMA MailIs ==
  ASSUME NEW e \in Questions \cup Cancels
  PROVE  /\ e.id \in Ids /\ e.is \in {"host key", "auth", "cancel"}
         /\ e.is # "cancel" => e \in Questions
BY DEF Questions, Cancels

\* The window takes the first of its mail: a cancel clears the question, anything
\* else joins the queue.
LEMMA HearIs ==
  ASSUME TypeOK, Hear
  PROVE  /\ mail # <<>> /\ mail' = Tail(mail) /\ Head(mail) \in Questions \cup Cancels
         /\ UNCHANGED <<files, conn, asked, waiting, answer, reply, consent, edits>>
         /\ queue' \in Seq(Questions)
         /\ Head(mail).is = "cancel" =>
               ToSet(queue') = {e \in ToSet(queue) : e.id # Head(mail).id}
         /\ Head(mail).is # "cancel" => ToSet(queue') = ToSet(queue) \cup {Head(mail)}
<1>1. /\ mail # <<>> /\ mail' = Tail(mail)
      /\ UNCHANGED <<files, conn, asked, waiting, answer, reply, consent, edits>>
  BY DEF Hear
<1>2. mail \in Seq(Questions \cup Cancels) /\ queue \in Seq(Questions)
  BY DEF TypeOK
<1>3. Head(mail) \in Questions \cup Cancels
  BY <1>1, <1>2, TailIs
<1>4. CASE Head(mail).is = "cancel"
  <2>1. queue' = Selected(queue, {e \in ToSet(queue) : e.id # Head(mail).id})
    BY <1>4 DEF Hear, Dismissed
  <2> QED BY <1>1, <1>2, <1>3, <1>4, <2>1, SelectedIs
<1>5. CASE Head(mail).is # "cancel"
  <2>1. queue' = Append(queue, Head(mail)) /\ Head(mail) \in Questions
    BY <1>3, <1>5, MailIs DEF Hear
  <2> QED BY <1>1, <1>2, <1>3, <1>5, <2>1, AppendedIs
<1> QED BY <1>4, <1>5

LEMMA ShownIs ==
  ASSUME TypeOK, queue # <<>>
  PROVE  Shown \in ToSet(queue) /\ Shown \in Questions
<1> DEFINE keys == Selected(queue, {e \in ToSet(queue) : e.is = "host key"})
<1>1. queue \in Seq(Questions)
  BY DEF TypeOK
<1>2. keys \in Seq(Questions) /\ ToSet(keys) \subseteq ToSet(queue)
  <2>1. PICK keep : keep = {e \in ToSet(queue) : e.is = "host key"}
    OBVIOUS
  <2>2. /\ Selected(queue, keep) \in Seq(Questions)
        /\ ToSet(Selected(queue, keep)) = ToSet(queue) \cap keep
    BY <1>1, SelectedIs
  <2> QED BY <2>1, <2>2
<1>3. Shown = IF keys # <<>> THEN keys[1] ELSE queue[1]
  BY DEF Shown
<1> HIDE DEF keys
<1>4. CASE keys # <<>>
  <2>1. keys[1] \in ToSet(keys)
    BY <1>2, <1>4, TailIs
  <2> QED BY <1>1, <1>2, <1>3, <1>4, <2>1, ElementsAre
<1>5. CASE keys = <<>>
  <2>1. queue[1] \in ToSet(queue)
    BY <1>1, TailIs
  <2> QED BY <1>1, <1>3, <1>5, <2>1, ElementsAre
<1> QED BY <1>4, <1>5

\* The user presses a button of the dialog on screen.
LEMMA PressIs ==
  ASSUME TypeOK, Press
  PROVE  /\ UNCHANGED <<files, conn, asked, waiting, answer, mail, edits>>
         /\ queue' \in Seq(Questions)
         /\ \E e \in ToSet(queue) : \E decision \in Buttons(e) :
               /\ e \in Questions
               /\ ToSet(queue') = {f \in ToSet(queue) : f.id # e.id}
               /\ reply' = reply \cup {[id |-> e.id, decision |-> decision]}
               /\ consent' = IF decision \in Yes
                             THEN consent \cup {<<e.id.by, e.host, e.key>>} ELSE consent
<1>1. /\ UNCHANGED <<files, conn, asked, waiting, answer, mail, edits>> /\ queue # <<>>
  BY DEF Press
<1>2. PICK e : e = Shown
  OBVIOUS
<1>3. e \in ToSet(queue) /\ e \in Questions /\ queue \in Seq(Questions)
  BY <1>1, <1>2, ShownIs DEF TypeOK
<1>4. PICK decision \in Buttons(e) :
         /\ reply' = reply \cup {[id |-> e.id, decision |-> decision]}
         /\ consent' = IF decision \in Yes
                       THEN consent \cup {<<e.id.by, e.host, e.key>>} ELSE consent
  BY <1>2 DEF Press
<1>5. queue' = Selected(queue, {f \in ToSet(queue) : f.id # e.id})
  BY <1>2 DEF Press, Dismissed
<1>6. queue' \in Seq(Questions) /\ ToSet(queue') = {f \in ToSet(queue) : f.id # e.id}
  BY <1>3, <1>5, SelectedIs
<1> QED BY <1>1, <1>3, <1>4, <1>6

LEMMA ButtonsAre ==
  ASSUME NEW e \in Questions, NEW decision \in Buttons(e)
  PROVE  decision \in Decisions /\ (decision \in Yes => e.is = "host key")
BY DEF Buttons, Decisions, Yes, Questions

LEMMA HearShaped ==
  ASSUME Shaped, Hear
  PROVE  Shaped'
<1>1. /\ TypeOK /\ mail # <<>> /\ mail' = Tail(mail)
      /\ UNCHANGED <<files, conn, asked, waiting, answer, reply, consent, edits>>
      /\ queue' \in Seq(Questions)
  BY HearIs DEF Shaped
<1>2. mail \in Seq(Questions \cup Cancels)
  BY <1>1 DEF TypeOK
<1>3. mail' \in Seq(Questions \cup Cancels)
  BY <1>1, <1>2, TailIs
<1>4. TypeOK'
  BY <1>1, <1>3 DEF TypeOK, files
<1>5. Steady'
  BY <1>1 DEF Shaped, Steady, Asks, files
<1> QED BY <1>4, <1>5 DEF Shaped

LEMMA PressShaped ==
  ASSUME Shaped, Press
  PROVE  Shaped'
<1>1. /\ TypeOK /\ UNCHANGED <<files, conn, asked, waiting, answer, mail, edits>>
      /\ queue' \in Seq(Questions)
  BY PressIs DEF Shaped
<1>2. PICK e \in ToSet(queue) : \E decision \in Buttons(e) :
         /\ e \in Questions
         /\ reply' = reply \cup {[id |-> e.id, decision |-> decision]}
         /\ consent' = IF decision \in Yes
                       THEN consent \cup {<<e.id.by, e.host, e.key>>} ELSE consent
  BY <1>1, PressIs
<1>3. PICK decision \in Buttons(e) :
         /\ reply' = reply \cup {[id |-> e.id, decision |-> decision]}
         /\ consent' = IF decision \in Yes
                       THEN consent \cup {<<e.id.by, e.host, e.key>>} ELSE consent
  BY <1>2
<1>4. decision \in Decisions /\ (decision \in Yes => e.is = "host key") /\ e.id \in Ids
      /\ e.host \in Hosts
  BY <1>2, <1>3, ButtonsAre, QuestionIs
<1>5. decision \in Yes => e.key \in Keys
  BY <1>2, <1>4, QuestionIs
<1>6. e.id.by \in Connects
  BY <1>4 DEF Ids
<1>7. reply' \subseteq [id : Ids, decision : Decisions]
  <2>1. PICK a : a = [id |-> e.id, decision |-> decision]
    OBVIOUS
  <2>2. a \in [id : Ids, decision : Decisions]
    BY <1>4, <2>1
  <2> QED BY <1>1, <1>3, <2>1, <2>2 DEF TypeOK
<1>8. consent' \subseteq Connects \X Hosts \X Keys
  <2>1. PICK y : y = <<e.id.by, e.host, e.key>>
    OBVIOUS
  <2>2. decision \in Yes => y \in Connects \X Hosts \X Keys
    BY <1>4, <1>5, <1>6, <2>1
  <2>3. consent' = IF decision \in Yes THEN consent \cup {y} ELSE consent
    BY <1>3, <2>1
  <2> QED BY <1>1, <2>2, <2>3 DEF TypeOK
<1>9. TypeOK'
  BY <1>1, <1>7, <1>8 DEF TypeOK, files
<1>10. Steady'
  BY <1>1 DEF Shaped, Steady, Asks, files
<1> QED BY <1>9, <1>10 DEF Shaped

LEMMA RespondIs ==
  ASSUME Shaped, Respond
  PROVE  /\ UNCHANGED <<files, conn, asked, mail, queue, consent, edits>>
         /\ \E r \in reply :
               /\ r.id \in Ids /\ r.decision \in Decisions
               /\ reply' = reply \ {r} /\ waiting' = waiting \ {r.id}
               /\ answer' \in [Connects -> Decisions \cup {None}]
               /\ \A c \in Connects :
                     answer'[c] = IF r.id \in waiting /\ c = r.id.by THEN r.decision ELSE answer[c]
<1>1. UNCHANGED <<files, conn, asked, mail, queue, consent, edits>>
  BY DEF Respond
<1>2. PICK r \in reply :
         /\ reply' = reply \ {r} /\ waiting' = waiting \ {r.id}
         /\ answer' = IF r.id \in waiting THEN [answer EXCEPT ![r.id.by] = r.decision] ELSE answer
  BY DEF Respond
<1>3. r.id \in Ids /\ r.decision \in Decisions /\ r.id.by \in Connects
      /\ answer \in [Connects -> Decisions \cup {None}]
  BY DEF Shaped, TypeOK, Ids
<1> QED BY <1>1, <1>2, <1>3

-----------------------------------------------------------------------------
(* The dialogs agree with the questions *)

LEMMA MailTyped ==
  ASSUME TypeOK
  PROVE  /\ \A i \in DOMAIN mail : mail[i] \in Questions \cup Cancels /\ mail[i].id \in Ids
         /\ \A e \in ToSet(queue) : e \in Questions /\ e.id \in Ids /\ e.is # "cancel"
         /\ \A r \in reply : r.id \in Ids /\ r.decision \in Decisions
         /\ \A id \in waiting : id \in Ids
         /\ \A id \in Ids : id.by \in Connects /\ id.n \in Nat
<1>1. /\ \A i \in DOMAIN mail : mail[i] \in Questions \cup Cancels
      /\ ToSet(queue) \subseteq Questions
  BY ElementsAre DEF TypeOK
<1>2. \A i \in DOMAIN mail : mail[i].id \in Ids
  BY <1>1, MailIs
<1>3. \A e \in ToSet(queue) : e \in Questions /\ e.id \in Ids /\ e.is # "cancel"
  BY <1>1, QuestionIs
<1>4. \A r \in reply : r.id \in Ids /\ r.decision \in Decisions
  BY DEF TypeOK
<1>5. (\A id \in waiting : id \in Ids) /\ \A id \in Ids : id.by \in Connects /\ id.n \in Nat
  BY DEF TypeOK, Ids
<1> QED BY <1>1, <1>2, <1>3, <1>4, <1>5

\* Nothing is asked or answered, and nobody begins or ends a wait.
LEMMA DialogsStill ==
  ASSUME TypeOK, Dialogs, UNCHANGED <<asked, waiting, mail, queue, reply>>,
         \A d \in Connects : Asks(d)' <=> Asks(d)
  PROVE  Dialogs'
<1>1. Numbers'
  BY DEF Dialogs, Numbers
<1>2. Once'
  BY DEF Dialogs, Once
<1>3. \A id \in Ids : Open(id)' <=> Open(id)
  BY MailTyped DEF Open, OpenIn, Asks
<1>4. Tracked'
  <2>1. \A id \in waiting : Open(id)'
    BY <1>3, MailTyped DEF Dialogs, Tracked
  <2>2. \A i \in DOMAIN mail : mail[i].is = "cancel" => ~Open(mail[i].id)
    BY DEF Dialogs, Tracked
  <2>3. ASSUME NEW i \in DOMAIN mail', mail'[i].is = "cancel" 
        PROVE  ~OpenIn(mail'[i].id, asked', conn')
    <3>1. PICK id \in Ids : id = mail[i].id
      BY MailTyped
    <3>2. ~Open(id)'
      BY <1>3, <2>2, <2>3, <3>1
    <3> QED BY <3>1, <3>2 DEF Open
  <2>4. \A id \in waiting : \/ \E i \in DOMAIN mail : mail[i].is # "cancel" /\ mail[i].id = id
                            \/ \E e \in ToSet(queue) : e.id = id
                            \/ \E r \in reply : r.id = id
    BY DEF Dialogs, Tracked
  <2>5. /\ \A i \in DOMAIN mail : mail[i].is # "cancel" =>
              \/ mail[i].id \in waiting
              \/ \E j \in DOMAIN mail : j > i /\ mail[j].is = "cancel" /\ mail[j].id = mail[i].id
        /\ \A e \in ToSet(queue) : e.id \in waiting \/ Over(e.id)
    BY DEF Dialogs, Tracked
  <2> QED BY <2>1, <2>3, <2>4, <2>5 DEF Tracked, Over, Open
<1> QED BY <1>1, <1>2, <1>4 DEF Dialogs

\* A question is asked: its number is new, and it waits, in the mail.
LEMMA DialogsAsk ==
  ASSUME TypeOK, Dialogs, NEW c \in Connects, NEW q \in Questions, ~Asks(c),
         q.id = Id(c, asked[c] + 1), asked' = [asked EXCEPT ![c] = asked[c] + 1],
         waiting' = waiting \cup {q.id}, mail' = Append(mail, q),
         UNCHANGED <<queue, reply>>,
         Others(c), Asks(c)'
  PROVE  Dialogs'
<1> DEFINE new == q.id
<1>1. /\ new \in Ids /\ new.by = c /\ new.n = asked[c] + 1 /\ q.is # "cancel"
      /\ asked \in [Connects -> Nat]
  <2>1. q.is # "cancel" /\ q.id \in Ids
    BY QuestionIs
  <2>2. q.id.by = c /\ q.id.n = asked[c] + 1
    BY DEF Id
  <2>3. asked \in [Connects -> Nat]
    BY DEF TypeOK
  <2> QED BY <2>1, <2>2, <2>3
<1>2. asked'[c] = asked[c] + 1 /\ \A d \in Connects : d # c => asked'[d] = asked[d]
  BY <1>1
<1>3. \A d \in Connects : asked[d] <= asked'[d]
  <2>1. ASSUME NEW d \in Connects PROVE asked[d] <= asked'[d]
    <3>1. asked[d] \in Nat
      BY <1>1
    <3> QED BY <1>2, <3>1
  <2> QED BY <2>1
<1>4. \A id \in Ids : id.n <= asked[id.by] => id # new /\ id.n <= asked'[id.by]
  <2>1. ASSUME NEW id \in Ids, id.n <= asked[id.by] PROVE id # new /\ id.n <= asked'[id.by]
    <3>1. id.by \in Connects /\ id.n \in Nat /\ asked[id.by] \in Nat /\ asked'[id.by] \in Nat
      BY <1>1, <1>2, MailTyped
    <3>2. asked[c] \in Nat
      BY <1>1
    <3> QED BY <1>1, <1>2, <1>3, <2>1, <3>1, <3>2
  <2> QED BY <2>1
<1>5. PICK n : /\ DOMAIN mail' = DOMAIN mail \cup {n} /\ n \notin DOMAIN mail
               /\ \A i \in DOMAIN mail : i < n /\ mail'[i] = mail[i]
               /\ mail'[n] = q
  <2>1. mail \in Seq(Questions \cup Cancels) /\ q \in Questions \cup Cancels
    BY DEF TypeOK
  <2> QED BY <2>1, AppendAt
<1>6. /\ \A i \in DOMAIN mail : mail[i].id.n <= asked[mail[i].id.by]
      /\ \A e \in ToSet(queue) : e.id.n <= asked[e.id.by]
      /\ \A r \in reply : r.id.n <= asked[r.id.by]
  BY DEF Dialogs, Numbers, ToSet
<1>7. /\ \A i \in DOMAIN mail : mail[i].id # new
      /\ \A e \in ToSet(queue) : e.id # new
      /\ \A r \in reply : r.id # new
  BY <1>4, <1>6, MailTyped
<1> HIDE DEF new
<1>8. Numbers'
  <2>1. ASSUME NEW e \in ToSet(mail') PROVE e.id.n <= asked'[e.id.by]
    <3>1. PICK i \in DOMAIN mail' : e = mail'[i]
      BY DEF ToSet
    <3>2. CASE i \in DOMAIN mail
      BY <1>4, <1>5, <1>6, <3>1, <3>2, MailTyped
    <3>3. CASE i = n
      <4>1. e.id = new /\ asked[c] \in Nat
        BY <1>1, <1>5, <3>1, <3>3 DEF new
      <4> QED BY <1>1, <1>2, <4>1
    <3> QED BY <1>5, <3>2, <3>3
  <2>2. \A e \in ToSet(queue) : e.id.n <= asked'[e.id.by]
    BY <1>4, <1>6, MailTyped
  <2>3. \A r \in reply : r.id.n <= asked'[r.id.by]
    BY <1>4, <1>6, MailTyped
  <2> QED BY <2>1, <2>2, <2>3 DEF Numbers
<1>9. Once'
  <2>1. \A i, j \in DOMAIN mail :
          mail[i].is # "cancel" /\ mail[j].is # "cancel" /\ i # j => mail[i].id # mail[j].id
    BY DEF Dialogs, Once
  <2>2. \A i, j \in DOMAIN mail' :
          mail'[i].is # "cancel" /\ mail'[j].is # "cancel" /\ i # j => mail'[i].id # mail'[j].id
    BY <1>5, <1>7, <2>1 DEF new
  <2>3. \A i \in DOMAIN mail : mail[i].is # "cancel" =>
          /\ \A e \in ToSet(queue) : e.id # mail[i].id
          /\ \A r \in reply : r.id # mail[i].id
    BY DEF Dialogs, Once
  <2>4. \A i \in DOMAIN mail' : mail'[i].is # "cancel" =>
          /\ \A e \in ToSet(queue) : e.id # mail'[i].id
          /\ \A r \in reply : r.id # mail'[i].id
    BY <1>5, <1>7, <2>3 DEF new
  <2>5. \A e \in ToSet(queue) : \A r \in reply : e.id # r.id
    BY DEF Dialogs, Once
  <2> QED BY <2>2, <2>4, <2>5 DEF Once
<1>10. \A id \in Ids : Open(id)' <=> Open(id) \/ id = new
  <2>1. ASSUME NEW id \in Ids PROVE Open(id)' <=> Open(id) \/ id = new
    <3>1. CASE id.by = c
      <4>1. ~Open(id) /\ (Open(id)' <=> id.n = asked[c] + 1)
        BY <1>2, <3>1 DEF Open, OpenIn, Asks
      <4>2. id.n = asked[c] + 1 <=> id = new
        BY <1>1, <3>1 DEF Ids
      <4> QED BY <4>1, <4>2
    <3>2. CASE id.by # c
      <4>1. Open(id)' <=> Open(id)
        BY <1>2, <3>2, MailTyped DEF Open, OpenIn, Others
      <4>2. id # new
        BY <1>1, <3>2
      <4> QED BY <4>1, <4>2
    <3> QED BY <3>1, <3>2
  <2> QED BY <2>1
<1>11. Tracked'
  <2>1. /\ \A id \in waiting : Open(id)
        /\ \A i \in DOMAIN mail : mail[i].is = "cancel" => ~Open(mail[i].id)
    BY DEF Dialogs, Tracked
  <2>2. \A id \in waiting' : Open(id)'
    BY <1>1, <1>10, <2>1, MailTyped DEF new
  <2>3. ASSUME NEW i \in DOMAIN mail', mail'[i].is = "cancel" 
        PROVE  ~OpenIn(mail'[i].id, asked', conn')
    <3>1. i \in DOMAIN mail /\ mail'[i] = mail[i]
      BY <1>1, <1>5, <2>3
    <3>2. PICK id \in Ids : id = mail[i].id
      BY <3>1, MailTyped
    <3>3. ~Open(id)'
      BY <1>7, <1>10, <2>1, <2>3, <3>1, <3>2
    <3> QED BY <3>1, <3>2, <3>3 DEF Open
  <2>4. \A id \in waiting : \/ \E i \in DOMAIN mail : mail[i].is # "cancel" /\ mail[i].id = id
                            \/ \E e \in ToSet(queue) : e.id = id
                            \/ \E r \in reply : r.id = id
    BY DEF Dialogs, Tracked
  <2>5. \A id \in waiting' : \/ \E i \in DOMAIN mail' : mail'[i].is # "cancel" /\ mail'[i].id = id
                             \/ \E e \in ToSet(queue) : e.id = id
                             \/ \E r \in reply : r.id = id
    <3>1. ASSUME NEW id \in waiting
          PROVE  \/ \E i \in DOMAIN mail' : mail'[i].is # "cancel" /\ mail'[i].id = id
                 \/ \E e \in ToSet(queue) : e.id = id
                 \/ \E r \in reply : r.id = id
      BY <1>5, <2>4
    <3>2. n \in DOMAIN mail' /\ mail'[n].is # "cancel" /\ mail'[n].id = q.id
      BY <1>1, <1>5
    <3> QED BY <3>1, <3>2
  <2>6. /\ \A i \in DOMAIN mail : mail[i].is # "cancel" =>
              \/ mail[i].id \in waiting
              \/ \E j \in DOMAIN mail : j > i /\ mail[j].is = "cancel" /\ mail[j].id = mail[i].id
        /\ \A e \in ToSet(queue) : e.id \in waiting \/ Over(e.id)
    BY DEF Dialogs, Tracked
  <2>7. \A i \in DOMAIN mail' : mail'[i].is # "cancel" =>
            \/ mail'[i].id \in waiting'
            \/ \E j \in DOMAIN mail' : j > i /\ mail'[j].is = "cancel" /\ mail'[j].id = mail'[i].id
    <3>1. ASSUME NEW i \in DOMAIN mail, mail[i].is # "cancel"
          PROVE  \/ mail[i].id \in waiting'
                 \/ \E j \in DOMAIN mail' : j > i /\ mail'[j].is = "cancel"
                                            /\ mail'[j].id = mail[i].id
      BY <1>5, <2>6, <3>1
    <3>2. mail'[n].id \in waiting'
      BY <1>5
    <3> QED BY <1>5, <3>1, <3>2
  <2>8. \A e \in ToSet(queue) : e.id \in waiting' \/ Over(e.id)'
    BY <1>5, <2>6 DEF Over
  <2> QED BY <2>2, <2>3, <2>5, <2>7, <2>8 DEF Tracked, Over, Open
<1> QED BY <1>8, <1>9, <1>11 DEF Dialogs

\* A wait is over: the question is taken back behind everything else in the mail.
LEMMA DialogsResume ==
  ASSUME TypeOK, Dialogs, NEW c \in Connects, NEW q \in Cancels, q.id = Now(c),
         asked' = asked, waiting' = waiting \ {q.id}, mail' = Append(mail, q),
         UNCHANGED <<queue, reply>>, Others(c), ~(conn'[c].at \in {"asking", "round"})
  PROVE  Dialogs'
<1> DEFINE old == q.id
<1>1. old \in Ids /\ old.by = c /\ old.n = asked[c] /\ q.is = "cancel"
  <2>1. q.is = "cancel" /\ q.id \in Ids
    BY DEF Cancels
  <2> QED BY <2>1 DEF Now, Id
<1>2. asked \in [Connects -> Nat] /\ waiting \subseteq Ids
  BY DEF TypeOK
<1>3. PICK n : /\ DOMAIN mail' = DOMAIN mail \cup {n} /\ n \notin DOMAIN mail
               /\ \A i \in DOMAIN mail : i < n /\ mail'[i] = mail[i]
               /\ mail'[n] = q
  <2>1. mail \in Seq(Questions \cup Cancels) /\ q \in Questions \cup Cancels
    BY DEF TypeOK
  <2> QED BY <2>1, AppendAt
<1>4. old = q.id
  OBVIOUS
<1> HIDE DEF old
<1>5. Numbers'
  <2>1. /\ \A i \in DOMAIN mail : mail[i].id.n <= asked[mail[i].id.by]
        /\ \A e \in ToSet(queue) : e.id.n <= asked[e.id.by]
        /\ \A r \in reply : r.id.n <= asked[r.id.by]
    BY DEF Dialogs, Numbers, ToSet
  <2>2. ASSUME NEW e \in ToSet(mail') PROVE e.id.n <= asked[e.id.by]
    <3>1. PICK i \in DOMAIN mail' : e = mail'[i]
      BY DEF ToSet
    <3>2. CASE i \in DOMAIN mail
      BY <1>3, <2>1, <3>1, <3>2
    <3>3. CASE i = n
      <4>1. e.id = old /\ asked[c] \in Nat
        BY <1>2, <1>3, <1>4, <3>1, <3>3
      <4> QED BY <1>1, <4>1
    <3> QED BY <1>3, <3>2, <3>3
  <2> QED BY <2>1, <2>2 DEF Numbers
<1>6. Once'
  <2>1. /\ \A i, j \in DOMAIN mail : mail[i].is # "cancel" /\ mail[j].is # "cancel" /\ i # j
              => mail[i].id # mail[j].id
        /\ \A i \in DOMAIN mail : mail[i].is # "cancel" =>
              /\ \A e \in ToSet(queue) : e.id # mail[i].id
              /\ \A r \in reply : r.id # mail[i].id
        /\ \A e \in ToSet(queue) : \A r \in reply : e.id # r.id
    BY DEF Dialogs, Once
  <2>2. \A i \in DOMAIN mail' : mail'[i].is # "cancel" => i \in DOMAIN mail /\ mail'[i] = mail[i]
    BY <1>1, <1>3
  <2> QED BY <2>1, <2>2 DEF Once
<1>7. \A id \in Ids : Open(id)' <=> Open(id) /\ id.by # c
  <2>1. ASSUME NEW id \in Ids PROVE Open(id)' <=> Open(id) /\ id.by # c
    <3>1. CASE id.by = c
      BY <3>1 DEF Open, OpenIn
    <3>2. CASE id.by # c
      BY <3>2, MailTyped DEF Open, OpenIn, Others
    <3> QED BY <3>1, <3>2
  <2> QED BY <2>1
<1>8. Tracked'
  <2>1. /\ \A id \in waiting : Open(id)
        /\ \A i \in DOMAIN mail : mail[i].is = "cancel" => ~Open(mail[i].id)
    BY DEF Dialogs, Tracked
  <2>2. ASSUME NEW id \in waiting' PROVE Open(id)'
    <3>1. id \in waiting /\ id # old /\ id \in Ids
      BY <1>2, <1>4
    <3>2. Open(id)
      BY <2>1, <3>1
    <3>3. id.by # c
      <4>1. SUFFICES ASSUME id.by = c PROVE FALSE
        OBVIOUS
      <4>2. id.n = asked[c]
        BY <3>2, <4>1 DEF Open, OpenIn
      <4> QED BY <1>1, <3>1, <4>1, <4>2 DEF Ids
    <3> QED BY <1>7, <3>1, <3>2, <3>3
  <2>3. ASSUME NEW i \in DOMAIN mail', mail'[i].is = "cancel"
        PROVE  ~OpenIn(mail'[i].id, asked', conn')
    <3>1. CASE i \in DOMAIN mail
      <4>1. PICK id \in Ids : id = mail[i].id
        BY <3>1, MailTyped
      <4>2. mail[i].is = "cancel" /\ mail'[i] = mail[i]
        BY <1>3, <2>3, <3>1
      <4>3. ~Open(id)'
        BY <1>7, <2>1, <3>1, <4>1, <4>2
      <4> QED BY <4>1, <4>2, <4>3 DEF Open
    <3>2. CASE i = n
      <4>1. mail'[i].id = old
        BY <1>3, <1>4, <3>2
      <4>2. ~Open(old)'
        BY <1>1, <1>7
      <4> QED BY <4>1, <4>2 DEF Open
    <3> QED BY <1>3, <3>1, <3>2
  <2>4. \A id \in waiting : \/ \E i \in DOMAIN mail : mail[i].is # "cancel" /\ mail[i].id = id
                            \/ \E e \in ToSet(queue) : e.id = id
                            \/ \E r \in reply : r.id = id
    BY DEF Dialogs, Tracked
  <2>5. \A id \in waiting' : \/ \E i \in DOMAIN mail' : mail'[i].is # "cancel" /\ mail'[i].id = id
                             \/ \E e \in ToSet(queue) : e.id = id
                             \/ \E r \in reply : r.id = id
    BY <1>3, <2>4
  <2>6. /\ \A i \in DOMAIN mail : mail[i].is # "cancel" =>
              \/ mail[i].id \in waiting
              \/ \E j \in DOMAIN mail : j > i /\ mail[j].is = "cancel" /\ mail[j].id = mail[i].id
        /\ \A e \in ToSet(queue) : e.id \in waiting \/ Over(e.id)
    BY DEF Dialogs, Tracked
  <2>7. n \in DOMAIN mail' /\ mail'[n].is = "cancel" /\ mail'[n].id = old
    BY <1>1, <1>3, <1>4
  <2>8. \A i \in DOMAIN mail' : mail'[i].is # "cancel" =>
            \/ mail'[i].id \in waiting'
            \/ \E j \in DOMAIN mail' : j > i /\ mail'[j].is = "cancel" /\ mail'[j].id = mail'[i].id
    <3>1. ASSUME NEW i \in DOMAIN mail', mail'[i].is # "cancel"
          PROVE  \/ mail'[i].id \in waiting'
                 \/ \E j \in DOMAIN mail' : j > i /\ mail'[j].is = "cancel"
                                            /\ mail'[j].id = mail'[i].id
      <4>1. i \in DOMAIN mail /\ mail'[i] = mail[i] /\ n > i
        BY <1>3, <2>7, <3>1
      <4>2. CASE mail[i].id = old
        BY <2>7, <4>1, <4>2
      <4>3. CASE mail[i].id \in waiting /\ mail[i].id # old
        BY <1>4, <4>1, <4>3
      <4>4. CASE \E j \in DOMAIN mail : j > i /\ mail[j].is = "cancel" /\ mail[j].id = mail[i].id
        BY <1>3, <4>1, <4>4
      <4> QED BY <2>6, <3>1, <4>1, <4>2, <4>3, <4>4
    <3> QED BY <3>1
  <2>9. ASSUME NEW e \in ToSet(queue) PROVE e.id \in waiting' \/ Over(e.id)'
    <3>1. CASE e.id = old
      BY <2>7, <3>1 DEF Over
    <3>2. CASE e.id \in waiting /\ e.id # old
      BY <1>4, <3>2
    <3>3. CASE Over(e.id)
      BY <1>3, <3>3 DEF Over
    <3> QED BY <2>6, <3>1, <3>2, <3>3
  <2> QED BY <2>2, <2>3, <2>5, <2>8, <2>9 DEF Tracked, Over, Open
<1> QED BY <1>5, <1>6, <1>8 DEF Dialogs

\* The window hears of a question, or of its end.
LEMMA DialogsHear ==
  ASSUME TypeOK, Dialogs, Hear
  PROVE  Dialogs'
<1>1. PICK m : m = Head(mail)
  OBVIOUS
<1>2. PICK M : M = mail'
  OBVIOUS
<1>3. /\ mail # <<>> /\ M = Tail(mail) /\ m \in Questions \cup Cancels
      /\ UNCHANGED <<conn, asked, waiting, answer, reply>>
      /\ m.is = "cancel" => ToSet(queue') = {e \in ToSet(queue) : e.id # m.id}
      /\ m.is # "cancel" => ToSet(queue') = ToSet(queue) \cup {m}
  BY <1>1, <1>2, HearIs
<1>4. /\ m = mail[1] /\ 1 \in DOMAIN mail
      /\ \A i \in DOMAIN M : i + 1 \in DOMAIN mail /\ M[i] = mail[i + 1] /\ i \in Nat \ {0}
      /\ \A i \in DOMAIN mail : i # 1 => i - 1 \in DOMAIN M /\ M[i - 1] = mail[i]
      /\ \A i \in DOMAIN mail : i \in Nat \ {0}
      /\ ToSet(mail) = {m} \cup ToSet(M)
  <2>1. mail \in Seq(Questions \cup Cancels)
    BY DEF TypeOK
  <2>2. /\ m = mail[1] /\ 1 \in DOMAIN mail /\ M \in Seq(Questions \cup Cancels)
        /\ \A i \in DOMAIN M : i + 1 \in DOMAIN mail /\ M[i] = mail[i + 1]
        /\ \A i \in DOMAIN mail : i # 1 => i - 1 \in DOMAIN M
        /\ ToSet(mail) = {m} \cup ToSet(M)
    BY <1>1, <1>3, <2>1, TailIs
  <2>3. (\A i \in DOMAIN mail : i \in Nat \ {0}) /\ \A i \in DOMAIN M : i \in Nat \ {0}
    BY <2>1, <2>2
  <2>4. ASSUME NEW i \in DOMAIN mail, i # 1 PROVE i - 1 \in DOMAIN M /\ M[i - 1] = mail[i]
    <3>1. i - 1 \in DOMAIN M /\ M[i - 1] = mail[i - 1 + 1] /\ i - 1 + 1 = i
      BY <2>2, <2>3, <2>4
    <3> QED BY <3>1
  <2> QED BY <2>2, <2>3, <2>4
<1>5. \A id \in Ids : Open(id)' <=> Open(id)
  BY <1>3 DEF Open, OpenIn
<1>6. Numbers'
  BY <1>2, <1>3, <1>4 DEF Dialogs, Numbers
<1>7. /\ \A i, j \in DOMAIN mail : mail[i].is # "cancel" /\ mail[j].is # "cancel" /\ i # j
            => mail[i].id # mail[j].id
      /\ \A i \in DOMAIN mail : mail[i].is # "cancel" =>
            /\ \A e \in ToSet(queue) : e.id # mail[i].id
            /\ \A r \in reply : r.id # mail[i].id
      /\ \A e \in ToSet(queue) : \A r \in reply : e.id # r.id
  BY DEF Dialogs, Once
<1>8. Once'
  <2>1. ASSUME NEW i \in DOMAIN M, NEW j \in DOMAIN M, M[i].is # "cancel", M[j].is # "cancel",
               i # j
        PROVE  M[i].id # M[j].id
    <3>1. i + 1 # j + 1
      BY <1>4, <2>1
    <3> QED BY <1>4, <1>7, <2>1, <3>1
  <2>2. ASSUME NEW i \in DOMAIN M, M[i].is # "cancel", NEW e \in ToSet(queue')
        PROVE  e.id # M[i].id
    <3>1. i + 1 \in DOMAIN mail /\ M[i] = mail[i + 1] /\ i + 1 # 1
      BY <1>4
    <3>2. CASE e \in ToSet(queue)
      BY <1>7, <2>2, <3>1, <3>2
    <3>3. CASE e = m /\ m.is # "cancel"
      BY <1>4, <1>7, <2>2, <3>1, <3>3
    <3> QED BY <1>3, <2>2, <3>2, <3>3
  <2>3. \A i \in DOMAIN M : M[i].is # "cancel" => \A r \in reply : r.id # M[i].id
    BY <1>4, <1>7
  <2>4. ASSUME NEW e \in ToSet(queue'), NEW r \in reply PROVE e.id # r.id
    <3>1. CASE e \in ToSet(queue)
      BY <1>7, <3>1
    <3>2. CASE e = m /\ m.is # "cancel"
      BY <1>4, <1>7, <3>2
    <3> QED BY <1>3, <2>4, <3>1, <3>2
  <2>5. reply' = reply
    BY <1>3
  <2> QED BY <1>2, <2>1, <2>2, <2>3, <2>4, <2>5 DEF Once
<1>9. /\ \A id \in waiting : Open(id)
      /\ \A i \in DOMAIN mail : mail[i].is = "cancel" => ~Open(mail[i].id)
      /\ \A id \in waiting : \/ \E i \in DOMAIN mail : mail[i].is # "cancel" /\ mail[i].id = id
                             \/ \E e \in ToSet(queue) : e.id = id
                             \/ \E r \in reply : r.id = id
      /\ \A i \in DOMAIN mail : mail[i].is # "cancel" =>
            \/ mail[i].id \in waiting
            \/ \E j \in DOMAIN mail : j > i /\ mail[j].is = "cancel" /\ mail[j].id = mail[i].id
      /\ \A e \in ToSet(queue) : e.id \in waiting \/ Over(e.id)
  BY DEF Dialogs, Tracked
<1>10. Tracked'
  <2>1. \A id \in waiting : Open(id)'
    BY <1>5, <1>9, MailTyped
  <2>2. ASSUME NEW i \in DOMAIN M, M[i].is = "cancel" PROVE ~OpenIn(M[i].id, asked, conn)
    BY <1>4, <1>9, <2>2 DEF Open
  <2>3. ASSUME NEW id \in waiting
        PROVE  \/ \E i \in DOMAIN M : M[i].is # "cancel" /\ M[i].id = id
               \/ \E e \in ToSet(queue') : e.id = id
               \/ \E r \in reply : r.id = id
    <3>1. CASE \E r \in reply : r.id = id
      BY <3>1
    <3>2. ASSUME NEW e \in ToSet(queue), e.id = id PROVE \E f \in ToSet(queue') : f.id = id
      <4>1. m.is = "cancel" => m.id # id
        BY <1>4, <1>9
      <4> QED BY <1>3, <3>2, <4>1
    <3>3. ASSUME NEW i \in DOMAIN mail, mail[i].is # "cancel", mail[i].id = id
          PROVE  \/ \E j \in DOMAIN M : M[j].is # "cancel" /\ M[j].id = id
                 \/ \E e \in ToSet(queue') : e.id = id
      <4>1. CASE i = 1
        BY <1>3, <1>4, <3>3, <4>1
      <4>2. CASE i # 1
        BY <1>4, <3>3, <4>2
      <4> QED BY <4>1, <4>2
    <3> QED BY <1>9, <3>1, <3>2, <3>3
  <2>4. ASSUME NEW i \in DOMAIN M, M[i].is # "cancel"
        PROVE  \/ M[i].id \in waiting
               \/ \E j \in DOMAIN M : j > i /\ M[j].is = "cancel" /\ M[j].id = M[i].id
    <3>1. i + 1 \in DOMAIN mail /\ M[i] = mail[i + 1] /\ i \in Nat \ {0}
      BY <1>4
    <3>2. CASE mail[i + 1].id \in waiting
      BY <3>1, <3>2
    <3>3. ASSUME NEW j \in DOMAIN mail, j > i + 1, mail[j].is = "cancel",
                 mail[j].id = mail[i + 1].id
          PROVE  \E k \in DOMAIN M : k > i /\ M[k].is = "cancel" /\ M[k].id = M[i].id
      <4>1. j \in Nat /\ j # 1 /\ j - 1 > i
        BY <1>4, <3>1, <3>3
      <4>2. j - 1 \in DOMAIN M /\ M[j - 1] = mail[j]
        BY <1>4, <4>1
      <4> QED BY <3>1, <3>3, <4>1, <4>2
    <3> QED BY <1>9, <2>4, <3>1, <3>2, <3>3
  <2>5. ASSUME NEW e \in ToSet(queue')
        PROVE  e.id \in waiting \/ \E k \in DOMAIN M : M[k].is = "cancel" /\ M[k].id = e.id
    <3>1. ASSUME e \in ToSet(queue), NEW j \in DOMAIN mail, mail[j].is = "cancel",
                 mail[j].id = e.id
          PROVE  \E k \in DOMAIN M : M[k].is = "cancel" /\ M[k].id = e.id
      <4>1. CASE j # 1
        BY <1>4, <3>1, <4>1
      <4>2. CASE j = 1
        BY <1>3, <1>4, <2>5, <3>1, <4>2
      <4> QED BY <4>1, <4>2
    <3>2. CASE e \in ToSet(queue)
      BY <1>9, <3>1, <3>2 DEF Over
    <3>3. ASSUME e = m, m.is # "cancel"
          PROVE  e.id \in waiting \/ \E k \in DOMAIN M : M[k].is = "cancel" /\ M[k].id = e.id
      <4>1. ASSUME NEW j \in DOMAIN mail, j > 1, mail[j].is = "cancel", mail[j].id = mail[1].id
            PROVE  \E k \in DOMAIN M : M[k].is = "cancel" /\ M[k].id = e.id
        <5>1. j # 1
          BY <1>4, <4>1
        <5> QED BY <1>4, <3>3, <4>1, <5>1
      <4> QED BY <1>4, <1>9, <3>3, <4>1
    <3> QED BY <1>3, <2>5, <3>2, <3>3
  <2>6. reply' = reply /\ waiting' = waiting /\ asked' = asked /\ conn' = conn
    BY <1>3
  <2> QED BY <1>2, <2>1, <2>2, <2>3, <2>4, <2>5, <2>6 DEF Tracked, Over, Open
<1> QED BY <1>6, <1>8, <1>10 DEF Dialogs

\* The user answers: the dialog leaves the queue and its answer is on its way.
LEMMA DialogsPress ==
  ASSUME TypeOK, Dialogs, Press
  PROVE  Dialogs'
<1>1. UNCHANGED <<conn, asked, waiting, mail>>
  BY PressIs
<1>2. PICK e \in ToSet(queue) : \E decision \in Buttons(e) :
         /\ ToSet(queue') = {f \in ToSet(queue) : f.id # e.id}
         /\ reply' = reply \cup {[id |-> e.id, decision |-> decision]}
  BY PressIs
<1>3. PICK s : s.id = e.id /\ reply' = reply \cup {s}
  <2>1. PICK decision \in Buttons(e) : reply' = reply \cup {[id |-> e.id, decision |-> decision]}
    BY <1>2
  <2>2. [id |-> e.id, decision |-> decision].id = e.id
    OBVIOUS
  <2> QED BY <2>1, <2>2
<1>4. /\ \A x \in ToSet(mail) \cup ToSet(queue) : x.id.n <= asked[x.id.by]
      /\ \A r \in reply : r.id.n <= asked[r.id.by]
  BY DEF Dialogs, Numbers
<1>5. Numbers'
  <2>1. \A r \in reply' : r.id.n <= asked[r.id.by]
    BY <1>3, <1>4
  <2>2. \A x \in ToSet(mail) \cup ToSet(queue') : x.id.n <= asked[x.id.by]
    BY <1>2, <1>4
  <2> QED BY <1>1, <2>1, <2>2 DEF Numbers
<1>6. Once'
  <2>1. /\ \A i, j \in DOMAIN mail : mail[i].is # "cancel" /\ mail[j].is # "cancel" /\ i # j
              => mail[i].id # mail[j].id
        /\ \A i \in DOMAIN mail : mail[i].is # "cancel" =>
              /\ \A x \in ToSet(queue) : x.id # mail[i].id
              /\ \A r \in reply : r.id # mail[i].id
        /\ \A x \in ToSet(queue) : \A r \in reply : x.id # r.id
    BY DEF Dialogs, Once
  <2>2. \A i \in DOMAIN mail : mail[i].is # "cancel" =>
              /\ \A x \in ToSet(queue') : x.id # mail[i].id
              /\ \A r \in reply' : r.id # mail[i].id
    BY <1>2, <1>3, <2>1
  <2>3. \A x \in ToSet(queue') : \A r \in reply' : x.id # r.id
    BY <1>2, <1>3, <2>1
  <2> QED BY <1>1, <2>1, <2>2, <2>3 DEF Once
<1>7. Tracked'
  <2>1. /\ \A id \in waiting : Open(id)
        /\ \A i \in DOMAIN mail : mail[i].is = "cancel" => ~Open(mail[i].id)
        /\ \A id \in waiting : \/ \E i \in DOMAIN mail : mail[i].is # "cancel" /\ mail[i].id = id
                               \/ \E x \in ToSet(queue) : x.id = id
                               \/ \E r \in reply : r.id = id
        /\ \A i \in DOMAIN mail : mail[i].is # "cancel" =>
              \/ mail[i].id \in waiting
              \/ \E j \in DOMAIN mail : j > i /\ mail[j].is = "cancel" /\ mail[j].id = mail[i].id
        /\ \A x \in ToSet(queue) : x.id \in waiting \/ Over(x.id)
    BY DEF Dialogs, Tracked
  <2>2. \A id \in waiting : \/ \E i \in DOMAIN mail : mail[i].is # "cancel" /\ mail[i].id = id
                            \/ \E x \in ToSet(queue') : x.id = id
                            \/ \E r \in reply' : r.id = id
    <3>1. ASSUME NEW id \in waiting, NEW x \in ToSet(queue), x.id = id
          PROVE  (\E y \in ToSet(queue') : y.id = id) \/ \E r \in reply' : r.id = id
      BY <1>2, <1>3, <3>1
    <3>2. \A id \in waiting : (\E r \in reply : r.id = id) => \E r \in reply' : r.id = id
      BY <1>3
    <3> QED BY <2>1, <3>1, <3>2
  <2>3. \A x \in ToSet(queue') : x.id \in waiting \/ Over(x.id)
    BY <1>2, <2>1
  <2> QED BY <1>1, <2>1, <2>2, <2>3 DEF Tracked, Over, Open
<1> QED BY <1>5, <1>6, <1>7 DEF Dialogs

\* An answer comes in, for the question that waits or for nobody.
LEMMA DialogsRespond ==
  ASSUME Shaped, Dialogs, Respond
  PROVE  Dialogs'
<1>1. UNCHANGED <<conn, asked, mail, queue>>
  BY RespondIs
<1>2. PICK r \in reply : reply' = reply \ {r} /\ waiting' = waiting \ {r.id}
  BY RespondIs
<1>3. Numbers'
  BY <1>1, <1>2 DEF Dialogs, Numbers
<1>4. /\ \A i, j \in DOMAIN mail : mail[i].is # "cancel" /\ mail[j].is # "cancel" /\ i # j
            => mail[i].id # mail[j].id
      /\ \A i \in DOMAIN mail : mail[i].is # "cancel" =>
            /\ \A x \in ToSet(queue) : x.id # mail[i].id
            /\ \A a \in reply : a.id # mail[i].id
      /\ \A x \in ToSet(queue) : \A a \in reply : x.id # a.id
  BY DEF Dialogs, Once
<1>5. Once'
  BY <1>1, <1>2, <1>4 DEF Once
<1>6. Tracked'
  <2>1. /\ \A id \in waiting : Open(id)
        /\ \A i \in DOMAIN mail : mail[i].is = "cancel" => ~Open(mail[i].id)
        /\ \A id \in waiting : \/ \E i \in DOMAIN mail : mail[i].is # "cancel" /\ mail[i].id = id
                               \/ \E x \in ToSet(queue) : x.id = id
                               \/ \E a \in reply : a.id = id
        /\ \A i \in DOMAIN mail : mail[i].is # "cancel" =>
              \/ mail[i].id \in waiting
              \/ \E j \in DOMAIN mail : j > i /\ mail[j].is = "cancel" /\ mail[j].id = mail[i].id
        /\ \A x \in ToSet(queue) : x.id \in waiting \/ Over(x.id)
    BY DEF Dialogs, Tracked
  <2>2. \A id \in waiting' : \/ \E i \in DOMAIN mail : mail[i].is # "cancel" /\ mail[i].id = id
                             \/ \E x \in ToSet(queue) : x.id = id
                             \/ \E a \in reply' : a.id = id
    BY <1>2, <2>1
  <2>3. \A i \in DOMAIN mail : mail[i].is # "cancel" =>
              \/ mail[i].id \in waiting'
              \/ \E j \in DOMAIN mail : j > i /\ mail[j].is = "cancel" /\ mail[j].id = mail[i].id
    BY <1>2, <1>4, <2>1
  <2>4. \A x \in ToSet(queue) : x.id \in waiting' \/ Over(x.id)
    BY <1>2, <1>4, <2>1
  <2> QED BY <1>1, <1>2, <2>1, <2>2, <2>3, <2>4 DEF Tracked, Over, Open
<1> QED BY <1>3, <1>5, <1>6 DEF Dialogs

LEMMA RespondShaped ==
  ASSUME Shaped, Dialogs, Respond
  PROVE  Shaped'
<1>1. UNCHANGED <<files, conn, asked, mail, queue, consent, edits>> /\ TypeOK
  BY RespondIs DEF Shaped
<1>2. PICK r \in reply :
         /\ reply' = reply \ {r} /\ waiting' = waiting \ {r.id}
         /\ answer' \in [Connects -> Decisions \cup {None}]
         /\ \A c \in Connects :
               answer'[c] = IF r.id \in waiting /\ c = r.id.by THEN r.decision ELSE answer[c]
  BY RespondIs
<1>3. TypeOK'
  BY <1>1, <1>2 DEF TypeOK, files
<1>4. r.id \in waiting => Asks(r.id.by)
  BY DEF Dialogs, Tracked, Open, OpenIn, Asks
<1>5. Steady'
  <2>1. \A c \in Connects : answer'[c] # None => Asks(c)
    BY <1>2, <1>4 DEF Shaped, Steady
  <2> QED BY <1>1, <2>1 DEF Shaped, Steady, Asks, files
<1> QED BY <1>3, <1>5 DEF Shaped

-----------------------------------------------------------------------------
(* What is written stays *)

LEMMA WriteKeeps ==
  ASSUME TypeOK, Locks, LearnedStays, Write, rewrite.by # None
  PROVE  Locks' /\ LearnedStays'
<1>1. /\ ours' = rewrite.kept /\ rewrite' = NoRewrite
      /\ trusted' = {p \in trusted : \A l \in rewrite.gone : p[1] \notin l.hosts \/ p[2] # l.key}
  BY DEF Write
<1>2. rewrite.gone = ToSet(ours) \ ToSet(rewrite.kept)
  BY DEF Locks
<1>3. LearnedStays'
  BY <1>1, <1>2 DEF LearnedStays
<1>4. Locks'
  BY <1>1 DEF Locks, NoRewrite
<1> QED BY <1>3, <1>4

LEMMA FilesStay ==
  ASSUME Shaped, Locks, LearnedStays, [Next]_vars
  PROVE  Locks' /\ LearnedStays'
<1>1. TypeOK /\ None \notin Connects /\ None # "panel"
  BY TrustAssumption DEF Shaped, TrustAssumption
<1>2. CASE UNCHANGED files
  BY <1>2 DEF Locks, LearnedStays, files
<1>3. CASE UNCHANGED <<rewrite, trusted>> /\ LockFree /\ ToSet(ours) \subseteq ToSet(ours')
  BY <1>3 DEF Locks, LearnedStays, LockFree, NoRewrite
<1>4. ASSUME NEW c \in Connects, Learn(c) PROVE Locks' /\ LearnedStays'
  <2>1. /\ rewrite' = rewrite /\ LockFree /\ Host(c) \in Hosts /\ conn[c].key \in Keys
        /\ ours' = Learned(Host(c), conn[c].key)
        /\ trusted' = trusted \cup {<<Host(c), conn[c].key>>}
    BY <1>4, LearnIs
  <2>2. /\ ToSet(ours) \subseteq ToSet(ours')
        /\ \E l \in ToSet(ours') : l.mark = "none" /\ Host(c) \in l.hosts /\ conn[c].key = l.key
    BY <1>1, <2>1, LearnedIs
  <2>3. LearnedStays'
    BY <2>1, <2>2 DEF LearnedStays
  <2> QED BY <2>1, <2>3 DEF Locks, LockFree, NoRewrite
<1>5. ASSUME NEW by \in Connects \cup {"panel"}, NEW hh \in Hosts, NEW types,
             Read(by, hh, types), UNCHANGED <<ours, theirs, trusted>>
      PROVE  Locks' /\ LearnedStays'
  <2>1. rewrite'.by = by /\ rewrite'.gone = ToSet(ours) \ ToSet(rewrite'.kept)
    BY <1>1, <1>5, ReadIs
  <2>2. by # None
    BY <1>1
  <2> QED BY <1>5, <2>1, <2>2 DEF Locks, LearnedStays
<1>6. ASSUME NEW c \in Connects, Start(c) \/ ConnectStep(c) PROVE Locks' /\ LearnedStays'
  <2>1. CASE Start(c)
    BY <1>2, <2>1 DEF Start
  <2>2. ASSUME NEW k \in Keys, Offered(c, k) PROVE Locks' /\ LearnedStays'
    BY <1>2, <2>2, OfferedIs
  <2>3. CASE Decided(c)
    BY <1>2, <2>3 DEF Decided
  <2>4. CASE Learn(c)
    BY <1>4, <2>4
  <2>5. CASE NotLearned(c)
    BY <1>2, <2>5 DEF NotLearned
  <2>6. CASE ReplaceReads(c)
    <3>1. Host(c) \in Hosts /\ Read(c, Host(c), {KeyType[conn[c].key]})
          /\ UNCHANGED <<ours, theirs, trusted>>
      BY <1>1, <2>6, HostTyped DEF ReplaceReads, Shaped, Steady
    <3> QED BY <1>5, <3>1
  <2>7. CASE ReplaceWrites(c)
    BY <1>1, <2>7, WriteKeeps DEF ReplaceWrites
  <2>8. CASE ReplaceFails(c)
    BY <2>8 DEF ReplaceFails, Locks, LearnedStays, NoRewrite
  <2>9. CASE Authenticated(c)
    BY <1>2, <2>9 DEF Authenticated
  <2>10. CASE InfoRequest(c)
    BY <1>2, <2>10 DEF InfoRequest
  <2>11. CASE RoundAnswered(c)
    BY <1>2, <2>11 DEF RoundAnswered
  <2>12. CASE Breaks(c)
    BY <1>2, <2>12 DEF Breaks
  <2> QED BY <1>6, <2>1, <2>2, <2>3, <2>4, <2>5, <2>6, <2>7, <2>8, <2>9, <2>10, <2>11, <2>12
          DEF ConnectStep
<1>7. ASSUME NEW hh \in Hosts, ForgetReads(hh) PROVE Locks' /\ LearnedStays'
  BY <1>5, <1>7 DEF ForgetReads
<1>8. CASE ForgetWrites
  BY <1>1, <1>8, WriteKeeps DEF ForgetWrites
<1>9. CASE import_lines
  BY <1>3, <1>9, ImportShaped
<1>10. CASE Hear \/ Press \/ Respond
  BY <1>2, <1>10 DEF Hear, Press, Respond
<1>11. CASE UNCHANGED vars
  BY <1>2, <1>11 DEF vars
<1> QED BY <1>6, <1>7, <1>8, <1>9, <1>10, <1>11 DEF Next

-----------------------------------------------------------------------------
(* What is accepted is vouched for *)

Trusting == Honest /\ AcceptedIsVouched

\* Why the key of c is good.
Vouched(c) == \/ conn[c].status \in {"match", "mirror"}
              \/ conn[c].status = "unknown" /\ conn[c].policy = "accept-new"
              \/ Said(c)

Accepting == {"learning", "replacing", "auth", "round"}

LEMMA VouchedAre ==
  AcceptedIsVouched <=> \A c \in Connects : conn[c].at \in Accepting => Vouched(c)
BY DEF AcceptedIsVouched, Vouched, Accepting, Said

\* What the steps of one connect leave of the others.
LEMMA OneTrusts ==
  ASSUME Shaped, Trusting, NEW c \in Connects, Others(c),
         \A d \in Connects : d # c => asked'[d] = asked[d] /\ answer'[d] = answer[d],
         \A y \in consent : y[1] # c => y \in consent',
         \A e \in ToSet(mail') \cup ToSet(queue') :
            e.id.by \in Connects /\ (e \in ToSet(mail) \cup ToSet(queue) \/ e.is = "cancel"
                                     \/ e.id.by = c),
         reply' = reply,
         conn'[c].at \in Accepting => Vouched(c)',
         conn'[c].at = "asking" =>
            /\ answer'[c] = None
            /\ \A e \in ToSet(mail') \cup ToSet(queue') :
                  e.is = "host key" /\ e.id.by = c /\ e.id.n = asked'[c] =>
                     e.host = Host(c)' /\ e.key = conn'[c].key
            /\ \A r \in reply : r.id.by = c => r.id.n # asked'[c]
  PROVE  Trusting'
<1>1. TypeOK /\ None \notin Yes /\ \A r \in reply : r.id.by \in Connects
  BY MailTyped, TrustAssumption DEF Shaped, TrustAssumption, Yes
<1>2. ASSUME NEW d \in Connects, d # c
      PROVE  /\ conn'[d] = conn[d] /\ asked'[d] = asked[d] /\ answer'[d] = answer[d]
             /\ Said(d) => Said(d)'
  <2>1. conn'[d] = conn[d]
    BY <1>2 DEF Others
  <2>2. Said(d) => Said(d)'
    <3>1. PICK y : y = <<d, Host(d), conn[d].key>>
      OBVIOUS
    <3>2. y[1] # c
      BY <1>2, <3>1
    <3>3. y \in consent => y \in consent'
      BY <3>2
    <3>4. <<d, Host(d)', conn'[d].key>> = y
      BY <2>1, <3>1 DEF Host
    <3> QED BY <3>1, <3>3, <3>4 DEF Said
  <2> QED BY <1>2, <2>1, <2>2
<1>3. ASSUME NEW e \in ToSet(mail') \cup ToSet(queue'), e.is = "host key",
             OpenIn(e.id, asked', conn'), conn'[e.id.by].at = "asking"
      PROVE  e.host = Host(e.id.by)' /\ e.key = conn'[e.id.by].key
  <2>1. CASE e.id.by = c
    BY <1>3, <2>1 DEF OpenIn
  <2>2. CASE e.id.by # c
    <3>1. PICK d \in Connects : d = e.id.by /\ d # c /\ e \in ToSet(mail) \cup ToSet(queue)
      BY <1>3, <2>2
    <3>2. conn'[d] = conn[d] /\ asked'[d] = asked[d]
      BY <1>2, <3>1
    <3>3. Open(e.id) /\ conn[d].at = "asking"
      BY <1>3, <3>1, <3>2 DEF Open, OpenIn
    <3>4. e.host = Host(d) /\ e.key = conn[d].key
      BY <1>3, <3>1, <3>3 DEF Trusting, Honest
    <3> QED BY <3>1, <3>2, <3>4 DEF Host
  <2> QED BY <2>1, <2>2
<1>4. ASSUME NEW r \in reply, OpenIn(r.id, asked', conn'), conn'[r.id.by].at = "asking",
             r.decision \in Yes
      PROVE  Said(r.id.by)'
  <2>1. CASE r.id.by = c
    BY <1>4, <2>1 DEF OpenIn
  <2>2. CASE r.id.by # c
    <3>1. PICK d \in Connects : d = r.id.by /\ d # c
      BY <1>1, <2>2
    <3>2. conn'[d] = conn[d] /\ asked'[d] = asked[d] /\ (Said(d) => Said(d)')
      BY <1>2, <3>1
    <3>3. Open(r.id) /\ conn[d].at = "asking"
      BY <1>4, <3>1, <3>2 DEF Open, OpenIn
    <3>4. Said(d)
      BY <1>4, <3>1, <3>3 DEF Trusting, Honest
    <3>5. Said(d)'
      BY <3>2, <3>4
    <3> QED BY <3>1, <3>5
  <2> QED BY <2>1, <2>2
<1>5. ASSUME NEW d \in Connects, conn'[d].at = "asking", answer'[d] \in Yes PROVE Said(d)'
  <2>1. CASE d = c
    BY <1>1, <1>5, <2>1
  <2>2. CASE d # c
    BY <1>2, <1>5, <2>2 DEF Trusting, Honest
  <2> QED BY <2>1, <2>2
<1>6. Honest'
  BY <1>3, <1>4, <1>5 DEF Honest, Open
<1>7. ASSUME NEW d \in Connects, conn'[d].at \in Accepting PROVE Vouched(d)'
  <2>1. CASE d = c
    BY <1>7, <2>1
  <2>2. CASE d # c
    <3>1. conn[d].at \in Accepting /\ conn'[d] = conn[d] /\ (Said(d) => Said(d)')
      BY <1>2, <1>7, <2>2
    <3>2. Vouched(d)
      BY <3>1, VouchedAre DEF Trusting
    <3> QED BY <3>1, <3>2 DEF Vouched
  <2> QED BY <2>1, <2>2
<1>8. AcceptedIsVouched'
  BY <1>7 DEF AcceptedIsVouched, Vouched, Accepting, Said
<1> QED BY <1>6, <1>8 DEF Trusting

\* A connect that asks nothing leaves the questions and the answers as they are.
LEMMA QuietTrusts ==
  ASSUME Shaped, Trusting, NEW c \in Connects, Others(c), UNCHANGED prompts,
         conn'[c].at # "asking", conn'[c].at \in Accepting => Vouched(c)'
  PROVE  Trusting'
<1>1. /\ UNCHANGED <<asked, answer, mail, queue, reply, consent>> /\ TypeOK
  BY DEF prompts, Shaped
<1>2. \A e \in ToSet(mail) \cup ToSet(queue) : e.id.by \in Connects
  <2>1. \A e \in ToSet(mail) \cup ToSet(queue) : e.id \in Ids
    BY <1>1, MailTyped DEF ToSet
  <2> QED BY <1>1, <2>1, MailTyped
<1> QED BY <1>1, <1>2, OneTrusts

\* A good key stays good while its connect moves on.
LEMMA MovedVouched ==
  ASSUME Shaped, Trusting, NEW c \in Connects, conn[c].at \in Accepting, NEW at \in Places,
         conn'[c] = Moved(c, at), consent' = consent
  PROVE  Vouched(c)' /\ conn'[c].at = at
<1>1. Vouched(c)
  BY VouchedAre DEF Trusting
<1>2. TypeOK
  BY DEF Shaped
<1>3. /\ conn'[c].at = at /\ conn'[c].path = conn[c].path /\ conn'[c].key = conn[c].key
      /\ conn'[c].status = conn[c].status /\ conn'[c].policy = conn[c].policy
  BY <1>2, MovedIs
<1> QED BY <1>1, <1>3 DEF Vouched, Said, Host

LEMMA PlacesAre ==
  /\ {"idle", "dialing", "asking", "learning", "replacing", "auth", "round"} \subseteq Places
  /\ NoConnect.at = "idle" /\ Accepting \subseteq Places
BY DEF Places, NoConnect, Accepting

LEMMA OfferedTrusts ==
  ASSUME Shaped, Trusting, Dialogs, NEW c \in Connects, NEW k \in Keys, Offered(c, k)
  PROVE  Trusting'
<1>1. /\ TypeOK /\ Others(c) /\ conn[c].at = "dialing" /\ Turns(c)
  BY OfferedIs DEF Shaped
<1>2. CASE Ends(c) /\ UNCHANGED prompts
  <2>1. conn'[c].at = "idle"
    BY <1>1, <1>2, EndsTurns, PlacesAre
  <2> QED BY <1>1, <1>2, <2>1, QuietTrusts DEF Accepting
<1>3. ASSUME NEW status \in Statuses, NEW at \in {"auth", "learning", "asking"},
             conn'[c] = NowTold(c, k, status, at),
             at = "asking" => Ask(c, "host key", Host(c), k, status),
             at # "asking" =>
                /\ UNCHANGED prompts
                /\ \/ status \in {"match", "mirror"}
                   \/ status = "unknown" /\ conn[c].policy = "accept-new"
      PROVE  Trusting'
  <2>1. at \in Places
    BY DEF Places
  <2>2. /\ conn'[c].at = at /\ conn'[c].key = k /\ conn'[c].status = status
        /\ conn'[c].path = conn[c].path /\ conn'[c].policy = conn[c].policy
    <3>1. TypeOK
      BY <1>1
    <3>2. /\ NowTold(c, k, status, at).at = at /\ NowTold(c, k, status, at).key = k
          /\ NowTold(c, k, status, at).status = status
          /\ NowTold(c, k, status, at).path = conn[c].path
          /\ NowTold(c, k, status, at).policy = conn[c].policy
      BY <2>1, <3>1, NowToldIs
    <3> QED BY <1>3, <3>2
  <2>3. CASE at # "asking"
    <3>1. Vouched(c)'
      BY <1>3, <2>2, <2>3 DEF Vouched
    <3> QED BY <1>1, <1>3, <2>2, <2>3, <3>1, QuietTrusts
  <2>4. CASE at = "asking"
    <3> DEFINE q == [is |-> "host key", id |-> Id(c, asked[c] + 1), host |-> Host(c), key |-> k,
                     status |-> status]
    <3>1. /\ asked' = [asked EXCEPT ![c] = asked[c] + 1] /\ mail' = Append(mail, q)
          /\ UNCHANGED <<answer, queue, reply, consent>>
      BY <1>3, <2>4 DEF Ask
    <3>2. q \in Questions
      <4>1. Host(c) \in Hosts /\ Id(c, asked[c] + 1) \in Ids
        BY <1>1, NowTyped, OfferedIs
      <4> QED BY <4>1 DEF Questions
    <3>3. q.id.by = c /\ q.id.n = asked[c] + 1 /\ q.host = Host(c) /\ q.key = k
      BY DEF Id
    <3> HIDE DEF q
    <3>4. ToSet(mail') = ToSet(mail) \cup {q}
      <4>1. mail \in Seq(Questions \cup Cancels) /\ q \in Questions \cup Cancels
        BY <1>1, <3>2 DEF TypeOK
      <4> QED BY <3>1, <4>1, AppendedIs
    <3>5. asked \in [Connects -> Nat]
      BY <1>1 DEF TypeOK
    <3>6. asked'[c] = asked[c] + 1 /\ \A d \in Connects : d # c => asked'[d] = asked[d]
      BY <3>1, <3>5
    <3>7. \A e \in ToSet(mail) \cup ToSet(queue) : e.id \in Ids /\ e.id.by \in Connects
      BY <1>1, MailTyped DEF ToSet
    <3>8. ASSUME NEW e \in ToSet(mail) \cup ToSet(queue), e.id.by = c PROVE e.id.n # asked'[c]
      <4>1. e.id.n <= asked[c] /\ e.id.n \in Nat /\ asked[c] \in Nat
        BY <1>1, <3>5, <3>7, <3>8, MailTyped DEF Dialogs, Numbers
      <4> QED BY <3>6, <4>1
    <3>9. ASSUME NEW r \in reply, r.id.by = c PROVE r.id.n # asked'[c]
      <4>1. r.id.n <= asked[c] /\ r.id.n \in Nat /\ asked[c] \in Nat
        BY <1>1, <3>5, <3>9, MailTyped DEF Dialogs, Numbers
      <4> QED BY <3>6, <4>1
    <3>10. answer'[c] = None
      BY <1>1, <3>1 DEF Shaped, Steady, Asks
    <3>11. Host(c)' = Host(c)
      BY <2>2 DEF Host
    <3>12. \A e \in ToSet(mail') \cup ToSet(queue') :
              e.is = "host key" /\ e.id.by = c /\ e.id.n = asked'[c] =>
                 e.host = Host(c)' /\ e.key = conn'[c].key
      BY <2>2, <3>1, <3>3, <3>4, <3>8, <3>11
    <3>13. \A e \in ToSet(mail') \cup ToSet(queue') :
              e.id.by \in Connects /\ (e \in ToSet(mail) \cup ToSet(queue) \/ e.is = "cancel"
                                       \/ e.id.by = c)
      BY <3>1, <3>3, <3>4, <3>7
    <3>14. conn'[c].at \notin Accepting
      BY <2>2, <2>4 DEF Accepting
    <3>15. /\ \A d \in Connects : d # c => asked'[d] = asked[d] /\ answer'[d] = answer[d]
           /\ reply' = reply /\ \A y \in consent : y[1] # c => y \in consent'
      BY <3>1, <3>6
    <3> QED BY <1>1, <3>9, <3>10, <3>12, <3>13, <3>14, <3>15, OneTrusts
  <2> QED BY <2>3, <2>4
<1>4. \/ Ends(c) /\ UNCHANGED prompts
      \/ \E status \in Statuses, at \in {"auth", "learning", "asking"} :
            /\ conn'[c] = NowTold(c, k, status, at)
            /\ at = "asking" => Ask(c, "host key", Host(c), k, status)
            /\ at # "asking" =>
                  /\ UNCHANGED prompts
                  /\ \/ status \in {"match", "mirror"}
                     \/ status = "unknown" /\ conn[c].policy = "accept-new"
  BY OfferedIs
<1> QED BY <1>2, <1>3, <1>4

\* What Resume and a login's Ask put in the mail is no host key.
LEMMA ResumeTrusts ==
  ASSUME Shaped, Trusting, NEW c \in Connects, Others(c), Resume(c),
         conn'[c].at # "asking", conn'[c].at \in Accepting => Vouched(c)'
  PROVE  Trusting'
<1> DEFINE q == [is |-> "cancel", id |-> Now(c)]
<1>1. /\ TypeOK /\ mail' = Append(mail, q) /\ answer' = [answer EXCEPT ![c] = None]
      /\ UNCHANGED <<asked, queue, reply, consent>>
  BY DEF Resume, Shaped
<1>2. q \in Cancels /\ q.is = "cancel" /\ q.id.by = c
  BY <1>1, NowTyped DEF Cancels, Now, Id
<1> HIDE DEF q
<1>3. ToSet(mail') = ToSet(mail) \cup {q}
  <2>1. mail \in Seq(Questions \cup Cancels) /\ q \in Questions \cup Cancels
    BY <1>1, <1>2 DEF TypeOK
  <2> QED BY <1>1, <2>1, AppendedIs
<1>4. \A e \in ToSet(mail) \cup ToSet(queue) : e.id.by \in Connects
  <2>1. \A e \in ToSet(mail) \cup ToSet(queue) : e.id \in Ids
    BY <1>1, MailTyped DEF ToSet
  <2> QED BY <1>1, <2>1, MailTyped
<1>5. \A e \in ToSet(mail') \cup ToSet(queue') :
         e.id.by \in Connects /\ (e \in ToSet(mail) \cup ToSet(queue) \/ e.is = "cancel"
                                  \/ e.id.by = c)
  BY <1>1, <1>2, <1>3, <1>4
<1>6. /\ \A d \in Connects : d # c => asked'[d] = asked[d] /\ answer'[d] = answer[d]
      /\ reply' = reply /\ \A y \in consent : y[1] # c => y \in consent'
  BY <1>1 DEF TypeOK
<1> QED BY <1>5, <1>6, OneTrusts

LEMMA StartTrusts ==
  ASSUME Shaped, Trusting, NEW c \in Connects, Start(c)
  PROVE  Trusting'
<1>1. /\ TypeOK /\ Others(c) /\ conn'[c].at = "dialing"
      /\ UNCHANGED <<files, asked, waiting, answer, mail, queue, reply, edits>>
      /\ consent' = {yes \in consent : yes[1] # c}
  BY StartIs DEF Shaped
<1>2. \A e \in ToSet(mail) \cup ToSet(queue) : e.id.by \in Connects
  <2>1. \A e \in ToSet(mail) \cup ToSet(queue) : e.id \in Ids
    BY <1>1, MailTyped DEF ToSet
  <2> QED BY <1>1, <2>1, MailTyped
<1>3. conn'[c].at \notin Accepting
  BY <1>1 DEF Accepting
<1>4. \A y \in consent : y[1] # c => y \in consent'
  BY <1>1
<1> QED BY <1>1, <1>2, <1>3, <1>4, OneTrusts

LEMMA DecidedTrusts ==
  ASSUME Shaped, Trusting, NEW c \in Connects, Decided(c)
  PROVE  Trusting'
<1>1. /\ TypeOK /\ Others(c) /\ Resume(c) /\ conn[c].at = "asking"
      /\ consent' = consent
  BY DecidedIs DEF Shaped, Resume
<1>2. CASE conn'[c] = NoConnect
  <2>1. conn'[c].at = "idle"
    BY <1>2, PlacesAre
  <2> QED BY <1>1, <2>1, ResumeTrusts DEF Accepting
<1>3. ASSUME NEW at \in {"learning", "auth", "replacing"}, conn'[c] = Moved(c, at),
             answer[c] \in Yes
      PROVE  Trusting'
  <2>1. at \in Places /\ Said(c)
    BY <1>1, <1>3 DEF Places, Trusting, Honest
  <2>2. conn'[c].at = at /\ conn'[c].path = conn[c].path /\ conn'[c].key = conn[c].key
    BY <1>1, <1>3, <2>1, MovedIs
  <2>3. Vouched(c)'
    BY <1>1, <2>1, <2>2 DEF Vouched, Said, Host
  <2>4. conn'[c].at # "asking"
    BY <1>3, <2>2
  <2> QED BY <1>1, <2>3, <2>4, ResumeTrusts
<1> QED BY <1>2, <1>3, DecidedIs

LEMMA RoundTrusts ==
  ASSUME Shaped, Trusting, NEW c \in Connects, RoundAnswered(c)
  PROVE  Trusting'
<1>1. /\ Others(c) /\ Resume(c) /\ conn[c].at = "round" /\ consent' = consent
  BY RoundIs DEF Resume
<1>2. CASE conn'[c] = NoConnect
  <2>1. conn'[c].at = "idle"
    BY <1>2, PlacesAre
  <2> QED BY <1>1, <2>1, ResumeTrusts DEF Accepting
<1>3. CASE conn'[c] = Moved(c, "auth")
  <2>1. "auth" \in Places /\ conn[c].at \in Accepting
    BY <1>1 DEF Places, Accepting
  <2>2. Vouched(c)' /\ conn'[c].at = "auth"
    BY <1>1, <1>3, <2>1, MovedVouched
  <2> QED BY <1>1, <2>2, ResumeTrusts
<1> QED BY <1>2, <1>3, RoundIs

\* A login's question says nothing of a key.
LEMMA InfoTrusts ==
  ASSUME Shaped, Trusting, NEW c \in Connects, InfoRequest(c)
  PROVE  Trusting'
<1> DEFINE q == [is |-> "auth", id |-> Id(c, asked[c] + 1), host |-> Host(c), key |-> None,
                 status |-> "auth"]
<1>1. /\ TypeOK /\ Others(c) /\ conn[c].at = "auth" /\ conn'[c].at = "round" /\ Host(c) \in Hosts
      /\ conn'[c].path = conn[c].path /\ conn'[c].key = conn[c].key
      /\ conn'[c].status = conn[c].status /\ conn'[c].policy = conn[c].policy
      /\ Ask(c, "auth", Host(c), None, "auth")
  BY InfoRequestIs DEF Shaped
<1>2. /\ asked' = [asked EXCEPT ![c] = asked[c] + 1] /\ mail' = Append(mail, q)
      /\ UNCHANGED <<answer, queue, reply, consent>>
  BY <1>1 DEF Ask
<1>3. q \in Questions
  <2>1. Id(c, asked[c] + 1) \in Ids
    BY <1>1, NowTyped
  <2> QED BY <1>1, <2>1 DEF Questions, Statuses
<1>4. q.id.by = c
  BY DEF Id
<1> HIDE DEF q
<1>5. ToSet(mail') = ToSet(mail) \cup {q}
  <2>1. mail \in Seq(Questions \cup Cancels) /\ q \in Questions \cup Cancels
    BY <1>1, <1>3 DEF TypeOK
  <2> QED BY <1>2, <2>1, AppendedIs
<1>6. \A d \in Connects : d # c => asked'[d] = asked[d]
  BY <1>1, <1>2 DEF TypeOK
<1>7. \A e \in ToSet(mail) \cup ToSet(queue) : e.id.by \in Connects
  <2>1. \A e \in ToSet(mail) \cup ToSet(queue) : e.id \in Ids
    BY <1>1, MailTyped DEF ToSet
  <2> QED BY <1>1, <2>1, MailTyped
<1>8. \A e \in ToSet(mail') \cup ToSet(queue') :
         e.id.by \in Connects /\ (e \in ToSet(mail) \cup ToSet(queue) \/ e.is = "cancel"
                                  \/ e.id.by = c)
  BY <1>2, <1>4, <1>5, <1>7
<1>9. Vouched(c)'
  <2>1. Vouched(c)
    BY <1>1, VouchedAre DEF Trusting, Accepting
  <2> QED BY <1>1, <1>2, <2>1 DEF Vouched, Said, Host
<1>10. /\ \A d \in Connects : d # c => asked'[d] = asked[d] /\ answer'[d] = answer[d]
       /\ reply' = reply /\ \A y \in consent : y[1] # c => y \in consent'
  BY <1>2, <1>6
<1>11. conn'[c].at # "asking"
  BY <1>1
<1> QED BY <1>1, <1>8, <1>9, <1>10, <1>11, OneTrusts

\* The steps that neither ask nor answer.
LEMMA StepTrusts ==
  ASSUME Shaped, Trusting, NEW c \in Connects,
         \/ Breaks(c) \/ Authenticated(c) \/ Learn(c) \/ NotLearned(c)
         \/ ReplaceReads(c) \/ ReplaceWrites(c) \/ ReplaceFails(c)
  PROVE  Trusting'
<1>1. TypeOK
  BY DEF Shaped
<1>2. CASE Others(c) /\ UNCHANGED prompts /\ conn'[c].at \in {"idle", "dialing"}
  BY <1>2, QuietTrusts DEF Accepting
<1>3. ASSUME NEW at \in {"learning", "auth"}, Others(c), UNCHANGED prompts,
             conn'[c] = Moved(c, at), conn[c].at \in Accepting
      PROVE  Trusting'
  <2>1. at \in Places /\ consent' = consent
    BY <1>3 DEF Places, prompts
  <2>2. Vouched(c)' /\ conn'[c].at = at
    BY <1>3, <2>1, MovedVouched
  <2> QED BY <1>3, <2>2, QuietTrusts
<1>4. CASE Breaks(c)
  <2>1. conn'[c] = NoConnect /\ Others(c) /\ UNCHANGED prompts
    BY <1>1, <1>4, EndsTurns DEF Breaks
  <2> QED BY <1>2, <2>1, PlacesAre
<1>5. CASE Authenticated(c)
  BY <1>2, <1>5, AuthenticatedIs
<1>6. CASE Learn(c)
  <2>1. Others(c) /\ UNCHANGED prompts /\ conn'[c] = Moved(c, "auth") /\ conn[c].at = "learning"
    BY <1>1, <1>6, LearnIs DEF Learn
  <2> QED BY <1>3, <2>1 DEF Accepting
<1>7. CASE NotLearned(c)
  <2>1. /\ Others(c) /\ UNCHANGED prompts /\ conn[c].at = "learning"
        /\ conn'[c] = NoConnect \/ conn'[c] = Moved(c, "auth")
    BY <1>7, NotLearnedIs
  <2> QED BY <1>2, <1>3, <2>1, PlacesAre DEF Accepting
<1>8. CASE ReplaceReads(c)
  <2>1. UNCHANGED <<conn, prompts>>
    BY <1>8 DEF ReplaceReads
  <2> QED BY <2>1 DEF prompts, Trusting, Honest, AcceptedIsVouched, Said, Host, Open, OpenIn
<1>9. CASE ReplaceWrites(c)
  <2>1. /\ Others(c) /\ UNCHANGED prompts /\ conn'[c] = Moved(c, "learning")
        /\ conn[c].at = "replacing"
    BY <1>9, ReplaceWritesIs
  <2> QED BY <1>3, <2>1 DEF Accepting
<1>10. CASE ReplaceFails(c)
  <2>1. Others(c) /\ UNCHANGED prompts /\ conn'[c] = NoConnect
    BY <1>10, ReplaceFailsIs
  <2> QED BY <1>2, <2>1, PlacesAre
<1> QED BY <1>4, <1>5, <1>6, <1>7, <1>8, <1>9, <1>10

LEMMA HearTrusts ==
  ASSUME Shaped, Trusting, Hear
  PROVE  Trusting'
<1>1. /\ UNCHANGED <<files, conn, asked, waiting, answer, reply, consent, edits>>
      /\ mail # <<>> /\ mail' = Tail(mail)
      /\ \A e \in ToSet(queue') : e \in ToSet(queue) \/ e = Head(mail)
  BY HearIs DEF Shaped
<1>2. Head(mail) \in ToSet(mail) /\ ToSet(Tail(mail)) \subseteq ToSet(mail)
  <2>1. mail \in Seq(Questions \cup Cancels)
    BY DEF Shaped, TypeOK
  <2>2. Head(mail) = mail[1] /\ 1 \in DOMAIN mail
    BY <1>1, <2>1
  <2>3. \A i \in DOMAIN Tail(mail) : i + 1 \in DOMAIN mail /\ Tail(mail)[i] = mail[i + 1]
    BY <1>1, <2>1
  <2> QED BY <2>2, <2>3 DEF ToSet
<1>3. ToSet(mail') \cup ToSet(queue') \subseteq ToSet(mail) \cup ToSet(queue)
  BY <1>1, <1>2
<1>4. Honest'
  BY <1>1, <1>3 DEF Trusting, Honest, Open, OpenIn, Said, Host
<1>5. AcceptedIsVouched'
  BY <1>1 DEF Trusting, AcceptedIsVouched, Host
<1> QED BY <1>4, <1>5 DEF Trusting

\* The dialog on screen names the host and the key of the question it answers.
LEMMA PressTrusts ==
  ASSUME Shaped, Trusting, Press
  PROVE  Trusting'
<1>1. UNCHANGED <<files, conn, asked, waiting, answer, mail, edits>>
  BY PressIs DEF Shaped
<1>2. PICK e \in ToSet(queue) : \E decision \in Buttons(e) :
         /\ e \in Questions
         /\ ToSet(queue') = {f \in ToSet(queue) : f.id # e.id}
         /\ reply' = reply \cup {[id |-> e.id, decision |-> decision]}
         /\ consent' = IF decision \in Yes
                       THEN consent \cup {<<e.id.by, e.host, e.key>>} ELSE consent
  BY PressIs DEF Shaped
<1>3. PICK decision \in Buttons(e) :
         /\ e \in Questions
         /\ ToSet(queue') = {f \in ToSet(queue) : f.id # e.id}
         /\ reply' = reply \cup {[id |-> e.id, decision |-> decision]}
         /\ consent' = IF decision \in Yes
                       THEN consent \cup {<<e.id.by, e.host, e.key>>} ELSE consent
  BY <1>2
<1>4. /\ decision \in Yes => e.is = "host key"
      /\ decision \in Yes => <<e.id.by, e.host, e.key>> \in consent'
      /\ consent \subseteq consent'
  BY <1>3, ButtonsAre
<1>5. \A d \in Connects : Said(d) => Said(d)'
  BY <1>1, <1>4 DEF Said, Host
<1>6. ASSUME NEW r \in reply', OpenIn(r.id, asked', conn'), conn'[r.id.by].at = "asking",
             r.decision \in Yes
      PROVE  Said(r.id.by)'
  <2>1. Open(r.id) /\ conn[r.id.by].at = "asking"
    BY <1>1, <1>6 DEF Open
  <2>2. CASE r \in reply
    <3>1. Said(r.id.by) /\ r.id.by \in Connects
      BY <1>6, <2>1, <2>2, MailTyped DEF Trusting, Honest, Shaped
    <3> QED BY <1>5, <3>1
  <2>3. CASE r \notin reply
    <3>1. r = [id |-> e.id, decision |-> decision]
      BY <1>3, <1>6, <2>3
    <3>2. r.id = e.id /\ r.decision = decision
      BY <3>1
    <3>3. e.host = Host(e.id.by) /\ e.key = conn[e.id.by].key
      BY <1>4, <1>6, <2>1, <3>2 DEF Trusting, Honest
    <3>4. <<r.id.by, Host(r.id.by), conn[r.id.by].key>> \in consent'
      BY <1>4, <1>6, <3>2, <3>3
    <3> QED BY <1>1, <3>4 DEF Said, Host
  <2> QED BY <2>2, <2>3
<1>7. ToSet(mail') \cup ToSet(queue') \subseteq ToSet(mail) \cup ToSet(queue)
  BY <1>1, <1>3
<1>8. Honest'
  <2>1. \A e_1 \in ToSet(mail') \cup ToSet(queue') :
          e_1.is = "host key" /\ OpenIn(e_1.id, asked', conn') /\ conn'[e_1.id.by].at = "asking" =>
             e_1.host = Host(e_1.id.by)' /\ e_1.key = conn'[e_1.id.by].key
    BY <1>1, <1>7 DEF Trusting, Honest, Open, Host
  <2>2. \A d \in Connects : conn'[d].at = "asking" /\ answer'[d] \in Yes => Said(d)'
    BY <1>1, <1>5 DEF Trusting, Honest
  <2> QED BY <1>6, <2>1, <2>2 DEF Honest, Open
<1>9. ASSUME NEW d \in Connects, conn'[d].at \in Accepting PROVE Vouched(d)'
  <2>1. Vouched(d)
    BY <1>1, <1>9, VouchedAre DEF Trusting
  <2> QED BY <1>1, <1>5, <2>1 DEF Vouched
<1>10. AcceptedIsVouched'
  BY <1>9 DEF AcceptedIsVouched, Vouched, Accepting, Said
<1> QED BY <1>8, <1>10 DEF Trusting

\* An answer reaches the connect that asked, and while it still asks.
LEMMA RespondTrusts ==
  ASSUME Shaped, Dialogs, Trusting, Respond
  PROVE  Trusting'
<1>1. UNCHANGED <<files, conn, asked, mail, queue, consent, edits>>
  BY RespondIs
<1>2. PICK r \in reply :
         /\ reply' = reply \ {r}
         /\ \A c \in Connects :
               answer'[c] = IF r.id \in waiting /\ c = r.id.by THEN r.decision ELSE answer[c]
  BY RespondIs
<1>3. ASSUME NEW c \in Connects, conn[c].at = "asking", answer'[c] \in Yes PROVE Said(c)
  <2>1. CASE r.id \in waiting /\ c = r.id.by
    <3>1. Open(r.id)
      BY <2>1 DEF Dialogs, Tracked
    <3> QED BY <1>2, <1>3, <2>1, <3>1 DEF Trusting, Honest
  <2>2. CASE ~(r.id \in waiting /\ c = r.id.by)
    BY <1>2, <1>3, <2>2 DEF Trusting, Honest
  <2> QED BY <2>1, <2>2
<1>4. Honest'
  <2>1. \A c \in Connects : conn'[c].at = "asking" /\ answer'[c] \in Yes => Said(c)'
    BY <1>1, <1>3 DEF Said, Host
  <2>2. \A a \in reply' :
          OpenIn(a.id, asked', conn') /\ conn'[a.id.by].at = "asking" /\ a.decision \in Yes =>
             Said(a.id.by)'
    BY <1>1, <1>2 DEF Trusting, Honest, Open, Said, Host
  <2>3. \A e \in ToSet(mail') \cup ToSet(queue') :
          e.is = "host key" /\ OpenIn(e.id, asked', conn') /\ conn'[e.id.by].at = "asking" =>
             e.host = Host(e.id.by)' /\ e.key = conn'[e.id.by].key
    BY <1>1 DEF Trusting, Honest, Open, Host
  <2> QED BY <2>1, <2>2, <2>3 DEF Honest, Open
<1>5. AcceptedIsVouched'
  BY <1>1 DEF Trusting, AcceptedIsVouched, Host
<1> QED BY <1>4, <1>5 DEF Trusting

LEMMA TrustingStays ==
  ASSUME Shaped, Dialogs, Trusting, [Next]_vars
  PROVE  Trusting'
<1>1. ASSUME NEW c \in Connects, Start(c) \/ ConnectStep(c) PROVE Trusting'
  <2>1. ASSUME NEW k \in Keys, Offered(c, k) PROVE Trusting'
    BY <2>1, OfferedTrusts
  <2> QED BY <1>1, <2>1, StartTrusts, DecidedTrusts, RoundTrusts, InfoTrusts, StepTrusts
          DEF ConnectStep
<1>2. CASE UNCHANGED <<conn, prompts>>
  BY <1>2 DEF prompts, Trusting, Honest, AcceptedIsVouched, Said, Host, Open, OpenIn
<1>3. ASSUME NEW hh \in Hosts, ForgetReads(hh) PROVE Trusting'
  BY <1>2, <1>3 DEF ForgetReads
<1>4. CASE ForgetWrites \/ import_lines \/ UNCHANGED vars
  BY <1>2, <1>4 DEF ForgetWrites, import_lines, vars
<1> QED BY <1>1, <1>3, <1>4, HearTrusts, PressTrusts, RespondTrusts DEF Next

-----------------------------------------------------------------------------
(* Every step *)

LEMMA ShapedStays ==
  ASSUME Shaped, Dialogs, [Next]_vars
  PROVE  Shaped'
<1>1. ASSUME NEW c \in Connects, Start(c) \/ ConnectStep(c) PROVE Shaped'
  <2>1. ASSUME NEW k \in Keys, Offered(c, k) PROVE Shaped'
    BY <2>1, OfferedShaped
  <2> QED BY <1>1, <2>1, StartShaped, DecidedShaped, LearnShaped, NotLearnedShaped,
             ReplaceReadsShaped, ReplaceWritesShaped, ReplaceFailsShaped, AuthenticatedShaped,
             AskShaped, RoundShaped, BreaksShaped DEF ConnectStep
<1>2. ASSUME NEW hh \in Hosts, ForgetReads(hh) PROVE Shaped'
  BY <1>2, ForgetReadsShaped
<1>3. CASE UNCHANGED vars
  BY <1>3 DEF vars, files, prompts, Shaped, TypeOK, Steady, Asks
<1> QED BY <1>1, <1>2, <1>3, ForgetWritesShaped, ImportShaped, HearShaped, PressShaped,
           RespondShaped DEF Next

\* The questions of the login and the host keys' are asked in the same way.
LEMMA DialogsStay ==
  ASSUME Shaped, Dialogs, [Next]_vars
  PROVE  Dialogs'
<1>1. TypeOK
  BY DEF Shaped
<1>2. ASSUME NEW c \in Connects, Others(c), ~Asks(c), conn'[c].at \notin {"asking", "round"},
             UNCHANGED <<asked, waiting, mail, queue, reply>>
      PROVE  Dialogs'
  <2>1. \A d \in Connects : Asks(d)' <=> Asks(d)
    BY <1>2 DEF Others, Asks
  <2> QED BY <1>1, <1>2, <2>1, DialogsStill
<1>3. ASSUME NEW c \in Connects, Others(c), Resume(c),
             conn'[c].at \notin {"asking", "round"}
      PROVE  Dialogs'
  <2>1. PICK q : q = [is |-> "cancel", id |-> Now(c)]
    OBVIOUS
  <2>2. q \in Cancels /\ q.id = Now(c)
    BY <1>1, <2>1, NowTyped DEF Cancels
  <2>3. asked' = asked /\ waiting' = waiting \ {q.id} /\ mail' = Append(mail, q)
        /\ UNCHANGED <<queue, reply>>
    BY <1>3, <2>1, <2>2 DEF Resume
  <2> QED BY <1>1, <1>3, <2>2, <2>3, DialogsResume
<1>4. ASSUME NEW c \in Connects, NEW kind \in {"host key", "auth"}, NEW k, NEW status \in Statuses,
             IF kind = "auth" THEN k = None ELSE k \in Keys,
             Host(c) \in Hosts, Others(c), ~Asks(c), conn'[c].at \in {"asking", "round"},
             Ask(c, kind, Host(c), k, status)
      PROVE  Dialogs'
  <2>1. PICK q : q = [is |-> kind, id |-> Id(c, asked[c] + 1), host |-> Host(c), key |-> k,
                      status |-> status]
    OBVIOUS
  <2>2. q \in Questions /\ q.id = Id(c, asked[c] + 1)
    <3>1. Id(c, asked[c] + 1) \in Ids
      BY <1>1, NowTyped
    <3> QED BY <1>4, <2>1, <3>1 DEF Questions
  <2>3. /\ asked' = [asked EXCEPT ![c] = asked[c] + 1] /\ waiting' = waiting \cup {q.id}
        /\ mail' = Append(mail, q) /\ UNCHANGED <<queue, reply>>
    BY <1>4, <2>1, <2>2 DEF Ask
  <2>4. Asks(c)'
    BY <1>4 DEF Asks
  <2> QED BY <1>1, <1>4, <2>2, <2>3, <2>4, DialogsAsk
<1>5. ASSUME NEW c \in Connects, Start(c) \/ ConnectStep(c) PROVE Dialogs'
  <2>1. CASE Start(c)
    BY <1>1, <1>2, <2>1, StartIs DEF Asks
  <2>2. ASSUME NEW k \in Keys, Offered(c, k) PROVE Dialogs'
    <3>1. /\ Others(c) /\ ~Asks(c) /\ Host(c) \in Hosts
      BY <2>2, OfferedIs DEF Asks
    <3>2. CASE Ends(c) /\ UNCHANGED prompts
      <4>1. conn'[c].at = "idle"
        BY <1>1, <3>2, EndsTurns, PlacesAre
      <4> QED BY <1>2, <3>1, <3>2, <4>1 DEF prompts
    <3>3. ASSUME NEW status \in Statuses, NEW at \in {"auth", "learning", "asking"},
                 conn'[c] = NowTold(c, k, status, at),
                 at = "asking" => Ask(c, "host key", Host(c), k, status),
                 at # "asking" => UNCHANGED prompts
          PROVE  Dialogs'
      <4>1. at \in Places
        BY DEF Places
      <4>2. NowTold(c, k, status, at).at = at
        BY <1>1, <4>1, NowToldIs
      <4>3. CASE at = "asking"
        BY <1>4, <3>1, <3>3, <4>2, <4>3
      <4>4. CASE at # "asking"
        BY <1>2, <3>1, <3>3, <4>2, <4>4 DEF prompts
      <4> QED BY <4>3, <4>4
    <3>4. \/ Ends(c) /\ UNCHANGED prompts
          \/ \E status \in Statuses, at \in {"auth", "learning", "asking"} :
                /\ conn'[c] = NowTold(c, k, status, at)
                /\ at = "asking" => Ask(c, "host key", Host(c), k, status)
                /\ at # "asking" => UNCHANGED prompts
      BY <2>2, OfferedIs
    <3> QED BY <3>2, <3>3, <3>4
  <2>3. CASE Decided(c)
    <3>1. /\ Others(c) /\ Resume(c)
          /\ \/ conn'[c] = NoConnect
             \/ \E at \in {"learning", "auth", "replacing"} : conn'[c] = Moved(c, at)
      BY <2>3, DecidedIs
    <3>2. ASSUME NEW at \in {"learning", "auth", "replacing"}, conn'[c] = Moved(c, at)
          PROVE  conn'[c].at \notin {"asking", "round"}
      <4>1. at \in Places
        BY DEF Places
      <4>2. Moved(c, at).at = at
        BY <1>1, <4>1, MovedIs
      <4> QED BY <3>2, <4>2
    <3>3. conn'[c].at \notin {"asking", "round"}
      BY <3>1, <3>2, PlacesAre
    <3> QED BY <1>3, <3>1, <3>3
  <2>4. CASE RoundAnswered(c)
    <3>1. Others(c) /\ Resume(c) /\ (conn'[c] = NoConnect \/ conn'[c] = Moved(c, "auth"))
      BY <2>4, RoundIs
    <3>2. Moved(c, "auth").at = "auth"
      BY <1>1, MovedIs, PlacesAre
    <3>3. conn'[c].at \notin {"asking", "round"}
      BY <3>1, <3>2, PlacesAre
    <3> QED BY <1>3, <3>1, <3>3
  <2>5. CASE InfoRequest(c)
    <3>1. /\ Others(c) /\ conn[c].at = "auth" /\ Host(c) \in Hosts /\ conn'[c].at = "round"
          /\ Ask(c, "auth", Host(c), None, "auth")
      BY <2>5, InfoRequestIs
    <3>2. "auth" \in Statuses /\ "auth" \in {"host key", "auth"}
      BY DEF Statuses
    <3>3. ~Asks(c) /\ conn'[c].at \in {"asking", "round"}
      BY <3>1 DEF Asks
    <3> QED BY <1>4, <3>1, <3>2, <3>3
  <2>6. ASSUME NEW at \in {"learning", "auth"}, Others(c), UNCHANGED prompts,
               conn'[c] = Moved(c, at), ~Asks(c)
        PROVE  Dialogs'
    <3>1. at \in Places
      BY DEF Places
    <3>2. Moved(c, at).at = at
      BY <1>1, <3>1, MovedIs
    <3> QED BY <1>2, <2>6, <3>2 DEF prompts
  <2>7. CASE Others(c) /\ UNCHANGED prompts /\ ~Asks(c) /\ conn'[c].at \in {"idle", "dialing"}
    BY <1>2, <2>7 DEF prompts
  <2>8. CASE Learn(c)
    BY <2>6, <2>8, LearnIs DEF Asks
  <2>9. CASE NotLearned(c)
    <3>1. /\ Others(c) /\ UNCHANGED prompts /\ ~Asks(c)
          /\ conn'[c] = NoConnect \/ conn'[c] = Moved(c, "auth")
      BY <2>9, NotLearnedIs DEF Asks
    <3> QED BY <2>6, <2>7, <3>1, PlacesAre
  <2>10. CASE ReplaceReads(c)
    <3>1. UNCHANGED <<conn, prompts>>
      BY <2>10 DEF ReplaceReads
    <3> QED BY <1>1, <3>1, DialogsStill DEF Asks, prompts
  <2>11. CASE ReplaceWrites(c)
    BY <2>6, <2>11, ReplaceWritesIs DEF Asks
  <2>12. CASE ReplaceFails(c)
    BY <2>7, <2>12, ReplaceFailsIs, PlacesAre DEF Asks
  <2>13. CASE Authenticated(c)
    BY <2>7, <2>13, AuthenticatedIs DEF Asks
  <2>14. CASE Breaks(c)
    <3>1. /\ ~Asks(c) /\ UNCHANGED prompts /\ conn'[c] = NoConnect /\ Others(c)
      BY <1>1, <2>14, EndsTurns DEF Breaks, Asks
    <3> QED BY <2>7, <3>1, PlacesAre
  <2> QED BY <1>5, <2>1, <2>2, <2>3, <2>4, <2>5, <2>8, <2>9, <2>10, <2>11, <2>12, <2>13, <2>14
          DEF ConnectStep
<1>6. CASE UNCHANGED <<conn, prompts>>
  BY <1>1, <1>6, DialogsStill DEF Asks, prompts
<1>7. ASSUME NEW hh \in Hosts, ForgetReads(hh) PROVE Dialogs'
  BY <1>6, <1>7 DEF ForgetReads
<1>8. CASE ForgetWrites \/ import_lines \/ UNCHANGED vars
  BY <1>6, <1>8 DEF ForgetWrites, import_lines, vars
<1> QED BY <1>1, <1>5, <1>7, <1>8, DialogsHear, DialogsPress, DialogsRespond DEF Next

-----------------------------------------------------------------------------
(* The theorems *)

IInv == Shaped /\ Dialogs /\ Locks /\ LearnedStays /\ Trusting

LEMMA InitHolds ==
  ASSUME Init
  PROVE  IInv
<1>1. TypeOK
  <2>1. <<>> \in Seq(Line) /\ None \in Decisions \cup {None} /\ <<>> \in Seq(Questions)
        /\ <<>> \in Seq(Questions \cup Cancels)
    OBVIOUS
  <2>2. conn \in [Connects -> Conns]
    BY NoConnectTyped DEF Init
  <2>3. rewrite \in [by : Connects \cup {"panel", None}, kept : Seq(Line), gone : SUBSET Line]
    BY <2>1 DEF Init, NoRewrite
  <2>4. asked \in [Connects -> Nat] /\ answer \in [Connects -> Decisions \cup {None}]
    BY DEF Init
  <2> QED BY <2>1, <2>2, <2>3, <2>4 DEF Init, TypeOK
<1>2. /\ \A c \in Connects : conn[c].at = "idle" /\ answer[c] = None
      /\ rewrite.by = None /\ None \notin Connects
  BY TrustAssumption DEF Init, NoConnect, NoRewrite, TrustAssumption
<1>3. Steady
  BY <1>2 DEF Steady
<1>4. ToSet(mail) = {} /\ ToSet(queue) = {} /\ DOMAIN mail = {} /\ reply = {} /\ waiting = {}
  BY DEF Init, ToSet
<1>5. Dialogs
  BY <1>4 DEF Dialogs, Numbers, Once, Tracked
<1>6. Locks /\ LearnedStays
  BY <1>2 DEF Init, Locks, LearnedStays
<1>7. Trusting
  BY <1>2, <1>4 DEF Trusting, Honest, AcceptedIsVouched
<1> QED BY <1>1, <1>3, <1>5, <1>6, <1>7 DEF IInv, Shaped

LEMMA NextHolds ==
  ASSUME IInv, [Next]_vars
  PROVE  IInv'
BY ShapedStays, DialogsStay, FilesStay, TrustingStays DEF IInv

LEMMA Invariance == Spec => []IInv
<1>1. Init => IInv
  BY InitHolds
<1>2. IInv /\ [Next]_vars => IInv'
  BY NextHolds
<1> QED BY <1>1, <1>2, PTL DEF Spec

(* The two files, the connects, the questions and their answers are what    *)
(* the types of the code say.                                               *)
THEOREM TypeCorrect == Spec => []TypeOK
<1>1. IInv => TypeOK
  BY DEF IInv, Shaped
<1> QED BY <1>1, Invariance, PTL

(* No connect goes on with a key, or writes one down, but one that was      *)
(* known for its host, or new where new hosts are accepted, or that the     *)
(* user said yes to for that connect and that host: whatever answers are    *)
(* late, lost in the mail, or meant for another question (verify,           *)
(* prompts.rs, the window's queue).                                         *)
THEOREM KeysAreVouched == Spec => []AcceptedIsVouched
<1>1. IInv => AcceptedIsVouched
  BY DEF IInv, Trusting
<1> QED BY <1>1, Invariance, PTL

LEMMA DialogsAgreeFrom ==
  ASSUME IInv
  PROVE  DialogsAgree
<1>1. TypeOK /\ Tracked
  BY DEF IInv, Shaped, Dialogs
<1>2. \A i \in DOMAIN mail : mail[i] \in ToSet(mail)
  BY DEF ToSet
<1>3. ASSUME NEW id \in waiting
      PROVE  \/ \E e \in ToSet(queue) \cup ToSet(mail) : e.id = id
             \/ \E r \in reply : r.id = id
  BY <1>1, <1>2, <1>3 DEF Tracked
<1>4. ASSUME NEW e \in ToSet(queue)
      PROVE  e.id \in waiting \/ \E m \in ToSet(mail) : m.is = "cancel" /\ m.id = e.id
  BY <1>1, <1>2, <1>4 DEF Tracked, Over
<1> QED BY <1>3, <1>4 DEF DialogsAgree

(* The window has a dialog for every question that waits, or it is on its   *)
(* way to it, or its answer on its way back; and no dialog is left for a    *)
(* question that is over without the cancel that takes it away being on     *)
(* its way (prompts::request, HostKeyDialog, AuthPromptDialog).             *)
THEOREM DialogsStayTrue == Spec => []DialogsAgree
<1>1. IInv => DialogsAgree
  BY DialogsAgreeFrom
<1> QED BY <1>1, Invariance, PTL

(* A key that was written down stays in the file until it is replaced or    *)
(* forgotten: no rewrite by another connect, by the Known hosts panel or by *)
(* an import drops it (learn_host and remove_lines under one lock).         *)
THEOREM LearnedKeysStay == Spec => []LearnedStays
<1>1. IInv => LearnedStays
  BY DEF IInv
<1> QED BY <1>1, Invariance, PTL

-----------------------------------------------------------------------------
(* Login: the lists a credential can go through *)

MethodOf(a) == IF a.way.kind = "password" THEN "password" ELSE "publickey"
ListOf(m, n, asks) ==
    IF asks THEN Append([i \in 1 .. n |-> m], "keyboard-interactive") ELSE [i \in 1 .. n |-> m]
Asking == <<"keyboard-interactive">>

\* All that is left for a login that can still succeed is the server's questions.
OnlyAsks(a) == CouldLogIn(a) => MayPrompt(a) /\ Asking \in got.lists

\* The agent's keys that were tried and work.
TriedOf(a, k) ==
    {a.way.agent[i].key : i \in {i \in 1 .. k :
        MayBe(a, a.way.agent[i]) /\ a.way.agent[i].signs /\ Takes(a, a.way.agent[i])}}
Tried == Len(way.agent) - Len(login.todo)

\* Every list that begins with publickey is used up as far as keys were accepted.
Counted(a, k) ==
    \A n \in 0 .. Works(a), asks \in BOOLEAN :
        ListOf("publickey", n, asks) \in a.server.lists =>
            \E j \in 0 .. n :
                /\ ListOf("publickey", n - j, asks) \in got.lists
                /\ j = n \/ (TriedOf(a, k) \subseteq got.keys /\ j = Cardinality(got.keys))

AgentSays(a, k) ==
    \/ login.last = Remaining(got.lists)
    \/ \A i \in 1 .. k : MayBe(a, a.way.agent[i]) =>
            Takes(a, a.way.agent[i]) /\ ~a.way.agent[i].signs

AtFirst(a) == got = [lists |-> a.server.lists, keys |-> {}]

LoginTypeOK ==
    /\ login \in [at : {"idle", "password", "cert", "key", "agent", "fallback", "start", "loop",
                        "question", "ended"},
                  attempt : Attempts \union {NoKey}, todo : Seq(AgentIdentity),
                  last : SUBSET Methods, turn : Nat,
                  response : Round \union {"none", "success", "failure"}, wrong : BOOLEAN,
                  outcome : {"none", "in", "out", "broken"}]
    /\ got \in [lists : SUBSET Seq(Methods), keys : SUBSET LoginKeys]
    /\ login.at = "idle" => login = NoLogin /\ got = [lists |-> {}, keys |-> {}]
    /\ login.at # "idle" => login.attempt \in Attempts
    /\ login.at # "ended" => login.outcome = "none"

Deciding(a) ==
    /\ login.at = "password" => a.way.kind = "password" /\ AtFirst(a)
    /\ login.at = "cert" => a.way.kind = "key" /\ AtFirst(a)
    /\ login.at = "key" =>
          /\ a.way.kind = "key"
          /\ \/ /\ AtFirst(a)
                /\ a.way.cert = "valid" /\ a.server.ca => "publickey" \notin Remaining(got.lists)
             \/ /\ a.way.key \in a.server.keys => a.way.key \in got.keys
                /\ OnlyAsks(a) /\ <<>> \notin got.lists
AgentOK(a) ==
    login.at = "agent" =>
        /\ a.way.kind = "agent" /\ <<>> \notin got.lists
        /\ Len(login.todo) <= Len(a.way.agent)
        /\ \A i \in 1 .. Len(login.todo) : login.todo[i] = a.way.agent[Tried + i]
        /\ got.keys \subseteq TriedOf(a, Tried)
        /\ Counted(a, Tried) /\ AgentSays(a, Tried)
Prompting(a) ==
    /\ login.at = "fallback" =>
          /\ OnlyAsks(a) /\ a.way.kind # "prompts"
          /\ login.last = Remaining(got.lists) \/ ~MayPrompt(a)
    /\ login.at = "start" => OnlyAsks(a)
    /\ login.at \notin {"loop", "question", "ended"} => login.turn = 0 /\ ~login.wrong
    /\ login.at \in {"fallback", "start"} => <<>> \notin got.lists
    /\ login.at = "question" => login.response = "question"
    /\ login.at \in {"loop", "question"} =>
          /\ login.turn <= Len(a.server.rounds) /\ login.response # "none"
          /\ CouldLogIn(a) => MayPrompt(a)
          /\ login.response \in Round =>
                /\ login.turn < Len(a.server.rounds)
                /\ login.response = a.server.rounds[login.turn + 1]
                /\ OnlyAsks(a) /\ <<>> \notin got.lists
          /\ login.response = "failure" /\ ~login.wrong => ~CouldLogIn(a)

LoginInv ==
    /\ LoginTypeOK
    /\ login.at # "idle" =>
          /\ Deciding(login.attempt) /\ AgentOK(login.attempt) /\ Prompting(login.attempt)
    /\ GivesUpRightly

LEMMA ListShape ==
  ASSUME NEW m \in Methods, NEW n \in Nat, NEW asks \in BOOLEAN
  PROVE  /\ ListOf(m, n, asks) \in Seq(Methods)
         /\ ListOf(m, 0, FALSE) = <<>> /\ ListOf(m, 0, TRUE) = Asking
         /\ n # 0 => /\ ListOf(m, n, asks) # <<>>
                     /\ Head(ListOf(m, n, asks)) = m
                     /\ Tail(ListOf(m, n, asks)) = ListOf(m, n - 1, asks)
<1> DEFINE run(k) == [i \in 1 .. k |-> m]
<1>1. \A k \in Nat : run(k) \in Seq(Methods) /\ Len(run(k)) = k
  OBVIOUS
<1>2. \A k \in Nat : Append(run(k), "keyboard-interactive") \in Seq(Methods)
  BY <1>1 DEF Methods
<1>3. ListOf(m, n, asks) \in Seq(Methods)
  BY <1>1, <1>2 DEF ListOf
<1>4. run(0) = <<>>
  OBVIOUS
<1>5. ListOf(m, 0, FALSE) = <<>> /\ ListOf(m, 0, TRUE) = Asking
  BY <1>4 DEF ListOf, Asking
<1>6. ASSUME n # 0
      PROVE  /\ ListOf(m, n, asks) # <<>>
             /\ Head(ListOf(m, n, asks)) = m
             /\ Tail(ListOf(m, n, asks)) = ListOf(m, n - 1, asks)
  <2>1. run(n) \in Seq(Methods) /\ Len(run(n)) = n /\ n >= 1 /\ n - 1 \in Nat
    BY <1>1, <1>6
  <2>2. CASE ~asks
    <3>1. ListOf(m, n, asks) = run(n) /\ ListOf(m, n - 1, asks) = run(n - 1)
      BY <2>2 DEF ListOf
    <3>2. Tail(run(n)) = run(n - 1)
      <4>1. Tail(run(n)) \in Seq(Methods) /\ Len(Tail(run(n))) = n - 1
        BY <2>1, run(n) # <<>>
      <4>2. \A i \in 1 .. n - 1 : Tail(run(n))[i] = run(n - 1)[i]
        BY <2>1
      <4>3. run(n - 1) \in Seq(Methods) /\ Len(run(n - 1)) = n - 1
        BY <2>1, <1>1
      <4> HIDE DEF run
      <4> QED BY <4>1, <4>2, <4>3, <2>1, SeqEqual
    <3>3. run(n) # <<>> /\ Head(run(n)) = m
      BY <2>1
    <3> QED BY <3>1, <3>2, <3>3
  <2>3. CASE asks
    <3> DEFINE s == Append(run(n), "keyboard-interactive")
               t == Append(run(n - 1), "keyboard-interactive")
    <3>1. ListOf(m, n, asks) = s /\ ListOf(m, n - 1, asks) = t
      BY <2>3 DEF ListOf
    <3>2. s \in Seq(Methods) /\ Len(s) = n + 1 /\ t \in Seq(Methods) /\ Len(t) = n
      BY <2>1, <1>1, <1>2
    <3>3. \A i \in 1 .. n : s[i + 1] = t[i]
      BY <2>1
    <3>4. s # <<>> /\ s[1] = m
      BY <2>1
    <3>5. Tail(s) = t
      <4> HIDE DEF s, t
      <4>1. Tail(s) \in Seq(Methods) /\ Len(Tail(s)) = n
        BY <3>2, <3>4
      <4>2. \A i \in 1 .. n : Tail(s)[i] = s[i + 1]
        BY <3>2, <3>4
      <4> QED BY <3>2, <3>3, <4>1, <4>2, <2>1, SeqEqual
    <3> HIDE DEF s, t
    <3> QED BY <3>1, <3>2, <3>4, <3>5
  <2> QED BY <2>2, <2>3
<1> QED BY <1>3, <1>5, <1>6

LEMMA ListsApart ==
  /\ Asking # <<>> /\ Asking \in Seq(Methods) /\ Head(Asking) = "keyboard-interactive"
  /\ Tail(Asking) = <<>>
BY DEF Asking, Methods

LEMMA WhatCould ==
  ASSUME NEW a
  PROVE  CouldLogIn(a) <=>
           \E n \in 0 .. Works(a) :
              \/ ListOf(MethodOf(a), n, FALSE) \in a.server.lists
              \/ MayPrompt(a) /\ ListOf(MethodOf(a), n, TRUE) \in a.server.lists
BY DEF CouldLogIn, ListOf, MethodOf

\* What is known of an attempt.
LEMMA Attempted ==
  ASSUME NEW a \in Attempts
  PROVE  /\ a.way \in Way /\ a.server \in Server /\ a.attended \in BOOLEAN
         /\ a.server.lists \in SUBSET Seq(Methods) /\ <<>> \notin a.server.lists
         /\ a.way.agent \in Seq(AgentIdentity) /\ a.server.rounds \in Seq(Round)
         /\ MethodOf(a) \in {"password", "publickey"}
<1> USE LoginAssumption DEF LoginAssumption
<1>1. a.way \in Way /\ a.server \in Server /\ a.attended \in BOOLEAN
  OBVIOUS
<1>2. a.server.lists \in SUBSET (Seq(Methods) \ {<<>>}) /\ a.server.rounds \in Seq(Round)
  BY <1>1 DEF Server
<1>3. a.way.agent \in Seq(AgentIdentity)
  BY <1>1 DEF Way
<1> QED BY <1>1, <1>2, <1>3 DEF MethodOf

LEMMA TriedIn ==
  ASSUME NEW a \in Attempts, NEW k \in 0 .. Len(a.way.agent)
  PROVE  /\ IsFiniteSet(TriedOf(a, k)) /\ TriedOf(a, k) \subseteq LoginKeys
         /\ TriedOf(a, k) \subseteq KeysThatWork(a)
         /\ TriedOf(a, Len(a.way.agent)) = KeysThatWork(a)
<1>1. a.way.agent \in Seq(AgentIdentity)
  BY Attempted
<1>2. DOMAIN a.way.agent = 1 .. Len(a.way.agent) /\ 1 .. k \subseteq DOMAIN a.way.agent
  BY <1>1
<1> DEFINE good(i) == MayBe(a, a.way.agent[i]) /\ a.way.agent[i].signs /\ Takes(a, a.way.agent[i])
           I == {i \in 1 .. k : good(i)}
<1>3. IsFiniteSet(1 .. k)
  <2>1. k \in Int /\ 1 \in Int
    BY <1>1
  <2> QED BY <2>1, FS_Interval
<1>4. IsFiniteSet(I)
  BY <1>3, FS_Subset
<1>5. IsFiniteSet({a.way.agent[i].key : i \in I})
  <2> DEFINE T == {a.way.agent[i].key : i \in I}
             f == [i \in I |-> a.way.agent[i].key]
  <2>1. f \in [I -> T] /\ \A t \in T : \E i \in I : f[i] = t
    OBVIOUS
  <2> HIDE DEF I, T, f
  <2>2. f \in Surjection(I, T)
    BY <2>1 DEF Surjection
  <2>3. IsFiniteSet(T)
    BY <2>2, <1>4, FS_Surjection
  <2> QED BY <2>3 DEF T
<1>6. IsFiniteSet(TriedOf(a, k))
  BY <1>5 DEF TriedOf
<1>7. TriedOf(a, k) \subseteq KeysThatWork(a)
  BY <1>2 DEF TriedOf, KeysThatWork
<1>8. TriedOf(a, Len(a.way.agent)) = KeysThatWork(a)
  BY <1>2 DEF TriedOf, KeysThatWork
<1>9. \A i \in 1 .. k : a.way.agent[i].key \in LoginKeys
  <2>1. \A i \in 1 .. k : a.way.agent[i] \in AgentIdentity
    BY <1>1, <1>2
  <2> QED BY <2>1 DEF AgentIdentity
<1>10. TriedOf(a, k) \subseteq LoginKeys
  BY <1>9 DEF TriedOf
<1> QED BY <1>6, <1>7, <1>8, <1>10

LEMMA WorksIn ==
  ASSUME NEW a \in Attempts
  PROVE  /\ Works(a) \in Nat
         /\ a.way.kind \in {"password", "key"} => Works(a) \in {0, 1}
         /\ a.way.kind = "prompts" => Works(a) = 0
         /\ a.way.kind = "agent" => Works(a) = Cardinality(KeysThatWork(a))
<1>1. a.way.kind \in {"password", "key", "prompts", "agent"} /\ Len(a.way.agent) \in Nat
  BY Attempted DEF Way
<1>2. IsFiniteSet(KeysThatWork(a))
  BY <1>1, TriedIn
<1>3. Cardinality(KeysThatWork(a)) \in Nat
  BY <1>2, FS_CardinalityType
<1> QED BY <1>1, <1>3 DEF Works

-----------------------------------------------------------------------------
(* Login: what the server is left with *)

LEMMA ServerMoves ==
  ASSUME LoginTypeOK, <<>> \notin got.lists, NEW m \in Methods,
         NEW key \in LoginKeys \union {NoKey},
         NEW right \in BOOLEAN
  PROVE  /\ After(m, key, right) \in [lists : SUBSET Seq(Methods), keys : SUBSET LoginKeys]
         /\ Remaining(got.lists) \in SUBSET Methods
<1>1. got \in [lists : SUBSET Seq(Methods), keys : SUBSET LoginKeys]
  BY DEF LoginTypeOK
<1>2. ASSUME NEW l \in got.lists PROVE Head(l) \in Methods /\ Advanced(l, m) \in Seq(Methods)
  <2>1. l \in Seq(Methods) /\ l # <<>>
    BY <1>1
  <2>2. Head(l) \in Methods /\ Tail(l) \in Seq(Methods)
    BY <2>1
  <2> QED BY <2>1, <2>2 DEF Advanced
<1>3. {Advanced(l, m) : l \in got.lists} \in SUBSET Seq(Methods)
  BY <1>2
<1>4. (got.keys \union {key}) \ {NoKey} \in SUBSET LoginKeys
  BY <1>1
<1>5. After(m, key, right) \in [lists : SUBSET Seq(Methods), keys : SUBSET LoginKeys]
  BY <1>1, <1>3, <1>4 DEF After
<1>6. Remaining(got.lists) \in SUBSET Methods
  BY <1>2 DEF Remaining
<1> QED BY <1>5, <1>6

\* A list that begins with the method is wanted, and is advanced; one of
\* questions alone stays.
LEMMA ListMoves ==
  ASSUME NEW m \in {"password", "publickey"}, NEW n \in Nat, NEW asks \in BOOLEAN,
         ListOf(m, n, asks) \in got.lists
  PROVE  /\ n # 0 => /\ m \in Remaining(got.lists)
                     /\ Advanced(ListOf(m, n, asks), m) = ListOf(m, n - 1, asks)
         /\ n = 0 /\ asks => Advanced(ListOf(m, n, asks), m) = ListOf(m, n, asks)
<1>1. m \in Methods /\ m # "keyboard-interactive"
  BY DEF Methods
<1>2. ASSUME n # 0
      PROVE  /\ m \in Remaining(got.lists)
             /\ Advanced(ListOf(m, n, asks), m) = ListOf(m, n - 1, asks)
  <2>1. Head(ListOf(m, n, asks)) = m /\ Tail(ListOf(m, n, asks)) = ListOf(m, n - 1, asks)
    BY <1>1, <1>2, ListShape
  <2> QED BY <2>1 DEF Remaining, Advanced
<1>3. ASSUME n = 0, asks PROVE Advanced(ListOf(m, n, asks), m) = ListOf(m, n, asks)
  <2>1. ListOf(m, n, asks) = Asking
    BY <1>1, <1>3, ListShape
  <2> QED BY <2>1, <1>1, ListsApart DEF Advanced
<1> QED BY <1>2, <1>3

\* One exchange with all of the lists still open, of a credential of which
\* only one step can come.
LEMMA OneTry ==
  ASSUME NEW a \in Attempts, NEW key, NEW right \in BOOLEAN, AtFirst(a),
         Works(a) \in {0, 1},
         Works(a) = 1 => right \/ MethodOf(a) \notin Remaining(got.lists),
         ~LetsIn(After(MethodOf(a), key, right)), CouldLogIn(a)
  PROVE  MayPrompt(a) /\ Asking \in After(MethodOf(a), key, right).lists
<1> DEFINE m == MethodOf(a)
           state == After(m, key, right)
<1>1. m \in {"password", "publickey"} /\ m \in Methods /\ <<>> \notin a.server.lists
  BY Attempted DEF Methods
<1>2. got.lists = a.server.lists /\ got.keys = {}
  BY DEF AtFirst
<1>3. PICK n \in 0 .. Works(a) :
         \/ ListOf(m, n, FALSE) \in a.server.lists
         \/ MayPrompt(a) /\ ListOf(m, n, TRUE) \in a.server.lists
  BY WhatCould
<1>4. n \in Nat /\ (n = 0 \/ (n = 1 /\ Works(a) = 1))
  BY Works(a) \in {0, 1}
<1>5. ASSUME NEW asks \in BOOLEAN, ListOf(m, n, asks) \in a.server.lists
      PROVE  ListOf(m, 0, asks) \in state.lists
  <2>1. ListOf(m, n, asks) \in got.lists
    BY <1>2, <1>5
  <2>2. CASE n = 0
    <3>1. asks
      BY <1>1, <1>5, <2>2, ListShape
    <3>2. Advanced(ListOf(m, n, asks), m) = ListOf(m, n, asks)
      BY <1>1, <1>4, <2>1, <2>2, <3>1, ListMoves
    <3> QED BY <2>1, <2>2, <3>2 DEF After
  <2>3. CASE n = 1
    <3>1. m \in Remaining(got.lists) /\ Advanced(ListOf(m, n, asks), m) = ListOf(m, n - 1, asks)
      BY <1>1, <1>4, <2>1, <2>3, ListMoves
    <3>2. right /\ Wants(m, key)
      BY <1>2, <1>4, <2>3, <3>1 DEF Wants
    <3>3. state.lists = {Advanced(l, m) : l \in got.lists}
      BY <3>2 DEF After
    <3>4. n - 1 = 0
      BY <2>3
    <3> QED BY <2>1, <3>1, <3>3, <3>4
  <2> QED BY <1>4, <2>2, <2>3
<1>6. ListOf(m, 0, FALSE) = <<>> /\ ListOf(m, 0, TRUE) = Asking
  BY <1>1, ListShape
<1>7. <<>> \notin state.lists
  BY DEF LetsIn
<1>8. ListOf(m, n, FALSE) \notin a.server.lists
  BY <1>5, <1>6, <1>7
<1> QED BY <1>3, <1>5, <1>6, <1>8

-----------------------------------------------------------------------------
(* Login: what a step does *)

LEMMA RemainingIn ==
  ASSUME NEW lists \in SUBSET Seq(Methods), <<>> \notin lists
  PROVE  Remaining(lists) \in SUBSET Methods
<1>1. ASSUME NEW l \in lists PROVE Head(l) \in Methods
  <2>1. l \in Seq(Methods) /\ l # <<>>
    OBVIOUS
  <2> QED BY <2>1
<1> QED BY <1>1 DEF Remaining

LEMMA LoginKept ==
  ASSUME NEW a \in Attempts, LoginTypeOK', login'.attempt = a,
         Deciding(a)', AgentOK(a)', Prompting(a)',
         login'.outcome = "out" /\ ~login'.wrong => ~CouldLogIn(a)
  PROVE  LoginInv'
<1>1. Deciding(login.attempt)'
  BY DEF Deciding, AtFirst, OnlyAsks
<1>2. AgentOK(login.attempt)'
  BY DEF AgentOK, Counted, AgentSays, Tried
<1>3. Prompting(login.attempt)'
  BY DEF Prompting, OnlyAsks
<1> QED BY <1>1, <1>2, <1>3 DEF LoginInv, GivesUpRightly

LEMMA AttemptHere ==
  ASSUME LoginInv, login.at # "idle"
  PROVE  /\ login.attempt \in Attempts
         /\ Deciding(login.attempt) /\ AgentOK(login.attempt) /\ Prompting(login.attempt)
         /\ LoginTypeOK
BY DEF LoginInv, LoginTypeOK

\* A login that is over keeps the invariant when it was given up rightly.
LEMMA LoginOver ==
  ASSUME LoginTypeOK, login.at # "idle", NEW outcome \in {"in", "out", "broken"},
         Finish(outcome), got' \in [lists : SUBSET Seq(Methods), keys : SUBSET LoginKeys],
         outcome = "out" /\ ~login.wrong => ~CouldLogIn(login.attempt)
  PROVE  LoginInv'
<1>1. login' = [login EXCEPT !.at = "ended", !.outcome = outcome]
  BY DEF Finish
<1>2. LoginTypeOK'
  BY <1>1 DEF LoginTypeOK
<1>3. /\ login'.at = "ended" /\ login'.outcome = outcome /\ login'.wrong = login.wrong
      /\ login'.attempt = login.attempt /\ login.attempt \in Attempts
  BY <1>1 DEF LoginTypeOK
<1>4. PICK a \in Attempts : a = login.attempt
  BY <1>3
<1>5. Deciding(a)' /\ AgentOK(a)' /\ Prompting(a)'
  BY <1>3 DEF Deciding, AgentOK, Prompting
<1> QED BY <1>2, <1>3, <1>4, <1>5, LoginKept

LEMMA TriesDoes ==
  ASSUME LoginTypeOK, login.at \in {"password", "cert", "key"}, <<>> \notin got.lists,
         NEW m \in Methods, NEW key \in LoginKeys \union {NoKey}, NEW right \in BOOLEAN,
         NEW next \in {"key", "fallback"}, Tries(m, key, right, next)
  PROVE  LET state == After(m, key, right) IN
         /\ LetsIn(state) => LoginInv'
         /\ got' = state
         /\ ~LetsIn(state) =>
               /\ LoginTypeOK' /\ login'.at = next /\ login'.attempt = login.attempt
               /\ login'.last = Remaining(got'.lists) /\ <<>> \notin got'.lists
               /\ login'.turn = login.turn /\ login'.wrong = login.wrong
               /\ login'.outcome = "none"
<1> DEFINE state == After(m, key, right)
<1>1. state \in [lists : SUBSET Seq(Methods), keys : SUBSET LoginKeys] /\ got' = state
  BY ServerMoves DEF Tries
<1>2. ASSUME LetsIn(state) PROVE LoginInv'
  <2>1. Finish("in")
    BY <1>2 DEF Tries
  <2> QED BY <1>1, <2>1, LoginOver
<1>3. ASSUME ~LetsIn(state)
      PROVE  /\ LoginTypeOK' /\ login'.at = next /\ login'.attempt = login.attempt
             /\ login'.last = Remaining(got'.lists) /\ <<>> \notin got'.lists
             /\ login'.turn = login.turn /\ login'.wrong = login.wrong
             /\ login'.outcome = "none"
  <2>1. login' = [login EXCEPT !.at = next, !.last = Remaining(state.lists)]
    BY <1>3 DEF Tries
  <2>2. <<>> \notin state.lists /\ Remaining(state.lists) \in SUBSET Methods
    <3>1. <<>> \notin state.lists /\ state.lists \in SUBSET Seq(Methods)
      BY <1>1, <1>3 DEF LetsIn
    <3> QED BY <3>1, RemainingIn
  <2> HIDE DEF state
  <2>3. LoginTypeOK'
    BY <1>1, <2>1, <2>2 DEF LoginTypeOK
  <2> QED BY <1>1, <2>1, <2>2, <2>3 DEF LoginTypeOK
<1> QED BY <1>1, <1>2, <1>3

-----------------------------------------------------------------------------
(* Login: the invariant, step by step *)

LEMMA LoginStarts ==
  ASSUME LoginInit PROVE LoginInv
<1>1. LoginTypeOK
  BY DEF LoginInit, NoLogin, LoginTypeOK
<1> QED BY <1>1 DEF LoginInit, NoLogin, LoginInv, GivesUpRightly

\* A credential that no step comes of leaves the questions alone.
LEMMA NothingWorks ==
  ASSUME NEW a \in Attempts, Works(a) = 0
  PROVE  CouldLogIn(a) => MayPrompt(a) /\ Asking \in a.server.lists
<1>1. MethodOf(a) \in Methods /\ <<>> \notin a.server.lists
  BY Attempted DEF Methods
<1>2. ListOf(MethodOf(a), 0, FALSE) = <<>> /\ ListOf(MethodOf(a), 0, TRUE) = Asking
  BY <1>1, ListShape
<1>3. SUFFICES ASSUME CouldLogIn(a) PROVE MayPrompt(a) /\ Asking \in a.server.lists
  OBVIOUS
<1>4. PICK n \in 0 .. Works(a) :
         \/ ListOf(MethodOf(a), n, FALSE) \in a.server.lists
         \/ MayPrompt(a) /\ ListOf(MethodOf(a), n, TRUE) \in a.server.lists
  BY <1>3, WhatCould
<1>5. n = 0
  BY Works(a) = 0
<1> QED BY <1>1, <1>2, <1>4, <1>5

LEMMA BeginKeeps ==
  ASSUME LoginInv, Begin PROVE LoginInv'
<1>1. PICK a \in Attempts :
         /\ login' = [NoLogin EXCEPT !.at = FirstPlace(a), !.attempt = a, !.todo = a.way.agent]
         /\ got' = [got EXCEPT !.lists = a.server.lists]
  BY DEF Begin
<1>2. got = [lists |-> {}, keys |-> {}]
  BY DEF Begin, LoginInv, LoginTypeOK
<1>3. /\ a.way.kind \in {"password", "key", "prompts", "agent"}
      /\ a.way.agent \in Seq(AgentIdentity) /\ a.server.lists \in SUBSET Seq(Methods)
      /\ <<>> \notin a.server.lists /\ Len(a.way.agent) \in Nat
  BY Attempted DEF Way
<1>4. FirstPlace(a) = IF a.way.kind = "password" THEN "password"
                      ELSE IF a.way.kind = "prompts" THEN "start"
                      ELSE IF a.way.kind = "agent" THEN "agent"
                      ELSE IF a.way.cert = "none" THEN "key" ELSE "cert"
  BY <1>3 DEF FirstPlace
<1>5. /\ login'.at = FirstPlace(a) /\ login'.attempt = a /\ login'.todo = a.way.agent
      /\ login'.last = {} /\ login'.turn = 0 /\ ~login'.wrong /\ login'.response = "none"
      /\ login'.outcome = "none" /\ AtFirst(a)'
  BY <1>1, <1>2 DEF NoLogin, AtFirst
<1>6. LoginTypeOK'
  BY <1>1, <1>2, <1>3, <1>4 DEF NoLogin, LoginTypeOK
<1>7. Deciding(a)'
  BY <1>3, <1>4, <1>5 DEF Deciding
<1>8. got'.lists = a.server.lists /\ got'.keys = {}
  BY <1>5 DEF AtFirst
<1>9. AgentOK(a)'
  <2>1. SUFFICES ASSUME FirstPlace(a) = "agent" PROVE AgentOK(a)'
    BY <1>5 DEF AgentOK
  <2>2. Tried' = 0
    BY <1>3, <1>5 DEF Tried, way
  <2>3. Counted(a, 0)'
    <3>1. ASSUME NEW n \in 0 .. Works(a), NEW asks \in BOOLEAN,
                 ListOf("publickey", n, asks) \in a.server.lists
          PROVE  \E j \in 0 .. n :
                    /\ ListOf("publickey", n - j, asks) \in got'.lists
                    /\ j = n \/ (TriedOf(a, 0) \subseteq got'.keys /\ j = Cardinality(got'.keys))
      <4>1. TriedOf(a, 0) = {}
        BY DEF TriedOf
      <4>2. Cardinality({}) = 0
        BY FS_EmptySet
      <4>3. n - 0 = n /\ 0 \in 0 .. n
        BY WorksIn
      <4> QED BY <1>8, <3>1, <4>1, <4>2, <4>3
    <3> QED BY <3>1 DEF Counted
  <2>4. AgentSays(a, 0)'
    BY DEF AgentSays
  <2>5. \A i \in 1 .. Len(login'.todo) : login'.todo[i] = a.way.agent[Tried' + i]
    BY <1>3, <1>5, <2>2
  <2>6. Counted(a, Tried)' /\ AgentSays(a, Tried)'
    BY <2>2, <2>3, <2>4 DEF Counted, AgentSays
  <2> QED BY <1>3, <1>4, <1>5, <1>8, <2>1, <2>5, <2>6 DEF AgentOK
<1>10. Prompting(a)'
  <2>1. ASSUME FirstPlace(a) = "start" PROVE OnlyAsks(a)'
    <3>1. Works(a) = 0
      BY <1>3, <1>4, <2>1, WorksIn
    <3>2. CouldLogIn(a) => MayPrompt(a) /\ Asking \in a.server.lists
      BY <3>1, NothingWorks
    <3> QED BY <1>8, <3>2 DEF OnlyAsks
  <2>2. FirstPlace(a) \notin {"fallback", "loop", "question"}
    BY <1>3, <1>4
  <2>3. <<>> \notin got'.lists
    BY <1>3, <1>8
  <2> QED BY <1>5, <2>1, <2>2, <2>3 DEF Prompting
<1> QED BY <1>5, <1>6, <1>7, <1>9, <1>10, LoginKept

\* After one exchange with every list open, only the questions are left.
LEMMA FirstTry ==
  ASSUME LoginInv, NEW a \in Attempts, login.attempt = a, AtFirst(a),
         login.at \in {"password", "cert", "key"},
         NEW key \in LoginKeys \union {NoKey}, NEW right \in BOOLEAN,
         Tries(MethodOf(a), key, right, "fallback"),
         Works(a) \in {0, 1}, Works(a) = 1 => right \/ MethodOf(a) \notin Remaining(got.lists)
  PROVE  LoginInv'
<1>1. LoginTypeOK /\ Prompting(a) /\ login.at # "idle"
  BY AttemptHere
<1>2. <<>> \notin got.lists /\ MethodOf(a) \in Methods
  BY Attempted DEF AtFirst, Methods
<1> DEFINE state == After(MethodOf(a), key, right)
<1>3. got' = state /\ (LetsIn(state) => LoginInv')
      /\ (~LetsIn(state) =>
            /\ LoginTypeOK' /\ login'.at = "fallback" /\ login'.attempt = login.attempt
            /\ login'.last = Remaining(got'.lists) /\ <<>> \notin got'.lists
            /\ login'.turn = login.turn /\ login'.wrong = login.wrong
            /\ login'.outcome = "none")
  BY <1>1, <1>2, TriesDoes
<1>4. SUFFICES ASSUME ~LetsIn(state) PROVE LoginInv'
  BY <1>3
<1>5. OnlyAsks(a)'
  <2>1. CouldLogIn(a) => MayPrompt(a) /\ Asking \in state.lists
    BY <1>4, OneTry
  <2> QED BY <2>1, <1>3 DEF OnlyAsks
<1>6. login.turn = 0 /\ ~login.wrong /\ a.way.kind # "prompts"
  BY <1>1, AttemptHere DEF Prompting, Deciding
<1> HIDE DEF state
<1>7. Deciding(a)' /\ AgentOK(a)'
  BY <1>3, <1>4 DEF Deciding, AgentOK
<1>8. Prompting(a)'
  BY <1>3, <1>4, <1>5, <1>6 DEF Prompting
<1> QED BY <1>3, <1>4, <1>7, <1>8, LoginKept

LEMMA TryPasswordKeeps ==
  ASSUME LoginInv, TryPassword PROVE LoginInv'
<1>1. login.at = "password" /\ Tries("password", NoKey, way.right, "fallback")
  BY DEF TryPassword
<1>2. PICK a \in Attempts : a = login.attempt
  BY <1>1, AttemptHere
<1>3. a.way.kind = "password" /\ AtFirst(a) /\ MethodOf(a) = "password"
  BY <1>1, <1>2, AttemptHere DEF Deciding, MethodOf
<1>4. a.way.right \in BOOLEAN
  BY Attempted DEF Way
<1>5. Works(a) = IF a.way.right THEN 1 ELSE 0
  BY <1>3 DEF Works
<1> QED BY <1>1, <1>2, <1>3, <1>4, <1>5, FirstTry DEF way

\* A key that needs its hardware has no way in at all.
LEMMA RefuseHardwareKeeps ==
  ASSUME LoginInv, RefuseHardware PROVE LoginInv'
<1>1. login.at \in {"cert", "key"} /\ way.hardware /\ Finish("out") /\ got' = got
  BY DEF RefuseHardware
<1>2. PICK a \in Attempts : a = login.attempt
  BY <1>1, AttemptHere
<1>3. a.way.kind = "key" /\ a.way.hardware
  BY <1>1, <1>2, AttemptHere DEF Deciding, way
<1>4. Works(a) = 0 /\ ~MayPrompt(a)
  BY <1>3 DEF Works, MayPrompt
<1>5. ~CouldLogIn(a)
  BY <1>4, NothingWorks
<1>6. /\ LoginTypeOK /\ login.at # "idle" /\ Finish("out")
      /\ got' \in [lists : SUBSET Seq(Methods), keys : SUBSET LoginKeys]
  BY <1>1, AttemptHere DEF LoginTypeOK
<1> QED BY <1>2, <1>5, <1>6, LoginOver

LEMMA KeyWorks ==
  ASSUME NEW a \in Attempts, a.way.kind = "key"
  PROVE  /\ MethodOf(a) = "publickey" /\ Works(a) \in {0, 1}
         /\ a.way.hardware \in BOOLEAN /\ a.way.key \in LoginKeys \union {NoKey}
         /\ a.server.ca \in BOOLEAN /\ a.server.keys \in SUBSET LoginKeys
         /\ Works(a) = 1 => a.way.key \in a.server.keys \/ (a.way.cert = "valid" /\ a.server.ca)
<1>1. a.way \in Way /\ a.server \in Server
  BY Attempted
<1>2. MethodOf(a) = "publickey" /\ Works(a) \in {0, 1}
  BY WorksIn DEF MethodOf
<1>3. /\ a.way.hardware \in BOOLEAN /\ a.way.key \in LoginKeys \union {NoKey}
      /\ a.server.ca \in BOOLEAN /\ a.server.keys \in SUBSET LoginKeys
  BY <1>1 DEF Way, Server
<1>4. Works(a) = 1 => a.way.key \in a.server.keys \/ (a.way.cert = "valid" /\ a.server.ca)
  BY <1>1, <1>3 DEF Works
<1> QED BY <1>2, <1>3, <1>4

LEMMA CertificateAuthKeeps ==
  ASSUME LoginInv, CertificateAuth PROVE LoginInv'
<1>1. login.at = "cert"
  BY DEF CertificateAuth
<1>2. PICK a \in Attempts : a = login.attempt
  BY <1>1, AttemptHere
<1>3. a.way.kind = "key" /\ AtFirst(a) /\ LoginTypeOK /\ login.turn = 0 /\ ~login.wrong
  BY <1>1, <1>2, AttemptHere DEF Deciding, Prompting
<1>4. /\ MethodOf(a) = "publickey" /\ Works(a) \in {0, 1} /\ "publickey" \in Methods
      /\ a.way.key \in LoginKeys \union {NoKey} /\ a.server.ca \in BOOLEAN
  BY <1>3, KeyWorks DEF Methods
<1>5. <<>> \notin got.lists
  BY <1>3, Attempted DEF AtFirst
<1> DEFINE right == a.way.cert = "valid" /\ a.server.ca
           state == After("publickey", a.way.key, right)
<1>6. CASE a.way.cert = "unreadable" /\ login' = [login EXCEPT !.at = "key"] /\ got' = got
  <2>1. LoginTypeOK'
    BY <1>1, <1>3, <1>6 DEF LoginTypeOK
  <2>2. login'.at = "key" /\ login'.attempt = a /\ login'.outcome = "none" /\ AtFirst(a)'
        /\ login'.turn = 0 /\ ~login'.wrong
    BY <1>1, <1>2, <1>3, <1>6 DEF LoginTypeOK, AtFirst
  <2>3. Deciding(a)' /\ AgentOK(a)' /\ Prompting(a)'
    BY <1>3, <1>6, <2>2 DEF Deciding, AgentOK, Prompting
  <2> QED BY <2>1, <2>2, <2>3, LoginKept
<1>7. CASE a.way.cert # "unreadable" /\ Tries("publickey", a.way.key, right, "key")
  <2>1. right \in BOOLEAN
    BY <1>4
  <2>2. got' = state /\ (LetsIn(state) => LoginInv')
        /\ (~LetsIn(state) =>
              /\ LoginTypeOK' /\ login'.at = "key" /\ login'.attempt = login.attempt
              /\ login'.last = Remaining(got'.lists) /\ <<>> \notin got'.lists
              /\ login'.turn = login.turn /\ login'.wrong = login.wrong
              /\ login'.outcome = "none")
    <3> HIDE DEF right
    <3> QED BY <1>1, <1>3, <1>4, <1>5, <1>7, <2>1, TriesDoes
  <2>3. SUFFICES ASSUME ~LetsIn(state) PROVE LoginInv'
    BY <2>2
  <2>4. CASE right /\ Wants("publickey", a.way.key)
    <3>1. a.way.key \in a.server.keys => a.way.key \in state.keys
      <4>1. a.way.key \in a.server.keys => a.way.key # NoKey
        BY <1>3, KeyWorks, LoginAssumption DEF LoginAssumption
      <4>2. state.keys = (got.keys \union {a.way.key}) \ {NoKey}
        BY <2>4 DEF After
      <4> QED BY <4>1, <4>2
    <3>2. OnlyAsks(a)'
      <4>1. CouldLogIn(a) => MayPrompt(a) /\ Asking \in state.lists
        <5>1. Works(a) = 1 => right
          BY <2>4
        <5> HIDE DEF right
        <5> QED BY <1>3, <1>4, <2>1, <2>3, <5>1, OneTry
      <4> QED BY <4>1, <2>2 DEF OnlyAsks
    <3> HIDE DEF state, right
    <3>3. Deciding(a)'
      BY <1>3, <2>2, <2>3, <3>1, <3>2 DEF Deciding
    <3>4. AgentOK(a)' /\ Prompting(a)'
      BY <1>3, <2>2, <2>3 DEF AgentOK, Prompting
    <3> QED BY <1>2, <2>2, <2>3, <3>3, <3>4, LoginKept
  <2>5. CASE ~(right /\ Wants("publickey", a.way.key))
    <3>1. state = got
      BY <2>5 DEF After
    <3>2. AtFirst(a)' /\ got' = got
      BY <1>3, <2>2, <3>1 DEF AtFirst
    <3>3. right => "publickey" \notin Remaining(got.lists)
      BY <1>3, <2>5 DEF Wants, AtFirst
    <3>4. right => "publickey" \notin Remaining(got'.lists)
      BY <3>2, <3>3
    <3> HIDE DEF state
    <3>5. Deciding(a)'
      BY <1>3, <2>2, <2>3, <3>2, <3>4 DEF Deciding
    <3>6. AgentOK(a)' /\ Prompting(a)'
      BY <1>3, <2>2, <2>3 DEF AgentOK, Prompting
    <3> QED BY <1>2, <2>2, <2>3, <3>5, <3>6, LoginKept
  <2> QED BY <2>4, <2>5
<1> QED BY <1>1, <1>2, <1>6, <1>7 DEF CertificateAuth, way, server

LEMMA TryKeyKeeps ==
  ASSUME LoginInv, TryKey PROVE LoginInv'
<1>1. login.at = "key" /\ ~way.hardware
      /\ Tries("publickey", way.key, way.key \in server.keys, "fallback")
  BY DEF TryKey
<1>2. PICK a \in Attempts : a = login.attempt
  BY <1>1, AttemptHere
<1>3. /\ a.way.kind = "key" /\ LoginTypeOK /\ login.turn = 0 /\ ~login.wrong
      /\ \/ /\ AtFirst(a)
            /\ a.way.cert = "valid" /\ a.server.ca => "publickey" \notin Remaining(got.lists)
         \/ /\ a.way.key \in a.server.keys => a.way.key \in got.keys
            /\ OnlyAsks(a) /\ <<>> \notin got.lists
  BY <1>1, <1>2, AttemptHere DEF Deciding, Prompting
<1>4. /\ MethodOf(a) = "publickey" /\ Works(a) \in {0, 1} /\ "publickey" \in Methods
      /\ a.way.key \in LoginKeys \union {NoKey}
  BY <1>3, KeyWorks DEF Methods
<1> DEFINE right == a.way.key \in a.server.keys
           state == After("publickey", a.way.key, right)
<1>5. Tries("publickey", a.way.key, right, "fallback") /\ right \in BOOLEAN
  BY <1>1, <1>2 DEF way, server
<1>6. CASE /\ AtFirst(a)
           /\ a.way.cert = "valid" /\ a.server.ca => "publickey" \notin Remaining(got.lists)
  <2>1. Works(a) = 1 => right \/ "publickey" \notin Remaining(got.lists)
    BY <1>3, <1>6, KeyWorks
  <2> HIDE DEF right
  <2> QED BY <1>1, <1>2, <1>4, <1>5, <1>6, <2>1, FirstTry
<1>7. CASE /\ a.way.key \in a.server.keys => a.way.key \in got.keys
           /\ OnlyAsks(a) /\ <<>> \notin got.lists
  <2>1. state = got
    BY <1>7 DEF After, Wants
  <2>2. got' = state /\ (LetsIn(state) => LoginInv')
        /\ (~LetsIn(state) =>
              /\ LoginTypeOK' /\ login'.at = "fallback" /\ login'.attempt = login.attempt
              /\ login'.last = Remaining(got'.lists) /\ <<>> \notin got'.lists
              /\ login'.turn = login.turn /\ login'.wrong = login.wrong
              /\ login'.outcome = "none")
    <3> HIDE DEF right
    <3> QED BY <1>1, <1>3, <1>4, <1>5, <1>7, TriesDoes
  <2>3. SUFFICES ASSUME ~LetsIn(state) PROVE LoginInv'
    BY <2>2
  <2>4. OnlyAsks(a)'
    BY <1>7, <2>1, <2>2 DEF OnlyAsks
  <2> HIDE DEF state
  <2>5. Deciding(a)' /\ AgentOK(a)'
    BY <2>2, <2>3 DEF Deciding, AgentOK
  <2>6. Prompting(a)'
    BY <1>3, <2>2, <2>3, <2>4 DEF Prompting
  <2> QED BY <1>2, <2>2, <2>3, <2>5, <2>6, LoginKept
<1> QED BY <1>3, <1>6, <1>7

\* One key more: accepted, wanted no more, or none that works.
LEMMA CountedGoesOn ==
  ASSUME LoginTypeOK, <<>> \notin got.lists, NEW a, NEW k \in Nat, NEW key \in LoginKeys,
         Works(a) \in Nat, IsFiniteSet(got.keys),
         Counted(a, k), got.keys \subseteq TriedOf(a, k),
         \/ TriedOf(a, k + 1) = TriedOf(a, k) /\ got' = got
         \/ /\ TriedOf(a, k + 1) = TriedOf(a, k) \union {key}
            /\ got' = After("publickey", key, TRUE)
  PROVE  Counted(a, k + 1)' /\ got'.keys \subseteq TriedOf(a, k + 1)
<1> DEFINE m == "publickey"
<1>1. m \in Methods /\ NoKey \notin LoginKeys /\ got.keys \in SUBSET LoginKeys
  BY LoginAssumption DEF LoginAssumption, LoginTypeOK, Methods
<1>2. Cardinality(got.keys) \in Nat
  BY FS_CardinalityType
<1>3. CASE TriedOf(a, k + 1) = TriedOf(a, k) /\ got' = got
  <2>1. ASSUME NEW n \in 0 .. Works(a), NEW asks \in BOOLEAN,
               ListOf(m, n, asks) \in a.server.lists
        PROVE  \E j \in 0 .. n :
                  /\ ListOf(m, n - j, asks) \in got.lists
                  /\ j = n \/ (TriedOf(a, k + 1) \subseteq got.keys /\ j = Cardinality(got.keys))
    BY <1>3, <2>1 DEF Counted
  <2>2. Counted(a, k + 1)'
    BY <1>3, <2>1 DEF Counted
  <2> QED BY <1>3, <2>2
<1>4. CASE /\ TriedOf(a, k + 1) = TriedOf(a, k) \union {key}
           /\ got' = After(m, key, TRUE)
  <2>1. CASE Wants(m, key)
    <3>1. got' = [lists |-> {Advanced(l, m) : l \in got.lists}, keys |-> got.keys \union {key}]
      <4>1. (got.keys \union {key}) \ {NoKey} = got.keys \union {key}
        BY <1>1
      <4> QED BY <1>4, <2>1, <4>1 DEF After
    <3>2. got'.lists = {Advanced(l, m) : l \in got.lists} /\ got'.keys = got.keys \union {key}
      BY <3>1
    <3>3. Cardinality(got'.keys) = Cardinality(got.keys) + 1
      BY <2>1, <3>2, FS_AddElement DEF Wants
    <3>4. ASSUME NEW n \in 0 .. Works(a), NEW asks \in BOOLEAN,
                 ListOf(m, n, asks) \in a.server.lists
          PROVE  \E j \in 0 .. n :
                    /\ ListOf(m, n - j, asks) \in got'.lists
                    /\ \/ j = n
                       \/ TriedOf(a, k + 1) \subseteq got'.keys /\ j = Cardinality(got'.keys)
      <4>1. PICK j \in 0 .. n :
               /\ ListOf(m, n - j, asks) \in got.lists
               /\ j = n \/ (TriedOf(a, k) \subseteq got.keys /\ j = Cardinality(got.keys))
        BY <3>4 DEF Counted
      <4>2. n \in Nat /\ j \in Nat /\ n - j \in Nat
        OBVIOUS
      <4>3. CASE j = n
        <5>1. n - j = 0
          BY <4>2, <4>3
        <5>2. asks
          BY <1>1, <4>1, <5>1, ListShape
        <5>3. Advanced(ListOf(m, n - j, asks), m) = ListOf(m, n - j, asks)
          BY <4>1, <4>2, <5>1, <5>2, ListMoves
        <5>4. ListOf(m, n - j, asks) \in got'.lists
          BY <3>2, <4>1, <5>3
        <5> QED BY <4>3, <5>4
      <4>4. CASE j # n
        <5>1. n - j # 0 /\ j + 1 \in 0 .. n /\ n - (j + 1) = n - j - 1
          BY <4>2, <4>4
        <5>2. Advanced(ListOf(m, n - j, asks), m) = ListOf(m, n - j - 1, asks)
          BY <4>1, <4>2, <5>1, ListMoves
        <5>3. ListOf(m, n - (j + 1), asks) \in got'.lists
          BY <3>2, <4>1, <5>1, <5>2
        <5>4. TriedOf(a, k + 1) \subseteq got'.keys /\ j + 1 = Cardinality(got'.keys)
          BY <1>4, <3>2, <3>3, <4>1, <4>4
        <5> QED BY <5>1, <5>3, <5>4
      <4> QED BY <4>3, <4>4
    <3>5. Counted(a, k + 1)'
      BY <3>4 DEF Counted
    <3> QED BY <1>4, <3>2, <3>5
  <2>2. CASE ~Wants(m, key)
    <3>1. got' = got
      BY <1>4, <2>2 DEF After
    <3>2. ASSUME NEW n \in 0 .. Works(a), NEW asks \in BOOLEAN,
                 ListOf(m, n, asks) \in a.server.lists
          PROVE  \E j \in 0 .. n :
                    /\ ListOf(m, n - j, asks) \in got.lists
                    /\ j = n \/ (TriedOf(a, k + 1) \subseteq got.keys /\ j = Cardinality(got.keys))
      <4>1. PICK j \in 0 .. n :
               /\ ListOf(m, n - j, asks) \in got.lists
               /\ j = n \/ (TriedOf(a, k) \subseteq got.keys /\ j = Cardinality(got.keys))
        BY <3>2 DEF Counted
      <4>2. CASE j = n
        BY <4>1, <4>2
      <4>3. CASE j # n
        <5>1. n - j \in Nat /\ n - j # 0
          BY <4>3
        <5>2. m \in Remaining(got.lists)
          BY <4>1, <5>1, ListMoves
        <5>3. key \in got.keys
          BY <2>2, <5>2 DEF Wants
        <5> QED BY <1>4, <4>1, <4>3, <5>3
      <4> QED BY <4>2, <4>3
    <3>3. Counted(a, k + 1)'
      BY <3>1, <3>2 DEF Counted
    <3> QED BY <1>4, <3>1, <3>3
  <2> QED BY <2>1, <2>2
<1> QED BY <1>3, <1>4

LEMMA TriedOneMore ==
  ASSUME NEW a, NEW k \in Nat
  PROVE  TriedOf(a, k + 1) =
            IF /\ MayBe(a, a.way.agent[k + 1]) /\ a.way.agent[k + 1].signs
               /\ Takes(a, a.way.agent[k + 1])
            THEN TriedOf(a, k) \union {a.way.agent[k + 1].key} ELSE TriedOf(a, k)
<1>1. 1 .. k + 1 = (1 .. k) \union {k + 1}
  OBVIOUS
<1> QED BY <1>1 DEF TriedOf

LEMMA AgentTurn ==
  ASSUME LoginInv, AgentNext
  PROVE  \E a \in Attempts, k \in Nat :
            /\ a = login.attempt /\ k = Tried /\ k + 1 \in 1 .. Len(a.way.agent)
            /\ Head(login.todo) = a.way.agent[k + 1] /\ a.way.agent[k + 1] \in AgentIdentity
            /\ Tail(login.todo) \in Seq(AgentIdentity)
            /\ Len(a.way.agent) - Len(Tail(login.todo)) = k + 1
            /\ Len(Tail(login.todo)) <= Len(a.way.agent)
            /\ \A i \in 1 .. Len(Tail(login.todo)) :
                  Tail(login.todo)[i] = a.way.agent[k + 1 + i]
<1>1. login.at = "agent" /\ login.todo # <<>>
  BY DEF AgentNext
<1>2. PICK a \in Attempts : a = login.attempt
  BY <1>1, AttemptHere
<1>3. /\ LoginTypeOK /\ Len(login.todo) <= Len(a.way.agent)
      /\ \A i \in 1 .. Len(login.todo) : login.todo[i] = a.way.agent[Tried + i]
  BY <1>1, <1>2, AttemptHere DEF AgentOK
<1>4. login.todo \in Seq(AgentIdentity) /\ a.way.agent \in Seq(AgentIdentity)
  BY <1>3, Attempted DEF LoginTypeOK
<1>5. PICK t \in Nat, n \in Nat : t = Len(login.todo) /\ n = Len(a.way.agent)
  BY <1>4
<1>6. t # 0 /\ t <= n
  BY <1>1, <1>3, <1>4, <1>5
<1>7. PICK k \in Nat : k = n - t
  BY <1>6
<1>8. k = Tried
  BY <1>2, <1>5, <1>7 DEF Tried, way
<1>9. /\ k + 1 \in 1 .. n /\ 1 \in 1 .. t /\ n - (t - 1) = k + 1 /\ t - 1 <= n
      /\ \A i \in 1 .. t - 1 : i + 1 \in 1 .. t /\ k + (i + 1) = k + 1 + i
  BY <1>6, <1>7
<1>10. /\ Tail(login.todo) \in Seq(AgentIdentity) /\ Len(Tail(login.todo)) = t - 1
       /\ Head(login.todo) = login.todo[1]
       /\ \A i \in 1 .. t - 1 : Tail(login.todo)[i] = login.todo[i + 1]
  BY <1>1, <1>4, <1>5
<1>11. \A i \in 1 .. t : login.todo[i] = a.way.agent[k + i]
  BY <1>3, <1>5, <1>8
<1>12. Head(login.todo) = a.way.agent[k + 1] /\ a.way.agent[k + 1] \in AgentIdentity
  BY <1>4, <1>5, <1>9, <1>10, <1>11
<1>13. \A i \in 1 .. t - 1 : Tail(login.todo)[i] = a.way.agent[k + 1 + i]
  BY <1>9, <1>10, <1>11
<1>14. /\ a = login.attempt /\ k = Tried /\ k + 1 \in 1 .. Len(a.way.agent)
       /\ Head(login.todo) = a.way.agent[k + 1] /\ a.way.agent[k + 1] \in AgentIdentity
       /\ Tail(login.todo) \in Seq(AgentIdentity)
       /\ Len(a.way.agent) - Len(Tail(login.todo)) = k + 1
       /\ Len(Tail(login.todo)) <= Len(a.way.agent)
       /\ \A i \in 1 .. Len(Tail(login.todo)) :
             Tail(login.todo)[i] = a.way.agent[k + 1 + i]
  BY <1>2, <1>5, <1>8, <1>9, <1>10, <1>12, <1>13
<1> QED BY <1>14

LEMMA AgentNextKeeps ==
  ASSUME LoginInv, AgentNext PROVE LoginInv'
<1>1. PICK a \in Attempts, k \in Nat :
         /\ a = login.attempt /\ k = Tried /\ k + 1 \in 1 .. Len(a.way.agent)
         /\ Head(login.todo) = a.way.agent[k + 1] /\ a.way.agent[k + 1] \in AgentIdentity
         /\ Tail(login.todo) \in Seq(AgentIdentity)
         /\ Len(a.way.agent) - Len(Tail(login.todo)) = k + 1
         /\ Len(Tail(login.todo)) <= Len(a.way.agent)
         /\ \A i \in 1 .. Len(Tail(login.todo)) :
               Tail(login.todo)[i] = a.way.agent[k + 1 + i]
  BY AgentTurn
<1> DEFINE identity == a.way.agent[k + 1]
           rest == [login EXCEPT !.todo = Tail(@)]
           state == After("publickey", identity.key, Listed(identity))
<1>2. login.at = "agent"
  BY DEF AgentNext
<1>3. /\ LoginTypeOK /\ a.way.kind = "agent" /\ <<>> \notin got.lists
      /\ got.keys \subseteq TriedOf(a, k) /\ Counted(a, k) /\ AgentSays(a, k)
      /\ login.turn = 0 /\ ~login.wrong
  BY <1>1, <1>2, AttemptHere DEF AgentOK, Prompting
<1>4. /\ MayTry(identity) <=> MayBe(a, identity)
      /\ Listed(identity) <=> Takes(a, identity)
      /\ Listed(identity) \in BOOLEAN
  <2>1. a.server \in Server /\ a.server.ca \in BOOLEAN
    BY Attempted DEF Server
  <2>2. way = a.way /\ server = a.server
    BY <1>1 DEF way, server
  <2> HIDE DEF identity
  <2>3. MayTry(identity) <=> MayBe(a, identity)
    BY <2>2 DEF MayTry, MayBe
  <2>4. Listed(identity) <=> Takes(a, identity)
    BY <2>2 DEF Listed, Takes
  <2>5. Listed(identity) \in BOOLEAN
    <3>1. CASE identity.cert
      BY <2>1, <2>2, <3>1 DEF Listed
    <3>2. CASE ~identity.cert
      BY <3>2 DEF Listed
    <3> QED BY <3>1, <3>2
  <2> QED BY <2>3, <2>4, <2>5
<1>5. identity.key \in LoginKeys /\ identity.signs \in BOOLEAN
  BY <1>1 DEF AgentIdentity
<1>6. k \in 0 .. Len(a.way.agent) /\ IsFiniteSet(got.keys) /\ Works(a) \in Nat
  <2>1. k \in 0 .. Len(a.way.agent)
    BY <1>1
  <2>2. IsFiniteSet(TriedOf(a, k))
    BY <2>1, TriedIn
  <2> QED BY <1>3, <2>1, <2>2, FS_Subset, WorksIn
<1>7. \/ ~MayTry(identity) /\ login' = rest /\ got' = got
      \/ MayTry(identity) /\ Refuses(identity) /\ login' = rest /\ got' = got
      \/ /\ MayTry(identity) /\ ~Refuses(identity) /\ got' = state
         /\ LetsIn(state) /\ Finish("in")
      \/ /\ MayTry(identity) /\ ~Refuses(identity) /\ got' = state
         /\ ~LetsIn(state) /\ login' = [rest EXCEPT !.last = Remaining(state.lists)]
  BY <1>1 DEF AgentNext
<1>8. "publickey" \in Methods
  BY DEF Methods
<1>9. state \in [lists : SUBSET Seq(Methods), keys : SUBSET LoginKeys]
  BY <1>3, <1>4, <1>5, <1>8, ServerMoves
<1>10. TriedOf(a, k + 1) =
          IF MayBe(a, identity) /\ identity.signs /\ Takes(a, identity)
          THEN TriedOf(a, k) \union {identity.key} ELSE TriedOf(a, k)
  BY TriedOneMore
<1> HIDE DEF identity, state
\* The rest of the agent's keys, with the server at the same place.
<1>11. ASSUME got' = got, TriedOf(a, k + 1) = TriedOf(a, k) PROVE
         Counted(a, k + 1)' /\ got'.keys \subseteq TriedOf(a, k + 1)
  BY <1>3, <1>5, <1>6, <1>11, CountedGoesOn
<1>12. ASSUME LoginTypeOK', login'.at = "agent", login'.attempt = a,
              login'.todo = Tail(login.todo), login'.turn = 0, ~login'.wrong,
              login'.outcome = "none", <<>> \notin got'.lists,
              Counted(a, k + 1)', got'.keys \subseteq TriedOf(a, k + 1), AgentSays(a, k + 1)'
       PROVE  LoginInv'
  <2>1. Tried' = k + 1
    BY <1>1, <1>12 DEF Tried, way
  <2>2. Counted(a, Tried)' /\ AgentSays(a, Tried)'
    BY <1>12, <2>1 DEF Counted, AgentSays
  <2>3. AgentOK(a)'
    BY <1>1, <1>3, <1>12, <2>1, <2>2 DEF AgentOK
  <2>4. Deciding(a)' /\ Prompting(a)'
    BY <1>12 DEF Deciding, Prompting
  <2> QED BY <1>12, <2>3, <2>4, LoginKept
<1>13. ASSUME login' = rest, got' = got
       PROVE  /\ LoginTypeOK' /\ login'.at = "agent" /\ login'.attempt = a
              /\ login'.todo = Tail(login.todo) /\ login'.turn = 0 /\ ~login'.wrong
              /\ login'.outcome = "none" /\ login'.last = login.last
  BY <1>1, <1>2, <1>3, <1>13 DEF LoginTypeOK
<1>14. CASE ~MayTry(identity) /\ login' = rest /\ got' = got
  <2>1. TriedOf(a, k + 1) = TriedOf(a, k)
    BY <1>4, <1>10, <1>14
  <2>2. AgentSays(a, k + 1)'
    BY <1>3, <1>4, <1>13, <1>14 DEF AgentSays, identity
  <2> QED BY <1>3, <1>11, <1>12, <1>13, <1>14, <2>1, <2>2
<1>15. CASE MayTry(identity) /\ Refuses(identity) /\ login' = rest /\ got' = got
  <2>1. Takes(a, identity) /\ ~identity.signs
    BY <1>4, <1>15 DEF Refuses
  <2>2. TriedOf(a, k + 1) = TriedOf(a, k)
    BY <1>10, <2>1
  <2>3. AgentSays(a, k + 1)'
    BY <1>3, <1>13, <1>15, <2>1 DEF AgentSays, identity
  <2> QED BY <1>3, <1>11, <1>12, <1>13, <1>15, <2>2, <2>3
<1>16. CASE /\ MayTry(identity) /\ ~Refuses(identity) /\ got' = state
            /\ LetsIn(state) /\ Finish("in")
  BY <1>2, <1>3, <1>9, <1>16, LoginOver
<1>17. CASE /\ MayTry(identity) /\ ~Refuses(identity) /\ got' = state
            /\ ~LetsIn(state) /\ login' = [rest EXCEPT !.last = Remaining(state.lists)]
  <2>1. <<>> \notin state.lists /\ Remaining(state.lists) \in SUBSET Methods
    BY <1>9, <1>17, RemainingIn DEF LetsIn
  <2>2. /\ LoginTypeOK' /\ login'.at = "agent" /\ login'.attempt = a
        /\ login'.todo = Tail(login.todo) /\ login'.turn = 0 /\ ~login'.wrong
        /\ login'.outcome = "none" /\ login'.last = Remaining(got'.lists)
    BY <1>1, <1>2, <1>3, <1>9, <1>17, <2>1 DEF LoginTypeOK
  <2>3. AgentSays(a, k + 1)'
    BY <2>2 DEF AgentSays
  <2>4. Counted(a, k + 1)' /\ got'.keys \subseteq TriedOf(a, k + 1)
    <3>1. CASE Takes(a, identity) /\ identity.signs
      <4>1. got' = After("publickey", identity.key, TRUE)
        BY <1>4, <1>17, <3>1 DEF state
      <4>2. TriedOf(a, k + 1) = TriedOf(a, k) \union {identity.key}
        BY <1>4, <1>10, <1>17, <3>1
      <4> QED BY <1>3, <1>5, <1>6, <4>1, <4>2, CountedGoesOn
    <3>2. CASE ~(Takes(a, identity) /\ identity.signs)
      <4>1. state = got
        BY <1>4, <1>17, <3>2 DEF state, After, Refuses
      <4>2. TriedOf(a, k + 1) = TriedOf(a, k)
        BY <1>10, <3>2
      <4> QED BY <1>11, <1>17, <4>1, <4>2
    <3> QED BY <3>1, <3>2
  <2> QED BY <1>12, <1>17, <2>1, <2>2, <2>3, <2>4
<1> QED BY <1>7, <1>14, <1>15, <1>16, <1>17

LEMMA AgentDoneKeeps ==
  ASSUME LoginInv, AgentDone PROVE LoginInv'
<1>1. login.at = "agent" /\ login.todo = <<>> /\ got' = got
  BY DEF AgentDone
<1>2. PICK a \in Attempts : a = login.attempt
  BY <1>1, AttemptHere
<1>3. /\ LoginTypeOK /\ a.way.kind = "agent" /\ <<>> \notin got.lists
      /\ got.keys \subseteq TriedOf(a, Tried) /\ Counted(a, Tried) /\ AgentSays(a, Tried)
      /\ login.turn = 0 /\ ~login.wrong
  BY <1>1, <1>2, AttemptHere DEF AgentOK, Prompting
<1>4. a.way.agent \in Seq(AgentIdentity) /\ Len(a.way.agent) \in Nat
      /\ DOMAIN a.way.agent = 1 .. Len(a.way.agent)
  BY Attempted
<1>5. Tried = Len(a.way.agent)
  BY <1>1, <1>2, <1>4 DEF Tried, way
<1>6. PICK k \in Nat : k = Len(a.way.agent) /\ k = Tried
  BY <1>4, <1>5
<1>7. /\ TriedOf(a, k) = KeysThatWork(a) /\ IsFiniteSet(TriedOf(a, k))
      /\ Works(a) = Cardinality(KeysThatWork(a)) /\ Works(a) \in Nat
      /\ MethodOf(a) = "publickey" /\ "publickey" \in Methods
  <2>1. k \in 0 .. Len(a.way.agent)
    BY <1>6
  <2> QED BY <1>3, <1>6, <2>1, TriedIn, WorksIn DEF MethodOf, Methods
<1>8. CASE \E i \in DOMAIN a.way.agent : MayBe(a, a.way.agent[i])
  <2>1. login' = [login EXCEPT !.at = "fallback"]
    BY <1>2, <1>8 DEF AgentDone, MayTry, MayBe, way
  <2>2. /\ LoginTypeOK' /\ login'.at = "fallback" /\ login'.attempt = a
        /\ login'.last = login.last /\ login'.turn = 0 /\ ~login'.wrong
        /\ login'.outcome = "none" /\ got' = got
    BY <1>1, <1>2, <1>3, <2>1 DEF LoginTypeOK
  <2>3. ASSUME NEW n \in 0 .. Works(a), NEW asks \in BOOLEAN,
               ListOf("publickey", n, asks) \in a.server.lists
        PROVE  ListOf("publickey", 0, asks) \in got.lists
    <3>1. PICK j \in 0 .. n :
             /\ ListOf("publickey", n - j, asks) \in got.lists
             /\ j = n \/ (TriedOf(a, k) \subseteq got.keys /\ j = Cardinality(got.keys))
      BY <1>3, <1>6, <2>3 DEF Counted
    <3>2. j = n
      <4>1. SUFFICES ASSUME TriedOf(a, k) \subseteq got.keys, j = Cardinality(got.keys)
                     PROVE  j = n
        BY <3>1
      <4>2. got.keys = KeysThatWork(a)
        BY <1>3, <1>6, <1>7, <4>1
      <4>3. j = Works(a) /\ n <= Works(a) /\ j <= n /\ n \in Nat /\ j \in Nat
        BY <1>7, <4>1, <4>2
      <4> QED BY <4>3, <1>7
    <3>3. n - j = 0
      BY <3>2
    <3> QED BY <3>1, <3>3
  <2>4. OnlyAsks(a)'
    <3>1. ListOf("publickey", 0, FALSE) = <<>> /\ ListOf("publickey", 0, TRUE) = Asking
      BY <1>7, ListShape
    <3>2. SUFFICES ASSUME CouldLogIn(a) PROVE MayPrompt(a) /\ Asking \in got.lists
      BY <2>2 DEF OnlyAsks
    <3>3. PICK n \in 0 .. Works(a) :
             \/ ListOf("publickey", n, FALSE) \in a.server.lists
             \/ MayPrompt(a) /\ ListOf("publickey", n, TRUE) \in a.server.lists
      BY <1>7, <3>2, WhatCould
    <3>4. ListOf("publickey", n, FALSE) \notin a.server.lists
      BY <1>3, <2>3, <3>1
    <3>5. MayPrompt(a) /\ ListOf("publickey", n, TRUE) \in a.server.lists
      BY <3>3, <3>4
    <3> QED BY <2>3, <3>1, <3>5
  <2>5. login.last = Remaining(got.lists) \/ ~MayPrompt(a)
    <3>1. ASSUME \A i \in 1 .. k : MayBe(a, a.way.agent[i]) =>
                    Takes(a, a.way.agent[i]) /\ ~a.way.agent[i].signs
          PROVE  ~MayPrompt(a)
      BY <1>3, <1>4, <1>6, <3>1 DEF MayPrompt
    <3> QED BY <1>3, <1>6, <3>1 DEF AgentSays
  <2>6. Prompting(a)'
    BY <1>3, <2>2, <2>4, <2>5 DEF Prompting
  <2>7. Deciding(a)' /\ AgentOK(a)'
    BY <2>2 DEF Deciding, AgentOK
  <2> QED BY <2>2, <2>6, <2>7, LoginKept
<1>9. CASE ~ \E i \in DOMAIN a.way.agent : MayBe(a, a.way.agent[i])
  <2>1. Finish("out")
    BY <1>2, <1>9 DEF AgentDone, MayTry, MayBe, way
  <2>2. KeysThatWork(a) = {}
    BY <1>9 DEF KeysThatWork
  <2>3. Works(a) = 0 /\ ~MayPrompt(a)
    BY <1>3, <1>7, <1>9, <2>2, FS_EmptySet DEF MayPrompt
  <2>4. ~CouldLogIn(a)
    BY <2>3, NothingWorks
  <2>5. got' \in [lists : SUBSET Seq(Methods), keys : SUBSET LoginKeys] /\ login.at # "idle"
    BY <1>1, <1>3 DEF LoginTypeOK
  <2> QED BY <1>2, <1>3, <2>1, <2>4, <2>5, LoginOver
<1> QED BY <1>8, <1>9

LEMMA FallbackKeeps ==
  ASSUME LoginInv, Fallback PROVE LoginInv'
<1>1. login.at = "fallback" /\ got' = got
  BY DEF Fallback
<1>2. PICK a \in Attempts : a = login.attempt
  BY <1>1, AttemptHere
<1>3. /\ LoginTypeOK /\ OnlyAsks(a) /\ a.way.kind # "prompts"
      /\ login.last = Remaining(got.lists) \/ ~MayPrompt(a)
      /\ login.turn = 0 /\ ~login.wrong /\ <<>> \notin got.lists
  BY <1>1, <1>2, AttemptHere DEF Prompting
<1>4. CASE login' = [login EXCEPT !.at = "start"]
  <2>1. /\ LoginTypeOK' /\ login'.at = "start" /\ login'.attempt = a
        /\ login'.turn = 0 /\ ~login'.wrong /\ login'.outcome = "none" /\ got' = got
    BY <1>1, <1>2, <1>3, <1>4 DEF LoginTypeOK
  <2>2. OnlyAsks(a)'
    BY <1>1, <1>3 DEF OnlyAsks
  <2>3. Deciding(a)' /\ AgentOK(a)' /\ Prompting(a)'
    BY <1>3, <2>1, <2>2 DEF Deciding, AgentOK, Prompting
  <2> QED BY <2>1, <2>3, LoginKept
<1>5. CASE ~(a.attended /\ "keyboard-interactive" \in login.last) /\ Finish("out")
  <2>1. ~CouldLogIn(a)
    <3>1. SUFFICES ASSUME CouldLogIn(a) PROVE FALSE
      OBVIOUS
    <3>2. MayPrompt(a) /\ Asking \in got.lists
      BY <1>3, <3>1 DEF OnlyAsks
    <3>3. "keyboard-interactive" \in login.last
      BY <1>3, <3>2, ListsApart DEF Remaining
    <3>4. a.way.kind = "prompts"
      BY <1>5, <3>2, <3>3 DEF MayPrompt
    <3> QED BY <1>3, <3>4
  <2>2. got' \in [lists : SUBSET Seq(Methods), keys : SUBSET LoginKeys] /\ login.at # "idle"
    BY <1>1, <1>3 DEF LoginTypeOK
  <2> QED BY <1>2, <1>3, <1>5, <2>1, <2>2, LoginOver
<1> QED BY <1>2, <1>4, <1>5 DEF Fallback

\* What the server says with questions alone between it and the login.
LEMMA SaysNext ==
  ASSUME LoginTypeOK, NEW a \in Attempts, a = login.attempt, NEW n \in 0 .. Len(a.server.rounds),
         NEW wrong \in BOOLEAN
  PROVE  /\ Says(n, wrong) \in Round \union {"success", "failure"}
         /\ Says(n, wrong) \in Round => n < Len(a.server.rounds)
                                       /\ Says(n, wrong) = a.server.rounds[n + 1]
         /\ Asking \in got.lists /\ ~wrong => Says(n, wrong) # "failure"
<1>1. a.server.rounds \in Seq(Round) /\ Len(a.server.rounds) \in Nat /\ n \in Nat
      /\ server = a.server
  BY Attempted DEF server
<1>2. CASE "keyboard-interactive" \notin Remaining(got.lists)
  <2>1. Says(n, wrong) = "failure"
    BY <1>2 DEF Says
  <2>2. Asking \notin got.lists
    BY <1>2, ListsApart DEF Remaining
  <2> QED BY <2>1, <2>2 DEF Round
<1>3. CASE "keyboard-interactive" \in Remaining(got.lists) /\ n < Len(a.server.rounds)
  <2>1. Says(n, wrong) = a.server.rounds[n + 1]
    BY <1>1, <1>3 DEF Says
  <2>2. n + 1 \in 1 .. Len(a.server.rounds)
    BY <1>1, <1>3
  <2>3. a.server.rounds[n + 1] \in Round
    BY <1>1, <2>2
  <2> QED BY <1>3, <2>1, <2>3 DEF Round
<1>4. CASE "keyboard-interactive" \in Remaining(got.lists) /\ ~(n < Len(a.server.rounds))
  <2> DEFINE state == After("keyboard-interactive", NoKey, ~wrong)
  <2>1. Says(n, wrong) = IF LetsIn(state) THEN "success" ELSE "failure"
    BY <1>1, <1>4 DEF Says
  <2>2. ASSUME Asking \in got.lists, ~wrong PROVE LetsIn(state)
    <3>1. Wants("keyboard-interactive", NoKey)
      BY <1>4, LoginAssumption DEF LoginAssumption, LoginTypeOK, Wants
    <3>2. state.lists = {Advanced(l, "keyboard-interactive") : l \in got.lists}
      BY <2>2, <3>1 DEF After
    <3>3. Advanced(Asking, "keyboard-interactive") = <<>>
      BY ListsApart DEF Advanced
    <3> HIDE DEF state
    <3> QED BY <2>2, <3>2, <3>3 DEF LetsIn
  <2> HIDE DEF state
  <2> QED BY <2>1, <2>2 DEF Round
<1> QED BY <1>2, <1>3, <1>4

LEMMA StartPromptsKeeps ==
  ASSUME LoginInv, StartPrompts PROVE LoginInv'
<1>1. login.at = "start" /\ got' = got
      /\ login' = [login EXCEPT !.at = "loop", !.response = Says(0, FALSE)]
  BY DEF StartPrompts
<1>2. PICK a \in Attempts : a = login.attempt
  BY <1>1, AttemptHere
<1>3. LoginTypeOK /\ OnlyAsks(a) /\ login.turn = 0 /\ ~login.wrong /\ <<>> \notin got.lists
  BY <1>1, <1>2, AttemptHere DEF Prompting
<1>4. 0 \in 0 .. Len(a.server.rounds)
  BY Attempted
<1>5. /\ Says(0, FALSE) \in Round \union {"success", "failure"}
      /\ Says(0, FALSE) \in Round => 0 < Len(a.server.rounds)
                                    /\ Says(0, FALSE) = a.server.rounds[0 + 1]
      /\ Asking \in got.lists => Says(0, FALSE) # "failure"
  BY <1>2, <1>3, <1>4, SaysNext
<1>6. PICK r : r = Says(0, FALSE)
  OBVIOUS
<1>7. /\ LoginTypeOK' /\ login'.at = "loop" /\ login'.attempt = a /\ login'.turn = 0
      /\ ~login'.wrong /\ login'.outcome = "none" /\ login'.response = r
  BY <1>1, <1>2, <1>3, <1>5, <1>6 DEF LoginTypeOK
<1>8. CouldLogIn(a) => MayPrompt(a) /\ Asking \in got.lists
  BY <1>3 DEF OnlyAsks
<1>9. OnlyAsks(a)'
  BY <1>1, <1>8 DEF OnlyAsks
<1>10. r \in Round \union {"success", "failure"} /\ r # "none"
  BY <1>5, <1>6 DEF Round
<1>11. Prompting(a)'
  <2>1. login'.response \in Round =>
           /\ login'.turn < Len(a.server.rounds)
           /\ login'.response = a.server.rounds[login'.turn + 1]
           /\ OnlyAsks(a)' /\ <<>> \notin got'.lists
    BY <1>1, <1>3, <1>5, <1>6, <1>7, <1>9
  <2>2. login'.turn <= Len(a.server.rounds) /\ login'.response # "none"
    BY <1>4, <1>7, <1>10
  <2>3. login'.response = "failure" => ~CouldLogIn(a)
    BY <1>5, <1>6, <1>7, <1>8
  <2> QED BY <1>7, <1>8, <2>1, <2>2, <2>3 DEF Prompting
<1>12. Deciding(a)' /\ AgentOK(a)'
  BY <1>7 DEF Deciding, AgentOK
<1> QED BY <1>7, <1>11, <1>12, LoginKept

LEMMA RespondsKeeps ==
  ASSUME LoginInv, login.at \in {"loop", "question"}, login.response \in Round,
         NEW wrong \in BOOLEAN, Responds(wrong)
  PROVE  LoginInv'
<1>1. PICK a \in Attempts : a = login.attempt
  BY AttemptHere
<1>2. /\ LoginTypeOK /\ OnlyAsks(a) /\ <<>> \notin got.lists
      /\ login.turn < Len(a.server.rounds)
  BY <1>1, AttemptHere DEF Prompting
<1>3. PICK n \in Nat : n = login.turn + 1
  BY <1>2 DEF LoginTypeOK
<1>4. Len(a.server.rounds) \in Nat /\ n \in 0 .. Len(a.server.rounds)
      /\ (n < Len(a.server.rounds) => ~(n >= Len(a.server.rounds)))
  BY <1>2, <1>3, Attempted DEF LoginTypeOK
<1>5. PICK r : r = Says(n, wrong)
  OBVIOUS
<1>6. /\ r \in Round \union {"success", "failure"}
      /\ r \in Round => n < Len(a.server.rounds) /\ r = a.server.rounds[n + 1]
      /\ Asking \in got.lists /\ ~wrong => r # "failure"
  BY <1>1, <1>2, <1>4, <1>5, SaysNext
<1>7. login' = [login EXCEPT !.at = "loop", !.turn = n, !.wrong = wrong, !.response = r]
  BY <1>3, <1>5 DEF Responds
<1>8. got' = IF n >= Len(a.server.rounds) THEN After("keyboard-interactive", NoKey, ~wrong)
             ELSE got
  BY <1>1, <1>3 DEF Responds, server
<1>9. got' \in [lists : SUBSET Seq(Methods), keys : SUBSET LoginKeys]
  <2>1. (~wrong) \in BOOLEAN /\ "keyboard-interactive" \in Methods
    BY DEF Methods
  <2>2. After("keyboard-interactive", NoKey, ~wrong)
           \in [lists : SUBSET Seq(Methods), keys : SUBSET LoginKeys]
    BY <1>2, <2>1, ServerMoves
  <2> QED BY <1>2, <1>8, <2>2 DEF LoginTypeOK
<1>10. /\ LoginTypeOK' /\ login'.at = "loop" /\ login'.attempt = a /\ login'.turn = n
       /\ login'.wrong = wrong /\ login'.outcome = "none" /\ login'.response = r
  <2>1. login.at # "idle" /\ login.at # "ended" /\ login.outcome = "none"
    BY <1>2 DEF LoginTypeOK
  <2> QED BY <1>1, <1>2, <1>6, <1>7, <1>9, <2>1 DEF LoginTypeOK
<1>11. CouldLogIn(a) => MayPrompt(a) /\ Asking \in got.lists
  BY <1>2 DEF OnlyAsks
<1>12. r \in Round => OnlyAsks(a)' /\ <<>> \notin got'.lists
  <2>1. SUFFICES ASSUME r \in Round PROVE OnlyAsks(a)' /\ <<>> \notin got'.lists
    OBVIOUS
  <2>2. got' = got
    BY <1>4, <1>6, <1>8, <2>1
  <2> QED BY <1>2, <1>11, <2>2 DEF OnlyAsks
<1>13. r # "none"
  BY <1>6 DEF Round
<1>14. Prompting(a)'
  BY <1>4, <1>6, <1>10, <1>11, <1>12, <1>13 DEF Prompting
<1>15. Deciding(a)' /\ AgentOK(a)'
  BY <1>10 DEF Deciding, AgentOK
<1> QED BY <1>10, <1>14, <1>15, LoginKept

LEMMA TurnKeeps ==
  ASSUME LoginInv, Turn PROVE LoginInv'
<1>1. login.at = "loop"
  BY DEF Turn
<1>2. PICK a \in Attempts : a = login.attempt
  BY <1>1, AttemptHere
<1>3. /\ LoginTypeOK /\ login.turn <= Len(a.server.rounds)
      /\ CouldLogIn(a) => MayPrompt(a)
      /\ login.response \in Round => /\ login.turn < Len(a.server.rounds)
                                    /\ login.response = a.server.rounds[login.turn + 1]
                                    /\ OnlyAsks(a) /\ <<>> \notin got.lists
      /\ login.response = "failure" /\ ~login.wrong => ~CouldLogIn(a)
  BY <1>1, <1>2, AttemptHere DEF Prompting
<1>4. /\ login.turn \in Nat /\ Len(a.server.rounds) \in Nat /\ MaxPrompts \in Nat
      /\ a.server.rounds \in Seq(Round) /\ login.wrong \in BOOLEAN
  BY <1>3, Attempted, LoginAssumption DEF LoginTypeOK, LoginAssumption
<1>5. got' = got => got' \in [lists : SUBSET Seq(Methods), keys : SUBSET LoginKeys]
  BY <1>3 DEF LoginTypeOK
<1>6. CASE /\ login.turn >= MaxPrompts \/ login.response \in {"success", "failure"}
           /\ Finish(IF login.turn < MaxPrompts /\ login.response = "success" THEN "in" ELSE "out")
           /\ got' = got
  <2>1. PICK o \in {"in", "out"} :
           o = IF login.turn < MaxPrompts /\ login.response = "success" THEN "in" ELSE "out"
    OBVIOUS
  <2>2. o = "out" /\ ~login.wrong => ~CouldLogIn(a)
    <3>1. SUFFICES ASSUME o = "out", ~login.wrong, CouldLogIn(a) PROVE FALSE
      OBVIOUS
    <3>2. ~(login.turn < MaxPrompts /\ login.response = "success")
      BY <2>1, <3>1
    <3>3. login.turn < MaxPrompts
      <4>1. Len(a.server.rounds) < MaxPrompts
        BY <1>3, <3>1 DEF MayPrompt
      <4> QED BY <1>3, <1>4, <4>1
    <3>4. login.response = "failure"
      BY <1>4, <1>6, <3>2, <3>3
    <3> QED BY <1>3, <3>1, <3>4
  <2>3. Finish(o)
    BY <1>6, <2>1
  <2> QED BY <1>1, <1>2, <1>3, <1>5, <1>6, <2>2, <2>3, LoginOver
<1>7. CASE login.response = "status" /\ Responds(login.wrong)
  BY <1>1, <1>4, <1>7, RespondsKeeps DEF Round
<1>8. CASE /\ login.response = "question" /\ a.attended
           /\ login' = [login EXCEPT !.at = "question"] /\ got' = got
  <2>1. /\ LoginTypeOK' /\ login'.at = "question" /\ login'.attempt = a
        /\ login'.turn = login.turn /\ login'.wrong = login.wrong
        /\ login'.outcome = "none" /\ login'.response = login.response
    BY <1>1, <1>2, <1>3, <1>8 DEF LoginTypeOK
  <2>2. OnlyAsks(a)'
    BY <1>3, <1>8 DEF OnlyAsks, Round
  <2>3. Prompting(a)'
    BY <1>3, <1>8, <2>1, <2>2 DEF Prompting
  <2>4. Deciding(a)' /\ AgentOK(a)'
    BY <2>1 DEF Deciding, AgentOK
  <2> QED BY <1>3, <1>8, <2>1, <2>3, <2>4, LoginKept
<1>9. CASE login.response = "question" /\ ~a.attended /\ Finish("out") /\ got' = got
  <2>1. ~CouldLogIn(a)
    <3>1. SUFFICES ASSUME CouldLogIn(a) PROVE FALSE
      OBVIOUS
    <3>2. "question" \notin ToSet(a.server.rounds)
      BY <1>3, <1>9, <3>1 DEF MayPrompt
    <3>3. login.turn < Len(a.server.rounds) /\ a.server.rounds[login.turn + 1] = "question"
      BY <1>3, <1>9 DEF Round
    <3>4. login.turn + 1 \in DOMAIN a.server.rounds
      BY <1>4, <3>3
    <3> QED BY <3>2, <3>3, <3>4 DEF ToSet
  <2> QED BY <1>1, <1>2, <1>3, <1>5, <1>9, <2>1, LoginOver
<1> QED BY <1>2, <1>6, <1>7, <1>8, <1>9 DEF Turn

LEMMA AskedKeeps ==
  ASSUME LoginInv, Asked PROVE LoginInv'
<1>1. login.at = "question"
  BY DEF Asked
<1>2. PICK a \in Attempts : a = login.attempt
  BY <1>1, AttemptHere
<1>3. LoginTypeOK /\ login.response = "question" /\ login.wrong \in BOOLEAN
  BY <1>1, <1>2, AttemptHere DEF Prompting, LoginTypeOK
<1>4. CASE \E wrong \in BOOLEAN : Responds(login.wrong \/ wrong)
  <2>1. PICK wrong \in BOOLEAN : Responds(login.wrong \/ wrong)
    BY <1>4
  <2>2. PICK w \in BOOLEAN : w = (login.wrong \/ wrong)
    BY <1>3
  <2>3. Responds(w)
    BY <2>1, <2>2
  <2> QED BY <1>1, <1>3, <2>3, RespondsKeeps DEF Round
<1>5. CASE /\ login' = [login EXCEPT !.at = "ended", !.outcome = "out", !.wrong = TRUE]
           /\ got' = got
  <2>1. /\ LoginTypeOK' /\ login'.at = "ended" /\ login'.attempt = a /\ login'.wrong
    BY <1>1, <1>2, <1>3, <1>5 DEF LoginTypeOK
  <2>2. Deciding(a)' /\ AgentOK(a)' /\ Prompting(a)'
    BY <2>1 DEF Deciding, AgentOK, Prompting
  <2> QED BY <2>1, <2>2, LoginKept
<1> QED BY <1>4, <1>5 DEF Asked

LEMMA DropsKeeps ==
  ASSUME LoginInv, Drops PROVE LoginInv'
<1>1. login.at \notin {"idle", "ended"} /\ Finish("broken") /\ got' = got
  BY DEF Drops
<1>2. LoginTypeOK /\ got' \in [lists : SUBSET Seq(Methods), keys : SUBSET LoginKeys]
  BY <1>1, AttemptHere DEF LoginTypeOK
<1> QED BY <1>1, <1>2, LoginOver

LEMMA LoginStep ==
  ASSUME LoginInv, [LoginNext]_lvars PROVE LoginInv'
<1>1. CASE LoginNext
  BY <1>1, BeginKeeps, TryPasswordKeeps, RefuseHardwareKeeps, CertificateAuthKeeps, TryKeyKeeps,
     AgentNextKeeps, AgentDoneKeeps, FallbackKeeps, StartPromptsKeeps, TurnKeeps, AskedKeeps,
     DropsKeeps DEF LoginNext, Authenticate
<1>2. CASE UNCHANGED lvars
  <2>1. login' = login /\ got' = got
    BY <1>2 DEF lvars
  <2>2. LoginTypeOK' /\ GivesUpRightly'
    BY <2>1 DEF LoginInv, LoginTypeOK, GivesUpRightly
  <2>3. CASE login.at = "idle"
    BY <2>1, <2>2, <2>3 DEF LoginInv
  <2>4. CASE login.at # "idle"
    <3>1. PICK a \in Attempts : a = login.attempt
      BY <2>4, AttemptHere
    <3>2. Deciding(a) /\ AgentOK(a) /\ Prompting(a)
      BY <2>4, <3>1, AttemptHere
    <3>3. Deciding(a)'
      BY <2>1, <3>2 DEF Deciding, AtFirst, OnlyAsks
    <3>4. AgentOK(a)'
      BY <2>1, <3>2 DEF AgentOK, Counted, AgentSays, Tried, way
    <3>5. Prompting(a)'
      BY <2>1, <3>2 DEF Prompting, OnlyAsks
    <3>6. login'.outcome = "out" /\ ~login'.wrong => ~CouldLogIn(a)
      BY <2>1, <3>1 DEF LoginInv, GivesUpRightly
    <3> QED BY <2>1, <2>2, <3>1, <3>3, <3>4, <3>5, <3>6, LoginKept
  <2> QED BY <2>3, <2>4
<1> QED BY <1>1, <1>2

(* The place of a login, what it was last told and what the server has left *)
(* have their types (AuthContext, authenticate).                            *)
THEOREM LoginTypeCorrect ==
  LoginSpec => []LoginTypeOK
<1>1. LoginInv => LoginTypeOK
  BY DEF LoginInv
<1> QED BY <1>1, LoginStarts, LoginStep, PTL DEF LoginSpec

(* A login is given up only when the certificate, the key, any of the       *)
(* agent's keys and the questions after them would not have done, for any   *)
(* credential, any number of identities, any lists of methods the server    *)
(* lets in after and any rounds (authenticate, certificate_auth, agent_auth,*)
(* keyboard_interactive).                                                   *)
THEOREM GivenUpRightly ==
  LoginSpec => []GivesUpRightly
<1>1. LoginInv => GivesUpRightly
  BY DEF LoginInv
<1> QED BY <1>1, LoginStarts, LoginStep, PTL DEF LoginSpec
=============================================================================
