---------------------------- MODULE Window_proofs ----------------------------
(***************************************************************************)
(* Proofs about Handover and Tabs: what a window shows of the sessions.    *)
(*                                                                         *)
(* Handover: for any amount of output, any number of moves and any of the  *)
(* mishaps.  Handed, the inductive invariant, has one part for each way in *)
(* which ShownOnce could fail. Framed says which steps of a move, and      *)
(* which states of the two windows, go together. Single says that a chunk  *)
(* is in one place only: shown, in the answer of ssh_attach, queued behind *)
(* it, among the events, being emitted, held, or given back. Ordered says  *)
(* that along these places chunks stand in the order they were printed,    *)
(* and Kept that none is missing from the way to the window the output is  *)
(* for. The last two need Quiet: while nothing was hasty or overtaken,     *)
(* what is held was not being emitted and who moves is bound.              *)
(*                                                                         *)
(* Tabs: for any number of sessions, commands and retry loops. TabInv adds *)
(* to the properties what a connect's answer on its way is worth: a        *)
(* session of its own that nobody shows yet. Steps of the window that      *)
(* begin and end no connect are taken together (Backs, Fronts).            *)
(***************************************************************************)
EXTENDS Handover, Tabs, SequenceTheorems, WellFoundedInduction, TLAPS

USE HandoverAssumption DEF HandoverAssumption

----------------------------------------------------------------------------
(* Where chunks are *)

\* The chunks of a row of events; an ssh-held event is none.
Of(s) == {s[i] : i \in DOMAIN s} \ {Held}
Now == {emitting} \ {Held}

\* No chunk stands twice in a row of events.
Once(s) == \A i, j \in DOMAIN s : s[i] = s[j] /\ s[i] # Held => i = j

\* They stand in the order they were printed.
Rises(s) == \A i, j \in DOMAIN s : i < j /\ s[i] # Held /\ s[j] # Held => s[i] < s[j]

\* What is asked back goes to the main window's terminal.
AskedBack(w) == IF w = "main" THEN Of(given) ELSE {}

Views == [at : {"none", "mounted", "listening", "asked", "bound"},
          shown : Seq(Nat), queued : Seq(Nat), reply : Seq(Nat)]

\* All that is on a terminal or on its way there: the events i, what is being
\* emitted e, what is held p and what was given back g.
Reach(v, i, e, p, g) ==
    Of(v.shown) \cup Of(v.reply) \cup Of(v.queued) \cup Of(i) \cup e \cup p \cup g

Disjoint(s, r, q, i, e, p, g) ==
    /\ s \cap (r \cup q \cup i \cup e \cup p \cup g) = {}
    /\ r \cap (q \cup i \cup e \cup p \cup g) = {}
    /\ q \cap (i \cup e \cup p \cup g) = {}
    /\ i \cap (e \cup p \cup g) = {}
    /\ e \cap (p \cup g) = {}
    /\ p \cap g = {}

\* Each chunk in one place of these, and there once.
Lined(v, i, e, p, g) ==
    /\ Once(v.shown) /\ Once(v.reply) /\ Once(v.queued) /\ Once(i)
    /\ Disjoint(Of(v.shown), Of(v.reply), Of(v.queued), Of(i), e, p, g)

Below(a, b) == \A x \in a, y \in b : x < y

InTurn(s, r, q, i, e, p) ==
    /\ Below(s, r \cup q \cup i \cup e \cup p)
    /\ Below(r, q \cup i \cup e \cup p)
    /\ Below(q, i \cup e \cup p)
    /\ Below(i, e \cup p)
    /\ Below(e, p)

\* Each chunk behind those it was printed after.
Risen(v, i, e, p) ==
    /\ Rises(v.shown) /\ Rises(v.reply) /\ Rises(v.queued) /\ Rises(i)
    /\ InTurn(Of(v.shown), Of(v.reply), Of(v.queued), Of(i), e, p)

----------------------------------------------------------------------------
(* The shape of a move *)

\* Whose terminal the session's output is for.
OnMain == ~detached /\ move["main"] # "opened"

Framed ==
    /\ \A w \in Windows :
          /\ view[w].at = "none" => view[w] = NoView /\ inbox[w] = <<>>
          /\ move[w] \in {"holding", "waiting"} => view[w].at # "none"
          /\ view[w].at # "asked" => view[w].reply = <<>>
          /\ view[w].at = "bound" => Of(view[w].queued) = {}
    /\ ~open => view["tab"].at = "none" /\ move["tab"] = "still"
    /\ open => ~OnMain
    /\ gone => ~open /\ ~OnMain
    /\ detached => view["main"].at = "none" /\ move["main"] = "still"
    /\ move["main"] # "still" => view["main"].at # "none"
    /\ given # <<>> => move["main"] = "asking"
    /\ move["tab"] \notin {"opened", "refused", "asking"}

\* A chunk is in one place on its way to a window.
Single ==
    /\ Of(pending) \subseteq 1..out /\ Of(given) \subseteq 1..out /\ Now \subseteq 1..out
    /\ Once(pending) /\ Once(given)
    /\ \A w \in Windows :
          /\ Reach(view[w], inbox[w], Now, Of(pending), AskedBack(w)) \subseteq 1..out
          /\ Lined(view[w], inbox[w], Now, Of(pending), AskedBack(w))
    /\ payload # Nothing => /\ Of(payload) \subseteq 1..out /\ Once(payload)
                            /\ Of(payload) \cap (Now \cup Of(pending)) = {}

\* Neither hasty nor overtaken: who moves is bound, and what is held was not
\* being emitted.
Calm == mishaps \cap {"overtaken", "hasty"} = {}

Quiet ==
    Calm => /\ emitting # 0 => attached
            /\ attached => pending = <<>>
            /\ \A w \in Windows : move[w] # "still" => view[w].at = "bound"

\* As far as InOrder goes, chunks are in the order of their way.
Ordered ==
    mishaps \subseteq {"late", "crashed"} =>
        /\ move["main"] \notin {"refused", "asking"}
        /\ Rises(pending)
        /\ payload # Nothing => Rises(payload) /\ Below(Of(payload), Now \cup Of(pending))
        /\ \A w \in Windows :
              /\ Risen(view[w], inbox[w], Now, Of(pending))
              /\ ~attached /\ view[w].at \in {"mounted", "listening"} =>
                    Of(view[w].queued) = {} /\ Of(inbox[w]) = {}

\* No ssh-held event, or one at the end at most.
Bare(i) == \A k \in DOMAIN i : i[k] # Held
HeldEnds(i) == \A k \in DOMAIN i : i[k] = Held => k = Len(i)

\* What a move has seen to: m is how far it has come, i its window's events, a the
\* flag, p what was left and s the screen.
Seen(m, i, a, p, s) ==
    /\ m \in {"still", "holding", "asking"} => Bare(i)
    /\ m = "waiting" => HeldEnds(i)
    /\ m \in {"heard", "packed", "refused"} => i = <<>>
    /\ m \in {"waiting", "heard", "packed", "refused"} => ~a
    /\ m = "packed" => p = s

\* The session sends what it prints if and only if a terminal is there for it.
Heeds(t, m, a) ==
    /\ a => t \in {"asked", "bound"}
    /\ t \in {"asked", "bound"} /\ m \in {"still", "holding", "asking"} => a

Heeded(w) == Heeds(view[w].at, move[w], attached)

\* All that was printed is on a terminal or on its way to it, or was left for one.
Full(w) == 1..out \subseteq Reach(view[w], inbox[w], Now, Of(pending), AskedBack(w))
Left == payload # Nothing /\ 1..out \subseteq Of(payload) \cup Of(pending)

\* As far as NothingLost goes.
Kept ==
    mishaps \subseteq {"refused"} =>
        /\ \A w \in Windows : Seen(move[w], inbox[w], attached, payload, view[w].shown)
        /\ OnMain => Heeded("main") /\ Full("main")
        /\ ~OnMain => /\ Heeded("tab")
                      /\ IF view["tab"].at # "none" THEN Full("tab") ELSE Left

Handed == HandoverTypeOK /\ Framed /\ Single /\ Quiet /\ Ordered /\ Kept

----------------------------------------------------------------------------
(* Rows of events *)

LEMMA EmptyRow == Of(<<>>) = {} /\ Once(<<>>) /\ Rises(<<>>)
BY DEF Of, Once, Rises

LEMMA Between ==
  ASSUME NEW n \in Nat
  PROVE  /\ \A i, j \in 1..(n + 1) : i < j => i \in 1..n /\ (j \in 1..n \/ j = n + 1)
         /\ \A i \in 1..(n - 1) : i \in 1..n /\ i + 1 \in 1..n
         /\ \A i \in 1..n : i # 1 => i - 1 \in 1..(n - 1) /\ (i - 1) + 1 = i
         /\ \A i, j \in 1..n : (i < j => i + 1 < j + 1) /\ (i + 1 = j + 1 => i = j)
OBVIOUS

LEMMA AppendRow ==
  ASSUME NEW s \in Seq(Nat), NEW x \in Nat
  PROVE  /\ Append(s, x) \in Seq(Nat)
         /\ Of(Append(s, x)) = Of(s) \cup ({x} \ {Held})
         /\ Once(s) /\ x \notin Of(s) => Once(Append(s, x))
         /\ Rises(s) /\ Below(Of(s), {x} \ {Held}) => Rises(Append(s, x))
<1> DEFINE t == Append(s, x)
<1>1. /\ t \in Seq(Nat) /\ Len(t) = Len(s) + 1 /\ DOMAIN t = 1..Len(t) /\ DOMAIN s = 1..Len(s)
      /\ t[Len(s) + 1] = x /\ \A i \in 1..Len(s) : t[i] = s[i]
      /\ Len(s) \in Nat /\ \A i \in 1..Len(s) : s[i] \in Nat
  OBVIOUS
<1> HIDE DEF t
<1>2. Of(t) = Of(s) \cup ({x} \ {Held})
  <2>1. ASSUME NEW y \in Of(t) PROVE y \in Of(s) \cup ({x} \ {Held})
    <3>1. PICK i \in DOMAIN t : y = t[i] /\ y # Held
      BY <2>1 DEF Of
    <3>2. CASE i = Len(s) + 1
      BY <1>1, <3>1, <3>2
    <3>3. CASE i \in 1..Len(s)
      BY <1>1, <3>1, <3>3 DEF Of
    <3> QED BY <1>1, <3>1, <3>2, <3>3
  <2>2. ASSUME NEW y \in Of(s) PROVE y \in Of(t)
    <3>1. PICK i \in DOMAIN s : y = s[i] /\ y # Held
      BY <2>2 DEF Of
    <3>2. i \in DOMAIN t /\ t[i] = s[i]
      BY <1>1, <3>1
    <3> QED BY <3>1, <3>2 DEF Of
  <2>3. ASSUME x # Held PROVE x \in Of(t)
    <3>1. Len(s) + 1 \in DOMAIN t
      BY <1>1
    <3> QED BY <1>1, <2>3, <3>1 DEF Of
  <2> QED BY <2>1, <2>2, <2>3
<1>3. ASSUME Once(s), x \notin Of(s) PROVE Once(t)
  <2>1. \A i \in 1..Len(s) : s[i] # Held => s[i] # x
    BY <1>1, <1>3 DEF Of
  <2>2. \A i, j \in 1..Len(s) : s[i] = s[j] /\ s[i] # Held => i = j
    BY <1>1, <1>3 DEF Once
  <2>3. SUFFICES ASSUME NEW i \in 1..(Len(s) + 1), NEW j \in 1..(Len(s) + 1), t[i] = t[j], t[i] # Held
                 PROVE i = j
    BY <1>1 DEF Once
  <2>4. CASE i \in 1..Len(s) /\ j \in 1..Len(s)
    BY <1>1, <2>2, <2>3, <2>4
  <2>5. CASE i = Len(s) + 1 /\ j \in 1..Len(s)
    BY <1>1, <2>1, <2>3, <2>5
  <2>6. CASE j = Len(s) + 1 /\ i \in 1..Len(s)
    BY <1>1, <2>1, <2>3, <2>6
  <2> QED BY <1>1, <2>3, <2>4, <2>5, <2>6
<1>4. ASSUME Rises(s), Below(Of(s), {x} \ {Held}) PROVE Rises(t)
  <2>1. \A i \in 1..Len(s) : s[i] # Held /\ x # Held => s[i] < x
    BY <1>1, <1>4 DEF Of, Below
  <2>2. \A i, j \in 1..Len(s) : i < j /\ s[i] # Held /\ s[j] # Held => s[i] < s[j]
    BY <1>1, <1>4 DEF Rises
  <2>3. SUFFICES ASSUME NEW i \in 1..(Len(s) + 1), NEW j \in 1..(Len(s) + 1),
                        i < j, t[i] # Held, t[j] # Held
                 PROVE t[i] < t[j]
    BY <1>1 DEF Rises
  <2>4. i \in 1..Len(s) /\ (j \in 1..Len(s) \/ j = Len(s) + 1)
    BY <1>1, <2>3, Between
  <2> QED BY <1>1, <2>1, <2>2, <2>3, <2>4
<1> QED BY <1>1, <1>2, <1>3, <1>4 DEF t

LEMMA TailRow ==
  ASSUME NEW s \in Seq(Nat), s # <<>>
  PROVE  /\ Head(s) \in Nat /\ Tail(s) \in Seq(Nat) /\ Len(Tail(s)) = Len(s) - 1
         /\ \A i \in DOMAIN Tail(s) : i + 1 \in DOMAIN s /\ Tail(s)[i] = s[i + 1]
         /\ Of(s) = Of(Tail(s)) \cup ({Head(s)} \ {Held})
         /\ Once(s) => Once(Tail(s)) /\ Head(s) \notin Of(Tail(s))
         /\ Rises(s) => Rises(Tail(s)) /\ Below({Head(s)} \ {Held}, Of(Tail(s)))
<1> DEFINE t == Tail(s)
<1> DEFINE x == Head(s)
<1>1. /\ t \in Seq(Nat) /\ Len(s) \in Nat \ {0} /\ Len(t) = Len(s) - 1
      /\ DOMAIN t = 1..(Len(s) - 1) /\ DOMAIN s = 1..Len(s)
      /\ s[1] = x /\ x \in Nat /\ \A i \in 1..(Len(s) - 1) : t[i] = s[i + 1]
      /\ \A i \in 1..Len(s) : s[i] \in Nat
  OBVIOUS
<1> HIDE DEF t, x
<1>2. \A i \in DOMAIN t : i + 1 \in DOMAIN s /\ t[i] = s[i + 1]
  <2>1. \A i \in 1..(Len(s) - 1) : i \in 1..Len(s) /\ i + 1 \in 1..Len(s)
    BY <1>1, Between
  <2> QED BY <1>1, <2>1
<1>3. Of(s) = Of(t) \cup ({x} \ {Held})
  <2>1. ASSUME NEW y \in Of(s) PROVE y \in Of(t) \cup ({x} \ {Held})
    <3>1. PICK i \in DOMAIN s : y = s[i] /\ y # Held
      BY <2>1 DEF Of
    <3>2. CASE i = 1
      BY <1>1, <3>1, <3>2
    <3>3. CASE i # 1
      <4>1. i \in 1..Len(s) /\ i - 1 \in 1..(Len(s) - 1) /\ (i - 1) + 1 = i
        BY <1>1, <3>1, <3>3, Between
      <4>2. i - 1 \in DOMAIN t /\ t[i - 1] = s[i]
        BY <1>1, <4>1
      <4> QED BY <3>1, <4>2 DEF Of
    <3> QED BY <3>2, <3>3
  <2>2. ASSUME NEW y \in Of(t) PROVE y \in Of(s)
    <3>1. PICK i \in DOMAIN t : y = t[i] /\ y # Held
      BY <2>2 DEF Of
    <3>2. i + 1 \in DOMAIN s /\ t[i] = s[i + 1]
      BY <1>2, <3>1
    <3> QED BY <3>1, <3>2 DEF Of
  <2>3. ASSUME x # Held PROVE x \in Of(s)
    <3>1. 1 \in DOMAIN s
      BY <1>1
    <3> QED BY <1>1, <2>3, <3>1 DEF Of
  <2> QED BY <2>1, <2>2, <2>3
<1>4. ASSUME Once(s) PROVE Once(t) /\ x \notin Of(t)
  <2>1. \A i, j \in 1..Len(s) : s[i] = s[j] /\ s[i] # Held => i = j
    BY <1>1, <1>4 DEF Once
  <2>2. ASSUME NEW i \in 1..(Len(s) - 1), NEW j \in 1..(Len(s) - 1), t[i] = t[j], t[i] # Held
        PROVE  i = j
    <3>1. i + 1 \in 1..Len(s) /\ j + 1 \in 1..Len(s) /\ s[i + 1] = s[j + 1] /\ s[i + 1] # Held
      BY <1>1, <2>2, Between
    <3>2. i + 1 = j + 1
      BY <2>1, <3>1
    <3> QED BY <1>1, <2>2, <3>2, Between
  <2>3. ASSUME x \in Of(t) PROVE FALSE
    <3>1. PICK i \in 1..(Len(s) - 1) : x = t[i] /\ x # Held
      BY <1>1, <2>3 DEF Of
    <3>2. i + 1 \in 1..Len(s) /\ 1 \in 1..Len(s)
      <4>1. Len(s) \in Nat /\ i \in Nat /\ 1 <= i /\ i <= Len(s) - 1
        BY <1>1
      <4> QED BY <4>1
    <3>3. t[i] = s[i + 1] /\ x = s[1]
      BY <1>1
    <3>4. s[i + 1] = s[1] /\ s[1] # Held
      BY <3>1, <3>3
    <3>5. i + 1 = 1
      BY <2>1, <3>2, <3>4
    <3> QED BY <3>1, <3>5
  <2> QED BY <1>1, <2>2, <2>3 DEF Once
<1>5. ASSUME Rises(s) PROVE Rises(t) /\ Below({x} \ {Held}, Of(t))
  <2>1. \A i, j \in 1..Len(s) : i < j /\ s[i] # Held /\ s[j] # Held => s[i] < s[j]
    BY <1>1, <1>5 DEF Rises
  <2>2. ASSUME NEW i \in 1..(Len(s) - 1), NEW j \in 1..(Len(s) - 1), i < j, t[i] # Held, t[j] # Held
        PROVE  t[i] < t[j]
    <3>1. /\ i + 1 \in 1..Len(s) /\ j + 1 \in 1..Len(s) /\ i + 1 < j + 1
          /\ t[i] = s[i + 1] /\ t[j] = s[j + 1]
      BY <1>1, <2>2, Between
    <3> QED BY <2>1, <2>2, <3>1
  <2>3. ASSUME x # Held, NEW y \in Of(t) PROVE x < y
    <3>1. PICK i \in 1..(Len(s) - 1) : y = t[i] /\ y # Held
      BY <1>1, <2>3 DEF Of
    <3>2. i + 1 \in 1..Len(s) /\ s[i + 1] = y
      BY <1>1, <1>2, <3>1
    <3>3. 1 \in 1..Len(s) /\ 1 < i + 1
      BY <1>1, <3>1, <3>2
    <3> QED BY <1>1, <2>1, <2>3, <3>1, <3>2, <3>3
  <2> QED BY <1>1, <2>2, <2>3 DEF Rises, Below
<1> QED BY <1>1, <1>3, <1>4, <1>5, <1>2 DEF t, x

LEMMA JoinRow ==
  ASSUME NEW s \in Seq(Nat), NEW t \in Seq(Nat)
  PROVE  /\ s \o t \in Seq(Nat)
         /\ Of(s \o t) = Of(s) \cup Of(t)
         /\ Once(s) /\ Once(t) /\ Of(s) \cap Of(t) = {} => Once(s \o t)
         /\ Rises(s) /\ Rises(t) /\ Below(Of(s), Of(t)) => Rises(s \o t)
<1> DEFINE u == s \o t
<1> DEFINE m == Len(s)
<1> DEFINE n == Len(t)
<1>1. /\ u \in Seq(Nat) /\ m \in Nat /\ n \in Nat
      /\ DOMAIN u = 1..(m + n) /\ DOMAIN s = 1..m /\ DOMAIN t = 1..n
      /\ \A i \in 1..m : u[i] = s[i] /\ s[i] \in Nat
      /\ \A i \in 1..n : u[m + i] = t[i] /\ t[i] \in Nat
  OBVIOUS
<1> HIDE DEF u, m, n
<1>2. ASSUME NEW i \in 1..(m + n), i \notin 1..m PROVE i - m \in 1..n /\ u[i] = t[i - m]
  <2>1. i - m \in 1..n /\ m + (i - m) = i
    BY <1>1, <1>2
  <2> QED BY <1>1, <2>1
<1>3. Of(u) = Of(s) \cup Of(t)
  <2>1. ASSUME NEW y \in Of(u) PROVE y \in Of(s) \cup Of(t)
    <3>1. PICK i \in 1..(m + n) : y = u[i] /\ y # Held
      BY <1>1, <2>1 DEF Of
    <3>2. CASE i \in 1..m
      BY <1>1, <3>1, <3>2 DEF Of
    <3>3. CASE i \notin 1..m
      BY <1>1, <1>2, <3>1, <3>3 DEF Of
    <3> QED BY <3>2, <3>3
  <2>2. ASSUME NEW y \in Of(s) PROVE y \in Of(u)
    <3>1. PICK i \in 1..m : y = s[i] /\ y # Held
      BY <1>1, <2>2 DEF Of
    <3>2. i \in 1..(m + n) /\ u[i] = y
      BY <1>1, <3>1
    <3> QED BY <1>1, <3>1, <3>2 DEF Of
  <2>3. ASSUME NEW y \in Of(t) PROVE y \in Of(u)
    <3>1. PICK i \in 1..n : y = t[i] /\ y # Held
      BY <1>1, <2>3 DEF Of
    <3>2. m + i \in 1..(m + n) /\ u[m + i] = y
      BY <1>1, <3>1
    <3> QED BY <1>1, <3>1, <3>2 DEF Of
  <2> QED BY <2>1, <2>2, <2>3
<1>4. \A i \in 1..m : s[i] # Held => s[i] \in Of(s)
  BY <1>1 DEF Of
<1>5. \A i \in 1..n : t[i] # Held => t[i] \in Of(t)
  BY <1>1 DEF Of
<1>6. ASSUME Once(s), Once(t), Of(s) \cap Of(t) = {} PROVE Once(u)
  <2>1. \A i, j \in 1..m : s[i] = s[j] /\ s[i] # Held => i = j
    BY <1>1, <1>6 DEF Once
  <2>2. \A i, j \in 1..n : t[i] = t[j] /\ t[i] # Held => i = j
    BY <1>1, <1>6 DEF Once
  <2>3. SUFFICES ASSUME NEW i \in 1..(m + n), NEW j \in 1..(m + n), u[i] = u[j], u[i] # Held
                 PROVE i = j
    BY <1>1 DEF Once
  <2>4. CASE i \in 1..m /\ j \in 1..m
    BY <1>1, <2>1, <2>3, <2>4
  <2>5. CASE i \in 1..m /\ j \notin 1..m
    BY <1>1, <1>2, <1>4, <1>5, <1>6, <2>3, <2>5
  <2>6. CASE i \notin 1..m /\ j \in 1..m
    BY <1>1, <1>2, <1>4, <1>5, <1>6, <2>3, <2>6
  <2>7. CASE i \notin 1..m /\ j \notin 1..m
    <3>1. i - m \in 1..n /\ j - m \in 1..n /\ t[i - m] = t[j - m] /\ t[i - m] # Held
      BY <1>2, <2>3, <2>7
    <3>2. i - m = j - m
      BY <2>2, <3>1
    <3> QED BY <1>1, <3>2
  <2> QED BY <2>4, <2>5, <2>6, <2>7
<1>7. ASSUME Rises(s), Rises(t), Below(Of(s), Of(t)) PROVE Rises(u)
  <2>1. \A i, j \in 1..m : i < j /\ s[i] # Held /\ s[j] # Held => s[i] < s[j]
    BY <1>1, <1>7 DEF Rises
  <2>2. \A i, j \in 1..n : i < j /\ t[i] # Held /\ t[j] # Held => t[i] < t[j]
    BY <1>1, <1>7 DEF Rises
  <2>3. SUFFICES ASSUME NEW i \in 1..(m + n), NEW j \in 1..(m + n), i < j, u[i] # Held, u[j] # Held
                 PROVE u[i] < u[j]
    BY <1>1 DEF Rises
  <2>4. CASE i \in 1..m /\ j \in 1..m
    BY <1>1, <2>1, <2>3, <2>4
  <2>5. CASE i \in 1..m /\ j \notin 1..m
    BY <1>1, <1>2, <1>4, <1>5, <1>7, <2>3, <2>5 DEF Below
  <2>6. CASE i \notin 1..m
    <3>1. j \notin 1..m
      BY <1>1, <2>3, <2>6
    <3>2. i - m \in 1..n /\ j - m \in 1..n /\ i - m < j - m /\ u[i] = t[i - m] /\ u[j] = t[j - m]
      BY <1>1, <1>2, <2>3, <2>6, <3>1
    <3> QED BY <2>2, <2>3, <3>2
  <2> QED BY <2>4, <2>5, <2>6
<1> QED BY <1>1, <1>3, <1>6, <1>7 DEF u

----------------------------------------------------------------------------
(* What a terminal gets *)

\* Nothing is added to what is on its way.
LEMMA LessReaches ==
  ASSUME NEW v \in Views, NEW i \in Seq(Nat), NEW e, NEW p, NEW g,
         NEW e2 \in SUBSET e, NEW p2 \in SUBSET p, NEW g2 \in SUBSET g
  PROVE  /\ Reach(v, i, e2, p2, g2) \subseteq Reach(v, i, e, p, g)
         /\ Lined(v, i, e, p, g) => Lined(v, i, e2, p2, g2)
         /\ Risen(v, i, e, p) => Risen(v, i, e2, p2)
<1>1. Reach(v, i, e2, p2, g2) \subseteq Reach(v, i, e, p, g)
  BY DEF Reach
<1>2. Lined(v, i, e, p, g) => Lined(v, i, e2, p2, g2)
  BY DEF Lined, Disjoint
<1>3. Risen(v, i, e, p) => Risen(v, i, e2, p2)
  BY DEF Risen, InTurn, Below
<1> QED BY <1>1, <1>2, <1>3

\* A chunk that was emitted is behind the other events.
LEMMA EmitReaches ==
  ASSUME NEW v \in Views, NEW i \in Seq(Nat), NEW x \in Nat \ {Held}, NEW p, NEW g
  PROVE  /\ Reach(v, Append(i, x), {}, p, g) = Reach(v, i, {x}, p, g)
         /\ Lined(v, i, {x}, p, g) => Lined(v, Append(i, x), {}, p, g)
         /\ Risen(v, i, {x}, p) => Risen(v, Append(i, x), {}, p)
<1>1. /\ Of(Append(i, x)) = Of(i) \cup {x}
      /\ Once(i) /\ x \notin Of(i) => Once(Append(i, x))
      /\ Rises(i) /\ Below(Of(i), {x}) => Rises(Append(i, x))
  <2>1. {x} \ {Held} = {x}
    OBVIOUS
  <2> QED BY <2>1, AppendRow
<1>2. Reach(v, Append(i, x), {}, p, g) = Reach(v, i, {x}, p, g)
  BY <1>1 DEF Reach
<1>3. Lined(v, i, {x}, p, g) => Lined(v, Append(i, x), {}, p, g)
  BY <1>1 DEF Lined, Disjoint
<1>4. Risen(v, i, {x}, p) => Risen(v, Append(i, x), {}, p)
  BY <1>1 DEF Risen, InTurn, Below
<1> QED BY <1>2, <1>3, <1>4

\* An ssh-held event comes to them, or goes: no chunk does.
LEMMA HeldReaches ==
  ASSUME NEW v \in Views, NEW i \in Seq(Nat), NEW j \in Seq(Nat), NEW e, NEW p, NEW g,
         j = Append(i, Held) \/ (i # <<>> /\ Head(i) = Held /\ j = Tail(i))
  PROVE  /\ Of(j) = Of(i)
         /\ Reach(v, j, e, p, g) = Reach(v, i, e, p, g)
         /\ Lined(v, i, e, p, g) => Lined(v, j, e, p, g)
         /\ Risen(v, i, e, p) => Risen(v, j, e, p)
<1>1. Held \in Nat /\ {Held} \ {Held} = {} /\ Held \notin Of(i) /\ Below(Of(i), {})
  BY DEF Held, Of, Below
<1>2. Of(j) = Of(i) /\ (Once(i) => Once(j)) /\ (Rises(i) => Rises(j))
  <2>1. CASE j = Append(i, Held)
    <3>1. /\ Of(Append(i, Held)) = Of(i) \cup ({Held} \ {Held})
          /\ Once(i) /\ Held \notin Of(i) => Once(Append(i, Held))
          /\ Rises(i) /\ Below(Of(i), {Held} \ {Held}) => Rises(Append(i, Held))
      BY <1>1, AppendRow
    <3> QED BY <1>1, <2>1, <3>1
  <2>2. CASE i # <<>> /\ Head(i) = Held /\ j = Tail(i)
    <3>1. /\ Of(i) = Of(Tail(i)) \cup ({Head(i)} \ {Held})
          /\ (Once(i) => Once(Tail(i))) /\ (Rises(i) => Rises(Tail(i)))
      BY <2>2, TailRow
    <3> QED BY <1>1, <2>2, <3>1
  <2> QED BY <2>1, <2>2
<1> QED BY <1>2 DEF Reach, Lined, Risen

\* The backlog is answered: what was held is the reply.
LEMMA AskReaches ==
  ASSUME NEW v \in Views, NEW u \in Views, NEW i \in Seq(Nat), NEW s \in Seq(Nat), NEW e, NEW g,
         u.shown = v.shown, u.queued = v.queued, u.reply = s, v.reply = <<>>
  PROVE  /\ Reach(u, i, e, {}, g) = Reach(v, i, e, Of(s), g)
         /\ Lined(v, i, e, Of(s), g) /\ Once(s) => Lined(u, i, e, {}, g)
         /\ Risen(v, i, e, Of(s)) /\ Rises(s) /\ (s # <<>> => Of(v.queued) \cup Of(i) \cup e = {})
              => Risen(u, i, e, {})
<1>1. Of(v.reply) = {}
  BY EmptyRow
<1>2. Reach(u, i, e, {}, g) = Reach(v, i, e, Of(s), g)
  BY <1>1 DEF Reach
<1>3. Lined(v, i, e, Of(s), g) /\ Once(s) => Lined(u, i, e, {}, g)
  BY <1>1 DEF Lined, Disjoint
<1>4. ASSUME Risen(v, i, e, Of(s)), Rises(s), s # <<>> => Of(v.queued) \cup Of(i) \cup e = {}
      PROVE  Risen(u, i, e, {})
  <2>1. s = <<>> => Of(s) = {}
    BY EmptyRow
  <2> QED BY <1>1, <1>4, <2>1 DEF Risen, InTurn, Below
<1> QED BY <1>2, <1>3, <1>4

\* It is written, and what came meanwhile behind it.
LEMMA ReplayReaches ==
  ASSUME NEW v \in Views, NEW u \in Views, NEW i \in Seq(Nat), NEW e, NEW p, NEW g,
         u.shown = v.shown \o v.reply \o v.queued, u.queued = <<>>, u.reply = <<>>
  PROVE  /\ Reach(u, i, e, p, g) = Reach(v, i, e, p, g)
         /\ Lined(v, i, e, p, g) => Lined(u, i, e, p, g)
         /\ Risen(v, i, e, p) => Risen(u, i, e, p)
<1> DEFINE a == v.shown \o v.reply
<1>1. v.shown \in Seq(Nat) /\ v.reply \in Seq(Nat) /\ v.queued \in Seq(Nat)
  BY DEF Views
<1>2. /\ a \in Seq(Nat) /\ Of(a) = Of(v.shown) \cup Of(v.reply)
      /\ Once(v.shown) /\ Once(v.reply) /\ Of(v.shown) \cap Of(v.reply) = {} => Once(a)
      /\ Rises(v.shown) /\ Rises(v.reply) /\ Below(Of(v.shown), Of(v.reply)) => Rises(a)
  BY <1>1, JoinRow
<1> HIDE DEF a
<1>3. /\ Of(u.shown) = Of(a) \cup Of(v.queued)
      /\ Once(a) /\ Once(v.queued) /\ Of(a) \cap Of(v.queued) = {} => Once(u.shown)
      /\ Rises(a) /\ Rises(v.queued) /\ Below(Of(a), Of(v.queued)) => Rises(u.shown)
  <2>1. u.shown = a \o v.queued
    BY DEF a
  <2>2. a \in Seq(Nat) /\ v.queued \in Seq(Nat)
    BY <1>1, <1>2
  <2>3. /\ Of(a \o v.queued) = Of(a) \cup Of(v.queued)
        /\ Once(a) /\ Once(v.queued) /\ Of(a) \cap Of(v.queued) = {} => Once(a \o v.queued)
        /\ Rises(a) /\ Rises(v.queued) /\ Below(Of(a), Of(v.queued)) => Rises(a \o v.queued)
    BY <2>2, JoinRow
  <2> QED BY <2>1, <2>3
<1>4. Of(u.reply) = {} /\ Of(u.queued) = {} /\ Once(u.reply) /\ Once(u.queued)
      /\ Rises(u.reply) /\ Rises(u.queued)
  BY EmptyRow
<1>5. Reach(u, i, e, p, g) = Reach(v, i, e, p, g)
  BY <1>2, <1>3, <1>4 DEF Reach
<1>6. ASSUME Lined(v, i, e, p, g) PROVE Lined(u, i, e, p, g)
  <2>1. Once(u.shown) /\ Once(i)
    BY <1>2, <1>3, <1>6 DEF Lined, Disjoint
  <2>2. Disjoint(Of(u.shown), {}, {}, Of(i), e, p, g)
    BY <1>2, <1>3, <1>6 DEF Lined, Disjoint
  <2> QED BY <1>4, <2>1, <2>2 DEF Lined
<1>7. ASSUME Risen(v, i, e, p) PROVE Risen(u, i, e, p)
  <2>1. Rises(u.shown) /\ Rises(i)
    BY <1>2, <1>3, <1>7 DEF Risen, InTurn, Below
  <2>2. InTurn(Of(u.shown), {}, {}, Of(i), e, p)
    BY <1>2, <1>3, <1>7 DEF Risen, InTurn, Below
  <2> QED BY <1>4, <2>1, <2>2 DEF Risen
<1> QED BY <1>5, <1>6, <1>7

\* An output event is heard: it is written, or put behind the backlog.
LEMMA OutputReaches ==
  ASSUME NEW v \in Views, NEW u \in Views, NEW i \in Seq(Nat), i # <<>>, Head(i) # Held,
         NEW e, NEW p, NEW g, u.reply = v.reply,
         \/ /\ Of(v.reply) = {} /\ Of(v.queued) = {}
            /\ u.shown = Append(v.shown, Head(i)) /\ u.queued = v.queued
         \/ u.shown = v.shown /\ u.queued = Append(v.queued, Head(i))
  PROVE  /\ Reach(u, Tail(i), e, p, g) = Reach(v, i, e, p, g)
         /\ Lined(v, i, e, p, g) => Lined(u, Tail(i), e, p, g)
         /\ Risen(v, i, e, p) => Risen(u, Tail(i), e, p)
<1> DEFINE x == Head(i)
<1> DEFINE j == Tail(i)
<1>1. /\ x \in Nat /\ j \in Seq(Nat) /\ {x} \ {Held} = {x} /\ Of(i) = Of(j) \cup {x}
      /\ Once(i) => Once(j) /\ x \notin Of(j)
      /\ Rises(i) => Rises(j) /\ Below({x}, Of(j))
  <2>1. {x} \ {Held} = {x}
    OBVIOUS
  <2>2. /\ x \in Nat /\ j \in Seq(Nat) /\ Of(i) = Of(j) \cup ({x} \ {Held})
        /\ Once(i) => Once(j) /\ x \notin Of(j)
        /\ Rises(i) => Rises(j) /\ Below({x} \ {Held}, Of(j))
    BY TailRow
  <2> HIDE DEF x, j
  <2> QED BY <2>1, <2>2
<1>2. v.shown \in Seq(Nat) /\ v.reply \in Seq(Nat) /\ v.queued \in Seq(Nat)
  BY DEF Views
<1>3. CASE Of(v.reply) = {} /\ Of(v.queued) = {} /\ u.shown = Append(v.shown, x) /\ u.queued = v.queued
  <2>1. /\ Of(u.shown) = Of(v.shown) \cup {x}
        /\ Once(v.shown) /\ x \notin Of(v.shown) => Once(u.shown)
        /\ Rises(v.shown) /\ Below(Of(v.shown), {x}) => Rises(u.shown)
    <3> HIDE DEF x, j
    <3>1. v.shown \in Seq(Nat) /\ x \in Nat /\ {x} \ {Held} = {x}
      BY <1>1, <1>2
    <3>2. /\ Of(Append(v.shown, x)) = Of(v.shown) \cup ({x} \ {Held})
          /\ Once(v.shown) /\ x \notin Of(v.shown) => Once(Append(v.shown, x))
          /\ Rises(v.shown) /\ Below(Of(v.shown), {x} \ {Held}) => Rises(Append(v.shown, x))
      BY <3>1, AppendRow
    <3> QED BY <1>3, <3>1, <3>2
  <2> HIDE DEF x, j
  <2>2. Reach(u, j, e, p, g) = Reach(v, i, e, p, g)
    BY <1>1, <1>3, <2>1 DEF Reach
  <2>3. Lined(v, i, e, p, g) => Lined(u, j, e, p, g)
    BY <1>1, <1>3, <2>1 DEF Lined, Disjoint
  <2>4. Risen(v, i, e, p) => Risen(u, j, e, p)
    BY <1>1, <1>3, <2>1 DEF Risen, InTurn, Below
  <2> QED BY <2>2, <2>3, <2>4 DEF j
<1>4. CASE u.shown = v.shown /\ u.queued = Append(v.queued, x)
  <2>1. /\ Of(u.queued) = Of(v.queued) \cup {x}
        /\ Once(v.queued) /\ x \notin Of(v.queued) => Once(u.queued)
        /\ Rises(v.queued) /\ Below(Of(v.queued), {x}) => Rises(u.queued)
    <3> HIDE DEF x, j
    <3>1. v.queued \in Seq(Nat) /\ x \in Nat /\ {x} \ {Held} = {x}
      BY <1>1, <1>2
    <3>2. /\ Of(Append(v.queued, x)) = Of(v.queued) \cup ({x} \ {Held})
          /\ Once(v.queued) /\ x \notin Of(v.queued) => Once(Append(v.queued, x))
          /\ Rises(v.queued) /\ Below(Of(v.queued), {x} \ {Held}) => Rises(Append(v.queued, x))
      BY <3>1, AppendRow
    <3> QED BY <1>4, <3>1, <3>2
  <2> HIDE DEF x, j
  <2>2. Reach(u, j, e, p, g) = Reach(v, i, e, p, g)
    BY <1>1, <1>4, <2>1 DEF Reach
  <2>3. Lined(v, i, e, p, g) => Lined(u, j, e, p, g)
    BY <1>1, <1>4, <2>1 DEF Lined, Disjoint
  <2>4. Risen(v, i, e, p) => Risen(u, j, e, p)
    BY <1>1, <1>4, <2>1 DEF Risen, InTurn, Below
  <2> QED BY <2>2, <2>3, <2>4 DEF j
<1> QED BY <1>3, <1>4

\* What was given back is written.
LEMMA BackReaches ==
  ASSUME NEW v \in Views, NEW u \in Views, NEW i \in Seq(Nat), NEW s \in Seq(Nat), NEW e, NEW p,
         u.shown = v.shown \o s, u.queued = v.queued, u.reply = v.reply
  PROVE  /\ Reach(u, i, e, p, {}) = Reach(v, i, e, p, Of(s))
         /\ Lined(v, i, e, p, Of(s)) /\ Once(s) => Lined(u, i, e, p, {})
<1>1. v.shown \in Seq(Nat)
  BY DEF Views
<1>2. /\ Of(u.shown) = Of(v.shown) \cup Of(s)
      /\ Once(v.shown) /\ Once(s) /\ Of(v.shown) \cap Of(s) = {} => Once(u.shown)
  BY <1>1, JoinRow
<1>3. Reach(u, i, e, p, {}) = Reach(v, i, e, p, Of(s))
  BY <1>2 DEF Reach
<1>4. ASSUME Lined(v, i, e, p, Of(s)), Once(s) PROVE Lined(u, i, e, p, {})
  BY <1>2, <1>4 DEF Lined, Disjoint
<1> QED BY <1>3, <1>4

\* A terminal starts with a screen and nothing on its way.
LEMMA ScreenReaches ==
  ASSUME NEW u \in Views, NEW s \in Seq(Nat), NEW e, NEW p,
         u.shown = s, u.queued = <<>>, u.reply = <<>>
  PROVE  /\ Reach(u, <<>>, e, p, {}) = Of(s) \cup e \cup p
         /\ Once(s) /\ Of(s) \cap (e \cup p) = {} /\ e \cap p = {} => Lined(u, <<>>, e, p, {})
         /\ Rises(s) /\ Below(Of(s), e \cup p) /\ Below(e, p) => Risen(u, <<>>, e, p)
<1>1. /\ Of(u.reply) = {} /\ Of(u.queued) = {} /\ Of(<<>>) = {} /\ Of(u.shown) = Of(s)
      /\ Once(u.reply) /\ Once(u.queued) /\ Once(<<>>)
      /\ Rises(u.reply) /\ Rises(u.queued) /\ Rises(<<>>)
  BY EmptyRow
<1>2. Reach(u, <<>>, e, p, {}) = Of(s) \cup e \cup p
  BY <1>1 DEF Reach
<1>3. Once(s) /\ Of(s) \cap (e \cup p) = {} /\ e \cap p = {} => Lined(u, <<>>, e, p, {})
  BY <1>1 DEF Lined, Disjoint
<1>4. Rises(s) /\ Below(Of(s), e \cup p) /\ Below(e, p) => Risen(u, <<>>, e, p)
  BY <1>1 DEF Risen, InTurn, Below
<1> QED BY <1>2, <1>3, <1>4

\* A new chunk is behind all others.
LEMMA PrintReaches ==
  ASSUME NEW v \in Views, NEW i \in Seq(Nat), NEW n \in Nat, NEW e, NEW p, NEW g,
         Reach(v, i, e, p, g) \subseteq 1..n
  PROVE  /\ Reach(v, i, {n + 1}, p, g) \subseteq 1..(n + 1)
         /\ Reach(v, i, e, p \cup {n + 1}, g) \subseteq 1..(n + 1)
         /\ Reach(v, i, e, p \cup {n + 1}, g) = Reach(v, i, e, p, g) \cup {n + 1}
         /\ e = {} => Reach(v, i, {n + 1}, p, g) = Reach(v, i, e, p, g) \cup {n + 1}
         /\ Lined(v, i, e, p, g) /\ e = {} => Lined(v, i, {n + 1}, p, g)
         /\ Lined(v, i, e, p, g) => Lined(v, i, e, p \cup {n + 1}, g)
         /\ Risen(v, i, e, p) /\ p = {} => Risen(v, i, {n + 1}, p)
         /\ Risen(v, i, e, p) => Risen(v, i, e, p \cup {n + 1})
<1>1. /\ Of(v.shown) \subseteq 1..n /\ Of(v.reply) \subseteq 1..n /\ Of(v.queued) \subseteq 1..n
      /\ Of(i) \subseteq 1..n /\ e \subseteq 1..n /\ p \subseteq 1..n /\ g \subseteq 1..n
  BY DEF Reach
<1>2. 1..n \subseteq 1..(n + 1) /\ n + 1 \in 1..(n + 1) /\ n + 1 \notin 1..n
      /\ \A x \in 1..n : x < n + 1
  OBVIOUS
<1>3. /\ Reach(v, i, {n + 1}, p, g) \subseteq 1..(n + 1)
      /\ Reach(v, i, e, p \cup {n + 1}, g) \subseteq 1..(n + 1)
      /\ Reach(v, i, e, p \cup {n + 1}, g) = Reach(v, i, e, p, g) \cup {n + 1}
      /\ e = {} => Reach(v, i, {n + 1}, p, g) = Reach(v, i, e, p, g) \cup {n + 1}
  BY <1>1, <1>2 DEF Reach
<1> DEFINE x == n + 1
<1>4. /\ x \notin Of(v.shown) /\ x \notin Of(v.reply) /\ x \notin Of(v.queued)
      /\ x \notin Of(i) /\ x \notin e /\ x \notin p /\ x \notin g
  BY <1>1, <1>2
<1>5. /\ Below(Of(v.shown), {x}) /\ Below(Of(v.reply), {x}) /\ Below(Of(v.queued), {x})
      /\ Below(Of(i), {x}) /\ Below(e, {x})
  BY <1>1, <1>2 DEF Below
<1> HIDE DEF x
<1>6. Lined(v, i, e, p, g) /\ e = {} => Lined(v, i, {x}, p, g)
  BY <1>4 DEF Lined, Disjoint
<1>7. Lined(v, i, e, p, g) => Lined(v, i, e, p \cup {x}, g)
  BY <1>4 DEF Lined, Disjoint
<1>8. Risen(v, i, e, p) /\ p = {} => Risen(v, i, {x}, p)
  BY <1>5 DEF Risen, InTurn, Below
<1>9. Risen(v, i, e, p) => Risen(v, i, e, p \cup {x})
  BY <1>5 DEF Risen, InTurn, Below
<1> QED BY <1>3, <1>6, <1>7, <1>8, <1>9 DEF x

\* What was held is given back instead.
LEMMA GiveReaches ==
  ASSUME NEW v \in Views, NEW i \in Seq(Nat), NEW e, NEW p
  PROVE  /\ Reach(v, i, e, {}, p) = Reach(v, i, e, p, {})
         /\ Lined(v, i, e, p, {}) => Lined(v, i, e, {}, p)
BY DEF Reach, Lined, Disjoint

----------------------------------------------------------------------------
(* Types *)

Ats == {"none", "mounted", "listening", "asked", "bound"}
Shapes == [at : Ats, shown : Seq(Chunks), queued : Seq(Chunks), reply : Seq(Chunks)]
Moves == {"still", "holding", "waiting", "heard", "packed", "opened", "refused", "asking"}
Events == Seq(Chunks \cup {Held})

LEMMA RowsAre ==
  /\ Chunks \subseteq Nat /\ Held \in Nat /\ Held \notin Chunks
  /\ Seq(Chunks) \subseteq Seq(Nat) /\ Events \subseteq Seq(Nat) /\ Shapes \subseteq Views
  /\ <<>> \in Seq(Chunks) /\ <<>> \in Events /\ Nothing \notin Seq(Chunks)
<1>1. Chunks \subseteq Nat /\ Held \in Nat /\ Held \notin Chunks
  BY DEF Chunks, Held
<1>2. ASSUME NEW s \in Seq(Chunks) PROVE s \in Seq(Nat)
  BY <1>1, SeqMonotonic
<1>3. ASSUME NEW s \in Seq(Chunks \cup {Held}) PROVE s \in Seq(Nat)
  <2>1. Chunks \cup {Held} \subseteq Nat
    BY <1>1
  <2> QED BY <2>1, SeqMonotonic
<1>4. Shapes \subseteq Views
  BY <1>2 DEF Shapes, Views, Ats
<1>5. <<>> \in Seq(Chunks) /\ <<>> \in Seq(Chunks \cup {Held})
  OBVIOUS
<1> QED BY <1>1, <1>2, <1>3, <1>4, <1>5 DEF Events

\* A row of chunks that grows is one.
LEMMA RowTypes ==
  /\ \A s, t \in Seq(Chunks) : s \o t \in Seq(Chunks)
  /\ \A s \in Seq(Chunks), x \in Chunks : Append(s, x) \in Seq(Chunks)
  /\ \A s \in Events, x \in Chunks \cup {Held} : Append(s, x) \in Events
  /\ \A s \in Events : s # <<>> => Tail(s) \in Events /\ Head(s) \in Chunks \cup {Held}
BY DEF Events

LEMMA ScreenType ==
  ASSUME NEW s \in Seq(Chunks)
  PROVE  NoView \in Shapes /\ Fresh(s) \in Shapes /\ Bound(s) \in Shapes
BY RowsAre DEF NoView, Fresh, Bound, Shapes, Ats

LEMMA ViewType ==
  ASSUME NEW f \in [Windows -> Shapes], NEW w \in Windows, NEW r \in Shapes
  PROVE  [f EXCEPT ![w] = r] \in [Windows -> Shapes]
OBVIOUS

TypeOfRest ==
    /\ out \in 0..MaxOut /\ emitting \in 0..MaxOut /\ attached \in BOOLEAN
    /\ pending \in Seq(Chunks) /\ given \in Seq(Chunks)
    /\ inbox \in [Windows -> Events]
    /\ move \in [Windows -> Moves]
    /\ open \in BOOLEAN /\ gone \in BOOLEAN /\ detached \in BOOLEAN
    /\ payload \in Seq(Chunks) \cup {Nothing}
    /\ moves \in 0..MaxMoves /\ mishaps \subseteq Mishaps

LEMMA TypeIs == HandoverTypeOK <=> TypeOfRest /\ view \in [Windows -> Shapes]
BY DEF HandoverTypeOK, TypeOfRest, Shapes, Ats, Moves, Events

\* A window is one of two.
LEMMA TheWindows == "main" \in Windows /\ "tab" \in Windows /\ \A w \in Windows : w = "main" \/ w = "tab"
BY DEF Windows

LEMMA HandoverStarts == HandoverInit => HandoverTypeOK
<1> SUFFICES ASSUME HandoverInit PROVE HandoverTypeOK
  OBVIOUS
<1>1. view \in [Windows -> Shapes]
  BY ScreenType, RowsAre DEF HandoverInit, Windows
<1>2. 0 \in 0..MaxOut /\ 0 \in 0..MaxMoves /\ {} \subseteq Mishaps /\ "still" \in Moves
  BY DEF Moves
<1>3. TypeOfRest
  BY <1>2, RowsAre DEF HandoverInit, TypeOfRest
<1> QED BY <1>1, <1>3, TypeIs

LEMMA ShapesStay ==
  ASSUME HandoverTypeOK, [HandoverNext]_hvars
  PROVE  view' \in [Windows -> Shapes]
<1>1. TypeOfRest /\ view \in [Windows -> Shapes]
  BY TypeIs
<1>2. CASE UNCHANGED view
  BY <1>1, <1>2
<1>3. ASSUME NEW w \in Windows, Listen(w) \/ Attach(w) \/ Replay(w) \/ Output(w)
      PROVE  view' \in [Windows -> Shapes]
  <2>1. /\ view[w] \in Shapes /\ pending \in Seq(Chunks) /\ inbox[w] \in Events
        /\ view[w].shown \in Seq(Chunks) /\ view[w].queued \in Seq(Chunks)
        /\ view[w].reply \in Seq(Chunks)
    BY <1>1 DEF TypeOfRest, Shapes
  <2>2. CASE Listen(w)
    <3>1. [view[w] EXCEPT !.at = "listening"] \in Shapes
      BY <2>1 DEF Shapes, Ats
    <3> QED BY <1>1, <2>2, <3>1 DEF Listen
  <2>3. CASE Attach(w)
    <3>1. [view[w] EXCEPT !.at = "asked", !.reply = pending] \in Shapes
      BY <2>1 DEF Shapes, Ats
    <3> QED BY <1>1, <2>3, <3>1 DEF Attach
  <2>4. CASE Replay(w)
    <3>1. view[w].shown \o view[w].reply \o view[w].queued \in Seq(Chunks)
      BY <2>1, RowTypes
    <3>2. Bound(view[w].shown \o view[w].reply \o view[w].queued) \in Shapes
      BY <3>1, ScreenType
    <3> QED BY <1>1, <2>4, <3>2, ViewType DEF Replay
  <2>5. CASE Output(w)
    <3>1. Head(inbox[w]) \in Chunks
      BY <2>1, <2>5, RowTypes DEF Output
    <3>2. /\ Append(view[w].shown, Head(inbox[w])) \in Seq(Chunks)
          /\ Append(view[w].queued, Head(inbox[w])) \in Seq(Chunks)
      BY <2>1, <3>1, RowTypes
    <3>3. /\ [view[w] EXCEPT !.shown = Append(@, Head(inbox[w]))] \in Shapes
          /\ [view[w] EXCEPT !.queued = Append(@, Head(inbox[w]))] \in Shapes
      BY <2>1, <3>2 DEF Shapes
    <3> QED BY <1>1, <2>5, <3>3 DEF Output
  <2> QED BY <1>3, <2>2, <2>3, <2>4, <2>5
<1>4. CASE WriteBack
  <2>1. "main" \in Windows /\ view["main"] \in Shapes /\ given \in Seq(Chunks)
    BY <1>1 DEF TypeOfRest, Windows
  <2>2. view["main"].shown \o given \in Seq(Chunks)
    BY <2>1, RowTypes DEF Shapes
  <2>3. [view["main"] EXCEPT !.shown = @ \o given] \in Shapes
    BY <2>1, <2>2 DEF Shapes
  <2> QED BY <1>1, <1>4, <2>1, <2>3 DEF WriteBack
<1>5. CASE SetDetached \/ Close \/ Crash
  <2>1. NoView \in Shapes
    BY RowsAre, ScreenType
  <2> QED BY <1>1, <1>5, <2>1, TheWindows, ViewType DEF SetDetached, Close, Crash, Dispose
<1>6. CASE Mount
  <2>1. payload \in Seq(Chunks)
    BY <1>1, <1>6 DEF Mount, TypeOfRest
  <2>2. Fresh(payload) \in Shapes
    BY <2>1, ScreenType
  <2> QED BY <1>1, <1>6, <2>2, TheWindows, ViewType DEF Mount
<1>7. CASE TakeBack
  <2> DEFINE screen == IF payload = Nothing THEN <<>> ELSE payload
  <2>1. screen \in Seq(Chunks)
    BY <1>1, RowsAre DEF TypeOfRest
  <2>2. Fresh(screen) \in Shapes
    BY <2>1, ScreenType
  <2>3. view' = [view EXCEPT !["main"] = Fresh(screen)] \/ view' = view
    BY <1>7 DEF TakeBack
  <2> HIDE DEF screen
  <2> QED BY <1>1, <2>2, <2>3, TheWindows, ViewType
<1>8. CASE \/ Flush \/ Emit \/ WindowOpens \/ WindowRefused \/ AskBack
           \/ \E w \in Windows : BeginMove(w) \/ Hold(w) \/ Heard(w) \/ WaitOver(w) \/ Pack(w)
           \/ UNCHANGED hvars
  BY <1>2, <1>8 DEF Flush, Emit, WindowOpens, WindowRefused, AskBack, BeginMove, Hold, Heard,
     WaitOver, Pack, hvars
<1> QED BY <1>3, <1>4, <1>5, <1>6, <1>7, <1>8 DEF HandoverNext

LEMMA RestStays ==
  ASSUME HandoverTypeOK, [HandoverNext]_hvars
  PROVE  TypeOfRest'
<1>1. TypeOfRest /\ view \in [Windows -> Shapes]
  BY TypeIs
<1>2. CASE Flush
  <2>1. out + 1 \in Chunks /\ out + 1 \in 0..MaxOut /\ 0 \in 0..MaxOut
    BY <1>1, <1>2 DEF Flush, TypeOfRest, Chunks
  <2>2. Append(pending, out + 1) \in Seq(Chunks)
    BY <1>1, <2>1, RowTypes DEF TypeOfRest
  <2> QED BY <1>1, <1>2, <2>1, <2>2 DEF Flush, TypeOfRest, windows
<1>3. CASE Emit
  <2>1. emitting \in Chunks /\ 0 \in 0..MaxOut
    BY <1>1, <1>3 DEF Emit, TypeOfRest, Chunks
  <2>2. \A w \in Windows : Append(inbox[w], emitting) \in Events
    BY <1>1, <2>1, RowTypes DEF TypeOfRest
  <2>3. inbox' \in [Windows -> Events]
    BY <1>1, <1>3, <2>2 DEF Emit, TypeOfRest
  <2> QED BY <1>1, <1>3, <2>1, <2>3 DEF Emit, TypeOfRest, windows
<1>4. ASSUME NEW w \in Windows, Listen(w) \/ Attach(w) \/ Replay(w)
      PROVE  TypeOfRest'
  BY <1>1, <1>4, RowsAre DEF Listen, Attach, Replay, TypeOfRest, windows, output
<1>5. ASSUME NEW w \in Windows, Output(w) \/ Heard(w) \/ Hold(w)
      PROVE  TypeOfRest'
  <2>1. inbox[w] \in Events /\ Append(inbox[w], Held) \in Events
        /\ (inbox[w] # <<>> => Tail(inbox[w]) \in Events)
    BY <1>1, RowTypes DEF TypeOfRest
  <2>2. inbox' \in [Windows -> Events]
    BY <1>1, <1>5, <2>1 DEF Output, Heard, Hold, TypeOfRest
  <2>3. move' \in [Windows -> Moves]
    BY <1>1, <1>5 DEF Output, Heard, Hold, TypeOfRest, Moves
  <2>4. mishaps' \subseteq Mishaps
    BY <1>1, <1>5 DEF Output, Heard, Hold, TypeOfRest, Unless, Mishap
  <2> QED BY <1>1, <1>5, <2>2, <2>3, <2>4 DEF Output, Heard, Hold, TypeOfRest, windows, output
<1>6. ASSUME NEW w \in Windows, BeginMove(w) \/ WaitOver(w) \/ Pack(w)
      PROVE  TypeOfRest'
  <2>1. move' \in [Windows -> Moves]
    BY <1>1, <1>6 DEF BeginMove, WaitOver, Pack, TypeOfRest, Moves
  <2>2. mishaps' \subseteq Mishaps /\ moves' \in 0..MaxMoves
    BY <1>1, <1>6 DEF BeginMove, WaitOver, Pack, TypeOfRest, Unless, Mishap, windows
  <2>3. payload' \in Seq(Chunks) \cup {Nothing}
    BY <1>1, <1>6 DEF BeginMove, WaitOver, Pack, TypeOfRest, windows, Shapes
  <2> QED BY <1>1, <1>6, <2>1, <2>2, <2>3 DEF BeginMove, WaitOver, Pack, TypeOfRest, windows, output
<1>7. CASE WindowOpens \/ WindowRefused \/ AskBack \/ WriteBack
  <2>1. move' \in [Windows -> Moves] /\ mishaps' \subseteq Mishaps
    BY <1>1, <1>7, TheWindows
       DEF WindowOpens, WindowRefused, AskBack, WriteBack, TypeOfRest, Moves, Mishap
  <2> QED BY <1>1, <1>7, <2>1, RowsAre
          DEF WindowOpens, WindowRefused, AskBack, WriteBack, TypeOfRest, windows, output
<1>8. CASE SetDetached \/ Close \/ Crash
  <2>1. /\ move' \in [Windows -> Moves] /\ mishaps' \subseteq Mishaps
    BY <1>1, <1>8, TheWindows
       DEF SetDetached, Close, Crash, Dispose, TypeOfRest, Moves, Mishap
  <2>2. \A w \in Windows : [inbox EXCEPT ![w] = <<>>] \in [Windows -> Events]
    BY <1>1, RowsAre DEF TypeOfRest
  <2>3. inbox' \in [Windows -> Events]
    BY <1>8, <2>2, TheWindows DEF SetDetached, Close, Crash, Dispose
  <2> QED BY <1>1, <1>8, <2>1, <2>3 DEF SetDetached, Close, Crash, TypeOfRest, windows, output
<1>9. CASE Mount \/ TakeBack \/ UNCHANGED hvars
  BY <1>1, <1>9 DEF Mount, TakeBack, TypeOfRest, windows, output, hvars
<1> QED BY <1>2, <1>3, <1>4, <1>5, <1>6, <1>7, <1>8, <1>9 DEF HandoverNext

\* Types stay.
LEMMA HandoverTypes ==
  ASSUME HandoverTypeOK, [HandoverNext]_hvars
  PROVE  HandoverTypeOK'
<1>1. TypeOfRest' /\ view' \in [Windows -> Shapes]
  BY ShapesStay, RestStays
<1> QED BY <1>1 DEF HandoverTypeOK, TypeOfRest, Shapes, Ats, Moves, Events

----------------------------------------------------------------------------
(* The shape of a move stays *)

\* A terminal on its way keeps the part of Framed that is about it.
AtRest(v, i, m) ==
    /\ v.at = "none" => v = NoView /\ i = <<>>
    /\ m \in {"holding", "waiting"} => v.at # "none"
    /\ v.at # "asked" => v.reply = <<>>
    /\ v.at = "bound" => Of(v.queued) = {}

Staged ==
    /\ ~open => view["tab"].at = "none" /\ move["tab"] = "still"
    /\ open => ~OnMain
    /\ gone => ~open /\ ~OnMain
    /\ detached => view["main"].at = "none" /\ move["main"] = "still"
    /\ move["main"] # "still" => view["main"].at # "none"
    /\ given # <<>> => move["main"] = "asking"
    /\ move["tab"] \notin {"opened", "refused", "asking"}

LEMMA FramedIs == Framed <=> (\A w \in Windows : AtRest(view[w], inbox[w], move[w])) /\ Staged
BY DEF Framed, AtRest, Staged

LEMMA NewViewRests ==
  ASSUME NEW s \in Seq(Chunks), NEW m
  PROVE  /\ m = "still" => AtRest(NoView, <<>>, m)
         /\ \A i : AtRest(Fresh(s), i, m) /\ AtRest(Bound(s), i, m)
BY EmptyRow DEF AtRest, NoView, Fresh, Bound

LEMMA FrameStarts == HandoverInit => Framed
<1> SUFFICES ASSUME HandoverInit PROVE Framed
  OBVIOUS
<1>1. /\ view["main"] = Fresh(<<>>) /\ view["tab"] = NoView
      /\ \A w \in Windows : inbox[w] = <<>> /\ move[w] = "still"
  BY DEF HandoverInit
<1>2. \A w \in Windows : AtRest(view[w], inbox[w], move[w])
  BY <1>1, NewViewRests, RowsAre, TheWindows
<1>3. Staged
  BY <1>1, TheWindows DEF Staged, OnMain, HandoverInit, NoView
<1> QED BY <1>2, <1>3, FramedIs

\* A step of one terminal, which leaves the moves alone.
LEMMA TerminalRests ==
  ASSUME HandoverTypeOK, Framed, NEW w \in Windows, Listen(w) \/ Attach(w) \/ Replay(w) \/ Output(w)
  PROVE  Framed'
<1>1. view \in [Windows -> Shapes] /\ TypeOfRest
  BY TypeIs
<1>2. AtRest(view[w], inbox[w], move[w]) /\ Staged
  BY FramedIs
<1>3. UNCHANGED <<move, given, open, gone, detached>>
  BY DEF Listen, Attach, Replay, Output, windows
<1>4. \A x \in Windows \ {w} : view'[x] = view[x] /\ inbox'[x] = inbox[x]
  BY <1>1 DEF Listen, Attach, Replay, Output, TypeOfRest
<1>5. view[w].at # "none" /\ view'[w].at # "none"
  <2>1. view[w] \in Shapes /\ inbox[w] \in Events
    BY <1>1 DEF TypeOfRest
  <2>2. CASE Listen(w)
    <3>1. view'[w] = [view[w] EXCEPT !.at = "listening"] /\ view[w].at = "mounted"
      BY <1>1, <2>2 DEF Listen
    <3> QED BY <2>1, <3>1 DEF Shapes
  <2>3. CASE Attach(w)
    <3>1. view'[w] = [view[w] EXCEPT !.at = "asked", !.reply = pending] /\ view[w].at = "listening"
      BY <1>1, <2>3 DEF Attach
    <3> QED BY <2>1, <3>1 DEF Shapes
  <2>4. CASE Replay(w)
    <3>1. view'[w] = Bound(view[w].shown \o view[w].reply \o view[w].queued) /\ view[w].at = "asked"
      BY <1>1, <2>4 DEF Replay
    <3> QED BY <3>1 DEF Bound, NoView
  <2>5. CASE Output(w)
    <3>1. inbox[w] # <<>> /\ view[w].at # "none"
      BY <1>2, <2>5 DEF Output, AtRest
    <3>2. \/ view'[w] = [view[w] EXCEPT !.shown = Append(@, Head(inbox[w]))]
          \/ view'[w] = [view[w] EXCEPT !.queued = Append(@, Head(inbox[w]))]
      BY <1>1, <2>5 DEF Output
    <3> QED BY <2>1, <3>1, <3>2 DEF Shapes
  <2> QED BY <2>2, <2>3, <2>4, <2>5
<1>6. AtRest(view'[w], inbox'[w], move'[w])
  <2>1. view[w] \in Shapes /\ inbox[w] \in Events
    BY <1>1 DEF TypeOfRest
  <2>2. CASE Listen(w)
    <3>1. view'[w] = [view[w] EXCEPT !.at = "listening"] /\ view[w].at = "mounted"
      BY <1>1, <2>2 DEF Listen
    <3> QED BY <1>2, <1>3, <1>4, <1>5, <2>1, <3>1 DEF AtRest, Shapes
  <2>3. CASE Attach(w)
    <3>1. view'[w] = [view[w] EXCEPT !.at = "asked", !.reply = pending]
      BY <1>1, <2>3 DEF Attach
    <3> QED BY <1>2, <1>3, <1>4, <1>5, <2>1, <3>1 DEF AtRest, Shapes
  <2>4. CASE Replay(w)
    <3>1. view'[w] = Bound(view[w].shown \o view[w].reply \o view[w].queued)
      BY <1>1, <2>4 DEF Replay
    <3>2. view[w].shown \o view[w].reply \o view[w].queued \in Seq(Chunks)
      BY <2>1, RowTypes DEF Shapes
    <3> QED BY <3>1, <3>2, NewViewRests
  <2>5. CASE Output(w)
    <3>1. \/ view[w].at = "bound" /\ view'[w] = [view[w] EXCEPT !.shown = Append(@, Head(inbox[w]))]
          \/ view[w].at # "bound" /\ view'[w] = [view[w] EXCEPT !.queued = Append(@, Head(inbox[w]))]
      BY <1>1, <2>5 DEF Output
    <3>2. view'[w].at = view[w].at /\ view'[w].reply = view[w].reply
          /\ (view[w].at = "bound" => view'[w].queued = view[w].queued)
      BY <2>1, <3>1 DEF Shapes
    <3> QED BY <1>2, <1>3, <1>4, <1>5, <3>2 DEF AtRest
  <2> QED BY <2>2, <2>3, <2>4, <2>5
<1>7. \A x \in Windows : AtRest(view'[x], inbox'[x], move'[x])
  BY <1>3, <1>4, <1>5, <1>6, FramedIs
<1>8. Staged'
  <2>1. (view'["tab"].at = "none") = (view["tab"].at = "none")
        /\ (view'["main"].at = "none") = (view["main"].at = "none")
    BY <1>3, <1>4, <1>5, TheWindows
  <2> QED BY <1>2, <1>3, <1>4, <1>5, <2>1 DEF Staged, OnMain
<1> QED BY <1>7, <1>8 DEF Framed, AtRest, Staged

LEMMA MovingRests ==
  ASSUME HandoverTypeOK, Framed, NEW w \in Windows,
         BeginMove(w) \/ Hold(w) \/ Heard(w) \/ WaitOver(w) \/ Pack(w)
  PROVE  Framed'
<1>1. view \in [Windows -> Shapes] /\ TypeOfRest
  BY TypeIs
<1>2. AtRest(view[w], inbox[w], move[w]) /\ Staged
  BY FramedIs
<1>3. /\ UNCHANGED <<view, given, open, gone, detached>>
      /\ \A x \in Windows \ {w} : move'[x] = move[x] /\ inbox'[x] = inbox[x]
      /\ w = "main" /\ move'[w] # "still" => view[w].at # "none" /\ ~detached
      /\ w = "tab" /\ move'[w] # "still" => open
      /\ w = "main" => (move'[w] = "opened" <=> move[w] = "opened")
      /\ move'[w] \in {"still", "holding", "waiting", "heard", "packed"} \cup {move[w]}
      /\ w = "main" /\ given # <<>> => move'[w] = "asking"
  <2>1. BeginMove(w) => move' = [move EXCEPT ![w] = IF view[w].at = "none" THEN "heard" ELSE "holding"]
    BY DEF BeginMove
  <2>2. Hold(w) => move[w] = "holding" /\ move' = [move EXCEPT ![w] = "waiting"]
    BY DEF Hold
  <2>3. Heard(w) => move' = [move EXCEPT ![w] = IF @ = "waiting" THEN "heard" ELSE @]
    BY DEF Heard
  <2>4. WaitOver(w) => move[w] = "waiting" /\ move' = [move EXCEPT ![w] = "heard"]
    BY DEF WaitOver
  <2>5. Pack(w) => move[w] = "heard" /\ move' = [move EXCEPT ![w] = "packed"]
    BY DEF Pack
  <2>6. BeginMove(w) => /\ move[w] = "still" /\ (w = "main" => ~detached /\ view[w].at # "none")
                        /\ (w = "tab" => open)
    BY DEF BeginMove
  <2>7. move \in [Windows -> Moves]
    BY <1>1 DEF TypeOfRest
  <2>8. /\ UNCHANGED <<view, given, open, gone, detached>>
        /\ \A x \in Windows \ {w} : move'[x] = move[x] /\ inbox'[x] = inbox[x]
    BY <1>1 DEF BeginMove, Hold, Heard, WaitOver, Pack, windows, TypeOfRest
  <2>9. /\ BeginMove(w) => move'[w] \in {"heard", "holding"}
        /\ Hold(w) => move'[w] = "waiting"
        /\ Heard(w) => move'[w] = move[w] \/ (move[w] = "waiting" /\ move'[w] = "heard")
        /\ WaitOver(w) => move'[w] = "heard"
        /\ Pack(w) => move'[w] = "packed"
    BY <2>1, <2>2, <2>3, <2>4, <2>5, <2>7
  <2> QED BY <1>2, <2>2, <2>4, <2>5, <2>6, <2>8, <2>9 DEF Staged, OnMain
<1>4. AtRest(view'[w], inbox'[w], move'[w])
  <2>1. CASE BeginMove(w)
    <3>1. inbox'[w] = inbox[w] /\ view'[w] = view[w]
          /\ move'[w] = (IF view[w].at = "none" THEN "heard" ELSE "holding")
      BY <1>1, <2>1 DEF BeginMove, TypeOfRest
    <3> QED BY <1>2, <3>1 DEF AtRest
  <2>2. CASE Hold(w)
    <3>1. move[w] = "holding" /\ move'[w] = "waiting" /\ view'[w] = view[w]
      BY <1>1, <2>2 DEF Hold, TypeOfRest
    <3> QED BY <1>2, <3>1 DEF AtRest
  <2>3. CASE Heard(w)
    <3>1. inbox[w] # <<>> /\ view'[w] = view[w]
          /\ (move'[w] = move[w] \/ move'[w] = "heard")
      BY <1>1, <2>3 DEF Heard, TypeOfRest
    <3> QED BY <1>2, <3>1 DEF AtRest
  <2>4. CASE WaitOver(w) \/ Pack(w)
    <3>1. inbox'[w] = inbox[w] /\ view'[w] = view[w] /\ move'[w] \in {"heard", "packed"}
      BY <1>1, <2>4 DEF WaitOver, Pack, TypeOfRest
    <3> QED BY <1>2, <3>1 DEF AtRest
  <2> QED BY <2>1, <2>2, <2>3, <2>4
<1>5. \A x \in Windows : AtRest(view'[x], inbox'[x], move'[x])
  BY <1>3, <1>4, FramedIs
<1>6. Staged'
  <2>1. CASE w = "main"
    <3>1. move'["tab"] = move["tab"] /\ OnMain' = OnMain
      BY <1>3, <2>1, TheWindows DEF OnMain
    <3> QED BY <1>2, <1>3, <2>1, <3>1 DEF Staged
  <2>2. CASE w = "tab"
    <3>1. move'["main"] = move["main"] /\ OnMain' = OnMain
      BY <1>3, <2>2, TheWindows DEF OnMain
    <3>2. move'["tab"] \notin {"opened", "refused", "asking"}
      BY <1>2, <1>3, <2>2 DEF Staged
    <3> QED BY <1>2, <1>3, <2>2, <3>1, <3>2 DEF Staged
  <2> QED BY <2>1, <2>2, TheWindows
<1> QED BY <1>5, <1>6 DEF Framed, AtRest, Staged

LEMMA FrameStays ==
  ASSUME HandoverTypeOK, Framed, [HandoverNext]_hvars
  PROVE  Framed'
<1>1. view \in [Windows -> Shapes] /\ TypeOfRest
  BY TypeIs
<1>2. (\A w \in Windows : AtRest(view[w], inbox[w], move[w])) /\ Staged
  BY FramedIs
<1>3. CASE Flush \/ UNCHANGED hvars
  BY <1>3 DEF Flush, hvars, windows, Framed, OnMain
<1>4. CASE Emit
  <2>1. \A w \in Windows : inbox'[w] = inbox[w] \/ Listens(w)
    BY <1>4 DEF Emit
  <2>2. UNCHANGED <<view, move, given, open, gone, detached>>
    BY <1>4 DEF Emit, windows
  <2>3. \A w \in Windows : AtRest(view'[w], inbox'[w], move'[w])
    BY <1>2, <2>1, <2>2 DEF AtRest, Listens
  <2> QED BY <1>2, <2>2, <2>3 DEF Framed, AtRest, Staged, OnMain
<1>5. CASE WindowOpens \/ WindowRefused \/ AskBack
  <2>1. /\ UNCHANGED <<view, inbox, gone, detached>> /\ move["main"] \in {"packed", "refused"}
        /\ move' = [move EXCEPT !["main"] = move'["main"]]
        /\ move'["main"] \in {"opened", "refused", "asking"}
        /\ open' = open \/ (open' /\ move'["main"] = "opened")
        /\ move'["main"] = "opened" => WindowOpens
        /\ given' = given \/ move'["main"] = "asking"
        /\ move'["main"] = "opened" => given' = given
    BY <1>1, <1>5, TheWindows DEF WindowOpens, WindowRefused, AskBack, TypeOfRest, windows
  <2>2. ~detached /\ OnMain /\ ~open /\ ~gone /\ given = <<>>
    BY <1>2, <2>1 DEF Staged, OnMain
  <2>3. move'["tab"] = move["tab"]
    BY <1>1, <2>1, TheWindows DEF TypeOfRest
  <2>4. Staged'
    BY <1>2, <1>5, <2>1, <2>2, <2>3 DEF Staged, OnMain, WindowOpens, WindowRefused, AskBack
  <2>5. \A w \in Windows : AtRest(view'[w], inbox'[w], move'[w])
    BY <1>2, <2>1, <2>3, TheWindows DEF AtRest
  <2> QED BY <2>4, <2>5 DEF Framed, AtRest, Staged
<1>6. CASE WriteBack
  <2>1. /\ move["main"] = "asking" /\ move' = [move EXCEPT !["main"] = "still"] /\ given' = <<>>
        /\ UNCHANGED <<inbox, open, gone, detached>>
        /\ view' = [view EXCEPT !["main"].shown = @ \o given]
    BY <1>6 DEF WriteBack, windows
  <2>2. /\ move'["main"] = "still" /\ move'["tab"] = move["tab"] /\ view'["tab"] = view["tab"]
        /\ view'["main"].at = view["main"].at /\ view'["main"].reply = view["main"].reply
        /\ view'["main"].queued = view["main"].queued
    BY <1>1, <2>1, TheWindows DEF TypeOfRest, Shapes
  <2>3. view["main"].at # "none"
    BY <1>2, <2>1 DEF Staged
  <2>4. \A w \in Windows : AtRest(view'[w], inbox'[w], move'[w])
    BY <1>2, <2>1, <2>2, <2>3, TheWindows DEF AtRest
  <2>5. Staged'
    BY <1>2, <2>1, <2>2, <2>3 DEF Staged, OnMain
  <2> QED BY <2>4, <2>5 DEF Framed, AtRest, Staged
<1>7. CASE SetDetached \/ Close \/ Crash
  <2>1. PICK w \in Windows :
           /\ view' = [view EXCEPT ![w] = NoView] /\ inbox' = [inbox EXCEPT ![w] = <<>>]
           /\ move' = [move EXCEPT ![w] = "still"] /\ given' = given
           /\ \/ w = "main" /\ move["main"] = "opened" /\ detached' /\ UNCHANGED <<open, gone>>
              \/ w = "tab" /\ open /\ ~open' /\ gone' /\ detached' = detached
    BY <1>7, TheWindows DEF SetDetached, Close, Crash, Dispose
  <2>2. /\ view'[w] = NoView /\ inbox'[w] = <<>> /\ move'[w] = "still"
        /\ \A x \in Windows \ {w} : view'[x] = view[x] /\ inbox'[x] = inbox[x] /\ move'[x] = move[x]
    BY <1>1, <2>1 DEF TypeOfRest
  <2>3. \A x \in Windows : AtRest(view'[x], inbox'[x], move'[x])
    BY <1>2, <2>2, NewViewRests, RowsAre
  <2>4. Staged'
    <3>1. NoView.at = "none"
      BY DEF NoView
    <3>2. given = <<>> \/ move["main"] = "asking"
      BY <1>2 DEF Staged
    <3>3. CASE w = "main"
      <4>1. move'["tab"] = move["tab"] /\ view'["tab"] = view["tab"]
        BY <2>2, <3>3, TheWindows
      <4> QED BY <1>2, <2>1, <2>2, <3>1, <3>2, <3>3, <4>1 DEF Staged, OnMain
    <3>4. CASE w = "tab"
      <4>1. move'["main"] = move["main"] /\ view'["main"] = view["main"]
        BY <2>2, <3>4, TheWindows
      <4> QED BY <1>2, <2>1, <2>2, <3>1, <3>2, <3>4, <4>1 DEF Staged, OnMain
    <3> QED BY <3>3, <3>4, TheWindows
  <2> QED BY <2>3, <2>4 DEF Framed, AtRest, Staged
<1>8. CASE Mount
  <2>1. /\ open /\ move["tab"] = "still" /\ payload \in Seq(Chunks)
        /\ view' = [view EXCEPT !["tab"] = Fresh(payload)]
        /\ UNCHANGED <<inbox, move, given, open, gone, detached>>
    BY <1>1, <1>8 DEF Mount, TypeOfRest
  <2>2. view'["tab"] = Fresh(payload) /\ view'["main"] = view["main"]
    BY <1>1, <2>1, TheWindows
  <2>3. \A x \in Windows : AtRest(view'[x], inbox'[x], move'[x])
    BY <1>2, <2>1, <2>2, NewViewRests, TheWindows
  <2>4. Staged'
    BY <1>2, <2>1, <2>2 DEF Staged, OnMain
  <2> QED BY <2>3, <2>4 DEF Framed, AtRest, Staged
<1>9. CASE TakeBack
  <2>1. gone /\ gone' = FALSE /\ UNCHANGED <<inbox, move, given, open>>
    BY <1>9 DEF TakeBack
  <2>2. CASE UNCHANGED <<view, detached>>
    BY <1>2, <2>1, <2>2 DEF Framed, AtRest, Staged, OnMain
  <2>3. CASE detached /\ ~detached' /\ \E s \in Seq(Chunks) : view' = [view EXCEPT !["main"] = Fresh(s)]
    <3>1. PICK s \in Seq(Chunks) : view' = [view EXCEPT !["main"] = Fresh(s)]
      BY <2>3
    <3>2. view'["main"] = Fresh(s) /\ view'["tab"] = view["tab"]
      BY <1>1, <3>1, TheWindows
    <3>3. \A x \in Windows : AtRest(view'[x], inbox'[x], move'[x])
      BY <1>2, <2>1, <3>2, NewViewRests, TheWindows
    <3>4. Staged'
      BY <1>2, <2>1, <2>3, <3>2 DEF Staged, OnMain
    <3> QED BY <3>3, <3>4 DEF Framed, AtRest, Staged
  <2>4. (IF payload = Nothing THEN <<>> ELSE payload) \in Seq(Chunks)
    BY <1>1, RowsAre DEF TypeOfRest
  <2> QED BY <1>9, <2>2, <2>3, <2>4 DEF TakeBack
<1> QED BY <1>3, <1>4, <1>5, <1>6, <1>7, <1>8, <1>9, TerminalRests, MovingRests DEF HandoverNext

----------------------------------------------------------------------------
(* What a step does to the terminals *)

Plain ==
    /\ out \in Nat /\ emitting \in Nat /\ pending \in Seq(Nat) /\ given \in Seq(Nat)
    /\ payload # Nothing => payload \in Seq(Nat)
    /\ \A w \in Windows : view[w] \in Views /\ inbox[w] \in Seq(Nat)

LEMMA PlainTypes ==
  ASSUME HandoverTypeOK, [HandoverNext]_hvars
  PROVE  Plain /\ Plain'
<1>1. view \in [Windows -> Shapes] /\ TypeOfRest
  BY TypeIs
<1>2. view' \in [Windows -> Shapes] /\ TypeOfRest'
  BY ShapesStay, RestStays
<1>3. Plain
  BY <1>1, RowsAre DEF TypeOfRest, Plain
<1>4. Plain'
  BY <1>2, RowsAre DEF TypeOfRest, Plain
<1> QED BY <1>3, <1>4

LEMMA FlushDoes ==
  ASSUME HandoverTypeOK, Flush
  PROVE  /\ UNCHANGED <<view, inbox, given, payload, attached, move, open, detached, gone, mishaps>>
         /\ out' = out + 1 /\ Now = {} /\ emitting = 0
         /\ attached => Now' = {out + 1} /\ pending' = pending
         /\ ~attached => /\ Now' = {} /\ emitting' = 0 /\ Of(pending') = Of(pending) \cup {out + 1}
                         /\ Of(pending) \subseteq 1..out /\ Once(pending) => Once(pending')
                         /\ Of(pending) \subseteq 1..out /\ Rises(pending) => Rises(pending')
<1>1. out \in Nat /\ pending \in Seq(Nat) /\ out + 1 \in Nat /\ out + 1 # 0
  BY TypeIs, RowsAre DEF TypeOfRest
<1>2. {out + 1} \ {Held} = {out + 1} /\ {0} \ {Held} = {}
  BY <1>1 DEF Held
<1>3. Of(pending) \subseteq 1..out => out + 1 \notin Of(pending) /\ Below(Of(pending), {out + 1})
  BY <1>1 DEF Below
<1>4. /\ Of(Append(pending, out + 1)) = Of(pending) \cup ({out + 1} \ {Held})
      /\ Once(pending) /\ out + 1 \notin Of(pending) => Once(Append(pending, out + 1))
      /\ Rises(pending) /\ Below(Of(pending), {out + 1} \ {Held}) => Rises(Append(pending, out + 1))
  BY <1>1, AppendRow
<1> QED BY <1>2, <1>3, <1>4 DEF Flush, Now, windows

LEMMA EmitDoes ==
  ASSUME HandoverTypeOK, Emit
  PROVE  /\ UNCHANGED <<view, given, payload, attached, move, open, detached, gone, mishaps>>
         /\ UNCHANGED <<out, pending>>
         /\ emitting \in Nat \ {Held} /\ Now = {emitting} /\ Now' = {} /\ emitting' = 0
         /\ \A w \in Windows : inbox'[w] = IF Listens(w) THEN Append(inbox[w], emitting) ELSE inbox[w]
<1>1. emitting \in Nat \ {Held} /\ {emitting} \ {Held} = {emitting} /\ {0} \ {Held} = {}
  BY TypeIs DEF TypeOfRest, Emit, Held
<1> QED BY <1>1 DEF Emit, Now, windows

\* The other window.
LEMMA OthersStay ==
  ASSUME HandoverTypeOK, NEW w \in Windows,
         \/ Listen(w) \/ Attach(w) \/ Replay(w) \/ Output(w)
         \/ BeginMove(w) \/ Hold(w) \/ Heard(w) \/ WaitOver(w) \/ Pack(w)
  PROVE  \A x \in Windows \ {w} : view'[x] = view[x] /\ inbox'[x] = inbox[x] /\ move'[x] = move[x]
BY TypeIs DEF Listen, Attach, Replay, Output, BeginMove, Hold, Heard, WaitOver, Pack, TypeOfRest, windows

LEMMA ListenDoes ==
  ASSUME HandoverTypeOK, NEW w \in Windows, Listen(w)
  PROVE  /\ view[w].at = "mounted" /\ view'[w].at = "listening"
         /\ view'[w].shown = view[w].shown /\ view'[w].reply = view[w].reply
         /\ view'[w].queued = view[w].queued
         /\ UNCHANGED <<out, emitting, attached, pending, inbox, move, given, open, payload, gone,
                        detached, mishaps>>
<1>1. view[w] \in Shapes /\ view'[w] = [view[w] EXCEPT !.at = "listening"] /\ view[w].at = "mounted"
  BY TypeIs DEF Listen
<1> QED BY <1>1 DEF Listen, Shapes, output, windows

LEMMA AttachDoes ==
  ASSUME HandoverTypeOK, NEW w \in Windows, Attach(w)
  PROVE  /\ view[w].at = "listening" /\ view'[w].at = "asked"
         /\ view'[w].shown = view[w].shown /\ view'[w].reply = pending
         /\ view'[w].queued = view[w].queued
         /\ attached' /\ pending' = <<>> /\ Of(pending') = {}
         /\ UNCHANGED <<out, emitting, inbox, move, given, open, payload, gone, detached, mishaps>>
<1>1. /\ view[w] \in Shapes /\ view[w].at = "listening"
      /\ view'[w] = [view[w] EXCEPT !.at = "asked", !.reply = pending]
  BY TypeIs DEF Attach
<1> QED BY <1>1, EmptyRow DEF Attach, Shapes, windows

LEMMA ReplayDoes ==
  ASSUME HandoverTypeOK, NEW w \in Windows, Replay(w)
  PROVE  /\ view[w].at = "asked" /\ view'[w].at = "bound"
         /\ view'[w].shown = view[w].shown \o view[w].reply \o view[w].queued
         /\ view'[w].reply = <<>> /\ view'[w].queued = <<>>
         /\ UNCHANGED <<out, emitting, attached, pending, inbox, move, given, open, payload, gone,
                        detached, mishaps>>
<1>1. /\ view[w].at = "asked"
      /\ view'[w] = Bound(view[w].shown \o view[w].reply \o view[w].queued)
  BY TypeIs DEF Replay
<1> QED BY <1>1 DEF Replay, Bound, NoView, output, windows

LEMMA OutputDoes ==
  ASSUME HandoverTypeOK, NEW w \in Windows, Output(w)
  PROVE  /\ inbox[w] # <<>> /\ Head(inbox[w]) # Held /\ inbox'[w] = Tail(inbox[w])
         /\ view'[w].at = view[w].at /\ view'[w].reply = view[w].reply
         /\ view[w].at = "bound" => /\ view'[w].shown = Append(view[w].shown, Head(inbox[w]))
                                    /\ view'[w].queued = view[w].queued
         /\ view[w].at # "bound" => /\ view'[w].queued = Append(view[w].queued, Head(inbox[w]))
                                    /\ view'[w].shown = view[w].shown
         /\ UNCHANGED <<out, emitting, attached, pending, move, given, open, payload, gone,
                        detached, mishaps>>
<1>1. /\ view[w] \in Shapes
      /\ view[w].at = "bound" => view'[w] = [view[w] EXCEPT !.shown = Append(@, Head(inbox[w]))]
      /\ view[w].at # "bound" => view'[w] = [view[w] EXCEPT !.queued = Append(@, Head(inbox[w]))]
  BY TypeIs DEF Output
<1>2. inbox'[w] = Tail(inbox[w])
  BY TypeIs DEF Output, TypeOfRest
<1> QED BY <1>1, <1>2 DEF Output, Shapes, output, windows

LEMMA MoveDoes ==
  ASSUME HandoverTypeOK, NEW w \in Windows,
         BeginMove(w) \/ Hold(w) \/ Heard(w) \/ WaitOver(w) \/ Pack(w)
  PROVE  /\ UNCHANGED <<view, out, emitting, pending, given, open, gone, detached>>
         /\ Hold(w) \/ attached' = attached
         /\ Pack(w) \/ payload' = payload
         /\ \/ inbox'[w] = inbox[w]
            \/ inbox'[w] = Append(inbox[w], Held)
            \/ inbox[w] # <<>> /\ Head(inbox[w]) = Held /\ inbox'[w] = Tail(inbox[w])
         /\ mishaps \subseteq mishaps'
<1>1. UNCHANGED <<view, out, emitting, pending, given, open, gone, detached>>
  BY DEF BeginMove, Hold, Heard, WaitOver, Pack, output, windows
<1>2. (Hold(w) \/ attached' = attached) /\ (Pack(w) \/ payload' = payload)
  BY DEF BeginMove, Hold, Heard, WaitOver, Pack, output, windows
<1>3. \/ inbox'[w] = inbox[w]
      \/ inbox'[w] = Append(inbox[w], Held)
      \/ inbox[w] # <<>> /\ Head(inbox[w]) = Held /\ inbox'[w] = Tail(inbox[w])
  BY TypeIs DEF BeginMove, Hold, Heard, WaitOver, Pack, TypeOfRest
<1>4. mishaps \subseteq mishaps'
  BY DEF BeginMove, Hold, Heard, WaitOver, Pack, Unless, Mishap
<1> QED BY <1>1, <1>2, <1>3, <1>4

\* A terminal is disposed of.
LEMMA DisposeDoes ==
  ASSUME HandoverTypeOK, Framed, NEW w \in Windows, Dispose(w),
         w = "main" => SetDetached, w = "tab" => Close \/ Crash
  PROVE  /\ view'[w] = NoView /\ inbox'[w] = <<>> /\ move'[w] = "still"
         /\ view'[w].at = "none"
         /\ view'[w].shown = <<>> /\ view'[w].queued = <<>> /\ view'[w].reply = <<>>
         /\ \A x \in Windows \ {w} : view'[x] = view[x] /\ inbox'[x] = inbox[x] /\ move'[x] = move[x]
         /\ UNCHANGED <<out, emitting, attached, pending, given, payload>>
         /\ AskedBack(w) = {}
         /\ mishaps \subseteq mishaps'
<1>1. /\ view'[w] = NoView /\ inbox'[w] = <<>> /\ move'[w] = "still"
      /\ \A x \in Windows \ {w} : view'[x] = view[x] /\ inbox'[x] = inbox[x] /\ move'[x] = move[x]
  BY TypeIs DEF Dispose, TypeOfRest
<1>2. UNCHANGED <<out, emitting, attached, pending, given, payload>> /\ mishaps \subseteq mishaps'
  BY TheWindows DEF SetDetached, Close, Crash, output, Mishap
<1>3. AskedBack(w) = {}
  BY EmptyRow DEF SetDetached, Framed, AskedBack
<1> QED BY <1>1, <1>2, <1>3 DEF NoView

\* A terminal is mounted on what was left for it.
LEMMA MountDoes ==
  ASSUME HandoverTypeOK, Framed, Mount
  PROVE  /\ view["tab"].at = "none" /\ inbox'["tab"] = <<>>
         /\ view'["tab"] = Fresh(payload) /\ payload # Nothing /\ payload' = Nothing
         /\ view'["main"] = view["main"] /\ AskedBack("tab") = {}
         /\ UNCHANGED <<out, emitting, attached, pending, inbox, given, move, open, gone, detached, mishaps>>
BY TypeIs, TheWindows DEF Mount, output, Framed, AskedBack

LEMMA TakeBackDoes ==
  ASSUME HandoverTypeOK, Framed, TakeBack
  PROVE  /\ UNCHANGED <<out, emitting, attached, pending, inbox, given, move, open, mishaps>>
         /\ gone /\ ~gone'
         /\ ~detached => UNCHANGED <<view, payload, detached>>
         /\ detached => /\ view["main"].at = "none" /\ inbox'["main"] = <<>> /\ ~detached'
                        /\ \/ payload # Nothing /\ view'["main"] = Fresh(payload)
                           \/ payload = Nothing /\ view'["main"] = Fresh(<<>>)
                        /\ payload' = Nothing
                        /\ view'["tab"] = view["tab"] /\ AskedBack("main") = {}
<1>1. /\ UNCHANGED <<out, emitting, attached, pending, inbox, given, move, open, mishaps>>
      /\ gone /\ ~gone' /\ (~detached => UNCHANGED <<view, payload, detached>>)
  BY DEF TakeBack, output
<1>2. ASSUME detached
      PROVE  /\ view["main"].at = "none" /\ inbox'["main"] = <<>> /\ AskedBack("main") = {}
  BY <1>1, <1>2, TheWindows, EmptyRow DEF Framed, AskedBack
<1>3. ASSUME detached
      PROVE  /\ ~detached'
             /\ \/ payload # Nothing /\ view'["main"] = Fresh(payload)
                \/ payload = Nothing /\ view'["main"] = Fresh(<<>>)
             /\ payload' = Nothing
             /\ view'["tab"] = view["tab"]
  BY <1>3, TypeIs, TheWindows DEF TakeBack
<1> QED BY <1>1, <1>2, <1>3

LEMMA AskBackDoes ==
  ASSUME HandoverTypeOK, Framed, AskBack
  PROVE  /\ UNCHANGED <<out, emitting, inbox, view, payload, open, gone, detached, mishaps>>
         /\ move["main"] = "refused" /\ move'["main"] = "asking" /\ move'["tab"] = move["tab"]
         /\ attached' /\ given' = pending /\ pending' = <<>> /\ Of(pending') = {}
         /\ given = <<>> /\ \A w \in Windows : AskedBack(w) = {}
         /\ AskedBack("main")' = Of(pending) /\ AskedBack("tab")' = {}
BY TypeIs, TheWindows, EmptyRow DEF AskBack, Framed, AskedBack, windows, TypeOfRest

LEMMA WriteBackDoes ==
  ASSUME HandoverTypeOK, WriteBack
  PROVE  /\ UNCHANGED <<out, emitting, attached, pending, inbox, payload, open, gone, detached, mishaps>>
         /\ view'["main"].at = view["main"].at
         /\ view'["main"].shown = view["main"].shown \o given
         /\ view'["main"].queued = view["main"].queued
         /\ view'["main"].reply = view["main"].reply
         /\ view'["tab"] = view["tab"] /\ move'["tab"] = move["tab"]
         /\ move["main"] = "asking" /\ move'["main"] = "still" /\ given' = <<>>
         /\ AskedBack("main") = Of(given) /\ AskedBack("main")' = {} /\ AskedBack("tab")' = {}
<1>1. /\ view["main"] \in Shapes
      /\ view'["main"] = [view["main"] EXCEPT !.shown = @ \o given]
      /\ view'["tab"] = view["tab"] /\ move'["tab"] = move["tab"]
      /\ move["main"] = "asking" /\ move'["main"] = "still" /\ given' = <<>>
  BY TypeIs, TheWindows DEF WriteBack, TypeOfRest
<1>2. AskedBack("main") = Of(given) /\ AskedBack("main")' = {} /\ AskedBack("tab")' = {}
  BY <1>1, EmptyRow DEF AskedBack
<1> QED BY <1>1, <1>2 DEF WriteBack, Shapes, output, windows

LEMMA WindowDoes ==
  ASSUME HandoverTypeOK, WindowOpens \/ WindowRefused
  PROVE  /\ UNCHANGED <<out, emitting, attached, pending, inbox, view, given, gone, detached>>
         /\ payload' = payload \/ payload' = Nothing
         /\ move["main"] = "packed" /\ move'["tab"] = move["tab"]
         /\ mishaps \subseteq mishaps'
BY TypeIs, TheWindows DEF WindowOpens, WindowRefused, Mishap, output, windows, TypeOfRest

----------------------------------------------------------------------------
(* A chunk is in one place *)

Alone(v, i, e, p, g, n) == Reach(v, i, e, p, g) \subseteq 1..n /\ Lined(v, i, e, p, g)

\* The part of Single that is not about a terminal.
Loose ==
    /\ Of(pending) \subseteq 1..out /\ Of(given) \subseteq 1..out /\ Now \subseteq 1..out
    /\ Once(pending) /\ Once(given)
    /\ payload # Nothing => /\ Of(payload) \subseteq 1..out /\ Once(payload)
                            /\ Of(payload) \cap (Now \cup Of(pending)) = {}

LEMMA SingleIs ==
  Single <=> Loose /\ \A w \in Windows : Alone(view[w], inbox[w], Now, Of(pending), AskedBack(w), out)
BY DEF Single, Loose, Alone

LEMMA PlainViews ==
  /\ NoView.at = "none" /\ NoView.shown = <<>> /\ NoView.reply = <<>> /\ NoView.queued = <<>>
  /\ \A s : /\ Fresh(s).at = "mounted" /\ Fresh(s).shown = s
            /\ Fresh(s).reply = <<>> /\ Fresh(s).queued = <<>>
BY DEF Fresh, NoView

LEMMA SingleStarts == HandoverInit => Single
<1> SUFFICES ASSUME HandoverInit PROVE Single
  OBVIOUS
<1>1. Now = {} /\ \A w \in Windows : AskedBack(w) = {}
  BY EmptyRow DEF HandoverInit, Now, AskedBack, Held
<1>2. Loose
  BY <1>1, EmptyRow DEF HandoverInit, Loose
<1>3. ASSUME NEW w \in Windows PROVE Alone(view[w], inbox[w], Now, Of(pending), AskedBack(w), out)
  <2>1. view[w] = Fresh(<<>>) \/ view[w] = NoView
    BY TheWindows DEF HandoverInit
  <2>2. view[w].shown = <<>> /\ view[w].reply = <<>> /\ view[w].queued = <<>>
    BY <2>1, PlainViews
  <2>3. inbox[w] = <<>> /\ pending = <<>>
    BY DEF HandoverInit
  <2> QED BY <1>1, <2>2, <2>3, EmptyRow DEF Alone, Reach, Lined, Disjoint
<1> QED BY <1>2, <1>3, SingleIs

LEMMA SingleByTerminal ==
  ASSUME HandoverTypeOK, Framed, Single, [HandoverNext]_hvars, NEW w \in Windows,
         Listen(w) \/ Attach(w) \/ Replay(w) \/ Output(w)
  PROVE  Single'
<1>1. /\ Loose /\ Plain /\ Plain'
      /\ \A x \in Windows : Alone(view[x], inbox[x], Now, Of(pending), AskedBack(x), out)
  BY SingleIs, PlainTypes
<1>2. /\ UNCHANGED <<out, emitting, given, payload>> /\ Now' = Now
      /\ Of(pending') \subseteq Of(pending) /\ (Attach(w) \/ pending' = pending)
      /\ \A x \in Windows : AskedBack(x)' = AskedBack(x)
  BY ListenDoes, AttachDoes, ReplayDoes, OutputDoes DEF Now, AskedBack
<1>3. Loose'
  BY <1>1, <1>2, AttachDoes, EmptyRow DEF Loose
<1>4. ASSUME NEW x \in Windows \ {w}
      PROVE  Alone(view'[x], inbox'[x], Now', Of(pending'), AskedBack(x)', out')
  <2>1. view'[x] = view[x] /\ inbox'[x] = inbox[x] /\ view[x] \in Views /\ inbox[x] \in Seq(Nat)
    BY <1>1, OthersStay DEF Plain
  <2>2. /\ Reach(view[x], inbox[x], Now, Of(pending'), AskedBack(x))
             \subseteq Reach(view[x], inbox[x], Now, Of(pending), AskedBack(x))
        /\ Lined(view[x], inbox[x], Now, Of(pending), AskedBack(x))
             => Lined(view[x], inbox[x], Now, Of(pending'), AskedBack(x))
    BY <1>2, <2>1, LessReaches
  <2> QED BY <1>1, <1>2, <2>1, <2>2 DEF Alone
<1>5. Alone(view'[w], inbox'[w], Now', Of(pending'), AskedBack(w)', out')
  <2>1. /\ Alone(view[w], inbox[w], Now, Of(pending), AskedBack(w), out)
        /\ view[w] \in Views /\ view'[w] \in Views /\ inbox[w] \in Seq(Nat)
        /\ pending \in Seq(Nat)
    BY <1>1 DEF Plain
  <2>2. CASE Listen(w)
    <3>1. /\ view'[w].shown = view[w].shown /\ view'[w].reply = view[w].reply
          /\ view'[w].queued = view[w].queued /\ inbox' = inbox /\ pending' = pending
      BY <2>2, ListenDoes
    <3> QED BY <1>2, <2>1, <3>1 DEF Alone, Reach, Lined
  <2>3. CASE Attach(w)
    <3>1. /\ view'[w].shown = view[w].shown /\ view'[w].reply = pending
          /\ view'[w].queued = view[w].queued /\ inbox' = inbox /\ Of(pending') = {}
          /\ view[w].at = "listening"
      BY <2>3, AttachDoes
    <3>2. view[w].reply = <<>> /\ Once(pending)
      BY <1>1, <3>1 DEF Framed, Loose
    <3>3. Lined(view[w], inbox[w], Now, Of(pending), AskedBack(w)) /\ Once(pending)
            => Lined(view'[w], inbox[w], Now, {}, AskedBack(w))
      BY <2>1, <3>1, <3>2, AskReaches
    <3>4. Reach(view'[w], inbox[w], Now, {}, AskedBack(w))
            = Reach(view[w], inbox[w], Now, Of(pending), AskedBack(w))
      BY <3>1, <3>2, EmptyRow DEF Reach
    <3> QED BY <1>2, <2>1, <3>1, <3>2, <3>3, <3>4 DEF Alone
  <2>4. CASE Replay(w)
    <3>1. /\ view'[w].shown = view[w].shown \o view[w].reply \o view[w].queued
          /\ view'[w].reply = <<>> /\ view'[w].queued = <<>>
          /\ inbox' = inbox /\ pending' = pending
      BY <2>4, ReplayDoes
    <3>2. /\ Reach(view'[w], inbox[w], Now, Of(pending), AskedBack(w))
               = Reach(view[w], inbox[w], Now, Of(pending), AskedBack(w))
          /\ Lined(view[w], inbox[w], Now, Of(pending), AskedBack(w))
               => Lined(view'[w], inbox[w], Now, Of(pending), AskedBack(w))
          /\ Risen(view[w], inbox[w], Now, Of(pending)) => Risen(view'[w], inbox[w], Now, Of(pending))
      BY <2>1, <3>1, ReplayReaches
    <3> QED BY <1>2, <2>1, <3>1, <3>2 DEF Alone
  <2>5. CASE Output(w)
    <3>1. /\ inbox[w] # <<>> /\ Head(inbox[w]) # Held /\ inbox'[w] = Tail(inbox[w])
          /\ view'[w].reply = view[w].reply /\ pending' = pending
          /\ view[w].at = "bound" => /\ view'[w].shown = Append(view[w].shown, Head(inbox[w]))
                                     /\ view'[w].queued = view[w].queued
          /\ view[w].at # "bound" => /\ view'[w].queued = Append(view[w].queued, Head(inbox[w]))
                                     /\ view'[w].shown = view[w].shown
      BY <2>5, OutputDoes
    <3>2. view[w].at = "bound" => Of(view[w].reply) = {} /\ Of(view[w].queued) = {}
      BY EmptyRow DEF Framed
    <3>3. /\ Reach(view'[w], Tail(inbox[w]), Now, Of(pending), AskedBack(w))
               = Reach(view[w], inbox[w], Now, Of(pending), AskedBack(w))
          /\ Lined(view[w], inbox[w], Now, Of(pending), AskedBack(w))
               => Lined(view'[w], Tail(inbox[w]), Now, Of(pending), AskedBack(w))
          /\ Risen(view[w], inbox[w], Now, Of(pending))
               => Risen(view'[w], Tail(inbox[w]), Now, Of(pending))
      BY <2>1, <3>1, <3>2, OutputReaches
    <3> QED BY <1>2, <2>1, <3>1, <3>3 DEF Alone
  <2> QED BY <2>2, <2>3, <2>4, <2>5
<1>6. \A x \in Windows : Alone(view'[x], inbox'[x], Now', Of(pending'), AskedBack(x)', out')
  BY <1>4, <1>5
<1> QED BY <1>3, <1>6 DEF Single, Loose, Alone

LEMMA SingleByMove ==
  ASSUME HandoverTypeOK, Framed, Single, [HandoverNext]_hvars, NEW w \in Windows,
         BeginMove(w) \/ Hold(w) \/ Heard(w) \/ WaitOver(w) \/ Pack(w)
  PROVE  Single'
<1>1. /\ Loose /\ Plain /\ Plain'
      /\ \A x \in Windows : Alone(view[x], inbox[x], Now, Of(pending), AskedBack(x), out)
  BY SingleIs, PlainTypes
<1>2. /\ UNCHANGED <<view, out, emitting, given, pending>> /\ Now' = Now
      /\ \A x \in Windows : AskedBack(x)' = AskedBack(x)
  BY MoveDoes DEF Now, AskedBack
<1>3. ASSUME Pack(w) PROVE payload' = view[w].shown
  BY <1>3 DEF Pack
<1>4. /\ Of(view[w].shown) \subseteq 1..out /\ Once(view[w].shown)
      /\ Of(view[w].shown) \cap (Now \cup Of(pending)) = {}
  BY <1>1 DEF Alone, Reach, Lined, Disjoint
<1>5. Pack(w) \/ payload' = payload
  BY MoveDoes
<1>6. Loose'
  BY <1>1, <1>2, <1>3, <1>4, <1>5 DEF Loose
<1>7. ASSUME NEW x \in Windows
      PROVE  Alone(view'[x], inbox'[x], Now', Of(pending'), AskedBack(x)', out')
  <2>1. /\ Alone(view[x], inbox[x], Now, Of(pending), AskedBack(x), out)
        /\ view[x] \in Views /\ inbox[x] \in Seq(Nat) /\ inbox'[x] \in Seq(Nat)
    BY <1>1 DEF Plain
  <2>2. CASE inbox'[x] = inbox[x]
    BY <1>2, <2>1, <2>2
  <2>3. CASE \/ inbox'[x] = Append(inbox[x], Held)
             \/ inbox[x] # <<>> /\ Head(inbox[x]) = Held /\ inbox'[x] = Tail(inbox[x])
    <3>1. /\ Of(inbox'[x]) = Of(inbox[x])
          /\ Reach(view[x], inbox'[x], Now, Of(pending), AskedBack(x))
               = Reach(view[x], inbox[x], Now, Of(pending), AskedBack(x))
          /\ Lined(view[x], inbox[x], Now, Of(pending), AskedBack(x))
               => Lined(view[x], inbox'[x], Now, Of(pending), AskedBack(x))
          /\ Risen(view[x], inbox[x], Now, Of(pending)) => Risen(view[x], inbox'[x], Now, Of(pending))
      BY <2>1, <2>3, HeldReaches
    <3> QED BY <1>2, <2>1, <3>1 DEF Alone
  <2> QED BY <2>2, <2>3, MoveDoes, OthersStay
<1> QED BY <1>6, <1>7 DEF Single, Loose, Alone

LEMMA SingleBySession ==
  ASSUME HandoverTypeOK, Framed, Single, [HandoverNext]_hvars, Flush \/ Emit
  PROVE  Single'
<1>1. /\ Loose /\ Plain /\ Plain'
      /\ \A x \in Windows : Alone(view[x], inbox[x], Now, Of(pending), AskedBack(x), out)
  BY SingleIs, PlainTypes
<1>2. \A x \in Windows : AskedBack(x)' = AskedBack(x)
  BY FlushDoes, EmitDoes DEF AskedBack
<1>3. CASE Flush
  <2>1. /\ UNCHANGED <<view, inbox, given, payload>> /\ out' = out + 1 /\ Now = {}
        /\ \/ Now' = {out + 1} /\ pending' = pending
           \/ /\ Now' = {} /\ Of(pending') = Of(pending) \cup {out + 1}
              /\ Of(pending) \subseteq 1..out /\ Once(pending) => Once(pending')
    BY <1>3, FlushDoes
  <2>2. 1..out \subseteq 1..(out + 1) /\ out + 1 \in 1..(out + 1) /\ out + 1 \notin 1..out
    BY <1>1 DEF Plain
  <2>3. Loose'
    BY <1>1, <2>1, <2>2 DEF Loose
  <2>4. ASSUME NEW x \in Windows
        PROVE  Alone(view'[x], inbox'[x], Now', Of(pending'), AskedBack(x)', out')
    <3>1. /\ Reach(view[x], inbox[x], Now, Of(pending), AskedBack(x)) \subseteq 1..out
          /\ Lined(view[x], inbox[x], Now, Of(pending), AskedBack(x))
          /\ view[x] \in Views /\ inbox[x] \in Seq(Nat) /\ out \in Nat
      BY <1>1 DEF Plain, Alone
    <3>2. /\ Reach(view[x], inbox[x], {out + 1}, Of(pending), AskedBack(x)) \subseteq 1..(out + 1)
          /\ Reach(view[x], inbox[x], Now, Of(pending) \cup {out + 1}, AskedBack(x)) \subseteq 1..(out + 1)
          /\ Lined(view[x], inbox[x], {out + 1}, Of(pending), AskedBack(x))
          /\ Lined(view[x], inbox[x], Now, Of(pending) \cup {out + 1}, AskedBack(x))
      BY <2>1, <3>1, PrintReaches
    <3> QED BY <1>2, <2>1, <3>2 DEF Alone
  <2> QED BY <2>3, <2>4 DEF Single, Loose, Alone
<1>4. CASE Emit
  <2>1. /\ UNCHANGED <<view, given, payload, out, pending>> /\ emitting \in Nat \ {Held}
        /\ Now = {emitting} /\ Now' = {}
        /\ \A w \in Windows : inbox'[w] = IF Listens(w) THEN Append(inbox[w], emitting) ELSE inbox[w]
    BY <1>4, EmitDoes
  <2>2. Loose'
    BY <1>1, <2>1 DEF Loose
  <2>3. ASSUME NEW x \in Windows
        PROVE  Alone(view'[x], inbox'[x], Now', Of(pending'), AskedBack(x)', out')
    <3>1. /\ Reach(view[x], inbox[x], {emitting}, Of(pending), AskedBack(x)) \subseteq 1..out
          /\ Lined(view[x], inbox[x], {emitting}, Of(pending), AskedBack(x))
          /\ view[x] \in Views /\ inbox[x] \in Seq(Nat)
      BY <1>1, <2>1 DEF Plain, Alone
    <3>2. CASE inbox'[x] = Append(inbox[x], emitting)
      <4>1. /\ Reach(view[x], Append(inbox[x], emitting), {}, Of(pending), AskedBack(x)) \subseteq 1..out
            /\ Lined(view[x], Append(inbox[x], emitting), {}, Of(pending), AskedBack(x))
        BY <2>1, <3>1, EmitReaches
      <4> QED BY <1>2, <2>1, <3>2, <4>1 DEF Alone
    <3>3. CASE inbox'[x] = inbox[x]
      <4>1. /\ Reach(view[x], inbox[x], {}, Of(pending), AskedBack(x))
                 \subseteq Reach(view[x], inbox[x], {emitting}, Of(pending), AskedBack(x))
            /\ Lined(view[x], inbox[x], {}, Of(pending), AskedBack(x))
        BY <3>1, LessReaches
      <4> QED BY <1>2, <2>1, <3>1, <3>3, <4>1 DEF Alone
    <3> QED BY <2>1, <3>2, <3>3
  <2> QED BY <2>2, <2>3 DEF Single, Loose, Alone
<1> QED BY <1>3, <1>4

\* A terminal that starts on what was left is in line.
LEMMA AloneOnScreen ==
  ASSUME NEW s \in Seq(Nat), NEW v, NEW u \in Views, NEW i, NEW e, NEW p, NEW g, NEW n,
         u.shown = s, u.queued = <<>>, u.reply = <<>>, Once(s), Of(s) \subseteq 1..n,
         Of(s) \cap (e \cup p) = {}, Alone(v, i, e, p, g, n)
  PROVE  Alone(u, <<>>, e, p, {}, n)
<1>1. Once(s) /\ Of(s) \cap (e \cup p) = {} /\ e \cap p = {} => Lined(u, <<>>, e, p, {})
  BY ScreenReaches
<1>3. Reach(u, <<>>, e, p, {}) = Of(s) \cup e \cup p
  BY EmptyRow DEF Reach
<1>2. e \cap p = {} /\ e \subseteq 1..n /\ p \subseteq 1..n
  BY DEF Alone, Reach, Lined, Disjoint
<1> QED BY <1>1, <1>2, <1>3 DEF Alone

LEMMA SingleByWindow ==
  ASSUME HandoverTypeOK, Framed, Single, [HandoverNext]_hvars,
         \/ WindowOpens \/ WindowRefused \/ AskBack \/ WriteBack \/ SetDetached
         \/ Mount \/ Close \/ Crash \/ TakeBack \/ UNCHANGED hvars
  PROVE  Single'
<1>1. /\ Loose /\ Plain /\ Plain'
      /\ \A x \in Windows : Alone(view[x], inbox[x], Now, Of(pending), AskedBack(x), out)
  BY SingleIs, PlainTypes
<1>2. CASE UNCHANGED hvars
  BY <1>2 DEF hvars, Single, Now, AskedBack
<1>3. CASE WindowOpens \/ WindowRefused
  <2>1. /\ UNCHANGED <<out, emitting, pending, inbox, view, given>>
        /\ payload' = payload \/ payload' = Nothing
    BY <1>3, WindowDoes
  <2> QED BY <2>1 DEF Single, Now, AskedBack
<1>4. CASE AskBack
  <2>1. /\ UNCHANGED <<out, emitting, inbox, view, payload>> /\ Now' = Now
        /\ given' = pending /\ Of(pending') = {} /\ pending' = <<>>
        /\ \A w \in Windows : AskedBack(w) = {}
        /\ AskedBack("main")' = Of(pending) /\ AskedBack("tab")' = {}
    BY <1>4, AskBackDoes DEF Now
  <2>2. Loose'
    BY <1>1, <2>1, EmptyRow DEF Loose
  <2>3. Alone(view'["main"], inbox'["main"], Now', Of(pending'), AskedBack("main")', out')
    <3>1. /\ Alone(view["main"], inbox["main"], Now, Of(pending), {}, out)
          /\ view["main"] \in Views /\ inbox["main"] \in Seq(Nat)
      BY <1>1, <2>1, TheWindows DEF Plain
    <3>2. /\ Reach(view["main"], inbox["main"], Now, {}, Of(pending))
               = Reach(view["main"], inbox["main"], Now, Of(pending), {})
          /\ Lined(view["main"], inbox["main"], Now, Of(pending), {})
               => Lined(view["main"], inbox["main"], Now, {}, Of(pending))
      BY <3>1, GiveReaches
    <3> QED BY <2>1, <3>1, <3>2 DEF Alone
  <2>4. Alone(view'["tab"], inbox'["tab"], Now', Of(pending'), AskedBack("tab")', out')
    <3>1. /\ Alone(view["tab"], inbox["tab"], Now, Of(pending), {}, out)
          /\ view["tab"] \in Views /\ inbox["tab"] \in Seq(Nat)
      BY <1>1, <2>1, TheWindows DEF Plain
    <3>2. /\ Reach(view["tab"], inbox["tab"], Now, {}, {})
               \subseteq Reach(view["tab"], inbox["tab"], Now, Of(pending), {})
          /\ Lined(view["tab"], inbox["tab"], Now, Of(pending), {})
               => Lined(view["tab"], inbox["tab"], Now, {}, {})
      BY <3>1, LessReaches
    <3> QED BY <2>1, <3>1, <3>2 DEF Alone
  <2>5. \A x \in Windows : Alone(view'[x], inbox'[x], Now', Of(pending'), AskedBack(x)', out')
    BY <2>3, <2>4 DEF Windows
  <2> QED BY <2>2, <2>5 DEF Single, Loose, Alone
<1>5. CASE WriteBack
  <2>1. /\ UNCHANGED <<out, emitting, pending, inbox, payload>> /\ Now' = Now
        /\ view'["main"].shown = view["main"].shown \o given
        /\ view'["main"].queued = view["main"].queued
        /\ view'["main"].reply = view["main"].reply
        /\ view'["tab"] = view["tab"] /\ given' = <<>>
        /\ AskedBack("main") = Of(given) /\ AskedBack("main")' = {} /\ AskedBack("tab")' = {}
    BY <1>5, WriteBackDoes DEF Now
  <2>2. Loose'
    BY <1>1, <2>1, EmptyRow DEF Loose
  <2>3. Alone(view'["main"], inbox'["main"], Now', Of(pending'), AskedBack("main")', out')
    <3>1. /\ Alone(view["main"], inbox["main"], Now, Of(pending), Of(given), out)
          /\ view["main"] \in Views /\ view'["main"] \in Views /\ inbox["main"] \in Seq(Nat)
          /\ given \in Seq(Nat) /\ Once(given)
      BY <1>1, <2>1, TheWindows DEF Plain, Loose
    <3>2. /\ Reach(view'["main"], inbox["main"], Now, Of(pending), {})
               = Reach(view["main"], inbox["main"], Now, Of(pending), Of(given))
          /\ Lined(view["main"], inbox["main"], Now, Of(pending), Of(given)) /\ Once(given)
               => Lined(view'["main"], inbox["main"], Now, Of(pending), {})
      BY <2>1, <3>1, BackReaches
    <3> QED BY <2>1, <3>1, <3>2 DEF Alone
  <2>4. Alone(view'["tab"], inbox'["tab"], Now', Of(pending'), AskedBack("tab")', out')
    <3>1. Alone(view["tab"], inbox["tab"], Now, Of(pending), AskedBack("tab"), out) /\ AskedBack("tab") = {}
      BY <1>1, TheWindows DEF AskedBack
    <3> QED BY <2>1, <3>1
  <2>5. \A x \in Windows : Alone(view'[x], inbox'[x], Now', Of(pending'), AskedBack(x)', out')
    BY <2>3, <2>4 DEF Windows
  <2> QED BY <2>2, <2>5 DEF Single, Loose, Alone
<1>6. ASSUME NEW w \in Windows, Dispose(w), w = "main" => SetDetached, w = "tab" => Close \/ Crash
      PROVE  Single'
  <2>1. /\ inbox'[w] = <<>>
        /\ view'[w].shown = <<>> /\ view'[w].queued = <<>> /\ view'[w].reply = <<>>
        /\ \A x \in Windows \ {w} : view'[x] = view[x] /\ inbox'[x] = inbox[x]
        /\ UNCHANGED <<out, emitting, pending, given, payload>>
        /\ AskedBack(w) = {}
    BY <1>6, DisposeDoes
  <2>2. Now' = Now /\ \A x \in Windows : AskedBack(x)' = AskedBack(x)
    BY <2>1 DEF Now, AskedBack
  <2>3. Loose'
    BY <1>1, <2>1, <2>2 DEF Loose
  <2>4. Alone(view'[w], <<>>, Now, Of(pending), {}, out)
    <3>1. /\ <<>> \in Seq(Nat) /\ view'[w] \in Views /\ Of(<<>>) = {} /\ Once(<<>>)
          /\ Alone(view[w], inbox[w], Now, Of(pending), AskedBack(w), out)
      BY <1>1, EmptyRow DEF Plain
    <3>2. Of(<<>>) \subseteq 1..out /\ Of(<<>>) \cap (Now \cup Of(pending)) = {}
      BY <3>1
    <3> QED BY <2>1, <3>1, <3>2, AloneOnScreen
  <2>5. \A x \in Windows : Alone(view'[x], inbox'[x], Now', Of(pending'), AskedBack(x)', out')
    BY <1>1, <2>1, <2>2, <2>4
  <2> QED BY <2>3, <2>5 DEF Single, Loose, Alone
<1>7. ASSUME NEW w \in Windows, NEW s \in Seq(Nat), view'[w] = Fresh(s), inbox'[w] = <<>>, AskedBack(w) = {},
             \/ s = <<>>
             \/ payload # Nothing /\ s = payload,
             \A x \in Windows \ {w} : view'[x] = view[x],
             UNCHANGED <<out, emitting, pending, inbox, given>>, payload' = Nothing
      PROVE  Single'
  <2>1. Now' = Now /\ \A x \in Windows : AskedBack(x)' = AskedBack(x)
    BY <1>7 DEF Now, AskedBack
  <2>2. Loose'
    BY <1>1, <1>7, <2>1 DEF Loose
  <2>3. Alone(view'[w], <<>>, Now, Of(pending), {}, out)
    <3>1. /\ view'[w] \in Views
          /\ Alone(view[w], inbox[w], Now, Of(pending), AskedBack(w), out)
      BY <1>1 DEF Plain
    <3>2. view'[w].shown = s /\ view'[w].queued = <<>> /\ view'[w].reply = <<>>
      BY <1>7 DEF Fresh, NoView
    <3>3. Once(s) /\ Of(s) \subseteq 1..out /\ Of(s) \cap (Now \cup Of(pending)) = {}
      BY <1>1, <1>7, EmptyRow DEF Loose
    <3> QED BY <3>1, <3>2, <3>3, AloneOnScreen
  <2>4. \A x \in Windows : Alone(view'[x], inbox'[x], Now', Of(pending'), AskedBack(x)', out')
    BY <1>1, <1>7, <2>1, <2>3
  <2> QED BY <2>2, <2>4 DEF Single, Loose, Alone
<1>8. CASE Mount
  <2>1. /\ inbox'["tab"] = <<>> /\ view'["tab"] = Fresh(payload) /\ payload # Nothing
        /\ payload' = Nothing /\ view'["main"] = view["main"] /\ AskedBack("tab") = {}
        /\ UNCHANGED <<out, emitting, pending, inbox, given>>
    BY <1>8, MountDoes
  <2>2. payload \in Seq(Nat) /\ \A x \in Windows \ {"tab"} : view'[x] = view[x]
    BY <1>1, <2>1, TheWindows DEF Plain
  <2> QED BY <1>7, <2>1, <2>2, TheWindows
<1>9. CASE TakeBack
  <2>1. CASE ~detached
    <3>1. UNCHANGED <<out, emitting, pending, inbox, given, view, payload>>
      BY <1>9, <2>1, TakeBackDoes
    <3> QED BY <3>1 DEF Single, Now, AskedBack
  <2>2. CASE detached
    <3>1. /\ UNCHANGED <<out, emitting, pending, inbox, given>> /\ inbox'["main"] = <<>>
          /\ \/ payload # Nothing /\ view'["main"] = Fresh(payload)
             \/ payload = Nothing /\ view'["main"] = Fresh(<<>>)
          /\ payload' = Nothing
          /\ view'["tab"] = view["tab"] /\ AskedBack("main") = {}
      BY <1>9, <2>2, TakeBackDoes
    <3>2. /\ payload # Nothing => payload \in Seq(Nat)
          /\ <<>> \in Seq(Nat) /\ \A x \in Windows \ {"main"} : view'[x] = view[x]
      BY <1>1, <3>1, TheWindows DEF Plain
    <3> QED BY <1>7, <3>1, <3>2, TheWindows
  <2> QED BY <2>1, <2>2
<1>10. CASE SetDetached \/ Close \/ Crash
  BY <1>6, <1>10, TheWindows DEF SetDetached, Close, Crash
<1> QED BY <1>2, <1>3, <1>4, <1>5, <1>8, <1>9, <1>10

LEMMA SingleStays ==
  ASSUME HandoverTypeOK, Framed, Single, [HandoverNext]_hvars
  PROVE  Single'
BY SingleByTerminal, SingleByMove, SingleBySession, SingleByWindow DEF HandoverNext

----------------------------------------------------------------------------
(* Who moves is bound *)

LEMMA MishapsGrow ==
  ASSUME HandoverTypeOK, [HandoverNext]_hvars
  PROVE  mishaps \subseteq mishaps'
BY DEF HandoverNext, hvars, Flush, Emit, Listen, Attach, Replay, Output, BeginMove, Hold, Heard,
   WaitOver, Pack, WindowOpens, WindowRefused, AskBack, WriteBack, SetDetached, Mount, Close, Crash,
   TakeBack, Unless, Mishap

\* What Quiet says of a calm state.
Bounded ==
    /\ emitting # 0 => attached
    /\ attached => pending = <<>>
    /\ \A w \in Windows : move[w] # "still" => view[w].at = "bound"

LEMMA QuietStarts == HandoverInit => Quiet
BY DEF HandoverInit, Quiet

LEMMA QuietStays ==
  ASSUME HandoverTypeOK, Framed, Quiet, [HandoverNext]_hvars
  PROVE  Quiet'
<1> SUFFICES ASSUME Calm' PROVE Bounded'
  BY DEF Quiet, Bounded
<1>1. Calm
  BY MishapsGrow DEF Calm
<1>2. Bounded
  BY <1>1 DEF Quiet, Bounded
<1>3. CASE Flush \/ Emit
  BY <1>2, <1>3, FlushDoes, EmitDoes DEF Bounded
<1>4. ASSUME NEW w \in Windows, Listen(w) \/ Attach(w) \/ Replay(w) \/ Output(w)
      PROVE  Bounded'
  <2>1. /\ emitting' = emitting /\ move' = move
        /\ (attached' = attached /\ pending' = pending) \/ (attached' /\ pending' = <<>>)
        /\ view[w].at \in {"mounted", "listening"} \/ view'[w].at = "bound" \/ view'[w].at = view[w].at
        /\ \A x \in Windows \ {w} : view'[x] = view[x]
    BY <1>4, OthersStay, ListenDoes, AttachDoes, ReplayDoes, OutputDoes
  <2> QED BY <1>2, <2>1 DEF Bounded
<1>5. ASSUME NEW w \in Windows, BeginMove(w)
      PROVE  Bounded'
  <2>1. view[w].at = "bound"
    BY <1>5 DEF BeginMove, Unless, Mishap, Calm
  <2>2. /\ UNCHANGED <<view, emitting, pending, attached>>
        /\ \A x \in Windows \ {w} : move'[x] = move[x]
    BY <1>5, MoveDoes, OthersStay DEF BeginMove, output
  <2> QED BY <1>2, <2>1, <2>2 DEF Bounded
<1>6. ASSUME NEW w \in Windows, Hold(w)
      PROVE  Bounded'
  <2>1. emitting = 0
    BY <1>6 DEF Hold, Unless, Mishap, Calm
  <2>2. /\ UNCHANGED <<view, emitting, pending>> /\ move[w] = "holding" /\ ~attached'
        /\ \A x \in Windows \ {w} : move'[x] = move[x]
    BY <1>6, MoveDoes, OthersStay DEF Hold
  <2> QED BY <1>2, <2>1, <2>2 DEF Bounded
<1>7. ASSUME NEW w \in Windows, Heard(w) \/ WaitOver(w) \/ Pack(w)
      PROVE  Bounded'
  <2>1. /\ UNCHANGED <<view, emitting, pending, attached>>
        /\ \A x \in Windows \ {w} : move'[x] = move[x]
    BY <1>7, MoveDoes, OthersStay DEF Heard, WaitOver, Pack, output
  <2>2. move[w] # "still" \/ move'[w] = "still"
    BY <1>7, TypeIs DEF Heard, WaitOver, Pack, TypeOfRest
  <2> QED BY <1>2, <2>1, <2>2 DEF Bounded
<1>8. CASE WindowOpens \/ WindowRefused
  <2>1. /\ UNCHANGED <<view, emitting, pending, attached>>
        /\ move["main"] = "packed" /\ move'["tab"] = move["tab"]
    BY <1>8, WindowDoes
  <2> QED BY <1>2, <2>1, TheWindows DEF Bounded
<1>9. CASE AskBack
  <2>1. /\ UNCHANGED <<view, emitting>> /\ attached' /\ pending' = <<>>
        /\ move["main"] = "refused" /\ move'["tab"] = move["tab"]
    BY <1>9, AskBackDoes
  <2> QED BY <1>2, <2>1, TheWindows DEF Bounded
<1>10. CASE WriteBack
  <2>1. /\ UNCHANGED <<emitting, attached, pending>>
        /\ view'["tab"] = view["tab"] /\ move'["tab"] = move["tab"] /\ move'["main"] = "still"
    BY <1>10, WriteBackDoes
  <2> QED BY <1>2, <2>1, TheWindows DEF Bounded
<1>11. CASE SetDetached \/ Close \/ Crash
  <2>1. PICK w \in Windows : Dispose(w) /\ (w = "main" => SetDetached) /\ (w = "tab" => Close \/ Crash)
    BY <1>11, TheWindows DEF SetDetached, Close, Crash
  <2>2. /\ move'[w] = "still" /\ UNCHANGED <<emitting, attached, pending>>
        /\ \A x \in Windows \ {w} : view'[x] = view[x] /\ move'[x] = move[x]
    BY <2>1, DisposeDoes
  <2> QED BY <1>2, <2>2 DEF Bounded
<1>12. CASE Mount
  <2>1. /\ view["tab"].at = "none" /\ view'["main"] = view["main"]
        /\ UNCHANGED <<emitting, attached, pending, move>>
    BY <1>12, MountDoes
  <2> QED BY <1>2, <2>1, TheWindows DEF Bounded
<1>13. CASE TakeBack
  <2>1. /\ UNCHANGED <<emitting, attached, pending, move>>
        /\ UNCHANGED view \/ (view["main"].at = "none" /\ view'["tab"] = view["tab"])
    BY <1>13, TakeBackDoes
  <2> QED BY <1>2, <2>1, TheWindows DEF Bounded
<1>14. CASE UNCHANGED hvars
  BY <1>2, <1>14 DEF hvars, Bounded
<1> QED BY <1>3, <1>4, <1>5, <1>6, <1>7, <1>8, <1>9, <1>10, <1>11, <1>12, <1>13, <1>14 DEF HandoverNext

----------------------------------------------------------------------------
(* Chunks are in the order of their way *)

\* What Ordered says of a terminal.
Straight(v, i, e, p, a) ==
    /\ Risen(v, i, e, p)
    /\ ~a /\ v.at \in {"mounted", "listening"} => Of(v.queued) = {} /\ Of(i) = {}

Tidy ==
    /\ move["main"] \notin {"refused", "asking"}
    /\ Rises(pending)
    /\ payload # Nothing => Rises(payload) /\ Below(Of(payload), Now \cup Of(pending))

LEMMA OrderedIs ==
  Ordered <=> (mishaps \subseteq {"late", "crashed"} =>
                Tidy /\ \A w \in Windows : Straight(view[w], inbox[w], Now, Of(pending), attached))
BY DEF Ordered, Tidy, Straight

LEMMA OrderedStarts == HandoverInit => Ordered
<1> SUFFICES ASSUME HandoverInit PROVE Ordered
  OBVIOUS
<1>1. Now = {}
  BY DEF HandoverInit, Now, Held
<1>2. Tidy
  BY <1>1, EmptyRow DEF HandoverInit, Tidy, Windows
<1>3. ASSUME NEW w \in Windows PROVE Straight(view[w], inbox[w], Now, Of(pending), attached)
  <2>1. view[w] = Fresh(<<>>) \/ view[w] = NoView
    BY TheWindows DEF HandoverInit
  <2>2. view[w].shown = <<>> /\ view[w].reply = <<>> /\ view[w].queued = <<>>
    BY <2>1, PlainViews
  <2>3. inbox[w] = <<>> /\ pending = <<>>
    BY DEF HandoverInit
  <2> QED BY <1>1, <2>2, <2>3, EmptyRow DEF Straight, Risen, InTurn, Below
<1> QED BY <1>2, <1>3, OrderedIs

\* Before the step, in a state whose mishaps are late or crashed at worst.
InLine ==
    /\ Tidy /\ Bounded /\ Plain /\ Framed /\ Loose
    /\ \A w \in Windows : /\ Straight(view[w], inbox[w], Now, Of(pending), attached)
                          /\ Alone(view[w], inbox[w], Now, Of(pending), AskedBack(w), out)

LEMMA OrderedByTerminal ==
  ASSUME HandoverTypeOK, InLine, Plain', NEW w \in Windows,
         Listen(w) \/ Attach(w) \/ Replay(w) \/ Output(w)
  PROVE  Tidy' /\ \A x \in Windows : Straight(view'[x], inbox'[x], Now', Of(pending'), attached')
<1>1. /\ UNCHANGED <<out, emitting, given, payload, move>> /\ Now' = Now
      /\ \/ pending' = pending /\ attached' = attached
         \/ Attach(w) /\ pending' = <<>> /\ Of(pending') = {} /\ attached'
  BY ListenDoes, AttachDoes, ReplayDoes, OutputDoes DEF Now
<1>2. Of(pending') \subseteq Of(pending)
  BY <1>1
<1>3. Tidy'
  <2>1. Rises(pending')
    BY <1>1, EmptyRow DEF InLine, Tidy
  <2> QED BY <1>1, <1>2, <2>1 DEF InLine, Tidy, Below
<1>4. ASSUME NEW x \in Windows \ {w}
      PROVE  Straight(view'[x], inbox'[x], Now', Of(pending'), attached')
  <2>1. view'[x] = view[x] /\ inbox'[x] = inbox[x] /\ view[x] \in Views /\ inbox[x] \in Seq(Nat)
    BY OthersStay DEF InLine, Plain
  <2>2. /\ Reach(view[x], inbox[x], Now, Of(pending'), {})
             \subseteq Reach(view[x], inbox[x], Now, Of(pending), {})
        /\ Risen(view[x], inbox[x], Now, Of(pending)) => Risen(view[x], inbox[x], Now, Of(pending'))
    BY <1>2, <2>1, LessReaches
  <2>3. Straight(view[x], inbox[x], Now, Of(pending), attached)
    BY DEF InLine
  <2>4. Straight(view[x], inbox[x], Now, Of(pending'), attached)
    BY <2>2, <2>3 DEF Straight
  <2>5. attached' = attached \/ attached'
    BY <1>1
  <2> QED BY <1>1, <2>1, <2>4, <2>5 DEF Straight
<1>5. Straight(view'[w], inbox'[w], Now', Of(pending'), attached')
  <2>1. /\ Straight(view[w], inbox[w], Now, Of(pending), attached)
        /\ view[w] \in Views /\ view'[w] \in Views /\ inbox[w] \in Seq(Nat)
        /\ pending \in Seq(Nat) /\ Rises(pending)
    BY DEF InLine, Plain, Tidy
  <2>2. CASE Listen(w)
    <3>1. /\ view'[w].shown = view[w].shown /\ view'[w].reply = view[w].reply
          /\ view'[w].queued = view[w].queued /\ UNCHANGED <<inbox, pending, attached>>
          /\ view[w].at = "mounted"
      BY <2>2, ListenDoes
    <3> QED BY <1>1, <2>1, <3>1 DEF Straight, Risen
  <2>3. CASE Attach(w)
    <3>1. /\ view'[w].shown = view[w].shown /\ view'[w].reply = pending
          /\ view'[w].queued = view[w].queued /\ inbox' = inbox /\ Of(pending') = {}
          /\ view[w].at = "listening" /\ attached'
      BY <2>3, AttachDoes
    <3>2. view[w].reply = <<>>
      BY <3>1 DEF InLine, Framed
    <3>3. pending # <<>> => Of(view[w].queued) \cup Of(inbox[w]) \cup Now = {}
      BY <2>1, <3>1 DEF InLine, Bounded, Straight, Now, Held
    <3>4. Risen(view[w], inbox[w], Now, Of(pending)) /\ Rises(pending)
            /\ (pending # <<>> => Of(view[w].queued) \cup Of(inbox[w]) \cup Now = {})
            => Risen(view'[w], inbox[w], Now, {})
      BY <2>1, <3>1, <3>2, AskReaches
    <3> QED BY <1>1, <2>1, <3>1, <3>3, <3>4 DEF Straight
  <2>4. CASE Replay(w)
    <3>1. /\ view'[w].shown = view[w].shown \o view[w].reply \o view[w].queued
          /\ view'[w].reply = <<>> /\ view'[w].queued = <<>> /\ view'[w].at = "bound"
          /\ inbox' = inbox /\ pending' = pending
      BY <2>4, ReplayDoes
    <3>2. Risen(view[w], inbox[w], Now, Of(pending)) => Risen(view'[w], inbox[w], Now, Of(pending))
      BY <2>1, <3>1, ReplayReaches
    <3> QED BY <1>1, <2>1, <3>1, <3>2 DEF Straight
  <2>5. CASE Output(w)
    <3>1. /\ inbox[w] # <<>> /\ Head(inbox[w]) # Held /\ inbox'[w] = Tail(inbox[w])
          /\ view'[w].reply = view[w].reply /\ UNCHANGED <<pending, attached>>
          /\ view'[w].at = view[w].at
          /\ view[w].at = "bound" => /\ view'[w].shown = Append(view[w].shown, Head(inbox[w]))
                                     /\ view'[w].queued = view[w].queued
          /\ view[w].at # "bound" => /\ view'[w].queued = Append(view[w].queued, Head(inbox[w]))
                                     /\ view'[w].shown = view[w].shown
      BY <2>5, OutputDoes
    <3>2. view[w].at = "bound" => Of(view[w].reply) = {} /\ Of(view[w].queued) = {}
      BY EmptyRow DEF InLine, Framed
    <3>3. Risen(view[w], inbox[w], Now, Of(pending))
            => Risen(view'[w], Tail(inbox[w]), Now, Of(pending))
      BY <2>1, <3>1, <3>2, OutputReaches
    <3>4. Of(inbox[w]) # {}
      <4>1. Of(inbox[w]) = Of(Tail(inbox[w])) \cup ({Head(inbox[w])} \ {Held})
        BY <2>1, <3>1, TailRow
      <4> QED BY <3>1, <4>1
    <3> QED BY <1>1, <2>1, <3>1, <3>3, <3>4 DEF Straight
  <2> QED BY <2>2, <2>3, <2>4, <2>5
<1> QED BY <1>3, <1>4, <1>5

\* Who holds does so when no other terminal is on its way to being bound.
LEMMA HoldsAlone ==
  ASSUME InLine, NEW w \in Windows, move[w] = "holding", NEW x \in Windows
  PROVE  view[x].at \notin {"mounted", "listening"}
<1>1. view[w].at = "bound"
  BY DEF InLine, Bounded
<1>2. CASE w = "main" /\ x = "tab"
  BY <1>2 DEF InLine, Framed, OnMain
<1>3. CASE w = "tab" /\ x = "main"
  <2>1. open /\ ~OnMain
    BY <1>3 DEF InLine, Framed
  <2>2. view["main"].at = "none" \/ view["main"].at = "bound"
    BY <2>1, TheWindows DEF InLine, Framed, Bounded, OnMain
  <2> QED BY <1>3, <2>2
<1> QED BY <1>1, <1>2, <1>3, TheWindows

LEMMA OrderedByMove ==
  ASSUME HandoverTypeOK, InLine, Plain', NEW w \in Windows,
         BeginMove(w) \/ Hold(w) \/ Heard(w) \/ WaitOver(w) \/ Pack(w)
  PROVE  Tidy' /\ \A x \in Windows : Straight(view'[x], inbox'[x], Now', Of(pending'), attached')
<1>1. UNCHANGED <<view, out, emitting, given, pending>> /\ Now' = Now
  BY MoveDoes DEF Now
<1>2. Tidy'
  <2>1. move'["main"] \notin {"refused", "asking"}
    <3>1. move["main"] \notin {"refused", "asking"}
      BY DEF InLine, Tidy
    <3>2. w # "main" => move'["main"] = move["main"]
      BY OthersStay, TheWindows
    <3>3. move'[w] \in {"holding", "waiting", "heard", "packed"} \/ move'[w] = move[w]
      BY TypeIs DEF BeginMove, Hold, Heard, WaitOver, Pack, TypeOfRest
    <3> QED BY <3>1, <3>2, <3>3
  <2>2. Pack(w) => payload' = view[w].shown
    BY DEF Pack
  <2>3. Rises(view[w].shown) /\ Below(Of(view[w].shown), Now \cup Of(pending))
    BY DEF InLine, Straight, Risen, InTurn, Below
  <2>4. payload' = payload \/ payload' = view[w].shown
    BY <2>2, MoveDoes
  <2> QED BY <1>1, <2>1, <2>3, <2>4 DEF InLine, Tidy
<1>3. ASSUME NEW x \in Windows
      PROVE  Straight(view'[x], inbox'[x], Now', Of(pending'), attached')
  <2>1. /\ Straight(view[x], inbox[x], Now, Of(pending), attached)
        /\ view[x] \in Views /\ inbox[x] \in Seq(Nat) /\ inbox'[x] \in Seq(Nat)
    BY DEF InLine, Plain
  <2>2. Of(inbox'[x]) = Of(inbox[x]) /\ Risen(view[x], inbox'[x], Now, Of(pending))
    <3>1. CASE inbox'[x] = inbox[x]
      BY <2>1, <3>1 DEF Straight
    <3>2. CASE \/ inbox'[x] = Append(inbox[x], Held)
               \/ inbox[x] # <<>> /\ Head(inbox[x]) = Held /\ inbox'[x] = Tail(inbox[x])
      <4>1. /\ Of(inbox'[x]) = Of(inbox[x])
            /\ Risen(view[x], inbox[x], Now, Of(pending)) => Risen(view[x], inbox'[x], Now, Of(pending))
        BY <2>1, <3>2, HeldReaches
      <4> QED BY <2>1, <4>1 DEF Straight
    <3> QED BY <3>1, <3>2, MoveDoes, OthersStay
  <2>3. CASE Hold(w)
    <3>1. view[x].at \notin {"mounted", "listening"}
      BY <2>3, HoldsAlone DEF Hold
    <3> QED BY <1>1, <2>2, <3>1 DEF Straight
  <2>4. CASE attached' = attached
    BY <1>1, <2>1, <2>2, <2>4 DEF Straight
  <2> QED BY <2>3, <2>4, MoveDoes
<1> QED BY <1>2, <1>3

LEMMA OrderedBySession ==
  ASSUME HandoverTypeOK, InLine, Plain', Flush \/ Emit
  PROVE  Tidy' /\ \A x \in Windows : Straight(view'[x], inbox'[x], Now', Of(pending'), attached')
<1>1. CASE Flush
  <2>1. /\ UNCHANGED <<view, inbox, payload, attached, move>> /\ out' = out + 1 /\ Now = {}
        /\ \/ /\ attached /\ Now' = {out + 1} /\ pending' = pending
           \/ /\ Now' = {} /\ Of(pending') = Of(pending) \cup {out + 1}
              /\ Of(pending) \subseteq 1..out /\ Rises(pending) => Rises(pending')
    BY <1>1, FlushDoes
  <2>2. attached => pending = <<>> /\ Of(pending) = {}
    BY EmptyRow DEF InLine, Bounded
  <2>3. \A y \in 1..out : y < out + 1
    BY DEF InLine, Plain
  <2>4. Tidy'
    <3>1. Rises(pending')
      BY <2>1 DEF InLine, Tidy, Loose
    <3>2. payload # Nothing => Below(Of(payload), {out + 1})
      BY <2>3 DEF InLine, Loose, Below
    <3>3. Now' \cup Of(pending') = Now \cup Of(pending) \cup {out + 1}
      BY <2>1
    <3>4. payload # Nothing => Below(Of(payload), Now' \cup Of(pending'))
      BY <3>2, <3>3 DEF InLine, Tidy, Below
    <3> QED BY <2>1, <3>1, <3>4 DEF InLine, Tidy
  <2>5. ASSUME NEW x \in Windows
        PROVE  Straight(view'[x], inbox'[x], Now', Of(pending'), attached')
    <3>1. /\ Reach(view[x], inbox[x], Now, Of(pending), AskedBack(x)) \subseteq 1..out
          /\ Straight(view[x], inbox[x], Now, Of(pending), attached)
          /\ view[x] \in Views /\ inbox[x] \in Seq(Nat) /\ out \in Nat
      BY DEF InLine, Plain, Alone
    <3>2. /\ Of(pending) = {} => Risen(view[x], inbox[x], {out + 1}, Of(pending))
          /\ Risen(view[x], inbox[x], Now, Of(pending) \cup {out + 1})
      <4>1. Risen(view[x], inbox[x], Now, Of(pending))
        BY <3>1 DEF Straight
      <4> QED BY <2>1, <3>1, <4>1, PrintReaches
    <3> QED BY <2>1, <2>2, <3>1, <3>2 DEF Straight
  <2> QED BY <2>4, <2>5
<1>2. CASE Emit
  <2>1. /\ UNCHANGED <<view, payload, out, pending, move, attached>> /\ emitting \in Nat \ {Held}
        /\ Now = {emitting} /\ Now' = {} /\ emitting # 0
        /\ \A w \in Windows : inbox'[w] = IF Listens(w) THEN Append(inbox[w], emitting) ELSE inbox[w]
    BY <1>2, EmitDoes DEF Held
  <2>2. Tidy'
    BY <2>1 DEF InLine, Tidy, Below
  <2>3. ASSUME NEW x \in Windows
        PROVE  Straight(view'[x], inbox'[x], Now', Of(pending'), attached')
    <3>1. /\ Risen(view[x], inbox[x], {emitting}, Of(pending)) /\ attached
          /\ view[x] \in Views /\ inbox[x] \in Seq(Nat)
      BY <2>1 DEF InLine, Plain, Straight, Bounded
    <3>2. Risen(view[x], Append(inbox[x], emitting), {}, Of(pending))
      BY <2>1, <3>1, EmitReaches
    <3>3. Risen(view[x], inbox[x], {}, Of(pending))
      BY <3>1, LessReaches
    <3> QED BY <2>1, <3>1, <3>2, <3>3 DEF Straight
  <2> QED BY <2>2, <2>3
<1> QED BY <1>1, <1>2

LEMMA StraightOnScreen ==
  ASSUME NEW s \in Seq(Nat), NEW v, NEW u \in Views, NEW i, NEW e, NEW p, NEW a,
         u.shown = s, u.queued = <<>>, u.reply = <<>>, Rises(s),
         Below(Of(s), e \cup p), Risen(v, i, e, p)
  PROVE  Straight(u, <<>>, e, p, a)
<1>1. Rises(s) /\ Below(Of(s), e \cup p) /\ Below(e, p) => Risen(u, <<>>, e, p)
  BY ScreenReaches
<1>2. Below(e, p)
  BY DEF Risen, InTurn
<1> QED BY <1>1, <1>2, EmptyRow DEF Straight

LEMMA OrderedByWindow ==
  ASSUME HandoverTypeOK, InLine, Plain', mishaps' \subseteq {"late", "crashed"},
         \/ WindowOpens \/ WindowRefused \/ AskBack \/ WriteBack \/ SetDetached
         \/ Mount \/ Close \/ Crash \/ TakeBack \/ UNCHANGED hvars
  PROVE  Tidy' /\ \A x \in Windows : Straight(view'[x], inbox'[x], Now', Of(pending'), attached')
<1>1. CASE UNCHANGED hvars
  BY <1>1 DEF hvars, InLine, Tidy, Now
<1>2. CASE WindowOpens
  <2>1. /\ UNCHANGED <<emitting, pending, inbox, view, attached, payload>> /\ move'["main"] = "opened"
    BY <1>2, TypeIs, TheWindows DEF WindowOpens, output, TypeOfRest
  <2> QED BY <2>1 DEF InLine, Tidy, Now
<1>3. ~WindowRefused /\ ~AskBack /\ ~WriteBack
  <2>1. WindowRefused => "refused" \in mishaps'
    BY DEF WindowRefused, Mishap
  <2>2. AskBack \/ WriteBack => move["main"] \in {"refused", "asking"}
    BY DEF AskBack, WriteBack
  <2> QED BY <2>1, <2>2 DEF InLine, Tidy
<1>4. ASSUME NEW w \in Windows, Dispose(w), w = "main" => SetDetached, w = "tab" => Close \/ Crash
      PROVE  Tidy' /\ \A x \in Windows : Straight(view'[x], inbox'[x], Now', Of(pending'), attached')
  <2>1. /\ inbox'[w] = <<>> /\ move'[w] = "still"
        /\ view'[w].shown = <<>> /\ view'[w].queued = <<>> /\ view'[w].reply = <<>>
        /\ \A x \in Windows \ {w} : view'[x] = view[x] /\ inbox'[x] = inbox[x] /\ move'[x] = move[x]
        /\ UNCHANGED <<out, emitting, pending, given, payload, attached>>
    BY <1>4, DisposeDoes DEF InLine
  <2>2. Now' = Now
    BY <2>1 DEF Now
  <2>3. Tidy'
    BY <2>1, <2>2, TheWindows DEF InLine, Tidy
  <2>4. Straight(view'[w], <<>>, Now, Of(pending), attached')
    <3>1. /\ <<>> \in Seq(Nat) /\ view'[w] \in Views /\ Of(<<>>) = {} /\ Rises(<<>>)
          /\ Risen(view[w], inbox[w], Now, Of(pending))
      BY EmptyRow DEF InLine, Straight, Plain
    <3>2. Below(Of(<<>>), Now \cup Of(pending))
      BY <3>1 DEF Below
    <3> QED BY <2>1, <3>1, <3>2, StraightOnScreen
  <2>5. \A x \in Windows : Straight(view'[x], inbox'[x], Now', Of(pending'), attached')
    BY <2>1, <2>2, <2>4 DEF InLine
  <2> QED BY <2>3, <2>5
<1>5. ASSUME NEW w \in Windows, NEW s \in Seq(Nat), view'[w] = Fresh(s), inbox'[w] = <<>>,
             \/ s = <<>>
             \/ payload # Nothing /\ s = payload,
             \A x \in Windows \ {w} : view'[x] = view[x],
             UNCHANGED <<out, emitting, pending, inbox, attached, move>>, payload' = Nothing
      PROVE  Tidy' /\ \A x \in Windows : Straight(view'[x], inbox'[x], Now', Of(pending'), attached')
  <2>1. Now' = Now
    BY <1>5 DEF Now
  <2>2. Tidy'
    BY <1>5, <2>1 DEF InLine, Tidy
  <2>3. Straight(view'[w], <<>>, Now, Of(pending), attached')
    <3>1. view'[w] \in Views /\ Risen(view[w], inbox[w], Now, Of(pending))
      BY DEF InLine, Straight, Plain
    <3>2. view'[w].shown = s /\ view'[w].queued = <<>> /\ view'[w].reply = <<>>
      BY <1>5 DEF Fresh, NoView
    <3>3. Rises(s) /\ Below(Of(s), Now \cup Of(pending))
      BY <1>5, EmptyRow DEF InLine, Tidy, Below
    <3> QED BY <3>1, <3>2, <3>3, StraightOnScreen
  <2>4. \A x \in Windows : Straight(view'[x], inbox'[x], Now', Of(pending'), attached')
    BY <1>5, <2>1, <2>3 DEF InLine
  <2> QED BY <2>2, <2>4
<1>6. CASE Mount
  <2>1. /\ inbox'["tab"] = <<>> /\ view'["tab"] = Fresh(payload) /\ payload # Nothing
        /\ payload' = Nothing /\ view'["main"] = view["main"]
        /\ UNCHANGED <<out, emitting, pending, inbox, attached, move>>
    BY <1>6, MountDoes DEF InLine
  <2>2. payload \in Seq(Nat) /\ \A x \in Windows \ {"tab"} : view'[x] = view[x]
    BY <2>1, TheWindows DEF Plain, InLine
  <2> QED BY <1>5, <2>1, <2>2, TheWindows
<1>7. CASE TakeBack
  <2>1. CASE ~detached
    <3>1. UNCHANGED <<out, emitting, pending, inbox, given, view, payload, attached, move>>
      BY <1>7, <2>1, TakeBackDoes DEF InLine
    <3> QED BY <3>1 DEF InLine, Tidy, Now
  <2>2. CASE detached
    <3>1. /\ UNCHANGED <<out, emitting, pending, inbox, attached, move>> /\ inbox'["main"] = <<>>
          /\ \/ payload # Nothing /\ view'["main"] = Fresh(payload)
             \/ payload = Nothing /\ view'["main"] = Fresh(<<>>)
          /\ payload' = Nothing
          /\ view'["tab"] = view["tab"]
      BY <1>7, <2>2, TakeBackDoes DEF InLine
    <3>2. /\ payload # Nothing => payload \in Seq(Nat)
          /\ <<>> \in Seq(Nat) /\ \A x \in Windows \ {"main"} : view'[x] = view[x]
      BY <3>1, TheWindows DEF Plain, InLine
    <3> QED BY <1>5, <3>1, <3>2, TheWindows
  <2> QED BY <2>1, <2>2
<1>8. CASE SetDetached \/ Close \/ Crash
  BY <1>4, <1>8, TheWindows DEF SetDetached, Close, Crash
<1> QED BY <1>1, <1>2, <1>3, <1>6, <1>7, <1>8

LEMMA OrderedStays ==
  ASSUME HandoverTypeOK, Framed, Single, Quiet, Ordered, [HandoverNext]_hvars
  PROVE  Ordered'
<1>1. SUFFICES ASSUME mishaps' \subseteq {"late", "crashed"}
      PROVE  Tidy' /\ \A x \in Windows : Straight(view'[x], inbox'[x], Now', Of(pending'), attached')
  BY DEF Ordered, Tidy, Straight
<1>2. mishaps \subseteq {"late", "crashed"} /\ Calm
  BY <1>1, MishapsGrow DEF Calm
<1>3. InLine /\ Plain'
  BY <1>2, OrderedIs, SingleIs, PlainTypes DEF InLine, Quiet, Bounded
<1> QED BY <1>1, <1>3, OrderedByTerminal, OrderedByMove, OrderedBySession, OrderedByWindow
        DEF HandoverNext

----------------------------------------------------------------------------
(* Nothing is lost on the way *)

LEMMA HeldRows ==
  ASSUME NEW s \in Seq(Nat)
  PROVE  /\ Bare(<<>>)
         /\ \A x \in Nat \ {Held} : Bare(s) => Bare(Append(s, x))
         /\ Bare(s) => HeldEnds(Append(s, Held))
         /\ s # <<>> /\ Bare(s) => Head(s) # Held /\ Bare(Tail(s))
         /\ s # <<>> /\ HeldEnds(s) => HeldEnds(Tail(s))
         /\ s # <<>> /\ HeldEnds(s) /\ Head(s) = Held => Tail(s) = <<>>
<1>1. Bare(<<>>)
  BY DEF Bare
<1>2. ASSUME NEW x \in Nat \ {Held}, Bare(s) PROVE Bare(Append(s, x))
  <2>1. \A i \in 1..(Len(s) + 1) : Append(s, x)[i] = IF i = Len(s) + 1 THEN x ELSE s[i]
    OBVIOUS
  <2>2. DOMAIN Append(s, x) = 1..(Len(s) + 1) /\ \A i \in 1..(Len(s) + 1) : i # Len(s) + 1 => i \in 1..Len(s)
    OBVIOUS
  <2> QED BY <1>2, <2>1, <2>2 DEF Bare
<1>3. ASSUME Bare(s) PROVE HeldEnds(Append(s, Held))
  <2>1. \A i \in 1..Len(s) : Append(s, Held)[i] = s[i]
    OBVIOUS
  <2>2. /\ DOMAIN Append(s, Held) = 1..(Len(s) + 1) /\ Len(Append(s, Held)) = Len(s) + 1
        /\ \A i \in 1..(Len(s) + 1) : i # Len(s) + 1 => i \in 1..Len(s)
    BY DEF Held
  <2> QED BY <1>3, <2>1, <2>2 DEF Bare, HeldEnds
<1>4. ASSUME s # <<>>
      PROVE  /\ Head(s) = s[1] /\ 1 \in DOMAIN s /\ Tail(s) \in Seq(Nat) /\ Len(Tail(s)) = Len(s) - 1
             /\ \A i \in DOMAIN Tail(s) : i + 1 \in DOMAIN s /\ Tail(s)[i] = s[i + 1]
  BY <1>4, TailRow
<1>5. s # <<>> /\ Bare(s) => Head(s) # Held /\ Bare(Tail(s))
  BY <1>4 DEF Bare
<1>6. ASSUME s # <<>>, HeldEnds(s) PROVE HeldEnds(Tail(s))
  <2>1. \A i \in DOMAIN Tail(s) : i \in Nat /\ (i + 1 = Len(s) => i = Len(Tail(s)))
    BY <1>4, <1>6
  <2> QED BY <1>4, <1>6, <2>1 DEF HeldEnds
<1>7. ASSUME s # <<>>, HeldEnds(s), Head(s) = Held PROVE Tail(s) = <<>>
  <2>1. Len(s) = 1
    BY <1>4, <1>7 DEF HeldEnds
  <2>2. Len(Tail(s)) = 0
    BY <1>4, <1>7, <2>1
  <2> QED BY <1>4, <1>7, <2>2
<1> QED BY <1>1, <1>2, <1>3, <1>5, <1>6, <1>7

\* Before a step, in a state where no more than a refused window went wrong.
Minded ==
    /\ Bounded /\ Plain /\ Framed
    /\ \A w \in Windows : Seen(move[w], inbox[w], attached, payload, view[w].shown)
    /\ OnMain => Heeded("main") /\ Full("main")
    /\ ~OnMain => Heeded("tab") /\ (IF view["tab"].at # "none" THEN Full("tab") ELSE Left)
    /\ \A w \in Windows : Reach(view[w], inbox[w], Now, Of(pending), AskedBack(w)) \subseteq 1..out

Cared ==
    /\ \A w \in Windows : Seen(move[w], inbox[w], attached, payload, view[w].shown)
    /\ OnMain => Heeded("main") /\ Full("main")
    /\ ~OnMain => Heeded("tab") /\ (IF view["tab"].at # "none" THEN Full("tab") ELSE Left)

\* The window the output is for has a terminal, unless none has.
LEMMA WhoIsThere ==
  ASSUME HandoverTypeOK, Minded
  PROVE  /\ OnMain => view["tab"].at = "none" /\ move["tab"] = "still"
         /\ ~OnMain /\ view["tab"].at = "none" => ~attached
         /\ ~OnMain => (view["main"].at = "bound" /\ move["main"] = "opened")
                       \/ (view["main"].at = "none" /\ move["main"] = "still")
         /\ move["main"] # "opened" /\ move["main"] # "still" => OnMain
         /\ move["tab"] # "still" => ~OnMain /\ view["tab"].at = "bound" /\ open
<1>1. open => ~OnMain
  BY DEF Minded, Framed
<1>2. OnMain => view["tab"].at = "none" /\ move["tab"] = "still"
  BY <1>1 DEF Minded, Framed
<1>3. ~OnMain /\ view["tab"].at = "none" => ~attached
  BY DEF Minded, Heeded, Heeds
<1>4. ~OnMain => (view["main"].at = "bound" /\ move["main"] = "opened")
                 \/ (view["main"].at = "none" /\ move["main"] = "still")
  BY TheWindows DEF Minded, Framed, OnMain, Bounded
<1>5. move["main"] # "opened" /\ move["main"] # "still" => OnMain
  BY DEF Minded, Framed, OnMain
<1>6. move["tab"] # "still" => ~OnMain /\ view["tab"].at = "bound" /\ open
  BY <1>1, TheWindows DEF Minded, Framed, Bounded
<1> QED BY <1>2, <1>3, <1>4, <1>5, <1>6

LEMMA KeptBySession ==
  ASSUME HandoverTypeOK, Minded, Plain', Flush \/ Emit
  PROVE  Cared'
<1>1. /\ UNCHANGED <<view, given, payload, attached, move, detached>> /\ OnMain' = OnMain
      /\ \A x \in Windows : AskedBack(x)' = AskedBack(x)
  BY FlushDoes, EmitDoes DEF OnMain, AskedBack
<1>2. CASE Flush
  <2>1. /\ inbox' = inbox /\ out' = out + 1 /\ Now = {}
        /\ attached => Now' = {out + 1} /\ pending' = pending
        /\ ~attached => Now' = {} /\ Of(pending') = Of(pending) \cup {out + 1}
    BY <1>2, FlushDoes
  <2>2. 1..(out + 1) = 1..out \cup {out + 1} /\ out \in Nat
    BY DEF Minded, Plain
  <2>3. ASSUME NEW x \in Windows, Full(x) PROVE Full(x)'
    <3>1. view[x] \in Views /\ inbox[x] \in Seq(Nat)
          /\ Reach(view[x], inbox[x], Now, Of(pending), AskedBack(x)) \subseteq 1..out
      BY DEF Minded, Plain
    <3>2. /\ Reach(view[x], inbox[x], Now, Of(pending) \cup {out + 1}, AskedBack(x))
               = Reach(view[x], inbox[x], Now, Of(pending), AskedBack(x)) \cup {out + 1}
          /\ Reach(view[x], inbox[x], {out + 1}, Of(pending), AskedBack(x))
               = Reach(view[x], inbox[x], Now, Of(pending), AskedBack(x)) \cup {out + 1}
      BY <2>1 DEF Reach
    <3> QED BY <1>1, <2>1, <2>2, <2>3, <3>2 DEF Full
  <2>4. Left /\ ~attached => Left'
    BY <1>1, <2>1, <2>2 DEF Left
  <2> QED BY <1>1, <2>1, <2>3, <2>4, WhoIsThere, TheWindows DEF Minded, Cared, Heeded
<1>3. CASE Emit
  <2>1. /\ UNCHANGED <<out, pending>> /\ emitting \in Nat \ {Held} /\ attached
        /\ Now = {emitting} /\ Now' = {}
        /\ \A w \in Windows : inbox'[w] = IF Listens(w) THEN Append(inbox[w], emitting) ELSE inbox[w]
    BY <1>3, EmitDoes DEF Minded, Bounded, Held
  <2>2. ASSUME NEW x \in Windows PROVE Seen(move'[x], inbox'[x], attached', payload', view'[x].shown)
    <3>1. Seen(move[x], inbox[x], attached, payload, view[x].shown) /\ inbox[x] \in Seq(Nat)
      BY DEF Minded, Plain
    <3>2. Bare(inbox[x]) => Bare(inbox'[x])
      BY <2>1, <3>1, HeldRows
    <3> QED BY <1>1, <2>1, <3>1, <3>2 DEF Seen
  <2>3. ASSUME NEW x \in Windows, Full(x), view[x].at \in {"asked", "bound"} PROVE Full(x)'
    <3>1. inbox'[x] = Append(inbox[x], emitting)
      BY <2>1, <2>3 DEF Listens
    <3>2. view[x] \in Views /\ inbox[x] \in Seq(Nat)
      BY DEF Minded, Plain
    <3>3. /\ Reach(view[x], Append(inbox[x], emitting), {}, Of(pending), AskedBack(x))
               = Reach(view[x], inbox[x], {emitting}, Of(pending), AskedBack(x))
          /\ Lined(view[x], inbox[x], {emitting}, Of(pending), AskedBack(x))
               => Lined(view[x], Append(inbox[x], emitting), {}, Of(pending), AskedBack(x))
          /\ Risen(view[x], inbox[x], {emitting}, Of(pending))
               => Risen(view[x], Append(inbox[x], emitting), {}, Of(pending))
      BY <2>1, <3>2, EmitReaches
    <3> QED BY <1>1, <2>1, <2>3, <3>1, <3>3 DEF Full
  <2>4. /\ OnMain => view["main"].at \in {"asked", "bound"}
        /\ ~OnMain => view["tab"].at \in {"asked", "bound"}
    BY <2>1 DEF Minded, Heeded, Heeds
  <2> QED BY <1>1, <2>2, <2>3, <2>4, TheWindows DEF Minded, Cared, Heeded
<1> QED BY <1>2, <1>3

\* A terminal on its way to being bound is the one the output is for.
LEMMA KeptByTerminal ==
  ASSUME HandoverTypeOK, Minded, Plain', NEW w \in Windows,
         Listen(w) \/ Attach(w) \/ Replay(w) \/ Output(w)
  PROVE  Cared'
<1>1. /\ UNCHANGED <<out, emitting, given, payload, move, detached>> /\ Now' = Now
      /\ OnMain' = OnMain /\ \A x \in Windows : AskedBack(x)' = AskedBack(x)
      /\ \A x \in Windows \ {w} : view'[x] = view[x] /\ inbox'[x] = inbox[x]
  <2>1. UNCHANGED <<out, emitting, given, payload, move, detached>>
    BY ListenDoes, AttachDoes, ReplayDoes, OutputDoes
  <2>2. Now' = Now /\ OnMain' = OnMain /\ \A x \in Windows : AskedBack(x)' = AskedBack(x)
    BY <2>1 DEF OnMain, Now, AskedBack
  <2> QED BY <2>1, <2>2, OthersStay
<1>2. /\ (view'[w].at = "none") = (view[w].at = "none")
      /\ view[w].at # "none"
  <2>1. Output(w) => inbox[w] # <<>> /\ view'[w].at = view[w].at
    BY OutputDoes
  <2>2. view[w].at = "none" => inbox[w] = <<>>
    BY DEF Minded, Framed
  <2> QED BY <2>1, <2>2, ListenDoes, AttachDoes, ReplayDoes
<1>3. \/ w = "main" /\ OnMain
      \/ w = "tab" /\ ~OnMain
      \/ w = "main" /\ ~OnMain /\ view["main"].at = "bound" /\ move["main"] = "opened"
  BY <1>2, WhoIsThere, TheWindows
<1>4. CASE Attach(w)
  <2>1. /\ view'[w].shown = view[w].shown /\ view'[w].reply = pending
        /\ view'[w].queued = view[w].queued /\ inbox' = inbox /\ Of(pending') = {}
        /\ view[w].at = "listening" /\ view'[w].at = "asked" /\ attached'
    BY <1>4, AttachDoes
  <2>2. view[w].reply = <<>>
    BY <2>1 DEF Minded, Framed
  <2>3. Full(w) => Full(w)'
    <3>1. Reach(view'[w], inbox[w], Now, {}, AskedBack(w))
            = Reach(view[w], inbox[w], Now, Of(pending), AskedBack(w))
      BY <2>1, <2>2, EmptyRow DEF Reach
    <3> QED BY <1>1, <2>1, <3>1 DEF Full
  <2>4. /\ (w = "main" /\ OnMain) \/ (w = "tab" /\ ~OnMain)
        /\ \A x \in Windows : move[x] \in {"still", "opened"}
    <3>1. (w = "main" /\ OnMain) \/ (w = "tab" /\ ~OnMain)
      BY <1>3, <2>1
    <3>2. move[w] = "still"
      BY <2>1 DEF Minded, Bounded
    <3>3. ASSUME NEW x \in Windows \ {w} PROVE move[x] \in {"still", "opened"}
      BY <3>1, WhoIsThere, TheWindows
    <3> QED BY <3>1, <3>2, <3>3
  <2>5. ASSUME NEW x \in Windows PROVE Seen(move'[x], inbox'[x], attached', payload', view'[x].shown)
    BY <1>1, <2>1, <2>4 DEF Minded, Seen
  <2>6. Heeded(w)'
    BY <2>1 DEF Heeded, Heeds
  <2> QED BY <1>1, <1>2, <2>3, <2>4, <2>5, <2>6, TheWindows DEF Minded, Cared
<1>5. CASE ~Attach(w)
  <2>1. pending' = pending /\ attached' = attached
    BY <1>5, ListenDoes, ReplayDoes, OutputDoes
  <2>2. (view'[w].at \in {"asked", "bound"}) <=> (view[w].at \in {"asked", "bound"})
    <3>1. Listen(w) => view[w].at = "mounted" /\ view'[w].at = "listening"
      BY ListenDoes
    <3>2. Replay(w) => view[w].at = "asked" /\ view'[w].at = "bound"
      BY ReplayDoes
    <3>3. Output(w) => view'[w].at = view[w].at
      BY OutputDoes
    <3> QED BY <1>5, <3>1, <3>2, <3>3
  <2>3. view[w] \in Views /\ view'[w] \in Views /\ inbox[w] \in Seq(Nat)
    BY DEF Minded, Plain
  <2>4. Reach(view'[w], inbox'[w], Now, Of(pending), AskedBack(w))
          = Reach(view[w], inbox[w], Now, Of(pending), AskedBack(w))
    <3>1. CASE Listen(w)
      <4>1. /\ view'[w].shown = view[w].shown /\ view'[w].reply = view[w].reply
            /\ view'[w].queued = view[w].queued /\ inbox' = inbox
        BY <3>1, ListenDoes
      <4> QED BY <4>1 DEF Reach
    <3>2. CASE Replay(w)
      <4>1. /\ view'[w].shown = view[w].shown \o view[w].reply \o view[w].queued
            /\ view'[w].reply = <<>> /\ view'[w].queued = <<>> /\ inbox' = inbox
        BY <3>2, ReplayDoes
      <4>2. /\ Reach(view'[w], inbox[w], Now, Of(pending), AskedBack(w))
                 = Reach(view[w], inbox[w], Now, Of(pending), AskedBack(w))
            /\ Lined(view[w], inbox[w], Now, Of(pending), AskedBack(w))
                 => Lined(view'[w], inbox[w], Now, Of(pending), AskedBack(w))
            /\ Risen(view[w], inbox[w], Now, Of(pending)) => Risen(view'[w], inbox[w], Now, Of(pending))
        BY <2>3, <4>1, ReplayReaches
      <4> QED BY <4>1, <4>2
    <3>3. CASE Output(w)
      <4>1. /\ inbox[w] # <<>> /\ Head(inbox[w]) # Held /\ inbox'[w] = Tail(inbox[w])
            /\ view'[w].reply = view[w].reply
            /\ view[w].at = "bound" => /\ view'[w].shown = Append(view[w].shown, Head(inbox[w]))
                                       /\ view'[w].queued = view[w].queued
            /\ view[w].at # "bound" => /\ view'[w].queued = Append(view[w].queued, Head(inbox[w]))
                                       /\ view'[w].shown = view[w].shown
        BY <3>3, OutputDoes
      <4>2. view[w].at = "bound" => Of(view[w].reply) = {} /\ Of(view[w].queued) = {}
        BY EmptyRow DEF Minded, Framed
      <4>3. /\ Reach(view'[w], Tail(inbox[w]), Now, Of(pending), AskedBack(w))
                 = Reach(view[w], inbox[w], Now, Of(pending), AskedBack(w))
            /\ Lined(view[w], inbox[w], Now, Of(pending), AskedBack(w))
                 => Lined(view'[w], Tail(inbox[w]), Now, Of(pending), AskedBack(w))
            /\ Risen(view[w], inbox[w], Now, Of(pending))
                 => Risen(view'[w], Tail(inbox[w]), Now, Of(pending))
        BY <2>3, <4>1, <4>2, OutputReaches
      <4> QED BY <4>1, <4>3
    <3> QED BY <1>5, <3>1, <3>2, <3>3
  <2>5. \A x \in Windows : Full(x) => Full(x)'
    BY <1>1, <2>1, <2>4 DEF Full
  <2>6. \A x \in Windows : Heeded(x) => Heeded(x)'
    BY <1>1, <2>1, <2>2 DEF Heeded, Heeds
  <2>7. Seen(move'[w], inbox'[w], attached', payload', view'[w].shown)
    <3>1. Seen(move[w], inbox[w], attached, payload, view[w].shown)
      BY DEF Minded
    <3>2. CASE Listen(w)
      BY <1>1, <2>1, <3>1, <3>2, ListenDoes
    <3>3. CASE Replay(w)
      <4>1. view[w].at = "asked" /\ inbox' = inbox
        BY <3>3, ReplayDoes
      <4>2. move[w] = "still"
        BY <4>1 DEF Minded, Bounded
      <4> QED BY <1>1, <2>1, <3>1, <4>1, <4>2 DEF Seen
    <3>4. CASE Output(w)
      <4>1. inbox[w] # <<>> /\ inbox'[w] = Tail(inbox[w])
        BY <3>4, OutputDoes
      <4>2. /\ Bare(inbox[w]) => Bare(Tail(inbox[w]))
            /\ HeldEnds(inbox[w]) => HeldEnds(Tail(inbox[w]))
        BY <2>3, <4>1, HeldRows
      <4> QED BY <1>1, <2>1, <3>1, <4>1, <4>2 DEF Seen
    <3> QED BY <1>5, <3>2, <3>3, <3>4
  <2>8. \A x \in Windows : Seen(move'[x], inbox'[x], attached', payload', view'[x].shown)
    BY <1>1, <2>1, <2>7 DEF Minded
  <2>9. /\ OnMain => Heeded("main")' /\ Full("main")'
        /\ ~OnMain => Heeded("tab")' /\ (view["tab"].at # "none" => Full("tab")')
    BY <2>5, <2>6, TheWindows DEF Minded
  <2>10. (view'["tab"].at = "none") = (view["tab"].at = "none") /\ (Left => Left')
    BY <1>1, <1>2, <2>1, TheWindows DEF Left
  <2> QED BY <1>1, <2>8, <2>9, <2>10 DEF Minded, Cared
<1> QED BY <1>4, <1>5

LEMMA KeptByMove ==
  ASSUME HandoverTypeOK, Minded, Plain', mishaps' \subseteq {"refused"}, NEW w \in Windows,
         BeginMove(w) \/ Hold(w) \/ Heard(w) \/ WaitOver(w) \/ Pack(w)
  PROVE  Cared'
<1>1. /\ UNCHANGED <<view, out, emitting, pending, given, detached>> /\ Now' = Now
      /\ \A x \in Windows : AskedBack(x)' = AskedBack(x)
      /\ \A x \in Windows \ {w} : inbox'[x] = inbox[x] /\ move'[x] = move[x]
  BY MoveDoes, OthersStay DEF Now, AskedBack
<1>2. OnMain' = OnMain
  <2>1. (move'["main"] = "opened") = (move["main"] = "opened")
    BY <1>1, TypeIs, TheWindows
       DEF BeginMove, Hold, Heard, WaitOver, Pack, TypeOfRest
  <2> QED BY <1>1, <2>1 DEF OnMain
<1>3. \A x \in Windows : Full(x) => Full(x)'
  <2>1. \A x \in Windows : Of(inbox'[x]) = Of(inbox[x])
    <3>1. ASSUME NEW x \in Windows PROVE Of(inbox'[x]) = Of(inbox[x])
      <4>1. \/ inbox'[x] = inbox[x]
            \/ inbox'[x] = Append(inbox[x], Held)
            \/ inbox[x] # <<>> /\ Head(inbox[x]) = Held /\ inbox'[x] = Tail(inbox[x])
        BY MoveDoes, OthersStay
      <4>2. inbox[x] \in Seq(Nat)
        BY DEF Minded, Plain
      <4>3. CASE inbox'[x] = Append(inbox[x], Held)
        <5>1. Of(Append(inbox[x], Held)) = Of(inbox[x]) \cup ({Held} \ {Held})
          BY <4>2, AppendRow DEF Held
        <5> QED BY <4>3, <5>1
      <4>4. CASE inbox[x] # <<>> /\ Head(inbox[x]) = Held /\ inbox'[x] = Tail(inbox[x])
        <5>1. Of(inbox[x]) = Of(Tail(inbox[x])) \cup ({Head(inbox[x])} \ {Held})
          BY <4>2, <4>4, TailRow
        <5> QED BY <4>4, <5>1
      <4> QED BY <4>1, <4>3, <4>4
    <3> QED BY <3>1
  <2> QED BY <1>1, <2>1 DEF Full, Reach
<1>4. Left /\ ~OnMain /\ view["tab"].at = "none" => Left'
  <2>1. ASSUME ~OnMain, view["tab"].at = "none", Pack(w) PROVE FALSE
    <3>1. move[w] = "heard"
      BY <2>1 DEF Pack
    <3> QED BY <2>1, <3>1, WhoIsThere, TheWindows
  <2>2. Pack(w) \/ payload' = payload
    BY MoveDoes
  <2> QED BY <1>1, <2>1, <2>2 DEF Left
<1>5. ~WaitOver(w)
  BY DEF WaitOver, Mishap
<1>6. Seen(move[w], inbox[w], attached, payload, view[w].shown) /\ inbox[w] \in Seq(Nat)
  BY DEF Minded, Plain
<1>7. CASE BeginMove(w)
  <2>1. /\ view[w].at = "bound" /\ move[w] = "still" /\ move'[w] = "holding"
        /\ UNCHANGED <<inbox, attached, payload>>
    BY <1>7, TypeIs DEF BeginMove, Unless, Mishap, output, TypeOfRest
  <2>2. \A x \in Windows : Seen(move'[x], inbox'[x], attached', payload', view'[x].shown)
    BY <1>1, <1>6, <2>1 DEF Minded, Seen
  <2>3. \A x \in Windows : Heeded(x) => Heeded(x)'
    BY <1>1, <2>1 DEF Heeded, Heeds
  <2> QED BY <1>1, <1>2, <1>3, <1>4, <2>2, <2>3, TheWindows DEF Minded, Cared
<1>8. CASE Hold(w)
  <2>1. /\ move[w] = "holding" /\ move'[w] = "waiting" /\ ~attached' /\ payload' = payload
        /\ inbox'[w] = Append(inbox[w], Held)
    BY <1>8, TypeIs DEF Hold, TypeOfRest, windows
  <2>2. HeldEnds(inbox'[w])
    BY <1>6, <2>1, HeldRows DEF Seen
  <2>3. ASSUME NEW x \in Windows PROVE Seen(move'[x], inbox'[x], attached', payload', view'[x].shown)
    <3>1. CASE x = w
      BY <2>1, <2>2, <3>1 DEF Seen
    <3>2. CASE x # w
      BY <1>1, <2>1, <3>2 DEF Minded, Seen
    <3> QED BY <3>1, <3>2
  <2>4. (OnMain => w = "main") /\ (~OnMain => w = "tab")
    BY <2>1, WhoIsThere, TheWindows
  <2>5. Heeded(w)'
    BY <2>1 DEF Heeded, Heeds
  <2> QED BY <1>1, <1>2, <1>3, <1>4, <2>3, <2>4, <2>5, TheWindows DEF Minded, Cared
<1>9. CASE Heard(w)
  <2>1. /\ inbox[w] # <<>> /\ Head(inbox[w]) = Held /\ inbox'[w] = Tail(inbox[w])
        /\ move'[w] = IF move[w] = "waiting" THEN "heard" ELSE move[w]
        /\ UNCHANGED <<attached, payload>>
    BY <1>9, TypeIs DEF Heard, TypeOfRest, output, windows
  <2>2. ~Bare(inbox[w]) /\ (HeldEnds(inbox[w]) => Tail(inbox[w]) = <<>>)
    BY <1>6, <2>1, HeldRows
  <2>3. Seen(move'[w], inbox'[w], attached', payload', view'[w].shown)
    BY <1>1, <1>6, <2>1, <2>2 DEF Seen
  <2>4. \A x \in Windows : Seen(move'[x], inbox'[x], attached', payload', view'[x].shown)
    BY <1>1, <2>1, <2>3 DEF Minded
  <2>5. \A x \in Windows : Heeded(x) => Heeded(x)'
    BY <1>1, <2>1 DEF Heeded, Heeds
  <2> QED BY <1>1, <1>2, <1>3, <1>4, <2>4, <2>5, TheWindows DEF Minded, Cared
<1>10. CASE Pack(w)
  <2>1. /\ move[w] = "heard" /\ move'[w] = "packed" /\ payload' = view[w].shown
        /\ UNCHANGED <<inbox, attached>>
    BY <1>10, TypeIs DEF Pack, TypeOfRest, output
  <2>2. \A x \in Windows \ {w} : move[x] # "packed"
    BY <2>1, WhoIsThere, TheWindows
  <2>3. ASSUME NEW x \in Windows PROVE Seen(move'[x], inbox'[x], attached', payload', view'[x].shown)
    <3>1. CASE x = w
      BY <1>1, <1>6, <2>1, <3>1 DEF Seen
    <3>2. CASE x # w
      BY <1>1, <2>1, <2>2, <3>2 DEF Minded, Seen
    <3> QED BY <3>1, <3>2
  <2>4. \A x \in Windows : Heeded(x) => Heeded(x)'
    BY <1>1, <2>1 DEF Heeded, Heeds
  <2> QED BY <1>1, <1>2, <1>3, <1>4, <2>3, <2>4, TheWindows DEF Minded, Cared
<1> QED BY <1>5, <1>7, <1>8, <1>9, <1>10

\* What is left of a terminal that was packed, and of its events.
LEMMA PackedIsFull ==
  ASSUME HandoverTypeOK, Minded, NEW w \in Windows, move[w] = "packed", Full(w)
  PROVE  Left /\ ~attached /\ inbox[w] = <<>>
<1>1. Seen(move[w], inbox[w], attached, payload, view[w].shown)
  BY DEF Minded
<1>2. ~attached /\ payload = view[w].shown /\ inbox[w] = <<>> /\ Of(inbox[w]) = {}
  BY <1>1, EmptyRow DEF Seen
<1>3. view[w].at = "bound" /\ Now = {}
  BY <1>2 DEF Minded, Bounded, Now, Held
<1>4. view[w].reply = <<>> /\ Of(view[w].queued) = {}
  BY <1>3 DEF Minded, Framed
<1>5. AskedBack(w) = {}
  <2>1. given = <<>> \/ w # "main"
    BY DEF Minded, Framed
  <2> QED BY <2>1, EmptyRow DEF AskedBack
<1>6. Reach(view[w], inbox[w], Now, Of(pending), AskedBack(w)) = Of(payload) \cup Of(pending)
  BY <1>2, <1>3, <1>4, <1>5, EmptyRow DEF Reach
<1>7. payload # Nothing
  BY <1>2, TypeIs, RowsAre DEF Shapes
<1> QED BY <1>2, <1>6, <1>7 DEF Full, Left

LEMMA KeptByOpening ==
  ASSUME HandoverTypeOK, Minded, Plain', WindowOpens \/ WindowRefused \/ AskBack \/ WriteBack
  PROVE  Cared'
<1>1. /\ OnMain /\ move["main"] \in {"packed", "refused", "asking"}
      /\ view["main"].at = "bound" /\ view["tab"].at = "none" /\ move["tab"] = "still"
      /\ Heeded("main") /\ Full("main") /\ "main" \in Windows /\ "tab" \in Windows
  <2>1. move["main"] \in {"packed", "refused", "asking"} /\ "main" \in Windows /\ "tab" \in Windows
    BY TheWindows DEF WindowOpens, WindowRefused, AskBack, WriteBack
  <2>2. OnMain /\ view["main"].at = "bound"
    BY <2>1, WhoIsThere DEF Minded, Bounded
  <2> QED BY <2>1, <2>2, WhoIsThere DEF Minded
<1>2. \A x \in Windows : Seen(move[x], inbox[x], attached, payload, view[x].shown)
  BY DEF Minded
<1>3. CASE WindowOpens \/ WindowRefused
  <2>1. /\ UNCHANGED <<out, emitting, attached, pending, inbox, view, given, detached>>
        /\ move["main"] = "packed" /\ move'["tab"] = "still"
        /\ WindowOpens => move'["main"] = "opened" /\ payload' = payload
        /\ WindowRefused => move'["main"] = "refused"
    BY <1>1, <1>3, WindowDoes, TypeIs DEF WindowOpens, WindowRefused, TypeOfRest
  <2>2. Left /\ ~attached /\ inbox["main"] = <<>>
    BY <1>1, <2>1, PackedIsFull
  <2>3. \A x \in Windows : Seen(move'[x], inbox'[x], attached', payload', view'[x].shown)
    BY <1>1, <1>2, <1>3, <2>1, <2>2, TheWindows DEF Seen
  <2>4. /\ WindowOpens => ~OnMain' /\ Left'
        /\ WindowRefused => OnMain'
    BY <1>1, <2>1, <2>2 DEF OnMain, Left
  <2>5. Full("main")' /\ Heeded("main")' /\ Heeded("tab")'
    <3>1. Full("main")'
      BY <1>1, <2>1 DEF Full, Now, AskedBack
    <3>2. Heeded("main")' /\ Heeded("tab")'
      BY <1>1, <1>3, <2>1, <2>2 DEF Heeded, Heeds
    <3> QED BY <3>1, <3>2
  <2> QED BY <1>1, <1>3, <2>1, <2>3, <2>4, <2>5 DEF Cared
<1>4. CASE AskBack
  <2>1. /\ UNCHANGED <<out, emitting, inbox, view, payload, detached>>
        /\ move["main"] = "refused" /\ move'["main"] = "asking" /\ move'["tab"] = "still"
        /\ attached' /\ Of(pending') = {} /\ AskedBack("main") = {} /\ AskedBack("main")' = Of(pending)
    BY <1>1, <1>4, AskBackDoes DEF Minded
  <2>2. inbox["main"] = <<>> /\ Bare(<<>>) /\ Bare(inbox["tab"])
    BY <1>1, <1>2, <2>1 DEF Seen, Bare
  <2>3. \A x \in Windows : Seen(move'[x], inbox'[x], attached', payload', view'[x].shown)
    BY <1>1, <1>2, <2>1, <2>2, TheWindows DEF Seen
  <2>4. OnMain'
    BY <1>1, <2>1 DEF OnMain
  <2>5. Full("main")'
    <3>1. Reach(view["main"], inbox["main"], Now, {}, Of(pending))
            = Reach(view["main"], inbox["main"], Now, Of(pending), {})
      BY DEF Reach
    <3>2. Now' = Now
      BY <2>1 DEF Now
    <3> QED BY <1>1, <2>1, <3>1, <3>2 DEF Full
  <2>6. Heeded("main")'
    BY <1>1, <2>1 DEF Heeded, Heeds
  <2> QED BY <2>3, <2>4, <2>5, <2>6 DEF Cared
<1>5. CASE WriteBack
  <2>1. /\ UNCHANGED <<out, emitting, attached, pending, inbox, payload, detached>>
        /\ view'["main"].at = view["main"].at
        /\ view'["main"].shown = view["main"].shown \o given
        /\ view'["main"].queued = view["main"].queued
        /\ view'["main"].reply = view["main"].reply
        /\ view'["tab"] = view["tab"] /\ move'["tab"] = "still"
        /\ move["main"] = "asking" /\ move'["main"] = "still"
        /\ AskedBack("main") = Of(given) /\ AskedBack("main")' = {}
    BY <1>1, <1>5, WriteBackDoes
  <2>2. \A x \in Windows : Seen(move'[x], inbox'[x], attached', payload', view'[x].shown)
    BY <1>1, <1>2, <2>1, TheWindows DEF Seen
  <2>3. OnMain'
    BY <1>1, <2>1 DEF OnMain
  <2>4. Full("main")'
    <3>1. /\ view["main"] \in Views /\ view'["main"] \in Views
          /\ given \in Seq(Nat) /\ inbox["main"] \in Seq(Nat)
      BY <1>1 DEF Minded, Plain
    <3>2. Reach(view'["main"], inbox["main"], Now, Of(pending), {})
            = Reach(view["main"], inbox["main"], Now, Of(pending), Of(given))
      <4>1. view["main"].shown \in Seq(Nat)
        BY <3>1 DEF Views
      <4>2. Of(view["main"].shown \o given) = Of(view["main"].shown) \cup Of(given)
        BY <3>1, <4>1, JoinRow
      <4> QED BY <2>1, <4>2 DEF Reach
    <3>3. Now' = Now
      BY <2>1 DEF Now
    <3> QED BY <1>1, <2>1, <3>2, <3>3 DEF Full
  <2>5. Heeded("main")'
    BY <1>1, <2>1 DEF Heeded, Heeds
  <2> QED BY <2>2, <2>3, <2>4, <2>5 DEF Cared
<1> QED BY <1>3, <1>4, <1>5

LEMMA KeptByClosing ==
  ASSUME HandoverTypeOK, Minded, Plain', SetDetached \/ Close
  PROVE  Cared'
<1>1. PICK w \in Windows : /\ Dispose(w)
                           /\ (w = "main" /\ SetDetached) \/ (w = "tab" /\ Close)
  BY TheWindows DEF SetDetached, Close
<1>2. /\ view'[w] = NoView /\ inbox'[w] = <<>> /\ move'[w] = "still" /\ view'[w].at = "none"
      /\ \A x \in Windows \ {w} : view'[x] = view[x] /\ inbox'[x] = inbox[x] /\ move'[x] = move[x]
      /\ UNCHANGED <<out, emitting, attached, pending, given, payload>>
  BY <1>1, DisposeDoes DEF Minded
<1>3. Now' = Now /\ \A x \in Windows : AskedBack(x)' = AskedBack(x)
  BY <1>2 DEF Now, AskedBack
<1>4. \A x \in Windows : Seen(move'[x], inbox'[x], attached', payload', view'[x].shown)
  BY <1>2 DEF Minded, Seen, Bare
<1>5. CASE w = "main" /\ SetDetached
  <2>1. move["main"] = "opened" /\ detached'
    BY <1>5 DEF SetDetached
  <2>2. ~OnMain /\ ~OnMain'
    BY <2>1 DEF OnMain
  <2>3. view'["tab"] = view["tab"] /\ inbox'["tab"] = inbox["tab"] /\ move'["tab"] = move["tab"]
    BY <1>2, <1>5, TheWindows
  <2>4. Heeded("tab")' /\ (view["tab"].at # "none" => Full("tab")') /\ (Left => Left')
    BY <1>2, <1>3, <2>2, <2>3, TheWindows DEF Minded, Heeded, Full, Left
  <2> QED BY <1>4, <2>2, <2>3, <2>4 DEF Minded, Cared
<1>6. CASE w = "tab" /\ Close
  <2>1. /\ move["tab"] = "packed" /\ open /\ detached' = detached /\ move'["main"] = move["main"]
    BY <1>2, <1>6, TheWindows DEF Close
  <2>2. ~OnMain /\ ~OnMain'
    BY <2>1 DEF OnMain, Minded, Framed
  <2>3. view["tab"].at = "bound"
    BY <2>1, WhoIsThere
  <2>4. Left /\ ~attached
    BY <2>1, <2>2, <2>3, TheWindows, PackedIsFull DEF Minded
  <2>5. Left' /\ Heeded("tab")'
    BY <1>2, <1>6, <2>4 DEF Left, Heeded, Heeds
  <2> QED BY <1>2, <1>4, <1>6, <2>2, <2>5 DEF Cared
<1> QED BY <1>1, <1>5, <1>6

LEMMA KeptByMounting ==
  ASSUME HandoverTypeOK, Minded, Plain', Mount \/ TakeBack \/ UNCHANGED hvars
  PROVE  Cared'
<1>1. CASE UNCHANGED hvars
  BY <1>1 DEF hvars, Minded, Cared, OnMain, Heeded, Full, Left, Now, AskedBack
<1>2. \A x \in Windows : Seen(move[x], inbox[x], attached, payload, view[x].shown)
  BY DEF Minded
<1>3. CASE Mount
  <2>1. /\ view["tab"].at = "none" /\ inbox'["tab"] = <<>> /\ inbox["tab"] = <<>>
        /\ view'["tab"] = Fresh(payload) /\ payload # Nothing /\ payload' = Nothing
        /\ view'["main"] = view["main"] /\ AskedBack("tab") = {}
        /\ UNCHANGED <<out, emitting, attached, pending, inbox, given, move, open, gone, detached>>
    BY <1>3, MountDoes DEF Minded
  <2>2. open /\ move["tab"] = "still"
    BY <1>3 DEF Mount
  <2>3. ~OnMain /\ ~OnMain' /\ Now' = Now /\ AskedBack("tab")' = {}
    BY <2>1, <2>2 DEF Minded, Framed, OnMain, Now, AskedBack
  <2>4. ~attached /\ Left /\ move["main"] \in {"still", "opened"}
    BY <2>1, <2>3, WhoIsThere DEF Minded
  <2>5. \A x \in Windows : Seen(move'[x], inbox'[x], attached', payload', view'[x].shown)
    BY <1>2, <2>1, <2>2, <2>4, TheWindows DEF Seen
  <2>6. view'["tab"].at = "mounted" /\ view'["tab"].shown = payload
    BY <2>1, PlainViews
  <2>7. Heeded("tab")'
    BY <2>1, <2>4, <2>6 DEF Heeded, Heeds
  <2>8. Full("tab")'
    BY <2>1, <2>3, <2>4, <2>6 DEF Full, Reach, Left
  <2> QED BY <2>3, <2>5, <2>6, <2>7, <2>8 DEF Cared
<1>4. CASE TakeBack
  <2>1. /\ UNCHANGED <<out, emitting, attached, pending, inbox, given, move, open>> /\ gone
        /\ Now' = Now
    BY <1>4, TakeBackDoes DEF Minded, Now
  <2>2. /\ ~OnMain /\ ~open /\ view["tab"].at = "none" /\ move["tab"] = "still"
        /\ ~attached /\ Left /\ move["main"] \in {"still", "opened"}
    BY <2>1, WhoIsThere DEF Minded, Framed
  <2>3. CASE ~detached
    <3>1. UNCHANGED <<view, payload, detached>>
      BY <1>4, <2>3, TakeBackDoes DEF Minded
    <3>2. Cared
      BY DEF Minded, Cared
    <3>3. \A x \in Windows : Seen(move'[x], inbox'[x], attached', payload', view'[x].shown)
      BY <1>2, <2>1, <3>1
    <3>4. ~OnMain' /\ Left'
      BY <2>1, <2>2, <3>1 DEF OnMain, Left
    <3>5. Heeded("tab")' /\ view'["tab"].at = "none"
      BY <2>1, <2>2, <3>1 DEF Heeded, Heeds
    <3> QED BY <3>3, <3>4, <3>5 DEF Cared
  <2>4. CASE detached
    <3>1. /\ inbox'["main"] = <<>> /\ ~detached' /\ payload' = Nothing
          /\ view'["main"] = Fresh(payload)
          /\ view'["tab"] = view["tab"] /\ AskedBack("main") = {}
      BY <1>4, <2>2, <2>4, TakeBackDoes DEF Minded, Left
    <3>2. move["main"] = "still" /\ OnMain'
      BY <2>1, <2>4, <3>1 DEF Minded, Framed, OnMain
    <3>3. \A x \in Windows : Seen(move'[x], inbox'[x], attached', payload', view'[x].shown)
      BY <1>2, <2>1, <2>2, <3>1, <3>2, TheWindows DEF Seen
    <3>4. view'["main"].at = "mounted" /\ view'["main"].shown = payload
      BY <3>1, PlainViews
    <3>5. Heeded("main")'
      BY <2>1, <2>2, <3>4 DEF Heeded, Heeds
    <3>6. AskedBack("main")' = {}
      BY <2>1, <3>1 DEF AskedBack
    <3>7. Full("main")'
      BY <2>1, <2>2, <3>1, <3>4, <3>6 DEF Full, Reach, Left
    <3> QED BY <3>2, <3>3, <3>5, <3>7 DEF Cared
  <2> QED BY <2>3, <2>4
<1> QED BY <1>1, <1>3, <1>4

LEMMA KeptStarts == HandoverInit => Kept
<1> SUFFICES ASSUME HandoverInit PROVE Kept
  OBVIOUS
<1>1. \A w \in Windows : Seen(move[w], inbox[w], attached, payload, view[w].shown)
  BY DEF HandoverInit, Seen, Bare
<1>2. OnMain /\ 1..out = {}
  BY TheWindows DEF HandoverInit, OnMain
<1>3. Heeded("main")
  <2>1. view["main"].at = "mounted"
    BY PlainViews DEF HandoverInit
  <2> QED BY <2>1 DEF HandoverInit, Heeded, Heeds
<1> QED BY <1>1, <1>2, <1>3 DEF Kept, Full

LEMMA KeptStays ==
  ASSUME HandoverTypeOK, Framed, Single, Quiet, Kept, [HandoverNext]_hvars
  PROVE  Kept'
<1> SUFFICES ASSUME mishaps' \subseteq {"refused"} PROVE Cared'
  BY DEF Kept, Cared
<1>1. mishaps \subseteq {"refused"} /\ Calm
  BY MishapsGrow DEF Calm
<1>2. Minded /\ Plain'
  BY <1>1, SingleIs, PlainTypes DEF Minded, Quiet, Bounded, Kept, Alone
<1>3. ~Crash
  BY DEF Crash, Mishap
<1> QED BY <1>2, <1>3, KeptBySession, KeptByTerminal, KeptByMove, KeptByOpening, KeptByClosing,
           KeptByMounting DEF HandoverNext

----------------------------------------------------------------------------
(* The theorems *)

LEMMA HandedIs ==
  ASSUME Handed
  PROVE  ShownOnce
<1>1. ASSUME NEW w \in Windows
      PROVE  /\ view[w].shown \in Seq(Chunks) /\ \A i \in DOMAIN view[w].shown : view[w].shown[i] # Held
             /\ Of(view[w].shown) = ToSet(view[w].shown)
  <2>1. view[w].shown \in Seq(Chunks)
    BY TypeIs DEF Handed, Shapes
  <2>2. \A i \in DOMAIN view[w].shown : view[w].shown[i] \in Chunks
    BY <2>1
  <2> QED BY <2>1, <2>2, RowsAre DEF Of, ToSet
<1>2. NothingLost
  <2> SUFFICES ASSUME mishaps \subseteq {"refused"}, NEW w \in Windows, Settled(w)
               PROVE  ToSet(view[w].shown) = 1..out
    BY DEF NothingLost
  <2>1. /\ view[w].at = "bound" /\ inbox[w] = <<>> /\ Now = {} /\ move[w] = "still"
        /\ move["main"] = "still" /\ (w = "tab" <=> detached)
    BY TheWindows DEF Settled, Now, Held
  <2>2. Full(w) /\ Heeded(w)
    BY <2>1, TheWindows DEF Handed, Kept, OnMain
  <2>3. attached /\ Of(pending) = {}
    BY <2>1, <2>2, EmptyRow DEF Heeded, Heeds, Handed, Quiet, Calm
  <2>4. Of(view[w].reply) = {} /\ Of(view[w].queued) = {} /\ AskedBack(w) = {} /\ Of(inbox[w]) = {}
    BY <2>1, EmptyRow DEF Handed, Framed, AskedBack
  <2>5. Reach(view[w], inbox[w], Now, Of(pending), AskedBack(w)) = Of(view[w].shown)
    BY <2>1, <2>3, <2>4 DEF Reach
  <2>6. Of(view[w].shown) \subseteq 1..out
    BY <2>5 DEF Handed, Single
  <2> QED BY <1>1, <2>2, <2>5, <2>6 DEF Full
<1>3. NeverTwice
  <2>1. \A w \in Windows : Once(view[w].shown)
    BY DEF Handed, Single, Lined
  <2> QED BY <1>1, <2>1 DEF NeverTwice, IsInjective, Once
<1>4. InOrder
  <2>1. mishaps \subseteq {"late", "crashed"} => \A w \in Windows : Rises(view[w].shown)
    BY DEF Handed, Ordered, Risen
  <2> QED BY <1>1, <2>1 DEF InOrder, Rises
<1> QED BY <1>2, <1>3, <1>4 DEF ShownOnce

\* The shape of a move and the places of the chunks stay as they are described.
LEMMA HandedStays == HandoverSpec => []Handed
<1>1. HandoverInit => Handed
  BY HandoverStarts, FrameStarts, SingleStarts, QuietStarts, OrderedStarts, KeptStarts DEF Handed
<1>2. Handed /\ [HandoverNext]_hvars => Handed'
  BY HandoverTypes, FrameStays, SingleStays, QuietStays, OrderedStays, KeptStays DEF Handed
<1> QED BY <1>1, <1>2, PTL DEF HandoverSpec

\* Whatever is printed, moved and goes wrong, each variable of the handover
\* holds what its name says (SessionOutput and Attach in ssh.rs, detach.ts).
THEOREM HandoverTypeCorrect == HandoverSpec => []HandoverTypeOK
<1>1. Handed => HandoverTypeOK
  BY DEF Handed
<1> QED BY <1>1, HandedStays, PTL

\* "Nothing printed during the move is lost, and nothing is shown twice"
\* (detach.ts), nor is it written in another order, for any output, any number
\* of moves and every set of mishaps, as far as each mishap lets it.
THEOREM OutputIsShownOnce == HandoverSpec => []ShownOnce
<1>1. Handed => ShownOnce
  BY HandedIs
<1> QED BY <1>1, HandedStays, PTL

----------------------------------------------------------------------------
(* A tab beside its sessions *)

\* Who has the mutex is a command that waits for room with it in hand, and what
\* is under way is a command for a session.
HeldByOne ==
    /\ lock # NoOne => Holds(lock)
    /\ \A c \in Callers : call[c].at # "idle" => call[c].op \in Commands /\ call[c].sid \in Sids

\* An answer on its way is for a session of its own, which nobody shows yet and
\* which runs, or has ended unheard.
Answers ==
    \A k \in Tasks : task[k].at = "answered" =>
        /\ task[k].sid \in Sids /\ task[k].sid \in table \union missed
        /\ tab.sid # task[k].sid
        /\ \A j \in Tasks : task[j].at = "answered" /\ task[j].sid = task[k].sid => j = k

\* What the window heard of, or missed, is over.
HeardIsOver ==
    /\ \A s \in missed : pump[s] = "gone"
    /\ \A event \in mail : pump[event.sid] = "gone"

\* A tab that is being opened has the user's connect and nothing else.
Opening ==
    tab.status = "connecting" =>
        /\ ~tab.reconnecting /\ ~tab.retrying
        /\ \A k \in Tasks : task[k].at = "none"
                            \/ (k = User /\ task[k].at \in {"connecting", "answered"})
GoneIsQuiet == tab.status = "gone" => ~tab.reconnecting

TabInv ==
    /\ TypeOK /\ HeldByOne /\ Answers /\ HeardIsOver /\ Opening /\ GoneIsQuiet
    /\ TabIsTrue /\ NoneAbandoned

USE SessionsAssumption, UsedAssumption, TabsAssumption
    DEF SessionsAssumption, UsedAssumption, TabsAssumption
Says == {"data", "note", "close", "lost"}

LEMMA CommandTable ==
  /\ Commands = {"input", "resize", "disconnect", "bytes", "record", "check"}
  /\ \A op \in Commands : Command[op].says \in Says /\ Command[op].inside \in BOOLEAN
  /\ ~Command["check"].inside /\ Command["disconnect"].says = "close"
<1>1. Commands = {"input", "resize", "disconnect", "bytes", "record", "check"}
  BY DEF Commands, Command
<1>2. /\ Command["input"] = [says |-> "data", inside |-> TRUE]
      /\ Command["resize"] = [says |-> "note", inside |-> TRUE]
      /\ Command["disconnect"] = [says |-> "close", inside |-> TRUE]
      /\ Command["bytes"] = [says |-> "data", inside |-> FALSE]
      /\ Command["record"] = [says |-> "note", inside |-> FALSE]
      /\ Command["check"] = [says |-> "lost", inside |-> FALSE]
  BY DEF Command
<1>3. \A op \in Commands : Command[op].says \in Says /\ Command[op].inside \in BOOLEAN
  <2> SUFFICES ASSUME NEW op \in Commands
               PROVE  Command[op].says \in Says /\ Command[op].inside \in BOOLEAN
    OBVIOUS
  <2>1. CASE op \in {"input", "resize", "disconnect"}
    <3>1. Command[op].inside = TRUE
      BY <2>1, <1>2
    <3>2. Command[op].says \in Says
      BY <2>1, <1>2 DEF Says
    <3> QED BY <3>1, <3>2
  <2>2. CASE op \in {"bytes", "record", "check"}
    <3>1. Command[op].inside = FALSE
      BY <2>2, <1>2
    <3>2. Command[op].says \in Says
      BY <2>2, <1>2 DEF Says
    <3> QED BY <3>1, <3>2
  <2> QED BY <1>1, <2>1, <2>2
<1>4. ~Command["check"].inside
  BY <1>2
<1>5. Command["disconnect"].says = "close"
  BY <1>2
<1> QED BY <1>1, <1>3, <1>4, <1>5

\* A command that goes on leaves the table and the loops alone, and its request
\* to close is in the queue when it is through, or was for a session that is over.
LEMMA CallStepDoes ==
  ASSUME TypeOK, HeldByOne, NEW c \in Callers, CallStepOf(c)
  PROVE  /\ SessionsTypeOK' /\ HeldByOne'
         /\ UNCHANGED <<table, pump, local, far, byUser>>
         /\ \A s \in Sids : Alive(s) /\ ClosingOf(s) => ClosingOf(s)'
<1> USE DEF TypeOK, SessionsTypeOK, HeldByOne, Sids, Free, Alive
<1>1. /\ call \in [Callers -> [op : Commands \union {NoOne}, sid : Sids \union {NoOne},
                               at : {"idle", "locking", "sending"}]]
      /\ queue \in [Sids -> Seq(Says)]
  BY DEF Says
<1>2. NoCall = [op |-> NoOne, sid |-> NoOne, at |-> "idle"]
  BY DEF NoCall
<1>3. CASE Answered(c) /\ lock # c /\ UNCHANGED <<table, lock, pump, local, far, byUser, queue>>
           /\ (\A s \in Sids : Alive(s) => call[c].sid # s \/ call[c].op # "disconnect")
  <2>1. call' = [call EXCEPT ![c] = NoCall]
    BY <1>3 DEF Answered
  <2>2. SessionsTypeOK' /\ HeldByOne'
    BY <1>1, <1>2, <1>3, <2>1 DEF Holds
  <2>3. \A s \in Sids : Alive(s) /\ ClosingOf(s) => ClosingOf(s)'
    BY <1>1, <1>3, <2>1 DEF ClosingOf, Asked
  <2> QED BY <1>3, <2>2, <2>3
<1>4. CASE NotFound(c)
  <2>1. lock # c
    BY <1>4 DEF NotFound
  <2>2. \A s \in Sids : Alive(s) => call[c].sid # s \/ call[c].op # "disconnect"
    BY <1>4 DEF NotFound
  <2> QED BY <1>3, <1>4, <2>1, <2>2 DEF NotFound
<1>5. CASE PingAnswered(c)
  <2>1. lock # c
    BY <1>5, CommandTable DEF PingAnswered, Holds
  <2> QED BY <1>3, <1>5, <2>1 DEF PingAnswered
<1>6. CASE Queued(c) = queue' /\ Answered(c) /\ lock' \in {lock, NoOne} /\ lock' # c
           /\ call[c].sid \in Sids /\ call[c].op \in Commands /\ HasRoom(call[c].sid)
           /\ UNCHANGED <<table, pump, local, far, byUser>>
  <2> DEFINE d == call[c].sid
             w == Command[call[c].op].says
  <2>1. /\ call' = [call EXCEPT ![c] = NoCall] /\ queue' = [queue EXCEPT ![d] = Append(@, w)]
        /\ w \in Says /\ d \in Sids /\ queue[d] \in Seq(Says)
    BY <1>1, <1>6, CommandTable DEF Answered, Queued
  <2>2. /\ queue'[d] = Append(queue[d], w) /\ \A s \in Sids : s # d => queue'[s] = queue[s]
        /\ queue' \in [Sids -> Seq(Says)]
    BY <1>1, <2>1
  <2>3. \A s \in Sids : Len(queue'[s]) <= Room
    <3>1. Len(queue'[d]) = Len(queue[d]) + 1 /\ Len(queue[d]) < Room /\ Len(queue[d]) \in Nat
      BY <2>1, <2>2, <1>6 DEF HasRoom
    <3>2. \A s \in Sids : s # d => Len(queue'[s]) <= Room
      BY <2>2
    <3> QED BY <3>1, <3>2
  <2>4. call' \in [Callers -> [op : Commands \union {NoOne}, sid : Sids \union {NoOne},
                               at : {"idle", "locking", "sending"}]]
    BY <1>1, <1>2, <2>1
  <2>5. lock' # NoOne => lock' \in Callers /\ call'[lock'] = call[lock]
    BY <1>6, <2>1
  <2>6. SessionsTypeOK' /\ HeldByOne'
    <3>1. lock' # NoOne => lock' \in Callers /\ call'[lock'].at = "sending"
                           /\ Command[call'[lock'].op].inside
      BY <2>5, <1>6 DEF Holds
    <3>2. \A e \in Callers : call'[e].at # "idle" =>
                                 call'[e].op \in Commands /\ call'[e].sid \in Sids
      BY <1>1, <1>2, <2>1
    <3>3. SessionsTypeOK'
      <4>1. /\ table' \subseteq Sids /\ local' \subseteq Sids /\ byUser' \subseteq Sids
            /\ pump' \in [Sids -> {"none", "running", "writing", "ending", "gone"}]
            /\ far' \in [Sids -> {"up", "eof", "status", "lost"}]
            /\ table' = {s \in Sids : pump'[s] \in {"running", "writing", "ending"}}
        BY <1>6
      <4>2. lock' \in Callers \union {NoOne} /\ (lock' = NoOne \/ call'[lock'].at = "sending")
        BY <3>1
      <4> QED BY <2>2, <2>3, <2>4, <4>1, <4>2 DEF Says
    <3>4. HeldByOne'
      BY <3>1, <3>2 DEF Holds
    <3> QED BY <3>3, <3>4
  <2>7. ASSUME NEW s \in Sids, Alive(s), ClosingOf(s) PROVE ClosingOf(s)'
    <3>1. CASE \E e \in Callers \ {c} : call[e].sid = s /\ call[e].op = "disconnect"
      BY <3>1, <2>1 DEF ClosingOf
    <3>2. CASE s = d /\ call[c].op = "disconnect"
      <4>1. w = "close" /\ Len(queue[d]) + 1 \in DOMAIN queue'[d]
            /\ queue'[d][Len(queue[d]) + 1] = w
        BY <3>2, <2>1, <2>2, CommandTable
      <4> QED BY <3>2, <4>1 DEF ClosingOf, Asked
    <3>3. CASE Asked(s)
      <4>1. PICK k \in DOMAIN queue[s] : queue[s][k] = "close"
        BY <3>3 DEF Asked
      <4>2. k \in DOMAIN queue'[s] /\ queue'[s][k] = queue[s][k]
        <5>1. CASE s = d
          BY <5>1, <2>1, <2>2, <4>1
        <5>2. CASE s # d
          BY <5>2, <2>2
        <5> QED BY <5>1, <5>2
      <4> QED BY <4>1, <4>2 DEF ClosingOf, Asked
    <3> QED BY <2>7, <3>1, <3>2, <3>3 DEF ClosingOf
  <2> QED BY <1>6, <2>6, <2>7
<1>7. CASE SentAtOnce(c)
  <2>1. call[c].sid \in Sids /\ call[c].op \in Commands /\ lock = NoOne /\ lock # c
    BY <1>7 DEF SentAtOnce, Finds
  <2> QED BY <1>6, <1>7, <2>1 DEF SentAtOnce
<1>8. CASE Sent(c)
  <2>1. call[c].sid \in Sids /\ call[c].op \in Commands
    BY <1>8 DEF Sent
  <2>2. lock' \in {lock, NoOne} /\ lock' # c
    BY <1>8 DEF Sent, Released
  <2> QED BY <1>6, <1>8, <2>1, <2>2 DEF Sent
<1>9. CASE SendFails(c)
  <2>1. call' = [call EXCEPT ![c] = NoCall] /\ lock' \in {lock, NoOne} /\ lock' # c
        /\ UNCHANGED <<table, pump, local, far, byUser, queue>>
    BY <1>9 DEF SendFails, Answered, Released
  <2>2. lock' # NoOne => lock' \in Callers /\ call'[lock'] = call[lock]
    BY <2>1
  <2>3. SessionsTypeOK' /\ HeldByOne'
    BY <1>1, <1>2, <2>1, <2>2 DEF Holds
  <2>4. \A s \in Sids : Alive(s) => call[c].sid # s
    BY <1>9 DEF SendFails
  <2>5. \A s \in Sids : Alive(s) /\ ClosingOf(s) => ClosingOf(s)'
    BY <1>1, <2>1, <2>4 DEF ClosingOf, Asked
  <2> QED BY <2>1, <2>3, <2>5
<1>10. CASE Found(c)
  <2>1. call[c].sid \in Sids /\ call[c].op \in Commands /\ lock = NoOne
        /\ UNCHANGED <<table, pump, local, far, byUser, queue>>
        /\ call' = [call EXCEPT ![c].at = "sending"]
        /\ lock' = IF Holds(c) THEN c ELSE lock
    BY <1>10 DEF Found, Finds
  <2>2. /\ call'[c].op = call[c].op /\ call'[c].sid = call[c].sid /\ call'[c].at = "sending"
        /\ \A e \in Callers : e # c => call'[e] = call[e]
        /\ call' \in [Callers -> [op : Commands \union {NoOne}, sid : Sids \union {NoOne},
                                  at : {"idle", "locking", "sending"}]]
    <3>1. call[c] \in [op : Commands \union {NoOne}, sid : Sids \union {NoOne},
                       at : {"idle", "locking", "sending"}]
      BY <1>1
    <3>2. LET new == [call[c] EXCEPT !.at = "sending"] IN
          /\ new \in [op : Commands \union {NoOne}, sid : Sids \union {NoOne},
                      at : {"idle", "locking", "sending"}]
          /\ new.op = call[c].op /\ new.sid = call[c].sid /\ new.at = "sending"
      BY <3>1
    <3>3. call' = [call EXCEPT ![c] = [call[c] EXCEPT !.at = "sending"]]
      BY <1>1, <2>1
    <3> QED BY <1>1, <3>2, <3>3
  <2>3. SessionsTypeOK' /\ HeldByOne'
    BY <1>1, <2>1, <2>2 DEF Holds
  <2>4. \A s \in Sids : ClosingOf(s) => ClosingOf(s)'
    <3> SUFFICES ASSUME NEW s \in Sids, ClosingOf(s) PROVE ClosingOf(s)'
      OBVIOUS
    <3>1. CASE Asked(s)
      BY <3>1, <2>1 DEF ClosingOf, Asked
    <3>2. ASSUME NEW e \in Callers, call[e].sid = s /\ call[e].op = "disconnect"
          PROVE  ClosingOf(s)'
      BY <3>2, <2>2 DEF ClosingOf
    <3> QED BY <3>1, <3>2 DEF ClosingOf
  <2> QED BY <2>1, <2>3, <2>4
<1> QED BY <1>4, <1>5, <1>7, <1>8, <1>9, <1>10 DEF CallStepOf

\* A step of the loops and of the far ends leaves the commands under way alone,
\* and no request to close is taken but by a loop that ends.
LEMMA LoopStepDoes ==
  ASSUME TypeOK, HeldByOne, NEW s \in Sids, LoopStep(s) \/ HostStep(s)
  PROVE  /\ SessionsTypeOK' /\ HeldByOne'
         /\ UNCHANGED <<table, call>>
         /\ \A t \in Sids : /\ pump[t] = "gone" => pump'[t] = "gone"
                            /\ Alive(t)' => Alive(t)
                            /\ Alive(t)' /\ ClosingOf(t) => ClosingOf(t)'
<1> USE DEF TypeOK, SessionsTypeOK, Sids, Free
<1>1. /\ pump \in [Sids -> {"none", "running", "writing", "ending", "gone"}]
      /\ queue \in [Sids -> Seq(Says)] /\ far \in [Sids -> {"up", "eof", "status", "lost"}]
  BY DEF Says
<1>2. ASSUME UNCHANGED <<table, lock, call>>, local' \subseteq Sids, byUser' \subseteq Sids,
             far' \in [Sids -> {"up", "eof", "status", "lost"}],
             NEW new \in {"running", "writing", "ending"},
             pump' = pump \/ (pump[s] \in {"running", "writing"}
                              /\ pump' = [pump EXCEPT ![s] = new]),
             queue' = queue \/ (queue[s] # <<>> /\ queue' = [queue EXCEPT ![s] = Tail(@)]
                                /\ (Head(queue[s]) = "close" => pump'[s] = "ending"))
      PROVE  /\ SessionsTypeOK' /\ HeldByOne'
             /\ \A t \in Sids : /\ pump[t] = "gone" => pump'[t] = "gone"
                                /\ Alive(t)' => Alive(t)
                                /\ Alive(t)' /\ ClosingOf(t) => ClosingOf(t)'
  <2>1. /\ pump' \in [Sids -> {"none", "running", "writing", "ending", "gone"}]
        /\ \A t \in Sids : t # s => pump'[t] = pump[t]
        /\ pump'[s] # pump[s] => pump[s] \in {"running", "writing"}
                                 /\ pump'[s] \in {"running", "writing", "ending"}
    BY <1>1, <1>2
  <2>2. queue' \in [Sids -> Seq(Says)] /\ \A t \in Sids : Len(queue'[t]) <= Room
    <3>1. CASE queue' = queue
      BY <3>1, <1>1
    <3>2. CASE queue[s] # <<>> /\ queue' = [queue EXCEPT ![s] = Tail(@)]
      <4>1. Tail(queue[s]) \in Seq(Says) /\ Len(Tail(queue[s])) = Len(queue[s]) - 1
        BY <1>1, <3>2, HeadTailProperties
      <4>2. Len(queue[s]) \in Nat /\ Len(queue[s]) <= Room
        BY <1>1
      <4> QED BY <1>1, <3>2, <4>1, <4>2
    <3> QED BY <1>2, <3>1, <3>2
  <2>3. table = {t \in Sids : pump'[t] \in {"running", "writing", "ending"}}
    BY <2>1
  <2>4. SessionsTypeOK' /\ HeldByOne'
    BY <1>2, <2>1, <2>2, <2>3 DEF Says, HeldByOne, Holds
  <2>5. \A t \in Sids : (pump[t] = "gone" => pump'[t] = "gone") /\ (Alive(t)' => Alive(t))
    BY <2>1 DEF Alive
  <2>6. ASSUME NEW t \in Sids, Alive(t)', ClosingOf(t) PROVE ClosingOf(t)'
    <3>1. CASE \E c \in Callers : call[c].sid = t /\ call[c].op = "disconnect"
      BY <1>2, <3>1 DEF ClosingOf
    <3>2. CASE Asked(t)
      <4>1. PICK k \in DOMAIN queue[t] : queue[t][k] = "close"
        BY <3>2 DEF Asked
      <4>2. CASE queue'[t] = queue[t]
        BY <4>1, <4>2 DEF ClosingOf, Asked
      <4>3. CASE t = s /\ queue[s] # <<>> /\ queue'[s] = Tail(queue[s])
                 /\ (Head(queue[s]) = "close" => pump'[s] = "ending")
        <5>1. queue[s] \in Seq(Says) /\ k # 1 /\ k \in 1 .. Len(queue[s])
          BY <1>1, <2>6, <4>1, <4>3 DEF Alive
        <5>2. k - 1 \in DOMAIN Tail(queue[s]) /\ Tail(queue[s])[k - 1] = queue[s][k]
          BY <5>1, <4>3
        <5> QED BY <4>1, <4>3, <5>2 DEF ClosingOf, Asked
      <4> QED BY <1>1, <1>2, <4>2, <4>3
    <3> QED BY <2>6, <3>1, <3>2 DEF ClosingOf
  <2> QED BY <2>4, <2>5, <2>6
<1>3. CASE TakeData(s)
  BY <1>2, <1>3, <1>1 DEF TakeData, Takes
<1>4. CASE TakeNote(s)
  BY <1>2, <1>4, <1>1 DEF TakeNote, Takes
<1>5. CASE TakeClose(s)
  BY <1>2, <1>5, <1>1 DEF TakeClose, Takes
<1>6. CASE TakeLost(s)
  BY <1>2, <1>6, <1>1 DEF TakeLost, Takes
<1>7. CASE Written(s)
  BY <1>2, <1>7, <1>1 DEF Written
<1>8. CASE HostEof(s) \/ HostExits(s) \/ ConnectionLost(s)
  <2>1. PICK after \in {"eof", "status", "lost"} : far' = [far EXCEPT ![s] = after]
    BY <1>8 DEF HostEof, HostExits, ConnectionLost, Read
  <2>2. UNCHANGED <<table, lock, pump, local, byUser, queue, call>>
    BY <1>8 DEF HostEof, HostExits, ConnectionLost, Read
  <2>3. far' \in [Sids -> {"up", "eof", "status", "lost"}]
    BY <1>1, <2>1
  <2>4. local' \subseteq Sids /\ byUser' \subseteq Sids
    BY <2>2
  <2> QED BY <1>2, <2>2, <2>3, <2>4
<1>9. CASE HostCloses(s)
  BY <1>2, <1>9, <1>1 DEF HostCloses
<1>10. UNCHANGED <<table, call>>
  BY DEF LoopStep, TakeStep, TakeData, TakeNote, TakeClose, TakeLost, Written, HostStep, HostEof,
         HostExits, ConnectionLost, Read, HostCloses
<1> QED BY <1>3, <1>4, <1>5, <1>6, <1>7, <1>8, <1>9, <1>10 DEF LoopStep, TakeStep, HostStep

LEMMA EndLoopDoes ==
  ASSUME TypeOK, HeldByOne, NEW s \in Sids, EndLoop(s)
  PROVE  /\ SessionsTypeOK' /\ HeldByOne'
         /\ table' = table \ {s} /\ pump'[s] = "gone" /\ s \in table
         /\ \A t \in Sids : t # s => /\ pump'[t] = pump[t]
                                     /\ ClosingOf(t) => ClosingOf(t)'
<1> USE DEF TypeOK, SessionsTypeOK, Sids, Free
<1>1. /\ pump \in [Sids -> {"none", "running", "writing", "ending", "gone"}]
      /\ queue \in [Sids -> Seq(Says)] /\ far \in [Sids -> {"up", "eof", "status", "lost"}]
  BY DEF Says
<1>2. /\ pump' = [pump EXCEPT ![s] = "gone"] /\ queue' = [queue EXCEPT ![s] = <<>>]
      /\ far' = [far EXCEPT ![s] = "up"] /\ table' = table \ {s}
      /\ byUser' \subseteq Sids /\ local' \subseteq Sids /\ UNCHANGED <<lock, call>>
      /\ lock = NoOne /\ pump[s] = "ending"
  BY DEF EndLoop
<1>3. queue' \in [Sids -> Seq(Says)] /\ \A t \in Sids : Len(queue'[t]) <= Room
  <2>1. <<>> \in Seq(Says) /\ Len(<<>>) = 0
    BY EmptySeq
  <2> QED BY <1>1, <1>2, <2>1
<1>4. /\ pump' \in [Sids -> {"none", "running", "writing", "ending", "gone"}]
      /\ far' \in [Sids -> {"up", "eof", "status", "lost"}]
      /\ table' = {t \in Sids : pump'[t] \in {"running", "writing", "ending"}}
  BY <1>1, <1>2
<1>5. SessionsTypeOK' /\ HeldByOne'
  BY <1>2, <1>3, <1>4 DEF Says, HeldByOne, Holds
<1>6. \A t \in Sids : t # s => pump'[t] = pump[t] /\ (ClosingOf(t) => ClosingOf(t)')
  BY <1>1, <1>2 DEF ClosingOf, Asked
<1> QED BY <1>1, <1>2, <1>5, <1>6

LEMMA InsertDoes ==
  ASSUME TypeOK, HeldByOne, NEW s \in Sids, NEW isLocal, Insert(s, isLocal)
  PROVE  /\ SessionsTypeOK' /\ HeldByOne'
         /\ table' = table \union {s} /\ pump[s] = "none" /\ pump'[s] = "running"
         /\ \A t \in Sids : t # s => /\ pump'[t] = pump[t]
                                     /\ ClosingOf(t) => ClosingOf(t)'
<1> USE DEF TypeOK, SessionsTypeOK, Sids, Free
<1>1. /\ pump' = [pump EXCEPT ![s] = "running"] /\ table' = table \union {s}
      /\ local' \subseteq Sids /\ UNCHANGED <<lock, far, byUser, queue, call>>
      /\ lock = NoOne /\ pump[s] = "none"
  BY DEF Insert
<1>2. /\ pump' \in [Sids -> {"none", "running", "writing", "ending", "gone"}]
      /\ table' = {t \in Sids : pump'[t] \in {"running", "writing", "ending"}}
  BY <1>1
<1>3. SessionsTypeOK' /\ HeldByOne'
  BY <1>1, <1>2 DEF HeldByOne, Holds
<1>4. \A t \in Sids : t # s => pump'[t] = pump[t] /\ (ClosingOf(t) => ClosingOf(t)')
  BY <1>1 DEF ClosingOf, Asked
<1>5. pump'[s] = "running"
  BY <1>1
<1> QED BY <1>1, <1>3, <1>4, <1>5

LEMMA CallDoes ==
  ASSUME TypeOK, HeldByOne, NEW c \in Callers, NEW op \in Commands, NEW s \in Sids, Call(c, op, s)
  PROVE  /\ SessionsTypeOK' /\ HeldByOne'
         /\ UNCHANGED <<table, pump>>
         /\ \A t \in Sids : ClosingOf(t) => ClosingOf(t)'
         /\ op = "disconnect" => ClosingOf(s)'
<1> USE DEF TypeOK, SessionsTypeOK, Free
<1>1. call \in [Callers -> [op : Commands \union {NoOne}, sid : Sids \union {NoOne},
                            at : {"idle", "locking", "sending"}]]
  OBVIOUS
<1>2. /\ call[c] = [op |-> NoOne, sid |-> NoOne, at |-> "idle"]
      /\ call' = [call EXCEPT ![c] = [op |-> op, sid |-> s, at |-> "locking"]]
      /\ UNCHANGED <<table, lock, pump, local, far, byUser, queue>>
  BY DEF Call, NoCall
<1>3. NoOne \notin Sids
  BY DEF Sids
<1>4. /\ call' \in [Callers -> [op : Commands \union {NoOne}, sid : Sids \union {NoOne},
                                at : {"idle", "locking", "sending"}]]
      /\ call'[c].op = op /\ call'[c].sid = s /\ \A e \in Callers : e # c => call'[e] = call[e]
  BY <1>1, <1>2
<1>5. lock # c
  BY <1>2
<1>6. SessionsTypeOK' /\ HeldByOne'
  <2>1. lock # NoOne => lock \in Callers /\ call'[lock] = call[lock]
    BY <1>4, <1>5
  <2>2. SessionsTypeOK'
    BY <1>2, <1>4, <2>1
  <2>3. HeldByOne'
    BY <1>2, <1>4, <2>1 DEF HeldByOne, Holds
  <2> QED BY <2>2, <2>3
<1>7. \A t \in Sids : ClosingOf(t) => ClosingOf(t)'
  BY <1>2, <1>3, <1>4 DEF ClosingOf, Asked
<1>8. op = "disconnect" => ClosingOf(s)'
  BY <1>4 DEF ClosingOf
<1> QED BY <1>2, <1>6, <1>7, <1>8

----------------------------------------------------------------------------
(* The window *)

Places == {"none", "waiting", "resolving", "connecting", "answered"}
TaskSet == [at : Places, sid : Sids \union {NoOne}, gen : 0 .. MaxNow, attempt : 1 .. Limit]
TabSet == [status : {"connecting", "connected", "dropped", "error", "gone"},
           sid : Sids \union {NoOne}, kind : Kinds,
           reconnecting : BOOLEAN, retrying : BOOLEAN, hears : BOOLEAN]

\* What AfterTry makes of a tab: at most its banner goes.
LEMMA AfterTryDoes ==
  ASSUME TypeOK, NEW k \in Tasks, NEW t \in TabSet
  PROVE  /\ AfterTry(k, t).tab \in TabSet
         /\ AfterTry(k, t).tab \in {t, [t EXCEPT !.retrying = FALSE]}
         /\ AfterTry(k, t).task \in TaskSet
         /\ AfterTry(k, t).task.at \in {"none", "waiting"}
<1>1. NoTask \in TaskSet /\ NoTask.at = "none"
  BY DEF NoTask, TaskSet, Places
<1>2. [t EXCEPT !.retrying = FALSE] \in TabSet
  BY DEF TabSet
<1>3. ASSUME task[k].attempt < Limit
      PROVE  Waiting(gen, task[k].attempt + 1) \in TaskSet
             /\ Waiting(gen, task[k].attempt + 1).at = "waiting"
  <2>1. task[k].attempt + 1 \in 1 .. Limit /\ gen \in 0 .. MaxNow
    BY <1>3 DEF TypeOK
  <2> QED BY <2>1 DEF Waiting, NoTask, TaskSet, Places
<1>4. task[k].attempt >= Limit \/ task[k].attempt < Limit
  BY DEF TypeOK
<1>5. CASE k = User \/ (k # User /\ (t.status \in {"gone", "connected"} \/ task[k].attempt >= Limit))
  BY <1>1, <1>2, <1>5 DEF AfterTry
<1>6. CASE k # User /\ ~(t.status \in {"gone", "connected"}) /\ task[k].attempt < Limit
  <2>1. ~(task[k].attempt >= Limit)
    BY <1>6 DEF TypeOK
  <2>2. CASE t.retrying
    <3>1. AfterTry(k, t) = [tab |-> t, task |-> Waiting(gen, task[k].attempt + 1)]
      BY <1>6, <2>1, <2>2 DEF AfterTry
    <3> QED BY <1>3, <1>6, <3>1
  <2>3. CASE ~t.retrying
    <3>1. AfterTry(k, t) = [tab |-> t, task |-> NoTask]
      BY <1>6, <2>1, <2>3 DEF AfterTry
    <3> QED BY <1>1, <3>1
  <2> QED BY <2>2, <2>3
<1> QED BY <1>4, <1>5, <1>6

LEMMA NextFreeIs == FreeLoop # {} => NextFree \in Loops /\ task[NextFree].at = "none"
<1> SUFFICES ASSUME FreeLoop # {} PROVE \E l \in FreeLoop : \A m \in FreeLoop : l <= m
  BY DEF NextFree, FreeLoop
<1>1. FreeLoop \in SUBSET Nat
  BY DEF FreeLoop, Loops
<1>2. PICK l \in FreeLoop : \A m \in FreeLoop : ~(<<m, l>> \in OpToRel(<, Nat))
  BY <1>1, NatLessThanWellFounded, WFMin
<1>3. \A m \in FreeLoop : ~(m < l)
  BY <1>1, <1>2 DEF OpToRel
<1> QED BY <1>1, <1>3

Types ==
    /\ tab \in TabSet /\ task \in [Tasks -> TaskSet] /\ gen \in 0 .. MaxNow
    /\ mail \subseteq [sid : Sids, reason : {"closed", "exited", "dropped"}]
    /\ missed \subseteq Sids /\ stray \subseteq Sids

LEMMA TypesAre ==
  /\ TypeOK <=> SessionsTypeOK /\ Types /\ (tab.sid # NoOne <=> tab.status = "connected")
  /\ NoOne \notin Sids
<1>1. NoOne \notin Sids
  BY DEF Sids
<1>2. ((tab.sid # NoOne) = (tab.status = "connected")) <=> (tab.sid # NoOne <=> tab.status = "connected")
  OBVIOUS
<1> QED BY <1>1, <1>2 DEF TypeOK, Types, TabSet, TaskSet, Places

\* The backend goes on, and no session begins or ends.
Backs ==
    /\ SessionsTypeOK' /\ HeldByOne' /\ table' = table
    /\ \A s \in Sids : /\ pump[s] = "gone" => pump'[s] = "gone"
                       /\ Alive(s)' => Alive(s)
                       /\ Alive(s)' /\ ClosingOf(s) => ClosingOf(s)'
\* The window goes on: no connect begins to answer or is heard of, and the tab
\* keeps its session, or lets go of one that is over or was told to close.
Fronts ==
    /\ Types' /\ missed' = missed /\ stray \subseteq stray' /\ mail' \subseteq mail
    /\ \A event \in mail : event.sid = tab'.sid => event \in mail'
    /\ \/ tab'.sid = tab.sid /\ tab'.status = tab.status
       \/ /\ tab'.sid = NoOne /\ tab'.status \in {"dropped", "gone", "error"}
          /\ \A s \in Sids : tab.sid = s => pump[s] = "gone" \/ ClosingOf(s)'
    /\ \A k \in Tasks : /\ task[k].at \in {"connecting", "answered"} => task'[k] = task[k]
                        /\ task'[k].at = "answered" => task[k].at = "answered"
    /\ tab'.reconnecting => tab.reconnecting \/ \E k \in Tasks : task'[k].at = "connecting"
    /\ tab'.status = "gone" => ~tab'.reconnecting
    /\ tab'.status = "connecting" =>
          tab'.reconnecting = tab.reconnecting /\ tab'.retrying = tab.retrying /\ task' = task

LEMMA QuietKeeps ==
  ASSUME TabInv, Backs, Fronts
  PROVE  TabInv'
<1> USE DEF TabInv
<1>1. /\ NoOne \notin Sids /\ Types /\ (tab.sid # NoOne <=> tab.status = "connected")
      /\ SessionsTypeOK
  <2>1. TypeOK
    OBVIOUS
  <2> QED BY <2>1, TypesAre
<1>2. tab.sid \in Sids \union {NoOne} /\ tab'.sid \in Sids \union {NoOne}
  BY <1>1 DEF Fronts, Types, TabSet
<1>3. TypeOK' /\ HeldByOne'
  <2>1. tab'.sid # NoOne <=> tab'.status = "connected"
    BY <1>1 DEF Fronts
  <2>2. SessionsTypeOK' /\ Types'
    BY DEF Backs, Fronts
  <2>3. ((tab.sid # NoOne) = (tab.status = "connected"))'
    BY <2>1
  <2> QED BY <2>2, <2>3 DEF TypeOK, Types, TabSet, TaskSet, Places, Backs
<1>4. Answers'
  <2> SUFFICES ASSUME NEW k \in Tasks, task'[k].at = "answered"
               PROVE  /\ task'[k].sid \in Sids /\ task'[k].sid \in table' \union missed'
                      /\ tab'.sid # task'[k].sid
                      /\ \A j \in Tasks : task'[j].at = "answered" /\ task'[j].sid = task'[k].sid
                            => j = k
    BY DEF Answers
  <2>1. \A j \in Tasks : task'[j].at = "answered" => task[j].at = "answered" /\ task'[j] = task[j]
    BY DEF Fronts
  <2>2. task[k].at = "answered" /\ task'[k] = task[k]
    BY <2>1
  <2>3. /\ task[k].sid \in Sids /\ task[k].sid \in table \union missed /\ tab.sid # task[k].sid
        /\ \A j \in Tasks : task[j].at = "answered" /\ task[j].sid = task[k].sid => j = k
    BY <2>2 DEF Answers
  <2> QED BY <1>1, <2>1, <2>2, <2>3 DEF Backs, Fronts
<1>5. HeardIsOver'
  <2>1. \A event \in mail : event.sid \in Sids
    BY <1>1 DEF Types
  <2>2. missed \subseteq Sids
    BY <1>1 DEF Types
  <2> QED BY <2>1, <2>2 DEF Backs, Fronts, HeardIsOver
<1>6. Opening'
  BY <1>1 DEF Opening, Fronts
<1>7. GoneIsQuiet'
  BY DEF GoneIsQuiet, Fronts
<1>8. TabKnows'
  <2> SUFFICES ASSUME tab'.status = "connected"
               PROVE  tab'.sid \in table' \union missed' \/ \E event \in mail' : event.sid = tab'.sid
    BY DEF TabKnows
  <2>1. tab'.sid = tab.sid /\ tab.status = "connected"
    BY DEF Fronts
  <2>2. tab.sid \in table \union missed \/ \E event \in mail : event.sid = tab.sid
    BY <2>1 DEF TabIsTrue, TabKnows
  <2> QED BY <2>1, <2>2 DEF Backs, Fronts
<1>9. ReconnectingIsTrue'
  <2> SUFFICES ASSUME tab'.reconnecting
               PROVE  \E k \in Tasks : task'[k].at \in {"connecting", "answered"}
    BY DEF ReconnectingIsTrue
  <2> QED BY DEF TabIsTrue, ReconnectingIsTrue, Fronts
<1>10. NoneAbandoned'
  <2> SUFFICES ASSUME NEW s \in Sids, Alive(s)'
               PROVE  \/ tab'.sid = s \/ s \in stray' \/ ClosingOf(s)'
                      \/ \E k \in Tasks : task'[k].at = "answered" /\ task'[k].sid = s
    BY DEF NoneAbandoned
  <2>1. Alive(s) /\ pump[s] # "gone"
    BY DEF Backs, Alive
  <2>2. CASE tab.sid = s
    BY <2>1, <2>2 DEF Fronts
  <2>3. CASE s \in stray
    BY <2>3 DEF Fronts
  <2>4. CASE ClosingOf(s)
    BY <2>4 DEF Backs
  <2>5. CASE \E k \in Tasks : task[k].at = "answered" /\ task[k].sid = s
    BY <2>5 DEF Fronts
  <2> QED BY <2>1, <2>2, <2>3, <2>4, <2>5 DEF NoneAbandoned
<1> QED BY <1>3, <1>4, <1>5, <1>6, <1>7, <1>8, <1>9, <1>10 DEF TabIsTrue

\* What TabInv says of the variables of the window, for a step that is not quiet.
LEMMA Typed ==
  ASSUME TabInv
  PROVE  /\ Types /\ SessionsTypeOK /\ HeldByOne /\ NoOne \notin Sids
         /\ (tab.sid # NoOne <=> tab.status = "connected")
         /\ tab.sid \in Sids \union {NoOne}
         /\ \A k \in Tasks : task[k] \in TaskSet
         /\ \A s \in missed : s \in Sids /\ pump[s] = "gone"
         /\ \A event \in mail : event.sid \in Sids /\ pump[event.sid] = "gone"
         /\ \A s \in Sids : s \in table <=> pump[s] \in {"running", "writing", "ending"}
         /\ tab.sid # NoOne => pump[tab.sid] # "none"
<1>1. TypeOK /\ HeldByOne /\ HeardIsOver /\ TabKnows
  BY DEF TabInv, TabIsTrue
<1>2. /\ Types /\ SessionsTypeOK /\ NoOne \notin Sids
      /\ (tab.sid # NoOne <=> tab.status = "connected")
  BY <1>1, TypesAre
<1>3. /\ tab.sid \in Sids \union {NoOne} /\ \A k \in Tasks : task[k] \in TaskSet
      /\ missed \subseteq Sids /\ \A event \in mail : event.sid \in Sids
  BY <1>2 DEF Types, TabSet
<1>4. \A s \in Sids : s \in table <=> pump[s] \in {"running", "writing", "ending"}
  BY <1>2 DEF SessionsTypeOK
<1>5. tab.sid # NoOne => pump[tab.sid] # "none"
  BY <1>1, <1>2, <1>3, <1>4 DEF TabKnows, HeardIsOver
<1> QED BY <1>1, <1>2, <1>3, <1>4, <1>5 DEF HeardIsOver

LEMMA TypeAgain ==
  ASSUME SessionsTypeOK', HeldByOne', Types', tab'.sid # NoOne <=> tab'.status = "connected"
  PROVE  TypeOK' /\ HeldByOne'
<1>1. ((tab.sid # NoOne) = (tab.status = "connected"))'
  OBVIOUS
<1> QED BY <1>1 DEF TypeOK, Types, TabSet, TaskSet, Places

LEMMA OpenedKeeps == \A k \in Tasks : TabInv /\ Opened(k) => TabInv'
<1> SUFFICES ASSUME NEW k \in Tasks, TabInv, Opened(k) PROVE TabInv'
  OBVIOUS
<1>1. PICK s \in Sids : /\ Insert(s, tab.kind = "shell")
                        /\ task' = [task EXCEPT ![k].at = "answered", ![k].sid = s]
  BY DEF Opened
<1>2. task[k].at = "connecting" /\ UNCHANGED <<tab, gen, mail, missed, stray>>
  BY DEF Opened
<1>3. TypeOK /\ HeldByOne
  BY DEF TabInv
<1>4. /\ SessionsTypeOK' /\ HeldByOne' /\ table' = table \union {s}
      /\ pump[s] = "none" /\ pump'[s] = "running"
      /\ \A t \in Sids : t # s => pump'[t] = pump[t] /\ (ClosingOf(t) => ClosingOf(t)')
  BY <1>1, <1>3, InsertDoes
<1>5. /\ Types /\ NoOne \notin Sids /\ (tab.sid # NoOne <=> tab.status = "connected")
      /\ \A j \in Tasks : task[j] \in TaskSet
      /\ \A t \in missed : t \in Sids /\ pump[t] = "gone"
      /\ \A event \in mail : event.sid \in Sids /\ pump[event.sid] = "gone"
      /\ tab.sid \in Sids \union {NoOne} /\ (tab.sid # NoOne => pump[tab.sid] # "none")
      /\ \A t \in Sids : t \in table <=> pump[t] \in {"running", "writing", "ending"}
  BY Typed
<1>6. /\ task' \in [Tasks -> TaskSet] /\ task'[k].at = "answered" /\ task'[k].sid = s
      /\ \A j \in Tasks : j # k => task'[j] = task[j]
  <2>1. task \in [Tasks -> TaskSet] /\ task[k] \in TaskSet
    BY <1>5 DEF Types
  <2>2. [[task[k] EXCEPT !.at = "answered"] EXCEPT !.sid = s] \in TaskSet
    BY <2>1 DEF TaskSet, Places
  <2>3. task'[k] = [[task[k] EXCEPT !.at = "answered"] EXCEPT !.sid = s]
        /\ \A j \in Tasks : j # k => task'[j] = task[j]
    BY <1>1, <2>1
  <2>4. task' = [task EXCEPT ![k] = [[task[k] EXCEPT !.at = "answered"] EXCEPT !.sid = s]]
    BY <1>1, <2>1
  <2> QED BY <2>1, <2>2, <2>3, <2>4 DEF TaskSet
<1>7. TypeOK' /\ HeldByOne'
  <2>1. Types'
    BY <1>2, <1>5, <1>6 DEF Types
  <2>2. tab'.sid # NoOne <=> tab'.status = "connected"
    BY <1>2, <1>5
  <2> QED BY <1>4, <2>1, <2>2, TypeAgain
<1>8. Answers'
  <2>1. \A j \in Tasks : task[j].at = "answered" => task[j].sid \in table \union missed
                                                    /\ task[j].sid \in Sids /\ task[j].sid # s
    BY <1>4, <1>5 DEF TabInv, Answers
  <2>2. tab'.sid # s
    BY <1>2, <1>4, <1>5
  <2>3. \A j \in Tasks : task'[j].at = "answered" => j = k \/ (j # k /\ task[j].at = "answered"
                                                              /\ task'[j] = task[j])
    BY <1>6
  <2> SUFFICES ASSUME NEW j \in Tasks, task'[j].at = "answered"
               PROVE  /\ task'[j].sid \in Sids /\ task'[j].sid \in table' \union missed'
                      /\ tab'.sid # task'[j].sid
                      /\ \A i \in Tasks : task'[i].at = "answered" /\ task'[i].sid = task'[j].sid
                            => i = j
    BY DEF Answers
  <2>4. CASE j = k
    BY <1>2, <1>4, <1>6, <2>1, <2>2, <2>3, <2>4
  <2>5. CASE j # k
    <3>1. task'[j] = task[j] /\ task[j].at = "answered"
      BY <2>3, <2>5
    <3>2. /\ task[j].sid \in Sids /\ task[j].sid \in table \union missed /\ tab.sid # task[j].sid
          /\ \A i \in Tasks : task[i].at = "answered" /\ task[i].sid = task[j].sid => i = j
      BY <3>1 DEF TabInv, Answers
    <3> QED BY <1>2, <1>4, <1>6, <2>1, <2>3, <3>1, <3>2
  <2> QED BY <2>4, <2>5
<1>9. HeardIsOver'
  BY <1>2, <1>4, <1>5 DEF HeardIsOver
<1>10. Opening' /\ GoneIsQuiet'
  BY <1>2, <1>6 DEF TabInv, Opening, GoneIsQuiet
<1>11. TabKnows'
  BY <1>2, <1>4 DEF TabInv, TabIsTrue, TabKnows
<1>12. ReconnectingIsTrue'
  BY <1>6 DEF TabInv, TabIsTrue, ReconnectingIsTrue, Opening, GoneIsQuiet
<1>13. NoneAbandoned'
  <2> SUFFICES ASSUME NEW t \in Sids, Alive(t)'
               PROVE  \/ tab'.sid = t \/ t \in stray' \/ ClosingOf(t)'
                      \/ \E j \in Tasks : task'[j].at = "answered" /\ task'[j].sid = t
    BY DEF NoneAbandoned
  <2>1. CASE t = s
    BY <1>6, <2>1
  <2>2. CASE t # s
    <3>1. Alive(t)
      BY <1>4, <2>2 DEF Alive
    <3> QED BY <1>2, <1>4, <1>6, <2>2, <3>1 DEF TabInv, NoneAbandoned
  <2> QED BY <2>1, <2>2
<1> QED BY <1>7, <1>8, <1>9, <1>10, <1>11, <1>12, <1>13 DEF TabInv, TabIsTrue

LEMMA EndedKeeps == \A s \in Sids : TabInv /\ Ended(s) => TabInv'
<1> SUFFICES ASSUME NEW s \in Sids, TabInv, Ended(s) PROVE TabInv'
  OBVIOUS
<1>1. EndLoop(s) /\ UNCHANGED <<tab, gen, task>> /\ stray' = stray \ {s}
  BY DEF Ended
<1>2. TypeOK /\ HeldByOne
  BY DEF TabInv
<1>3. /\ SessionsTypeOK' /\ HeldByOne' /\ table' = table \ {s} /\ pump'[s] = "gone" /\ s \in table
      /\ \A t \in Sids : t # s => pump'[t] = pump[t] /\ (ClosingOf(t) => ClosingOf(t)')
  BY <1>1, <1>2, EndLoopDoes
<1>4. /\ Types /\ NoOne \notin Sids /\ (tab.sid # NoOne <=> tab.status = "connected")
      /\ \A t \in missed : t \in Sids /\ pump[t] = "gone"
      /\ \A event \in mail : event.sid \in Sids /\ pump[event.sid] = "gone"
      /\ tab.sid \in Sids \union {NoOne}
  BY Typed
<1>5. CASE Hears(s)
  <2>1. tab.sid = s /\ mail' = mail \union {[sid |-> s, reason |-> close_reason(s)]}
        /\ missed' = missed
    BY <1>5 DEF Ended, Hears
  <2>2. close_reason(s) \in {"closed", "exited", "dropped"}
    BY DEF close_reason
  <2>3. Types'
    BY <1>1, <1>4, <2>1, <2>2 DEF Types
  <2>4. TypeOK' /\ HeldByOne'
    BY <1>1, <1>3, <1>4, <2>3, TypeAgain
  <2>5. Answers'
    BY <1>1, <1>3, <2>1 DEF TabInv, Answers
  <2>6. HeardIsOver'
    BY <1>3, <1>4, <2>1 DEF HeardIsOver
  <2>7. TabKnows'
    <3>1. [sid |-> s, reason |-> close_reason(s)] \in mail'
          /\ [sid |-> s, reason |-> close_reason(s)].sid = tab'.sid
      BY <1>1, <2>1
    <3> QED BY <3>1 DEF TabKnows
  <2> HIDE DEF Hears
  <2> QED BY <1>1, <1>3, <2>4, <2>5, <2>6, <2>7
        DEF TabInv, Opening, GoneIsQuiet, TabIsTrue, ReconnectingIsTrue, NoneAbandoned, Alive
<1>6. CASE ~Hears(s)
  <2>1. mail' = mail /\ missed' = missed \union {s}
    BY <1>6 DEF Ended
  <2>2. Types'
    BY <1>1, <1>4, <2>1 DEF Types
  <2>3. TypeOK' /\ HeldByOne'
    BY <1>1, <1>3, <1>4, <2>2, TypeAgain
  <2>4. Answers'
    BY <1>1, <1>3, <2>1 DEF TabInv, Answers
  <2>5. HeardIsOver'
    BY <1>3, <1>4, <2>1 DEF HeardIsOver
  <2>6. TabKnows'
    BY <1>1, <1>3, <2>1 DEF TabInv, TabIsTrue, TabKnows
  <2> QED BY <1>1, <1>3, <2>3, <2>4, <2>5, <2>6
        DEF TabInv, Opening, GoneIsQuiet, TabIsTrue, ReconnectingIsTrue, NoneAbandoned, Alive
<1> QED BY <1>5, <1>6

LEMMA BackDoes ==
  ASSUME TabInv, NEW k \in Tasks, NEW t \in TabSet, Back(k, t)
  PROVE  /\ tab' \in TabSet /\ task' \in [Tasks -> TaskSet]
         /\ tab'.status = t.status /\ tab'.sid = t.sid /\ tab'.reconnecting = t.reconnecting
         /\ tab'.retrying = t.retrying \/ tab'.retrying = FALSE
         /\ task'[k].at \in {"none", "waiting"} /\ \A j \in Tasks : j # k => task'[j] = task[j]
<1>1. TypeOK /\ Types
  BY Typed DEF TabInv
<1>2. /\ AfterTry(k, t).tab \in TabSet
      /\ AfterTry(k, t).tab \in {t, [t EXCEPT !.retrying = FALSE]}
      /\ AfterTry(k, t).task \in TaskSet /\ AfterTry(k, t).task.at \in {"none", "waiting"}
  BY <1>1, AfterTryDoes
<1>3. tab' = AfterTry(k, t).tab /\ task' = [task EXCEPT ![k] = AfterTry(k, t).task]
  BY DEF Back
<1>4. /\ task' \in [Tasks -> TaskSet] /\ task'[k] = AfterTry(k, t).task
      /\ \A j \in Tasks : j # k => task'[j] = task[j]
  BY <1>1, <1>2, <1>3 DEF Types
<1>5. /\ [t EXCEPT !.retrying = FALSE].status = t.status /\ [t EXCEPT !.retrying = FALSE].sid = t.sid
      /\ [t EXCEPT !.retrying = FALSE].reconnecting = t.reconnecting
      /\ [t EXCEPT !.retrying = FALSE].retrying = FALSE
  BY DEF TabSet
<1> QED BY <1>2, <1>3, <1>4, <1>5

LEMMA ConnectedKeeps == \A k \in Tasks : TabInv /\ Connected(k) => TabInv'
<1> SUFFICES ASSUME NEW k \in Tasks, TabInv, Connected(k) PROVE TabInv'
  OBVIOUS
<1> DEFINE s == task[k].sid
           t == IF Gone THEN tab ELSE updateSessionConnected(s)
<1>1. /\ task[k].at = "answered" /\ Back(k, t) /\ UNCHANGED <<backend, gen, mail, missed>>
      /\ stray' = stray \union (IF Gone THEN {s} ELSE {tab.sid} \ {NoOne})
  BY DEF Connected
<1>2. /\ Types /\ SessionsTypeOK /\ HeldByOne /\ NoOne \notin Sids
      /\ (tab.sid # NoOne <=> tab.status = "connected")
      /\ tab.sid \in Sids \union {NoOne} /\ \A j \in Tasks : task[j] \in TaskSet
      /\ \A r \in missed : r \in Sids /\ pump[r] = "gone"
      /\ \A event \in mail : event.sid \in Sids /\ pump[event.sid] = "gone"
  BY Typed
<1>3. /\ s \in Sids /\ s \in table \union missed /\ tab.sid # s
      /\ \A j \in Tasks : task[j].at = "answered" /\ task[j].sid = s => j = k
  BY <1>1 DEF TabInv, Answers
<1>4. /\ t \in TabSet
      /\ Gone => t = tab
      /\ ~Gone => t.sid = s /\ t.status = "connected" /\ ~t.reconnecting
  BY <1>2, <1>3 DEF Types, TabSet, updateSessionConnected
<1>5. /\ tab' \in TabSet /\ task' \in [Tasks -> TaskSet]
      /\ tab'.status = t.status /\ tab'.sid = t.sid /\ tab'.reconnecting = t.reconnecting
      /\ task'[k].at \in {"none", "waiting"} /\ \A j \in Tasks : j # k => task'[j] = task[j]
  <2> HIDE DEF t
  <2> QED BY <1>1, <1>4, BackDoes
<1>6. UNCHANGED <<table, lock, pump, local, far, byUser, queue, call, gen, mail, missed>>
  BY <1>1 DEF backend
<1>7. stray' \subseteq Sids
  BY <1>1, <1>2, <1>3 DEF Types
<1>8. TypeOK' /\ HeldByOne'
  <2>1. Types'
    BY <1>2, <1>5, <1>6, <1>7 DEF Types
  <2>2. SessionsTypeOK' /\ HeldByOne'
    BY <1>2, <1>6 DEF SessionsTypeOK, HeldByOne, Holds, Free
  <2>3. tab'.sid # NoOne <=> tab'.status = "connected"
    <3> HIDE DEF t
    <3> QED BY <1>2, <1>3, <1>4, <1>5
  <2> QED BY <2>1, <2>2, <2>3, TypeAgain
<1>9. tab'.sid = (IF Gone THEN tab.sid ELSE s) /\ (Gone => tab'.status = "gone" /\ tab.sid = NoOne)
      /\ ~tab'.reconnecting /\ (~Gone => tab'.status = "connected")
  <2>1. Gone => tab.sid = NoOne /\ ~tab.reconnecting /\ tab.status = "gone"
    BY <1>2 DEF Gone, TabInv, GoneIsQuiet
  <2> HIDE DEF t
  <2> QED BY <2>1, <1>4, <1>5
<1> HIDE DEF t
<1>10. Answers'
  <2> SUFFICES ASSUME NEW j \in Tasks, task'[j].at = "answered"
               PROVE  /\ task'[j].sid \in Sids /\ task'[j].sid \in table' \union missed'
                      /\ tab'.sid # task'[j].sid
                      /\ \A i \in Tasks : task'[i].at = "answered" /\ task'[i].sid = task'[j].sid
                            => i = j
    BY DEF Answers
  <2>1. \A i \in Tasks : task'[i].at = "answered" => i # k /\ task'[i] = task[i]
    BY <1>5
  <2>2. /\ task[j].sid \in Sids /\ task[j].sid \in table \union missed /\ tab.sid # task[j].sid
        /\ \A i \in Tasks : task[i].at = "answered" /\ task[i].sid = task[j].sid => i = j
    BY <2>1 DEF TabInv, Answers
  <2>3. task[j].sid # s
    BY <1>3, <2>1
  <2> QED BY <1>6, <1>9, <2>1, <2>2, <2>3
<1>11. HeardIsOver'
  BY <1>2, <1>6 DEF HeardIsOver
<1>12. Opening' /\ GoneIsQuiet' /\ ReconnectingIsTrue'
  BY <1>9 DEF Opening, GoneIsQuiet, ReconnectingIsTrue
<1>13. TabKnows'
  BY <1>3, <1>6, <1>9 DEF TabKnows
<1>14. NoneAbandoned'
  <2> SUFFICES ASSUME NEW r \in Sids, Alive(r)'
               PROVE  \/ tab'.sid = r \/ r \in stray' \/ ClosingOf(r)'
                      \/ \E j \in Tasks : task'[j].at = "answered" /\ task'[j].sid = r
    BY DEF NoneAbandoned
  <2>1. Alive(r) /\ (ClosingOf(r) => ClosingOf(r)')
    BY <1>6 DEF Alive, ClosingOf, Asked
  <2>2. r = s => tab'.sid = r \/ r \in stray'
    BY <1>1, <1>9
  <2>3. tab.sid = r => r \in stray'
    BY <1>1, <1>2, <1>9
  <2>4. ASSUME NEW j \in Tasks, task[j].at = "answered", task[j].sid = r, j # k
        PROVE  task'[j].at = "answered" /\ task'[j].sid = r
    BY <1>5, <2>4
  <2>5. r \in stray => r \in stray'
    BY <1>1
  <2> QED BY <2>1, <2>2, <2>3, <2>4, <2>5 DEF TabInv, NoneAbandoned
<1> QED BY <1>8, <1>10, <1>11, <1>12, <1>13, <1>14 DEF TabInv, TabIsTrue

LEMMA NotConnectedKeeps == \A k \in Tasks : TabInv /\ NotConnected(k) => TabInv'
<1> SUFFICES ASSUME NEW k \in Tasks, TabInv, NotConnected(k) PROVE TabInv'
  OBVIOUS
<1> DEFINE t == IF Gone THEN tab
                ELSE IF tab.status = "connecting" THEN [tab EXCEPT !.status = "error"]
                ELSE [tab EXCEPT !.reconnecting = FALSE]
<1>1. /\ task[k].at = "connecting" /\ Back(k, t)
      /\ UNCHANGED <<backend, gen, mail, missed, stray>>
  BY DEF NotConnected
<1>2. /\ Types /\ SessionsTypeOK /\ HeldByOne /\ NoOne \notin Sids
      /\ (tab.sid # NoOne <=> tab.status = "connected")
      /\ \A r \in missed : r \in Sids /\ pump[r] = "gone"
      /\ \A event \in mail : event.sid \in Sids /\ pump[event.sid] = "gone"
  BY Typed
<1>3. tab.status = "connecting" => ~tab.reconnecting
  BY DEF TabInv, Opening
<1>4. tab.status = "gone" => ~tab.reconnecting
  BY DEF TabInv, GoneIsQuiet
<1>5. /\ t \in TabSet /\ t.sid = tab.sid /\ ~t.reconnecting /\ t.status # "connecting"
      /\ t.status = tab.status \/ (tab.status = "connecting" /\ t.status = "error")
  BY <1>2, <1>3, <1>4 DEF Types, TabSet, Gone
<1> HIDE DEF t
<1>6. /\ tab' \in TabSet /\ task' \in [Tasks -> TaskSet]
      /\ tab'.status = t.status /\ tab'.sid = t.sid /\ tab'.reconnecting = t.reconnecting
      /\ task'[k].at \in {"none", "waiting"} /\ \A j \in Tasks : j # k => task'[j] = task[j]
  BY <1>1, <1>5, BackDoes
<1>7. UNCHANGED <<table, lock, pump, local, far, byUser, queue, call, gen, mail, missed, stray>>
  BY <1>1 DEF backend
<1>8. TypeOK' /\ HeldByOne'
  <2>1. Types'
    BY <1>2, <1>6, <1>7 DEF Types
  <2>2. SessionsTypeOK' /\ HeldByOne'
    BY <1>2, <1>7 DEF SessionsTypeOK, HeldByOne, Holds, Free
  <2>3. tab'.sid # NoOne <=> tab'.status = "connected"
    BY <1>2, <1>5, <1>6
  <2> QED BY <2>1, <2>2, <2>3, TypeAgain
<1>9. \A j \in Tasks : /\ task'[j].at = "answered" => task[j].at = "answered" /\ task'[j] = task[j]
                       /\ task[j].at = "answered" => task'[j] = task[j]
  BY <1>1, <1>6
<1>10. Answers'
  BY <1>5, <1>6, <1>7, <1>9 DEF TabInv, Answers
<1>11. HeardIsOver' /\ Opening' /\ GoneIsQuiet' /\ ReconnectingIsTrue'
  BY <1>2, <1>5, <1>6, <1>7 DEF HeardIsOver, Opening, GoneIsQuiet, ReconnectingIsTrue
<1>12. TabKnows'
  BY <1>5, <1>6, <1>7 DEF TabInv, TabIsTrue, TabKnows
<1>13. NoneAbandoned'
  BY <1>5, <1>6, <1>7, <1>9 DEF TabInv, NoneAbandoned, Alive, ClosingOf, Asked
<1> QED BY <1>8, <1>10, <1>11, <1>12, <1>13 DEF TabInv, TabIsTrue

\* A window that goes on while the backend rests.
LEMMA BackendRests == TabInv /\ UNCHANGED backend => Backs
<1> SUFFICES ASSUME TabInv, UNCHANGED backend PROVE Backs
  OBVIOUS
<1>1. SessionsTypeOK /\ HeldByOne
  BY Typed
<1>2. UNCHANGED <<table, lock, pump, local, far, byUser, queue, call>>
  BY DEF backend
<1> QED BY <1>1, <1>2 DEF Backs, SessionsTypeOK, HeldByOne, Holds, Free, Alive, ClosingOf, Asked

\* A backend that goes on while the window rests.
LEMMA WindowRests == TabInv /\ Backs /\ UNCHANGED window => TabInv'
<1> SUFFICES ASSUME TabInv, Backs, UNCHANGED window PROVE TabInv'
  OBVIOUS
<1>1. UNCHANGED <<tab, gen, task, mail, missed, stray>>
  BY DEF window
<1>2. Types'
  BY <1>1, Typed DEF Types
<1>3. tab'.status = "gone" => ~tab'.reconnecting
  BY <1>1 DEF TabInv, GoneIsQuiet
<1>4. Fronts
  BY <1>1, <1>2, <1>3 DEF Fronts
<1> QED BY <1>4, QuietKeeps

LEMMA BackendStepKeeps == TabInv /\ (BackendStep \/ FarStep) => TabInv'
<1> SUFFICES ASSUME TabInv, BackendStep \/ FarStep PROVE TabInv'
  OBVIOUS
<1>1. TypeOK /\ HeldByOne
  BY DEF TabInv
<1>2. UNCHANGED window
  BY DEF BackendStep, FarStep
<1>3. CASE CallStep
  <2>1. PICK c \in Callers : CallStepOf(c)
    BY <1>3 DEF CallStep
  <2>2. /\ SessionsTypeOK' /\ HeldByOne' /\ UNCHANGED <<table, pump, local, far, byUser>>
        /\ \A s \in Sids : Alive(s) /\ ClosingOf(s) => ClosingOf(s)'
    BY <1>1, <2>1, CallStepDoes
  <2>3. Backs
    BY <2>2 DEF Backs, Alive
  <2> QED BY <1>2, <2>3, WindowRests
<1>4. CASE \E s \in Sids : LoopStep(s) \/ HostStep(s)
  <2>1. PICK s \in Sids : LoopStep(s) \/ HostStep(s)
    BY <1>4
  <2>2. /\ SessionsTypeOK' /\ HeldByOne' /\ UNCHANGED <<table, call>>
        /\ \A t \in Sids : /\ pump[t] = "gone" => pump'[t] = "gone"
                           /\ Alive(t)' => Alive(t)
                           /\ Alive(t)' /\ ClosingOf(t) => ClosingOf(t)'
    BY <1>1, <2>1, LoopStepDoes
  <2>3. Backs
    BY <2>2 DEF Backs
  <2> QED BY <1>2, <2>3, WindowRests
<1> QED BY <1>3, <1>4 DEF BackendStep, FarStep

LEMMA CommandKeeps == \A c \in Callers, op \in Used : TabInv /\ Command1(c, op) => TabInv'
<1> SUFFICES ASSUME NEW c \in Callers, NEW op \in Used, TabInv, Command1(c, op) PROVE TabInv'
  OBVIOUS
<1>1. TypeOK /\ HeldByOne /\ tab.sid \in Sids /\ op \in Commands
  BY Typed DEF Command1, TabInv
<1>2. Call(c, op, tab.sid) /\ UNCHANGED window
  BY DEF Command1
<1>3. /\ SessionsTypeOK' /\ HeldByOne' /\ UNCHANGED <<table, pump>>
      /\ \A t \in Sids : ClosingOf(t) => ClosingOf(t)'
  BY <1>1, <1>2, CallDoes
<1>4. Backs
  BY <1>3 DEF Backs, Alive
<1> QED BY <1>2, <1>4, WindowRests

LEMMA CloseKeeps == \A c \in Callers : TabInv /\ handleCloseTab(c) => TabInv'
<1> SUFFICES ASSUME NEW c \in Callers, TabInv, handleCloseTab(c) PROVE TabInv'
  OBVIOUS
<1>1. /\ TypeOK /\ HeldByOne /\ tab.sid \in Sids \union {NoOne} /\ NoOne \notin Sids /\ Types
      /\ tab.status # "gone"
  BY Typed DEF TabInv, handleCloseTab, Gone
<1>2. Backs /\ (\A s \in Sids : tab.sid = s => ClosingOf(s)')
  <2>1. CASE tab.sid = NoOne
    BY <2>1, <1>1, BackendRests DEF handleCloseTab
  <2>2. CASE tab.sid # NoOne
    <3>1. Call(c, "disconnect", tab.sid) /\ tab.sid \in Sids /\ "disconnect" \in Commands
      BY <1>1, <2>2, CommandTable DEF handleCloseTab
    <3>2. /\ SessionsTypeOK' /\ HeldByOne' /\ UNCHANGED <<table, pump>>
          /\ \A t \in Sids : ClosingOf(t) => ClosingOf(t)'
      BY <1>1, <3>1, CallDoes
    <3>3. ASSUME NEW s \in Sids, tab.sid = s PROVE ClosingOf(s)'
      <4>1. Call(c, "disconnect", s)
        BY <3>1, <3>3
      <4> QED BY <1>1, <3>1, <4>1, CallDoes
    <3> QED BY <3>2, <3>3 DEF Backs, Alive
  <2> QED BY <2>1, <2>2
<1>3. tab' = removed(tab) /\ UNCHANGED <<gen, task, mail, missed, stray>>
  BY DEF handleCloseTab
<1>4. /\ tab' \in TabSet /\ tab'.status = "gone" /\ tab'.sid = NoOne /\ ~tab'.reconnecting
  BY <1>1, <1>3 DEF removed, Types, TabSet
<1>5. Types'
  BY <1>1, <1>3, <1>4 DEF Types
<1>6. \A event \in mail : event.sid # NoOne
  BY <1>1, Typed
<1>7. Fronts
  BY <1>2, <1>3, <1>4, <1>5, <1>6 DEF Fronts
<1> QED BY <1>2, <1>7, QuietKeeps

\* A step of the window that keeps its tab's session, and begins or ends no connect.
LEMMA Unhurried ==
  ASSUME TabInv, UNCHANGED <<backend, mail, missed, stray>>, gen' \in 0 .. MaxNow,
         tab' \in TabSet, task' \in [Tasks -> TaskSet],
         tab'.sid = tab.sid, tab'.status = tab.status,
         \A k \in Tasks : /\ task[k].at \in {"connecting", "answered"} => task'[k] = task[k]
                          /\ task'[k].at = "answered" => task[k].at = "answered",
         tab'.reconnecting => tab.reconnecting \/ \E k \in Tasks : task'[k].at = "connecting",
         tab'.status = "gone" => ~tab'.reconnecting,
         tab.status # "connecting"
  PROVE  TabInv'
<1>1. Backs
  BY BackendRests
<1>2. Types'
  BY Typed DEF Types
<1>3. Fronts
  BY <1>2 DEF Fronts
<1> QED BY <1>1, <1>3, QuietKeeps

\* reconnectSession changes nothing that is under way.
LEMMA ReconnectDoes ==
  ASSUME TabInv, NEW k \in Tasks, NEW t \in TabSet, task[k].at \in {"none", "waiting"},
         t.sid = tab.sid, t.status = tab.status, t.reconnecting = tab.reconnecting,
         tab.status # "connecting",
         UNCHANGED <<backend, gen, mail, missed, stray>>,
         reconnectSession(k, t)
  PROVE  TabInv'
<1>1. Types /\ (tab.status = "gone" => ~tab.reconnecting)
  BY Typed DEF TabInv, GoneIsQuiet
<1>2. CASE CanReconnect(t)
  <2>1. tab' = t /\ task' = [task EXCEPT ![k].at = "resolving", ![k].gen = 0]
    BY <1>2 DEF reconnectSession
  <2>2. task \in [Tasks -> TaskSet] /\ task[k] \in TaskSet
    BY <1>1 DEF Types
  <2>3. 0 \in 0 .. MaxNow
    OBVIOUS
  <2>4. /\ [[task[k] EXCEPT !.at = "resolving"] EXCEPT !.gen = 0] \in TaskSet
        /\ [[task[k] EXCEPT !.at = "resolving"] EXCEPT !.gen = 0].at = "resolving"
    BY <2>2, <2>3 DEF TaskSet, Places
  <2>5. task' = [task EXCEPT ![k] = [[task[k] EXCEPT !.at = "resolving"] EXCEPT !.gen = 0]]
    BY <2>1, <2>2
  <2>6. /\ task' \in [Tasks -> TaskSet] /\ task'[k].at = "resolving"
        /\ \A j \in Tasks : j # k => task'[j] = task[j]
    BY <2>2, <2>4, <2>5
  <2>7. \A j \in Tasks : /\ task[j].at \in {"connecting", "answered"} => task'[j] = task[j]
                         /\ task'[j].at = "answered" => task[j].at = "answered"
    BY <2>6
  <2>8. gen' \in 0 .. MaxNow
    BY <1>1 DEF Types
  <2> QED BY <1>1, <2>1, <2>6, <2>7, <2>8, Unhurried
<1>3. CASE ~CanReconnect(t)
  <2>1. Back(k, t)
    BY <1>3 DEF reconnectSession
  <2>2. /\ tab' \in TabSet /\ task' \in [Tasks -> TaskSet]
        /\ tab'.status = t.status /\ tab'.sid = t.sid /\ tab'.reconnecting = t.reconnecting
        /\ task'[k].at \in {"none", "waiting"} /\ \A j \in Tasks : j # k => task'[j] = task[j]
    BY <2>1, BackDoes
  <2>3. \A j \in Tasks : /\ task[j].at \in {"connecting", "answered"} => task'[j] = task[j]
                         /\ task'[j].at = "answered" => task[j].at = "answered"
    BY <2>2
  <2>4. gen' \in 0 .. MaxNow
    BY <1>1 DEF Types
  <2> QED BY <1>1, <2>2, <2>3, <2>4, Unhurried
<1> QED BY <1>2, <1>3

LEMMA TaskMoves ==
  ASSUME TabInv, NEW k \in Tasks, NEW new \in TaskSet,
         task[k].at \notin {"connecting", "answered"}, new.at # "answered",
         task' = [task EXCEPT ![k] = new]
  PROVE  /\ task' \in [Tasks -> TaskSet] /\ task'[k] = new
         /\ \A j \in Tasks : /\ task[j].at \in {"connecting", "answered"} => task'[j] = task[j]
                             /\ task'[j].at = "answered" => task[j].at = "answered"
<1>1. task \in [Tasks -> TaskSet]
  BY Typed DEF Types
<1>2. task' \in [Tasks -> TaskSet] /\ task'[k] = new /\ \A j \in Tasks : j # k => task'[j] = task[j]
  BY <1>1
<1> QED BY <1>2

LEMMA WakeKeeps == \A l \in Loops : TabInv /\ Wake(l) => TabInv'
<1> SUFFICES ASSUME NEW l \in Loops, TabInv, Wake(l) PROVE TabInv'
  OBVIOUS
<1>1. /\ l \in Tasks /\ task[l].at = "waiting" /\ UNCHANGED <<backend, gen, mail, missed, stray>>
  BY DEF Wake, Tasks
<1>2. tab.status # "connecting"
  <2>1. l # User /\ task[l].at \notin {"none", "connecting", "answered"}
    BY <1>1 DEF Loops, User
  <2> QED BY <1>1, <2>1 DEF TabInv, Opening
<1>3. Types /\ (tab.status = "gone" => ~tab.reconnecting) /\ tab \in TabSet /\ gen \in 0 .. MaxNow
  BY Typed DEF TabInv, GoneIsQuiet, Types
<1>4. NoTask \in TaskSet /\ NoTask.at = "none"
  BY DEF NoTask, TaskSet, Places
<1>5. CASE task' = [task EXCEPT ![l] = NoTask] /\ tab' \in {tab, [tab EXCEPT !.retrying = FALSE]}
  <2>1. /\ tab' \in TabSet /\ tab'.sid = tab.sid /\ tab'.status = tab.status
        /\ tab'.reconnecting = tab.reconnecting
    BY <1>3, <1>5 DEF TabSet
  <2>2. /\ task' \in [Tasks -> TaskSet]
        /\ \A j \in Tasks : /\ task[j].at \in {"connecting", "answered"} => task'[j] = task[j]
                            /\ task'[j].at = "answered" => task[j].at = "answered"
    BY <1>1, <1>4, <1>5, TaskMoves
  <2> QED BY <1>1, <1>2, <1>3, <2>1, <2>2, Unhurried
<1>6. CASE reconnectSession(l, tab)
  BY <1>1, <1>2, <1>3, <1>6, ReconnectDoes
<1> QED BY <1>5, <1>6 DEF Wake

LEMMA NowKeeps == TabInv /\ retryTabsNow => TabInv'
<1> SUFFICES ASSUME TabInv, retryTabsNow PROVE TabInv'
  OBVIOUS
<1>1. /\ tab.retrying /\ gen < MaxNow /\ FreeLoop # {} /\ gen' = gen + 1
      /\ UNCHANGED <<backend, tab, mail, missed, stray>>
  BY DEF retryTabsNow
<1>2. PICK attempt \in {task[l].attempt : l \in Loops \ FreeLoop} \union {1} :
         task' = [task EXCEPT ![NextFree] = Waiting(gen + 1, attempt)]
  BY DEF retryTabsNow
<1>3. /\ Types /\ tab \in TabSet /\ gen \in 0 .. MaxNow /\ (tab.status = "gone" => ~tab.reconnecting)
      /\ \A k \in Tasks : task[k] \in TaskSet
  BY Typed DEF TabInv, GoneIsQuiet, Types
<1>4. tab.status # "connecting"
  BY <1>1 DEF TabInv, Opening
<1>5. NextFree \in Tasks /\ task[NextFree].at = "none"
  BY <1>1, NextFreeIs DEF Tasks
<1>6. attempt \in 1 .. Limit
  <2>1. \A l \in Loops : task[l].attempt \in 1 .. Limit
    BY <1>3 DEF Tasks, TaskSet
  <2> QED BY <1>2, <2>1
<1>7. gen + 1 \in 0 .. MaxNow
  BY <1>1, <1>3
<1>8. Waiting(gen + 1, attempt) \in TaskSet /\ Waiting(gen + 1, attempt).at = "waiting"
  BY <1>6, <1>7 DEF Waiting, NoTask, TaskSet, Places
<1>9. /\ task' \in [Tasks -> TaskSet]
      /\ \A j \in Tasks : /\ task[j].at \in {"connecting", "answered"} => task'[j] = task[j]
                          /\ task'[j].at = "answered" => task[j].at = "answered"
  BY <1>2, <1>5, <1>8, TaskMoves
<1>10. gen' \in 0 .. MaxNow
  BY <1>1, <1>7
<1> QED BY <1>1, <1>3, <1>4, <1>9, <1>10, Unhurried

LEMMA ResolvedKeeps == \A k \in Tasks : TabInv /\ (Resolved(k) \/ Unresolved(k)) => TabInv'
<1> SUFFICES ASSUME NEW k \in Tasks, TabInv, Resolved(k) \/ Unresolved(k) PROVE TabInv'
  OBVIOUS
<1>1. task[k].at = "resolving" /\ UNCHANGED <<backend, gen, mail, missed, stray>>
  BY DEF Resolved, Unresolved
<1>2. tab.status # "connecting"
  BY <1>1 DEF TabInv, Opening
<1>3. /\ Types /\ tab \in TabSet /\ gen \in 0 .. MaxNow /\ (tab.status = "gone" => ~tab.reconnecting)
      /\ task \in [Tasks -> TaskSet] /\ task[k] \in TaskSet
  BY Typed DEF TabInv, GoneIsQuiet, Types
<1>4. CASE Resolved(k)
  <2>1. /\ task' = [task EXCEPT ![k] = [task[k] EXCEPT !.at = "connecting"]]
        /\ [task[k] EXCEPT !.at = "connecting"] \in TaskSet
        /\ [task[k] EXCEPT !.at = "connecting"].at = "connecting"
    BY <1>3, <1>4 DEF Resolved, TaskSet, Places
  <2>2. /\ task' \in [Tasks -> TaskSet] /\ task'[k].at = "connecting"
        /\ \A j \in Tasks : /\ task[j].at \in {"connecting", "answered"} => task'[j] = task[j]
                            /\ task'[j].at = "answered" => task[j].at = "answered"
    BY <1>1, <2>1, TaskMoves
  <2>3. tab' = IF tab.status = "gone" THEN tab ELSE [tab EXCEPT !.reconnecting = TRUE]
    BY <1>4 DEF Resolved, Gone
  <2>4. /\ tab' \in TabSet /\ tab'.sid = tab.sid /\ tab'.status = tab.status
        /\ tab'.status = "gone" => ~tab'.reconnecting
    BY <1>3, <2>3 DEF TabSet
  <2> QED BY <1>1, <1>2, <1>3, <2>2, <2>4, Unhurried
<1>5. CASE Unresolved(k)
  <2>1. Back(k, tab)
    BY <1>5 DEF Unresolved
  <2>2. /\ tab' \in TabSet /\ task' \in [Tasks -> TaskSet]
        /\ tab'.status = tab.status /\ tab'.sid = tab.sid /\ tab'.reconnecting = tab.reconnecting
        /\ task'[k].at \in {"none", "waiting"} /\ \A j \in Tasks : j # k => task'[j] = task[j]
    BY <1>3, <2>1, BackDoes
  <2>3. \A j \in Tasks : /\ task[j].at \in {"connecting", "answered"} => task'[j] = task[j]
                         /\ task'[j].at = "answered" => task[j].at = "answered"
    BY <1>1, <2>2
  <2> QED BY <1>1, <1>2, <1>3, <2>2, <2>3, Unhurried
<1> QED BY <1>4, <1>5

LEMMA ListensKeeps == TabInv /\ (AddListeners \/ Stop) => TabInv'
<1> SUFFICES ASSUME TabInv, AddListeners \/ Stop PROVE TabInv'
  OBVIOUS
<1>1. /\ Types /\ tab \in TabSet /\ gen \in 0 .. MaxNow /\ (tab.status = "gone" => ~tab.reconnecting)
      /\ task \in [Tasks -> TaskSet] /\ (tab.sid # NoOne <=> tab.status = "connected")
  BY Typed DEF TabInv, GoneIsQuiet, Types
<1>2. /\ UNCHANGED <<backend, gen, task, mail, missed, stray>> /\ tab.status # "connecting"
      /\ tab' \in {[tab EXCEPT !.hears = TRUE], [tab EXCEPT !.retrying = FALSE]}
  BY <1>1 DEF AddListeners, Stop
<1>3. /\ tab' \in TabSet /\ tab'.sid = tab.sid /\ tab'.status = tab.status
      /\ tab'.reconnecting = tab.reconnecting
  BY <1>1, <1>2 DEF TabSet
<1> QED BY <1>1, <1>2, <1>3, Unhurried

LEMMA TryNowKeeps == TabInv /\ (TryNow \/ Enter) => TabInv'
<1> SUFFICES ASSUME TabInv, TryNow \/ Enter PROVE TabInv'
  OBVIOUS
<1>1. tab \in TabSet /\ User \in Tasks
  BY Typed DEF Types, Tasks
<1>2. /\ task[User].at = "none" /\ tab.status = "dropped"
      /\ UNCHANGED <<backend, gen, mail, missed, stray>>
      /\ reconnectSession(User, [tab EXCEPT !.retrying = FALSE]) \/ reconnectSession(User, tab)
  BY DEF TryNow, Enter, CanReconnect
<1>3. LET t == [tab EXCEPT !.retrying = FALSE]
      IN  t \in TabSet /\ t.sid = tab.sid /\ t.status = tab.status
          /\ t.reconnecting = tab.reconnecting
  BY <1>1 DEF TabSet
<1> QED BY <1>1, <1>2, <1>3, ReconnectDoes

LEMMA HearsEndKeeps == TabInv /\ HearsEnd => TabInv'
<1> SUFFICES ASSUME TabInv, HearsEnd PROVE TabInv'
  OBVIOUS
<1>1. PICK event \in mail :
         /\ mail' = mail \ {event}
         /\ IF event.sid # tab.sid THEN UNCHANGED <<tab, task>>
            ELSE IF event.reason = "dropped" THEN markDropped(FALSE)
            ELSE \/ tab' = removed(tab) /\ UNCHANGED task
                 \/ event.reason = "exited" /\ tab.kind = "saved" /\ markDropped(TRUE)
  BY DEF HearsEnd
<1>2. UNCHANGED <<backend, gen, missed, stray>>
  BY DEF HearsEnd
<1>3. /\ Types /\ tab \in TabSet /\ gen \in 0 .. MaxNow /\ (tab.status = "gone" => ~tab.reconnecting)
      /\ task \in [Tasks -> TaskSet] /\ NoOne \notin Sids
      /\ \A e \in mail : e.sid \in Sids /\ pump[e.sid] = "gone"
      /\ (tab.sid # NoOne <=> tab.status = "connected")
  BY Typed DEF TabInv, GoneIsQuiet, Types
<1>4. Backs
  BY <1>2, BackendRests
<1>5. CASE event.sid # tab.sid /\ UNCHANGED <<tab, task>>
  <2>1. Types'
    BY <1>1, <1>2, <1>3, <1>5 DEF Types
  <2>2. Fronts
    BY <1>1, <1>2, <1>3, <1>5, <2>1 DEF Fronts
  <2> QED BY <1>4, <2>2, QuietKeeps
<1>6. ASSUME event.sid = tab.sid, tab' \in TabSet, tab'.sid = NoOne,
             \/ tab'.status = "gone" /\ ~tab'.reconnecting
             \/ tab'.status = "dropped" /\ tab'.reconnecting = tab.reconnecting,
             task' \in [Tasks -> TaskSet],
             \A j \in Tasks : /\ task[j].at \in {"connecting", "answered"} => task'[j] = task[j]
                              /\ task'[j].at = "answered" => task[j].at = "answered"
      PROVE  TabInv'
  <2>1. Types'
    BY <1>1, <1>2, <1>3, <1>6 DEF Types
  <2>2. \A s \in Sids : tab.sid = s => pump[s] = "gone"
    BY <1>3, <1>6
  <2>3. \A e \in mail : e.sid # NoOne
    BY <1>3
  <2>4. Fronts
    BY <1>1, <1>2, <1>3, <1>6, <2>1, <2>2, <2>3 DEF Fronts
  <2> QED BY <1>4, <2>4, QuietKeeps
<1>7. CASE event.sid = tab.sid /\ tab' = removed(tab) /\ UNCHANGED task
  <2>1. tab' \in TabSet /\ tab'.sid = NoOne /\ tab'.status = "gone" /\ ~tab'.reconnecting
    BY <1>3, <1>7 DEF removed, TabSet
  <2> QED BY <1>3, <1>6, <1>7, <2>1
<1>8. CASE event.sid = tab.sid /\ (markDropped(TRUE) \/ markDropped(FALSE))
  <2>1. /\ Dropped(tab) \in TabSet /\ Dropped(tab).sid = NoOne /\ Dropped(tab).status = "dropped"
        /\ Dropped(tab).reconnecting = tab.reconnecting
    BY <1>3 DEF Dropped, TabSet
  <2>2. CASE tab' = Dropped(tab) /\ UNCHANGED task
    BY <1>3, <1>6, <1>8, <2>1, <2>2
  <2>3. CASE /\ FreeLoop # {} /\ tab' = [Dropped(tab) EXCEPT !.retrying = TRUE]
             /\ task' = [task EXCEPT ![NextFree] = Waiting(gen, 1)]
    <3>1. /\ tab' \in TabSet /\ tab'.sid = NoOne /\ tab'.status = "dropped"
          /\ tab'.reconnecting = tab.reconnecting
      BY <2>1, <2>3 DEF TabSet
    <3>2. NextFree \in Tasks /\ task[NextFree].at = "none"
      BY <2>3, NextFreeIs DEF Tasks
    <3>3. Waiting(gen, 1) \in TaskSet /\ Waiting(gen, 1).at = "waiting"
      <4>1. gen \in 0 .. MaxNow /\ 1 \in 1 .. Limit
        BY <1>3
      <4>2. \A attempt \in 1 .. Limit :
               Waiting(gen, attempt) \in TaskSet /\ Waiting(gen, attempt).at = "waiting"
        BY <4>1 DEF Waiting, NoTask, TaskSet, Places
      <4> QED BY <4>1, <4>2
    <3>4. /\ task' \in [Tasks -> TaskSet]
          /\ \A j \in Tasks : /\ task[j].at \in {"connecting", "answered"} => task'[j] = task[j]
                              /\ task'[j].at = "answered" => task[j].at = "answered"
      BY <2>3, <3>2, <3>3, TaskMoves
    <3> QED BY <1>6, <1>8, <3>1, <3>4
  <2> QED BY <1>8, <2>2, <2>3 DEF markDropped
<1> QED BY <1>1, <1>5, <1>7, <1>8

LEMMA TabStarts == Init => TabInv
<1> SUFFICES ASSUME Init PROVE TabInv
  OBVIOUS
<1>1. /\ table = {} /\ lock = NoOne /\ pump = [s \in Sids |-> "none"] /\ local = {}
      /\ far = [s \in Sids |-> "up"] /\ byUser = {} /\ queue = [s \in Sids |-> <<>>]
      /\ call = [c \in Callers |-> NoCall] /\ gen = 0 /\ mail = {} /\ missed = {} /\ stray = {}
  BY DEF Init, SessionsInit
<1>2. NoOne \notin Sids /\ NoTask \in TaskSet /\ NoTask.at = "none" /\ 0 \in 0 .. MaxNow
  BY DEF Sids, NoTask, TaskSet, Places
<1>3. /\ \A at \in Places : [NoTask EXCEPT !.at = at] \in TaskSet
                            /\ [NoTask EXCEPT !.at = at].at = at
  BY <1>2 DEF TaskSet
<1>4. /\ tab \in TabSet /\ tab.sid = NoOne /\ tab.status \in {"connecting", "dropped"}
      /\ ~tab.reconnecting /\ (tab.status = "connecting" => ~tab.retrying)
  <2>1. /\ NewTab = [status |-> "connecting", sid |-> NoOne, kind |-> "saved",
                     reconnecting |-> FALSE, retrying |-> FALSE, hears |-> FALSE]
        /\ NewTab \in TabSet
    BY DEF NewTab, TabSet
  <2>2. ASSUME NEW kind \in Kinds, tab = [NewTab EXCEPT !.kind = kind] PROVE <1>4
    BY <2>1, <2>2 DEF TabSet
  <2>3. CASE tab = [NewTab EXCEPT !.status = "dropped", !.retrying = TRUE]
    BY <2>1, <2>3 DEF TabSet
  <2> QED BY <2>2, <2>3 DEF Init
<1>5. /\ task \in [Tasks -> TaskSet]
      /\ \A k \in Tasks : task[k].at = "none"
                          \/ (k = User /\ task[k].at = "connecting" /\ tab.status = "connecting")
                          \/ (k # User /\ task[k].at = "waiting" /\ tab.status = "dropped")
  <2>1. CASE /\ tab.status = "connecting"
             /\ task = [k \in Tasks |->
                          IF k = User THEN [NoTask EXCEPT !.at = "connecting"] ELSE NoTask]
    BY <1>2, <1>3, <2>1 DEF Places
  <2>2. CASE /\ tab.status = "dropped"
             /\ task = [k \in Tasks |->
                          IF k = 1 THEN [NoTask EXCEPT !.at = "waiting"] ELSE NoTask]
    BY <1>2, <1>3, <2>2 DEF Places, User
  <2> QED BY <2>1, <2>2 DEF Init, NewTab
<1>6. SessionsTypeOK
  <2>1. NoCall = [op |-> NoOne, sid |-> NoOne, at |-> "idle"]
    BY DEF NoCall
  <2>2. \A s \in Sids : queue[s] \in Seq(Says) /\ Len(queue[s]) <= Room
    BY <1>1, EmptySeq
  <2> QED BY <1>1, <2>1, <2>2 DEF SessionsTypeOK, Says, Free
<1>7. TypeOK /\ HeldByOne
  <2>1. Types /\ (tab.sid # NoOne <=> tab.status = "connected")
    BY <1>1, <1>2, <1>4, <1>5 DEF Types
  <2> QED BY <1>1, <1>6, <2>1, TypesAre DEF HeldByOne, NoCall
<1>8. Answers /\ HeardIsOver /\ Opening /\ GoneIsQuiet
  BY <1>1, <1>4, <1>5 DEF Answers, HeardIsOver, Opening, GoneIsQuiet
<1>9. TabIsTrue /\ NoneAbandoned
  BY <1>1, <1>4 DEF TabIsTrue, TabKnows, ReconnectingIsTrue, NoneAbandoned, Alive
<1> QED BY <1>7, <1>8, <1>9 DEF TabInv

LEMMA TabStays == Spec => []TabInv
<1>1. TabInv /\ [Next]_vars => TabInv'
  <2> SUFFICES ASSUME TabInv, [Next]_vars PROVE TabInv'
    OBVIOUS
  <2>1. CASE UNCHANGED vars
    <3>1. Backs /\ UNCHANGED window
      BY <2>1, BackendRests DEF vars
    <3> QED BY <3>1, WindowRests
  <2>2. CASE BackendStep \/ FarStep
    BY <2>2, BackendStepKeeps
  <2>3. CASE \E s \in Sids : Ended(s)
    BY <2>3, EndedKeeps
  <2>4. CASE \E k \in Tasks : ConnectStep(k)
    BY <2>4, ResolvedKeeps, OpenedKeeps, NotConnectedKeeps, ConnectedKeeps DEF ConnectStep
  <2>5. CASE WindowStep
    BY <2>5, ListensKeeps, HearsEndKeeps DEF WindowStep
  <2>6. CASE (\E l \in Loops : Wake(l)) \/ retryTabsNow
    BY <2>6, WakeKeeps, NowKeeps
  <2>7. CASE UserStep
    BY <2>7, CloseKeeps, CommandKeeps, ListensKeeps, TryNowKeeps DEF UserStep
  <2> QED BY <2>1, <2>2, <2>3, <2>4, <2>5, <2>6, <2>7 DEF Next
<1> QED BY <1>1, TabStarts, PTL DEF Spec

\* Whatever the window, the backend and the far ends do, each variable of a tab
\* and of its sessions holds what its name says (SshState, sessions.ts, reconnect.ts).
THEOREM TabTypeCorrect == Spec => []TypeOK
<1>1. TabInv => TypeOK
  BY DEF TabInv
<1> QED BY <1>1, TabStays, PTL

\* For any number of sessions, of commands and of retry loops, a tab that is
\* shown as connected has its session or hears of its end, but for one that
\* ended before the terminal listened, and one that says Reconnecting has a
\* connect behind it (updateSessionConnected, markDropped, reconnectSession).
THEOREM TabStaysTrue == Spec => []TabIsTrue
<1>1. TabInv => TabIsTrue
  BY DEF TabInv
<1> QED BY <1>1, TabStays, PTL

\* No session runs on without a tab that shows it or will, or a close on its
\* way, but for those whose connect came back too late (handleCloseTab,
\* reconnectSession): however closes, drops and retries cross.
THEOREM NoSessionIsAbandoned == Spec => []NoneAbandoned
<1>1. TabInv => NoneAbandoned
  BY DEF TabInv
<1> QED BY <1>1, TabStays, PTL

============================================================================
