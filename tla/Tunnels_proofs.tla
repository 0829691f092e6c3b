--------------------------- MODULE Tunnels_proofs ---------------------------
(***************************************************************************)
(* Proofs about Tunnels and Channels, the table of tunnels and what goes   *)
(* through one.                                                            *)
(*                                                                         *)
(* Tunnels: for any rules, any number of starts at once and any number of  *)
(* retry loops. Listed, the inductive invariant, adds to the two properties *)
(* what a start that is on its way has not done yet and what a stop signal *)
(* was sent to.                                                            *)
(*                                                                         *)
(* Channels: for any number of guests, any size of a socket and of a       *)
(* window, and any amount of data and of requests. The four things a       *)
(* channel is used for share nothing but the rule, which no step changes,  *)
(* so each has an invariant of its own.                                    *)
(***************************************************************************)
EXTENDS Tunnels, Channels, SequenceTheorems, TLAPS

----------------------------------------------------------------------------
(* The relay *)

Flows == [made : Nat, here : Nat, there : Nat, read : Nat, ended : BOOLEAN]
Carrying == {"sending", "writing"}

Pipes == [at : {"asked", "refused", "select", "over"} \cup Carrying, hold : Nat,
          up : Flows, down : Flows, busy : BOOLEAN]
Balanced(f, held) == f.made = f.here + held + f.there + f.read

\* What the relay counts, that it holds something while it carries, and that
\* nothing is lost.
RelayInv ==
    /\ pipe \in Pipes
    /\ pipe.at \in Carrying => pipe.hold > 0
    /\ pipe.at # "over" =>
          /\ Balanced(pipe.up, IF pipe.at = "sending" THEN pipe.hold ELSE 0)
          /\ Balanced(pipe.down, IF pipe.at = "writing" THEN pipe.hold ELSE 0)

LEMMA RelayInit == ChannelsInit => RelayInv
<1> SUFFICES ASSUME ChannelsInit PROVE RelayInv
  OBVIOUS
<1>1. PICK busy \in BOOLEAN, at \in {"asked", "select"} :
         pipe = [NewPipe EXCEPT !.at = at, !.busy = busy]
  BY DEF ChannelsInit
<1>2. /\ pipe = [at |-> at, hold |-> 0, up |-> NoFlow, down |-> NoFlow, busy |-> busy]
      /\ NoFlow \in Flows
  BY <1>1 DEF NewPipe, NoFlow, Flows
<1> QED BY <1>2 DEF RelayInv, Pipes, Balanced, NoFlow, Carrying

LEMMA RelayKeeps == RelayInv /\ RelayStep => RelayInv'
<1> SUFFICES ASSUME RelayInv, RelayStep PROVE RelayInv'
  OBVIOUS
<1> USE DEF RelayInv, Relays, Balanced, Flows, Pipes, Carrying
<1>1. CASE server_channel_open_forwarded_tcpip
  BY <1>1 DEF server_channel_open_forwarded_tcpip
<1>2. CASE Makes("up")
  BY <1>2 DEF Makes
<1>3. CASE Makes("down")
  BY <1>3 DEF Makes
<1>4. ASSUME NEW flow \in {"up", "down"}, IsDone(flow) PROVE RelayInv'
  <2>1. CASE flow = "up"
    BY <1>4, <2>1 DEF IsDone
  <2>2. CASE flow = "down"
    BY <1>4, <2>2 DEF IsDone
  <2> QED BY <2>1, <2>2
<1>5. CASE Reads("up")
  BY <1>5 DEF Reads
<1>6. CASE Reads("down")
  BY <1>6 DEF Reads
<1>7. CASE TakesUp
  <2>1. /\ pipe' = [pipe EXCEPT !.at = "sending", !.hold = pipe.up.here, !.up = pipe'.up]
        /\ pipe'.up = [pipe.up EXCEPT !.here = 0]
        /\ pipe.at = "select" /\ pipe.up.here > 0 /\ pipe.up \in Flows
    BY <1>7 DEF TakesUp
  <2>2. pipe'.up \in Flows /\ Balanced(pipe'.up, pipe.up.here)
    BY <2>1
  <2> QED BY <2>1, <2>2
<1>8. CASE TakesDown
  <2> DEFINE flow == [pipe.down EXCEPT !.here = @ - 1]
             to == "writing"
  <2>1. /\ pipe' = [pipe EXCEPT !.at = to, !.hold = 1, !.down = flow]
        /\ pipe.at = "select" /\ pipe.down.here > 0 /\ pipe.down \in Flows
    BY <1>8 DEF TakesDown
  <2>2. flow \in Flows /\ Balanced(flow, 1)
    BY <2>1
  <2>3. to \in Carrying \cup {"select"}
    OBVIOUS
  <2>4. pipe' \in Pipes
    <3> HIDE DEF flow, to, Flows
    <3> QED BY <2>1, <2>2, <2>3
  <2>5. pipe'.at = to /\ pipe'.hold = 1 /\ pipe'.down = flow /\ pipe'.up = pipe.up
    <3> HIDE DEF flow, to, Flows
    <3> QED BY <2>1, <2>2, <2>3
  <2> QED BY <2>1, <2>2, <2>4, <2>5
<1>9. CASE Carries("up")
  <2> DEFINE flow == [pipe.up EXCEPT !.there = @ + 1]
             to == IF pipe.hold = 1 THEN "select" ELSE "sending"
  <2>1. /\ pipe' = [pipe EXCEPT !.at = to, !.hold = @ - 1, !.up = flow]
        /\ pipe.at = "sending" /\ pipe.hold > 0 /\ pipe.up \in Flows
    BY <1>9 DEF Carries
  <2>2. flow \in Flows /\ Balanced(flow, pipe.hold - 1)
    BY <2>1
  <2>3. to \in Carrying \cup {"select"} /\ pipe.hold - 1 \in Nat
    BY <2>1
  <2>4. pipe' \in Pipes
    <3> HIDE DEF flow, to, Flows
    <3> QED BY <2>1, <2>2, <2>3
  <2>5. pipe'.at = to /\ pipe'.hold = pipe.hold - 1 /\ pipe'.up = flow /\ pipe'.down = pipe.down
    <3> HIDE DEF flow, to, Flows
    <3> QED BY <2>1, <2>2, <2>3
  <2> QED BY <2>1, <2>2, <2>4, <2>5
<1>10. CASE Carries("down")
  <2> DEFINE flow == [pipe.down EXCEPT !.there = @ + 1]
             to == IF pipe.hold = 1 THEN "select" ELSE "writing"
  <2>1. /\ pipe' = [pipe EXCEPT !.at = to, !.hold = @ - 1, !.down = flow]
        /\ pipe.at = "writing" /\ pipe.hold > 0 /\ pipe.down \in Flows
    BY <1>10 DEF Carries
  <2>2. flow \in Flows /\ Balanced(flow, pipe.hold - 1)
    BY <2>1
  <2>3. to \in Carrying \cup {"select"} /\ pipe.hold - 1 \in Nat
    BY <2>1
  <2>4. pipe' \in Pipes
    <3> HIDE DEF flow, to, Flows
    <3> QED BY <2>1, <2>2, <2>3
  <2>5. pipe'.at = to /\ pipe'.hold = pipe.hold - 1 /\ pipe'.down = flow /\ pipe'.up = pipe.up
    <3> HIDE DEF flow, to, Flows
    <3> QED BY <2>1, <2>2, <2>3
  <2> QED BY <2>1, <2>2, <2>4, <2>5
<1>11. CASE TakesEof
  BY <1>11 DEF TakesEof
<1> QED
  BY <1>1, <1>2, <1>3, <1>4, <1>5, <1>6, <1>7, <1>8, <1>9, <1>10, <1>11
     DEF RelayStep, proxy_channel, RelayReads

----------------------------------------------------------------------------
(* The X11 channel *)

\* A run of pieces, by their numbers, from the one that is given.
Run(s, from) == s \in Seq(Nat) /\ \A i \in 1 .. Len(s) : s[i] = from + i - 1

LEMMA RunsJoin ==
  ASSUME NEW s, NEW t, NEW from \in Nat, Run(s, from), Run(t, from + Len(s))
  PROVE  Run(s \o t, from) /\ Len(s \o t) = Len(s) + Len(t)
<1>1. s \in Seq(Nat) /\ t \in Seq(Nat) /\ Len(s) \in Nat /\ Len(t) \in Nat
  BY LenProperties DEF Run
<1>2. /\ s \o t \in Seq(Nat) /\ Len(s \o t) = Len(s) + Len(t)
      /\ \A i \in 1 .. Len(s) + Len(t) : (s \o t)[i] = IF i <= Len(s) THEN s[i] ELSE t[i - Len(s)]
  BY <1>1, ConcatProperties, Zenon
<1>3. ASSUME NEW i \in 1 .. Len(s) + Len(t) PROVE (s \o t)[i] = from + i - 1
  BY <1>1, <1>2 DEF Run
<1> QED BY <1>2, <1>3 DEF Run

LEMMA RunsEnd ==
  ASSUME NEW s, NEW from \in Nat, NEW m \in Nat \ {0}, Run(s, from), m <= Len(s) + 1
  PROVE  /\ Run(SubSeq(s, m, Len(s)), from + m - 1)
         /\ Len(SubSeq(s, m, Len(s))) = Len(s) - m + 1
<1>1. s \in Seq(Nat) /\ Len(s) \in Nat
  BY LenProperties DEF Run
<1>2. \A i \in m .. Len(s) : s[i] \in Nat
  BY <1>1, ElementOfSeq
<1> DEFINE end == SubSeq(s, m, Len(s))
<1>3. /\ end \in Seq(Nat) /\ Len(end) = IF m <= Len(s) THEN Len(s) - m + 1 ELSE 0
      /\ \A i \in 1 .. Len(s) - m + 1 : end[i] = s[m + i - 1]
  BY <1>1, <1>2, SubSeqProperties
<1> HIDE DEF end
<1>4. Len(end) = Len(s) - m + 1
  BY <1>1, <1>3
<1>5. ASSUME NEW i \in 1 .. Len(s) - m + 1 PROVE end[i] = from + m - 1 + i - 1
  BY <1>1, <1>3 DEF Run
<1> QED BY <1>3, <1>4, <1>5 DEF Run, end

LEMMA PiecesRun ==
  ASSUME NEW n \in Nat, xw.next \in Nat \ {0}
  PROVE  Run(Pieces(n), xw.next) /\ Len(Pieces(n)) = n
BY DEF Run, Pieces

X11s == [at : {"asked", "refused", "setup", "relay", "over"}, setup : Setups,
         next : Nat \ {0}, buf : Seq(Nat), out : Seq(Nat)]

\* Before the setup is found what has come is kept, in order; afterwards all of
\* it but the setup has gone on.
X11Inv ==
    /\ xw \in X11s
    /\ xw.at \in {"asked", "setup"} => /\ xw.out = <<>>
                                       /\ Len(xw.buf) = xw.next - 1 /\ Run(xw.buf, 1)
    /\ xw.at = "setup" => rule.forwards
    /\ xw.at = "relay" => /\ xw.setup = "fake" /\ rule.forwards /\ xw.next >= 3
                          /\ \E r : /\ Run(r, 3) /\ Len(r) = xw.next - 3
                                    /\ xw.out = <<0>> \o r
    /\ XServerGetsInOrder

LEMMA X11Init == ChannelsInit => X11Inv
<1> SUFFICES ASSUME ChannelsInit PROVE X11Inv
  OBVIOUS
<1>1. PICK s \in Setups : xw = [NewX11 EXCEPT !.setup = s]
  BY DEF ChannelsInit
<1>2. xw = [at |-> "asked", setup |-> s, next |-> 1, buf |-> <<>>, out |-> <<>>]
  BY <1>1 DEF NewX11
<1> QED BY <1>2 DEF X11Inv, X11s, Run, XServerGetsInOrder

\* What a setup that is found leaves (x11_forward.rs, rewrite_setup).
LEMMA SetupFound ==
  ASSUME NEW buf \in Seq(Nat), rewrite_setup(buf).found = "ready", xw.setup \in Setups
  PROVE  /\ xw.setup = "fake" /\ Len(buf) >= 2
         /\ rewrite_setup(buf).rest = SubSeq(buf, 3, Len(buf))
BY DEF rewrite_setup, Setups

\* What the X server has been given, if it is the setup and then a run.
LEMMA SetupThenRun ==
  ASSUME NEW r, Run(r, 3)
  PROVE  LET out == <<0>> \o r IN
         out \in Seq(Nat) /\ out[1] = 0 /\ \A i \in 2 .. Len(out) : out[i] = i + 1
<1> DEFINE out == <<0>> \o r
<1>1. r \in Seq(Nat) /\ Len(r) \in Nat /\ <<0>> \in Seq(Nat) /\ Len(<<0>>) = 1
  BY LenProperties DEF Run
<1>2. /\ out \in Seq(Nat) /\ Len(out) = 1 + Len(r)
      /\ \A i \in 1 .. 1 + Len(r) : out[i] = IF i <= 1 THEN <<0>>[i] ELSE r[i - 1]
  BY <1>1, ConcatProperties
<1> HIDE DEF out
<1>3. out[1] = 0
  BY <1>1, <1>2
<1>4. ASSUME NEW i \in 2 .. Len(out) PROVE out[i] = i + 1
  <2>1. i \in 1 .. 1 + Len(r) /\ ~(i <= 1) /\ i - 1 \in 1 .. Len(r)
    BY <1>1, <1>2
  <2>2. r[i - 1] = 3 + (i - 1) - 1
    BY <2>1 DEF Run
  <2> QED BY <1>2, <2>1, <2>2
<1> QED BY <1>2, <1>3, <1>4 DEF out

LEMMA X11Keeps == X11Inv /\ X11Step /\ UNCHANGED rule => X11Inv'
<1> SUFFICES ASSUME X11Inv, X11Step, UNCHANGED rule PROVE X11Inv'
  OBVIOUS
<1>1. CASE OpenX11
  BY <1>1 DEF OpenX11, X11Inv, X11s, Run, Forwards, XServerGetsInOrder
<1>2. CASE Forwards([xw EXCEPT !.at = "over"])
  BY <1>2 DEF X11Inv, X11s, Forwards, XServerGetsInOrder
<1>3. CASE ServeX11
  <2> DEFINE seen == rewrite_setup(xw.buf)
  <2>1. /\ xw \in X11s /\ rule.forwards /\ rule' = rule /\ Run(xw.buf, 1)
        /\ Len(xw.buf) = xw.next - 1 /\ xw.at = "setup" /\ xw.out = <<>>
        /\ xw.buf \in Seq(Nat) /\ xw.setup \in Setups /\ xw.next \in Nat \ {0}
    BY <1>3 DEF ServeX11, X11Inv, X11s
  <2>2. CASE /\ seen.found = "ready"
             /\ Forwards([xw EXCEPT !.at = "relay", !.buf = <<>>, !.out = <<0>> \o seen.rest])
    <3>1. /\ xw.setup = "fake" /\ Len(xw.buf) >= 2
          /\ seen.rest = SubSeq(xw.buf, 3, Len(xw.buf))
      BY <2>1, <2>2, SetupFound
    <3>2. Run(seen.rest, 3) /\ Len(seen.rest) = xw.next - 3 /\ xw.next >= 3
      <4>1. Run(xw.buf, 1) /\ 3 \in Nat \ {0} /\ 3 <= Len(xw.buf) + 1 /\ Len(xw.buf) \in Nat
        BY <2>1, <3>1, LenProperties
      <4>2. Run(seen.rest, 1 + 3 - 1) /\ Len(seen.rest) = Len(xw.buf) - 3 + 1
        BY <3>1, <4>1, RunsEnd
      <4> QED BY <2>1, <4>1, <4>2
    <3> HIDE DEF seen
    <3> DEFINE out == <<0>> \o seen.rest
    <3>3. out \in Seq(Nat) /\ out[1] = 0 /\ \A i \in 2 .. Len(out) : out[i] = i + 1
      BY <3>2, SetupThenRun
    <3>4. xw' = [xw EXCEPT !.at = "relay", !.buf = <<>>, !.out = out]
      BY <2>2 DEF Forwards
    <3>5. /\ xw' \in X11s /\ xw'.at = "relay" /\ xw'.out = out /\ xw'.next = xw.next
          /\ xw'.setup = "fake" /\ rule'.forwards
      <4> HIDE DEF out
      <4> QED BY <2>1, <3>1, <3>3, <3>4 DEF X11s
    <3> QED BY <3>2, <3>3, <3>5 DEF X11Inv, XServerGetsInOrder
  <2>3. ASSUME NEW n \in 1 .. Length + 1 - xw.next,
               Forwards([xw EXCEPT !.buf = @ \o Pieces(n), !.next = @ + n])
        PROVE  X11Inv'
    <3>1. n \in Nat
      BY <2>1, ChannelsAssumption DEF ChannelsAssumption, Length
    <3> DEFINE buf == xw.buf \o Pieces(n)
    <3>2. Run(buf, 1) /\ Len(buf) = xw.next + n - 1
      <4>1. Run(Pieces(n), 1 + Len(xw.buf)) /\ Len(Pieces(n)) = n
        BY <2>1, <3>1, PiecesRun
      <4>2. Run(xw.buf, 1) /\ 1 \in Nat
        BY <2>1
      <4>3. Run(buf, 1) /\ Len(buf) = Len(xw.buf) + Len(Pieces(n))
        BY <4>1, <4>2, RunsJoin, Zenon
      <4> HIDE DEF buf
      <4> QED BY <2>1, <3>1, <4>1, <4>3
    <3> HIDE DEF buf
    <3>3. xw' = [xw EXCEPT !.buf = buf, !.next = xw.next + n]
      BY <2>3 DEF buf, Forwards
    <3>4. /\ xw' \in X11s /\ xw'.at = "setup" /\ xw'.buf = buf /\ xw'.out = <<>>
          /\ xw'.next = xw.next + n /\ rule'.forwards
      <4>1. xw.next + n \in Nat \ {0} /\ buf \in Seq(Nat)
        BY <2>1, <3>1, <3>2 DEF Run
      <4> QED BY <2>1, <3>3, <4>1 DEF X11s
    <3>5. Len(buf) = xw'.next - 1
      BY <2>1, <3>1, <3>2, <3>4
    <3> QED BY <3>2, <3>4, <3>5 DEF X11Inv, XServerGetsInOrder
  <2> QED BY <1>2, <1>3, <2>2, <2>3 DEF ServeX11
<1>4. CASE xw.at = "relay" /\ Forwards([xw EXCEPT !.out = Append(@, xw.next), !.next = @ + 1])
  <2>1. /\ xw \in X11s /\ rule.forwards /\ rule' = rule /\ xw.setup = "fake"
        /\ xw.next \in Nat /\ xw.next >= 3
    BY <1>4 DEF X11Inv, X11s
  <2>2. PICK r : Run(r, 3) /\ Len(r) = xw.next - 3 /\ xw.out = <<0>> \o r
    BY <1>4 DEF X11Inv
  <2>3. Run(<<xw.next>>, 3 + Len(r)) /\ Len(<<xw.next>>) = 1
    BY <2>1, <2>2 DEF Run
  <2> DEFINE more == r \o <<xw.next>>
  <2>4. Run(more, 3) /\ Len(more) = xw.next - 2
    BY <2>1, <2>2, <2>3, RunsJoin
  <2> DEFINE out == Append(xw.out, xw.next)
  <2>5. out = <<0>> \o more
    <3>1. <<0>> \in Seq(Nat) /\ r \in Seq(Nat) /\ <<xw.next>> \in Seq(Nat) /\ xw.out \in Seq(Nat)
      BY <2>1, <2>2 DEF X11s, Run
    <3>2. out = (<<0>> \o r) \o <<xw.next>>
      BY <2>1, <2>2, <3>1, AppendIsConcat
    <3> QED BY <3>1, <3>2, ConcatAssociative
  <2> HIDE DEF more
  <2>6. out \in Seq(Nat) /\ out[1] = 0 /\ \A i \in 2 .. Len(out) : out[i] = i + 1
    BY <2>4, <2>5, SetupThenRun
  <2> HIDE DEF out
  <2>7. xw' = [xw EXCEPT !.out = out, !.next = xw.next + 1]
    BY <1>4 DEF out, Forwards
  <2>8. /\ xw' \in X11s /\ xw'.at = "relay" /\ xw'.out = out /\ xw'.next = xw.next + 1
        /\ xw'.setup = "fake" /\ rule'.forwards
    <3>1. xw.next + 1 \in Nat \ {0}
      BY <2>1
    <3> QED BY <1>4, <2>1, <2>6, <2>7, <3>1 DEF X11s
  <2>9. Len(more) = xw'.next - 3 /\ xw'.next >= 3
    BY <2>1, <2>4, <2>8
  <2> QED BY <2>4, <2>5, <2>6, <2>8, <2>9 DEF X11Inv, XServerGetsInOrder
<1> QED BY <1>1, <1>2, <1>3, <1>4 DEF X11Step, RelayX11

----------------------------------------------------------------------------
(* The agent channel *)

Requests == Nat \X Nat
Agents == [at : {"asked", "refused", "waiting", "framing", "asking", "over"}, next : Nat \ {0},
           large : BOOLEAN, pending : Seq(Requests), asking : Nat, queue : Seq(Nat),
           replies : Seq(Nat), answered : Seq(Nat \X Nat)]

\* The requests taken off what has come: all that were answered, and the one
\* that is being asked.
Taken == Len(ag.answered) + (IF ag.at = "asking" THEN 1 ELSE 0)
Gone == Taken + Taken

\* What has come and was not taken is the requests that follow, and the agent
\* has been asked for nothing but the one that is being asked.
AgentInv ==
    /\ ag \in Agents
    /\ ag.at \in {"asked", "waiting", "framing", "asking"} =>
          /\ ag.next = Gone + Len(ag.pending) + 1
          /\ \A j \in 1 .. Len(ag.pending) : ag.pending[j] = Request(Gone + j)
    /\ ag.at \in {"asked", "waiting", "framing"} => ag.queue = <<>> /\ ag.replies = <<>>
    /\ ag.at = "asking" =>
          /\ ag.asking = Taken
          /\ \/ ag.queue = <<ag.asking>> /\ ag.replies = <<>>
             \/ ag.queue = <<>> /\ ag.replies = <<ag.asking>>
    /\ RepliesMatch

LEMMA AgentInit == ChannelsInit => AgentInv
<1> SUFFICES ASSUME ChannelsInit PROVE AgentInv
  OBVIOUS
<1>1. PICK large \in BOOLEAN : ag = [NewAgent EXCEPT !.large = large]
  BY DEF ChannelsInit
<1>2. ag = [at |-> "asked", next |-> 1, large |-> large, pending |-> <<>>, asking |-> 0,
            queue |-> <<>>, replies |-> <<>>, answered |-> <<>>]
  BY <1>1 DEF NewAgent
<1> QED BY <1>2 DEF AgentInv, Agents, Taken, Gone, RepliesMatch

\* Two pieces are a request, and the next begins after them.
LEMMA RequestPieces ==
  ASSUME NEW k \in Nat
  PROVE  /\ Request(k + k + 1)[1] = k + 1
         /\ \A j \in Nat : Request(j) \in Requests
<1>1. (k + k + 1 + 1) \div 2 = k + 1
  OBVIOUS
<1>2. ASSUME NEW j \in Nat PROVE (j + 1) \div 2 \in Nat /\ 2 - (j % 2) \in Nat
  OBVIOUS
<1> QED BY <1>1, <1>2 DEF Request, Requests

LEMMA AgentKeeps == AgentInv /\ AgentStep => AgentInv'
<1> SUFFICES ASSUME AgentInv, AgentStep PROVE AgentInv'
  OBVIOUS
<1>1. /\ ag \in Agents /\ ag.pending \in Seq(Requests) /\ ag.answered \in Seq(Nat \X Nat)
      /\ Len(ag.answered) \in Nat /\ Taken \in Nat /\ ag.next \in Nat \ {0}
      /\ Gone \in Nat /\ Gone = Taken + Taken
  BY LenProperties DEF AgentInv, Agents, Taken, Gone
<1>2. CASE OpenAgent
  <2>1. PICK to \in {"waiting", "refused"} : ag' = [ag EXCEPT !.at = to]
    BY <1>2 DEF OpenAgent, Agent
  <2>2. /\ ag' \in Agents /\ ag'.at = to /\ ag.at = "asked" /\ ag'.next = ag.next
        /\ ag'.pending = ag.pending /\ ag'.answered = ag.answered
        /\ ag'.queue = ag.queue /\ ag'.replies = ag.replies
    BY <1>1, <1>2, <2>1 DEF OpenAgent, Agents
  <2>3. Taken' = Taken /\ Gone' = Gone
    BY <2>2 DEF Taken, Gone
  <2> QED BY <2>2, <2>3 DEF AgentInv, RepliesMatch
<1>3. CASE Agent([ag EXCEPT !.at = "over"])
  BY <1>3 DEF AgentInv, Agents, Agent, RepliesMatch
<1>4. CASE FarAsks
  <2>1. ASSUME NEW n \in 1 .. 2 * MaxRequests + 1 - ag.next,
               Agent([ag EXCEPT !.pending = @ \o [i \in 1 .. n |-> Request(ag.next + i - 1)],
                                !.next = @ + n, !.at = "framing"])
        PROVE  AgentInv'
    <3> DEFINE sent == [i \in 1 .. n |-> Request(ag.next + i - 1)]
               pending == ag.pending \o sent
    <3>1. n \in Nat
      BY <1>1, ChannelsAssumption DEF ChannelsAssumption
    <3>2. \A i \in 1 .. n : ag.next + i - 1 \in Nat
      BY <1>1
    <3>3. \A i \in 1 .. n : Request(ag.next + i - 1) \in Requests
      BY <3>2, RequestPieces, 0 \in Nat
    <3>4. sent \in Seq(Requests) /\ Len(sent) = n
      BY <3>1, <3>3
    <3>5. /\ pending \in Seq(Requests) /\ Len(pending) = Len(ag.pending) + n
          /\ \A j \in 1 .. Len(ag.pending) + n : pending[j] =
                IF j <= Len(ag.pending) THEN ag.pending[j] ELSE sent[j - Len(ag.pending)]
      BY <1>1, <3>4, ConcatProperties
    <3>6. \A i \in 1 .. n : sent[i] = Request(ag.next + i - 1)
      OBVIOUS
    <3> HIDE DEF sent, pending
    <3>7. /\ ag' = [ag EXCEPT !.pending = pending, !.next = ag.next + n, !.at = "framing"]
          /\ ag.at = "waiting" /\ ag.queue = <<>> /\ ag.replies = <<>>
      BY <1>4, <2>1 DEF FarAsks, AgentInv, Agent, sent, pending
    <3>8. /\ ag.next = Gone + Len(ag.pending) + 1 /\ Len(ag.pending) \in Nat
          /\ \A j \in 1 .. Len(ag.pending) : ag.pending[j] = Request(Gone + j)
      BY <1>1, <3>7, LenProperties DEF AgentInv
    <3>9. ag.next + n \in Nat \ {0}
      BY <1>1, <3>1
    <3>10. /\ ag' \in Agents /\ ag'.at = "framing" /\ ag'.pending = pending
           /\ ag'.next = ag.next + n /\ ag'.answered = ag.answered
           /\ ag'.queue = <<>> /\ ag'.replies = <<>>
      BY <1>1, <3>5, <3>7, <3>9 DEF Agents
    <3>11. Taken' = Taken /\ Gone' = Gone
      BY <3>7, <3>10 DEF Taken, Gone
    <3>12. ASSUME NEW j \in 1 .. Len(pending) PROVE pending[j] = Request(Gone + j)
      <4>1. CASE j <= Len(ag.pending)
        BY <3>5, <3>8, <4>1
      <4>2. CASE j > Len(ag.pending)
        <5>1. PICK k \in 1 .. n : k = j - Len(ag.pending) /\ pending[j] = sent[k]
          <6> DEFINE k == j - Len(ag.pending)
          <6>1. k \in 1 .. n /\ ~(j <= Len(ag.pending)) /\ j \in 1 .. Len(ag.pending) + n
            BY <3>1, <3>5, <3>8, <4>2
          <6>2. pending[j] = sent[k]
            BY <3>5, <6>1
          <6> QED BY <6>1, <6>2
        <5>2. ag.next + k - 1 = Gone + j
          <6>1. ag.next = Gone + Len(ag.pending) + 1 /\ Gone \in Nat /\ Len(ag.pending) \in Nat
            BY <1>1, <3>8
          <6>2. j \in Nat /\ k \in Nat
            BY <3>1, <3>5, <6>1
          <6>3. j = Len(ag.pending) + k
            BY <5>1, <6>1, <6>2
          <6> QED BY <6>1, <6>2, <6>3
        <5> QED BY <3>6, <5>1, <5>2
      <4> QED BY <3>8, <4>1, <4>2
    <3>13. ag'.next = Gone + Len(pending) + 1
      <4>1. ag.next = Gone + Len(ag.pending) + 1 /\ Gone \in Nat /\ Len(ag.pending) \in Nat
        BY <1>1, <3>8
      <4>2. Len(pending) = Len(ag.pending) + n /\ ag'.next = ag.next + n
        BY <3>5, <3>10
      <4> QED BY <3>1, <4>1, <4>2
    <3> QED BY <3>10, <3>11, <3>12, <3>13 DEF AgentInv, RepliesMatch
  <2> QED BY <1>3, <1>4, <2>1 DEF FarAsks
<1>5. CASE TakeFrame
  <2>1. CASE Agent([ag EXCEPT !.at = "waiting"])
    <3>1. /\ ag' \in Agents /\ ag'.at = "waiting" /\ ag.at = "framing" /\ ag'.next = ag.next
          /\ ag'.pending = ag.pending /\ ag'.answered = ag.answered
          /\ ag'.queue = ag.queue /\ ag'.replies = ag.replies
      BY <1>1, <1>5, <2>1 DEF TakeFrame, Agent, Agents
    <3>2. Taken' = Taken /\ Gone' = Gone
      BY <3>1 DEF Taken, Gone
    <3> QED BY <3>1, <3>2 DEF AgentInv, RepliesMatch
  <2>2. CASE /\ Len(ag.pending) >= 2
             /\ Agent([ag EXCEPT !.at = "asking", !.asking = Head(ag.pending)[1],
                                 !.queue = Append(@, Head(ag.pending)[1]),
                                 !.pending = SubSeq(@, 3, Len(@))])
    <3> DEFINE pending == SubSeq(ag.pending, 3, Len(ag.pending))
    <3>1. /\ ag.at = "framing" /\ ag.queue = <<>> /\ ag.replies = <<>>
          /\ ag.next = Gone + Len(ag.pending) + 1 /\ Len(ag.pending) \in Nat
          /\ \A j \in 1 .. Len(ag.pending) : ag.pending[j] = Request(Gone + j)
      BY <1>1, <1>5, LenProperties DEF TakeFrame, AgentInv
    <3>2. Head(ag.pending) = Request(Gone + 1)
      <4>1. Head(ag.pending) = ag.pending[1] /\ 1 \in 1 .. Len(ag.pending)
        BY <1>1, <2>2, <3>1
      <4> QED BY <3>1, <4>1
    <3>3. Head(ag.pending)[1] = Taken + 1 /\ Taken + 1 \in Nat
      BY <1>1, <3>2, RequestPieces
    <3>4. \A j \in 3 .. Len(ag.pending) : ag.pending[j] \in Requests
      BY <1>1, <3>1, ElementOfSeq
    <3>5. /\ pending \in Seq(Requests)
          /\ Len(pending) = IF 3 <= Len(ag.pending) THEN Len(ag.pending) - 3 + 1 ELSE 0
          /\ \A j \in 1 .. Len(ag.pending) - 3 + 1 : pending[j] = ag.pending[3 + j - 1]
      BY <3>1, <3>4, SubSeqProperties
    <3> HIDE DEF pending
    <3>6. ag' = [ag EXCEPT !.at = "asking", !.asking = Taken + 1, !.queue = <<Taken + 1>>,
                           !.pending = pending]
      <4>1. Append(<<>>, Taken + 1) = <<Taken + 1>>
        OBVIOUS
      <4> QED BY <2>2, <3>1, <3>3, <4>1 DEF Agent, pending
    <3>7. /\ ag' \in Agents /\ ag'.at = "asking" /\ ag'.asking = Taken + 1
          /\ ag'.queue = <<ag'.asking>> /\ ag'.replies = <<>> /\ ag'.pending = pending
          /\ ag'.next = ag.next /\ ag'.answered = ag.answered
      <4>1. <<Taken + 1>> \in Seq(Nat)
        BY <3>3
      <4> QED BY <1>1, <3>1, <3>3, <3>5, <3>6, <4>1 DEF Agents
    <3>8. Taken' = Taken + 1 /\ Gone' = Gone + 2
      <4>1. Taken' = Taken + 1
        BY <1>1, <3>1, <3>7 DEF Taken
      <4> QED BY <1>1, <4>1 DEF Gone
    <3>9. ag'.next = Gone' + Len(pending) + 1 /\ Len(pending) = Len(ag.pending) - 2
      <4>1. Len(pending) = Len(ag.pending) - 2
        BY <2>2, <3>1, <3>5
      <4>2. ag.next = Gone + Len(ag.pending) + 1 /\ ag'.next = ag.next
        BY <3>1, <3>7
      <4>3. Gone \in Nat /\ Gone' = Gone + 2 /\ Len(ag.pending) \in Nat
        BY <1>1, <3>1, <3>8
      <4>4. Gone' \in Nat /\ Len(pending) \in Int /\ Len(pending) + 2 = Len(ag.pending)
        BY <4>1, <4>3
      <4>5. Gone' + Len(pending) = Gone + Len(ag.pending)
        BY <4>3, <4>4
      <4> QED BY <4>1, <4>2, <4>4, <4>5
    <3>10. ASSUME NEW j \in 1 .. Len(pending) PROVE pending[j] = Request(Gone' + j)
      <4>1. pending[j] = ag.pending[3 + j - 1] /\ 3 + j - 1 \in 1 .. Len(ag.pending)
        BY <3>1, <3>5, <3>9
      <4>2. Gone + (3 + j - 1) = Gone' + j
        BY <1>1, <3>8
      <4> QED BY <3>1, <4>1, <4>2
    <3> QED BY <3>7, <3>8, <3>9, <3>10 DEF AgentInv, RepliesMatch
  <2> QED BY <1>1, <1>3, <1>5, <2>1, <2>2, LenProperties DEF TakeFrame
<1>6. CASE AgentReplies
  <2>1. /\ ag.queue \in Seq(Nat) /\ ag.queue # <<>> /\ ag.replies \in Seq(Nat)
        /\ ag' = [ag EXCEPT !.queue = Tail(@), !.replies = Append(@, Head(ag.queue))]
    BY <1>1, <1>6 DEF AgentReplies, Agent, Agents
  <2>2. Tail(ag.queue) \in Seq(Nat) /\ Append(ag.replies, Head(ag.queue)) \in Seq(Nat)
    BY <2>1
  <2>3. /\ ag' \in Agents /\ ag'.at = ag.at /\ ag'.pending = ag.pending /\ ag'.next = ag.next
        /\ ag'.answered = ag.answered /\ ag'.asking = ag.asking
        /\ ag'.queue = Tail(ag.queue) /\ ag'.replies = Append(ag.replies, Head(ag.queue))
    BY <1>1, <2>1, <2>2 DEF Agents
  <2>4. Taken' = Taken /\ Gone' = Gone
    BY <2>3 DEF Taken, Gone
  <2>5. ag.at \notin {"asked", "waiting", "framing"}
    BY <2>1 DEF AgentInv
  <2>6. ag.at = "asking" => ag'.queue = <<>> /\ ag'.replies = <<ag'.asking>>
    <3>1. ag.at = "asking" => ag.queue = <<ag.asking>> /\ ag.replies = <<>>
      BY <2>1 DEF AgentInv
    <3>2. Tail(<<ag.asking>>) = <<>> /\ Append(<<>>, Head(<<ag.asking>>)) = <<ag.asking>>
      OBVIOUS
    <3> QED BY <2>3, <3>1, <3>2
  <2> QED BY <2>3, <2>4, <2>5, <2>6 DEF AgentInv, RepliesMatch
<1>7. CASE /\ ag.at = "asking" /\ ag.replies # <<>>
           /\ Agent([ag EXCEPT !.at = "framing", !.replies = Tail(@),
                               !.answered = Append(@, <<ag.asking, Head(ag.replies)>>)])
  <2>1. /\ ag.asking = Taken /\ ag.queue = <<>> /\ ag.replies = <<ag.asking>>
        /\ Taken = Len(ag.answered) + 1
    BY <1>7 DEF AgentInv, Taken
  <2> DEFINE answered == Append(ag.answered, <<Taken, Taken>>)
  <2>2. /\ answered \in Seq(Nat \X Nat) /\ Len(answered) = Taken
        /\ \A i \in 1 .. Len(ag.answered) : answered[i] = ag.answered[i]
        /\ answered[Taken] = <<Taken, Taken>>
    BY <1>1, <2>1, AppendProperties
  <2> HIDE DEF answered
  <2>3. ag' = [ag EXCEPT !.at = "framing", !.replies = <<>>, !.answered = answered]
    BY <1>7, <2>1 DEF Agent, answered
  <2>4. /\ ag' \in Agents /\ ag'.at = "framing" /\ ag'.pending = ag.pending
        /\ ag'.next = ag.next /\ ag'.answered = answered /\ ag'.queue = <<>> /\ ag'.replies = <<>>
    BY <1>1, <2>1, <2>2, <2>3 DEF Agents
  <2>5. Taken' = Taken /\ Gone' = Gone
    <3>1. Taken' = Len(answered) + 0
      BY <2>4 DEF Taken
    <3>2. Taken' = Taken
      BY <1>1, <2>2, <3>1
    <3> QED BY <3>2 DEF Gone
  <2>6. \A i \in DOMAIN answered : answered[i] = <<i, i>>
    <3>1. DOMAIN answered = 1 .. Taken /\ DOMAIN ag.answered = 1 .. Len(ag.answered)
      BY <1>1, <2>2, LenProperties
    <3>2. \A i \in 1 .. Len(ag.answered) : ag.answered[i] = <<i, i>>
      BY <3>1 DEF AgentInv, RepliesMatch
    <3>3. \A i \in 1 .. Taken : i = Taken \/ i \in 1 .. Len(ag.answered)
      BY <1>1, <2>1
    <3> QED BY <2>2, <3>1, <3>2, <3>3
  <2> QED BY <1>7, <2>4, <2>5, <2>6 DEF AgentInv, RepliesMatch
<1> QED BY <1>2, <1>3, <1>4, <1>5, <1>6, <1>7 DEF AgentStep, Exchanged, AgentFails

----------------------------------------------------------------------------
(* The port and its guests *)

ChannelRules == [kind : {"local", "dynamic"}, login : BOOLEAN, keepalive : BOOLEAN, forwards : BOOLEAN]
GuestAts == {"away", "greeting", "proving", "asking", "waiting", "answering", "relaying", "over"}
GuestStates == [at : GuestAts, proved : BOOLEAN, opened : BOOLEAN,
                told : {"nothing", "connected", "refused"}]

\* A guest is told nothing before its channel was tried, and one who has to
\* give a login has given it by the time it may ask for anything.
GuestInv(g) ==
    /\ g \in GuestStates
    /\ g.at \in {"away", "greeting", "proving", "asking", "waiting"} =>
          ~g.opened /\ g.told = "nothing"
    /\ g.at = "answering" => g.told = "nothing"
    /\ g.told = "connected" => g.opened
    /\ g.told = "refused" => ~g.opened
    /\ rule.kind = "dynamic" /\ rule.login =>
          /\ g.at \in {"asking", "waiting", "answering", "relaying"} => g.proved
          /\ g.opened => g.proved

ListenInv ==
    /\ rule \in ChannelRules
    /\ guest = [c \in Guests |-> guest[c]]
    /\ \A c \in Guests : GuestInv(guest[c])

LEMMA ListenInit == ChannelsInit => ListenInv
BY DEF ChannelsInit, ListenInv, GuestInv, GuestStates, GuestAts, ChannelRules, NewGuest

LEMMA ListenKeeps == ListenInv /\ ListenStep => ListenInv'
<1> SUFFICES ASSUME ListenInv, ListenStep PROVE ListenInv'
  OBVIOUS
<1>1. rule' = rule
  BY DEF ListenStep, TunnelStops, TickDue, AcceptFails, DoorStep, SeesStop, Ticked, Shuts,
         LinkStep, Accepts, Greets, Proves, Asks, GuestLeaves, GuestStep, OpenAnswered,
         Replies, GuestIsDone, Kept
<1>2. CASE UNCHANGED guest
  BY <1>1, <1>2 DEF ListenInv, GuestInv
<1>3. ASSUME NEW c \in Guests, NEW g, GuestInv(g), guest' = [guest EXCEPT ![c] = g]
      PROVE  ListenInv'
  BY <1>1, <1>3 DEF ListenInv, GuestInv
<1>4. ASSUME NEW c \in Guests, NEW at, Moves(c, at), GuestInv([guest[c] EXCEPT !.at = at])
      PROVE  ListenInv'
  BY <1>3, <1>4 DEF Moves
<1>5. ASSUME NEW c \in Guests, Ends(c) PROVE ListenInv'
  <2>1. GuestInv([guest[c] EXCEPT !.at = "over"])
    BY DEF ListenInv, GuestInv, GuestStates, GuestAts
  <2> QED BY <1>4, <1>5, <2>1 DEF Ends
<1>6. ASSUME NEW c \in Guests,
             \/ Accepts(c) \/ Greets(c) \/ Proves(c) \/ Asks(c)
             \/ GuestLeaves(c) \/ GuestStep(c) \/ GuestIsDone(c)
      PROVE  ListenInv'
  <2> DEFINE g == guest[c]
  <2>1. GuestInv(g) /\ g \in GuestStates
    BY DEF ListenInv, GuestInv
  <2> HIDE DEF g
  <2>2. CASE Accepts(c)
    <3>1. PICK at \in {"greeting", "waiting"} :
             Moves(c, at) /\ (at = "waiting" => rule.kind # "dynamic") /\ g.at = "away"
      BY <2>2 DEF Accepts, g
    <3>2. GuestInv([g EXCEPT !.at = at])
      BY <2>1, <3>1 DEF GuestInv, GuestStates, GuestAts
    <3> QED BY <1>4, <3>1, <3>2 DEF g
  <2>3. CASE Greets(c)
    <3>1. ASSUME Moves(c, IF rule.login THEN "proving" ELSE "asking") PROVE ListenInv'
      <4>1. g.at = "greeting"
        BY <2>3 DEF Greets, g
      <4>2. GuestInv([g EXCEPT !.at = IF rule.login THEN "proving" ELSE "asking"])
        BY <2>1, <4>1 DEF GuestInv, GuestStates, GuestAts
      <4> QED BY <1>4, <3>1, <4>2 DEF g
    <3> QED BY <1>5, <2>3, <3>1 DEF Greets
  <2>4. CASE Proves(c)
    <3>1. CASE guest' = [guest EXCEPT ![c].at = "asking", ![c].proved = TRUE]
      <4>1. g.at = "proving"
        BY <2>4 DEF Proves, g
      <4>2. GuestInv([g EXCEPT !.at = "asking", !.proved = TRUE])
        BY <2>1, <4>1 DEF GuestInv, GuestStates, GuestAts
      <4>3. guest' = [guest EXCEPT ![c] = [g EXCEPT !.at = "asking", !.proved = TRUE]]
        BY <3>1 DEF g
      <4> QED BY <1>3, <4>2, <4>3
    <3> QED BY <1>5, <2>4, <3>1 DEF Proves, same
  <2>5. CASE Asks(c)
    <3>1. ASSUME Moves(c, "waiting") PROVE ListenInv'
      <4>1. g.at = "asking"
        BY <2>5 DEF Asks, g
      <4>2. GuestInv([g EXCEPT !.at = "waiting"])
        BY <2>1, <4>1 DEF GuestInv, GuestStates, GuestAts
      <4> QED BY <1>4, <3>1, <4>2 DEF g
    <3> QED BY <1>5, <2>5, <3>1 DEF Asks
  <2>6. CASE OpenAnswered(c)
    <3>1. PICK ok \in BOOLEAN, at \in {"answering", "relaying", "over"} :
             guest' = [guest EXCEPT ![c].opened = ok, ![c].at = at]
      BY <2>6 DEF OpenAnswered
    <3>2. g.at = "waiting"
      BY <2>6 DEF OpenAnswered, g
    <3>3. GuestInv([g EXCEPT !.opened = ok, !.at = at])
      BY <2>1, <3>2 DEF GuestInv, GuestStates, GuestAts
    <3>4. guest' = [guest EXCEPT ![c] = [g EXCEPT !.opened = ok, !.at = at]]
      BY <3>1 DEF g
    <3> QED BY <1>3, <3>3, <3>4
  <2>7. CASE Replies(c)
    <3>1. g.at = "answering"
      BY <2>7 DEF Replies, g
    <3>2. ASSUME guest' = [guest EXCEPT ![c].told = IF g.opened THEN "connected" ELSE "refused",
                                        ![c].at = IF g.opened THEN "relaying" ELSE "over"]
          PROVE  ListenInv'
      <4> DEFINE said == IF g.opened THEN "connected" ELSE "refused"
                 at == IF g.opened THEN "relaying" ELSE "over"
      <4>1. GuestInv([g EXCEPT !.told = said, !.at = at])
        BY <2>1, <3>1 DEF GuestInv, GuestStates, GuestAts
      <4>2. guest' = [guest EXCEPT ![c] = [g EXCEPT !.told = said, !.at = at]]
        BY <3>2 DEF g
      <4> QED BY <1>3, <4>1, <4>2
    <3> QED BY <1>5, <2>7, <3>2 DEF Replies, g
  <2> QED BY <1>5, <1>6, <2>2, <2>3, <2>4, <2>5, <2>6, <2>7
          DEF GuestLeaves, GuestStep, GuestIsDone
<1>7. CASE TunnelStops \/ TickDue \/ AcceptFails \/ DoorStep \/ LinkStep
  BY <1>2, <1>7 DEF TunnelStops, TickDue, AcceptFails, DoorStep, SeesStop, Ticked, Shuts,
                    DoorTurns, LinkStep
<1> QED BY <1>6, <1>7 DEF ListenStep

----------------------------------------------------------------------------
(* Together *)

ChannelsInv == ListenInv /\ RelayInv /\ X11Inv /\ AgentInv

\* Each step is one of one play's, and leaves the others as they are.
LEMMA ChannelsKeeps == ChannelsInv /\ [ChannelsNext]_cvars => ChannelsInv'
<1> SUFFICES ASSUME ChannelsInv, [ChannelsNext]_cvars PROVE ChannelsInv'
  OBVIOUS
<1>1. ASSUME UNCHANGED <<rule, guest>> PROVE ListenInv'
  BY <1>1 DEF ChannelsInv, ListenInv, GuestInv
<1>2. ASSUME UNCHANGED pipe PROVE RelayInv'
  BY <1>2 DEF ChannelsInv, RelayInv
<1>3. ASSUME UNCHANGED <<rule, xw>> PROVE X11Inv'
  BY <1>3 DEF ChannelsInv, X11Inv, XServerGetsInOrder
<1>4. ASSUME UNCHANGED ag PROVE AgentInv'
  BY <1>4 DEF ChannelsInv, AgentInv, Taken, Gone, RepliesMatch
<1>5. CASE UNCHANGED cvars
  BY <1>1, <1>2, <1>3, <1>4, <1>5 DEF ChannelsInv, cvars, listening
<1>6. CASE ListenStep
  <2>1. UNCHANGED <<rule, pipe, xw, ag>>
    BY <1>6 DEF ListenStep, TunnelStops, TickDue, AcceptFails, DoorStep, SeesStop, Ticked, Shuts,
         LinkStep, Accepts, Greets, Proves, Asks, GuestLeaves, GuestStep, OpenAnswered,
         Replies, GuestIsDone, Kept
  <2> QED BY <1>2, <1>3, <1>4, <1>6, <2>1, ListenKeeps DEF ChannelsInv
<1>7. CASE RelayStep
  <2>1. UNCHANGED <<play, listening, xw, ag>>
    BY <1>7 DEF RelayStep, server_channel_open_forwarded_tcpip, proxy_channel, TakesUp,
         TakesDown, TakesEof, Carries, RelayReads, Reads, Makes, IsDone, Relays
  <2> QED BY <1>1, <1>3, <1>4, <1>7, <2>1, RelayKeeps DEF ChannelsInv, listening
<1>8. CASE X11Step
  <2>1. UNCHANGED <<play, listening, pipe, ag>>
    BY <1>8 DEF X11Step, OpenX11, ServeX11, RelayX11, Forwards
  <2> QED BY <1>1, <1>2, <1>4, <1>8, <2>1, X11Keeps DEF ChannelsInv, listening
<1>9. CASE AgentStep
  <2>1. UNCHANGED <<play, listening, pipe, xw>>
    BY <1>9 DEF AgentStep, OpenAgent, FarAsks, TakeFrame, AgentReplies, Exchanged, AgentFails,
         Agent
  <2> QED BY <1>1, <1>2, <1>3, <1>9, <2>1, AgentKeeps DEF ChannelsInv, listening
<1> QED BY <1>5, <1>6, <1>7, <1>8, <1>9 DEF ChannelsNext

\* ChannelsInv in every behaviour: what the variables can hold included.
LEMMA ChannelsSound == ChannelsSpec => []ChannelsInv
<1>1. ChannelsInit => ChannelsInv
  BY ListenInit, RelayInit, X11Init, AgentInit DEF ChannelsInv
<1> QED BY <1>1, ChannelsKeeps, PTL DEF ChannelsSpec

\* What is passed on is what was sent: the relay loses nothing while neither
\* side is done (tunnel.rs, proxy_channel), and an X server gets a setup of
\* ours and then all that followed the far side's, in order and once, only
\* behind the session's cookie (x11_forward.rs), however it was cut.
THEOREM BytesStayTrue == ChannelsSpec => []BytesAreTrue
<1>1. ChannelsInv => BytesAreTrue
  BY DEF ChannelsInv, RelayInv, X11Inv, BytesAreTrue, NothingDropped, Balanced
<1> QED BY <1>1, ChannelsSound, PTL

\* A SOCKS client is told the truth of its channel, and none is opened without
\* the login where one is set (socks5.rs); and each reply of an agent's goes
\* back to the request it answers, in order, however late the agent is and
\* however the requests were cut (agent_forward.rs).
THEOREM AnswersStayTrue == ChannelsSpec => []AnswersAreTrue
<1>1. ChannelsInv => AnswersAreTrue
  BY DEF ChannelsInv, ListenInv, GuestInv, AgentInv, AnswersAreTrue, ToldTrue
<1> QED BY <1>1, ChannelsSound, PTL

----------------------------------------------------------------------------
(* The table of tunnels *)

USE ConstantsAssumption DEF ConstantsAssumption, Owners

Places == {"free", "called", "connecting", "bound", "ok", "failed"}
Calls == [rule : Rules, by : Owners, at : Places]

\* A call that moves on is still a call.
LEMMA MovedType ==
  ASSUME TypeOK, NEW a \in Starts, NEW to \in Places, start' = [start EXCEPT ![a].at = to]
  PROVE  start' \in [Starts -> Calls]
<1>1. start[a] \in Calls
  BY DEF TypeOK, Places, Calls
<1>2. [start[a] EXCEPT !.at = to] \in Calls
  BY <1>1 DEF Calls
<1> QED BY <1>2 DEF TypeOK, Places, Calls

LEMMA AnsweredType ==
  ASSUME TypeOK, NEW a \in Starts, NEW how, Answered(a, how)
  PROVE  start' \in [Starts -> Calls]
<1>1. start[a] \in Calls
  BY DEF TypeOK, Places, Calls
<1>2. [start[a] EXCEPT !.at = "free", !.by = User] \in Calls
  BY <1>1 DEF Calls, Places
<1> QED BY <1>2 DEF TypeOK, Places, Calls, Answered

LEMMA TypeInit == Init => TypeOK
<1> SUFFICES ASSUME Init PROVE TypeOK
  OBVIOUS
<1>1. start \in [Starts -> [rule : Rules, by : Owners,
                           at : {"free", "called", "connecting", "bound", "ok", "failed"}]]
  BY DEF Init
<1>2. loop \in [Rules -> [Loops -> {"ended", "asleep", "due", "trying"}]]
  BY DEF Init
<1>3. pass \in [Passes -> [todo : SUBSET Rules, at : Starts \cup {None}]]
  BY DEF Init
<1> QED BY <1>1, <1>2, <1>3 DEF Init, TypeOK

\* A step of the frontend that asks for a start, or decides not to.
LEMMA AskTypes ==
  ASSUME TypeOK, NEW r \in Rules,
         \/ \E a \in Starts : \/ Activate(r, a)
                              \/ \E p \in Passes : AutostartNext(p, r, a)
                              \/ \E l \in Loops : WakeTry(r, l, a)
         \/ \E l \in Loops : WakeStop(r, l)
  PROVE  TypeOK'
<1> USE DEF TypeOK, backend, calls, loops, frontend, world
<1>1. ASSUME NEW a \in Starts, Activate(r, a) PROVE TypeOK'
  BY <1>1 DEF Activate, Begin
<1>2. ASSUME NEW a \in Starts, NEW p \in Passes, AutostartNext(p, r, a) PROVE TypeOK'
  BY <1>2 DEF AutostartNext, Begin
<1>3. ASSUME NEW a \in Starts, NEW l \in Loops, WakeTry(r, l, a) PROVE TypeOK'
  BY <1>3 DEF WakeTry, Begin
<1>4. ASSUME NEW l \in Loops, WakeStop(r, l) PROVE TypeOK'
  BY <1>4 DEF WakeStop
<1> QED BY <1>1, <1>2, <1>3, <1>4

\* A step of a start call or of its task.
LEMMA StartTypes ==
  ASSUME TypeOK, NEW a \in Starts,
         \/ Check(a) \/ Connect(a) \/ Refuse(a) \/ Insert(a)
         \/ SeeStop(a) \/ SeeDrop(a) \/ End(a) \/ Report(a)
  PROVE  TypeOK'
<1> USE DEF TypeOK, backend, calls, loops, frontend, world
<1>1. ASSUME NEW from, NEW to \in Places, Goes(a, from, to) PROVE start' \in [Starts -> Calls]
  BY <1>1, MovedType DEF Goes
<1>2. ASSUME NEW from, NEW to \in Places, Goes(a, from, to), CallOnly PROVE TypeOK'
  BY <1>1, <1>2 DEF CallOnly, Calls, Places
<1>3. CASE Check(a) \/ Connect(a) \/ Refuse(a)
  BY <1>2, <1>3 DEF Check, Connect, Refuse, Places
<1>4. CASE Insert(a)
  <2>1. start' \in [Starts -> Calls]
    BY <1>1, <1>4 DEF Insert, Places
  <2> QED BY <1>4, <2>1 DEF Insert, Calls, Places
<1>5. CASE SeeStop(a) \/ SeeDrop(a) \/ End(a)
  BY <1>5 DEF SeeStop, SeeDrop, End
<1>6. CASE Report(a)
  BY <1>6 DEF Report
<1> QED BY <1>3, <1>4, <1>5, <1>6

\* An answer or an event that reaches the frontend.
LEMMA BackTypes ==
  ASSUME TypeOK, NEW a \in Starts, Came(a) \/ Failed(a) \/ TunnelDropped(a)
  PROVE  TypeOK'
<1> USE DEF TypeOK, backend, calls, loops, frontend, world
<1>1. PassGoesOn(a) \in [Passes -> [todo : SUBSET Rules, at : Starts \cup {None}]]
  BY DEF PassGoesOn
<1>2. CASE Came(a)
  <2>1. start' \in [Starts -> Calls]
    BY <1>2, AnsweredType DEF Came, Answered
  <2>2. loop' \in [Rules -> [Loops -> {"ended", "asleep", "due", "trying"}]]
    BY <1>2 DEF Came
  <2>3. active' \subseteq Rules /\ retrying' \subseteq Rules
    BY <1>2 DEF Came
  <2> QED BY <1>1, <1>2, <2>1, <2>2, <2>3 DEF Came, Calls, Places
<1>3. CASE Failed(a)
  <2>1. start' \in [Starts -> Calls]
    BY <1>3, AnsweredType DEF Failed, Answered
  <2>2. loop' \in [Rules -> [Loops -> {"ended", "asleep", "due", "trying"}]]
    BY <1>3 DEF Failed
  <2> QED BY <1>1, <1>3, <2>1, <2>2 DEF Failed, Calls, Places
<1>4. CASE TunnelDropped(a)
  <2> DEFINE r == start[a].rule
  <2>1. r \in Rules
    OBVIOUS
  <2>2. /\ loop' \in [Rules -> [Loops -> {"ended", "asleep", "due", "trying"}]]
        /\ current' \in [Rules -> Loops \cup {None}]
        /\ lost' \subseteq Rules
    <3>1. RetryTunnel(start[a].rule) \/ UNCHANGED <<loops, lost>>
      BY <1>4, Zenon DEF TunnelDropped
    <3>2. CASE RetryTunnel(r)
      <4>1. PICK l \in Loops : /\ loop' = [loop EXCEPT ![r][l] = "asleep"]
                               /\ current' = [current EXCEPT ![r] = l]
                               /\ lost' = lost \ {r}
        BY <3>2 DEF RetryTunnel
      <4> HIDE DEF r
      <4> QED BY <2>1, <4>1
    <3>3. CASE UNCHANGED <<loops, lost>>
      BY <3>3
    <3> QED BY <3>1, <3>2, <3>3
  <2>3. active' \subseteq Rules /\ retrying' \subseteq Rules /\ closed' \subseteq Starts
    BY <1>4, <2>1 DEF TunnelDropped
  <2> QED BY <1>4, <2>2, <2>3 DEF TunnelDropped
<1> QED BY <1>2, <1>3, <1>4

\* A step on a whole rule, on all of them, or of the vault.
LEMMA RuleTypes ==
  ASSUME TypeOK,
         \/ \E r \in Rules : \/ StopTunnel(r) \/ TunnelStop(r) \/ Stopped(r)
                             \/ DeletePortForwarding(r)
         \/ \E p \in Passes, want \in SUBSET Rules : Autostart(p, want)
         \/ DisconnectAll \/ RetryNow \/ Lock \/ Unlock
  PROVE  TypeOK'
<1> USE DEF TypeOK, backend, calls, loops, frontend, world
<1>1. ASSUME NEW r \in Rules, StopTunnel(r) \/ DeletePortForwarding(r) PROVE TypeOK'
  <2>1. CASE StopTunnel(r)
    BY <2>1 DEF StopTunnel
  <2>2. CASE DeletePortForwarding(r)
    BY <2>2 DEF DeletePortForwarding
  <2> QED BY <1>1, <2>1, <2>2
<1>7. ASSUME NEW r \in Rules, TunnelStop(r) PROVE TypeOK'
  <2>1. told' \subseteq Starts
    BY <1>7 DEF TunnelStop
  <2>2. tunnels' \in [Rules -> Starts \cup {None}]
    BY <1>7 DEF TunnelStop
  <2> QED BY <1>7, <2>1, <2>2 DEF TunnelStop
<1>2. ASSUME NEW r \in Rules, Stopped(r) PROVE TypeOK'
  BY <1>2 DEF Stopped
<1>3. ASSUME NEW p \in Passes, NEW want \in SUBSET Rules, Autostart(p, want) PROVE TypeOK'
  BY <1>3 DEF Autostart
<1>4. CASE DisconnectAll
  BY <1>4 DEF DisconnectAll
<1>5. CASE RetryNow
  <2>1. loop' \in [Rules -> [Loops -> {"ended", "asleep", "due", "trying"}]]
    BY <1>5 DEF RetryNow
  <2>2. current' \in [Rules -> Loops \cup {None}]
    BY <1>5 DEF RetryNow
  <2> QED BY <1>5, <2>1, <2>2 DEF RetryNow
<1>6. CASE Lock \/ Unlock
  BY <1>6 DEF Lock, Unlock
<1> QED BY <1>1, <1>2, <1>3, <1>4, <1>5, <1>6, <1>7

\* Everything a variable can hold, on both sides of the IPC boundary.
THEOREM TypeCorrect == Spec => []TypeOK
<1>1. TypeOK /\ [Next]_vars => TypeOK'
  <2> SUFFICES ASSUME TypeOK, [Next]_vars PROVE TypeOK'
    OBVIOUS
  <2>1. CASE UNCHANGED vars
    BY <2>1 DEF vars, TypeOK
  <2>2. CASE Next
    BY <2>2, AskTypes, StartTypes, BackTypes, RuleTypes DEF Next
  <2> QED BY <2>1, <2>2
<1> QED BY TypeInit, <1>1, PTL DEF Spec

-----------------------------------------------------------------------------
(* The inductive invariant *)

\* A start that is still on its way has left no task.
NoTaskYet == \A a \in Starts : start[a].at \in {"called", "connecting", "bound"} => task[a] = "none"

\* A stop was sent to a task that has not ended and that no rule lists.
ToldIsGoing == \A a \in told : task[a] # "none" /\ \A r \in Rules : tunnels[r] # a

Listed == RunningIsListed /\ ListedIsLive /\ NoTaskYet /\ ToldIsGoing

LEMMA ListedInit == Init => Listed
<1> SUFFICES ASSUME Init PROVE Listed
  OBVIOUS
<1> QED BY DEF Init, Listed, RunningIsListed, ListedIsLive, NoTaskYet, ToldIsGoing

\* What begins a start takes one that has no task and so is not listed.
LEMMA BeginKeepsListed ==
  ASSUME TypeOK, Listed, NEW a \in Starts, NEW r \in Rules, NEW o \in Owners,
         Begin(a, r, o), UNCHANGED backend
  PROVE  Listed'
<1> USE DEF TypeOK, backend, Begin, Unused
<1>1. \A b \in Starts : b # a => start'[b] = start[b]
  OBVIOUS
<1>2. task[a] = "none"
  OBVIOUS
<1>3. \A q \in Rules : tunnels[q] # a
  BY <1>2 DEF Listed, ListedIsLive
<1> QED BY <1>1, <1>2, <1>3 DEF Listed, RunningIsListed, ListedIsLive, NoTaskYet, ToldIsGoing

\* A call that goes on towards a task, or is answered, keeps its rule.
LEMMA CallKeepsListed ==
  ASSUME TypeOK, Listed, UNCHANGED backend,
         \A a \in Starts : /\ start'[a].rule = start[a].rule
                           /\ start'[a].at \in {"called", "connecting", "bound"}
                                => start[a].at \in {"called", "connecting", "bound"}
  PROVE  Listed'
BY DEF TypeOK, backend, Listed, RunningIsListed, ListedIsLive, NoTaskYet, ToldIsGoing

\* The new entry replaces one whose task is told.
LEMMA InsertKeepsListed ==
  ASSUME TypeOK, Listed, NEW a \in Starts, Insert(a)
  PROVE  Listed'
<1> USE DEF TypeOK, Insert, Goes
<1>1. task[a] = "none" /\ a \notin told
  BY DEF Listed, NoTaskYet, ToldIsGoing
<1>2. \A q \in Rules : tunnels[q] # a
  BY <1>1 DEF Listed, ListedIsLive
<1>3. RunningIsListed'
  BY <1>1, <1>2 DEF Listed, RunningIsListed, ListedIsLive
<1>4. ListedIsLive'
  BY <1>1, <1>2 DEF Listed, ListedIsLive
<1>5. NoTaskYet'
  BY DEF Listed, NoTaskYet
<1>6. ToldIsGoing'
  <2> DEFINE r == start[a].rule
  <2>1. told' = told \cup ({tunnels[r]} \ {None}) /\ task' = [task EXCEPT ![a] = "running"]
    OBVIOUS
  <2>2. r \in Rules /\ tunnels' = [tunnels EXCEPT ![r] = a]
    OBVIOUS
  <2>3. tunnels[r] # None => task[tunnels[r]] \in {"running", "dropped"}
    BY <2>2 DEF Listed, ListedIsLive
  <2>4. tunnels[r] # None => start[tunnels[r]].rule = r
    BY <2>2 DEF Listed, ListedIsLive
  <2> HIDE DEF r
  <2>5. ASSUME NEW b \in told' PROVE task'[b] # "none" /\ \A q \in Rules : tunnels'[q] # b
    <3>1. b # a /\ b \in Starts /\ task[b] # "none"
      BY <1>1, <2>1, <2>2, <2>3, <2>5 DEF Listed, ToldIsGoing
    <3>2. ASSUME NEW q \in Rules, q # r PROVE tunnels[q] # b
      <4>1. CASE b \in told
        BY <4>1 DEF Listed, ToldIsGoing
      <4>2. CASE b = tunnels[r] /\ b # None
        BY <2>4, <3>2, <4>2 DEF Listed, ListedIsLive
      <4> QED BY <2>1, <2>5, <4>1, <4>2
    <3> QED BY <2>1, <2>2, <3>1, <3>2
  <2> QED BY <2>5 DEF ToldIsGoing
<1> QED BY <1>3, <1>4, <1>5, <1>6 DEF Listed

\* A task leaves "running" for "closing" only when it is told, and no rule
\* lists it then.
LEMMA TaskKeepsListed ==
  ASSUME TypeOK, Listed, NEW a \in Starts, SeeStop(a) \/ SeeDrop(a) \/ End(a)
  PROVE  Listed'
<1> USE DEF TypeOK, calls
<1>1. CASE SeeStop(a)
  BY <1>1 DEF SeeStop, Listed, RunningIsListed, ListedIsLive, NoTaskYet, ToldIsGoing
<1>2. CASE SeeDrop(a)
  BY <1>2 DEF SeeDrop, Listed, RunningIsListed, ListedIsLive, NoTaskYet, ToldIsGoing
<1>3. CASE End(a)
  BY <1>3 DEF End, Listed, RunningIsListed, ListedIsLive, NoTaskYet, ToldIsGoing
<1> QED BY <1>1, <1>2, <1>3

\* An entry that is removed, whoever's it is, tells its task.
LEMMA RemoveKeepsListed ==
  ASSUME TypeOK, Listed,
         (\E a \in Starts : Report(a)) \/ (\E r \in Rules : TunnelStop(r))
  PROVE  Listed'
<1> USE DEF TypeOK, calls
<1>1. ASSUME NEW a \in Starts, Report(a) PROVE Listed'
  <2>1. RunningIsListed'
    BY <1>1 DEF Report, Listed, RunningIsListed, ListedIsLive
  <2>2. ListedIsLive'
    BY <1>1 DEF Report, Listed, ListedIsLive
  <2>3. NoTaskYet'
    BY <1>1 DEF Report, Listed, NoTaskYet
  <2>4. ToldIsGoing'
    BY <1>1 DEF Report, Listed, ListedIsLive, ToldIsGoing
  <2> QED BY <2>1, <2>2, <2>3, <2>4 DEF Listed
<1>2. ASSUME NEW r \in Rules, TunnelStop(r) PROVE Listed'
  BY <1>2 DEF TunnelStop, Listed, RunningIsListed, ListedIsLive, NoTaskYet, ToldIsGoing
<1> QED BY <1>1, <1>2

LEMMA ListedStep == TypeOK /\ Listed /\ [Next]_vars => Listed'
<1> SUFFICES ASSUME TypeOK, Listed, [Next]_vars PROVE Listed'
  OBVIOUS
<1>1. CASE UNCHANGED vars
  BY <1>1 DEF vars, Listed, RunningIsListed, ListedIsLive, NoTaskYet, ToldIsGoing
<1>2. ASSUME NEW r \in Rules, NEW a \in Starts,
             \/ Activate(r, a) \/ \E p \in Passes : AutostartNext(p, r, a)
             \/ \E l \in Loops : WakeTry(r, l, a)
      PROVE  Listed'
  BY <1>2, BeginKeepsListed DEF Activate, AutostartNext, WakeTry
<1>3. ASSUME NEW a \in Starts, Check(a) \/ Connect(a) \/ Refuse(a) PROVE Listed'
  <2>1. PICK from \in {"called", "connecting"}, to \in {"connecting", "bound", "failed"} :
             Goes(a, from, to)
    BY <1>3 DEF Check, Connect, Refuse
  <2>2. UNCHANGED backend
    BY <1>3 DEF Check, Connect, Refuse, CallOnly
  <2>3. \A b \in Starts : b # a => start'[b] = start[b]
    BY <2>1 DEF Goes, TypeOK
  <2>4. start'[a].rule = start[a].rule
    BY <2>1 DEF Goes, TypeOK
  <2>5. start[a].at \in {"called", "connecting", "bound"}
    BY <2>1 DEF Goes
  <2> QED BY <2>2, <2>3, <2>4, <2>5, CallKeepsListed
<1>4. ASSUME NEW a \in Starts, Came(a) \/ Failed(a) PROVE Listed'
  <2>1. PICK how \in {"ok", "failed"} : Answered(a, how)
    BY <1>4 DEF Came, Failed
  <2>2. UNCHANGED backend
    BY <1>4 DEF Came, Failed
  <2>3. \A b \in Starts : b # a => start'[b] = start[b]
    BY <2>1 DEF Answered, TypeOK
  <2>4. start'[a].rule = start[a].rule /\ start'[a].at = "free"
    BY <2>1 DEF Answered, TypeOK
  <2> QED BY <2>2, <2>3, <2>4, CallKeepsListed
<1>5. ASSUME NEW a \in Starts, TunnelDropped(a) PROVE Listed'
  BY <1>5, CallKeepsListed DEF TunnelDropped, calls, TypeOK
<1>6. ASSUME NEW r \in Rules, (\E l \in Loops : WakeStop(r, l)) \/ StopTunnel(r)
                               \/ Stopped(r) \/ DeletePortForwarding(r) PROVE Listed'
  BY <1>6, CallKeepsListed DEF WakeStop, StopTunnel, Stopped, DeletePortForwarding, calls, TypeOK
<1>7. ASSUME \/ \E p \in Passes, want \in SUBSET Rules : Autostart(p, want)
             \/ DisconnectAll \/ RetryNow \/ Lock \/ Unlock
      PROVE  Listed'
  BY <1>7, CallKeepsListed DEF Autostart, DisconnectAll, RetryNow, Lock, Unlock, calls, TypeOK
<1> QED BY <1>1, <1>2, <1>3, <1>4, <1>5, <1>6, <1>7, InsertKeepsListed, TaskKeepsListed,
           RemoveKeepsListed DEF Next

THEOREM ListedAlways == Spec => [](TypeOK /\ Listed)
<1>1. TypeOK /\ Listed /\ [Next]_vars => Listed'
  BY ListedStep
<1> QED BY TypeCorrect, ListedInit, <1>1, PTL DEF Spec

\* Every task that runs can be stopped: it is the one its rule lists or has
\* been told to stop (tunnel.rs, accept_loop and report_dropped).
THEOREM EveryTaskCanBeStopped == Spec => []RunningIsListed
<1>1. Listed => RunningIsListed
  BY DEF Listed
<1> QED BY <1>1, ListedAlways, PTL

\* A rule that is listed has a task that runs or is about to remove the entry,
\* so no entry is left to keep a rule from being started again.
THEOREM NoEntryIsLeft == Spec => []ListedIsLive
<1>1. Listed => ListedIsLive
  BY DEF Listed
<1> QED BY <1>1, ListedAlways, PTL

\* At every moment the table of tunnels says what runs (tunnel.rs, TunnelState),
\* whatever starts, stops, drops and retries interleave.
THEOREM TableStaysTrue == Spec => []TableIsTrue
<1>1. RunningIsListed /\ ListedIsLive => TableIsTrue
  BY DEF TableIsTrue
<1> QED BY <1>1, EveryTaskCanBeStopped, NoEntryIsLeft, PTL

-----------------------------------------------------------------------------
(* Retrying *)

\* The latest loop of a rule is still going after a step that ends another, or
\* that gives the rule a new one.
LEMMA NewLoopKeeps ==
  ASSUME TypeOK, RetryingHasLoop, NEW r \in Rules, RetryTunnel(r),
         saved' = saved, retrying' = retrying \cup {r}
  PROVE  RetryingHasLoop'
<1>1. PICK l \in Loops : /\ loop' = [loop EXCEPT ![r][l] = "asleep"]
                         /\ current' = [current EXCEPT ![r] = l]
                         /\ lost' = lost \ {r}
  BY DEF RetryTunnel
<1>2. l # None
  BY ConstantsAssumption DEF ConstantsAssumption
<1>3. ASSUME NEW q \in (retrying' \cap saved') \ lost'
      PROVE  current'[q] # None /\ loop'[q][current'[q]] # "ended"
  <2>1. CASE q = r
    BY <1>1, <1>2, <2>1 DEF TypeOK
  <2>2. CASE q # r
    <3>1. q \in Rules /\ current'[q] = current[q] /\ loop'[q] = loop[q]
      BY <1>1, <1>3, <2>2 DEF TypeOK
    <3> QED BY <1>1, <1>3, <2>2, <3>1 DEF RetryingHasLoop
  <2> QED BY <2>1, <2>2
<1> QED BY <1>3 DEF RetryingHasLoop

LEMMA RetryStep == TypeOK /\ TypeOK' /\ RetryingHasLoop /\ [Next]_vars => RetryingHasLoop'
<1> SUFFICES ASSUME TypeOK, TypeOK', RetryingHasLoop, [Next]_vars PROVE RetryingHasLoop'
  OBVIOUS
<1> USE DEF backend, calls, loops, frontend, world
<1>1. CASE UNCHANGED <<loop, current, lost>> /\ retrying' \subseteq retrying
           /\ saved' \subseteq saved
  BY <1>1 DEF RetryingHasLoop
<1>2. ASSUME NEW r \in Rules, NEW l \in Loops, NEW a \in Starts, WakeTry(r, l, a)
      PROVE  RetryingHasLoop'
  <2>1. /\ loop' = [loop EXCEPT ![r][l] = "trying"]
        /\ UNCHANGED <<retrying, saved, current, lost>>
    BY <1>2 DEF WakeTry
  <2> QED BY <2>1 DEF RetryingHasLoop, TypeOK
<1>3. ASSUME NEW r \in Rules, NEW l \in Loops, WakeStop(r, l) PROVE RetryingHasLoop'
  <2>1. /\ loop' = [loop EXCEPT ![r][l] = "ended"]
        /\ current[r] # l \/ r \notin retrying \cap Known
        /\ lost' = IF locked /\ current[r] = l /\ r \in retrying THEN lost \cup {r} ELSE lost
        /\ UNCHANGED <<retrying, saved, current>>
    BY <1>3 DEF WakeStop
  <2>2. ASSUME NEW q \in (retrying' \cap saved') \ lost'
        PROVE  current'[q] # None /\ loop'[q][current'[q]] # "ended"
    <3>1. q \in (retrying \cap saved) \ lost /\ q \in Rules
      BY <2>1, <2>2 DEF TypeOK
    <3>2. current[q] # None /\ loop[q][current[q]] # "ended"
      BY <3>1 DEF RetryingHasLoop
    <3>3. ~(q = r /\ current[r] = l)
      BY <2>1, <2>2, <3>1 DEF Known
    <3> QED BY <2>1, <3>1, <3>2, <3>3 DEF TypeOK
  <2> QED BY <2>2 DEF RetryingHasLoop
<1>4. ASSUME NEW a \in Starts, Came(a) PROVE RetryingHasLoop'
  <2> DEFINE r == start[a].rule
             l == start[a].by
  <2>1. /\ retrying' = IF l \in Loops THEN retrying \ {r} ELSE retrying
        /\ loop' = IF l \in Loops THEN [loop EXCEPT ![r][l] = "ended"] ELSE loop
        /\ UNCHANGED <<saved, current, lost>>
    BY <1>4 DEF Came
  <2>2. r \in Rules
    BY DEF TypeOK
  <2> HIDE DEF r, l
  <2>3. ASSUME NEW q \in (retrying' \cap saved') \ lost'
        PROVE  current'[q] # None /\ loop'[q][current'[q]] # "ended"
    <3>1. q \in (retrying \cap saved) \ lost /\ q \in Rules /\ loop'[q] = loop[q]
      BY <2>1, <2>2, <2>3 DEF TypeOK
    <3> QED BY <2>1, <3>1 DEF RetryingHasLoop
  <2> QED BY <2>3 DEF RetryingHasLoop
<1>5. ASSUME NEW a \in Starts, Failed(a) PROVE RetryingHasLoop'
  <2> DEFINE r == start[a].rule
             l == start[a].by
  <2>1. /\ loop' = IF l \in Loops THEN [loop EXCEPT ![r][l] = "asleep"] ELSE loop
        /\ UNCHANGED <<retrying, saved, current, lost>>
    BY <1>5 DEF Failed
  <2> HIDE DEF r, l
  <2> QED BY <2>1 DEF RetryingHasLoop, TypeOK
<1>6. ASSUME NEW a \in Starts, TunnelDropped(a) PROVE RetryingHasLoop'
  <2> DEFINE r == start[a].rule
             retry == r \in Known \cap AutoRules
  <2>1. /\ retrying' = IF retry THEN retrying \cup {r} ELSE retrying
        /\ IF retry THEN RetryTunnel(r) ELSE UNCHANGED <<loops, lost>>
        /\ saved' = saved
    BY <1>6, Zenon DEF TunnelDropped, world
  <2>2. r \in Rules
    BY DEF TypeOK
  <2> HIDE DEF r
  <2>3. CASE retry
    BY <2>1, <2>2, <2>3, NewLoopKeeps
  <2>4. CASE ~retry
    <3>1. retrying' = retrying /\ UNCHANGED <<loop, current, lost, saved>>
      BY <2>1, <2>4
    <3> QED BY <1>1, <3>1
  <2> QED BY <2>3, <2>4
<1>7. CASE RetryNow
  <2>1. PICK next \in [retrying -> Loops] :
           /\ loop' = [r \in Rules |-> IF r \in retrying THEN [loop[r] EXCEPT ![next[r]] = "due"]
                                                         ELSE loop[r]]
           /\ current' = [r \in Rules |-> IF r \in retrying THEN next[r] ELSE current[r]]
    BY <1>7 DEF RetryNow
  <2>2. ASSUME NEW q \in (retrying' \cap saved') \ lost'
        PROVE  current'[q] # None /\ loop'[q][current'[q]] # "ended"
    <3>1. q \in retrying /\ q \in Rules /\ next[q] \in Loops /\ next[q] # None
      BY <1>7, <2>2, ConstantsAssumption DEF RetryNow, TypeOK, ConstantsAssumption
    <3>2. current'[q] = next[q] /\ loop'[q] = [loop[q] EXCEPT ![next[q]] = "due"]
      BY <2>1, <3>1
    <3> QED BY <3>1, <3>2 DEF TypeOK
  <2> QED BY <2>2 DEF RetryingHasLoop
<1>8. CASE UNCHANGED vars
  BY <1>1, <1>8 DEF vars
<1>9. ASSUME NEW r \in Rules,
             \/ \E a \in Starts : Activate(r, a) \/ \E p \in Passes : AutostartNext(p, r, a)
             \/ StopTunnel(r) \/ TunnelStop(r) \/ Stopped(r) \/ DeletePortForwarding(r)
      PROVE  RetryingHasLoop'
  BY <1>1, <1>9 DEF Activate, AutostartNext, StopTunnel, TunnelStop, Stopped, DeletePortForwarding
<1>10. ASSUME NEW a \in Starts,
              \/ Check(a) \/ Connect(a) \/ Refuse(a) \/ Insert(a)
              \/ SeeStop(a) \/ SeeDrop(a) \/ End(a) \/ Report(a)
       PROVE  RetryingHasLoop'
  BY <1>1, <1>10 DEF Check, Connect, Refuse, Insert, SeeStop, SeeDrop, End, Report, CallOnly
<1>11. CASE \/ \E p \in Passes, want \in SUBSET Rules : Autostart(p, want)
            \/ DisconnectAll \/ Lock \/ Unlock
  BY <1>1, <1>11 DEF Autostart, DisconnectAll, Lock, Unlock
<1> QED BY <1>2, <1>3, <1>4, <1>5, <1>6, <1>7, <1>8, <1>9, <1>10, <1>11 DEF Next

\* A rule shown as being retried has a loop that will try it, whatever the
\* number of rules, starts, loops and passes, unless its loop found the vault
\* locked.
THEOREM RetriesHaveLoops == Spec => []RetryingHasLoop
<1>1. Init => RetryingHasLoop
  BY DEF Init, RetryingHasLoop
<1> QED BY <1>1, RetryStep, TypeCorrect, PTL DEF Spec

============================================================================
