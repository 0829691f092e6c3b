------------------------------ MODULE Channels ------------------------------
(***************************************************************************)
(* What goes through the channels of one connection: the port a tunnel     *)
(* listens on and the channels it opens for whoever connects (tunnel.rs,   *)
(* socks5.rs), the relay between a channel and a socket, and the channels  *)
(* a server opens here for X11 and for the agent (x11_forward.rs,          *)
(* agent_forward.rs).                                                      *)
(*                                                                         *)
(* A step is one message, one read or one timer.  Bytes are pieces, cut    *)
(* where the code looks at them; what a message cuts or joins is any run   *)
(* of them.  Which rule has a port, and what its end does to the list of   *)
(* tunnels, is Tunnels.                                                    *)
(***************************************************************************)
EXTENDS Integers, Sequences, FiniteSets, SequencesExt

CONSTANTS
    Plays,        \* "listen", "relay", "x11", "agent": one is played, a bound
    Guests,       \* who connects to the port: a bound
    Fits,         \* what a socket or a window holds, in chunks: a bound
    MaxData,      \* chunks each way, or after a setup: a bound
    MaxRequests,  \* made of the agent: a bound
    Door          \* the task that accepts

ASSUME ChannelsAssumption ==
    /\ Plays \subseteq {"listen", "relay", "x11", "agent"}
    /\ Fits \in Nat \ {0} /\ {MaxData, MaxRequests} \subseteq Nat
    /\ Door \notin Guests

VARIABLES
    play,
    rule,   \* the tunnel's kind, login and keepalives, and what a session asked to forward
    link,   \* the connection: "up", "vanished" and nobody knows, "closed"
    door,   \* the task that accepts
    asked,  \* its stop_rx has resolved
    line,   \* the handle's mutex: its holder first, then who waits, in order
    guest,  \* each who connected
    pipe,   \* the relay
    xw,     \* the X11 channel
    ag      \* the agent channel

listening == <<rule, link, door, asked, line, guest>>
cvars == <<play, listening, pipe, xw, ag>>

-----------------------------------------------------------------------------
(* Listening.  The SOCKS handshake is what the client sends, message by     *)
(* message, and whether it is what was wanted.                              *)

NewGuest == [at |-> "away", proved |-> FALSE, opened |-> FALSE, told |-> "nothing"]

Moves(c, at) == guest' = [guest EXCEPT ![c].at = at]
Ends(c) == Moves(c, "over")
Kept == UNCHANGED <<play, rule, pipe, xw, ag>>
HoldsHandle(who) == line # <<>> /\ Head(line) = who

(* accept_loop: a stop comes before a connection.                           *)
Accepts(c) ==
    /\ door = "open" /\ ~asked /\ guest[c].at = "away"
    /\ IF rule.kind = "dynamic" THEN Moves(c, "greeting") /\ UNCHANGED line
       ELSE Moves(c, "waiting") /\ line' = Append(line, c)
    /\ Kept /\ UNCHANGED <<link, door, asked>>

(* handshake: the version and the methods offered.                          *)
Greets(c) ==
    /\ guest[c].at = "greeting"
    /\ \E socks5, offersPair \in BOOLEAN :
          IF socks5 /\ (rule.login => offersPair)
          THEN Moves(c, IF rule.login THEN "proving" ELSE "asking")
          ELSE Ends(c)
    /\ Kept /\ UNCHANGED <<link, door, asked, line>>

same(user, password) == user /\ password

(* authenticate: the name and the password, right or not.                   *)
Proves(c) ==
    /\ guest[c].at = "proving"
    /\ \E user, password \in BOOLEAN :
          IF same(user, password)
          THEN guest' = [guest EXCEPT ![c].at = "asking", ![c].proved = user /\ password]
          ELSE Ends(c)
    /\ Kept /\ UNCHANGED <<link, door, asked, line>>

(* The request: a CONNECT to an address of a known type, or else nothing.   *)
Asks(c) ==
    /\ guest[c].at = "asking"
    /\ \/ Moves(c, "waiting") /\ line' = Append(line, c)
       \/ Ends(c) /\ UNCHANGED line
    /\ Kept /\ UNCHANGED <<link, door, asked>>

(* A client that hangs up before it has asked. *)
GuestLeaves(c) ==
    /\ guest[c].at \in {"greeting", "proving", "asking"} /\ Ends(c)
    /\ Kept /\ UNCHANGED <<link, door, asked, line>>

(* Mutant: the handle is held for as long as the channel is relayed. *)
OpenAnsweredHeld(c) ==
    /\ guest[c].at = "waiting" /\ HoldsHandle(c)
    /\ \E ok \in BOOLEAN :
          /\ IF ok THEN link = "up" ELSE link # "vanished"
          /\ guest' = [guest EXCEPT ![c].opened = ok,
                          ![c].at = IF rule.kind = "dynamic" THEN "answering"
                                    ELSE IF ok THEN "relaying" ELSE "over"]
          /\ line' = IF ok THEN line ELSE Tail(line)
    /\ Kept /\ UNCHANGED <<link, door, asked>>

(* channel_open_direct_tcpip, with the handle locked until the server has   *)
(* answered or the connection is known to be closed.                        *)
OpenAnswered(c) ==
    /\ guest[c].at = "waiting" /\ HoldsHandle(c)
    /\ \E ok \in BOOLEAN :
          /\ IF ok THEN link = "up" ELSE link # "vanished"
          /\ guest' = [guest EXCEPT ![c].opened = ok,
                          ![c].at = IF rule.kind = "dynamic" THEN "answering"
                                    ELSE IF ok THEN "relaying" ELSE "over"]
    /\ line' = Tail(line)
    /\ Kept /\ UNCHANGED <<link, door, asked>>

(* reply, which a client that has gone does not hear.                       *)
Replies(c) ==
    /\ guest[c].at = "answering"
    /\ \/ guest' = [guest EXCEPT
                       ![c].told = IF guest[c].opened THEN "connected" ELSE "refused",
                       ![c].at = IF guest[c].opened THEN "relaying" ELSE "over"]
       \/ Ends(c)
    /\ Kept /\ UNCHANGED <<link, door, asked, line>>

GuestIsDone(c) ==
    /\ guest[c].at = "relaying" /\ Ends(c)
    /\ Kept /\ UNCHANGED <<link, door, asked, line>>

TunnelStops == ~asked /\ asked' = TRUE /\ Kept /\ UNCHANGED <<link, door, line, guest>>

(* The loop turns to the handle, to look at it or to disconnect.            *)
DoorTurns(to) == door' = to /\ line' = Append(line, Door)

SeesStop ==
    /\ door = "open" /\ asked /\ DoorTurns("closing")
    /\ Kept /\ UNCHANGED <<link, asked, guest>>

(* LIVENESS_TICK. *)
TickDue ==
    /\ door = "open" /\ ~asked /\ DoorTurns("ticking")
    /\ Kept /\ UNCHANGED <<link, asked, guest>>

Ticked ==
    /\ door = "ticking" /\ HoldsHandle(Door)
    /\ IF link = "closed" THEN door' = "closing" /\ line' = Append(Tail(line), Door)
       ELSE door' = "open" /\ line' = Tail(line)
    /\ Kept /\ UNCHANGED <<link, asked, guest>>

AcceptFails ==
    /\ door = "open" /\ ~asked /\ DoorTurns("closing")
    /\ Kept /\ UNCHANGED <<link, asked, guest>>

Shuts ==
    /\ door = "closing" /\ HoldsHandle(Door)
    /\ door' = "shut" /\ line' = Tail(line) /\ link' = "closed"
    /\ Kept /\ UNCHANGED <<asked, guest>>

LinkVanishes == link = "up" /\ link' = "vanished"
ServerHangsUp == link = "up" /\ link' = "closed"
(* keepalive_interval is None for a rule that has none.                     *)
KeepaliveEnds == link = "vanished" /\ rule.keepalive /\ link' = "closed"

LinkStep ==
    /\ LinkVanishes \/ ServerHangsUp \/ KeepaliveEnds
    /\ Kept /\ UNCHANGED <<door, asked, line, guest>>

DoorStep == SeesStop \/ Ticked \/ Shuts
GuestStep(c) == OpenAnswered(c) \/ Replies(c)
ListenStep ==
    /\ play = "listen"
    /\ \/ TunnelStops \/ TickDue \/ AcceptFails \/ DoorStep \/ LinkStep
       \/ \E c \in Guests : \/ Accepts(c) \/ Greets(c) \/ Proves(c) \/ Asks(c)
                            \/ GuestLeaves(c) \/ GuestStep(c) \/ GuestIsDone(c)

-----------------------------------------------------------------------------
(* The relay: what has been made on a side, what is in the socket or the    *)
(* channel here, what is in the socket or the window there, what was read.  *)

NoFlow == [made |-> 0, here |-> 0, there |-> 0, read |-> 0, ended |-> FALSE]
NewPipe == [at |-> "select", hold |-> 0, up |-> NoFlow, down |-> NoFlow, busy |-> FALSE]

Relays(next) == pipe' = next /\ UNCHANGED <<play, listening, xw, ag>>

(* A forwarded connection that reaches nothing here is refused.             *)
server_channel_open_forwarded_tcpip ==
    /\ play = "relay" /\ pipe.at = "asked"
    /\ \E up \in BOOLEAN : Relays([pipe EXCEPT !.at = IF up THEN "select" ELSE "refused"])

Makes(flow) ==
    /\ pipe[flow].made < MaxData /\ pipe[flow].here < Fits /\ ~pipe[flow].ended
    /\ Relays([pipe EXCEPT ![flow].made = @ + 1, ![flow].here = @ + 1])
IsDone(flow) == ~pipe[flow].ended /\ Relays([pipe EXCEPT ![flow].ended = TRUE])

(* The client reads whenever there is something; a busy far side reads when *)
(* all it has to say is on its way.                                         *)
MayRead(flow) == flow = "up" /\ pipe.busy => pipe.down.made = MaxData \/ pipe.down.ended
Reads(flow) ==
    /\ pipe[flow].there > 0 /\ MayRead(flow)
    /\ Relays([pipe EXCEPT ![flow].there = @ - 1, ![flow].read = @ + 1])

(* One turn of the select: what the client sent, or what the channel has.   *)
TakesUp ==
    /\ pipe.at = "select" /\ pipe.up.here > 0
    /\ Relays([pipe EXCEPT !.at = "sending", !.hold = pipe.up.here, !.up.here = 0])

TakesDown ==
    /\ pipe.at = "select" /\ pipe.down.here > 0
    /\ Relays([pipe EXCEPT !.at = "writing", !.hold = 1, !.down.here = @ - 1])

(* It waits for the window, or for the socket, and for nothing else then.   *)
Carries(flow) ==
    /\ pipe.at = IF flow = "up" THEN "sending" ELSE "writing"
    /\ pipe[flow].there < Fits
    /\ Relays([pipe EXCEPT ![flow].there = @ + 1, !.hold = @ - 1,
                           !.at = IF pipe.hold = 1 THEN "select" ELSE @])

(* Mutant: a read of nothing is a read. *)
TakesEofOfChannel ==
    /\ pipe.at = "select" /\ pipe.down.ended /\ pipe.down.here = 0
    /\ Relays([pipe EXCEPT !.at = "over"])

(* Either side is done, and the relay is over for both.                     *)
TakesEof ==
    /\ pipe.at = "select"
    /\ \E flow \in {"up", "down"} : pipe[flow].ended /\ pipe[flow].here = 0
    /\ Relays([pipe EXCEPT !.at = "over"])

proxy_channel == TakesUp \/ TakesDown \/ TakesEof \/ \E flow \in {"up", "down"} : Carries(flow)
RelayReads == \E flow \in {"up", "down"} : Reads(flow)
RelayStep ==
    \/ server_channel_open_forwarded_tcpip
    \/ /\ play = "relay" /\ pipe.at \notin {"asked", "refused"}
       /\ \/ proxy_channel \/ RelayReads
          \/ \E flow \in {"up", "down"} : Makes(flow) \/ IsDone(flow)

-----------------------------------------------------------------------------
(* X11: a setup in two pieces, then data.  The setup carries the session's  *)
(* cookie, another, is no setup at all, or never ends.                      *)

Setups == {"fake", "other", "noise", "endless"}
MaxSetup == 3   \* MAX_SETUP
NewX11 == [at |-> "asked", setup |-> "fake", next |-> 1, buf |-> <<>>, out |-> <<>>]
Forwards(next) == xw' = next /\ UNCHANGED <<play, listening, pipe, ag>>

(* X11Forwarding::open: refused if the session did not ask for it, or if    *)
(* there is no X server.                                                    *)
OpenX11 ==
    /\ play = "x11" /\ xw.at = "asked"
    /\ \/ rule.forwards /\ Forwards([xw EXCEPT !.at = "setup"])
       \/ Forwards([xw EXCEPT !.at = "refused"])

(* All the far side will ever send: pieces, by their numbers.               *)
Length == 2 + MaxData

(* Mutant: the setup is passed on with what follows it. *)
RewriteKeeps(buf) ==
    CASE buf = <<>> -> [found |-> "incomplete", rest |-> <<>>]
      [] xw.setup = "noise" -> [found |-> "refused", rest |-> <<>>]
      [] xw.setup = "endless" \/ Len(buf) < 2 -> [found |-> "incomplete", rest |-> <<>>]
      [] xw.setup = "other" -> [found |-> "refused", rest |-> <<>>]
      [] OTHER -> [found |-> "ready", rest |-> buf]

(* rewrite_setup: what the pieces so far are, and what follows the setup.   *)
rewrite_setup(buf) ==
    CASE buf = <<>> -> [found |-> "incomplete", rest |-> <<>>]
      [] xw.setup = "noise" -> [found |-> "refused", rest |-> <<>>]
      [] xw.setup = "endless" \/ Len(buf) < 2 -> [found |-> "incomplete", rest |-> <<>>]
      [] xw.setup = "other" -> [found |-> "refused", rest |-> <<>>]
      [] OTHER -> [found |-> "ready", rest |-> SubSeq(buf, 3, Len(buf))]

Pieces(n) == [i \in 1 .. n |-> xw.next + i - 1]

(* A message of any length comes while the setup is waited for.             *)
ServeX11 ==
    /\ xw.at = "setup"
    /\ LET seen == rewrite_setup(xw.buf) IN
       CASE seen.found = "ready" ->
              \/ Forwards([xw EXCEPT !.at = "relay", !.buf = <<>>, !.out = <<0>> \o seen.rest])
              \/ Forwards([xw EXCEPT !.at = "over"])   \* the X server has gone
         [] seen.found = "refused" \/ Len(xw.buf) > MaxSetup ->
              Forwards([xw EXCEPT !.at = "over"])
         [] OTHER ->
              \/ \E n \in 1 .. Length + 1 - xw.next :
                    Forwards([xw EXCEPT !.buf = @ \o Pieces(n), !.next = @ + n])
              \/ Forwards([xw EXCEPT !.at = "over"])   \* SETUP_TIMEOUT, or the end

(* proxy_channel passes on what comes after. *)
RelayX11 ==
    /\ xw.at = "relay"
    /\ \/ xw.next <= Length /\ Forwards([xw EXCEPT !.out = Append(@, xw.next), !.next = @ + 1])
       \/ Forwards([xw EXCEPT !.at = "over"])

X11Step == OpenX11 \/ ServeX11 \/ RelayX11

-----------------------------------------------------------------------------
(* The agent: request r is two pieces, <<r, 1>> and <<r, 2>>; a frame may   *)
(* claim to be larger than any.                                             *)

Request(i) == <<(i + 1) \div 2, 2 - (i % 2)>>
NewAgent == [at |-> "asked", next |-> 1, large |-> FALSE, pending |-> <<>>, asking |-> 0,
             queue |-> <<>>, replies |-> <<>>, answered |-> <<>>]
Agent(next) == ag' = next /\ UNCHANGED <<play, listening, pipe, xw>>

(* AgentForwarding::open. *)
OpenAgent ==
    /\ play = "agent" /\ ag.at = "asked"
    /\ \/ rule.forwards /\ Agent([ag EXCEPT !.at = "waiting"])
       \/ Agent([ag EXCEPT !.at = "refused"])

(* The far side sends any run of pieces in a message, or is done.           *)
FarAsks ==
    /\ ag.at = "waiting"
    /\ \/ \E n \in 1 .. 2 * MaxRequests + 1 - ag.next :
             Agent([ag EXCEPT !.pending = @ \o [i \in 1 .. n |-> Request(ag.next + i - 1)],
                              !.next = @ + n, !.at = "framing"])
       \/ Agent([ag EXCEPT !.at = "over"])

(* take_frame: the first whole request there is.                            *)
TakeFrame ==
    /\ ag.at = "framing"
    /\ IF ag.large /\ ag.pending # <<>> /\ Head(ag.pending)[1] = MaxRequests
       THEN Agent([ag EXCEPT !.at = "over"])
       ELSE IF Len(ag.pending) < 2 THEN Agent([ag EXCEPT !.at = "waiting"])
       ELSE Agent([ag EXCEPT !.at = "asking", !.asking = Head(ag.pending)[1],
                             !.queue = Append(@, Head(ag.pending)[1]),
                             !.pending = SubSeq(@, 3, Len(@))])

AgentReplies ==
    /\ play = "agent" /\ ag.queue # <<>>
    /\ Agent([ag EXCEPT !.queue = Tail(@), !.replies = Append(@, Head(ag.queue))])

(* exchange, and the reply sent on; or the far side is gone by then.        *)
Exchanged ==
    /\ ag.at = "asking" /\ ag.replies # <<>>
    /\ \/ Agent([ag EXCEPT !.at = "framing", !.replies = Tail(@),
                           !.answered = Append(@, <<ag.asking, Head(ag.replies)>>)])
       \/ Agent([ag EXCEPT !.at = "over"])

(* Mutant: a request the agent did not answer in time is passed over. *)
AgentPassedOver ==
    /\ ag.at = "asking" /\ Agent([ag EXCEPT !.at = "framing"])

(* REPLY_TIMEOUT, or the agent hangs up: the channel is closed.             *)
AgentFails ==
    /\ ag.at = "asking" /\ Agent([ag EXCEPT !.at = "over"])

AgentStep == OpenAgent \/ FarAsks \/ TakeFrame \/ AgentReplies \/ Exchanged \/ AgentFails

-----------------------------------------------------------------------------
ChannelsInit ==
    /\ play \in Plays
    /\ rule \in [kind : {"local", "dynamic"}, login : BOOLEAN, keepalive : BOOLEAN,
                  forwards : BOOLEAN]
    /\ play # "listen" => rule.kind = "local" /\ ~rule.login /\ rule.keepalive
    /\ play \in {"listen", "relay"} => ~rule.forwards
    /\ link = "up" /\ door = "open" /\ asked = FALSE /\ line = <<>>
    /\ guest = [c \in Guests |-> NewGuest]
    /\ \E busy \in BOOLEAN, at \in {"asked", "select"} :
          pipe = [NewPipe EXCEPT !.at = at, !.busy = busy]
    /\ play # "relay" => pipe = NewPipe
    /\ \E s \in Setups : xw = [NewX11 EXCEPT !.setup = s] /\ (play # "x11" => xw = NewX11)
    /\ \E large \in BOOLEAN : ag = [NewAgent EXCEPT !.large = large]
                                /\ (play # "agent" => ag = NewAgent)

ChannelsNext == ListenStep \/ RelayStep \/ X11Step \/ AgentStep

(* The loop runs, the server answers an open while it is there, keepalives  *)
(* are sent, both ends of a relay read what comes, a busy one gets on with  *)
(* what it says, and timers fire.                                           *)
ChannelsFairness ==
    /\ WF_cvars(play = "listen" /\ (DoorStep \/ TickDue))
    /\ \A c \in Guests : WF_cvars(play = "listen" /\ GuestStep(c))
    /\ WF_cvars(play = "listen" /\ KeepaliveEnds /\ Kept /\ UNCHANGED <<door, asked, line, guest>>)
    /\ WF_cvars(play = "relay" /\ proxy_channel) /\ WF_cvars(play = "relay" /\ RelayReads)
    /\ WF_cvars(play = "relay" /\ pipe.busy /\ Makes("down"))
    /\ WF_cvars(TakeFrame \/ Exchanged \/ AgentFails)

ChannelsSpec == ChannelsInit /\ [][ChannelsNext]_cvars /\ ChannelsFairness

-----------------------------------------------------------------------------
(* A stop, or the end of the connection, shuts the port whatever the guests *)
(* are doing, as long as nobody waits for a server that has vanished        *)
(* unnoticed (tunnel.rs, accept_loop).                                      *)
DoorShuts ==
    []<>(play # "listen" \/ door = "shut" \/ ~(asked \/ link = "closed") \/ link = "vanished")

(* A client is told that it is connected when it is, and that it is not     *)
(* when it is not (socks5.rs, reply); and with a login nothing is opened    *)
(* for one that has not given it, both halves.                              *)
ToldTrue ==
    \A c \in Guests : /\ guest[c].told = "connected" => guest[c].opened
                      /\ guest[c].told = "refused" => ~guest[c].opened
                      /\ guest[c].opened /\ rule.kind = "dynamic" /\ rule.login => guest[c].proved

(* Whichever side the relay turns to, nothing the other sent is lost while  *)
(* neither is done (tunnel.rs, proxy_channel).                              *)
NothingDropped ==
    pipe.at # "over" =>
        \A flow \in {"up", "down"} :
            LET p == pipe[flow]
                held == IF pipe.at = (IF flow = "up" THEN "sending" ELSE "writing")
                        THEN pipe.hold ELSE 0
            IN p.made = p.here + held + p.there + p.read

(* What either side made goes through, or the relay is over, if the far     *)
(* side reads while it writes; once a side is done, it is over.             *)
RelayGoesThrough ==
    []<>(\/ play # "relay" \/ pipe.busy \/ pipe.at \in {"over", "refused", "asked"}
         \/ \A flow \in {"up", "down"} :
               pipe[flow].read = pipe[flow].made /\ ~pipe[flow].ended)

(* "both ways, until either side is done" (tunnel.rs), the same of a far    *)
(* side that reads only when all it has to say is on its way, is not so.    *)
RelayGoesOn ==
    []<>(\/ play # "relay" \/ pipe.at \in {"over", "refused", "asked"}
         \/ \A flow \in {"up", "down"} :
               pipe[flow].read = pipe[flow].made /\ ~pipe[flow].ended)

(* The X server gets a setup of ours and then all that followed the far     *)
(* side's, from its beginning, in order and once, and only if that carried  *)
(* the session's cookie (x11_forward.rs).                                   *)
XServerGetsInOrder ==
    xw.out # <<>> => /\ xw.setup = "fake" /\ rule.forwards
                     /\ xw.out[1] = 0
                     /\ \A i \in 2 .. Len(xw.out) : xw.out[i] = i + 1

(* Each reply that goes back is the agent's to that very request, in order, *)
(* however late the agent is and however the requests were cut.             *)
RepliesMatch == \A i \in DOMAIN ag.answered : ag.answered[i] = <<i, i>>

(* What is answered is true of what was asked, to a client and to an agent's. *)
AnswersAreTrue == ToldTrue /\ RepliesMatch

(* What is passed on is what was sent, by the relay and to an X server.     *)
BytesAreTrue == NothingDropped /\ XServerGetsInOrder

=============================================================================
