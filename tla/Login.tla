------------------------------- MODULE Login -------------------------------
(***************************************************************************)
(* One login (ssh/auth.rs): the credential the request named, a key with   *)
(* its certificate or the keys of an agent tried in turn, and the rounds   *)
(* of questions a server asks as a further factor or in place of the rest. *)
(* The server is one that follows AuthenticationMethods: a method that was *)
(* gone through is taken off every list that begins with it, and a list    *)
(* that is used up lets in.                                                *)
(***************************************************************************)
EXTENDS Naturals, Sequences, SequencesExt, FiniteSets

CONSTANTS
    LoginKeys,    \* public keys, known by their fingerprints
    Attempts,     \* what a login may be: the credential, the server, who is there
    MaxPrompts,   \* turns of the loop that answers rounds: 20 in the code
    NoKey

Methods == {"password", "publickey", "keyboard-interactive"}
Round == {"status", "question"}   \* an empty request, or one with prompts

(* An identity of the agent: certificates are identities like any other. *)
AgentIdentity == [key : LoginKeys, cert : BOOLEAN, signs : BOOLEAN]

(* SshAuth, with what the server knows of it. *)
Way == [kind : {"password", "key", "prompts", "agent"},
        right : BOOLEAN,                                  \* the password
        key : LoginKeys \union {NoKey}, hardware : BOOLEAN,
        cert : {"none", "unreadable", "expired", "valid"},
        pin : LoginKeys \union {NoKey}, agent : Seq(AgentIdentity)]
Server == [lists : SUBSET (Seq(Methods) \ {<<>>}), keys : SUBSET LoginKeys, ca : BOOLEAN,
           rounds : Seq(Round)]

ASSUME LoginAssumption ==
    /\ MaxPrompts \in Nat /\ NoKey \notin LoginKeys
    /\ \A a \in Attempts : a.way \in Way /\ a.server \in Server /\ a.attended \in BOOLEAN

VARIABLES
    login,   \* the client: its place, the rest of the agent's keys, what the
             \* server last said it would take, the rounds answered
    got,     \* the server: what is left of its lists, and the keys it has accepted
    offered  \* history: the keys the server was told of

lvars == <<login, got, offered>>

NoLogin == [at |-> "idle", attempt |-> NoKey, todo |-> <<>>, last |-> {},
            turn |-> 0, response |-> "none", wrong |-> FALSE, outcome |-> "none"]

LoginInit ==
    /\ login = NoLogin
    /\ got = [lists |-> {}, keys |-> {}]
    /\ offered = {}

way == login.attempt.way
server == login.attempt.server

-----------------------------------------------------------------------------
(* The server. *)

Remaining(lists) == {Head(l) : l \in lists}

(* A right credential counts where its method is wanted, and a key once. *)
Wants(method, key) ==
    method \in Remaining(got.lists) /\ key \notin got.keys
Advanced(l, method) == IF Head(l) = method THEN Tail(l) ELSE l
After(method, key, right) ==
    IF right /\ Wants(method, key)
    THEN [lists |-> {Advanced(l, method) : l \in got.lists},
          keys |-> (got.keys \union {key}) \ {NoKey}]
    ELSE got

LetsIn(state) == <<>> \in state.lists

-----------------------------------------------------------------------------
(* authenticate. *)

Finish(outcome) == login' = [login EXCEPT !.at = "ended", !.outcome = outcome]

(* One exchange, and where it leads when the server wants more. *)
Tries(method, key, right, next) ==
    LET state == After(method, key, right) IN
    /\ got' = state
    /\ IF LetsIn(state) THEN Finish("in")
       ELSE login' = [login EXCEPT !.at = next, !.last = Remaining(state.lists)]

FirstPlace(a) ==
    CASE a.way.kind = "password" -> "password"
      [] a.way.kind = "prompts" -> "start"
      [] a.way.kind = "agent" -> "agent"
      [] a.way.kind = "key" -> IF a.way.cert = "none" THEN "key" ELSE "cert"

Begin ==
    /\ login.at = "idle"
    /\ \E a \in Attempts :
          /\ login' = [NoLogin EXCEPT !.at = FirstPlace(a), !.attempt = a, !.todo = a.way.agent]
          /\ got' = [got EXCEPT !.lists = a.server.lists]
    /\ UNCHANGED offered

TryPassword ==
    /\ login.at = "password"
    /\ Tries("password", NoKey, way.right, "fallback")
    /\ UNCHANGED offered

(* A security key needs its hardware and is refused before anything is sent. *)
RefuseHardware ==
    /\ login.at \in {"cert", "key"} /\ way.hardware
    /\ Finish("out") /\ UNCHANGED <<got, offered>>

(* Mutant: a login whose certificate is refused is refused. *)
CertificateOrNothing ==
    /\ login.at = "cert" /\ ~way.hardware
    /\ Tries("publickey", way.key, way.cert = "valid" /\ server.ca, "fallback")
    /\ offered' = offered \union {way.key}

(* certificate_auth: whatever comes of it, short of a login, the key is next. *)
CertificateAuth ==
    /\ login.at = "cert" /\ ~way.hardware
    /\ \/ /\ way.cert = "unreadable"
          /\ login' = [login EXCEPT !.at = "key"] /\ UNCHANGED <<got, offered>>
       \/ /\ way.cert # "unreadable"
          /\ Tries("publickey", way.key, way.cert = "valid" /\ server.ca, "key")
          /\ offered' = offered \union {way.key}

TryKey ==
    /\ login.at = "key" /\ ~way.hardware
    /\ Tries("publickey", way.key, way.key \in server.keys, "fallback")
    /\ offered' = offered \union {way.key}

-----------------------------------------------------------------------------
(* agent_auth. *)

MayTry(identity) == way.pin = NoKey \/ identity.key = way.pin
Listed(identity) == IF identity.cert THEN server.ca ELSE identity.key \in server.keys

(* The agent is only asked to sign for a key that the server wants. *)
Refuses(identity) ==
    Listed(identity) /\ Wants("publickey", identity.key) /\ ~identity.signs

AgentNext ==
    /\ login.at = "agent" /\ login.todo # <<>>
    /\ LET identity == Head(login.todo)
           rest == [login EXCEPT !.todo = Tail(@)]
           state == After("publickey", identity.key, Listed(identity)) IN
       IF ~MayTry(identity) THEN login' = rest /\ UNCHANGED <<got, offered>>
       ELSE /\ offered' = offered \union {identity.key}
            /\ IF Refuses(identity) THEN login' = rest /\ UNCHANGED got
               ELSE /\ got' = state
                    /\ IF LetsIn(state) THEN Finish("in")
                       ELSE login' = [rest EXCEPT !.last = Remaining(state.lists)]

(* No key to try is an error of its own; keys that all failed to sign leave *)
(* nothing known of what the server would take.                             *)
AgentDone ==
    /\ login.at = "agent" /\ login.todo = <<>>
    /\ IF \E i \in DOMAIN way.agent : MayTry(way.agent[i])
       THEN login' = [login EXCEPT !.at = "fallback"] ELSE Finish("out")
    /\ UNCHANGED <<got, offered>>

-----------------------------------------------------------------------------
(* keyboard_interactive. *)

Fallback ==
    /\ login.at = "fallback"
    /\ IF login.attempt.attended /\ "keyboard-interactive" \in login.last
       THEN login' = [login EXCEPT !.at = "start"] ELSE Finish("out")
    /\ UNCHANGED <<got, offered>>

(* The server's next word: another round, or its verdict. *)
Says(n, wrong) ==
    LET state == After("keyboard-interactive", NoKey, ~wrong) IN
    IF "keyboard-interactive" \notin Remaining(got.lists) THEN "failure"
    ELSE IF n < Len(server.rounds) THEN server.rounds[n + 1]
    ELSE IF LetsIn(state) THEN "success" ELSE "failure"

StartPrompts ==
    /\ login.at = "start"
    /\ login' = [login EXCEPT !.at = "loop", !.response = Says(0, FALSE)]
    /\ UNCHANGED <<got, offered>>

(* Mutant: an empty round is answered without a turn of the loop. *)
RespondsFree(wrong) ==
    LET n == IF login.response = "status" THEN login.turn ELSE login.turn + 1 IN
    /\ login' = [login EXCEPT !.at = "loop", !.turn = n, !.wrong = wrong, !.response = Says(n, wrong)]
    /\ got' = IF n >= Len(server.rounds) THEN After("keyboard-interactive", NoKey, ~wrong) ELSE got
    /\ UNCHANGED offered

Responds(wrong) ==
    LET n == login.turn + 1 IN
    /\ login' = [login EXCEPT !.at = "loop", !.turn = n, !.wrong = wrong, !.response = Says(n, wrong)]
    /\ got' = IF n >= Len(server.rounds) THEN After("keyboard-interactive", NoKey, ~wrong) ELSE got
    /\ UNCHANGED offered

(* One turn of the loop; when its turns are up, even a success goes unread. *)
Turn ==
    /\ login.at = "loop"
    /\ \/ /\ login.turn >= MaxPrompts \/ login.response \in {"success", "failure"}
          /\ Finish(IF login.turn < MaxPrompts /\ login.response = "success" THEN "in" ELSE "out")
          /\ UNCHANGED <<got, offered>>
       \/ /\ login.turn < MaxPrompts /\ login.response = "status"
          /\ Responds(login.wrong)
       \/ /\ login.turn < MaxPrompts /\ login.response = "question"
          /\ IF login.attempt.attended THEN login' = [login EXCEPT !.at = "question"]
             ELSE Finish("out")
          /\ UNCHANGED <<got, offered>>

(* AuthContext::ask: an answer, or none: cancelled, or nobody in five minutes. *)
Asked ==
    /\ login.at = "question"
    /\ \/ \E wrong \in BOOLEAN : Responds(login.wrong \/ wrong)
       \/ /\ login' = [login EXCEPT !.at = "ended", !.outcome = "out", !.wrong = TRUE]
          /\ UNCHANGED <<got, offered>>

(* The connection goes: what is awaited is an error, and so is all that follows. *)
Drops ==
    /\ login.at \notin {"idle", "ended"}
    /\ Finish("broken") /\ UNCHANGED <<got, offered>>

-----------------------------------------------------------------------------

Authenticate ==
    \/ TryPassword \/ RefuseHardware \/ CertificateAuth \/ TryKey
    \/ AgentNext \/ AgentDone \/ Fallback \/ StartPrompts \/ Turn \/ Asked

LoginNext == Begin \/ Authenticate \/ Drops

(* The exchanges have their timeouts, and so has a question. *)
LoginFairness == WF_lvars(Authenticate)

LoginSpec == LoginInit /\ [][LoginNext]_lvars /\ LoginFairness

-----------------------------------------------------------------------------
(* What a login promises. *)

(* How many of the server's methods the credential can go through. *)
MayBe(a, identity) == a.way.pin \in {NoKey, identity.key}
Takes(a, identity) == IF identity.cert THEN a.server.ca ELSE identity.key \in a.server.keys
KeysThatWork(a) ==
    {a.way.agent[i].key : i \in {i \in DOMAIN a.way.agent :
        MayBe(a, a.way.agent[i]) /\ a.way.agent[i].signs /\ Takes(a, a.way.agent[i])}}
Works(a) ==
    CASE a.way.kind = "password" -> IF a.way.right THEN 1 ELSE 0
      [] a.way.kind = "prompts" -> 0
      [] a.way.kind = "agent" -> Cardinality(KeysThatWork(a))
      [] a.way.kind = "key" ->
            IF ~a.way.hardware
               /\ (a.way.key \in a.server.keys \/ (a.way.cert = "valid" /\ a.server.ca))
            THEN 1 ELSE 0
MayPrompt(a) ==
    /\ Len(a.server.rounds) < MaxPrompts
    /\ a.attended \/ (a.way.kind = "prompts" /\ "question" \notin ToSet(a.server.rounds))
    /\ ~a.way.hardware
    /\ a.way.kind = "agent" =>
          \E i \in DOMAIN a.way.agent : MayBe(a, a.way.agent[i])
                                       /\ (a.way.agent[i].signs \/ ~Takes(a, a.way.agent[i]))
CouldLogIn(a) ==
    \E n \in 0..Works(a) :
        LET head == [i \in 1..n |-> IF a.way.kind = "password" THEN "password" ELSE "publickey"] IN
        \/ head \in a.server.lists
        \/ MayPrompt(a) /\ Append(head, "keyboard-interactive") \in a.server.lists

(* A login is only given up when what was at hand would not have done: the  *)
(* certificate, the key alone, any of the agent's keys, in as many steps as *)
(* the server wants, and its questions after those, answered right          *)
(* (authenticate, certificate_auth, agent_auth, keyboard_interactive).      *)
GivesUpRightly ==
    login.outcome = "out" /\ ~login.wrong => ~CouldLogIn(login.attempt)

(* A pinned key is the only one the server is told of, whatever else the    *)
(* agent holds, so a server that counts tries does not spend them on others.*)
PinnedAlone ==
    login.attempt # NoKey /\ way.kind = "agent" /\ way.pin # NoKey => offered \subseteq {way.pin}

(* A login ends, even with a server that only ever sends it news.           *)
LoginEnds == login.at # "idle" ~> login.at = "ended"
=============================================================================
