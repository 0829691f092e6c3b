------------------------------- MODULE Trust -------------------------------
(***************************************************************************)
(* How a connect comes to trust a host key: the two known_hosts files      *)
(* (hostkeys.rs), the decision about an offered key (hostverify.rs), the   *)
(* question put to the user and its answer (prompts.rs and the window's    *)
(* queue of dialogs), the rounds of a login that asks (ssh/auth.rs) and    *)
(* the hosts jumped through on the way (jump.rs).                          *)
(***************************************************************************)
EXTENDS Naturals, Sequences, SequencesExt, FiniteSets

CONSTANTS
    Connects,    \* connects under way together
    Hosts, Keys,
    KeyType,     \* the type of each key
    Offers,      \* the keys a host may offer
    Requests,    \* what a connect may be started with: the hosts on its path,
                 \* the policy, and whether there is somebody to ask
    Theirs,      \* what ~/.ssh/known_hosts may hold
    Imports,     \* what an import may bring
    MaxHops,     \* jump hosts at most: 8 in the code
    MaxRounds,   \* questions of one login at most: 20 in the code
    MaxAsked,    \* no connect starts after so many questions: a bound of the model
    MaxEdits,    \* forgets and imports: a bound of the model
    None

Line == [mark : {"none", "@revoked", "@cert-authority"}, hosts : SUBSET Hosts, key : Keys]
LineFor(h, k) == [mark |-> "none", hosts |-> {h}, key |-> k]

ASSUME TrustAssumption ==
    /\ KeyType \in [Keys -> STRING] /\ Offers \in [Hosts -> SUBSET Keys]
    /\ \A c \in Connects : \A r \in Requests[c] :
          /\ r.path \in Seq(Hosts) \ {<<>>} /\ r.interactive \in BOOLEAN
          /\ r.policy \in {"ask", "accept-new", "strict"}
    /\ Theirs \subseteq Seq(Line) /\ Imports \subseteq Seq(Line)
    /\ MaxHops \in Nat /\ MaxRounds \in Nat /\ MaxAsked \in Nat /\ MaxEdits \in Nat
    /\ None \notin Connects \union Hosts \union Keys
    /\ "panel" \notin Connects
    /\ None \notin {"panel", "trust", "once", "replace", "reject", "sent", "cancelled"}

NoConnect == [at |-> "idle", path |-> <<>>, key |-> None, policy |-> "ask",
              interactive |-> TRUE, status |-> "none", rounds |-> 0]
NoRewrite == [by |-> None, kept |-> <<>>, gone |-> {}]

VARIABLES
    ours,      \* BifroSSH's known_hosts
    theirs,    \* ~/.ssh/known_hosts, only ever read
    rewrite,   \* the rewrite of ours under way, with the write lock in hand
    conn,      \* the connects
    asked,     \* how many questions each connect has asked: the request ids
    waiting,   \* the questions whose sender is in the map
    answer,    \* what came through a connect's oneshot
    mail,      \* prompt events on their way to the window
    queue,     \* the window's dialogs, the first of each kind on screen
    reply,     \* answers on their way back
    consent,   \* history: the keys the user said yes to, for a connect
    trusted,   \* history: keys written for a host, and not taken back since
    edits      \* forgets and imports so far

files == <<ours, theirs, rewrite, trusted>>
prompts == <<asked, waiting, answer, mail, queue, reply, consent>>
vars == <<files, conn, prompts, edits>>

Init ==
    /\ ours = <<>> /\ theirs \in Theirs
    /\ rewrite = NoRewrite
    /\ conn = [c \in Connects |-> NoConnect]
    /\ asked = [c \in Connects |-> 0]
    /\ waiting = {} /\ answer = [c \in Connects |-> None]
    /\ mail = <<>> /\ queue = <<>> /\ reply = {}
    /\ consent = {} /\ trusted = {} /\ edits = 0

-----------------------------------------------------------------------------
(* The files. *)

(* The elements of a list that are in keep, in their order. *)
Selected(list, keep) ==
    LET first[n \in 0..Len(list)] ==
            IF n = 0 THEN <<>>
            ELSE IF list[n] \in keep THEN Append(first[n - 1], list[n]) ELSE first[n - 1]
    IN first[Len(list)]

Matching(lines, h) == Selected(lines, {l \in ToSet(lines) : h \in l.hosts})
scan(h) == Matching(ours \o theirs, h)
Plain(h) == {l \in ToSet(scan(h)) : l.mark = "none"}

known_key_types(h) == {KeyType[l.key] : l \in Plain(h)}

(* The lines that settle an offer at once. *)
Settles(l, k) == l.key = k /\ l.mark # "@cert-authority"

check_host(h, k) ==
    IF \E l \in ToSet(scan(h)) : Settles(l, k)
    THEN IF Selected(scan(h), {l \in ToSet(scan(h)) : Settles(l, k)})[1].mark = "@revoked"
         THEN "revoked"
         ELSE IF \E l \in ToSet(Matching(ours, h)) : Settles(l, k) THEN "match" ELSE "mirror"
    ELSE IF KeyType[k] \in known_key_types(h) THEN "mismatch"
    ELSE IF known_key_types(h) # {} THEN "other-type" ELSE "unknown"

LockFree == rewrite = NoRewrite

Learned(h, k) ==
    IF \E l \in ToSet(Matching(ours, h)) : l.mark = "none" /\ l.key = k
    THEN ours ELSE Append(ours, LineFor(h, k))

(* Marked lines stay; with a type, so do the host's keys of other types. *)
Kept(h, types) ==
    Selected(ours, {l \in ToSet(ours) :
                        l.mark # "none" \/ h \notin l.hosts \/ KeyType[l.key] \notin types})

(* merge_lines: a host field with another key of the type is left alone. *)
Accepts(lines, l) ==
    \A held \in ToSet(lines) :
        ~(held.mark = l.mark /\ held.hosts = l.hosts /\ KeyType[held.key] = KeyType[l.key])
merge_lines(lines) ==
    LET held[n \in 0..Len(lines)] ==
            IF n = 0 THEN ours
            ELSE IF Accepts(held[n - 1], lines[n]) THEN Append(held[n - 1], lines[n])
            ELSE held[n - 1]
    IN held[Len(lines)]

-----------------------------------------------------------------------------
(* Asking. *)

Id(c, n) == [by |-> c, n |-> n]
Now(c) == Id(c, asked[c])
Host(c) == Head(conn[c].path)

(* prompts::request up to its wait: the question is named by the next id. *)
Ask(c, kind, h, k, status) ==
    LET id == Id(c, asked[c] + 1) IN
    /\ asked' = [asked EXCEPT ![c] = @ + 1]
    /\ waiting' = waiting \union {id}
    /\ mail' = Append(mail, [is |-> kind, id |-> id, host |-> h, key |-> k, status |-> status])
    /\ UNCHANGED <<answer, queue, reply, consent>>

(* Mutant: the window is not told that the question is over. *)
ResumeUntold(c) ==
    /\ waiting' = waiting \ {Now(c)}
    /\ answer' = [answer EXCEPT ![c] = None]
    /\ UNCHANGED <<asked, mail, queue, reply, consent>>

(* And after it: whatever came, the question is taken back. *)
Resume(c) ==
    /\ waiting' = waiting \ {Now(c)}
    /\ answer' = [answer EXCEPT ![c] = None]
    /\ mail' = Append(mail, [is |-> "cancel", id |-> Now(c)])
    /\ UNCHANGED <<asked, queue, reply, consent>>

Ends(c) == conn' = [conn EXCEPT ![c] = NoConnect]
Goes(c, at) == conn' = [conn EXCEPT ![c].at = at]

-----------------------------------------------------------------------------
(* A connect. *)

Start(c) ==
    /\ conn[c].at = "idle" /\ asked[c] < MaxAsked
    /\ \E r \in Requests[c] :
          /\ Len(r.path) <= MaxHops + 1
          /\ conn' = [conn EXCEPT ![c] =
                         [NoConnect EXCEPT !.at = "dialing", !.path = r.path,
                                           !.policy = r.policy, !.interactive = r.interactive]]
    /\ consent' = {yes \in consent : yes[1] # c}
    /\ UNCHANGED <<files, asked, waiting, answer, mail, queue, reply, edits>>

(* The network, the server, or the timeout, which stands still while a      *)
(* question is on screen.                                                   *)
Breaks(c) ==
    /\ conn[c].at \in {"dialing", "auth"}
    /\ Ends(c)
    /\ UNCHANGED <<files, prompts, edits>>

MayAsk(c) == conn[c].policy = "ask" /\ conn[c].interactive

(* verify: the server offers a key. *)
Offered(c, k) ==
    LET status == check_host(Host(c), k)
        told == [conn EXCEPT ![c].key = k, ![c].status = status]
    IN
    /\ conn[c].at = "dialing" /\ k \in Offers[Host(c)]
    /\ CASE status = "match" -> conn' = [told EXCEPT ![c].at = "auth"] /\ UNCHANGED prompts
         [] status = "mirror" -> conn' = [told EXCEPT ![c].at = "learning"] /\ UNCHANGED prompts
         [] status = "unknown" /\ conn[c].policy = "accept-new" ->
              conn' = [told EXCEPT ![c].at = "learning"] /\ UNCHANGED prompts
         [] status \in {"mismatch", "other-type", "unknown"} /\ MayAsk(c) ->
              conn' = [told EXCEPT ![c].at = "asking"] /\ Ask(c, "host key", Host(c), k, status)
         [] OTHER -> Ends(c) /\ UNCHANGED prompts
    /\ UNCHANGED <<files, edits>>

Yes == {"trust", "once", "replace"}

(* Mutant: the wait has no end of its own. *)
DecidedOnlyAnswered(c) ==
    /\ conn[c].at = "asking" /\ answer[c] # None
    /\ Resume(c)
    /\ IF conn[c].status = "unknown" /\ answer[c] = "trust" THEN Goes(c, "learning") ELSE Ends(c)
    /\ UNCHANGED <<files, edits>>

(* The answer is there, or five minutes are over without one. *)
Decided(c) ==
    /\ conn[c].at = "asking"
    /\ Resume(c)
    /\ CASE conn[c].status = "unknown" /\ answer[c] = "trust" -> Goes(c, "learning")
         [] conn[c].status = "unknown" /\ answer[c] = "once" -> Goes(c, "auth")
         [] conn[c].status # "unknown" /\ answer[c] = "replace" -> Goes(c, "replacing")
         [] OTHER -> Ends(c)
    /\ UNCHANGED <<files, edits>>

(* Mutant: the line is appended whoever is rewriting the file. *)
LearnUnlocked(c) ==
    /\ conn[c].at = "learning"
    /\ ours' = Learned(Host(c), conn[c].key)
    /\ trusted' = trusted \union {<<Host(c), conn[c].key>>}
    /\ Goes(c, "auth")
    /\ UNCHANGED <<theirs, rewrite, prompts, edits>>

(* learn_host, under the write lock.  Where it fails, only a key that is    *)
(* known from the other file is good without it.                            *)
Learn(c) ==
    /\ conn[c].at = "learning" /\ LockFree
    /\ ours' = Learned(Host(c), conn[c].key)
    /\ trusted' = trusted \union {<<Host(c), conn[c].key>>}
    /\ Goes(c, "auth")
    /\ UNCHANGED <<theirs, rewrite, prompts, edits>>

NotLearned(c) ==
    /\ conn[c].at = "learning" /\ LockFree
    /\ IF conn[c].status = "mirror" THEN Goes(c, "auth") ELSE Ends(c)
    /\ UNCHANGED <<files, prompts, edits>>

-----------------------------------------------------------------------------
(* remove_lines: the file is read, and written anew, with the lock held. *)

Read(by, h, types) ==
    /\ LockFree
    /\ rewrite' = [by |-> by, kept |-> Kept(h, types),
                   gone |-> ToSet(ours) \ ToSet(Kept(h, types))]

Write ==
    /\ ours' = rewrite.kept
    /\ rewrite' = NoRewrite
    /\ trusted' = {p \in trusted : \A l \in rewrite.gone : p[1] \notin l.hosts \/ p[2] # l.key}

ReplaceReads(c) ==
    /\ conn[c].at = "replacing"
    /\ Read(c, Host(c), {KeyType[conn[c].key]})
    /\ UNCHANGED <<ours, theirs, trusted, conn, prompts, edits>>

ReplaceWrites(c) ==
    /\ rewrite.by = c
    /\ Write
    /\ Goes(c, "learning")
    /\ UNCHANGED <<theirs, prompts, edits>>

ReplaceFails(c) ==
    /\ rewrite.by = c
    /\ rewrite' = NoRewrite
    /\ Ends(c)
    /\ UNCHANGED <<ours, theirs, trusted, prompts, edits>>

(* The Known hosts panel, and an import. *)
ForgetReads(h) ==
    /\ edits < MaxEdits /\ edits' = edits + 1
    /\ Read("panel", h, {KeyType[k] : k \in Keys})
    /\ UNCHANGED <<ours, theirs, trusted, conn, prompts>>

ForgetWrites ==
    /\ rewrite.by = "panel"
    /\ Write
    /\ UNCHANGED <<theirs, conn, prompts, edits>>

import_lines ==
    /\ edits < MaxEdits /\ edits' = edits + 1
    /\ LockFree
    /\ \E lines \in Imports : ours' = merge_lines(lines)
    /\ UNCHANGED <<theirs, rewrite, trusted, conn, prompts>>

-----------------------------------------------------------------------------
(* The login on a host that is trusted: none, or rounds of questions. *)

Authenticated(c) ==
    /\ conn[c].at = "auth"
    /\ IF Len(conn[c].path) = 1 THEN Ends(c)
       ELSE conn' = [conn EXCEPT ![c] =
                        [conn[c] EXCEPT !.at = "dialing", !.path = Tail(conn[c].path),
                                        !.key = None, !.status = "none", !.rounds = 0]]
    /\ UNCHANGED <<files, prompts, edits>>

InfoRequest(c) ==
    /\ conn[c].at = "auth" /\ conn[c].interactive /\ conn[c].rounds < MaxRounds
    /\ conn' = [conn EXCEPT ![c].at = "round", ![c].rounds = @ + 1]
    /\ Ask(c, "auth", Host(c), None, "auth")
    /\ UNCHANGED <<files, edits>>

RoundAnswered(c) ==
    /\ conn[c].at = "round"
    /\ Resume(c)
    /\ IF answer[c] = "sent" THEN Goes(c, "auth") ELSE Ends(c)
    /\ UNCHANGED <<files, edits>>

-----------------------------------------------------------------------------
(* The window: one dialog at a time, host keys first. *)

Shown == LET keys == Selected(queue, {e \in ToSet(queue) : e.is = "host key"}) IN
         IF keys # <<>> THEN keys[1] ELSE queue[1]

Dismissed(q, id) == Selected(q, {e \in ToSet(q) : e.id # id})

Hear ==
    /\ mail # <<>>
    /\ mail' = Tail(mail)
    /\ queue' = IF Head(mail).is = "cancel" THEN Dismissed(queue, Head(mail).id)
                ELSE Append(queue, Head(mail))
    /\ UNCHANGED <<files, conn, asked, waiting, answer, reply, consent, edits>>

Buttons(event) ==
    IF event.is = "auth" THEN {"sent", "cancelled"}
    ELSE IF event.status = "unknown" THEN {"reject", "once", "trust"} ELSE {"reject", "replace"}

Press ==
    /\ queue # <<>>
    /\ \E decision \in Buttons(Shown) :
          /\ reply' = reply \union {[id |-> Shown.id, decision |-> decision]}
          /\ consent' = IF decision \in Yes
                        THEN consent \union {<<Shown.id.by, Shown.host, Shown.key>>} ELSE consent
    /\ queue' = Dismissed(queue, Shown.id)
    /\ UNCHANGED <<files, conn, asked, waiting, answer, mail, edits>>

(* Mutant: the answer goes to whoever waits. *)
RespondAnyone ==
    /\ \E r \in reply :
          /\ reply' = reply \ {r}
          /\ \E id \in waiting :
                waiting' = waiting \ {id} /\ answer' = [answer EXCEPT ![id.by] = r.decision]
    /\ UNCHANGED <<files, conn, asked, mail, queue, consent, edits>>

(* respond_host_key and respond_auth_prompt: nobody waits any more, or the  *)
(* answer goes to who asked.                                                *)
Respond ==
    /\ \E r \in reply :
          /\ reply' = reply \ {r}
          /\ waiting' = waiting \ {r.id}
          /\ answer' = IF r.id \in waiting THEN [answer EXCEPT ![r.id.by] = r.decision] ELSE answer
    /\ UNCHANGED <<files, conn, asked, mail, queue, consent, edits>>

-----------------------------------------------------------------------------
ConnectStep(c) ==
    \/ (\E k \in Keys : Offered(c, k)) \/ Decided(c) \/ Learn(c) \/ NotLearned(c)
    \/ ReplaceReads(c) \/ ReplaceWrites(c) \/ ReplaceFails(c)
    \/ Authenticated(c) \/ InfoRequest(c) \/ RoundAnswered(c) \/ Breaks(c)

Next ==
    \/ \E c \in Connects : Start(c) \/ ConnectStep(c)
    \/ (\E h \in Hosts : ForgetReads(h)) \/ ForgetWrites \/ import_lines
    \/ Hear \/ Press \/ Respond

(* The runtime runs on, the five minutes end, and the window hears.         *)
(* Nothing is asked of the user.                                            *)
Fairness ==
    /\ \A c \in Connects : WF_vars(ConnectStep(c))
    /\ WF_vars(ForgetWrites) /\ WF_vars(Hear)

Spec == Init /\ [][Next]_vars /\ Fairness

-----------------------------------------------------------------------------
Ids == [by : Connects, n : Nat]
Places == {"idle", "dialing", "asking", "learning", "replacing", "auth", "round"}
Statuses == {"none", "match", "mirror", "revoked", "mismatch", "other-type", "unknown", "auth"}
Conns == [at : Places, path : Seq(Hosts), key : Keys \union {None},
          policy : {"ask", "accept-new", "strict"}, interactive : BOOLEAN,
          status : Statuses, rounds : Nat]
Questions == [is : {"host key"}, id : Ids, host : Hosts, key : Keys, status : Statuses]
             \union [is : {"auth"}, id : Ids, host : Hosts, key : {None}, status : Statuses]
Cancels == [is : {"cancel"}, id : Ids]
Decisions == Yes \union {"reject", "sent", "cancelled"}

TypeOK ==
    /\ ours \in Seq(Line) /\ theirs \in Theirs
    /\ rewrite \in [by : Connects \union {"panel", None}, kept : Seq(Line), gone : SUBSET Line]
    /\ conn \in [Connects -> Conns] /\ asked \in [Connects -> Nat]
    /\ waiting \subseteq Ids /\ answer \in [Connects -> Decisions \union {None}]
    /\ mail \in Seq(Questions \union Cancels) /\ queue \in Seq(Questions)
    /\ reply \subseteq [id : Ids, decision : Decisions]
    /\ consent \subseteq Connects \X Hosts \X Keys /\ trusted \subseteq Hosts \X Keys
    /\ edits \in Nat

(* A host is talked to, or its key written down, only if the key was known *)
(* for it, or it was new and new hosts are accepted, or the user was shown  *)
(* that key for that host and said yes.                                     *)
AcceptedIsVouched ==
    \A c \in Connects : conn[c].at \in {"learning", "replacing", "auth", "round"} =>
        \/ conn[c].status \in {"match", "mirror"}
        \/ conn[c].status = "unknown" /\ conn[c].policy = "accept-new"
        \/ <<c, Host(c), conn[c].key>> \in consent

(* The window has a dialog for every question that waits, and none for a   *)
(* question that waits no more; but for what is under way between the two.  *)
DialogsAgree ==
    /\ \A id \in waiting :
          \/ \E e \in ToSet(queue) \union ToSet(mail) : e.id = id
          \/ \E r \in reply : r.id = id
    /\ \A e \in ToSet(queue) :
          \/ e.id \in waiting
          \/ \E cancel \in ToSet(mail) : cancel.is = "cancel" /\ cancel.id = e.id

(* A key written for a host is there until it is replaced or forgotten,    *)
(* whatever else is learned and rewritten meanwhile.                        *)
LearnedStays ==
    \A p \in trusted : \E l \in ToSet(ours) : l.mark = "none" /\ p[1] \in l.hosts /\ p[2] = l.key

(* A connect comes to an end, also when nobody answers its questions.       *)
ConnectsEnd == \A c \in Connects : []<>(conn[c].at = "idle")
=============================================================================
