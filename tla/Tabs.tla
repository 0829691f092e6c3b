-------------------------------- MODULE Tabs --------------------------------
(***************************************************************************)
(* A terminal tab of the window beside the sessions of the backend: its    *)
(* connect (connect.ts), its terminal's listeners (TerminalView.tsx), the  *)
(* closing of its session, and the loops that bring it back                *)
(* (reconnect.ts).                                                         *)
(*                                                                         *)
(* A step of the window is what it does between two awaits.                *)
(***************************************************************************)
EXTENDS Sessions

CONSTANTS
    Kinds,      \* kinds of tab: a saved host, a quick connection, a local shell
    NumLoops,   \* retry loops alive together: a bound of the model
    Limit,      \* auto_reconnect_attempts
    MaxNow      \* times the network comes back: a bound of the model

ASSUME TabsAssumption ==
    /\ "saved" \in Kinds /\ Kinds \subseteq {"saved", "quick", "shell"}
    /\ NumLoops \in Nat \ {0}
    /\ Limit \in Nat \ {0} /\ MaxNow \in Nat

Loops == 1 .. NumLoops
User == 0                    \* the connect the user asked for, one at a time: a bound
Tasks == {User} \union Loops
NoTask == [at |-> "none", sid |-> NoOne, gen |-> 0, attempt |-> 1]

VARIABLES
    tab,      \* the store's entry, whether it is in retryingTabIds, and whether
              \* the terminal's listeners for its session are there
    gen,      \* tabRetryGen
    task,     \* the connects under way and the retry loops, by the same name
    mail,     \* ssh-closed events on their way to the window
    missed,   \* history: sessions that ended while nobody listened
    stray     \* history: sessions whose connect came back to a tab without need of it

window == <<tab, gen, task, mail, missed, stray>>
vars == <<backend, window>>

NewTab == [status |-> "connecting", sid |-> NoOne, kind |-> "saved",
           reconnecting |-> FALSE, retrying |-> FALSE, hears |-> FALSE]

(* A tab is being opened, or has just dropped a session of before. *)
Init ==
    /\ SessionsInit
    /\ gen = 0
    /\ \/ \E kind \in Kinds :
             /\ tab = [NewTab EXCEPT !.kind = kind]
             /\ task = [k \in Tasks |->
                           IF k = User THEN [NoTask EXCEPT !.at = "connecting"] ELSE NoTask]
       \/ /\ tab = [NewTab EXCEPT !.status = "dropped", !.retrying = TRUE]
          /\ task = [k \in Tasks |-> IF k = 1 THEN [NoTask EXCEPT !.at = "waiting"] ELSE NoTask]
    /\ mail = {} /\ missed = {} /\ stray = {}

Gone == tab.status = "gone"
FreeLoop == {l \in Loops : task[l].at = "none"}
NextFree == CHOOSE l \in FreeLoop : \A m \in FreeLoop : l <= m

-----------------------------------------------------------------------------
(* The retry loops. *)

Waiting(now, attempt) == [NoTask EXCEPT !.at = "waiting", !.gen = now, !.attempt = attempt]

(* Mutant: a loop that has used up its attempts leaves the tab to itself. *)
AfterTryLeaves(k, t) ==
    IF k = User THEN [tab |-> t, task |-> NoTask]
    ELSE IF t.status \in {"gone", "connected"}
    THEN [tab |-> [t EXCEPT !.retrying = FALSE], task |-> NoTask]
    ELSE IF t.retrying /\ task[k].attempt < Limit
    THEN [tab |-> t, task |-> Waiting(gen, task[k].attempt + 1)]
    ELSE [tab |-> t, task |-> NoTask]

(* A connect returns to a tab that is now t: the user's ends there, and a   *)
(* loop is done, gives up, was stopped, or waits for its next attempt.      *)
AfterTry(k, t) ==
    IF k = User THEN [tab |-> t, task |-> NoTask]
    ELSE IF t.status \in {"gone", "connected"} \/ task[k].attempt >= Limit
    THEN [tab |-> [t EXCEPT !.retrying = FALSE], task |-> NoTask]
    ELSE IF t.retrying
    THEN [tab |-> t, task |-> Waiting(gen, task[k].attempt + 1)]
    ELSE [tab |-> t, task |-> NoTask]

Back(k, t) ==
    /\ tab' = AfterTry(k, t).tab
    /\ task' = [task EXCEPT ![k] = AfterTry(k, t).task]

CanReconnect(t) == t.status = "dropped" /\ ~t.reconnecting /\ t.kind = "saved"

(* reconnectSession up to its first await, the credentials. *)
reconnectSession(k, t) ==
    IF CanReconnect(t)
    THEN tab' = t /\ task' = [task EXCEPT ![k].at = "resolving", ![k].gen = 0]
    ELSE Back(k, t)

(* The wait of a loop is over. *)
Wake(l) ==
    /\ task[l].at = "waiting"
    /\ IF task[l].gen # gen
       THEN task' = [task EXCEPT ![l] = NoTask] /\ UNCHANGED tab
       ELSE IF ~tab.retrying \/ tab.status # "dropped"
       THEN task' = [task EXCEPT ![l] = NoTask] /\ tab' = [tab EXCEPT !.retrying = FALSE]
       ELSE reconnectSession(l, tab)
    /\ UNCHANGED <<backend, gen, mail, missed, stray>>

(* The network is back: every retrying tab is tried at once. *)
retryTabsNow ==
    /\ tab.retrying /\ ~tab.reconnecting /\ gen < MaxNow
    /\ FreeLoop # {}
    /\ gen' = gen + 1
    /\ \E attempt \in {task[l].attempt : l \in Loops \ FreeLoop} \union {1} :
          task' = [task EXCEPT ![NextFree] = Waiting(gen + 1, attempt)]
    /\ UNCHANGED <<backend, tab, mail, missed, stray>>

Dropped(t) == [t EXCEPT !.status = "dropped", !.sid = NoOne, !.hears = FALSE]

(* markDropped: a saved host is tried again on its own, but where the user  *)
(* does not want that, or it was a container's command that failed.         *)
markDropped(failed) ==
    \/ tab' = Dropped(tab) /\ UNCHANGED task
    \/ /\ tab.kind = "saved" /\ ~failed
       /\ FreeLoop # {}
       /\ tab' = [Dropped(tab) EXCEPT !.retrying = TRUE]
       /\ task' = [task EXCEPT ![NextFree] = Waiting(gen, 1)]

-----------------------------------------------------------------------------
(* The connects. *)

(* The credentials are there, or the host has none. *)
Resolved(k) ==
    /\ task[k].at = "resolving"
    /\ tab' = IF Gone THEN tab ELSE [tab EXCEPT !.reconnecting = TRUE]
    /\ task' = [task EXCEPT ![k].at = "connecting"]
    /\ UNCHANGED <<backend, gen, mail, missed, stray>>

Unresolved(k) ==
    /\ task[k].at = "resolving"
    /\ Back(k, tab)
    /\ UNCHANGED <<backend, gen, mail, missed, stray>>

(* The backend has the session, and its answer is on the way. *)
Opened(k) ==
    /\ task[k].at = "connecting"
    /\ \E s \in Sids :
          /\ \A t \in 1 .. s - 1 : pump[t] # "none"
          /\ Insert(s, tab.kind = "shell")
          /\ task' = [task EXCEPT ![k].at = "answered", ![k].sid = s]
    /\ UNCHANGED <<tab, gen, mail, missed, stray>>

updateSessionConnected(sid) ==
    [tab EXCEPT !.sid = sid, !.status = "connected", !.reconnecting = FALSE, !.hears = FALSE]

Connected(k) ==
    /\ task[k].at = "answered"
    /\ Back(k, IF Gone THEN tab ELSE updateSessionConnected(task[k].sid))
    /\ stray' = stray \union (IF Gone THEN {task[k].sid} ELSE {tab.sid} \ {NoOne})
    /\ UNCHANGED <<backend, gen, mail, missed>>

(* It failed or ran out of time. *)
NotConnected(k) ==
    /\ task[k].at = "connecting"
    /\ Back(k, IF Gone THEN tab
               ELSE IF tab.status = "connecting" THEN [tab EXCEPT !.status = "error"]
               ELSE [tab EXCEPT !.reconnecting = FALSE])
    /\ UNCHANGED <<backend, gen, mail, missed, stray>>

-----------------------------------------------------------------------------
(* The terminal and its user. *)

(* The effect for the tab's session has run, and its listeners are there. *)
AddListeners ==
    /\ tab.sid # NoOne /\ ~tab.hears
    /\ tab' = [tab EXCEPT !.hears = TRUE]
    /\ UNCHANGED <<backend, gen, task, mail, missed, stray>>

Hears(s) == tab.sid = s /\ tab.hears

(* ssh-closed goes to the listeners there are. *)
Ended(s) ==
    /\ EndLoop(s)
    /\ mail' = IF Hears(s) THEN mail \union {[sid |-> s, reason |-> close_reason(s)]} ELSE mail
    /\ missed' = IF Hears(s) THEN missed ELSE missed \union {s}
    /\ stray' = stray \ {s}
    /\ UNCHANGED <<tab, gen, task>>

removed(t) ==
    [t EXCEPT !.status = "gone", !.sid = NoOne, !.retrying = FALSE, !.reconnecting = FALSE,
              !.hears = FALSE]

(* Mutant: a program that exits is taken for nothing that matters. *)
HearsNoExit ==
    /\ \E event \in mail :
          /\ mail' = mail \ {event}
          /\ IF event.sid # tab.sid \/ event.reason = "exited" THEN UNCHANGED <<tab, task>>
             ELSE IF event.reason = "dropped" THEN markDropped(FALSE)
             ELSE \/ tab' = removed(tab) /\ UNCHANGED task
                  \/ event.reason = "exited" /\ tab.kind = "saved" /\ markDropped(TRUE)
    /\ UNCHANGED <<backend, gen, missed, stray>>

(* The window takes an event.  A terminal that has another session by now   *)
(* is disposed for the old one.                                             *)
HearsEnd ==
    /\ \E event \in mail :
          /\ mail' = mail \ {event}
          /\ IF event.sid # tab.sid THEN UNCHANGED <<tab, task>>
             ELSE IF event.reason = "dropped" THEN markDropped(FALSE)
             ELSE \/ tab' = removed(tab) /\ UNCHANGED task
                  \/ event.reason = "exited" /\ tab.kind = "saved" /\ markDropped(TRUE)
    /\ UNCHANGED <<backend, gen, missed, stray>>

(* What the window sends for the session it shows. A ping after a network   *)
(* change is one of them: one that is answered changes nothing, so it is    *)
(* asked only of a host that is lost, a bound.                              *)
Command1(c, op) ==
    /\ tab.sid # NoOne
    /\ op = "check" => far[tab.sid] = "lost"
    /\ Call(c, op, tab.sid)
    /\ UNCHANGED window

(* Mutant: a tab whose terminal is not there yet goes without its session. *)
CloseTabOnly(c) ==
    /\ ~Gone
    /\ IF tab.sid # NoOne /\ ~tab.hears THEN UNCHANGED backend
       ELSE IF tab.sid # NoOne THEN Call(c, "disconnect", tab.sid) ELSE UNCHANGED backend
    /\ tab' = removed(tab)
    /\ UNCHANGED <<gen, task, mail, missed, stray>>

(* The x of a tab: its session is asked to close, and the tab goes at once. *)
handleCloseTab(c) ==
    /\ ~Gone
    /\ IF tab.sid # NoOne THEN Call(c, "disconnect", tab.sid) ELSE UNCHANGED backend
    /\ tab' = removed(tab)
    /\ UNCHANGED <<gen, task, mail, missed, stray>>

(* The banner's buttons, and Enter in a terminal that has no session. *)
Stop ==
    /\ tab.retrying /\ tab.status = "dropped"
    /\ tab' = [tab EXCEPT !.retrying = FALSE]
    /\ UNCHANGED <<backend, gen, task, mail, missed, stray>>

TryNow ==
    /\ CanReconnect(tab) /\ task[User].at = "none"
    /\ reconnectSession(User, [tab EXCEPT !.retrying = FALSE])
    /\ UNCHANGED <<backend, gen, mail, missed, stray>>

Enter ==
    /\ CanReconnect(tab) /\ task[User].at = "none"
    /\ reconnectSession(User, tab)
    /\ UNCHANGED <<backend, gen, mail, missed, stray>>

-----------------------------------------------------------------------------
BackendStep ==
    /\ CallStep \/ \E s \in Sids : LoopStep(s)
    /\ UNCHANGED window

(* What becomes of a session that is for no tab is not followed: a bound.   *)
FarStep == (\E s \in Sids \ stray : HostStep(s)) /\ UNCHANGED window

ConnectStep(k) ==
    Resolved(k) \/ Unresolved(k) \/ Opened(k) \/ NotConnected(k) \/ Connected(k)

WindowStep == AddListeners \/ HearsEnd

UserStep ==
    \/ \E c \in Callers : handleCloseTab(c) \/ \E op \in Used : Command1(c, op)
    \/ Stop \/ TryNow \/ Enter

Next ==
    \/ BackendStep \/ FarStep \/ (\E s \in Sids : Ended(s))
    \/ (\E k \in Tasks : ConnectStep(k)) \/ WindowStep
    \/ (\E l \in Loops : Wake(l)) \/ retryTabsNow
    \/ UserStep

(* The runtime runs its tasks, a connect comes to an end in its timeout,    *)
(* timers fire and the window hears what it is sent.                        *)
Fairness ==
    /\ WF_vars(BackendStep)
    /\ WF_vars(\E s \in Sids : Ended(s))
    /\ \A k \in Tasks : WF_vars(ConnectStep(k))
    /\ WF_vars(WindowStep)
    /\ \A l \in Loops : WF_vars(Wake(l))

Spec == Init /\ [][Next]_vars /\ Fairness

-----------------------------------------------------------------------------
TypeOK ==
    /\ SessionsTypeOK
    /\ tab \in [status : {"connecting", "connected", "dropped", "error", "gone"},
                sid : Sids \union {NoOne}, kind : Kinds,
                reconnecting : BOOLEAN, retrying : BOOLEAN, hears : BOOLEAN]
    /\ (tab.sid # NoOne) = (tab.status = "connected")
    /\ gen \in 0 .. MaxNow
    /\ task \in [Tasks -> [at : {"none", "waiting", "resolving", "connecting", "answered"},
                           sid : Sids \union {NoOne}, gen : 0 .. MaxNow, attempt : 1 .. Limit]]
    /\ mail \subseteq [sid : Sids, reason : {"closed", "exited", "dropped"}]
    /\ missed \subseteq Sids /\ stray \subseteq Sids

(* A tab that is shown as connected has its session, or is about to hear   *)
(* that it ended; but for one that ended before the terminal could listen.  *)
TabKnows ==
    tab.status = "connected" =>
        \/ tab.sid \in table \union missed
        \/ \E event \in mail : event.sid = tab.sid

ClosingOf(s) ==
    \/ \E c \in Callers : call[c].sid = s /\ call[c].op = "disconnect"
    \/ Asked(s)

(* A session runs for a tab: the tab shows it, or will when the connect     *)
(* comes back, or it has been told to close.  Not so only where its connect *)
(* came back to a tab that was closed or had a session already.             *)
NoneAbandoned ==
    \A s \in Sids : Alive(s) =>
        \/ tab.sid = s \/ s \in stray \/ ClosingOf(s)
        \/ \E k \in Tasks : task[k].at = "answered" /\ task[k].sid = s

(* The button that says Reconnecting has a connect behind it. *)
ReconnectingIsTrue ==
    tab.reconnecting => \E k \in Tasks : task[k].at \in {"connecting", "answered"}

(* What the tab shows of itself is so.                                      *)
TabIsTrue == TabKnows /\ ReconnectingIsTrue

(* Bringing a tab back comes to an end: it is back, stopped or given up.    *)
RetryEnds == []<>(~tab.retrying)
=============================================================================
