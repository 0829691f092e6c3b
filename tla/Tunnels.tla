------------------------------ MODULE Tunnels ------------------------------
(***************************************************************************)
(* Port forwarding: tunnel.rs and commands/tunnel.rs on one side of the    *)
(* IPC boundary, store/slices/tunnels.ts on the other.                     *)
(*                                                                         *)
(* A start is one tunnel_start call and the task it leaves running. The    *)
(* backend lists the running task of each rule by the sender of its stop   *)
(* signal, which is dropped, and so tells the task, when its entry is      *)
(* removed or replaced. The frontend keeps which rules it shows as active  *)
(* and which it is retrying. Several starts of one rule can be on their    *)
(* way at once: by hand, by an autostart pass and by a retry loop. Replies *)
(* and tunnel-closed events reach the frontend in any order.               *)
(***************************************************************************)
EXTENDS Naturals

CONSTANTS
    Rules,      \* saved port forwardings
    AutoRules,  \* those with autostart_on_launch or autostart_on_connect
    Remote,     \* those of kind Remote: the server listens, not this machine
    Starts,     \* bound: starts alive at once, calls and tasks together
    Loops,      \* bound: retry loops alive at once for one rule
    Passes,     \* bound: autostart passes running at once
    User, None

ASSUME ConstantsAssumption ==
    /\ AutoRules \subseteq Rules /\ Remote \subseteq Rules
    /\ None \notin Rules \cup Starts \cup Loops \cup Passes \cup {User}
    /\ User \notin Loops \cup Passes /\ Loops \cap Passes = {}

VARIABLES
    tunnels,  \* backend: TunnelState::tunnels, whose stop_tx is listed for a rule
    start,    \* backend and its caller: each start call
    task,     \* backend: the task each start left running
    told,     \* tasks whose stop_rx has resolved: a stop was sent or the sender dropped
    closed,   \* tasks whose tunnel-closed event is on its way
    stop,     \* each rule's stopTunnel call
    saved,    \* rules not deleted
    active,   \* frontend: activeTunnelIds
    retrying, \* frontend: retryingTunnelIds
    loop,     \* frontend: the retry loops of each rule
    current,  \* frontend: tunnelRetryGen, the loop that has a rule's latest number
    pass,     \* frontend: autostartTunnels calls: rules to go and the start awaited
    locked,
    lost      \* history: rules whose retry loop woke while the vault was locked

backend == <<tunnels, task, told>>
calls == <<start, stop>>
loops == <<loop, current>>
frontend == <<active, retrying, loop, current, pass>>
world == <<saved, locked>>
vars == <<tunnels, start, task, told, closed, stop, saved, active, retrying,
          loop, current, pass, locked, lost>>

Owners == {User} \cup Loops \cup Passes

\* portForwardings as the frontend holds them: a lock empties the list.
Known == IF locked THEN {} ELSE saved

Init == /\ tunnels = [r \in Rules |-> None]
        /\ start \in [Starts -> {[rule |-> r, by |-> User, at |-> "free"] : r \in Rules}]
        /\ \A a, b \in Starts : start[a] = start[b]
        /\ task = [a \in Starts |-> "none"]
        /\ told = {} /\ closed = {}
        /\ stop = [r \in Rules |-> "none"]
        /\ saved = Rules /\ active = {} /\ retrying = {}
        /\ loop = [r \in Rules |-> [l \in Loops |-> "ended"]]
        /\ current = [r \in Rules |-> None]
        /\ pass = [p \in Passes |-> [todo |-> {}, at |-> None]]
        /\ locked = FALSE /\ lost = {}

----------------------------------------------------------------------------
(* Frontend: what asks for a start *)

Unused == {a \in Starts : start[a].at = "free" /\ task[a] = "none" /\ a \notin closed}

\* startTunnel is called; the credentials and jump hosts it looks up first
\* change nothing.
Begin(a, r, owner) ==
    /\ a \in Unused
    /\ start' = [start EXCEPT ![a] = [rule |-> r, by |-> owner, at |-> "called"]]

\* "Activate" on a rule that is shown as neither running nor retrying.
Activate(r, a) ==
    /\ r \in Known /\ r \notin active \cup retrying
    /\ Begin(a, r, User)
    /\ UNCHANGED <<backend, closed, stop, frontend, world, lost>>

\* At a launch, an import or a connection: the rules to start are picked now
\* and started one after another.
Autostart(p, want) ==
    /\ pass[p] = [todo |-> {}, at |-> None]
    /\ want # {} /\ want \subseteq (Known \cap AutoRules) \ active
    /\ pass' = [pass EXCEPT ![p].todo = want]
    /\ UNCHANGED <<backend, calls, closed, active, retrying, loops, world, lost>>

AutostartNext(p, r, a) ==
    /\ pass[p].at = None /\ r \in pass[p].todo
    /\ Begin(a, r, p)
    /\ pass' = [pass EXCEPT ![p] = [todo |-> @.todo \ {r}, at |-> a]]
    /\ UNCHANGED <<backend, closed, stop, active, retrying, loops, world, lost>>

\* A loop's wait is over. A loop that was replaced, whose rule is gone or was
\* deactivated, ends.
WakeStop(r, l) ==
    /\ loop[r][l] \in {"asleep", "due"}
    /\ current[r] # l \/ r \notin retrying \cap Known
    /\ loop' = [loop EXCEPT ![r][l] = "ended"]
    /\ lost' = IF locked /\ current[r] = l /\ r \in retrying THEN lost \cup {r} ELSE lost
    /\ UNCHANGED <<backend, calls, closed, active, retrying, current, pass, world>>

WakeTry(r, l, a) ==
    /\ loop[r][l] \in {"asleep", "due"} /\ current[r] = l /\ r \in retrying \cap Known
    /\ Begin(a, r, l)
    /\ loop' = [loop EXCEPT ![r][l] = "trying"]
    /\ UNCHANGED <<backend, closed, stop, active, retrying, current, pass, world, lost>>

\* retryTunnel: takes the next number and goes to sleep.
RetryTunnel(r) == \E l \in Loops : /\ loop[r][l] = "ended"
                                   /\ loop' = [loop EXCEPT ![r][l] = "asleep"]
                                   /\ current' = [current EXCEPT ![r] = l]
                                   /\ lost' = lost \ {r}

----------------------------------------------------------------------------
(* Backend: tunnel_start and the task *)

\* The call gets past one more of its awaits.
Goes(a, from, to) ==
    /\ start[a].at = from
    /\ start' = [start EXCEPT ![a].at = to]

CallOnly == UNCHANGED <<backend, closed, stop, frontend, world, lost>>

\* "Tunnel already running" is said for a rule that is listed.
Check(a) == Goes(a, "called", "connecting") /\ ~locked /\ tunnels[start[a].rule] = None /\ CallOnly

\* This machine gives a port to one listener at a time; a task holds it until
\* it has ended.
PortHeld(a) == \E b \in Starts : /\ start[b].rule = start[a].rule
                                 /\ start[b].at = "bound" \/ task[b] # "none"

\* connect_tunnel, and then the local port or the one on the server.
Connect(a) == /\ Goes(a, "connecting", "bound")
              /\ start[a].rule \in Remote \/ ~PortHeld(a)
              /\ CallOnly

\* No credentials, a locked vault, a rule already running, no route, a login
\* refused, a port that is taken.
Refuse(a) == /\ \E from \in {"called", "connecting"} : Goes(a, from, "failed")
             /\ CallOnly

\* Mutant: an entry that is there is kept, and with it the sender it holds.
InsertKeepsOld(a) ==
    LET r == start[a].rule IN
    /\ Goes(a, "bound", "ok")
    /\ task' = [task EXCEPT ![a] = "running"]
    /\ tunnels' = [tunnels EXCEPT ![r] = IF @ = None THEN a ELSE @]
    /\ UNCHANGED <<told, closed, stop, frontend, world, lost>>

\* The entry is written over whatever is there, and the task spawned.
Insert(a) ==
    LET r == start[a].rule IN
    /\ Goes(a, "bound", "ok")
    /\ task' = [task EXCEPT ![a] = "running"]
    /\ tunnels' = [tunnels EXCEPT ![r] = a]
    /\ told' = told \cup ({tunnels[r]} \ {None})
    /\ UNCHANGED <<closed, stop, frontend, world, lost>>

\* The select is biased: a stop beats everything else.
SeeStop(a) == /\ task[a] = "running" /\ a \in told
              /\ task' = [task EXCEPT ![a] = "closing"]
              /\ UNCHANGED <<tunnels, told, closed, calls, frontend, world, lost>>

\* The connection is gone and the liveness tick finds it closed, or accepting
\* fails.
SeeDrop(a) == /\ task[a] = "running" /\ a \notin told
              /\ task' = [task EXCEPT ![a] = "dropped"]
              /\ UNCHANGED <<tunnels, told, closed, calls, frontend, world, lost>>

\* A task that was told to stop has disconnected.
End(a) == /\ task[a] = "closing"
          /\ task' = [task EXCEPT ![a] = "none"]
          /\ told' = told \ {a}
          /\ UNCHANGED <<tunnels, closed, calls, frontend, world, lost>>

\* report_dropped removes the rule's entry, whoever wrote it, and sends
\* tunnel-closed; the task ends.
Report(a) ==
    LET r == start[a].rule IN
    /\ task[a] = "dropped"
    /\ task' = [task EXCEPT ![a] = "none"]
    /\ tunnels' = [tunnels EXCEPT ![r] = None]
    /\ told' = (told \cup ({tunnels[r]} \ {None})) \ {a}
    /\ closed' = closed \cup {a}
    /\ UNCHANGED <<calls, frontend, world, lost>>

\* tunnel_stop.
TunnelStop(r) ==
    /\ stop[r] = "called"
    /\ stop' = [stop EXCEPT ![r] = "answered"]
    /\ tunnels' = [tunnels EXCEPT ![r] = None]
    /\ told' = told \cup ({tunnels[r]} \ {None})
    /\ UNCHANGED <<start, task, closed, frontend, world, lost>>

----------------------------------------------------------------------------
(* Frontend: what comes back *)

PassGoesOn(a) == IF start[a].by \in Passes THEN [pass EXCEPT ![start[a].by].at = None] ELSE pass

Answered(a, how) == /\ start[a].at = how
                    /\ start' = [start EXCEPT ![a] = [@ EXCEPT !.at = "free", !.by = User]]

\* tunnelStart resolved. A loop's rule is no longer being retried.
Came(a) ==
    LET r == start[a].rule
        l == start[a].by IN
    /\ Answered(a, "ok")
    /\ active' = active \cup {r}
    /\ retrying' = IF l \in Loops THEN retrying \ {r} ELSE retrying
    /\ loop' = IF l \in Loops THEN [loop EXCEPT ![r][l] = "ended"] ELSE loop
    /\ pass' = PassGoesOn(a)
    /\ UNCHANGED <<backend, closed, stop, current, world, lost>>

\* tunnelStart rejected: said on the screen, or a loop's next wait.
Failed(a) ==
    LET r == start[a].rule
        l == start[a].by IN
    /\ Answered(a, "failed")
    /\ loop' = IF l \in Loops THEN [loop EXCEPT ![r][l] = "asleep"] ELSE loop
    /\ pass' = PassGoesOn(a)
    /\ UNCHANGED <<backend, closed, stop, active, retrying, current, world, lost>>

\* Mutant: a rule that is being retried already gets no new loop.
TunnelDroppedOnce(a) ==
    LET r == start[a].rule
        retry == r \in Known \cap AutoRules IN
    /\ a \in closed /\ closed' = closed \ {a}
    /\ active' = active \ {r}
    /\ retrying' = IF retry THEN retrying \cup {r} ELSE retrying
    /\ IF retry /\ \A l \in Loops : loop[r][l] = "ended"
         THEN RetryTunnel(r) ELSE UNCHANGED <<loops, lost>>
    /\ UNCHANGED <<backend, calls, pass, world>>

\* tunnelDropped, on a tunnel-closed event.
TunnelDropped(a) ==
    LET r == start[a].rule
        retry == r \in Known \cap AutoRules IN
    /\ a \in closed /\ closed' = closed \ {a}
    /\ active' = active \ {r}
    /\ retrying' = IF retry THEN retrying \cup {r} ELSE retrying
    /\ IF retry THEN RetryTunnel(r) ELSE UNCHANGED <<loops, lost>>
    /\ UNCHANGED <<backend, calls, pass, world>>

\* "Deactivate", and every active rule at once for "Deactivate all".
StopTunnel(r) ==
    /\ stop[r] = "none" /\ r \in active \cup retrying
    /\ stop' = [stop EXCEPT ![r] = "called"]
    /\ UNCHANGED <<backend, start, closed, frontend, world, lost>>

\* tunnelStop resolved.
Stopped(r) ==
    /\ stop[r] = "answered"
    /\ stop' = [stop EXCEPT ![r] = "none"]
    /\ active' = active \ {r} /\ retrying' = retrying \ {r}
    /\ UNCHANGED <<backend, start, closed, loops, pass, world, lost>>

\* "Disconnect all" in the Android notification.
DisconnectAll ==
    /\ active \cup retrying # {}
    /\ stop' = [r \in Rules |-> IF r \in active /\ stop[r] = "none" THEN "called" ELSE stop[r]]
    /\ retrying' = {}
    /\ UNCHANGED <<backend, start, closed, active, loops, pass, world, lost>>

\* retryTunnelsNow, on a network change: every retrying rule gets a loop that
\* does not wait, and tries before the network changes again.
RetryNow ==
    /\ retrying # {} /\ \A r \in retrying, l \in Loops : loop[r][l] # "due"
    /\ \E next \in [retrying -> Loops] :
         /\ \A r \in retrying : loop[r][next[r]] = "ended"
         /\ loop' = [r \in Rules |-> IF r \in retrying THEN [loop[r] EXCEPT ![next[r]] = "due"]
                                                       ELSE loop[r]]
         /\ current' = [r \in Rules |-> IF r \in retrying THEN next[r] ELSE current[r]]
    /\ lost' = lost \ retrying
    /\ UNCHANGED <<backend, calls, closed, active, retrying, pass, saved, locked>>

DeletePortForwarding(r) ==
    /\ r \in Known /\ saved' = saved \ {r}
    /\ UNCHANGED <<backend, calls, closed, frontend, locked, lost>>

----------------------------------------------------------------------------
(* The vault *)

\* vault-locked: clearForLock empties portForwardings; tunnels go on.
Lock == /\ ~locked /\ locked' = TRUE
        /\ UNCHANGED <<backend, calls, closed, frontend, saved, lost>>

\* An unlock; loadAll reads the rules in again.
Unlock == /\ locked /\ locked' = FALSE
          /\ UNCHANGED <<backend, calls, closed, frontend, saved, lost>>

Next == \/ \E r \in Rules :
             \/ \E a \in Starts :
                   \/ Activate(r, a)
                   \/ \E p \in Passes : AutostartNext(p, r, a)
                   \/ \E l \in Loops : WakeTry(r, l, a)
             \/ \E l \in Loops : WakeStop(r, l)
             \/ StopTunnel(r) \/ TunnelStop(r) \/ Stopped(r)
             \/ DeletePortForwarding(r)
        \/ \E p \in Passes, want \in SUBSET Rules : Autostart(p, want)
        \/ \E a \in Starts :
             \/ Check(a) \/ Connect(a) \/ Refuse(a) \/ Insert(a)
             \/ SeeStop(a) \/ SeeDrop(a) \/ End(a) \/ Report(a)
             \/ Came(a) \/ Failed(a) \/ TunnelDropped(a)
        \/ DisconnectAll \/ RetryNow \/ Lock \/ Unlock

Spec == Init /\ [][Next]_vars

----------------------------------------------------------------------------
(* Properties *)

\* Everything a variable can hold.
TypeOK ==
    /\ tunnels \in [Rules -> Starts \cup {None}]
    /\ start \in [Starts -> [rule : Rules, by : Owners,
                             at : {"free", "called", "connecting", "bound", "ok", "failed"}]]
    /\ task \in [Starts -> {"none", "running", "closing", "dropped"}]
    /\ told \subseteq Starts /\ closed \subseteq Starts
    /\ stop \in [Rules -> {"none", "called", "answered"}]
    /\ saved \subseteq Rules /\ active \subseteq Rules /\ retrying \subseteq Rules
    /\ loop \in [Rules -> [Loops -> {"ended", "asleep", "due", "trying"}]]
    /\ current \in [Rules -> Loops \cup {None}]
    /\ pass \in [Passes -> [todo : SUBSET Rules, at : Starts \cup {None}]]
    /\ locked \in BOOLEAN
    /\ lost \subseteq Rules

\* Two starts of one rule, a stop racing a drop and a task that removes the
\* entry of a newer one never leave a tunnel that nothing can stop: a task that
\* runs is the one its rule lists or has been told to stop.
RunningIsListed ==
    \A a \in Starts : task[a] = "running" => a \in told \/ tunnels[start[a].rule] = a

\* "The entry goes, so the rule can be started again" (report_dropped): what is
\* listed runs, or is a task about to remove the entry.
ListedIsLive ==
    \A r \in Rules : tunnels[r] # None =>
        /\ task[tunnels[r]] \in {"running", "dropped"}
        /\ start[tunnels[r]].rule = r

\* The table of tunnels says what runs: what it lists runs, and what runs and
\* was not told to stop it lists.
TableIsTrue == RunningIsListed /\ ListedIsLive

\* A rule shown as being retried has a loop that will try it, whatever drops,
\* stops, hand starts and network changes came in between, unless that loop
\* woke while the vault was locked, found no rules and ended.
RetryingHasLoop ==
    \A r \in (retrying \cap saved) \ lost :
        current[r] # None /\ loop[r][current[r]] # "ended"

============================================================================
