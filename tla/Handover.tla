------------------------------ MODULE Handover ------------------------------
(***************************************************************************)
(* A terminal's output on its way from the session loop to the window that *)
(* shows it (SessionOutput and Attach in ssh.rs, ssh_attach and ssh_hold in *)
(* commands/ssh.rs, the session effect of TerminalView.tsx), and the tab's *)
(* moves between the main window and one of its own (detach.ts,            *)
(* DetachedTerminal.tsx, commands/window.rs).                              *)
(*                                                                         *)
(* Output is a row of numbered chunks, and a terminal's screen and         *)
(* scrollback are the chunks written to it. Events reach a window in the   *)
(* order they were sent, if it had a listener by then; the answer of a     *)
(* command can overtake them and be overtaken. The session itself goes on  *)
(* for ever, and no more is held back than MAX_PENDING lets through.       *)
(***************************************************************************)
EXTENDS Naturals, Sequences, SequencesExt, Functions

CONSTANTS
    MaxOut,   \* bound: chunks of output
    MaxMoves, \* bound: times the tab is moved out of the main window
    Mishaps,  \* what may go wrong, of the words below
    Nothing

\* overtaken: a hold between the check of a flush and what it emits
\* hasty:     a move begun before the terminal has its backlog
\* late:      the wait for ssh-held is over before the event is heard
\* refused:   the new window cannot be opened
\* crashed:   the tab's window dies
AllMishaps == {"overtaken", "hasty", "late", "refused", "crashed"}

ASSUME HandoverAssumption ==
    /\ MaxOut \in Nat /\ MaxMoves \in Nat /\ Mishaps \subseteq AllMishaps
    /\ Nothing \notin Seq(Nat)

Windows == {"main", "tab"}

VARIABLES
    out,       \* chunks the session has printed
    emitting,  \* the chunk a flush found attached and has not emitted, or 0
    attached,  \* Attach::attached
    pending,   \* Attach::pending
    inbox,     \* events on their way to each window
    view,      \* each window's terminal
    move,      \* how far each window's giving the tab away has come
    given,     \* what ssh_attach answered a move that failed
    open,      \* the tab's window is there
    payload,   \* DetachedTabs: what was left for the next window
    gone,      \* a detached-gone event is on its way
    detached,  \* the tab is marked as in a window of its own
    moves,
    mishaps    \* history: what went wrong so far

output == <<out, emitting, attached, pending>>
windows == <<open, payload, gone, detached, moves>>
hvars == <<out, emitting, attached, pending, inbox, view, move, given, open,
           payload, gone, detached, moves, mishaps>>

NoView == [at |-> "none", shown |-> <<>>, queued |-> <<>>, reply |-> <<>>]

\* A terminal on its way to being bound; what a stashed screen holds is on it.
Fresh(screen) == [NoView EXCEPT !.at = "mounted", !.shown = screen]

Bound(screen) == [NoView EXCEPT !.at = "bound", !.shown = screen]

\* What stands for an ssh-held event among the numbers of the output events.
Held == 0

\* Connected: the shell is up and the tab's terminal is being mounted.
HandoverInit == /\ out = 0 /\ emitting = 0 /\ attached = FALSE /\ pending = <<>>
                /\ inbox = [w \in Windows |-> <<>>]
                /\ view = [main |-> Fresh(<<>>), tab |-> NoView]
                /\ move = [w \in Windows |-> "still"]
                /\ given = <<>>
                /\ open = FALSE /\ payload = Nothing /\ gone = FALSE /\ detached = FALSE
                /\ moves = 0 /\ mishaps = {}

\* A mishap happens, if it may, and is noted.
Mishap(m) == m \in Mishaps /\ mishaps' = mishaps \cup {m}

\* A step that is a mishap when cond holds.
Unless(cond, m) == IF cond THEN Mishap(m) ELSE UNCHANGED mishaps

----------------------------------------------------------------------------
(* The session loop *)

\* flush: held under the lock until a terminal has attached. The guard of the
\* lock is a temporary of the condition and is gone before the emit.
Flush == /\ emitting = 0 /\ out < MaxOut
         /\ out' = out + 1
         /\ IF attached THEN emitting' = out + 1 /\ UNCHANGED pending
                        ELSE pending' = Append(pending, out + 1) /\ UNCHANGED emitting
         /\ UNCHANGED <<attached, inbox, view, move, given, windows, mishaps>>

Listens(w) == view[w].at \in {"listening", "asked", "bound"}

Emit == /\ emitting # 0 /\ emitting' = 0
        /\ inbox' = [w \in Windows |-> IF Listens(w) THEN Append(inbox[w], emitting) ELSE inbox[w]]
        /\ UNCHANGED <<out, attached, pending, view, move, given, windows, mishaps>>

----------------------------------------------------------------------------
(* A terminal binds to its session *)

Listen(w) == /\ view[w].at = "mounted"
             /\ view' = [view EXCEPT ![w].at = "listening"]
             /\ UNCHANGED <<output, inbox, move, given, windows, mishaps>>

\* ssh_attach: the flag and the backlog change under one lock.
Attach(w) ==
    /\ view[w].at = "listening"
    /\ view' = [view EXCEPT ![w].at = "asked", ![w].reply = pending]
    /\ attached' = TRUE /\ pending' = <<>>
    /\ UNCHANGED <<out, emitting, inbox, move, given, windows, mishaps>>

\* The backlog is written, then what arrived live meanwhile.
Replay(w) ==
    /\ view[w].at = "asked"
    /\ view' = [view EXCEPT ![w] = Bound(@.shown \o @.reply \o @.queued)]
    /\ UNCHANGED <<output, inbox, move, given, windows, mishaps>>

\* An output event is written, or queued behind a backlog that has not come.
Output(w) ==
    /\ inbox[w] # <<>> /\ Head(inbox[w]) # Held
    /\ inbox' = [inbox EXCEPT ![w] = Tail(@)]
    /\ view' = IF view[w].at = "bound"
                 THEN [view EXCEPT ![w].shown = Append(@, Head(inbox[w]))]
                 ELSE [view EXCEPT ![w].queued = Append(@, Head(inbox[w]))]
    /\ UNCHANGED <<output, move, given, windows, mishaps>>

----------------------------------------------------------------------------
(* A window gives the tab away *)

\* detachTab in the main window, leave in the tab's: by hand, on a close or
\* because the vault was locked. A tab's window with no terminal yet has no
\* session to hold and leaves an empty screen.
BeginMove(w) ==
    /\ move[w] = "still"
    /\ w = "main" => ~detached /\ ~open /\ moves < MaxMoves /\ view[w].at # "none"
    /\ w = "tab" => open
    /\ moves' = IF w = "main" THEN moves + 1 ELSE moves
    /\ move' = [move EXCEPT ![w] = IF view[w].at = "none" THEN "heard" ELSE "holding"]
    /\ Unless(view[w].at # "bound", "hasty")
    /\ UNCHANGED <<output, inbox, view, given, open, payload, gone, detached>>

\* Mutant: the answer of ssh_hold is taken for the event.
HoldUnheard(w) ==
    /\ move[w] = "holding"
    /\ attached' = FALSE
    /\ inbox' = [inbox EXCEPT ![w] = Append(@, Held)]
    /\ move' = [move EXCEPT ![w] = "heard"]
    /\ Unless(emitting # 0, "overtaken")
    /\ UNCHANGED <<out, emitting, pending, view, given, windows>>

\* ssh_hold: holds, and tells the window that asked.
Hold(w) ==
    /\ move[w] = "holding"
    /\ attached' = FALSE
    /\ inbox' = [inbox EXCEPT ![w] = Append(@, Held)]
    /\ move' = [move EXCEPT ![w] = "waiting"]
    /\ Unless(emitting # 0, "overtaken")
    /\ UNCHANGED <<out, emitting, pending, view, given, windows>>

\* ssh-held is heard, after every event before it, in time or too late.
Heard(w) == /\ inbox[w] # <<>> /\ Head(inbox[w]) = Held
            /\ inbox' = [inbox EXCEPT ![w] = Tail(@)]
            /\ move' = [move EXCEPT ![w] = IF @ = "waiting" THEN "heard" ELSE @]
            /\ UNCHANGED <<output, view, given, windows, mishaps>>

WaitOver(w) == /\ move[w] = "waiting"
               /\ move' = [move EXCEPT ![w] = "heard"]
               /\ Mishap("late")
               /\ UNCHANGED <<output, inbox, view, given, windows>>

\* The screen is serialised and left for the other window.
Pack(w) == /\ move[w] = "heard"
           /\ payload' = view[w].shown
           /\ move' = [move EXCEPT ![w] = "packed"]
           /\ UNCHANGED <<output, inbox, view, given, open, gone, detached, moves, mishaps>>

\* window_detach.
WindowOpens == /\ move["main"] = "packed" /\ ~open /\ open' = TRUE
               /\ move' = [move EXCEPT !["main"] = "opened"]
               /\ UNCHANGED <<output, inbox, view, given, payload, gone, detached, moves, mishaps>>

WindowRefused == /\ move["main"] = "packed" /\ payload' = Nothing
                 /\ move' = [move EXCEPT !["main"] = "refused"]
                 /\ Mishap("refused")
                 /\ UNCHANGED <<output, inbox, view, given, open, gone, detached, moves>>

\* The output is asked back, and written to the terminal that is still there.
AskBack == /\ move["main"] = "refused"
           /\ attached' = TRUE /\ given' = pending /\ pending' = <<>>
           /\ move' = [move EXCEPT !["main"] = "asking"]
           /\ UNCHANGED <<out, emitting, inbox, view, windows, mishaps>>

WriteBack == /\ move["main"] = "asking"
             /\ view' = [view EXCEPT !["main"].shown = @ \o given] /\ given' = <<>>
             /\ move' = [move EXCEPT !["main"] = "still"]
             /\ UNCHANGED <<output, inbox, windows, mishaps>>

\* A window's terminal is disposed of: whatever reaches it is ignored.
Dispose(w) == /\ view' = [view EXCEPT ![w] = NoView]
              /\ inbox' = [inbox EXCEPT ![w] = <<>>]
              /\ move' = [move EXCEPT ![w] = "still"]

\* The window is open: the tab is marked and its terminal here goes.
SetDetached == /\ move["main"] = "opened" /\ detached' = TRUE
               /\ Dispose("main")
               /\ UNCHANGED <<output, given, open, payload, gone, moves, mishaps>>

\* The new window collects what was left for it.
Mount == /\ open /\ view["tab"].at = "none" /\ payload # Nothing /\ move["tab"] = "still"
         /\ view' = [view EXCEPT !["tab"] = Fresh(payload)] /\ payload' = Nothing
         /\ UNCHANGED <<output, inbox, move, given, open, gone, detached, moves, mishaps>>

\* leave ends by destroying the window, and the backend says it has gone.
Close == /\ open /\ move["tab"] = "packed"
         /\ open' = FALSE /\ gone' = TRUE
         /\ Dispose("tab")
         /\ UNCHANGED <<output, given, payload, detached, moves, mishaps>>

Crash == /\ open /\ open' = FALSE /\ gone' = TRUE
         /\ Mishap("crashed")
         /\ Dispose("tab")
         /\ UNCHANGED <<output, given, payload, detached, moves>>

\* takeBack, on detached-gone: the tab comes back with what the window left,
\* or, if it left nothing, with an empty screen.
TakeBack == /\ gone /\ gone' = FALSE
            /\ IF detached
                 THEN /\ view' = [view EXCEPT !["main"] = Fresh(IF payload = Nothing THEN <<>> ELSE payload)]
                      /\ payload' = Nothing /\ detached' = FALSE
                 ELSE UNCHANGED <<view, payload, detached>>
            /\ UNCHANGED <<output, inbox, move, given, open, moves, mishaps>>

HandoverNext == \/ Flush \/ Emit
                \/ \E w \in Windows :
                     \/ Listen(w) \/ Attach(w) \/ Replay(w) \/ Output(w)
                     \/ BeginMove(w) \/ Hold(w) \/ Heard(w) \/ WaitOver(w) \/ Pack(w)
                \/ WindowOpens \/ WindowRefused \/ AskBack \/ WriteBack \/ SetDetached
                \/ Mount \/ Close \/ Crash \/ TakeBack

HandoverSpec == HandoverInit /\ [][HandoverNext]_hvars

----------------------------------------------------------------------------
(* Properties *)

Chunks == 1..MaxOut

\* Everything a variable can hold.
HandoverTypeOK ==
    /\ out \in 0..MaxOut /\ emitting \in 0..MaxOut /\ attached \in BOOLEAN
    /\ pending \in Seq(Chunks) /\ given \in Seq(Chunks)
    /\ inbox \in [Windows -> Seq(Chunks \cup {Held})]
    /\ view \in [Windows -> [at : {"none", "mounted", "listening", "asked", "bound"},
                             shown : Seq(Chunks), queued : Seq(Chunks), reply : Seq(Chunks)]]
    /\ move \in [Windows -> {"still", "holding", "waiting", "heard", "packed", "opened",
                             "refused", "asking"}]
    /\ open \in BOOLEAN /\ gone \in BOOLEAN /\ detached \in BOOLEAN
    /\ payload \in Seq(Chunks) \cup {Nothing}
    /\ moves \in 0..MaxMoves /\ mishaps \subseteq Mishaps

\* Nothing is being moved or on its way to the terminal that shows the tab.
Settled(w) == /\ view[w].at = "bound" /\ (w = "tab") = detached
              /\ \A v \in Windows : move[v] = "still"
              /\ emitting = 0 /\ inbox[w] = <<>>

\* "Nothing printed during the move is lost" (detach.ts): once things have
\* settled, the terminal that shows the tab has on it all the session printed,
\* from the banner that came before any terminal, through any number of moves
\* and a window that was refused.
NothingLost ==
    mishaps \subseteq {"refused"} =>
        \A w \in Windows : Settled(w) => ToSet(view[w].shown) = 1..out

\* "... and nothing is shown twice" (detach.ts), whatever goes wrong.
NeverTwice == \A w \in Windows : IsInjective(view[w].shown)

\* What was held is never written after what came later, even with an event
\* that is late or a window that died.
InOrder ==
    mishaps \subseteq {"late", "crashed"} =>
        \A w \in Windows : \A i, j \in DOMAIN view[w].shown :
            i < j => view[w].shown[i] < view[w].shown[j]

\* "Nothing printed during the move is lost, and nothing is shown twice", nor is
\* it written in another order: as far as each mishap lets it.
ShownOnce == NothingLost /\ NeverTwice /\ InOrder

\* "A terminal that has seen it [ssh-held] has seen everything that will reach
\* it" (ssh_hold): no output is on its way to a window whose wait is over.
HeldIsLast ==
    \A w \in Windows : move[w] \in {"heard", "packed"} =>
        \A i \in DOMAIN inbox[w] : inbox[w][i] = Held

============================================================================
