# BifroSSH: a verification development

BifroSSH is an SSH client: a Rust process (`src/src-tauri/src`, Tauri and tokio)
that owns the vault, the sessions and the tunnels, and one or more webviews
(`src/src`, React and zustand) that show them. The two talk over IPC: a window
calls a *command* and awaits its answer, and the process *emits* events to
windows that listen. Commands of several windows and tasks of several sessions
run concurrently on the runtime; the program keeps its state in files that a
kill or a power cut can catch at any moment.

This directory holds TLA+ models of the parts where that is hard, TLC runs on
small instances of them and TLAPS proofs for every instance. Line numbers below
and in `PROJECT.json` refer to the sources at this commit.

    tlc -workers 2 -config MCWays_ways.cfg MCWays    # one run
    tlapm Window_proofs.tla                          # one set of proofs

## 1. What there is: the inventory

### Storage and the vault

**Data file** (`store.rs`). State: `data.json` (the whole vault, encrypted),
`data.json.bak`, a temporary, and an unreadable copy set aside. A *save* writes a
temporary, flushes it, copies the current file over the backup, renames and
flushes the directory; a *load* reads the file, and if it does not parse sets it
aside and restores the backup. Hard: a call that fails, a kill, a power cut or an
earlier damage between any two of these calls. Correct when the file is always
one whole version, an acknowledged save survives, and one damaged file is never
the end of the data.

**Keystore and ways in** (`keystore.rs`, `keyring.rs`, `commands/vault.rs`). State:
`keystore.json` with up to four wrappers of one master key (keyring, passphrase,
fingerprint, PIN), `.secret` with the bare key, the keyring of the desktop, the
state of the app (set up, locked, open). Operations: launch, first set-up, unlock
by any route, set and clear each wrapper, always-ask. Hard: every command loads
the file, works on the copy and saves it, without a lock, from three screens; two
files change in one command; the keyring comes and goes. Correct when the owner
is never locked out, always-ask means asked, and no guess at a PIN is free.

**Vault state** (`commands/mod.rs` `AppState`, `commands/vault.rs`,
`commands/records.rs`, `commands/backup.rs`). State: the document behind an async
mutex, the key in a cell of its own. Operations: edit-and-save, import, lock,
unlock. Hard: commands queued on the mutex across a lock or an unlock, a save
that fails after the document in memory has changed. Correct when what was
acknowledged stays and an emptied document is never written.

**Records, export, import and merge** (`commands/records.rs`,
`commands/collections.rs`, `models.rs`, `resolve.rs`, `backup.rs`, `sshconfig.rs`,
`importers/`, the window's store slices). State: hosts, identities, keys, rules,
bookmarks and history that refer to each other by id, in the backend and, copied,
in the window. Operations: save and delete of one, save of a whole list from a
window, export, preview and merge, two other imports. Hard: whole lists saved
from a stale window; references to records that a merge left out or a delete
removed; two machines that gave one host two ids. Correct when every reference
resolves and what is moved between machines arrives and adds without harm.

### Connections

**Known hosts and prompts** (`hostkeys.rs`, `hostverify.rs`, `prompts.rs`, the
window's dialogs). State: the app's `known_hosts` and the user's, pending
prompts, a dialog for each, the paused connect timeout. Hard: an answer that
races its timeout; a decision on a file that has changed since; a replacement
in two steps. Correct when no key is accepted that nobody vouched for, and what
was learned stays.

**Login** (`ssh/auth.rs`). One walk through the methods a server still wants: a
password, a key with its certificate, an agent's keys, rounds of questions.
Correct when it gives up only where nothing it had would have been let in.

**Session loop and session commands** (`ssh.rs`, `commands/ssh.rs`, `local.rs`).
State: a table of sessions behind one mutex, a bounded queue of commands for each
(256), the output buffer. The loop selects over the channel, the commands, a
flush tick and a keepalive. Hard: ends of a session from four sides; commands
that await room in the queue while they hold the table.

**Reconnecting a dropped tab** (`store/slices/reconnect.ts`, `sessions.ts`,
`connect.ts`). State: which tabs are reconnecting, a generation number for each.
Hard: check, await, then set; a tab closed in the middle; network changes.
Correct when a tab shows the truth of its session and no session is left without
a tab.

**Terminal output and detached tabs** (`ssh.rs` `SessionOutput`,
`components/TerminalView.tsx`, `detach.ts`, `DetachedTerminal.tsx`,
`commands/window.rs`). State: the backlog and the attached flag of a session, the
screen of the terminal that shows it, a handover payload. Hard: events and answers
reach a window in either order, and two terminals of one session live side by side
for a moment. Correct when nothing printed is lost, doubled or out of order.

**Channels** (`tunnel.rs`, `socks5.rs`, `x11_forward.rs`, `agent_forward.rs`). The
accepting loop of a tunnel, the relay between a socket and a channel, the SOCKS
handshake, the X11 setup and the agent's requests. Hard: messages cut anywhere,
an agent that answers late, both directions in one loop. Correct when bytes arrive
in order and once, and an answer belongs to its request.

**Tunnels** (`tunnel.rs`, `commands/tunnel.rs`, `store/slices/tunnels.ts`). State: in
the process, for each running rule the sender that stops its task; in the window,
which rules it shows as active or retrying, and a generation number for each
retry loop. Hard: several starts of one rule in flight, answers and
`tunnel-closed` events in either order, timers that outlive their reason. Correct
when whatever runs can be stopped, what is listed lives and a retrying rule is in
fact retried.

### Files

**SFTP transfers** (`sftp/transfer.rs`, `sftp/sides.rs`, `sftp/mod.rs`,
`commands/sftp.rs`). State: the files at the destination, the part files beside
them, a cancel flag, the counts of a summary. Operations: copy a tree under one of
four policies, resume, cancel, copy again, read back, verify. Hard: a source
rewritten between two attempts or during one, a host that goes away without a word,
a rename that is two requests. Correct when what is reported whole is whole, no half
file has a real name, and what can be continued is on offer.

**Transfer queue** (`useTransferQueue.ts`, `transferQueue.ts`, `mismatches.ts`). State:
rows, the jobs behind them, the questions put to the user. Hard: a cancel before
the transfer is in the table; questions of two batches at once.

**The panel's other work** (`sftp/session.rs`, `edit.rs`, `ops.rs`, `listing.rs`,
`archive.rs`, `verify.rs`, `remote_exec.rs`). A file edited in place and watched, a
tree deleted, streamed as tar or compared. Hard: saves during uploads, trees that
change between a walk and what follows it, output that is cut off.

### Around them

Containers, session logs and recordings, ZMODEM, key formats, host probes and
statistics, desktop and Android integration (what locks the vault), panels and
settings, build. `PROJECT.json` lists every part with its sources, what is modelled
of it and why the rest is not; its `hazards` list what in this code a test would
hardly reach, each at its line, with the properties that cover it or the reason none
does.

## 2. The modules

| Module | Models | Checked in | Proofs |
|---|---|---|---|
| `DocRegister` | what the data file promises: one document, changed in one step | (instantiated by `DataFile`) | |
| `DataFile` | `store.rs`: save, load, recovery, one action per system call | itself | `DataFile_proofs` |
| `Keystore` | `keystore.rs` and the vault commands over it | `MCWays` | `Keystore_proofs` |
| `Vault` | `AppState`: document, mutex, key, file, concurrent commands | `MCWays`, itself | `Keystore_proofs` |
| `Records` | what commands, exports, merges and imports make of the lists, as operators | `MCLibrary` | `Library_proofs` |
| `Library` | the backend's document, the window's copies, commands and answers in any order | `MCLibrary` | `Library_proofs` |
| `Trust` | known hosts, the decision on a key, prompts and dialogs, jump hosts | `MCTrust` | `Trust_proofs` |
| `Login` | one login against a server that wants any methods in order | `MCTrust` | `Trust_proofs` |
| `Sessions` | the table, its mutex, the queues, the loop and every end of a session | `MCSession`, itself | |
| `Tabs` | one tab beside the sessions of `Sessions`: connect, listen, retry, close | itself | `Window_proofs` |
| `Handover` | a session's output and its tab's moves between windows | `MCTunnels` | `Window_proofs` |
| `Channels` | accepting loop, relay, SOCKS, X11 and agent channels | `MCSession` | `Tunnels_proofs` |
| `Tunnels` | port forwarding on both sides of the IPC boundary | `MCTunnels` | `Tunnels_proofs` |
| `Transfer` | attempts at copying one tree, with parts, cancels and read back | `MCTransfer` | `Transfer_proofs` |
| `TransferQueue` | the pump, the rows, the jobs, the questions | itself | `TransferQueue_proofs` |
| `Files` | edit in place, delete, archive, compare | `MCTransfer` | `Transfer_proofs` |

Modules that interact are composed: `Tabs` extends `Sessions`, so a tab's connect,
close and drop are steps of the session table and its loops; `Library` extends
`Records` and applies its operators under one lock; `DataFile` implements
`DocRegister`. Two more meet by what each promises. `Vault` has the whole of a save
as one step that works or fails: `DataFile` shows that this is what a save is.
`TransferQueue` has a transfer as one step with the ends a summary can report:
`Transfer` shows what they mean.

Modules that do not interact but are checked in one run stand **side by side**
(`MCWays`, `MCTrust`, `MCTunnels`, `MCSession`, `MCTransfer`): `BesideNext` lets one of
the two move while the other rests at its initial state. Such a run has the states
of the one and the states of the other, not their product, and a property of either
means there what it means alone. Where `BesideSpec` states fairness it is that of each
module.

Definitions that begin with a comment `Mutant:` are not the program: each is a
plausible mistake in the definition below it, and the run named in `PROJECT.json`
finds its property violated when that definition is put in its place.

### DataFile and DocRegister

`file` is what a process reads; `after` is, for each file, the set of contents it
may turn out to have once the power has gone, so a write that was not flushed may
or may not be there, and a rename may be undone until its directory is flushed.
`pc` is the next system call of the one thread that loads or saves. Each of the
calls of `save_app_data_in` and `load_app_data_in` is an action with the outcome
"worked" and, `MaxErrors` times, "failed"; `Stop` can come between any two, and so,
`MaxCuts` times, can `PowerCut`. `Damage` is something other than the app ruining
`data.json` while the app is not using it.

The refinement maps the register's `cur` to `file["data"]`, `may` to
`after["data"]`, "a save runs" to `pc`, and `harmed` to a damage, which ends the
promise. The rename is the commit; all other steps stutter. A save that failed
before the rename is the register's `RFail`. A refused flush of the directory, which
the code ignores, is a save that succeeded and is not settled.

### Keystore

`ks`, `secret` and `data` are the three files, `ring` what the keyring answers,
`phase` the state of the app, and `job` for each of the three screens the command
it is running: a copy of `keystore.json` and the steps left to do. Each step is one
file operation or one decision, so commands of two screens interleave and a kill or
a failing call can come between any two. `write_private` truncates and then writes:
two steps, with a file that does not parse between them. The master key never
changes and is not represented; a wrapper is the secret that opens it. A `Platform` is
a desktop, with a keyring, or a phone, with a PIN and a fingerprint and none
(`ring = NoKeyring`); on a platform of `Serial` a command waits for those of other
screens, which a user may do and nothing in the code enforces.

### Vault

`mem`, `key` and `disk` are the document in memory, whether the key is set and
`data.json`, as sets of records; `holder` is the command that has the data mutex,
`cmd` where each command is. A command that edits waits for the mutex, changes the
document and saves the whole of it before it lets go. A lock empties the document
under the mutex, lets go, and clears the key; an unlock loads, assigns under the
mutex, then publishes the key. `Alone` says whether a lock waits until no other
command is in flight, which is what a user with one window does and nothing in
the code enforces.

### Records and Library

`Records` has no state: a library is a record of lists, and each command, export,
merge and import is an operator on it. A secret is the key it is sealed under; an
address stands for a host's name, port and user, which is what makes two hosts the
same one. The walk along a host's jump hosts is a recursive function bounded by the
number of hops the code follows. `Library` has the document `lib` and the window's
copies; a command is sent with what the window has, runs under the one lock, and its
answer is applied by the window, each at any time and in any order. Imports come from
an export of another machine (`Foreign`), an ssh config and one other client's file.

### Trust

`ours` and `theirs` are the two known_hosts files as sequences of lines, `rewrite` the
rewriting of the first with the write lock in hand, `conn` a connect with its hops,
its offered key and where it waits; `mail`, `queue`, `reply` and `answer` are the way of
a question to a dialog and back, `waiting` the questions whose sender is still there.
A check, an append, a removal, an emit and an answer are steps of their own, so two
connects to one host, the panel's forget and an import interleave wherever the
code awaits or lets go of the lock. `consent` and `trusted` are histories: what the user
said yes to, and what was written and not taken back.

### Login

A server lets in after any one of its lists of methods, in order, and a step that is gone
through is taken off every list that begins with it, as sshd does; `Attempts` are the
credentials a request can name. Each message to the server and its answer is one
step. Some of what the model shows is what a user would not expect: a pinned key
that is missing, an empty agent or a hardware key that fails ends the login with no
fallback to questions; if no agent key can sign, nothing is known of the methods that
remain and there is no fallback either; a server that asks first and wants a key
afterwards is not served; the last of 20 rounds fails though its answers are right;
a password is never replayed into a prompt.

### Sessions and Tabs

`Sessions` has a place for each session in the table, a bounded queue (`Room`), the
mutex with its holder and its waiters, and for each caller the command it runs and
where it awaits. A session's loop ends by an exit of its far end, a close, a lost
connection or a dropped queue, and removes itself under the mutex. `Tabs` is what
the window does between two awaits: a connect, its listeners, `ssh-closed`, up to
`NumLoops` retry loops with their generation, a try by hand, a stop, a network
change and a close.

### Handover

`out` counts the chunks a session has printed; a terminal's `shown` is the chunks
written to it, in order. `attached` and `pending` are `Attach`, `inbox` the events
that have been emitted to a window and not handled. `view` goes through the binding
of a terminal (mounted, listening, asked for the backlog, bound), `move` through the
giving away of a tab (holding, waiting for `ssh-held`, heard, packed, and the
window's opening or refusal). `mishaps` is a history of what went wrong, from the
set `Mishaps` that an instance allows. `ShownOnce` is three promises, each with the
mishaps it survives: `NeverTwice` every one, together; `InOrder` late `ssh-held`
events and crashed windows; `NothingLost` a refused window.

### Channels

Four plays share nothing but the rule: a listening port with guests whose channels
are opened under the lock of the handle; a relay with two bounded sides in one loop;
an X11 setup that arrives cut anywhere and is checked, rewritten and followed by
data; an agent's requests, with replies that come after their timeout. Bytes are
pieces, cut where the code looks at them.

### Tunnels

A member of `Starts` is one `tunnel_start` call together with the task it leaves
running. `tunnels` is `TunnelState::tunnels`: for each rule the start whose stop
sender is listed. Removing or replacing an entry drops the sender, and a dropped
sender resolves the receiver, so the task is `told`. `start` moves through the
awaits of the call, `task` through the life of the task, and `closed` holds the
`tunnel-closed` events on their way. `active` and `retrying` are what the window
shows; `loop` and `current` are its retry loops and `tunnelRetryGen`, where a number
that only ever grows is represented by which loop has the latest one. `pass` is an
autostart pass, which starts its rules one after the other. `lost` is a history: the
rules one of whose loops woke while the vault was locked.

### Transfer

A file is a row of chunks. `src` is the source, which its owner may rewrite; `real` and
`part` are what the destination has under each name a file can get and under that
name with the suffix. `pc` follows an attempt through `transfer` and `transfer_one`:
resolve the conflict, open, compare with the part, create, copy chunk by chunk,
close, or move aside what there is; then the read back of what was resumed and the
verification of the whole. `dest`, `offset`, `got` and `total` are the locals of
`transfer_one`; `kept`, `joined`, `wrong`, `left` and `end` what the summary says. Files
are named by their place in the walk, so `kept` is a set where the code has a number.
`link` says which host is gone. It does not come back during an attempt: requests to
it fail, a read or a write to it is given up after a minute, and a chunk on its way
may or may not have arrived. A destination that is there can still refuse a close, a
rename or a removal, which is remembered in `refused`.

### TransferQueue

`row` is the list the panel shows, `job` what is kept behind a row, `pump` where the one
loop that runs rows waits, with the locals of its turn; `policy` and `pending` are the
answers for the rest of a batch and the mismatches not asked about yet, `dialog` the
mismatch dialog. What the pump does between two awaits (settle batches that are over,
ask about their mismatches, take the next row, check it) is one operator, since it is
the same wherever the pump is woken from. Dialogs overlay the panel: behind one nothing
is used. `part`, `cut`, `trimmed` and `told` are histories the properties speak about.

### Files

One scene at a time: a file edited in place (its download, the watcher's ticks,
saves by the user and by others, uploads that break), a delete (a listing, a walk,
removals from the leaves up, on either side), a tar stream, a comparison. Servers
vanish or fall silent, and others change the same tree meanwhile.

## 3. The runs

| Run | Question | Bounds |
|---|---|---|
| `datafile` | a kill, a power cut, a failing call and a damage anywhere: is the file whole, what was acknowledged there, a copy left, the register implemented? | 2 documents, 1 failing call, 1 damage, 1 cut |
| `ways` | `Keystore`: commands of three screens interleaved on a desktop, one after the other on a phone, with a failing call and a kill; `Vault`: edits, imports, unlocks concurrent, locks alone | 2 passphrases, 2 keyring keys, 2 tries for a PIN; 3 commands, 2 records, 1 failing save |
| `trust` | `Trust`: two connects, one through a jump host, the panel and an import; `Login`: every way in against one or two methods | 2 hosts, 3 keys of 2 types, 3 prompts, 1 round, 1 edit |
| `tunnels` | `Tunnels`: starts by hand, by passes and by retries, stops, drops, locks, deletes; `Handover`: moves with every mishap | 1 rule, 2 starts, 2 loops, 1 pass; 3 chunks, 2 moves |
| `session` | `Sessions`: commands of every kind at a session that ends in every way; `Channels`: the four plays | 1 session, 3 callers, 1 place in the queue; 2 guests, 3 pieces, 3 requests |
| `tabs` | a tab beside its sessions: drops, two loops, a try by hand, a network change | 2 sessions, 2 loops of 2 attempts |
| `files` | `Transfer`: two attempts after one that may have left a part; `Files`: the four scenes | 2 files of at most 2 chunks, 1 rewriting; 2 saves, 2 entries, 1 change by others |
| `queue` | three rows in up to two drops: which offers, answers and questions last | 3 rows, 2 batches |
| `library` | edits, exports, three kinds of import, locks, with answers in any order | 2 hosts, 1 key, 3 edits, 2 calls at once |
| `vault_race` | *finding 1* | 2 commands, 2 records |
| `sessions_stuck` | *finding 2* | 2 sessions, 2 callers |
| `delete_link` | *finding 3* | 2 entries |

Why these are enough. Two documents tell the old from the new, and a third adds
no case because a save only ever compares what it writes with what is there. Two
keyring keys are needed for a keyring that was reset, and two passphrases for one
that was changed between a load and a save. In `Vault`, three commands are an edit in
hand, one queued behind it and the unlock or import that comes between. In `Trust` two
keys of one type are the known and the strange one, the third a key of another type
the host has as well; two connects are what it takes to learn behind another's back.
Rules of `Tunnels` do not share state except the port, which belongs to the rule, so
one rule is all of them; two starts and two loops at once are the races the code has
(the second start replaces the entry of the first; the second loop outdates the
first), and both are reused for ever, so any length of alternation is covered. Three
chunks of output are one held, one live and one on its way; two moves out include a
move of a tab that came back. A queue with one place is full as soon as one command
waits in it, which is the case a queue of 256 has too, later. In `Tabs` the second
session is the one a reconnect opens beside the first; the far end's steps are not
followed for a session that no tab has any more. In `Transfer` the files of a tree share
the policy, the flag and the end of the batch: two are one that is done, skipped or
untouched and one in flight. A first chunk in common makes a part that can be
continued, and a second that differs or is missing a source that is not what it was.
The state an earlier attempt left is an initial state, so two attempts are cut, resume,
copy again. In `TransferQueue` three rows are one that runs, one that waits in its batch
and one of the next. The theorems of section 5 say for most of these modules that no
bound mattered.

`CHECK_DEADLOCK FALSE` stands only where the system really stops: every rule deleted
and all quiet, all output printed and all moves made, the connects over, the rows
done, the tab closed.

**Fairness.** `Transfer` assumes that a future that was spawned is polled
(`WF_vars(Step)`), no more: that an attempt ends when a host is gone is the work of
`waited` and of the time limit of a request. `Trust` assumes that a connect that can go
on does and that emitted events arrive; of the user nothing, since five minutes
answer for them. `Login` assumes that an exchange is answered or times out. `Sessions`
assumes that loops and commands run and that the mutex and the channels serve in turn
(tokio's are fair, hence `SF`), nothing of the host, which may never read; `CallsEnd` and
`CloseEnds` leave out the case of finding 2 (`Jam`) and a loop that is writing to such a
host. `Channels` assumes that its loops run, an open is answered while the server is
there, keepalives are sent and timers fire; the relay's ends read, but for a busy one,
which says what it has first. `Tabs` assumes that the backend runs, a connect ends within
its timeout, timers fire and the window hears what it is sent. `TransferQueue` assumes
that the commands it awaits answer, which for a transfer `Transfer` shows, and nothing of
the user: `QueuedRuns` excepts a question that is never answered and a row ahead that is
resumed for ever. `Tunnels`, `Keystore`, `Vault`, `Library`, `Files`, `DataFile` and
`Handover` are checked for safety only.

## 4. What the runs found

1. *An emptied document is written over the vault* (`vault_race`,
   `NeverEmptyWithKey`). `close_vault` empties the document and lets go of the mutex
   (`commands/vault.rs:132`), then clears the key (`:133`); a command queued on the
   mutex runs between the two and saves. The comment at `:129-131` promises "never
   empty data with a key it could save".
2. *All sessions stand still* (`sessions_stuck`, `NeverAllStuck`). Five commands await
   room in a session's queue with the mutex of all sessions in hand
   (`commands/ssh.rs:304`); a loop that has ended waits for that mutex (`ssh.rs:740`)
   before it drops its end of the queue. The comment at `commands/ssh.rs:476` says what
   should be done instead, of the one command that does it.
3. *Deleting a link deletes what it points at* (`delete_link`, `LinkTargetStays`). The
   row of a link to a directory counts as one (`list_remote` follows it), so
   `delete_remote` walks through it (`sftp/ops.rs:45`).

Some definitions state what a comment says and TLC refutes; a comment "is not so"
stands above each, and no run is spent on it: `HeldIsLast` in `Handover` (the guard of the
attach lock is a temporary of the `if` condition, `ssh.rs:231`, gone before the emit at
`:233`, so a hold overtakes output it says is sent), `NoEmptyComeback` in `DataFile` (a crash
between the rename of `store.rs:219` and the copy after it comes back to a first run;
the backup is still there and `OneCopyWhole` holds), `RelayGoesOn` in `Channels` (one
direction at a time, `tunnel.rs:228`, and a far side that writes before it reads),
`UploadedIsTrue` and `SeenCanBeDeleted` in `Files` (an upload that breaks in the middle of the
copy is reported as uploaded, `edit.rs:25`; a broken link here cannot be deleted,
`ops.rs:15`).

Others are behaviour of the code the models show and no text contradicts. They are
built into the properties as named exceptions, so that the property says exactly what
is left:

- A retry loop that wakes while the vault is locked finds no rules and ends, and its rule
  stays shown as retrying (`lost` in `RetryingHasLoop`). A rule whose retry was connecting
  when the user stopped it comes up anyway (`tunnels.ts:147`).
- A command that loaded `keystore.json` before a passphrase was removed on another
  screen writes the old wrapper back; the phone is of `Serial` for this reason, and with
  `Serial = {}` TLC finds `ReadableOpens` violated. A `keystore.json` torn by a kill in
  `write_private` does not parse: `ReadableOpens` speaks of those that do.
- `check_host` is stale when the answer comes: two connects to one new host that offer
  two keys are both trusted, and both are learned silently where new hosts are accepted.
  Forgetting one host of a line that names several drops the others' key. A replaced key
  that stands in `~/.ssh/known_hosts` is still accepted.
- A tab closed while its connect is in flight leaves a session nobody closes
  (`sessions.ts:148`), and so do two reconnects that pass their check together
  (`reconnect.ts:128`): `stray` in `NoneAbandoned`. A `ssh-closed` that comes before the
  terminal listens leaves the tab shown as connected.
- A transfer whose host is gone, or that refuses a close, leaves a half file under its real
  name (`transfer.rs:362`); one whose rename is refused keeps a whole part no summary offers
  (`Obliging` in the properties of `Transfer`).
- A job dropped by *Copy again* or *Leave* while its row still offers *Resume* makes the
  row vanish when it is pressed; *Cancel* at a prompt skips the mismatch question; a cancel
  during the check is forgotten and the ✕ stays disabled.
- A pane that lost its connection stops listening to its editor's events; a failed upload
  is not retried before the next save; a tar or a `sha256sum` that is cut off without a
  status counts as whole; a directory that contains a link is deleted in part.
- A list saved by the window from an old copy brings back what another command deleted;
  an import of a file that refers to what this machine has under another id can close a
  cycle of jump hosts; the preview counts duplicates against the present list only.
- Half-close ends a relay for both sides; an open that waits for a local agent or display
  stalls the session; Stop frees the entry of a tunnel, not always its port, when the
  server has vanished and keepalives are off.

## 5. What is proved

TLC looks at the small instances of section 3. The theorems below hold for every value
of the constants. They assume what the modules' own `ASSUME`s say of these, which the runs
evaluate, and nothing else but two hypotheses that stand in the theorems themselves: `Alone`
in those about `Vault` (without it finding 1 refutes them) and `PhoneWaits` in those about
`Keystore` ("phone" is of `Serial`; without it `ReadableOpens` is false, see section 4).
Bounds such as `MaxErrors`, `MaxMoves` or `MaxStarts` are any natural number, so what is
proved is proved of behaviours of any length. No theorem uses the fairness of its
specification.

Every safety argument has the same form: an invariant that is inductive, `Init`
implies it, every action keeps it, and it implies the property. Where an action
touches many fields a lemma states once what it does, and the parts of the invariant
are derived from that. TLC checked each inductive invariant on a run before it was
proved; what it adds to the property is what the property alone does not say about
a step that is half done.

| Proved | Module | Inductive invariant and why it is needed |
|---|---|---|
| `TypeOK`, `DataIsWhole`, `AckedSurvives`, `OneCopyWhole`, and `DataFile` implements `DocRegister` | `DataFile_proofs` | What stands in each of the four files, and may stand there after a power cut, at each step of a save or a recovery. A temporary is flushed before it is renamed, so both what is read and what may be read after a cut are whole; a backup that is being written is matched by a whole `data.json` |
| `VaultTypeOK`, `AckedKept`, `OneEditAtATime` | `Keystore_proofs` | `VaultWhole`: while a key is set, the document in memory is the one on the disk but for edits that are not saved yet or were refused; and a lock that runs alone meets no other command |
| `KeystoreTypeOK`, `AskDropsRing`, `AskIsAsked`, `NeverLockedOut`, `GuessesCounted` | `Keystore_proofs` | `OnPlans`: the steps a command has left are a suffix of one of the code's plans, which is what makes a half-done command finite to reason about. `Safe`: for each copy a command holds and for the file, a wrapper that opens is somewhere, and the last one is never dropped before the next is written, whatever the other screens wrote meanwhile. `Unharmed` and `AllCounted`: the tries of a PIN that are on disk are never fewer than those that were made. `Orderly`, for `AskIsAsked`: while nothing failed, was killed or was locked midway, no copy with a passphrase stands beside `.secret`, except between the steps of the one command that moves the key from one to the other |
| `TypeOK`, `AcceptedIsVouched`, `DialogsAgree`, `LearnedStays` | `Trust_proofs` | `Shaped` (types, and that what identifies a question never changes); `Dialogs` (numbers are given out once, and each question is in one place between the command and its answer); `Locks` (one rewriting of the file at a time, of the lines that were there); `Trusting` (a connect past its check has a line or a word of the user for the very key it was offered) |
| `TypeOK`, `RunningIsListed`, `ListedIsLive`, `TableIsTrue`, `RetryingHasLoop` | `Tunnels_proofs` | `Listed`: a start that is on its way has no task yet, a task that is listed was not told to go, one that was told is on its way out. For the retries: a rule that is shown as retrying has a loop of the latest generation, or lost it while the vault was locked |
| `BytesAreTrue`, `AnswersAreTrue` | `Tunnels_proofs` | One invariant for each of the four plays of `Channels`: what was read is delivered, in hand or in the socket, in that order; a reply that was given up is swallowed before the next request is sent |
| `HandoverTypeOK`, `ShownOnce` | `Window_proofs` | `Handed`: which steps of a move and states of two windows go together (`Framed`), that a chunk is in one place only (`Single`), in the order it was printed (`Ordered`), and that none is missing on the way to the window the output is for (`Kept`), the last two as long as nothing was overtaken (`Quiet`) |
| `TypeOK`, `TabIsTrue`, `NoneAbandoned` | `Window_proofs` | `TabInv`: an answer on its way to the window is for a session of its own that nobody shows yet; what was heard of, or missed, is over; a tab that is being opened has the user's connect and no other |
| `LoginTypeOK`, `GivesUpRightly` | `Trust_proofs` | `LoginInv`: the server's lists are the original ones less the steps gone through. `Counted`: lists that begin with keys are used up by as many keys as were accepted, and every key of the agent that works and was tried is accepted. `OnlyAsks`: once the credential is used up, a login that could still succeed has only the questions left |
| `TypeOK`, `HalfIsSetAside`, `DoneIsWhole`, `SpoilsNothing` | `Transfer_proofs` | `OneTorn`: while a file is copied it is the only half one under a real name; `ReadBack`: what is counted as done was compared or copied in this attempt; `IInv`: a free name exists under *Keep both* (`RoomLeft`), a part that changed is on offer (`Offers`), what was there is not the file that is written (`Apart`) |
| `SavedIsThere`, `ReportsAreTrue`, `DeleteIsExact` | `Transfer_proofs` | `EditInv`: only the watcher's uploads change the server's file, and the copy never comes back to a version the watcher took a stamp of (`Past`). `StreamInv`: a sound stream whose packer did not complain holds every entry, and an unpacker that found it sound unpacked what was sent. `CompareInv`: what was found out of a name nobody changed since is still so (`Found`), and nothing is hashed before its turn (`InTurn`). `DeleteInv`: the walk finds only what is in the row's own tree (`Within`) and, undisturbed, goes down one chain and takes the leaves first (`InOrder`, `Exact`). The tree that is deleted and the two names that are compared are the model's; saves, changes by others and entries are as many as one likes |
| `TypeOK`, `OfferNeverLost`, `AnswersHold` | `TransferQueue_proofs` | An invariant for each row (which job it has, on which lists it stands), one for each batch (who asks about its mismatches at the latest) and one for the pump. `TurnKeeps` says what one turn of the pump needs and gives, since every command ends in one |
| records of their kinds (`Types`), `RecordsHold`, `ImportsAdd` | `Library_proofs` | `Types`: the document, the window's copies, the export and whatever a command sends or an answer brings are lists of records of their kinds, and the document's secrets and history are as `RecordsHold` has them; the window's are not (it is shown `Stored` for a secret), so each save is shown to put back what the form cannot. `Numbered` and `Apart`: an import makes ids under a number of its own, and no host that is known anywhere, nor one an answer will bring, has an id that an ssh import still makes; without it the links of an import could be written into a host that was there |

The merges, the readers of files and the links of an ssh config are folds over lists.
Since the prover cannot instantiate an induction theorem, `Library_proofs` unfolds a
fold into the function of positions it stands for and climbs it (`Upwards`: what holds
of 0 and is handed on from each position to the next holds of the last), so each fold
has one lemma on what a single element does and one that it is kept to the end.

The proof changed what it was about. In `Library` the first command used to give its ids
the number that ids from elsewhere have, and nothing said that a starting document has
none of the ids an import will make: `Apart` did not hold to begin with. A command's ids
now have a number no other id has, and `LibraryAssumption` says what a random id is, one
that was not there.

**What is only model-checked**, and why:

- All liveness (`AttemptEnds`, `ConnectsEnd`, `LoginEnds`, `CallsEnd`, `CloseEnds`,
  `DoorShuts`, `RelayGoesThrough`, `QueuedRuns`, `RetryEnds`): it needs fairness, hence
  `ENABLED`, which is out of the prover's reach.
- `MovesWhole`: it says what a merge computes for every input (twice is once, a round trip
  brings back each host with its way in), and follows the walk along jump hosts, a
  recursive function; the folds' lemmas bound what they add and keep, not all that they
  compute. TLC evaluates it on every library of the instance.
- The three runs that expect a violation, of course.

## 6. What is left out

Of the parts that are modelled: owners, modes, times, symlink creation and free space of
files; key formats and ciphers (a wrapper is the secret that opens it, a signature works or
does not); the wording of errors, except where the code decides on it; groups, tags, themes
and the order of lists in records, beyond what refers to something; the proxy command's
expansion of `%h` and `%p`; sizes, rates and estimates of a transfer; the terminal's own
behaviour, where output counts as chunks; colours and layout of every panel. Memory is not
modelled: a process that is killed loses all of it. Numbers that only ever grow
(generations, ids) are represented by which is the latest.

Not modelled at all: containers (`containers.rs`, a second channel with a `sudo` question of
its own), the pipeline of output after it arrives (echo filter, session log, recording,
ZMODEM), the PuTTY and OpenSSH key files (`ppk.rs`: formats, with tests against vectors), the
keyring's backends, the Android service and its notifications, host probes beyond what
they share with connects, panels, settings, splits, command palette, word list, build and
packaging. `PROJECT.json` gives the reason for each under `components`.

## 7. The plan

The order in which the modules were written was the data file, the keystore, the
vault, transfers and their queue, known hosts, tunnels, sessions and tabs, handover,
records, and then what lies around them: login, channels, files. What is left:

a model of containers, and one of the output pipeline behind the terminal.
