# multi-ai: specification and proofs

multi-ai watches AI coding agents that run in zellij panes on several hosts. A
desktop app (`crates/mai-core`) connects to each host over SSH (or uses the
local machine), puts a small program on it (`crates/mai-probe`), starts its
`serve` command and shows what it reports; terminals are opened over a second
connection. The two sides speak JSON lines (`crates/mai-protocol`).

This directory models the parts of that system in which tasks, processes,
connections and files interact, checks them with TLC on small instances, and
proves every safety property that TLC checks with TLAPS for every size.

## 1. The system

| Part | State it keeps | Operations | Talks to |
| --- | --- | --- | --- |
| Terminal task (`term.rs`) | link, slot per terminal, pending opens, backoff | Open, Input, Resize, Close, Retry, Stop; connect, attach, reconnect, output, loss | owners by TermEvent, monitor by HostEvent::Term, transports |
| PTYs (`terminals.rs`, `pty.rs`, `ssh/pty.rs`) | a child or channel each | data, exit, end, close | the terminal task's queue |
| Spool (`spool.rs`) | one file per day, ack file per client | append, read_after, store_ack, load_ack, cleanup | hook processes write, serve reads |
| serve (`serve.rs`, `run.rs`, `main.rs`, `instance.rs`) | cursor, sessions, panes, bindings, exit holds, scrape history | tick (drain, poll, scrape), Ack, start, end | spool, zellij, app |
| Scraping (`scrape.rs`) | last screen and report per pane | identify, observe | serve |
| Host task and link (`host.rs`, `link.rs`) | where it waits, backoff | open, hello, serve, wait; Retry, Send, Stop | serve, monitor |
| Manager and monitor task (`manager.rs`, `monitor.rs`) | generation per host, view per host | add, remove, retry, send, open_terminal, acknowledge | all tasks, UI |
| Tracker (`tracker.rs`) | a record per agent | apply, pane_gone, acknowledge | monitor |
| Deployment (`connect.rs`, `deploy.rs`, `swap.rs`) | gate per host; files on the host | hash, stop, upload, check, swap_in, install-hooks, start serve | host task |
| SSH connecting (`ssh/client.rs`, `ssh/hostkey.rs`) | `HopState` per connection, known_hosts files | dial hop by hop, check the host key, ask the user, learn, time out | connectors, the user, russh's session task |
| SSH login (`ssh/client.rs`, `ssh/signer.rs`, `ssh/auth.rs`) | keychain entries | none, key files, agent, password, keyboard-interactive; load_key, migrate_passphrase | server, agent, keychain, the user |
| serve's process (`instance.rs`, `run.rs`, `main.rs`, `zellij.rs`) | pid file, channel of lines, running command | stop_recorded, record_self, forget_self, loop, reader thread, commands with a timeout | other serve and stop processes, stdin and stdout |
| Hook installation (`install.rs`) | the agent's configuration file, backups | merge, remove, backup, write, rename | agent, user, other installs |
| One-shot parts (`metrics.rs`, `rules.rs`, `hookmap.rs`, `codec.rs`, `ssh/config.rs`) | none that outlives a call | sample, compile rules, map a hook, parse | serve, hooks, connectors |

What is hard to get right, and what makes each part correct:

* **Terminal task.** It awaits in the middle of its handlers and serves commands
  meanwhile. At its loop the link must serve all terminals or none; no PTY may
  be left running; old output must not be taken for new; every Open is answered
  and every detached terminal comes back.
* **Delivery of hook events.** Hooks append while serve reads, around midnight
  too; links break with events in flight; an old serve may outlive its link; a
  host is removed and added again. No acknowledged event may be lost, and the
  tracker takes each pane's events once and in order.
* **Tracker and monitor.** Hook and scrape events come with unrelated
  timestamps. The UI shows what the tracker holds, nobody waits without an
  alert, and recent hooks overrule scrapes.
* **Watching a pane.** Bindings, misses and exit holds live in a process that
  may be replaced. An ended agent must not come back because its last screen is
  still there, and the agent of a closed pane must end.
* **Host task.** Links break or fall silent, commands arrive in any of its
  waits, and events of an earlier incarnation are still queued.
* **SSH connecting.** The key is checked, and the user asked, in a task of
  russh's, while the caller waits with a timer; each may be first. A connection
  that timed out must be silent, prompts of one host must not overlap, what was
  learned must be known and not contradict itself, and no hop may hang.
* **SSH login.** Two logins share the keychain; each call may fail. No passphrase
  that works may get lost or be asked for in vain, the agent must try exactly the
  keys no file could sign with, and a login must end.
* **serve's process.** Old and new serve overlap; the pid file is read, written
  and removed by all. One serve, recorded, that ends with its stdin.
* **Hook installation.** Read, edit, backup and rename are separate steps, and
  agent, user and other installs write the same file. Others' hooks and changes
  must survive, ours must be there once.
* **Deployment.** The connection may drop between any two requests, two tasks of
  one host may overlap, and Windows locks running executables.

PROJECT.json lists these as hazards, each at its line, with the properties that
cover it.

## 2. The modules

| Module | Models | Used by |
| --- | --- | --- |
| `TermOwner` | contract: what the owner of a terminal may see | refined by `Terms` |
| `Terms` | terminal task, with connection, PTYs and owners as environment | `TermsProofs`, `MCTerms` |
| `Cursor` | the spool cursor (day, offset) and its order | `Delivery`, `EventFeed` |
| `EventFeed` | contract: each pane's events are taken once, in order | refined by `Delivery` |
| `Delivery` | hooks, spool, serve, link, host task, monitor filter, tracker's cursor | `DeliveryProofs`, `MCDelivery` |
| `Tracker` | operators: what an event does to an agent's record | `Monitor`, `Watch` |
| `Monitor` | tracker and UI for many agents | `MonitorProofs`, `MCMonitor` |
| `Watch` | one pane as serve and the tracker see it (uses `Tracker`) | `MonitorProofs`, `MCWatch` |
| `Host` | host task, manager commands, monitor filter, shown state | `HostProofs`, `MCHost` |
| `Deploy` | deployment by the tasks of one host | `DeployProofs`, `MCDeploy` |
| `KnownHosts` | operators: what known_hosts files say of a key, and what learn appends | `Connect` |
| `Connect` | connecting hop by hop: callers, session tasks, prompts, timers, the gate | `ConnectProofs`, `MCConnect` |
| `Auth` | logins to a hop, with the keychain they share | `AuthProofs`, `MCAuth` |
| `Serve` | serve and stop processes, pid file, loop, commands | `ProbeProofs`, run directly |
| `Install` | hooks in the agent's configuration file | `ProbeProofs`, `MCInstall` |

Definitions keep the names of the code where TLA+ allows it; "map" in
PROJECT.json gives the lines of each. Definitions that begin with "Mutant:" in
their comment are wrong variants of the one below them; no specification uses
them. They show that each property can fail.

### State and actions

**Terms.** `pc`, `fn`, `job`, `cur` and `todo` say where the task awaits and for
whom (`open`, `reconnect` or `channel_ended`); everything between two awaits is
one action. `link`, `slot`, `pending`, `nextId`, `backoff` are the fields of
`struct Terms`. A command is modelled when the task receives it, at the loop
(`CmdOpen`, `CmdRetry`, ...) or inside `busy` (`CmdOpenBusy`). `ptys` and `outq`
are the PTYs and the shared output queue, `view`, `heard`, `term` and `reply`
what others were told. Input bytes are left out. Whether something lasted
STABLE_AFTER is a free choice.

**Delivery.** `files` are the day files (lines instead of bytes), `stamped` the
hooks between taking the time and appending, `grace` whether the first
DAY_GRACE_MS of the day are still running. A session is one `serve` process with
its connection: `read` is its cursor, `inbox` what is in flight, `acks` the
acknowledgements it has yet to store; it may run on after the app dropped it
(`app`), so two run side by side. `queue` is the channel to the monitor, `current`
the generation it accepts, `last` the tracker's newest cursor per pane.
*Assumed:* a hook appends within the grace period (guard of `Clock`); one that
stalls longer writes behind the reader and its event is lost.

**Tracker, Monitor.** `apply` is `Tracker::apply` as a pure operator: stale,
noted, overruled or entered, and whether it alerts. `Monitor` applies it to
events with any timestamps up to `MaxTime`, in any order, and to pane and session
lists. `alerted` and `hooked` are history variables the properties need.

**Watch.** Panes do not interact, so there is one. A tick of serve is three steps, since
zellij is a process that takes its time: it reads the spool (`TickDrains`, `DrainFails`),
lists the panes (`PanesListed`, `SessionsFail`, `PanesFail`, or `NoPoll` if that is not
due) and dumps the screen (`Dumped`, `NotDumped`). Hooks append, the pane and its screen
change, and the app takes messages between any two of them. `out` is what the tick says;
it is sent (`sent`) when the tick ends, as `run` does, and the app takes one message after
another (`Take`). `server` is what the serve process knows; `Restart` forgets it, and with
it everything the app has not taken. `agent` is the record in the app's tracker. A hook
record that `map_hook` ignores (`None`) binds the pane and is not reported. A session that
is gone and a pane that is gone from its list are the same to the app and to serve.
Regular expressions are a classification of screens, and the title is that of the last
list. `clean`, `leftover` and `late` are history: no exit hold was lost; the agent ended with
its title or last screen left; a hook event was read after the list that was sent last
showed the pane's end.

**Host.** Generations of one host id; each has a probe task (`pc`, `backoff`,
`stream`) and a queue of commands. `out` is the channel to the monitor, `told`
what the current tasks reported last, `view` what the monitor holds. Control
messages are taken before events (`biased`), so they are part of the action that
sends them. The wait for the tail of stderr (300 ms) is part of the failure.
*Assumed:* `open`, a write and a prompt come to an end.

**Deploy.** Each action is one request to the host; `conn` is whether the SSH
connection is there, so each error path of the code (retried, or needs the user)
is taken from what the code does with a failed request. `file` says what each
name holds, `running` which files processes run from. A rename may be done and its answer
lost: the code takes it for failed, and the user is asked. A hash that cannot be computed
looks like a missing binary (`Hash`); `blind` remembers the tasks that had started serve,
or were about to, when such a task began to replace the app's own binary. *Assumed:* a
request whose connection dropped has no effect afterwards, and a rename does not replace
a file (SFTP version 3); other lost answers are a drop after the request.
`place_binary` (local hosts) writes before it stops the old serve; the steps are otherwise
the same.

**KnownHosts, Connect.** A line of known_hosts is the set of names its patterns
match and do not, a marker and a key; hashing and globbing are in that set.
A caller (`at`, `hop`, `conn`, `timer`) is a task of the host that runs `connect`
under the gate; a connection (`task`, `phase`, `done`, `key`, `verdict`) is
russh's session task with its `HopState`. The atomic operations of both sides are
single steps, and reading and appending in `learn` are two. `left` remembers
which connections their callers gave up, and why. The server presents any key.

**Auth.** `login` is where each login is in `authenticate` and what it remembers;
`current`, `legacy` and `password` are the keychain. A secret is good or bad. The
server answers as it likes, but accepts nothing worthless, and may break the
connection at any wait. `sure` is a history variable: the logins for which the
passphrase was there to be found ever since `load_key` began. One agent is
modelled (the Unix variant; Windows tries two). *Assumed:* an agent lists a key
once; at the start no old keychain entry works beside a current one that does not.

**Serve.** `proc` is each process: where it is in `cmd_serve` and `run`, its
channel, its stdout and the command it waits for. `doomed` processes were killed
and die later, or too late (`Wait` may give up). `muddled` records that two starts
overlapped or that a process outlived STOP_WAIT. *Assumed:* pids are not used
again while they are recorded.

**Install.** `file` is the configuration with its hooks in groups and the changes
of others as a set; `after`, `bak` and `tmp` are what each process has read and
edited, its backup and its temporary file. `late` are the changes made while some
process was between backup and rename. *Assumed:* backup names differ (they carry
the time in milliseconds), and others replace the file in one step.

## 3. Runs

| Run | Instance | Shows |
| --- | --- | --- |
| `terms_safety` | 2 opens, 2 terminals, 2 sizes, 1 failure, output queue of 2 | `LinkServesTerminals`, `TermStateTold`, `NoStrayPty`, `AttachedIsServed`, `OwnerContract` (refinement of TermOwner), `SizeFollows` |
| `terms_liveness` | 2 opens, 2 failures | `OpensAnswered`, `TerminalsComeBack` |
| `delivery` | 1 pane, 2 days, 2 events, 2 sessions, 2 generations | `AckedIsHanded`, `OnceInOrder` (refinement of EventFeed) |
| `delivery_live` | 1 generation, 3 days | `EventsArrive` |
| `monitor` | 1 agent, times 0..3, windows of 2 | `ShownIsTracked`, `UnseenWasAlerted`, `AlertsApart`, `ScrapeAuthority` |
| `watch` | 3 screens, 2 hook events, times 0..1, 1 fault | `HoldHolds`, `GoneIsExited` |
| `host` | 2 incarnations, 1 message, any number of retries, 1 failure or terminal report | `ViewIsCurrent`, `StateIsMeant`, `SendsSettled`, `HostComesBack`, `RetryHeard`, `RemovedEnds` |
| `deploy` | 2 tasks, 4 faults, locked executables | `InstalledIsComplete`, `StartsOwnProbe`, `Deployed` |
| `connect` | 2 callers, a jump host and a host, 2 keys, 2 connections, 6 sets of files | `TimedOutIsSilent`, `PromptsApart`, `LearnedIsKnown`, `OneKeyEach`, `HopsEnd` |
| `auth` | 2 logins, 1 key file in 8 forms, an agent with 2 keys, 1 keyboard round | `NotAskedInVain`, `AgentOffersRest`, `KeepsPassphrase`, `LoginEnds` |
| `serve` | 2 serve processes, any number of stops, channel of 1 | `OneServe`, `RecordedWhileServing`, `ServeEnds` |
| `install` | 2 processes, 2 changes of others, 10 files to begin with | `EditsKept`, `HooksRight` |

The type invariant of each of these modules is a theorem and is not checked again by
a run.

*Why the bounds are enough.* Two opens and two terminals are needed for one to be
in the middle of attaching while the other is closed, lost or waiting; a
generation of output mixes with the next as soon as two entries are queued. Two
days give one midnight, two events one that is overtaken, two sessions one that
outlives its link, two generations one that is late. Times 0..3 with windows of 2
have events inside, at and outside a window, before and after each other. The
theorems lift the bounds for every safety property; what follows matters for the
liveness properties, and for how far the models were explored before they were proved
about. In Deploy four faults
let a swap fail at two places in two attempts and leave a locked file behind; in
Host one failure with two incarnations gives every order of late events, and the
failures themselves do not add up (the backoff only delays). Two connections are
a jump host with the host behind it, or an attempt that was given up and the next
one, which is all that can meet under one gate; two keys make a server change its
key. Two logins and one file are what migrating at the same time needs, and eight
forms of the file reach every path of `load_key`. Two serve processes are the old
and the new one (`ProbeProofs` has any number). Two installs with two changes put
one change before and one after each other's backup.

In Watch two hook events are an agent's work and its end, or an end and the next start;
three screens are one without agent, one with the agent's title and one with its screen.
A tick starts only when the app has taken what was sent (`MaxOut` = 1): a longer queue only
delays what is taken, and the theorems have any length, as they have records that `map_hook` ignores,
which the run leaves out. The `delivery` run has one midnight and deletes no
file; cleaning up is covered by the theorems and by `delivery_live`.

*Deadlock* is checked in the run of Watch, where serve ticks for ever. Elsewhere it is
not: those instances come to rest when their bounded inputs are used up, and a stopped
task is a legal end.

*Fairness.* Weak fairness of what the program's own tasks do: tokio polls a task
whose channel, timer or I/O is ready. Connecting, attaching and hello have
timeouts; SFTP requests time out after 60 s; SSH keepalives (15 s, three times)
end a stalled connection; deadlines pass; serve ticks. Never fair: the user
(opening, retrying, removing, answering), failures, hooks, and what panes show.
In Connect only the caller and the handler are fair, not the network, the server
or the user; in Auth only what a login does by itself. In Serve, threads are
scheduled, deadlines pass and a killed process dies; pipes that others hold need
not close. In `delivery_live` the host reconnects for ever, as `Host::run` does.

## 4. Where the code and its documents differ

Each of these is an exception that the property of the run has to make; without it
TLC shows the behaviour described.

* `SizeFollows`: a resize that arrives while its terminal is being attached again
  is not applied to the new PTY (`term.rs:467`, `514`); the design (line 413) says
  the current size is used.
* `AlertsApart`: `NeedsInput`, `Done`, `NeedsInput` within the window alerts for
  `NeedsInput` twice (`tracker.rs:135` compares with the last alert only); the
  design (line 374) says once per state.
* `HoldHolds`: a new serve (`serve.rs:130`), or a failed listing of a pane that was not
  listed before (`serve.rs:292`), loses the exit hold, and the leftover screen brings the
  agent back. So does, for a moment, a screen dumped when the end is in the spool and the
  tick has already read it (`serve.rs:159`, `167`): scraping binds the pane, and the app
  may show the agent until the next tick reads of the end. The property therefore speaks
  of what holds once the app knows of the end. The design (lines 359-361) asks for a
  screen without agent first.
* `GoneIsExited`: a hook appends its event after the tick has read the spool, its pane
  closes before the panes are listed, and the list ends the agent; the next tick reads the
  event, and the agent is Working for good, since an unchanged list is not sent again
  (`serve.rs:259`). A hook that ends after its pane, or a spool that could not be read in
  between, does the same. The design (line 367) says that a pane that is gone or exited
  has its agent judged Exited.
* `Deployed`: errors of `swap_in` always need the user (`deploy.rs:558-560`), also
  when the connection dropped or the request timed out; the design (line 217) and
  the comment on `upload_error` say these are retried.
* `Deployed`, too: the design (line 281) says that replacing the probe fails on Windows while
  the serve of another client runs, and that the user is asked; its lines 209-211 and
  `swap.rs` say, and do, otherwise: the running file is renamed, and the new one takes its
  place. The model follows the code.
* `PromptsApart`, `OneKeyEach`: a host removed while its key prompt is open gives
  the gate back and leaves the prompt, which may still learn a key; `connect.rs:208`
  says that prompts for one host never overlap.
* `OneServe`, `RecordedWhileServing`: two serves that start together may both go on
  (`instance.rs:61-92`); `instance.rs:1` says one per installation.
* `ServeEnds`: after a command has exited its output is awaited without a bound
  (`zellij.rs:227`); `zellij.rs:170` says a hung command must not stall the loop.

Met on the way:

* README.md lines 52-53 say that a closed channel reattaches only its terminal, but
  a failure of that attach detaches all (`term.rs:533`); `manager.rs:200` says that
  removing a host forgets its state, but the tracker's records stay; the silence
  watchdog starts again with each command (`host.rs:312`).
* `client.rs:344-347` says that a full period starts after a prompt; the timer reads
  `prompts_done` and then swaps the phase, so a prompt that ends in between does not
  count (Connect: `TimerFires`, `GiveUp`).
* `client.rs:122` reserves `SshError::Auth` for when every offered method was tried;
  after a partial success the remaining keys are not (Auth: `AfterKeys`). Key files
  and the agent go on without looking whether publickey is still offered, though
  `client.rs:6` says methods not offered are skipped.
* A stale passphrase (`signer.rs:54`) or a refused password (`client.rs:518`) is
  deleted without looking whether another login has replaced it meanwhile; the
  exception of `KeepsPassphrase`.
* A change made to the agent's file between the backup and the rename is lost
  (`install.rs:206-230`), the exception of `EditsKept`; `remove_hooks` also drops a
  user's empty event lists, and `merge_hooks` leaves our hooks under events that are
  no longer asked for.

## 5. Proofs

The theorems hold for all values of the constants that satisfy the modules'
ASSUMEs (bounds are naturals, sets of sizes are not empty, reserved values are not
members, lists are sequences, the agent's list has no key twice). Nothing is assumed
beyond the guards named above. Each invariant was first checked by TLC on the
instance of its run. In every module there is one lemma per action, and the helpers
that several actions share have lemmas of their own.

* **Terms:** `TypeCorrect`, `LinkCorrect`, `TermStateCorrect`, `NoPtyLeaks`,
  `TermsImplementsOwner`, `AttachedAreServed`, `SizesFollow`. `LinkServesTerminals`
  speaks of the loop only; to carry it through the awaits, `IInv` adds `Control`
  (while `reconnect` works through its list, the terminals yet to be attached are
  exactly the detached ones; while `open` attaches, all others are attached) and
  `Views` (ids not handed out are unused, and owners' views agree with the map).
  `AttachedIsServed` and `SizeFollows` need that no PTY is newer than the generation
  its terminal remembers (`PtyAges`) and that only a terminal that was attached before
  is attached again (`Begun`): otherwise a new attachment could meet a PTY that is
  already there. `StepKinds` sorts the actions
  by what they do to slots, PTYs and queue, so that both theorems look at few kinds.
* **Delivery:** `TypeCorrect`, `AcksAreSafe`, `DeliveryImplementsFeed`. The
  invariant calls a cursor *past* if nothing will ever be written at or before it,
  and *covered* if every event up to it is taken, queued, dropped with its host or
  deleted with its file. The stored ack, every ack in flight and every queued
  event are past and covered; a session whose app listens has everything up to its
  cursor either covered or in its inbox. `ReadAfter` keeps *past* because of the
  grace period.
* **Monitor** (in `MonitorProofs`): `TypeCorrect`, `ShownCorrect`, `NoSilentWait`, `ScrapeYields`,
  `AlertsStayApart`. `Memory` ties the record's `last_alert` and `last_hook_ms` to the
  history of alerts and hook events; `NeverAlerted` adds that an agent without a last
  alert has never had one, since `apply` replaces it and never clears it.
* **Watch** (in `MonitorProofs`): `WatchTypes`, `HoldKept`, `GoneAreExited`. While only the title or the last
  screen of an agent that ended is left, its Exited is the last hook event of the pane
  (`EndsLast`). Serve may scrape that screen before it has read of the end, and the scrape
  may be on its way when the app learns of it; so the invariant follows the messages. Once
  serve has read the Exited and no hold was lost, the pane has no binding and is held, or
  is gone (`HoldInv`), so scraping says nothing more: every scrape that is still on its way
  has the Exited behind it (`LastWord`). The app takes that Exited as news, since the hook
  events on their way are in the order of the spool, lie between what the app has seen and
  what serve has read, and are what the spool holds (`Queued`, `InSpool`). So when the app
  has seen the last event of the spool, nothing is left on its way that could change the
  record. `Flown` (hooks run in panes that have opened) is needed for a pane not listed
  yet. What a drain leaves is proved by induction over the unread events; what a poll and
  a scrape leave, case by case; then there is one lemma per action. For `GoneAreExited`,
  `EndTold` says that while serve's list shows the end and nothing was read since, the last
  message on its way is a list without the pane running, or none is on its way and the
  record is Exited: only a pane listed as running is scraped, and a list that first shows
  the end differs from the one before.
* **Host:** `TypeCorrect`, `ViewCorrect`, `StateCorrect`. `ViewIsCurrent` speaks of
  the moment when the queue holds nothing of the current incarnation. `Catching` is
  what holds before: the view is what the current tasks reported last, or one of
  their reports is still queued and the last one is the newest; `NoneToCome` says that
  no incarnation beyond the counter has a task or a report, and `MonitorKnows` that the filter's
  generation is the manager's, because control messages overtake events. The meaning
  of the shown state then follows from `host_state` alone.
* **Deploy:** `CompleteHolds`, `OwnProbeHolds`, `TypeCorrect`. The invariant says what a task at
  each request relies on: one task is under the gate, the upload is complete from
  `check` to `place`, the target is free at `place` and is the app's binary from `drop` on. That is why a task that has left
  the gate to start serve is not disturbed: whoever has the gate finds the app's binary
  and replaces nothing; or it cannot tell, and then those about to start are in `blind`
  (`StartersApart`). It is also why serve always runs from a file that is there (part of
  `TypeOK`): every rename goes to a name that is free.
* **Connect:** `TimedOutHolds`, `PromptsApartHolds`, `LearnedHolds`, `OneKeyHolds`,
  `TypeCorrect`.
  The invariant ties the session task to its caller: who asks has the phase
  "Prompting", who timed out left it "Abandoned" for good, and a connection that may
  still ask and was not left has a caller that waits for it and holds the gate, which
  is one at most. For the learned keys, `Books` says that connections still to be made
  are untouched and that a caller at a hop has not left its connection, and `Learning`
  that the file keys are learned to holds every learned key, that a task about to
  append knows of a last line without newline, and that a key being asked about
  contradicts no learned one unless a dropped attempt learned that.
* **Auth:** `NotAsked`, `AgentOffers`, `PassphraseKept`, `TypeCorrect`. Of each login, `InOrder`
  says that its cursor is on a key and that what had its turn is what was tried and,
  with the agent, the agent's keys so far; `MayDelete` that an entry it is about to
  delete is not the last copy that works; `WillFind`, of the logins that are sure,
  that the passphrase is where they look next. `NoOldBesideBad` is needed for the
  stale entry: a login that read a bad current entry deletes whatever is there by
  then, which is harmless for the others only because no old entry works beside it.
* **Serve** (in `ProbeProofs`): `TypeCorrect`, `OneServeHolds`, `RecordHolds`. Unless
  muddled, and while a serve runs: the file names it, whoever has read the file has
  seen its pid, and nobody is about to record another (`Clear`).
* **Install** (in `ProbeProofs`): `EditsSurvive`, `HooksHold`, `InstallTypes`. Once a process is about to rename,
  every change that is not late is in some backup, and a process that has not made its
  backup has an empty one, so none is overwritten. For `HooksRight`, what a process is
  about to write is right by itself (`Planned`): it has the hooks of others that the file
  had at the start, and ours as its edit wants them. That it was computed from a file
  others have replaced since does no harm, because no step changes the hooks of others,
  and a file that is renamed was written whole (`Written`). What `merge_hooks` and
  `remove_hooks` do to a document (`Merged`, `Removed`) rests on what `strip_ours` leaves
  of a list of groups, for lists of any length.

*Induction.* The provers cannot instantiate the library's induction theorems, which take
an operator. They can use its facts about well-founded relations, which take sets:
`NatLessThanWellFounded` and `WFMin` give `SetInduction` (a set with 0 that is closed
under successor contains Nat), and that gives `SeqInduction` for sequences. A recursive
function is a CHOOSE, so it has to be proved first that there is such a function
(`RunExists` for Drain, `FlattenExists` for FlattenSeq); then its values follow by
induction. This is why Watch drains the spool by a recursive function, and why Install
filters lists with FlattenSeq and not with an operator defined recursively.

Two definitions turned out to be vaguer than the code when they were proved about
and were made exact: `host_state` was a CASE whose arms overlap and is now the chain of
the code, and the second outcome of `LearnReads` asked for no file that can be read.

Only model-checked: the liveness properties (`OpensAnswered`, `TerminalsComeBack`,
`EventsArrive`, `SendsSettled`, `HostComesBack`, `RetryHeard`,
`RemovedEnds`, `Deployed`, `HopsEnd`, `LoginEnds`, `ServeEnds`), since the prover has no
fairness and no ENABLED. Every invariant, action property and refinement that a run
checks is also a theorem.

## 6. Not modelled

* ssh config parsing (`ssh/config.rs`), the wire protocol and cryptography (russh),
  requests on an established session other than deployment's, the second agent
  that Windows tries.
* Metrics, notes, hook installation results, probe errors: passed through.
* hookmap, rule files, argv, quoting and detection of the remote system: functions
  of text.
* Real time: delays are choices, so the 20 s of silence against many slow zellij
  calls (5 s each) is out of reach here.
* Dropping the whole manager, callers that give up `open_terminal`, two host ids or
  two installations of the app deploying to one machine (their gates differ and
  they share the name `.upload`).
* Deployment without locked executables is covered by the theorems, not by a run.

## 7. Plan

Done: the models of Terms, Delivery, Tracker/Monitor, Watch, Host, Deploy, Connect,
Auth, Serve and Install, and proofs of all their safety properties. Left, in this
order:

1. `Serve` composed with Delivery's sessions, so that who may store an
   acknowledgement follows from the pid file.
2. An abstract specification of a host (up, down, waiting for the user) that Host
   refines; timers of the link.
3. Watch, should the code change: the exit hold kept over a failed listing and a restart
   (then `HoldHolds` loses that exception), or a list sent again after a hook event from a
   pane that is gone (then `GoneIsExited` loses its exception).

## 8. Running

    tlc -workers 2 -config MCTerms.cfg MCTerms
    tlc -workers 2 -config MCServe.cfg Serve
    tlapm TermsProofs.tla

Each `MC<Module>.tla` goes with the configurations `MC<Module>*.cfg`; Serve needs no
module of its own.
