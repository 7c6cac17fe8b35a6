-------------------------------- MODULE Watch --------------------------------
(***************************************************************************)
(* How one zellij pane is watched: `serve` on the host binds an agent to   *)
(* the pane, from hook events or from what the pane shows, and reports     *)
(* what it learns (mai-probe/src/serve.rs, scrape.rs); the app's tracker   *)
(* makes a state of it (Tracker).  Panes do not interact: every map of     *)
(* the code is keyed by pane.                                              *)
(*                                                                         *)
(* A tick of serve reads the spool, then has zellij list the panes, then   *)
(* has it dump the screen; each is an action, since zellij takes its time  *)
(* and hooks, panes and screens do not wait for it.  What the tick has to  *)
(* say is sent when it ends, and the app takes one message after another.  *)
(* A link that breaks takes the serve process, all it knew and all that    *)
(* the app had not taken with it.                                          *)
(***************************************************************************)
EXTENDS Tracker, Sequences

CONSTANTS
  Screens,        \* what the pane may look like: title and screen
  Titled,         \* looks whose title or command is the agent's
  Found,          \* looks whose screen the agent's screen patterns match
  Kept,           \* looks whose screen any of its patterns matches, ignored lines removed
  Asks, Dones,    \* looks whose screen the needs_input and the done patterns match
  StableMs,       \* AgentRule::stable_ms
  MissesToExit,   \* MISSES_TO_EXIT
  HookStates,     \* what hooks report here: None is a record map_hook ignores
  MaxNow,         \* bound: time
  MaxHooks,       \* bound: hook events
  MaxOut,         \* bound: a tick waits until fewer messages are on their way
  MaxFaults       \* bound: failures

ASSUME WatchAssumption ==
  /\ Titled \subseteq Screens /\ Found \subseteq Screens /\ Kept \subseteq Screens
  /\ Asks \subseteq Kept /\ Dones \subseteq Kept
  /\ None \notin Screens /\ None \notin AgentState
  /\ HookStates \subseteq AgentState \cup {None}
  /\ StableMs \in Nat /\ MissesToExit \in Nat \ {0}
  /\ MaxNow \in Nat /\ MaxHooks \in Nat /\ MaxOut \in Nat \ {0} /\ MaxFaults \in Nat

VARIABLES
  \* The host.
  now,
  pane,     \* "new", "live", "exited" (its command ended) or "gone"
  screen,
  flying,   \* hook events stamped and not yet in the spool
  hooks,    \* how many hook events there have been
  spool,    \* the pane's hook events: [state, ts]
  \* serve.
  server,   \* struct Server: [read, panes, title, bound, misses, hold, hist]
  step,     \* what the tick does next; "rest" is between two ticks
  at,       \* the tick's now_ms, 0 between two ticks
  out,      \* messages the app has not taken, and the first `sent` are on their way
  sent,
  \* The app.
  agent,    \* the agent's record in the tracker
  \* History.
  faults,
  clean,    \* no exit hold was lost with a serve process or a failed listing
  leftover, \* the agent ended its session, and to serve the pane still looks like it
  late      \* hook events were read after the list that was sent last showed the end

hostVars == <<now, pane, screen, flying, hooks, spool>>
watchVars == <<hostVars, server, step, at, out, sent, agent, faults, clean, leftover, late>>

HookEvent == [state : AgentState \cup {None}, ts : Nat]
Unseen == [scr |-> None, since |-> 0, emitted |-> None]

\* panes is how the pane was listed last: "none" before the first poll,
\* "unlisted" if its session has no list yet; title is the title in that list;
\* bound tells a Binding from a hook and one from scraping; hist is the pane's
\* entry in ScrapeTracker (Unseen if it has none).
Server ==
  [read : Nat, panes : {"none", "unlisted", "new", "live", "exited", "gone"},
   title : Screens \cup {None}, bound : {"none", "hook", "scrape"},
   misses : Nat, hold : BOOLEAN,
   hist : [scr : Screens \cup {None}, since : Nat, emitted : AgentState \cup {None}]]

\* ProbeMsg, as far as it is about the pane.
Message == AgentEvent \cup [source : {"Panes"}, live : BOOLEAN]

\* Every part of the state has its type; in particular serve reads no further
\* than the spool goes, and a binding ends after MISSES_TO_EXIT misses.
WatchTypeOK ==
  /\ now \in 0 .. MaxNow
  /\ pane \in {"new", "live", "exited", "gone"}
  /\ screen \in Screens
  /\ flying \subseteq HookEvent
  /\ hooks \in 0 .. MaxHooks
  /\ spool \in Seq(HookEvent)
  /\ server \in Server /\ server.read <= Len(spool) /\ server.misses < MissesToExit
  /\ step \in {"rest", "poll", "scrape"}
  /\ at \in 0 .. now
  /\ out \in Seq(Message) /\ sent \in 0 .. Len(out)
  /\ agent \in AgentRecord \cup {None}
  /\ faults \in 0 .. MaxFaults
  /\ clean \in BOOLEAN /\ leftover \in BOOLEAN /\ late \in BOOLEAN

Listed(l) == l \in {"live", "exited"}
Ended(l) == l \in {"exited", "gone"}

\* CompiledRules::identify, from the title as listed and the screen as dumped.
identify(title, scr) == title \in Titled \/ scr \in Found

Fault == faults < MaxFaults /\ faults' = faults + 1

-----------------------------------------------------------------------------
(* The host.                                                               *)

Clock ==
  /\ now < MaxNow
  /\ now' = now + 1
  /\ UNCHANGED <<pane, screen, flying, hooks, spool>>
  /\ UNCHANGED <<server, step, at, out, sent, agent, faults, clean, leftover, late>>

\* A pane opens, its command ends, it is closed, alone or with its session;
\* pane ids are not used again.
PaneChanges ==
  /\ \/ pane = "new" /\ pane' = "live"
     \/ pane = "live" /\ pane' \in {"exited", "gone"}
     \/ pane = "exited" /\ pane' = "gone"
  /\ UNCHANGED <<now, screen, flying, hooks, spool>>
  /\ UNCHANGED <<server, step, at, out, sent, agent, faults, clean, leftover, late>>

ScreenChanges(scr) ==
  /\ pane = "live"
  /\ screen' = scr
  /\ leftover' = (leftover /\ identify(server.title, scr))
  /\ UNCHANGED <<now, pane, flying, hooks, spool>>
  /\ UNCHANGED <<server, step, at, out, sent, agent, faults, clean, late>>

\* A hook runs in the pane, and may finish after the pane is gone.
HookStarts(s) ==
  /\ pane = "live"
  /\ hooks < MaxHooks
  /\ hooks' = hooks + 1
  /\ flying' = flying \cup {[state |-> s, ts |-> now]}
  /\ UNCHANGED <<now, pane, screen, spool>>
  /\ UNCHANGED <<server, step, at, out, sent, agent, faults, clean, leftover, late>>

HookEnds(h) ==
  /\ flying' = flying \ {h}
  /\ spool' = Append(spool, h)
  /\ leftover' = (h.state = "Exited" /\ identify(server.title, screen))
  /\ UNCHANGED <<now, pane, screen, hooks>>
  /\ UNCHANGED <<server, step, at, out, sent, agent, faults, clean, late>>

-----------------------------------------------------------------------------
(* serve: what drain_spool, poll_panes and scrape_panes make of a server   *)
(* and the messages so far, together x = [s, out].                         *)

Says(source, state, ts, off) == [source |-> source, state |-> state, ts |-> ts, off |-> off]

\* Mutant: a pane whose command ended still counts as running.
PanesMsgListed(list) == [source |-> "Panes", live |-> Listed(list)]

\* A list of panes, as the app reads it: whether it has the pane running.
PanesMsg(list) == [source |-> "Panes", live |-> list = "live"]

\* One record of the spool: a hook binds the pane, or ends the binding and
\* keeps scraping from renewing it; one that map_hook ignores is not reported.
DrainOne(x, k) ==
  LET h == spool[k] IN
  [s |-> IF h.state = "Exited"
           THEN [x.s EXCEPT !.bound = "none", !.misses = 0, !.hist = Unseen, !.hold = TRUE]
           ELSE [x.s EXCEPT !.bound = "hook", !.misses = 0, !.hold = FALSE],
   out |-> IF h.state = None THEN x.out
           ELSE Append(x.out, Says("Hook", h.state, h.ts, k))]

\* drain_spool: x.s.read is where it was, run[k] is what there is after the
\* k-th record.
Drain(x) ==
  LET run[k \in x.s.read .. Len(spool)] ==
        IF k = x.s.read THEN x ELSE DrainOne(run[k - 1], k)
  IN [run[Len(spool)] EXCEPT !.s.read = Len(spool)]

\* The list of panes is `list`, with the pane's title: what is not listed is
\* forgotten.
Poll(s, list, title) ==
  [s EXCEPT !.panes = list, !.title = title,
            !.hist = IF Listed(s.panes) /\ ~Listed(list) THEN Unseen ELSE @,
            !.bound = IF Listed(list) THEN @ ELSE "none",
            !.misses = IF Listed(list) THEN @ ELSE 0,
            !.hold = @ /\ Listed(list)]

\* ScrapeTracker::observe.
observe(h, scr) ==
  IF h.scr = None THEN [hist |-> [Unseen EXCEPT !.scr = scr, !.since = at], state |-> None]
  ELSE IF h.scr # scr
    THEN [hist |-> [scr |-> scr, since |-> at, emitted |-> "Working"],
          state |-> IF h.emitted = "Working" THEN None ELSE "Working"]
  ELSE IF saturating_sub(at, h.since) < StableMs THEN [hist |-> h, state |-> None]
  ELSE IF scr \notin Asks \cup Dones THEN [hist |-> [h EXCEPT !.emitted = None], state |-> None]
  ELSE LET next == IF scr \in Asks THEN "NeedsInput" ELSE "Done" IN
       [hist |-> [h EXCEPT !.emitted = next], state |-> IF h.emitted = next THEN None ELSE next]

Observed(x, scr) ==
  LET o == observe(x.s.hist, scr) IN
  [s |-> [x.s EXCEPT !.hist = o.hist],
   out |-> IF o.state = None THEN x.out ELSE Append(x.out, Says("Scrape", o.state, at, None))]

\* Mutant: a leftover title or screen binds the pane again at once.
RebindEager(x, scr) ==
  IF ~identify(x.s.title, scr) THEN x
  ELSE Observed([s |-> [x.s EXCEPT !.bound = "scrape", !.misses = 0],
                 out |-> Append(x.out, Says("Scrape", "Unknown", at, None))], scr)

\* A pane without a binding: after a hook's Exited, one screen without any
\* agent must be seen before scraping may bind it again.
Rebind(x, scr) ==
  IF ~identify(x.s.title, scr) THEN [x EXCEPT !.s.hold = FALSE]
  ELSE IF x.s.hold THEN x
  ELSE Observed([s |-> [x.s EXCEPT !.bound = "scrape", !.misses = 0],
                 out |-> Append(x.out, Says("Scrape", "Unknown", at, None))], scr)

\* The pane's screen was dumped.
ScrapePane(x, scr) ==
  IF x.s.bound = "none" THEN Rebind(x, scr)
  ELSE IF x.s.bound = "hook" THEN Observed(x, scr)
  ELSE IF identify(x.s.title, scr) \/ scr \in Kept THEN Observed([x EXCEPT !.s.misses = 0], scr)
  ELSE IF x.s.misses + 1 < MissesToExit THEN [x EXCEPT !.s.misses = @ + 1]
  ELSE [s |-> [x.s EXCEPT !.bound = "none", !.misses = 0, !.hist = Unseen],
        out |-> Append(x.out, Says("Scrape", "Exited", at, None))]

-----------------------------------------------------------------------------
(* Server::tick and the loop around it.                                    *)

\* A tick begins and reads the spool.
TickDrains ==
  /\ step = "rest" /\ Len(out) < MaxOut
  /\ step' = "poll" /\ at' = now
  /\ \E x \in {Drain([s |-> server, out |-> out])} : server' = x.s /\ out' = x.out
  /\ late' = (late \/ (Ended(server.panes) /\ server.read < Len(spool)))
  /\ UNCHANGED <<hostVars, sent, agent, faults, clean, leftover>>

\* A tick begins, and the spool cannot be read.
DrainFails ==
  /\ step = "rest" /\ Len(out) < MaxOut
  /\ step' = "poll" /\ at' = now
  /\ Fault
  /\ UNCHANGED <<hostVars, server, out, sent, agent, clean, leftover, late>>

Polls == step = "poll" /\ step' = "scrape" /\ UNCHANGED <<hostVars, at, sent, agent>>

\* Listing the panes is not due; at first it is.
NoPoll ==
  /\ Polls
  /\ server.panes # "none"
  /\ UNCHANGED <<server, out, faults, clean, leftover, late>>

\* zellij does not list its sessions: poll_panes returns.
SessionsFail ==
  /\ Polls
  /\ Fault
  /\ server' = [server EXCEPT !.panes = IF @ = "none" THEN "unlisted" ELSE @]
  /\ UNCHANGED <<out, clean, leftover, late>>

\* It does not list the session's panes: the old list stays, if there is one.
PanesFail ==
  /\ Polls
  /\ Fault
  /\ server' = Poll(server, IF server.panes = "none" THEN "unlisted" ELSE server.panes, server.title)
  /\ clean' = (clean /\ Listed(server.panes))
  /\ UNCHANGED <<out, leftover, late>>

\* The panes are listed, and the list is sent if it differs from the last one
\* (the session's other panes do not change: they would only have it sent more
\* often).
PanesListed ==
  /\ Polls
  /\ \E title \in {IF Listed(pane) THEN screen ELSE None} :
       /\ server' = Poll(server, pane, title)
       /\ IF <<server.panes, server.title>> = <<pane, title>>
            THEN UNCHANGED <<out, late>>
            ELSE out' = Append(out, PanesMsg(pane)) /\ late' = FALSE
       /\ leftover' = (leftover /\ identify(title, screen))
  /\ UNCHANGED <<faults, clean>>

\* The tick ends, and what it collected is sent.
Ends ==
  /\ step = "scrape" /\ step' = "rest" /\ at' = 0
  /\ sent' = Len(out')
  /\ UNCHANGED <<hostVars, agent, faults, clean, leftover, late>>

\* Scraping is not due, or the pane cannot be dumped.
NotDumped == UNCHANGED <<server, out>> /\ Ends

\* A pane listed as running is dumped, if zellij still has it.
Dumped ==
  /\ server.panes = "live" /\ Listed(pane)
  /\ \E x \in {ScrapePane([s |-> server, out |-> out], screen)} : server' = x.s /\ out' = x.out
  /\ Ends

\* Monitor::apply_msg: a list without the pane running ends the agent.
Applied(r, m) ==
  IF m.source = "Panes"
    THEN IF m.live \/ r = None \/ r.state = "Exited" THEN r ELSE pane_gone(r, now)
    ELSE apply(IF r = None THEN NewRecord(m.ts) ELSE r, m)

\* The app takes the next message.
Take ==
  /\ sent > 0
  /\ sent' = sent - 1
  /\ out' = Tail(out)
  /\ agent' = Applied(agent, Head(out))
  /\ UNCHANGED <<hostVars, server, step, at, faults, clean, leftover, late>>

\* Server::new, over a new connection.
NewServer(ack) ==
  [read |-> ack, panes |-> "none", title |-> None, bound |-> "none", misses |-> 0,
   hold |-> FALSE, hist |-> Unseen]

\* Hook events the app may have acknowledged.
Acks == IF agent = None THEN {0} ELSE IF agent.hookOff = None THEN {0} ELSE 0 .. agent.hookOff

\* The link breaks, or serve ends, at any point of its tick; the next serve
\* reads on from an event that was acknowledged.
Restart(ack) ==
  /\ Fault
  /\ server' = NewServer(ack)
  /\ step' = "rest" /\ at' = 0
  /\ out' = <<>> /\ sent' = 0
  /\ clean' = FALSE /\ late' = FALSE
  /\ UNCHANGED <<hostVars, agent, leftover, late>>

-----------------------------------------------------------------------------
WatchInit ==
  /\ now = 0 /\ pane = "new" /\ screen \in Screens
  /\ flying = {} /\ hooks = 0 /\ spool = <<>>
  /\ server = NewServer(0) /\ step = "rest" /\ at = 0
  /\ out = <<>> /\ sent = 0
  /\ agent = None
  /\ faults = 0 /\ clean = TRUE /\ leftover = FALSE /\ late = FALSE

\* A step of serve.
Serves ==
  \/ TickDrains \/ DrainFails
  \/ NoPoll \/ SessionsFail \/ PanesFail \/ PanesListed
  \/ NotDumped \/ Dumped

WatchNext ==
  \/ Clock \/ PaneChanges
  \/ \E scr \in Screens : ScreenChanges(scr)
  \/ \E s \in HookStates : HookStarts(s)
  \/ \E h \in flying : HookEnds(h)
  \/ Serves \/ Take
  \/ \E ack \in Acks : Restart(ack)

WatchSpec == WatchInit /\ [][WatchNext]_watchVars

-----------------------------------------------------------------------------
(* Properties.                                                             *)

\* Once the app knows of the end an agent reported, the agent stays ended
\* while nothing but its title or its last screen is left: no scrape, not even
\* one made before serve read of the end and still on its way, brings it back,
\* and no false Done follows (exit_hold; design section 6.2, 4); unless the
\* hold was lost with the serve process or a listing that failed.
HoldHolds ==
  leftover /\ clean /\ agent # None /\ agent.hookOff = Len(spool) => agent.state = "Exited"

\* Once serve's list shows that the pane ended or is gone, and the app has
\* taken all there is, the agent is shown as exited: whatever hooks, scrapes,
\* failed listings and restarts came before, and although a list is sent only
\* when it differs from the last one (poll_panes; design section 6.3); unless
\* serve read a hook event after the list.
GoneIsExited ==
  Ended(server.panes) /\ out = <<>> /\ ~late => agent = None \/ agent.state = "Exited"
=============================================================================
