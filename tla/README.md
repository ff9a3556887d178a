# dvlpr in TLA+

dvlpr is a terminal multiplexer. A daemon per session owns windows, split panes and
their PTYs; any number of clients attach to it over a Unix socket, all looking at
the same picture; a snapshot of the layout survives the daemon. It knows coding
agents: it watches what they do in their panes, resumes their conversations after a
crash and tells a front end about them through a bridge.

This directory holds TLA+ modules of the system, the TLC configurations that check
them on small instances, and theorems that TLAPS checks for instances of any size.
Source paths are relative to the repository; the Rust code is in `src/`. Line numbers
of every definition are in `PROJECT.json` (`map`).

## 1. The system

| part | state it keeps | operations | what makes it correct | modules |
|---|---|---|---|---|
| session (`src/session.rs`) | windows (tree, focus, zoom), active index, pane map, viewport, menu / help / dialog, copy mode, snapshot bit, each client's drag | commands, control commands, overlays, mouse, resize, pane exit | indices and ids always lead somewhere; one modal; visible panes are as big as they are drawn; nothing restorable changes unnoticed | `Session`, `Tabs` |
| layout (`src/layout/mod.rs`) | the tree of a window | split, close, set ratio, hit-test, rectangles | a full binary tree, whose rectangles tile the screen at any size | `Layout`, `LayoutTree` |
| server loop (`src/server/mod.rs`, `run`, `apply_events`) | client map, foreground, owner of copy mode, dirty flag | events of clients, panes and timers | size follows the most recently active client; copy keys only from the owner; every change reaches a frame | `Server` |
| protocol (`src/protocol/mod.rs`) | none | write and read a message | whole messages, in order, until the peer is gone | `Wire`, `Conduit` |
| writer task (`spawn_writer`), terminal client (`src/client/mod.rs`) | baseline of the difference, view, mouse mode; terminal modes and size | frame, resize, last word; hello, `run_loop`, signal, end | a difference is applied to what it was taken from; the terminal shows the session and is given back | `Attach` |
| compositor (`src/compositor.rs`), menu, help, dialog | none | compose, hit-test; fit, full, difference | the pointer finds what is drawn; full or applied difference give the same screen | `Frame`, `Attach` |
| input (`src/input/mod.rs`), configuration (`src/config/mod.rs`) | parser state per client; the key map, once | bytes to events | a key means one thing however reads cut it; the help says what keys do | `Input`, `Config` |
| copy mode (`src/copymode/mod.rs`) over the screen (`src/ghostty/screen.rs`) | cursor, anchor, offset, drag; rows, history, viewport | motions, selection, yank, wheel | cursor and selection on the screen; what is yanked is what is inverted | `CopyMode`, `Screen` |
| panes (`src/pane/mod.rs`) | child, reader thread, channel | spawn, feed, write, close | output before exit; nobody waits in a ring | `Pty` |
| agents (`src/detect`, `src/procinfo`, `src/agent_meta`, the ticks of `session.rs`) | per pane agent, state, streak, transcript to resume; names, labels, branches | agent tick, snapshot tick, name tick | states that mean something; each pane its own transcript; names of what runs | `Detect`, `Agents`, `Names` |
| daemon and launch (`src/main.rs`, `src/daemon.rs`, `src/server/socket.rs`) | lock, socket path | start, attach, stop, exit | one reachable daemon per name | `Lifecycle` |
| persistence (`src/persist/mod.rs`) | snapshot file | write, load, delete, archive, restore | the file is the session unless a write is due; restoring undoes saving | `Lifecycle`, `Snapshot` |
| update (`src/update`) | staging directory | download, verify, swap; restart | always a whole program; a session that was stopped comes up again | `Install`, `Lifecycle` |
| command line and control commands (`src/main.rs`, `src/control/mod.rs`) | none | parse, address a session | every documented line reaches what it names | `Cli` |
| bridge, subscriptions (`src/bridge`) | rosters, watches, tails | scan, subscribe, poll, command, emit | lines begun after a tail once and in order; no tail of a dead agent; commands accounted for | `Bridge` |
| themes, sound, install scripts | | | | none (presentation, I/O) |

How they meet:

* The **server loop** is one task. Everything else reaches it as an event on one
  channel: readers of client connections, forwarders of pane output, the accept task;
  and it has four timers. It calls the session synchronously.
* Towards a client it has two channels: a *watch* that keeps only the latest frame,
  and an unbounded control queue (resize, detach, closed). The **writer task** selects
  on both, the control queue first.
* **Clients** share nothing with each other but the session; whoever acts last has
  the foreground and with it the session's size.
* A **pane** is a child behind a PTY, a thread that reads it, a task that forwards to
  the loop; the loop itself writes to the child.
* **Daemons and commands** are processes. They meet in three files: the lock (`flock`),
  the socket path, the snapshot. The daemon's background writer is a thread that goes
  on until the process exits.
* The **bridge** is another process: a subscriber task for each daemon it finds, and a
  loop that polls transcripts and carries a front end's commands to daemons which it
  tells apart by their epoch.
* What **agents** do is not told to the daemon: it polls processes, screens and files.

What is hard: windows are kept by position while other clients, control commands and
dying panes remove some; overlays and copy mode take the keyboard in turn from several
sides; frames are skipped while differences are sent; the last word races the closing
of the channel it comes with; a daemon's socket vanishes before its lock; a bit is
taken before what it asks for is done; rows move under a selection; an escape sequence
is cut by a read, a timer or a change of key map; polls see half of what happened in
between. `PROJECT.json` lists each at its line (`hazards`) with the properties that
would catch it going wrong.

## 2. The modules

| module | what it is |
|---|---|
| `Layout` | a tree as a function from panes to paths and from split paths to ratios, with the operations of `Node` |
| `Tabs` | abstract: the tab bar, windows with identities, one in front |
| `Session`, `SessionProps` | the session over `Layout`, an action per command, overlay key, mouse gesture and outside event; its refinement `ShowsTabs` to `Tabs` |
| `LayoutTree`, `LayoutTreeProps` | the recursive `Node` with directions, integer cells and the f32 arithmetic of ratios; `Layout` beside it, driven by the same commands |
| `Frame`, `FrameProps` | over `LayoutTree`: what `compose` paints, cell by cell and layer by layer, and what `Session::hit`, `menu_hit` and `help_hit` answer |
| `Snapshot`, `SnapshotProps` | over `LayoutTree`: what is saved of a session, `plan_restore`, what is restored |
| `Server`, `ServerProps` | the select loop |
| `Wire`, `Conduit` | framing over a byte stream, and abstract: a conduit of messages |
| `Config` | where the file is found, fallbacks, the key map, the rows of the help popup |
| `Cli` | arguments, control commands, names of sessions, nesting |
| `Attach`, `AttachProps` | one client: terminal, client process, wire, reader, writer, mailbox |
| `Input` | the byte machine `InputParser`, state by state |
| `Screen` | rows, history and viewport of a pane, coordinates of copy mode |
| `CopyMode`, `CopyModeProps` | composes `Input` and `Screen`: a client's bytes, the copy-mode handlers and a pane that goes on writing |
| `Pty` | what is behind a pane: child, thread, task, loop |
| `Detect` | classifiers, transcripts of a directory, `assign_transcripts`: operators |
| `Agents` | the agent tick and the snapshot tick over a world of processes, screens and files |
| `Names` | window names, agent labels and branches, read by polling |
| `Lifecycle`, `LifecycleProps` | one session name over the lives of its daemons |
| `Install` | `dvlpr update` up to the swap of the program |
| `Bridge`, `BridgeProps` | daemons, subscriber tasks, the bridge's loop, transcripts, a front end |
| `SessionProofs`, `SessionStepProofs`, `ServerProofs`, `AttachProofs`, `LifecycleProofs`, `BridgeProofs`, `PaneProofs`, `CopyModeProofs` | theorems |
| `MC*` | instances for TLC; the constants of a run are in its cfg, and `AttachProps` and `BridgeProps` need no more than that |

Operators whose comment begins with "Mutant" are no part of the model: each is a wrong
version of the definition after it, which some property must notice.

### How the models stand to the code

**Session.** `windows` is the vector, `active` the index plus one, `panes` the pane map
with the rectangle each PTY was last given. A rectangle is the content area and the
sequence of cuts that lead to it, so that "same size" is decided without cells.
`Relaid` is `relayout_all`, `Reconciled` is `reconcile_menu`, and every command ends
with the calls the code ends it with. A handler is one action, since the session is
called from one task. Choices: a split that is refused for want of room and one whose
spawn fails are one nondeterministic refusal; the direction of a split is left to
`LayoutTree`; of the viewport only the height and the sidebar matter; commands after
the last window has closed, in the same batch, are possible as in the code. `id` of a
window and `target` of a drag are auxiliary.

**LayoutTree, Frame, Snapshot.** Cells are integers below 128 an axis, for which the
mantissa arithmetic in `LayoutTree` is the f32 arithmetic of `split_area`. `FlatAgrees`
carries what is proved of `Layout` over to it. A frame is a function from cells to what
was painted there last; characters and styles are left out, widths are not. `Scenes`
are what the session hands to the compositor besides the tree. A snapshot is a tree in
the order of its leaves and what each pane is to be resumed with; `Worlds` says what
the disk has lost meanwhile.

**Server.** `pc` is where the loop is: waiting, in a batch of input, in a tick. A batch
is a sequence of steps since its events change what later events of the same batch meet
(copy mode, its owner, the client map). The event queue is not kept: a reader's event
is taken when it is handled, which gives the same orders because the loop reads nothing
of an event before that. Activity stamps are ranks. Of the session there is what the
loop reads: copy mode, picture, size, emptiness.

**Wire.** A byte is a bit and a length two of them; the greeting, the version it must
have, over-long and truncated messages are kept. `CarriesMessages` is `Conduit!Spec`.

**Config, Cli.** Operators over all files and command lines of the cfg: evaluated in
initial states; the theorem is of any files and lines. A file is what it says of each key; bytes are numbers. `Documented` is
the list of lines in `src/README.md` and the usage text with what each is to reach.

**Attach.** Pictures are pairs of a grid and a view; `Fit`, `FrameMsg` and `Paint` say
what `fit`, `serialize_full` and `diff_rows` make of them, a difference applied to the
wrong base giving `Torn`. The wire has a capacity, so a client that does not read blocks
its writer. The one second teardown timeout is `WriterAborted`, possible only when the
wire is full. `missed` says that the terminal was resized before the client listened.

**Input, CopyMode, Screen.** A byte is its class, as far as the parser tells bytes
apart; `MAX_CSI_SEQ` and `MAX_MOUSE_SEQ` are one small bound. A read takes any prefix of
the bytes under way and is parsed with the copy bit of that moment, as in `ClientInput`;
the escape timer may come between any two reads. Rows of the screen are numbered as
they are written, so that a coordinate that shifts when history is dropped is seen to.
The engine's cursor, where copy mode begins, is wherever the application may have left
it: any of `Carets` when a read is applied, kept on the screen.
`moved` says that the pane wrote or changed its size since copy mode began: the code
lets view and selection slide then, and promises nothing. One read may yank, zoom the
pane and begin anew, so a step notes with what it yanked whether the pane had moved by
then (`step.slid`). `torn` says that the prefix, a sequence that was typed and left open,
or the timer took the beginning of a mouse report.

**Pty.** Both directions of the PTY hold one unit. The loop's `write_all` is a step for
each unit, during which the loop does nothing else.

**Agents, Detect, Names.** A screen is a sequence of lines, a line the set of marks the
classifiers look for; their order and exceptions are kept, the texts are data. Time is
a count of starts and births, which is all that files and processes are compared by. A
process may be unreadable at a tick. `past` is auxiliary, what has happened in a pane: no
agent found in it yet, one found whose transcript is known, found gone by an agent tick,
and a snapshot tick since. In `Names` a command line is a sequence of words by
what each is to `friendly_name`, a transcript a sequence of lines with sizes, so that
the cap of what is read matters.

**Lifecycle, Install.** Processes are slots that are used again. `lock`, `sock` and
`snapshot` are the files. A session is its restorable layout, and `Changes` any change
of it, as `ChangesAreSnapshotted` of `Session` allows. `Locks` to `Exits` are the stages
of `run_server` and `server::run`; `Unlocks` and `Exits` are apart since the lock's file
is closed when `run_server` returns while the writer thread lives until `process::exit`.
`write_atomic` is its rename or its failure; power loss is not modelled. Polling is not
counted: a poll sees what is there, and `GivesUp` and `UpdGivesUp` state what two
seconds are taken to be long enough for (a process that was started has bound its
socket; a daemon that was sent a stop has left). `spoiled` is auxiliary: the file is not
what the daemon last saved, because a write failed or because another process touched
it. In `Install` every step of an update may fail or be its last, a download may be
anything, and the binary is unpacked in two steps.

**Bridge.** The socket of a subscription and the channel to the loop are one queue. A
transcript is a sequence of halves of lines, so that a poll can find half a line. The
consumer is the program at the other end of the pipe, which sends any legal command at
any time, with epochs it has seen, text that is no command (`BadCommand`), or bytes that
are no text (`Garbled`), on which `run` returns the error; it returns as well when the
input ends (`HangUp`, which also stands for an output that cannot be written). `foreign`
are the daemons of another version of the protocol: they close a subscription and a
command without a word. `torn`, auxiliary, counts the lines of a tail that were half
written when it began.

## 3. The runs

| run | instance | what it shows |
|---|---|---|
| `session` | one client, 3 panes in up to 3 windows, one height; a selection begins on pane 2 | pane map, trees, focus, zoom, overlays, copy mode, menu stay consistent; tab bar refinement; a background exit is quiet; every structural change is laid out and marked for the snapshot |
| `tree_geometry` | 4 panes, 11x7 cells and a screen without rows; 3 panes framed and restored | recursive and flat trees agree; tiling; local changes; the pointer meets what is drawn and overlays fit; restoring undoes saving |
| `server` | 2 clients, 2 sizes, 2 scenes; beside it 3 messages on a wire of 3 bytes, 7689 contents of the two places of the file, 2436 command lines | foreground, owner of copy mode, frames owed and published, no silent drop, no frozen copy mode; framing; the help; the command line |
| `attach` | 2 sizes, 2 texts, wire and queues of 1 | no torn picture, mouse-mode edges, last word; convergence, departure |
| `lifecycle` | 2 daemons, 1 terminal, 2 layouts, 1 crash; beside it 2 updates, 2 releases | reachability, snapshot file, restart and launch; always a whole program |
| `agents` | 2 panes in one directory, 2 screens, 2 starts; beside it a PTY of 4 outputs, and names with 2 panes and 2 edits | done and working, seeds and transcripts; output before exit, no ring of waiting; names |
| `copy_mode` | 2 columns, 1 to 3 rows, 2 rows of history, 4 keys or reports, a cut, a line | copy mode in step; yank; what is typed is meant |
| `bridge` | 1 session of 2 panes, 2 epochs, 1 transcript cut once, 1 command | tails, watches, commands, rosters |
| `stale_drag`, `mouse_left`, `failed_write`, `half_line` | | refuted promises, section 5 |

Some runs check several specifications *side by side* (`MCServer`, `MCUpdate`,
`MCAgents`): a variable `part` is chosen at the start, every behaviour is one of the
specification chosen, and the variables of the others stand still. No step mixes two,
so a run shows of each exactly what a run of its own would. Liveness is stated only of
the part whose fairness the run assumes; for the others it holds because nothing ever
changes in those behaviours, which is why it says nothing about them.

Bounds, each a constant of its module:

* `Selectable` of `MCSession`: a selection with the mouse is begun on pane 2 only. It can be
  alone, the first or the last of its window, and die before the others and after.
* `MaxPanes` of `Session`. Three panes give every shape in which the operations differ:
  a leaf, a split, a split below a split, and up to three windows so that one can close
  left of, at and right of the active one. The theorems of section 4 have no bound.
* `Clients` of `Session` is one: what clients share is the session, and control
  commands and pane exits already act between any two steps of a client. What several
  clients add is in `Server`, with two: the one in front and the next one, each of them
  the owner of copy mode or not; any number in the theorems.
* `Rows`, `Sizes`, `Scenes`, `Texts`: two are enough to tell a stale value from a
  current one.
* `Areas` of `LayoutTree`: an area where a second split still fits on one axis and not
  on the other, and one of no rows. `Scenes` of `FrameProps`: two windows, with names
  that fit and that do not; the sidebar with and without agents; menus, help and the
  dialog where they fit and where they are clipped.
* `MaxWire`, `MaxQueue` of `Attach`: one message under way; a frame that overtakes is
  the mailbox's, not the wire's.
* `Daemons` of `Lifecycle`: the old one and the one that races it. `MaxCrashes`: one,
  and a socket left by an earlier crash in the initial states.
* `MaxTime` of `Agents`: two starts or births beside those of the initial state, enough
  for an agent to follow another in a pane. `OwnSessions` runs over every history of
  seven starts and births of up to three panes, by itself.
* `MaxSaid` of `Pty`: four, more than the two places of PTY and channel together.
* `MaxActs` of `CopyMode`: four keys or reports, for instance prefix, `[`, a mark and a
  yank, or press, drag, drag, release; `MaxCuts` one read that leaves bytes behind.
* `MaxWire` of `CopyMode`: two bytes of keys in one read, beside a key or a report that is
  longer and comes alone; `Carets` a corner and a place in the middle.
* `MaxEpoch` of `Bridge`: a daemon and its successor, whose panes have the same numbers.

`CHECK_DEADLOCK` is off where a session that ended, a daemon that stopped, a client
that left or a bound that is used up are ends the model means to have.

Fairness. `Server`: a batch ends, the tick comes (strongly fair: tokio's `select!`
takes ready arms at random), a client that was told to detach closes its connection.
`Attach`: tasks run; users and panes do as they like. `Lifecycle`: processes and threads
run; a poll every 20 ms sees a state that stays or keeps coming back (strong fairness of
`SeesUp`, `UpdSeesDead`, `UpdSeesUp`); what users do and which writes fail is not up to
the code. `Agents`: the agent tick, an interval of the loop. `Bridge`: the daemon's
tick, the subscriber tasks, the scan, the poll and the arms of the loop; a daemon either
answers or its connection breaks. `failed_write` adds a storage on which of writes tried
again and again one works, so that what it refutes is the code's retry and not the disk's.

## 4. What is proved

`SessionProofs` begins with the tree: for a well-formed tree of any size `SplitPane`
gives a well-formed tree with one pane more, and `ClosePane` one with that pane less.
The core is that lifting the sibling's paths over the parent is injective and takes
nodes onto nodes.

On it rest the invariants of `Session`: `WellPlaced` (`TypeOK`, `PanesPlaced`, `FocusInWindow`,
`TreesWellFormed`) and `ModesConsistent` (`ZoomOnlyActive`, `OneOverlay`, `CopyPaneLive`,
`MenuPaneShown`) hold in every state, for any sets of clients, heights and ratios and any
number of panes. The inductive invariant is `Placing`: the pane map and the trees hold
the same panes, windows are disjoint, focus and index lead somewhere, ids are below the
next one. None of these is inductive alone: the focus after a close is a leaf of the
smaller tree only if the tree was full, and the pane map matches after a window is
dropped only if windows were disjoint. The types of rectangles, menus and drags, and
that a menu's pane is in the window in front, are proved on top of it.

`SessionStepProofs`: what a step of the session may never do, for any clients, heights,
ratios and number of panes. `ShowsTabs`: the window vector with its index implements
`Tabs`. Each of the session's actions is shown to open a window, to drop one or to leave
the identities in place; `Distinct` (identities differ and are below the next one) is
what makes "the window in front" a window and not a position, and it needs the index
arithmetic of `ActiveAfter`. `ChangesAreLaidOut`: every action ends laid out or leaves
trees and view alone (`Settled`), and laid out means drawn as sized because `Placing`
gives each pane one window. `BackgroundExitIsQuiet` rests on the same two.
`ChangesAreSnapshotted` is proved action by action and needs no invariant.

`ServerProofs`: `IdleInOrder` (`TypeOK`, `FreshUnlessDirty`, `NeverIdlesEmpty`),
`CopyOwned` (`OwnerMatchesCopy`, `OwnerAccountable`, `CopyKeysFromOwner`),
`ForegroundIsLatest` and `NobodyDroppedSilently`, for any clients, sizes and scenes.
`OwnerInv` strengthens the three about copy mode with what holds in the middle of a
batch, where owner and state disagree; `Fresh` needs it, since the owner is part of the
frame.

Also in `ServerProofs`: `CarriesMessages`, that `Wire` implements `Conduit`, for messages
and frames of any length and a socket of any room. `Joined` says that a stream of bytes
is the frames of some messages, one after the other; `Streaming` that what the task has
of a message, what the socket holds and what the client has still to write are together
such a stream, of the messages begun and not delivered, and that both ends hold less
than a frame. From it a length and its payload are the next message; an end with nothing
of a message read means that nothing is left, since a rest of a frame in the client's
hands would be a whole one short; and a length that is too long can only be the first,
from a client that is not of this version.

And `HelpIsTrue`, of `Config` and `Cli`. Nothing of either changes, so the invariant is
typing and the work is in the operators, for any files, lines of any words and any
length, where TLC has those of the cfg. Of the keys: what `Load` returns is a key for
every command; the parser is a recursive function over bytes, of which `FedOneMore` says
what one byte more does, so that the bytes of the prefix leave it armed (`PrefixArms`)
and those of a key, two encodings of an arrow included, come to one command
(`KeyResolves`, `ArrowIs`); that the command is the row's is that a command is bound once
(`BoundOnce`) and that the first match is the only one (`RowResolves`). Of the lines:
`strip_session` is a fold (`StripFold`) whose states keep the first word, take a session
only from behind its flag, and leave no flag but the last word (`Behind`); a word more
either stays behind the others or becomes the value of a flag that was last
(`UnselectedMore`), so that the words that are left never are the same, which is
`NothingIgnored`. The sessions that can be named with an at sign remain the two of the
model.

`AttachProofs`: `WriterInStep` (`TypeOK`, `NeverTorn`, `CaptureInStep`,
`LastWordWritten`), for any sizes, texts and lengths of the queues, while the run has
room for one message in each. `Chain` says that each difference on the wire is to the
message before it, the first to what the terminal has, and that the writer's baseline is
the last; `Edges` that of the orders about mouse reporting on the way the last is what the
writer wants; `Farewell` that a client told to go has its goodbye queued or on the way.

`LifecycleProofs`: `OneReachable` (`TypeOK`, `ListenerReachable`) and `SnapshotIsKept`
(`CleanIsSaved`, `FinalWriteStays`), for any daemons, terminals, layouts and number of
crashes. `LockInv` says that whoever is past the lock and not yet out of `run_server`
holds it, hence that only one daemon can bind, save or delete at a time. `WriterInv`
adds that a writer at work with the bit taken has the session as it is, and that a
daemon that keeps its snapshot has no writer; only with both can no write of another
thread or process come between.

Also in `LifecycleProofs`: `AlwaysAProgram` of `Install`, for any number of updates and
releases. `Holds` says what each step leaves in the staging directory of its process:
from the checksum on the archive is the one published, from the unpacking on the binary
is.

`BridgeProofs`: `TailsWhole`, `WatchesCurrent` and `CommandsAccounted`, for any sessions,
panes, files, incarnations and commands. `TailsWhole` is about the lines begun and
completed after a tail began; the line in progress then is lost, as `half_line` shows.
`CommandsAccounted` counts the line on which the loop fails as one without an answer,
and says that none is in flight once it has returned. `Incarnations` says that for each session the
task, what it has put into the channel and what the bridge knows are of one daemon, and
that a task that has not heard has put nothing there; it is what `WatchesCurrent` needs
when a roster arrives. `TailsInv` says of every tail, between its start and its position,
that it has sent as many lines as are whole there, and a torn one if there was one, and
that what it keeps is the line that is not; while a file grows both change together. `CommandsInv` ties the command in
flight to the last entry of what was carried out.

`PaneProofs`: `DoneMeansMissed` and `SeedKept` of `Agents`, for any panes, screens and
starts, and `ExitIsLast` and `NoStandoff` of `Pty`, for any ids, room and number of
outputs. `WatchInv` says that a streak counted amid work tells that the last tick read an
idle screen, so that the second tick in a row is the second in a row. `SeedKept` relates what a
pane would be restarted with to `past`, which the steps extend and never read; `PastInv`
adds to it whether a process was captured and an agent is watched at each of these
moments, which is what the snapshot tick goes by. `PtyInv` has three
parts: who holds the terminal of a pane and which of its threads and tasks live (`Held`);
that what the loop was fed, the channel, and what the PTY holds are one sequence without
a gap (`Lined`); and that the events of a pane are what is due of it and in order
(`InOrder`). None is inductive alone, as the reader thread ends on the end of the PTY,
which is only then the end of what was said.

Also in `PaneProofs`: `SessionsMatched` of `Agents` and `ShownIsTrue` of `Names`.
`assign_transcripts` is a fold over the panes, the youngest first (`AssignFold`, by
`Climbs`). In a history where the agents of a directory began their transcripts one after
the other, all that a pane may claim was born before the next one started, hence in its
own part of the history or before it, and its own last one is unclaimed (`TurnIs`): so
each gets its own (`OwnSessionsHold`), for histories of any length and any number of
panes, where TLC goes through those of seven events and three panes. That resume data is
of a transcript on disk rests on the births being bounded, without which a set of files
need have no youngest (`AgentsInv`). `NamesInv` says what a row of the sidebar knows: of
the process whose command line it last saw, in a label that counts in its transcript
(`Counts`), and either what a look would find now (`Fresh`) or a row old enough that the
interval runs out before the row has to be right (`Catching`); the files of a directory
stay numbered as they were begun, whichever was written last (`NumberedFiles`). The scan
of a transcript is one over its lines, so `ScanIsTrue` shows what it finds with the first
and last line of a kind, without induction.

`CopyModeProofs`: `SelectsWhatIsShown` (`ViewInStep`, `CopiesWhatIsShown`), for any keys, reports, columns,
heights and history, and wherever reads and the timer cut the bytes. A read is a fold
over its bytes and one over the events they give; for a fold, induction is done by the
least number at which it would leave what every step keeps (`Climbs`), so that no
induction theorem is needed. The parser stays one (`FeedTyped`), whatever it is fed, so
its events are events. Each handler keeps `Good`: offset, cursor and selection are where
the pane is unless it moved, and what went to the clipboard is what was inverted. The
latter is about two ways of going through a selection, by its rows and by its cells: a
row of the screen is the same distance from the viewport as the row in history is from
the offset (`YankedIsHighlighted`). `Kept` is the inductive invariant, `Good` of the
state with a parser and bytes that are ones.

Also in `CopyModeProofs`: `MouseSessionEnds` and `TypedIsMeant`, which are about the
reports still on the way, for any bytes and cuts. `Reports` is the invariant. Of what is
under way, a byte of a report is followed by the next and preceded by the one before
(`Chained`); the parser is between reports or in the middle of one, with the mode and
the pending bytes that belong there (`Aligned`: `Clear` or `Cut`); and when the button
is up a release is on its way behind every drag (`Ending`), behind a drag half read, and
behind copy mode that the mouse has on (`Due`). A byte read keeps the parser aligned
(`StepAligned`), unless it is the first of a report and a sequence typed before takes it:
that is `torn`. Any parameter for what a report holds in place of `Meant`, the bytes of
no report, gives what is typed (`StepTypes`): with the empty set that copy mode types
nothing. `AppliedDoes` says that after a read copy mode is on by the mouse only if it was
or a drag began it, and no release came after.

Assumptions are those named in the modules (`HalfAssumption`, `RowsAssumption`,
`NoneAssumption` and the like): constants are what their comments say. Some are there
for the proofs: some screen shows an idle agent (`ScreensAssumption`), ids of panes begin
with one (`IdsAssumption`), and a greeting fits a frame, as the hello of the program, a
few dozen bytes of the 8 MiB, does (`GreetingAssumption`). A report of the mouse fits the
bound of a sequence (`MaxSeqAssumption`; in the code it takes some dozen bytes of 32).
The panes are finitely many (`PanesAssumption`), and of the words of command lines those
that stand for a program's code follow the flag that says so and none is the one that
stands for the search path (`NamesAssumption`). Configuration files say of each key one of
the things `Entries` lists (`FilesAssumption`), lines are sequences of words and the name
in `$DVLPR` is one that was checked, since a daemon starts only under such a name
(`LinesAssumption`).

Only model-checked, and why:

* `Converges`, `Departs`, `ChangesPublished`, `NotFrozen`, `RestartCompletes`,
  `LaunchEnds`, `WorkEnds`, `RostersConverge`: liveness. That the progress actions are
  enabled cannot be expressed to the prover. `NoStandoff` is proved since it is stated
  with the guards of its actions, and a run confirmed that these are their `ENABLED`.
* `Tiled`, `ChangesAreLocal`, `DrawnAndFound`, `RestoresWhatWasSaved`: about `LayoutTree`,
  whose operators are recursive; the SMT backend is not available with them.

## 5. Where the code differs from what it says

Refuted by a run:

* `stale_drag`: `resize_divider` "operates on the explicit `window` the drag started in".
  It keeps a position; when a window to its left closes during the drag, the divider of
  another window moves.
* `mouse_left`: `MouseGuard` is there "so the user's terminal never stays in
  mouse-reporting mode after the client exits". It resets 1002 and 1006, while frames
  may have set 1003, which is reset only on Detach and Closed.
* `failed_write`: `request_snapshot` is "used by the server to retry after a transient
  `write_atomic` failure". It is used when the writer is busy; a failure is logged and
  the bit stays taken.
* `half_line`: a poll of a tail returns "zero or more COMPLETE new lines". A tail that is
  opened at the end of a file starts inside the line that is being written; what it
  returns first is the rest of that line, which is no JSON and is skipped.

Met while modelling; the models follow the code:

* `Known` in `FrameProps` names three places where a press does not meet what is shown:
  the label of an inactive tab written past its chip, a menu that is clipped, and the
  chips of a help popup too narrow for them. A menu opened on the tab row is always
  clipped: its last item is painted on the row `menu_hit` calls the border, and a click
  on it does nothing, though an item is "execute on press" (`src/menu/mod.rs:177-178`).
* The bridge "never exits on bad input (spec: reply ok:false)" (`src/bridge/mod.rs:48`).
  A line that is not UTF-8 makes `line?` return from `run`, without a reply (`Garbled`).
* Copy mode is "mutually exclusive with menu/help/dialog" (`src/session.rs:138-139`).
  Entering it closes them; the help and the dialogs of a client that does not own it open
  over it, and both are then on.
* `clamp_to_screen` is "called each frame"; `compose` does not call it, so a selection is
  clamped only by the next key or drag.
* The comment before `handle_copy_mode_mouse` (`src/session.rs:1718-1721`) says that the
  mouse never yanks on release; a drag that opened copy mode does.
* The prefix followed by a mouse report takes its first byte, and the rest is typed. So
  does a CSI sequence that was typed and left open: only a lone escape is timed
  (`pending_escape`), so that after `Esc [` from the keyboard the next report is typed
  into the pane. Of
  `prefix [ j` in one read, `j` goes to the pane: the key map of a read is decided once.
* The bridge: `SessionGone` may be said of a session never announced; a file replaced
  between `stat` and `open`, or cut and grown between two polls, is read from the old
  position; window commands carry positions of the roster known when they were sent;
  "unreachable" is also the answer when a command was carried out and its reply lost.
* `agent_meta::encode_cwd` replaces `/`, `procinfo::claude_project_dirname` replaces `/`
  and `.`: a directory with a dot has its transcripts found by one and not by the other.
* `assign_transcripts` has an upper bound on births and no lower one, although its comment
  (`src/session.rs:224-225`) and a test's (7103-7104) say that older transcripts stay
  unclaimed: they do only while a younger one is there.
* A title is the first `custom-title` of a transcript, so that renaming a conversation
  again is not seen; of a transcript over 256 KB only both ends are read.
* The examples `dvlpr server-name pane split down` of `src/README.md` are usage errors;
  `dvlpr window rename --session` renames a window to `--session`; the prefix "must be
  C-<lowercase letter>" but an uppercase one is taken.

## 6. Not modelled

* **Session**: the item highlighted in a menu, the scroll of the help popup and the text
  in a dialog as state (their geometry is in `Frame`); two panes of one window in
  `Agents`.
* **Compositor**: colours, glyphs, the styles of cells: presentation.
* **Protocol**: the encoding of messages, which is serde's.
* **Persistence**: the JSON text, `fsync` and power loss.
* **Panes**: several panes on one PTY model, the shutdown of the daemon, the clamp of a
  resize, empty argument words on macOS.
* **Agents**: the texts of the patterns and the table of spinner verbs: data.
* **Terminal emulation** is the vendored libghostty-vt; `Screen` has what copy mode reads
  through it.
* **Themes, sound, install scripts, build**: no state that others depend on.

Next, in this order: `DrawnAndFound` with two clients of different sizes (`fit` over
`Frame`); a composition of `Server` and `Attach`, with the mailbox of the one filled by
`Publish` of the other; `CopyMode` with a second client that has the foreground; the
rosters of `Bridge` taken from `Agents`.
