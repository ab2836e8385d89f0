# Egg Freckles: TLA+ models, checks and proofs

Egg Freckles lets an Apple Newton talk to an AI agent. A host (Python) runs a
chat server on port 6801 and a web server on port 6810; the Newton runs a
package written in NewtonScript that keeps up to four connections to them.
This directory holds TLA+ modules for the parts where ordering, loss, timeouts
and restarts matter, the TLC configurations that check them, and proofs checked
by TLAPS. Paths below are relative to the repository.

## 1. The system

| Component | Source | State | Operations | Talks to |
|---|---|---|---|---|
| Native chat, host | `server.py` `native_mode`, `send_frame` | per connection: `last_rx`, `tx_seq`, `hello`, the MSGP parts buffer | accept, NAK or re-ACK a frame; stop-and-wait send with `FRAME_TIMEOUT` / `FRAME_RETRIES` | Newton over TCP; sessions; agent |
| Native chat, Newton | `examples/harness-client/Main.newt` | `ready`, `inFlight`, `draftSeq`, `pendingParts`, `pendingPrompt`, `responseText` | Send, Ask, New; `HandleLine`; Connect, Stop | host over TCP; the radio |
| Sessions | `server.py` `Session`, `Chat` | `registry.json`, `session*.json`; a private copy of both per connection | slash commands, `save`, `load`, `_adopt` | files |
| Agent turns | `server.py` `CodexBackend`, `TURN_LOCK` | one lock, one `codex` process per turn | start, progress, answer, fail, kill at `CODEX_TIMEOUT` | sessions, native chat |
| Tool broker | `pkg_publisher.py` `ToolBroker` | `pending`, `outcome`, `connection` under one condition variable | `submit`, `serve`, `poll`, `complete` | HTTP callers; Newton tools socket |
| Ink reading, host | `pkg_publisher.py` `/ink` | `ink_parts` per client address, part files, a worker pool | multipart stream, futures, reply | agent; Newton ink socket |
| Ink sending, Newton | `Main.newt` `SendInk` .. `InkStop` | `inkEndpoint`, `inkSeq`, the strip cursor | send strips, wait, watchdog | host; the radio |
| Radio and link | `Main.newt` `RadioHold`, `Connect`, `Grabbed`, `Stop` | one NIE link shared by four endpoints, `radioSeq`, delayed calls | grab, arm, expire, release, retry | all Newton slots |
| Tools and installs, Newton | `Main.newt` `ToolStart` .. `ToolStop`, `PkgInstallStart` .. `PkgFinish` | tools endpoint, `toolMisses`, package endpoint | dispatch, watch, retry, install | tool broker |
| Frame codec, line editor | `server.py` `frame_line`, `parse_frame`, `LineEditor` | none / one edit buffer | pure functions | native chat, PT100 mode |
| MCP server | `newton_mcp.py` | project directories, the staging directory of packages | one JSON-RPC request at a time per process: create, write, build, publish; others pass a call on | broker, emulator, package route |
| Package publishing | `pkg_publisher.py` GET | the staged packages, read as they are | `/<name>.pkg`, one page, one status text | Newton, Loader |
| Emulator control | `emulator/control.py` | one lock | HTTP to `xdotool` and to the emulator's socket | emulator |
| Evaluation bridge | `runtime/ns_eval.py` | lock file, marker file with the emulator's start time, one result file | queue an eval, poll for its answer | emulator, through `podman` |
| Backup | `runtime/newton_backup.py` | dump directory: an `.nsof` and a `.json` per entry, `manifest.json` | Dock session, resumable dump | Newton over serial or TCP |
| Serial MNP link | `runtime/unixnpi/newtmnp.c` | sequence numbers, window | send, resend | serial line |

### Where it is hard

* **Unreliable timing over reliable TCP.** Lines are neither lost nor reordered
  while a connection is open, but an ACK may be slower than one second. The host
  then sends again, and ACKs of the first copy arrive during the next frame.
* **Both sides may talk at once.** A client frame can arrive while the host
  awaits an ACK (`NAK BUSY`), and a user may tap New in the middle of a turn.
* **Reconnects.** The Newton drops and redials at any time; host handlers of the
  old connection live on for a while, so two may exist at once and share files,
  `TURN_LOCK` and the broker's one slot.
* **Two-file saves** (transcript, then registry) that may fail or be cut.
* **Threads** in the broker: the condition variable is released between the
  acceptance of an outcome and the wake-up of the caller it belongs to.
* **Delayed calls** in the Newton package, which act on whatever session exists
  when they fire.
* **Processes that are killed** (codex with its tools, `ns_eval`, the backup) and leave
  files behind that the next process takes for its own.
* **Names shared by whoever comes**: one ink entry per address, one picture per page
  number, one result file, one temporary file per package.

[PROJECT.json](PROJECT.json) lists the hazards one by one at their source lines.

## 2. Modules

| Module | Models | Used by |
|---|---|---|
| `Wire` | the two TCP streams; lines as records | the native chat modules |
| `NativeServer` | `native_mode`, `send_frame`, the agent as it appears to them | `NativeLink`, `NativePeer` |
| `NewtonClient` | the chat slots of `Main.newt`: taps, `HandleLine`, Stop, Connect | `NativeLink` |
| `NativeLink` | host and Newton composed, with slow ACKs, hang-ups, redials | `MCNativeLink`, `NativeLinkProofs` |
| `ReliableLink` | abstract: frames come out in order, each once, none skipped | refined by `NativeLink` |
| `NativePeer` | host composed with any client that keeps the documented delivery rules, including damaged, repeated and misnumbered parts (the peer of `test_server.py`) | `MCNativePeer`, `NativePeerProofs` |
| `ToolBroker` | `ToolBroker` of `pkg_publisher.py`, its callers, its socket threads, the HTTP route | `MCToolBroker`, `PublisherProofs` |
| `ToolService` | abstract: a call is refused, times out, or returns its own outcome | refined by `ToolBroker` |
| `RadioHandlers` | the methods of `Main.newt` that share the radio, as operators from a frame to the frame they leave behind | `NewtonRadio` |
| `NewtonRadio` | the window: taps, endpoint and NIE callbacks, delayed calls, in any order timers allow | `MCNewtonRadio`, `NewtonRadioProofs` |
| `ChatSessions` | registry, transcripts, saves, `TURN_LOCK`, codex processes | `MCChatSessions`, `ChatSessionsProofs` |
| `InkNote` | POST `/ink`: the notes of one Newton, their handler threads, shared entry and pictures, the worker pool | `MCInkNote`, `PublisherProofs` |
| `AgentWorkspace` | `create_project`, `write_source`, `build_pkg` of several MCP processes, the staging directory, the ways packages leave it | `MCAgentWorkspace`, `AgentWorkspaceProofs` |
| `NsEval` | `ns_eval` processes, the emulator's eval channel, its restarts, the HTTP route that shares it | `MCNsEval`, `NsEvalProofs` |
| `DockDump` | `newton_backup.py --dump`: runs, resumes, kills, the Newton in between | `MCDockDump`, `DockDumpProofs` |

### How the models correspond to the code

**Lines.** `frame_line`/`parse_frame` are not spelled out: a client frame
carries the fault `parse_frame` would report (`none`, `CHECKSUM`, `LENGTH`),
and a prompt is a sequence of chunks, each knowing its prompt and part. A
sequence number is 0..`SeqSpace`-1, 100 in every configuration as in the code.
Chunks stand for bytes in `MAX_PROMPT` (`MaxChunks`).

**NativeServer.** `srv.pc` is where the coroutine awaits: `idle` in
`read_wire_line`, `await` in `send_frame`'s `wait_for`, `agent` inside
`backend.chat`; `send` is the point right before a write. One asyncio step
between two awaits is one action. `todo` is what the handler has left to send
before it goes on to `after`, which replaces the program counter of the `for`
loops over reply parts. `Closes` and `Follows` say which frame may come after which
on one connection. `FrameTimeout` is enabled whenever an ACK is awaited:
time is not modelled, so every race between the timeout and the ACK is explored.
A `ConnectionError` in the progress callback is caught by `native_mode` as a
failed turn, everywhere else it ends the handler (`GivenUp`). `CODEX_TIMEOUT` may also
pass while the callback awaits its ACK, and cancels it (`TurnTimesOut`). The reset of a
bare `/new` may raise, which ends the handler before a line of its reply
(`CommandRaises`).

**NewtonClient.** NewtonScript runs one callback to its end, so a callback is an
action. `HandleLine` acknowledges and applies every frame: it has no record of
the last sequence, so a resent frame is applied twice (Noticed, below). Connect begins
with Stop, and `QueueAndConnect` keeps only the queued prompt.
`NativeLinkAssumption` (`LongParts <= MaxChunks`): the longest prompt the Newton sends
(`kMaxPrompt`, `Main.newt:37`) fits the host's `MAX_PROMPT` (`server.py:44`).

**RadioHandlers and NewtonRadio.** These refine what `NewtonClient` takes in
one step: the dial, its failures, and everything else on the radio. A method runs
to its end and calls others, so `Stop`, `RadioHold`, `ToolRetry` and the rest are
operators from the view's frame to the frame they leave behind, composed as the
methods call each other; an action is one callback, with the failures its
`onexception` clauses catch. `app.ep[e]` is the asynchronous operation that
endpoint `e` waits for. Endpoints and NIE belong to the ROM: an operation
completes or fails, an endpoint may fail at any time (`ExceptionHandler`), and is
silent once disposed. A grant of the link counts in `app.held` until it is
released, whether or not the code remembers it. `UseActiveFavorite` always
finds a favorite, so its failure branch is left out. Bind, connect, header and body of
a package download are one operation, and progress reports of `InetGrabLink` that
precede `connected` are left out.

A ticket (`radioSeq`, `inkSeq`, `handshakeSeq`) is only ever compared with the one a
delayed call was posted with, so each call carries whether it is `current`, and
the increment of a ticket outdates the calls in the queue. `Due` is all
that is assumed of time: of two delayed calls, the one posted earlier with no
longer a delay fires first. A call may thus fire arbitrarily late or early
against callbacks and taps, which covers more than real clocks do.
`app.armed`, `app.lost`, `app.asks` and a call's `send` are history. One window
is modelled; the Notes agent is a second frame with its own slots.

**ToolBroker.** An action is one critical section of `condition`, or one
socket operation outside it. The request a thread carries from `wait_for` to
`sendall` is `threadReq`; the socket and HTTP peers may answer any request they
were handed, late or repeatedly. Request ids stand for their request and outcome.

**ChatSessions.** A command, or the end of a turn, runs between two awaits and
is one action with its save. `Save` has three outcomes: both files written;
an `OSError`, logged, after nothing or one file was written; or a crash between the
two writes, which ends the process, its connections and its `codex` children.
A file's rename is atomic (`os.replace` of a temporary file).

**InkNote.** A request is a note and a page, its handler a thread with a `step`
between two critical sections of the ink lock: `check` the entry, `save` the page's
file, `submit` the reading, append the future or answer. `device` is the Newton: it sends a
note's pages, and may give the note up at any time, since its watchdog and its
radio do; the threads and workers of the old note go on. A picture is the note it
was drawn from and a reading is the picture its worker found, so a reading of the
wrong page is visible in `shown`. `crossed` is history: what was left of
older notes when a note began. Where `ToolBroker`, of the same source file, has the plain
name, `InkNote` says `InkInit`, `InkNext`, `AnswerNote` and so on: the two are proved
about in one module.

**AgentWorkspace.** `agent[a]` is one MCP process and its call, cut at every point where
files are half done: the steps of `create_project`, an open `Main.newt`, the output of
`tntk`, the temporary copy. A process serves one call at a time, but the process of a turn
that timed out lives on next to the next one. `fd` follows an open file through renames
(`Moved`), as POSIX does. `overlap` is history: the names that two processes have
worked on together; the properties are about all others. `told` is the promise a
build made to its agent. A package is who it was built from, which version of
`Main.newt`, whether with its own identity, and whether all of it is there. Nothing
keeps a project from being called like the template (`hello`), nor like the client's own
package, which the publisher serves under two names whatever is staged (`Configured`): the
Dock installer takes the staged file (`Sent`), a GET of those two names does not (`Fetched`).

**NsEval.** One action is one `podman` call or one file operation of `run()`. `Leave` is
every way out that keeps the marker: deadline, failure, kill. The emulator's side
is in a patch of the container and is modelled from it: evals queue up, each removes the
result file when accepted and appends what it prints. An eval may print a line that looks
like a whole answer; `uncovered` records that, a line printed by anything else while a
process polls (`PrintOther`: every line the guest prints goes to the file), an eval over
HTTP, which has no lock, and a restart between reading the start time and sending.

**DockDump.** `phase` is the packet or the file a run comes to next, so an action is one
answer of the Newton or one file. `ListIds` has the code's checks of a resumed
directory. A file cut short, or created and left empty, is `cut`; `Kill` may strike before
or amid each write, and a `.json` whose text cannot be encoded is left empty
(`Unencodable`).
The Newton's soups change only between runs, because a docked Newton shows its
connection slip.

## 3. Runs

| Run | Bounds | Checks |
|---|---|---|
| `tool_broker` | 1 caller, 3 connections, 3 requests | type, `Correlated`, `ImplementsService` |
| `tool_broker_many` | 2 callers, 2 connections, 3 requests | `PendingHasItsCaller`, `OutcomeHasItsCaller`, `EveryCallReturns` |
| `native_link` | 2 prompts, 2 dials, 1 resend, 1 progress frame a turn, prompts of 1 or 2 parts, replies of 1 or 2 lines | `RepliesShownOnce`, `PromptsRunWhole`, `DeliversInOrder`, `TurnsEnd` |
| `native_peer` | 4 frames out of nine kinds, 1 resend, no host resend, 1 progress frame | type, `RunsWhatWasAccepted`, `AppliesOnce`, `TurnsClosed` |
| `newton_radio` | 2 taps, host requests and progress lines together, 1 failure, 2 strips a note | type, `OneWatchdog`, `LinkUnderTools`, `QuitDropsAll`, `HeldRadioWillExpire`, `IdleAfterLastHold`, `EarlierWatchdogsHarmless` |
| `chat_sessions` | 1 connection at a time, 3 turns, 3 sessions, 1 model, 1 crash in a save, 1 failed save | `OneThreadPerSession`, `RegistryNeverAhead`, `HistoryGrows`, `OrdinalsStable` |
| `chat_turns` | 2 connections, 3 turns, 1 session | `EveryPromptGetsItsTurn` |
| `chat_shared` | 2 connections, 2 turns, 2 sessions | `OrdinalsStable` is violated (finding) |
| `ink_note` | 3 notes of 2, 2 and 1 pages, 2 workers | `ReadsItsPages`, `RefusedOnlyIfCrossed`, `NoteEnds` |
| `agent_workspace` | 2 processes, 3 projects (one named like the template, one like the client's package), 4 calls, 1 kill, up to symmetry | type, `NewtonGetsWhole`, `ReportedIsCurrent` |
| `ns_eval` | 4 processes, 1 HTTP request, 3 starts of the emulator, 2 pieces in the result file | type, `OwnAnswer`, `RefusedUntilRestart` |
| `dock_dump` | 4 runs, 2 kills, 1 change of a soup, 2 stores with 3 soups and 4 entries | `Sequential`, `JsonMeansWhole`, `InPlace`, `FilesKept`, `ManifestComplete` |

**Why these bounds are enough to be interesting.** One resend is what makes an
ACK stale: a second only repeats the situation. Two parts are the least that
can be interrupted, two prompts the least that can be merged, two dials the
least after which state of an old connection can matter. In `native_peer` four
frames are HELLO, then three parts, which exceed the limit of two chunks, or a
part, an abandoned prompt and a new one. In `chat_sessions` three sessions let
one be created after another was left with unsaved turns, and a fault of each
kind can hit any save. In `newton_radio` two taps are what it takes
for an old delayed call, hold or endpoint to meet a newer one (chat and note, note
and request, note and note), and one failure anywhere reaches every retry path; random walks
with four taps and three failures find nothing more. In `tool_broker` three connections let one be replaced
twice while the first thread still holds a request. In `ink_note` the second note meets
what is left of the first, and the third, of a single page, goes the other way through
the code and must not be disturbed by either; two workers let the pages of an abandoned
note fill the pool. In `agent_workspace` four calls are two `create_project` and two builds,
or one project's creation, edit and build with a call that disturbs them; a kill may leave
either project half made. In `ns_eval` a process that
died, one that finds its marker, one that holds the lock and one that is refused exist
at once, before and after a restart; a third start tells an old marker from a current one.
In `dock_dump` four runs are two that are killed, one that loses the Newton
and one that finishes; an empty soup comes from a deletion.

**What bounds cut off.** Requests, prompts, dials, frames, turns, sessions, calls, runs and
faults are capped in the guards of the actions that create them, each cap being
a constant named `Max...`. The wrap of the sequence
numbers is beyond every run; `NeverTwice` (below) covers it.

`CHECK_DEADLOCK` is off in every configuration, because a bounded system
really stops: no prompts, dials or requests are left and nothing is in flight.

### Fairness

* `ToolBroker`: a waiting caller eventually wakes or times out (`wait_for` has a
  deadline, and the lock is not held across a wait). Nothing of the Newton.
* `NativeLink`: each event loop keeps running: buffered lines are read, frames
  written, `backend.chat` ends (`CODEX_TIMEOUT`), the dial succeeds or fails, and
  the end of a stream is noticed. No fairness for timeouts, taps or losses.
* `ChatSessions`: the lock's next holder is resumed and its agent ends.
* `InkNote`: handler threads run, free workers take readings, and a reading ends
  (`INK_TIMEOUT`). Nothing makes the Newton give a note up.

`AgentWorkspace`, `NsEval` and `DockDump` state no fairness: their properties are about
what may never happen, and all of these processes may be killed.

### Findings

Run `chat_shared` shows a divergence, quoted in `PROJECT.json`: an older connection's
save removes or replaces sessions a newer one created, against
`docs/chat-commands.md:33`.

Noticed while modelling: nine more statements of the repository which the code does not
keep. Each is a definition of its module which TLC finds violated when it is
added to the named configuration.

| Definition | Add it to | The repository says | The code does |
|---|---|---|---|
| `AppliedOnce` | `NativeLink.cfg` | a receiver applies a repeated frame only once (`docs/phase3-protocol.md:79`) | `HandleLine` applies every frame, so a line of a reply is doubled |
| `EarlierCallsHarmless` | `NewtonRadio.cfg` | every earlier delayed call is harmless (`Main.newt:2626`) | the delayed `InkStop` of a note that timed out disposes the next note's endpoint (`Main.newt:2917`) |
| `OneAgentAtATime` | `ChatTurns.cfg` | one agent turn at a time (`server.py:691`) | a failed progress frame leaves codex running beside the next turn's (`server.py:627`) |
| `Correlated` | `ToolBrokerMany.cfg` | a request is "correlated with its eventual outcome" (`pkg_publisher.py:82`) | a second call may be submitted before the first caller has woken, and the outcomes cross (`pkg_publisher.py:106`) |
| `NewStreamAccepted` | `InkNote.cfg` | a new part 1 resets an abandoned stream (`docs/ef9-ink-pagination.md:23`) | the last page's thread of the abandoned note, when its readings end, removes the new note's entry, and the new note's next page is refused |
| `NeverPartial` | `AgentWorkspace.cfg` | the Newton cannot read a partially copied package (`docs/agent-package-download.md:42`) | two processes copy to one `.pkg.tmp`: the first to finish publishes what the second is writing |
| `EveryReportStands` | `AgentWorkspace.cfg` | `build_pkg` publishes a successful build under its filename for the Newton Loader (`newton_mcp.py:785`) | a half-made project builds as the template, and replaces the reported package of a project of that name (`newton_mcp.py:532`); a GET of the client's package names is answered with the client (`pkg_publisher.py:635`) |
| `OwnAnswerAlways` | `NsEval.cfg` | a retry cannot consume an old request's result (`docs/emulator-nseval-wedge.md:116`) | an eval over HTTP takes no lock, a text printed before its eval is over looks complete, and other programs print into the same file |
| `EveryEntryExported` | `DockDump.cfg` | `--dump` exports every soup entry (`newton_backup.py:396`) | a run killed while it writes an `.nsof` leaves it cut short; a resumed run counts it and goes on, and its `.json` is never written |

Noticed in `AgentWorkspace` besides: `create_project` that is killed leaves a directory that
refuses the name for good, and whose builds fail, or are published under the template's
name, or under its own with the template's identity. In `DockDump`: `written` is set to the number of ids
after the loop (`newton_backup.py:357`), so the warning of line 359 about a soup
that is not complete cannot be printed.

Noticed in `NewtonRadio`, without a run of their own, because no text promises
otherwise: the `Stop` that `Failed` posts ends a session dialled within that second,
drops its prompt and leaves the radio held (`app.lost` marks this); a request the
host gives up on leaves `toolID` set, and the radio held, until a ping replaces it;
`RadioExpired` during a dial drops the pending prompt; `Connect` begins by
disposing a live ink POST, which then keeps `inkBusy` until its watchdog; a second
grab while the first is under way leaves one grant unreleased; `ToolResume` looks at
the chat's `stopping` (against `Main.newt:2985`), so a stopped chat ends the
tools channel too; `PkgFinish` answers under whatever id is current.

Noticed in the native chat: after a progress frame that was never
acknowledged, STAT ERROR reuses its sequence number, so one number names two
frames; after STAT ERROR the client may send while an earlier frame of its own
is unanswered (both against `docs/phase3-protocol.md:79`); and `text_parts` passes
`*` through, which `docs/phase3-protocol.md:45` says the host must not emit. And a frame that
follows as many refused ones (BUSY) as there are sequence numbers but one has the number
`last_rx` still holds: it is acknowledged as a repeat and never runs (with
`SeqSpace` 2, `MaxPrompts` 4 and one dial TLC shows it; no text says how far a number carries).

## 4. Proofs

Eight modules hold theorems, apart from the modules they are about.

**PublisherProofs**, the broker (any callers, connections, ids):

* `TypeCorrect`: `Spec => []TypeOK`.
* `PendingOwned`, `OutcomeOwned`: a pending request, and an accepted outcome, always
  belong to a caller still waiting inside `submit`, for **any number** of callers.
  The two are inductive only together, and with the types (`SlotsOwned`): accepting
  an answer moves the id from `pending` to `outcome`, so the owner of the one is the
  owner of the other, and a time-out must clear both because either may be its own.
* `CorrelatedAlone`, `Implements`: with one caller, an outcome is the caller's own,
  and the broker implements `ToolService`. They need `Provenance` as well: ids in
  use were issued, a thread that awaits a reply has sent its request, and an
  accepted outcome was asked of the Newton. The premise of a single caller is
  necessary: with the two callers of `ToolBrokerMany.cfg` TLC finds `Correlated` violated.

**PublisherProofs**, the notes (any notes of any number of pages, any pool; from
`PagesAssumption`, and `NoEntryAssumption` that no entry looks like none):

* `InkTypes`: `InkSpec => []InkTypeOK`. It is not inductive alone: what a thread appends must be
  a page it has submitted (`Stepped`).
* `ReadsOwn` (`ReadsItsPages`), `NotSpoiled` (`RefusedOnlyIfCrossed`). Nothing in the code ties the
  entry and the page files to a note, so the invariant says why a thread still
  finds its own there. `Placed`: nothing is of a note to come, and the current note has one
  thread. `Current`: if no older thread had still to draw or to append when the note
  began (`Clean`), the older threads only wait (`Tidy`), so they can no more than drop the
  entry; the current thread then finds the entry it has left, with the pages before its own in order
  (`Leading`), or none; the file it drew; and, when it waits, the futures of all its pages
  (`Own`). A reading of the note is taken from that file, however late the worker (`Kept`). If no
  older thread was left at all, none drops the entry, and no page is refused.
  `Clean` alone is not enough for that: `NewStreamAccepted` is refuted by TLC (see Findings).

**NativePeerProofs** (any number of frames, parts, retries, chunks, any size of the
sequence space):

* `TypeCorrect`: the handler's registers stay in range and the MSGP buffer never
  exceeds `MAX_PROMPT` nor the announced number of parts. The inductive invariant
  `TypeInv` adds the types of both channels and of the histories, and `Sane`: a
  handler that sends has something left to send and an attempt left, without which
  `Transmit` could count one attempt too many.
* `NeverTwice`: `Spec => []AppliesOnce`. `AppliesOnce` is not inductive: nothing in it
  says that a copy still under way is not older than the last accepted frame, nor
  that `last_rx` belongs to that frame. `OnceInv` adds both: frames under way are in
  the order the peer made them (`Ordered`), accepted ones too, none newer than
  what is still to be read, and `lastRx` is the number of the last of them
  (`Remembered`). Every host step either accepts the head of its input, and only if its number differs
  from `lastRx` (`Takes`), or leaves accepted frames and `lastRx` alone (`Passes`).
  So the wrap of the sequence numbers is harmless for a client that keeps the rules.
* `TurnsAreClosed` (`TurnsClosed`): a turn is closed by one PROMPT, its lines in order,
  before the next frame is accepted. `Orderly` relates the handler to what it has sent: a frame
  written for the first time may follow the last one sent, a frame written again is the
  last one sent, and what is left in `todo` is a `Script`, a row of frames that
  may follow each other and that ends where `after` goes on: closed for `idle`,
  inside the turn for `agent`. The failed turn needs the most care, since its STAT ERROR may
  follow a progress frame that was given up.
* `RunsAccepted` (`RunsWhatWasAccepted`): the prompts that run are those of the accepted
  frames. `Buffered` says that the parts buffer holds the last frames accepted,
  numbered 1 to k of one total; `Runs` that each accepted frame that ends a prompt
  has its run, in order. Counting those frames is counting a finite set that a
  frame accepted extends by at most one (`Ends`).

The first attempt at `TurnsClosed` failed on the definition, not on the code: `Follows`
was a CASE whose guards overlapped (READY of turn 0 closes, READY of a turn opens), and
of an overlapping CASE nothing can be proved. TLC took the first branch that held. It is a
disjunction now.

**NativeLinkProofs** (any sequence space, retries, replies, prompts and connections; from
`NativeLinkAssumption` besides the assumptions of the parts):

* `InOrder` (`DeliversInOrder`): the refinement of `ReliableLink`. What the client applied is a
  prefix of what was sent (`Prefix`), and what is still under way is a walk (`Way`)
  over the frames sent: from the last one applied on, each frame on the wire is the one before
  it or its successor, up to the last one sent. The walk stays one because `send_frame` writes
  a new frame only behind the last. That the client's step is the abstract one, or a stutter,
  needs that neighbours differ (`Numbered`): by sequence number, or, after a
  progress frame given up, because the second is the STAT ERROR with the same number.
* `ShownOnce` (`RepliesShownOnce`): a reply in the transcript is a run of lines of one turn, in
  order and without a gap, and no turn is shown twice or late. The run may start late, since Send
  clears what was gathered (`Main.newt:1695`); that no frame before the PROMPT was skipped is
  `InOrder`. `ReplyInv` carries to the client what the host says: frames
  follow each other (`Talk`), turns only rise and a PROMPT is of a turn
  before any whose lines come behind it (`Turns`), the reply being gathered is of the turn of
  the last frame applied and ends at its part (`Drafted`), and a shown turn is over (`Past`).
  Repeats are allowed for: `HandleLine` doubles a resent line, as `RepliesShownOnce` says.
* `PromptsWhole` (`RunsAsIssued`): a prompt runs as the user issued it, once, and none after a
  later one. `RunsAsIssued` is about `issued` and `ran` only; what lies between is in `PromptInv`.
  The frames on the way to the host are parts of prompts, in order, and behind each comes the
  next part, or a first part, or nothing but what the client writes next (`Queued`, `Linked`);
  what the host has stored is the front of a prompt that has not run, with the frame that
  continues it the next one on the way (`Holding`); what the client uploads or keeps for a
  reconnect is the prompt issued last (`Pacing`); until the first READY there is only HELLO
  (`Greeting`), since a prompt kept for a reconnect must not meet frames of the old
  connection. Sequence numbers play no part: prompts are whole however small the sequence space.
* `PromptsRun` (`PromptsRunWhole`): besides, a prompt whose last part was acknowledged did run
  (`AckedPromptRan`). An ACK is a bare number, so here the numbers matter:
  `Numbering` says that the frames under way are numbered upwards from behind `last_rx`, that
  an ACK names a frame the host has taken, and that the draft is the last number written. The
  premise `NumbersSuffice`, `LongParts * MaxPrompts + 1 < SeqSpace`, keeps a
  connection from coming round to a number it has used, and it cannot be dropped altogether
  (see "Noticed in the native chat"). `NativeLink.cfg` satisfies it.

**NewtonRadioProofs** (any number of strips, taps, requests and failures):

* `TypeCorrect`, `LinkOutlivesTools` (`LinkUnderTools`), `QuitDrops` (`QuitDropsAll`),
  `OffWhenIdle` (`IdleAfterLastHold`), `WatchedOnce` (`OneWatchdog`), `WatchdogOfItsNote`
  (`EarlierWatchdogsHarmless`). Methods call each other three or four deep,
  so there is one lemma per method (`StopKeeps`, `ToolStartKeeps`, ...): from a frame
  that is `Sound` it leaves a `Sound` frame, and of the frame the step began with
  what `Follows` lists; `Keeps` is the two together. A step of `Next` is then one method.
* The inductive invariant `IInv` is `Sound(app)` with the budget and `QuitDropsAll`.
  `Sound` has the three parts of `LinkUnderTools` (`Linked`, `Granted`, `Stopped`) for
  every intermediate frame, and what none of the properties says. `Armed`: a current
  `RadioExpired` was queued after the last hold, because `RadioHold` outdates the
  earlier ones. `OneChain` and `Tended`: two `ToolWatch` calls are never queued together,
  one is queued while the channel is connected (`Ticks`), and it has missed at most two ticks,
  without which the count of the next has no bound. `Fresh`: a current `InkExpired` is of
  the note being sent. `Counted` bounds what `app.asks`, which stands for the ink ticket,
  can reach.
* `HeldRadioEnds` (`HeldRadioWillExpire`): a held radio always has something under way that ends by
  starting the idle timer. It is not inductive: the eight ways it names hand over to each other, and
  each must be shown to have a successor when it ends. `Ending` has three parts on top of `IInv`.
  `Awaits`: an idle timer, a note, a delayed `InkStop` or a request (`Expires`), or a dial at some
  stage together with the slots that make its next callback go on (`Dials`). `Talks`: a session that
  is ready or in flight has an endpoint, so its end comes through a callback. `Calm`: a note
  has its watchdog; Stops are due in one second (`StopsSoon`); and a `Stop` still to come has the idle
  timer behind it in the queue (`TimerBehindStop`), which by `Due` fires later. The
  last is the crux: `Failed` posts `Stop` and `Stop` ends every other reason.
  Every method has a second lemma, that it leaves `Ending` (`...Ending`), or that it changes nothing
  `Ending` looks at (`...Quiet`).

**NsEvalProofs** (any processes, HTTP requests, starts and pieces):

* `Types`: one process at a time is between `flock` and its end.
* `ClearIdle`, `Refused` (`RefusedUntilRestart`), `OwnText` (`OwnAnswer`). The argument is one invariant about
  what may still print: while the guard has not been bypassed, an eval in the queue
  belongs to the holder of the lock who polls, or else the marker names this start.
  Hence no process sends while an answer is owed, so what
  is in the result file when it is read was printed by the reader's own eval.
  `uncovered` is the premise of all three, and is set in no other case than the four
  named above.

**AgentWorkspaceProofs** (any processes, calls and kills; any projects, whatever their names,
and any configured names; `NamesAssumption` only keeps `None` apart):

* `Types`, `WholePackages` (`NewtonGetsWhole`), `ReportsStand` (`ReportedIsCurrent`). None is inductive. `Inv`
  says for every process how far its call has come: whose output is in the project, under
  which name, what the temporary file holds (`Progress`), in a project nobody else works on.
  Two facts make that stable. `Apart`: outside `overlap`, a project has one process and a
  name one open file; and a project enters `overlap` only with the template's
  name, because a half-made project builds under that name. `Published`: a report
  stands only while no process is on the project, so nothing but a new call can
  change its source or output, and other projects stage under other names; only the
  template's name may be staged by a half-made project, so of a project of that name the
  property speaks of packages of its own.

**DockDumpProofs** (any stores, soups and entries, any number of runs, changes and kills):

* `NoGaps` (`Sequential`), `JsonTells` (`JsonMeansWhole`), `StaysInPlace` (`InPlace`), `NothingReplaced`
  (`FilesKept`), `ManifestTrue` (`ManifestComplete`). The invariant has a part about the disk, which every kill must
  leave true, and a part about the run: the soups it has passed, in the order of `Beyond`, have the
  files that were counted (`Tidy`), the one being read has as many as `written` says
  (`Reading`), and without `--resume` those to come have none, because an existing directory
  was refused. `Sequential` needs the last, since such a run counts from zero; `ManifestComplete`
  needs the order, and that a kill cuts one file at most (`FewCuts`).

**ChatSessionsProofs** (any number of sessions, turns, models, crashes and failed saves; one
connection at a time, the premise `OneConnection` of all four, which the server does not
enforce; and a codex that is resumed stays on its thread):

* `NeverAhead` (`RegistryNeverAhead`), `OneThread` (`OneThreadPerSession`),
  `NothingForgotten` (`HistoryGrows`), `SameOrdinals` (`OrdinalsStable`: file, turns and
  thread). The invariant says what a connection may save (`Good`): its registry has
  grown from the one on disk (`Grown`), no entry claims more than its transcript holds
  (`Fits`), and, while no save failed or was cut, each entry agrees with its transcript
  (`Exact`) and files without an entry are blank, so that a new session starts on an
  empty file. `SaveKeeps` shows once that saving a `Good` context, failing to, or dying
  half way keeps the invariant and loses nothing (`Steady`); each command and turn then
  has a lemma that what it saves is `Good`. The premise is necessary: with the
  two connections of `ChatShared.cfg` TLC finds each of the four violated.

**Only model-checked.** Liveness under fairness (`EveryCallReturns`, `TurnsEnd`,
`EveryPromptGetsItsTurn`, `NoteEnds`) and ENABLED, which the prover does not support. Every
safety invariant that a passing run checks is a theorem. Of the ten statements under Findings
nothing is proved: TLC refutes them.

## 5. Not modelled

* Half lines: `FRAME_TIMEOUT` cancels `read_wire_line`, and bytes read so far may be
  lost. Lines are atomic in `Wire`.
* Old handlers that still run after the Newton hung up: in `NativeLink` they
  count as closed at once (what they write reaches nobody); their effect on files
  and `TURN_LOCK` is in `ChatSessions` with two connections.
* Names, ages and list layout of sessions; `effort`, which follows `model`.
* The parsing of codex's event stream; `FakeBackend`, a test double. A codex that is resumed is
  taken to stay on its thread: `_parse` would accept another (`server.py:652`).
* Stores and soups that appear or go between two runs of the backup: their numbers, and so the
  directories, would shift under a resumed run (`newton_backup.py:338`).
* Favorites and server discovery (user interface state), note export (one document, replaced
  atomically), the page and the status text, deployment scripts: no protocol state.
* `frame_line`, `parse_frame`, `LineEditor`, `wrap_text`: pure string functions; their effect on a
  frame is the fault it carries, their text is left to the unit tests.
* `ask_model`, the note bridge's client of `native_mode`, which gives up at the first line
  it does not expect.
* The composition of `ToolBroker` with the tools slots of `NewtonRadio`: each is
  checked against any behaviour of the other, but what needs both (an install
  answered under another request's id, a request sent again after the third missed tick) is not.
* MCP tools that pass one call on (screen, mouse, keyboard, soups): no state of their own.
* The Notes agent: `noteAgent` inherits the ink, radio and tools methods and overrides
  `HandleInkLine` and `InkDone`; its own frame, and its use of the window's link, are
  not composed with the window's.
* The encoding of ink pages, the choice of strips, and the timings they report.
* What a tools operation does on the Newton, beyond when it answers.
* The third-party MNP code, the emulator itself, the benches.

## 6. Plan

Done: `ToolBroker`, `NativeServer` with `NativePeer` and `NativeLink`, `ChatSessions`,
`NewtonRadio`, `InkNote`, `AgentWorkspace`, `NsEval`, `DockDump`, and the proofs of section 4.
What would come next, were the code to change there:

1. `ToolBroker` composed with the tools channel of `NewtonRadio`, first without the
   other slots: the product of the two as they stand is too large for TLC.
2. The Notes agent as a second frame of `NewtonRadio`.
3. Half lines in `Wire`, when `read_wire_line` is no longer cancelled in mid-line or a
   text says what should happen.

## 7. Running

    tlc -config NativeLink.cfg MCNativeLink       # any run: cfg and module of PROJECT.json
    tlapm PublisherProofs.tla

A mutant in `PROJECT.json` names a definition and a faulty form of it kept right
before it in the module (for example `Complete` and `CompleteUnchecked`); with the
one replaced by the other TLC finds the property violated.
