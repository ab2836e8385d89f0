---------------------------- MODULE ChatSessions ----------------------------
(***************************************************************************)
(* The session registry, the transcripts and the agent turns of server.py. *)
(* Every TCP connection (native or PT100) loads its own copy of the        *)
(* registry, answers slash commands from it, and runs agent turns under    *)
(* TURN_LOCK; save() writes the current transcript and then the whole      *)
(* registry.  asyncio runs one coroutine at a time, so a command or the    *)
(* end of a turn is one action: only a crash falls between the two writes. *)
(*                                                                         *)
(* Session f is the transcript file session-f.json, 1 being session.json.  *)
(* Names, ages, list layout and `effort` (which follows `model` everywhere)*)
(* are left out.  A thread is named after the turn that started it.        *)
(***************************************************************************)
EXTENDS Integers, Sequences, FiniteSets, SequencesExt

CONSTANTS
    Conns,         \* connections that may be open
    MaxOpen,       \* bound: connections open at the same time
    Models,        \* what /model can choose
    DefaultModel,  \* no model chosen: codex's default
    MaxTurns,      \* bound: agent turns
    MaxFiles,      \* bound: sessions
    MaxCrashes,    \* bound: crashes between the two writes of a save
    MaxFailures    \* bound: saves that raise OSError

ASSUME ChatSessionsAssumption ==
    /\ MaxOpen \in Nat /\ MaxTurns \in Nat /\ MaxFiles \in Nat \ {0}
    /\ MaxCrashes \in Nat /\ MaxFailures \in Nat /\ DefaultModel \notin Models

VARIABLES
    disk,     \* registry and transcript files
    chat,     \* per connection: what handle() is doing, and its Chat object
    queue,    \* holder of TURN_LOCK, then its waiters in order
    procs,    \* codex processes still running
    turns,    \* agent turns started so far
    faults    \* crashes and failed saves so far

vars == <<disk, chat, queue, procs, turns, faults>>

Files == 1..MaxFiles
NoThread == 0
Said(role, turn, thread) == [role |-> role, turn |-> turn, thread |-> thread]
Blank == [thread |-> NoThread, history |-> <<>>]
NewEntry(file) == [file |-> file, thread |-> NoThread, turns |-> 0, model |-> DefaultModel]
NoRegistry == [current |-> 0, sessions |-> <<>>]
Closed == [pc |-> "closed", reg |-> NoRegistry, data |-> Blank]

UserTurns(t) == Cardinality({i \in DOMAIN t.history : t.history[i].role = "user"})

\* A state directory from before the registry may hold a session.json.
OldTranscript ==
    [thread |-> 1, history |-> <<Said("user", 1, NoThread), Said("assistant", 1, 1)>>]

Init ==
    /\ \E first \in {Blank, OldTranscript} :
           /\ disk = [registry |-> NoRegistry,
                      files |-> [f \in Files |-> IF f = 1 THEN first ELSE Blank]]
           /\ turns = IF first = Blank THEN 0 ELSE 1
    /\ chat = [c \in Conns |-> Closed]
    /\ queue = <<>>
    /\ procs = {}
    /\ faults = [crashes |-> 0, failures |-> 0]

-----------------------------------------------------------------------------
(* Chat and its registry.                                                  *)

Entry(ctx) == ctx.reg.sessions[ctx.reg.current]
SetEntry(ctx, e) == [ctx EXCEPT !.reg.sessions[ctx.reg.current] = e]

\* _adopt: without a registry, session.json is session 1.
Adopted ==
    [current |-> 1,
     sessions |-> <<[NewEntry(1) EXCEPT !.thread = disk.files[1].thread,
                                        !.turns = UserTurns(disk.files[1])]>>]

Load == IF disk.registry = NoRegistry THEN Adopted ELSE disk.registry

SwitchKeepingTranscript(ctx, i) == [ctx EXCEPT !.reg.current = i]

\* switch: the transcript is read again from its file.
Switch(ctx, i) ==
    [ctx EXCEPT !.reg.current = i, !.data = disk.files[ctx.reg.sessions[i].file]]

StartAtFront(ctx) ==
    LET used == {ctx.reg.sessions[i].file : i \in DOMAIN ctx.reg.sessions}
        file == CHOOSE n \in Files : n \notin used
    IN  Switch([ctx EXCEPT !.reg.sessions = <<NewEntry(file)>> \o @], 1)

\* start: the first number past the end that no entry of this copy uses.
Start(ctx) ==
    LET used == {ctx.reg.sessions[i].file : i \in DOMAIN ctx.reg.sessions}
        last == Len(ctx.reg.sessions) + 1
        file == CHOOSE n \in last..(last + Len(ctx.reg.sessions)) :
                    n \notin used /\ \A m \in last..(n - 1) : m \in used
    IN  Switch([ctx EXCEPT !.reg.sessions = Append(@, NewEntry(file))], last)

TranscriptWritten(ctx) == [disk EXCEPT !.files[Entry(ctx).file] = ctx.data]

HalfWrittenRegistryFirst(ctx) == [disk EXCEPT !.registry = ctx.reg]
\* What a crash between the two writes of save leaves.
HalfWritten(ctx) == TranscriptWritten(ctx)

AllWritten(ctx) == [TranscriptWritten(ctx) EXCEPT !.registry = ctx.reg]

\* The process ends: connections, the lock and the codex children go with it.
ProcessDies ==
    /\ chat' = [c \in Conns |-> Closed]
    /\ queue' = <<>>
    /\ procs' = {}

\* save() of connection c, whose handler goes on idle: it succeeds, raises an
\* OSError that is logged (leaving one of `partial`), or is cut by a crash.
Save(c, ctx, partial, agents) ==
    \/ /\ disk' = AllWritten(ctx)
       /\ chat' = [chat EXCEPT ![c] = [ctx EXCEPT !.pc = "idle"]]
       /\ queue' = SelectSeq(queue, LAMBDA d : d # c)
       /\ procs' = agents
       /\ UNCHANGED faults
    \/ /\ faults.failures < MaxFailures
       /\ disk' \in partial
       /\ chat' = [chat EXCEPT ![c] = [ctx EXCEPT !.pc = "idle"]]
       /\ queue' = SelectSeq(queue, LAMBDA d : d # c)
       /\ procs' = agents
       /\ faults' = [faults EXCEPT !.failures = @ + 1]
    \/ /\ faults.crashes < MaxCrashes
       /\ disk' = HalfWritten(ctx)
       /\ ProcessDies
       /\ faults' = [faults EXCEPT !.crashes = @ + 1]

AnyPartial(ctx) == {disk, HalfWritten(ctx)}

-----------------------------------------------------------------------------
(* Connections and slash commands.                                         *)

Open(c) ==
    /\ chat[c].pc = "closed"
    /\ Cardinality({d \in Conns : chat[d].pc # "closed"}) < MaxOpen
    /\ chat' = [chat EXCEPT ![c] =
                   [pc |-> "idle", reg |-> Load,
                    data |-> disk.files[Load.sessions[Load.current].file]]]
    /\ UNCHANGED <<disk, queue, procs, turns, faults>>

\* Nothing but memory is lost when a handler ends.
Close(c) ==
    /\ chat[c].pc = "idle"
    /\ chat' = [chat EXCEPT ![c] = Closed]
    /\ UNCHANGED <<disk, queue, procs, turns, faults>>

Command(c, ctx) ==
    /\ chat[c].pc = "idle"
    /\ Save(c, ctx, AnyPartial(ctx), procs)
    /\ UNCHANGED turns

Untouched(ctx) == Entry(ctx).thread = NoThread /\ Entry(ctx).turns = 0

\* /new with a name, or bare /new on a session that was used.
CmdNew(c) ==
    /\ chat[c].pc = "idle"
    /\ Len(chat[c].reg.sessions) < MaxFiles
    /\ Command(c, Start(chat[c]))

\* Bare /new on an untouched session: reset() writes the blank transcript, and
\* an OSError there is not caught by command() but ends the handler.
CmdNewResets(c) ==
    /\ chat[c].pc = "idle"
    /\ Untouched(chat[c])
    /\ LET ctx == [chat[c] EXCEPT !.data = Blank]
       IN  \/ Save(c, ctx, {TranscriptWritten(ctx)}, procs)
           \/ /\ faults.failures < MaxFailures
              /\ faults' = [faults EXCEPT !.failures = @ + 1]
              /\ chat' = [chat EXCEPT ![c] = Closed]
              /\ UNCHANGED <<disk, queue, procs>>
    /\ UNCHANGED turns

CmdResume(c) ==
    /\ chat[c].pc = "idle"
    /\ \E i \in DOMAIN chat[c].reg.sessions : Command(c, Switch(chat[c], i))

CmdModel(c) ==
    /\ chat[c].pc = "idle"
    /\ \E m \in Models :
           Command(c, SetEntry(chat[c], [Entry(chat[c]) EXCEPT !.model = m]))

\* /help, /status, /sessions, a refused selector: only the save.
CmdShow(c) == chat[c].pc = "idle" /\ Command(c, chat[c])

-----------------------------------------------------------------------------
(* Agent turns.                                                            *)

\* The prompt is read; asyncio.Lock serves its waiters in order.
AskForTurn(c) ==
    /\ chat[c].pc = "idle"
    /\ chat' = [chat EXCEPT ![c].pc = "queued"]
    /\ queue' = Append(queue, c)
    /\ UNCHANGED <<disk, procs, turns, faults>>

\* record("user"), then codex: resumed on the thread of the registry entry, or
\* on a new thread.
StartAgent(c) ==
    /\ turns < MaxTurns
    /\ LET ctx == chat[c]
           turn == turns + 1
           thread == IF Entry(ctx).thread = NoThread THEN turn ELSE Entry(ctx).thread
           asked == SetEntry(ctx, [Entry(ctx) EXCEPT !.turns = @ + 1])
       IN  /\ chat' = [chat EXCEPT ![c] =
                          [asked EXCEPT !.pc = "turn",
                                        !.data.history = Append(@, Said("user", turn, NoThread))]]
           /\ procs' = procs \union {[conn |-> c, turn |-> turn, thread |-> thread]}
           /\ turns' = turn
    /\ UNCHANGED <<disk, queue, faults>>

\* The waiter at the head of the queue holds TURN_LOCK.
BeginTurn(c) == chat[c].pc = "queued" /\ Head(queue) = c /\ StartAgent(c)

Running(c, p) == chat[c].pc = "turn" /\ p \in procs /\ p.conn = c /\ p.turn =
                     chat[c].data.history[Len(chat[c].data.history)].turn

AnsweredForgetting(ctx, p) ==
    [ctx EXCEPT !.data.history = Append(@, Said("assistant", p.turn, p.thread))]

\* remember_thread and record("assistant").  chat() would also take over another
\* thread id than the one it resumed; that `codex exec resume` reports the thread
\* it was given is assumed here.
Answered(ctx, p) ==
    LET kept == SetEntry(ctx, [Entry(ctx) EXCEPT !.thread = p.thread])
    IN  [kept EXCEPT !.data.thread = p.thread,
                     !.data.history = Append(@, Said("assistant", p.turn, p.thread))]

EndTurn(c, ctx, agents) ==
    /\ Save(c, ctx, AnyPartial(ctx), agents)
    /\ UNCHANGED turns

AgentAnswers(c) ==
    \E p \in procs :
        /\ Running(c, p)
        /\ EndTurn(c, Answered(chat[c], p), procs \ {p})

\* codex failed, said nothing usable, or was killed at CODEX_TIMEOUT.
AgentFails(c) ==
    \E p \in procs :
        /\ Running(c, p)
        /\ EndTurn(c, chat[c], procs \ {p})

ProgressLostHolding(c) ==
    \E p \in procs :
        /\ Running(c, p)
        /\ chat' = [chat EXCEPT ![c] = Closed]
        /\ UNCHANGED <<disk, queue, procs, turns, faults>>

\* The progress callback raised ConnectionError: chat() ends with it, the lock
\* is released, and nobody kills or waits for the codex process.
ProgressLost(c) ==
    \E p \in procs :
        /\ Running(c, p)
        /\ EndTurn(c, chat[c], procs)

\* A codex process nobody waits for ends by itself.
OrphanExits ==
    /\ \E p \in procs : ~Running(p.conn, p) /\ procs' = procs \ {p}
    /\ UNCHANGED <<disk, chat, queue, turns, faults>>

\* The server is stopped or crashes outside save().
Restart ==
    /\ ProcessDies
    /\ UNCHANGED <<disk, turns, faults>>

Commands(c) == CmdNew(c) \/ CmdNewResets(c) \/ CmdResume(c) \/ CmdModel(c) \/ CmdShow(c)
Turn(c) == BeginTurn(c) \/ AgentAnswers(c) \/ AgentFails(c)

Next ==
    \/ \E c \in Conns : Open(c) \/ Close(c) \/ Commands(c) \/ AskForTurn(c)
                        \/ Turn(c) \/ ProgressLost(c)
    \/ OrphanExits \/ Restart

Spec == Init /\ [][Next]_vars

\* The event loop resumes whoever gets the lock, and codex ends or is killed.
FairSpec == Spec /\ \A c \in Conns : WF_vars(Turn(c))

-----------------------------------------------------------------------------
(* Properties.                                                             *)

Threads == 0..MaxTurns
Transcripts ==
    [thread : Threads,
     history : Seq([role : {"user", "assistant"}, turn : 1..MaxTurns, thread : Threads])]
Registries ==
    [current : 0..MaxFiles,
     sessions : Seq([file : Files, thread : Threads, turns : 0..MaxTurns,
                     model : Models \union {DefaultModel}])]

\* The Session object of a connection always belongs to its current entry.
TypeOK ==
    /\ disk \in [registry : Registries, files : [Files -> Transcripts]]
    /\ chat \in [Conns -> [pc : {"closed", "idle", "queued", "turn"},
                           reg : Registries, data : Transcripts]]
    /\ procs \subseteq [conn : Conns, turn : 1..MaxTurns, thread : 1..MaxTurns]
    /\ \A c \in Conns : chat[c].pc \in {"queued", "turn"} <=> \E i \in DOMAIN queue : queue[i] = c
    /\ \A c \in Conns : chat[c].pc # "closed" => chat[c].reg.current \in DOMAIN chat[c].reg.sessions

Faultless == faults.crashes = 0 /\ faults.failures = 0

\* With one connection at a time, and as long as no save failed or was cut, no
\* transcript on disk ever loses an entry: not to /new, /resume, a failed turn,
\* a reconnect or a restart.
HistoryGrows ==
    [][Faultless =>
          \A f \in Files : IsPrefix(disk.files[f].history, disk'.files[f].history)]_vars

\* With one connection at a time, and as long as no save failed or was cut,
\* every answer in a transcript was given on one codex thread: the agent
\* remembers what the transcript shows, across /resume, reconnects and restarts.
OneThreadPerSession ==
    Faultless =>
        \A f \in Files :
            LET h == disk.files[f].history
            IN  \A i, j \in DOMAIN h :
                    h[i].role = "assistant" /\ h[j].role = "assistant" => h[i].thread = h[j].thread

\* "the number is the session's registry ordinal -- stable, so `/resume 1`
\* always means the same session" (docs/chat-commands.md:33): an ordinal on
\* disk keeps its file, counts no fewer turns than before, and a thread that
\* was started stays its thread.  (For one connection at a time; the server
\* admits more, and then the claim is wrong: ChatShared.cfg.)
OrdinalsStable ==
    [][\A i \in DOMAIN disk.registry.sessions :
          LET old == disk.registry.sessions[i]
              new == disk'.registry.sessions[i]
          IN  /\ i \in DOMAIN disk'.registry.sessions
              /\ new.file = old.file /\ new.turns >= old.turns
              /\ old.thread # NoThread => new.thread = old.thread]_vars

\* With one connection at a time, and whatever a crash cuts a save into, the
\* registry on disk never claims a turn or a thread that the transcript file does
\* not hold.  (Once a save has raised an OSError this is lost: /resume drops the
\* unwritten transcript from memory and then saves the registry that counts its
\* turns.)
RegistryNeverAhead ==
    faults.failures = 0 =>
        \A i \in DOMAIN disk.registry.sessions :
            LET e == disk.registry.sessions[i]
                t == disk.files[e.file]
            IN  /\ e.turns <= UserTurns(t)
                /\ e.thread # NoThread => e.thread = t.thread

\* A prompt that waits for TURN_LOCK gets it, however other turns end.
EveryPromptGetsItsTurn ==
    \A c \in Conns : chat[c].pc = "queued" ~> chat[c].pc # "queued" \/ turns = MaxTurns

\* "one agent turn at a time; session file is shared" (server.py:691): at most
\* one codex process works at any time.  The code violates this after a failed
\* progress frame, so no configuration lists it.
OneAgentAtATime == Cardinality(procs) <= 1
=============================================================================
