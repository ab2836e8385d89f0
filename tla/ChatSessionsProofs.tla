------------------------- MODULE ChatSessionsProofs -------------------------
(***************************************************************************)
(* ChatSessions for any number of sessions, turns, models, crashes and     *)
(* failed saves, with one connection at a time.  The server does not       *)
(* enforce that: it serves every connection it accepts, each from its own  *)
(* copy of the registry and of a transcript.  OneConnection is therefore a *)
(* premise of every theorem below, not a fact about server.py, and without *)
(* it they fail: a second connection's save puts its own copy over what    *)
(* the first one wrote (for OrdinalsStable, see ChatShared.cfg).           *)
(***************************************************************************)
EXTENDS ChatSessions, FiniteSetTheorems, SequenceTheorems, TLAPS

\* The premise: one Newton, and no second connection beside its own.
OneConnection == \A c, d \in Conns : c = d

Line == [role : {"user", "assistant"}, turn : Nat, thread : Nat]
Text == [thread : Nat, history : Seq(Line)]
Item == [file : Files, thread : Nat, turns : Nat, model : Models \cup {DefaultModel}]
Book == [current : Nat, sessions : Seq(Item)]
Context == [pc : {"closed", "idle", "queued", "turn"}, reg : Book, data : Text]

Typed ==
    /\ disk \in [registry : Book, files : [Files -> Text]]
    /\ chat \in [Conns -> Context]
    /\ procs \subseteq [conn : Conns, turn : Nat, thread : Nat \ {NoThread}]
    /\ turns \in Nat
    /\ faults \in [crashes : Nat, failures : Nat]

\* Every registry numbers its sessions like their files.
Usable(reg) ==
    /\ \A i \in DOMAIN reg.sessions : reg.sessions[i].file = i
    /\ reg.current \in DOMAIN reg.sessions

Grown(old, new) ==
    \A i \in DOMAIN old.sessions :
        /\ i \in DOMAIN new.sessions
        /\ new.sessions[i].turns >= old.sessions[i].turns
        /\ old.sessions[i].thread # NoThread => new.sessions[i].thread = old.sessions[i].thread

\* An entry claims no more than its transcript holds.
Fits(e, t) == e.turns <= UserTurns(t) /\ (e.thread # NoThread => e.thread = t.thread)

\* A transcript begins with the user, and all its answers are of its thread.
Clean(t) ==
    /\ t.history # <<>> => t.history[1].role = "user"
    /\ \A i \in DOMAIN t.history :
          t.history[i].role = "assistant" => t.history[i].thread = t.thread /\ t.thread # NoThread

Exact(e, t) == e.turns = UserTurns(t) /\ e.thread = t.thread /\ Clean(t)

(* What a connection may save.                                             *)
Good(ctx) ==
    /\ ctx \in Context /\ Usable(ctx.reg) /\ Grown(disk.registry, ctx.reg)
    /\ faults.failures = 0 =>
          /\ Fits(Entry(ctx), ctx.data)
          /\ \A i \in DOMAIN ctx.reg.sessions :
                i # ctx.reg.current => Fits(ctx.reg.sessions[i], disk.files[i])
    /\ Faultless =>
          /\ Exact(Entry(ctx), ctx.data)
          /\ \A i \in DOMAIN ctx.reg.sessions :
                i # ctx.reg.current => Exact(ctx.reg.sessions[i], disk.files[i])
          /\ \A f \in Files : f \notin DOMAIN ctx.reg.sessions => disk.files[f] = Blank
          /\ IsPrefix(disk.files[ctx.reg.current].history, ctx.data.history)

Disk ==
    /\ disk.registry = NoRegistry \/ Usable(disk.registry)
    /\ faults.failures = 0 =>
          \A i \in DOMAIN disk.registry.sessions : Fits(disk.registry.sessions[i], disk.files[i])
    /\ Faultless =>
          /\ \A i \in DOMAIN Load.sessions : Exact(Load.sessions[i], disk.files[i])
          /\ \A f \in Files : f \notin DOMAIN Load.sessions => disk.files[f] = Blank

Memory ==
    \A c \in Conns :
        /\ chat[c].pc # "closed" => Good(chat[c])
        /\ chat[c].pc \in {"idle", "queued"} /\ faults.failures = 0 =>
              chat[c].data = disk.files[chat[c].reg.current]

Agents ==
    /\ \A p \in procs : p.turn <= turns
    /\ \A c \in Conns : chat[c].pc = "turn" =>
          LET h == chat[c].data.history
          IN  /\ h # <<>> /\ h[Len(h)].turn = turns
              /\ \A p \in procs : p.turn = turns => Entry(chat[c]).thread \in {NoThread, p.thread}

Inv == Typed /\ Disk /\ Memory /\ Agents

(* What a step may do to the files.                                        *)
Steady ==
    /\ Faultless =>
          \A f \in Files : IsPrefix(disk.files[f].history, disk'.files[f].history)
    /\ \A i \in DOMAIN disk.registry.sessions :
          /\ i \in DOMAIN disk'.registry.sessions
          /\ disk'.registry.sessions[i].file = disk.registry.sessions[i].file
          /\ disk'.registry.sessions[i].turns >= disk.registry.sessions[i].turns
          /\ disk.registry.sessions[i].thread # NoThread =>
                disk'.registry.sessions[i].thread = disk.registry.sessions[i].thread

-----------------------------------------------------------------------------
(* Transcripts.                                                            *)

LEMMA PrefixSelf == ASSUME NEW h \in Seq(Line) PROVE IsPrefix(h, h)
  <1>1. Len(h) \in Nat
    BY LenProperties
  <1> QED
    BY <1>1 DEF IsPrefix

LEMMA PrefixAppend ==
    ASSUME NEW g \in Seq(Line), NEW h \in Seq(Line), NEW e \in Line, IsPrefix(g, h)
    PROVE  IsPrefix(g, Append(h, e))
  <1>1. Len(g) \in Nat /\ Len(h) \in Nat /\ Len(g) <= Len(h)
        /\ SubSeq(g, 1, Len(g)) = SubSeq(h, 1, Len(g))
    BY LenProperties DEF IsPrefix
  <1>2. Append(h, e) \in Seq(Line) /\ Len(Append(h, e)) = Len(h) + 1
        /\ \A i \in 1..Len(h) : Append(h, e)[i] = h[i]
    BY AppendProperties
  <1>3. SubSeq(Append(h, e), 1, Len(g)) = SubSeq(h, 1, Len(g))
    BY <1>1, <1>2
  <1> QED
    BY <1>1, <1>2, <1>3 DEF IsPrefix

LEMMA PrefixEmpty == ASSUME NEW h \in Seq(Line) PROVE IsPrefix(<<>>, h)
  <1>1. Len(h) \in Nat
    BY LenProperties
  <1> QED
    BY <1>1 DEF IsPrefix

Users(h) == {i \in DOMAIN h : h[i].role = "user"}

LEMMA UsersFinite ==
    ASSUME NEW h \in Seq(Line)
    PROVE  IsFiniteSet(Users(h)) /\ Cardinality(Users(h)) \in Nat
  <1>1. Len(h) \in Nat /\ DOMAIN h = 1..Len(h)
    BY LenProperties
  <1>2. IsFiniteSet(1..Len(h)) /\ Users(h) \subseteq 1..Len(h)
    BY <1>1, FS_Interval DEF Users
  <1> QED
    BY <1>2, FS_Subset, FS_CardinalityType

LEMMA CountsType == ASSUME NEW t \in Text PROVE UserTurns(t) \in Nat
  <1>1. t.history \in Seq(Line)
    BY DEF Text
  <1> QED
    BY <1>1, UsersFinite DEF UserTurns, Users

(* Said once more by the user, or by the agent.                            *)
LEMMA CountsOneMore ==
    ASSUME NEW t \in Text, NEW u \in Text, NEW e \in Line, u.history = Append(t.history, e)
    PROVE  UserTurns(u) = IF e.role = "user" THEN UserTurns(t) + 1 ELSE UserTurns(t)
  <1> DEFINE h == t.history
  <1>1. h \in Seq(Line)
    BY DEF Text
  <1>2. Len(h) \in Nat /\ DOMAIN h = 1..Len(h)
    BY <1>1, LenProperties
  <1>3. /\ Append(h, e) \in Seq(Line) /\ Len(Append(h, e)) = Len(h) + 1
        /\ \A i \in 1..Len(h) : Append(h, e)[i] = h[i]
        /\ Append(h, e)[Len(h) + 1] = e
    BY <1>1, AppendProperties
  <1>4. DOMAIN Append(h, e) = 1..(Len(h) + 1)
    BY <1>3, LenProperties
  <1>5. IsFiniteSet(Users(h)) /\ Cardinality(Users(h)) \in Nat
    BY <1>1, UsersFinite
  <1>6. Len(h) + 1 \notin Users(h)
    BY <1>2 DEF Users
  <1>7. Users(Append(h, e)) = IF e.role = "user" THEN Users(h) \cup {Len(h) + 1} ELSE Users(h)
    BY <1>2, <1>3, <1>4 DEF Users
  <1>8. Cardinality(Users(h) \cup {Len(h) + 1}) = Cardinality(Users(h)) + 1
    BY <1>5, <1>6, FS_AddElement
  <1>9. UserTurns(t) = Cardinality(Users(h)) /\ UserTurns(u) = Cardinality(Users(Append(h, e)))
    BY DEF UserTurns, Users
  <1> QED
    BY <1>7, <1>8, <1>9

LEMMA CountsBlank == Blank \in Text /\ UserTurns(Blank) = 0 /\ Clean(Blank) /\ Blank.thread = NoThread
  <1>1. Blank.history = <<>> /\ Blank.thread = NoThread /\ Blank \in Text
    BY DEF Blank, Text, NoThread
  <1>2. {i \in DOMAIN Blank.history : Blank.history[i].role = "user"} = {}
    BY <1>1
  <1>3. UserTurns(Blank) = 0
    BY <1>2, FS_EmptySet DEF UserTurns
  <1> QED
    BY <1>1, <1>3 DEF Clean

(* A transcript without a turn is empty.                                   *)
LEMMA NoTurnsNoText ==
    ASSUME NEW t \in Text, Clean(t), UserTurns(t) = 0, t.thread = NoThread
    PROVE  t = Blank
  <1>1. t.history \in Seq(Line) /\ Len(t.history) \in Nat /\ DOMAIN t.history = 1..Len(t.history)
    BY LenProperties DEF Text
  <1>2. IsFiniteSet(Users(t.history)) /\ Cardinality(Users(t.history)) = 0
    BY <1>1, UsersFinite DEF UserTurns, Users
  <1>3. Users(t.history) = {}
    BY <1>2, FS_EmptySet
  <1>4. t.history = <<>>
    <2> SUFFICES ASSUME t.history # <<>> PROVE FALSE
      OBVIOUS
    <2>1. Len(t.history) > 0
      BY <1>1
    <2>2. 1 \in Users(t.history)
      BY <1>1, <2>1 DEF Clean, Users
    <2> QED
      BY <1>3, <2>2
  <1> QED
    BY <1>4 DEF Text, Blank

-----------------------------------------------------------------------------
(* Registries.                                                             *)

LEMMA InFiles == ASSUME NEW reg \in Book, Usable(reg), NEW i \in DOMAIN reg.sessions
                 PROVE  i \in Files /\ reg.sessions[i] \in Item /\ reg.sessions[i].file = i
  <1>1. reg.sessions \in Seq(Item)
    BY DEF Book
  <1>2. reg.sessions[i] \in Item
    BY <1>1
  <1> QED
    BY <1>2 DEF Usable, Item

LEMMA NotEmpty == ASSUME NEW reg \in Book, Usable(reg) PROVE reg # NoRegistry
  BY DEF Usable, NoRegistry

LEMMA CurrentEntry ==
    ASSUME NEW ctx \in Context, Usable(ctx.reg)
    PROVE  /\ ctx.reg.current \in Files /\ ctx.reg.current \in DOMAIN ctx.reg.sessions
           /\ Entry(ctx) \in Item /\ Entry(ctx).file = ctx.reg.current
           /\ Entry(ctx) = ctx.reg.sessions[ctx.reg.current]
  <1>1. ctx.reg \in Book /\ ctx.reg.current \in DOMAIN ctx.reg.sessions
    BY DEF Context, Usable
  <1> QED
    BY <1>1, InFiles DEF Entry

LEMMA GrownSelf == ASSUME NEW reg \in Book PROVE Grown(reg, reg)
  <1>1. reg.sessions \in Seq(Item)
    BY DEF Book
  <1>2. ASSUME NEW i \in DOMAIN reg.sessions PROVE reg.sessions[i].turns >= reg.sessions[i].turns
    <2>1. reg.sessions[i] \in Item
      BY <1>1
    <2>2. reg.sessions[i].turns \in Nat
      BY <2>1 DEF Item
    <2> QED
      BY <2>2
  <1> QED
    BY <1>2 DEF Grown

(* SetEntry changes the current entry only.                                *)
LEMMA SetEntryOnly ==
    ASSUME NEW ctx \in Context, Usable(ctx.reg), NEW e \in Item, e.file = ctx.reg.current
    PROVE  LET new == SetEntry(ctx, e)
           IN  /\ new \in Context /\ Usable(new.reg) /\ Entry(new) = e
               /\ new.pc = ctx.pc /\ new.data = ctx.data /\ new.reg.current = ctx.reg.current
               /\ DOMAIN new.reg.sessions = DOMAIN ctx.reg.sessions
               /\ \A i \in DOMAIN ctx.reg.sessions :
                     i # ctx.reg.current => new.reg.sessions[i] = ctx.reg.sessions[i]
  <1> DEFINE s == ctx.reg.sessions
             k == ctx.reg.current
             t == [s EXCEPT ![k] = e]
             new == SetEntry(ctx, e)
  <1>1. s \in Seq(Item) /\ k \in DOMAIN s /\ k \in Nat
    BY DEF Context, Book, Usable
  <1>2. t \in Seq(Item) /\ DOMAIN t = DOMAIN s /\ t[k] = e /\ \A i \in DOMAIN s : i # k => t[i] = s[i]
    BY <1>1
  <1>3. new = [ctx EXCEPT !.reg = [ctx.reg EXCEPT !.sessions = t]]
    BY DEF SetEntry, Context, Book
  <1>4. new.pc = ctx.pc /\ new.data = ctx.data /\ new.reg.current = k /\ new.reg.sessions = t
        /\ new \in Context
    BY <1>1, <1>2, <1>3 DEF Context, Book
  <1>5. Entry(new) = e
    BY <1>2, <1>4 DEF Entry
  <1>6. Usable(new.reg)
    BY <1>1, <1>2, <1>4 DEF Usable
  <1> QED
    BY <1>2, <1>4, <1>5, <1>6

(* The files after the first write of a save.                              *)
LEMMA Written ==
    ASSUME Typed, NEW ctx \in Context, Usable(ctx.reg)
    PROVE  LET new == TranscriptWritten(ctx)
           IN  /\ new \in [registry : Book, files : [Files -> Text]]
               /\ new.registry = disk.registry
               /\ new.files[ctx.reg.current] = ctx.data
               /\ \A f \in Files : f # ctx.reg.current => new.files[f] = disk.files[f]
  <1>1. Entry(ctx).file = ctx.reg.current /\ ctx.reg.current \in Files
    BY CurrentEntry
  <1>2. disk \in [registry : Book, files : [Files -> Text]] /\ ctx.data \in Text
    BY DEF Typed, Context
  <1>3. TranscriptWritten(ctx) = [disk EXCEPT !.files = [disk.files EXCEPT ![ctx.reg.current] = ctx.data]]
    BY <1>1, <1>2 DEF TranscriptWritten
  <1> QED
    BY <1>1, <1>2, <1>3

(* Moving a context from one line of handle() to another.                  *)
LEMMA OtherPc ==
    ASSUME NEW ctx \in Context, NEW pc \in {"closed", "idle", "queued", "turn"}
    PROVE  LET new == [ctx EXCEPT !.pc = pc]
           IN  new \in Context /\ new.pc = pc /\ new.reg = ctx.reg /\ new.data = ctx.data
               /\ Entry(new) = Entry(ctx)
  BY DEF Context, Entry

-----------------------------------------------------------------------------
(* save(): whatever a connection may save keeps the invariant.             *)

(* The save succeeds.                                                      *)
LEMMA Succeeds ==
    ASSUME Inv, OneConnection, NEW c \in Conns, NEW ctx, Good(ctx), NEW agents,
           agents \subseteq procs, turns' = turns, faults' = faults, procs' = agents,
           disk' = AllWritten(ctx), chat' = [chat EXCEPT ![c] = [ctx EXCEPT !.pc = "idle"]]
    PROVE  Inv' /\ Steady
  <1> DEFINE k == ctx.reg.current
             new == [ctx EXCEPT !.pc = "idle"]
  <1>1. Typed /\ Disk /\ Memory /\ Agents
    BY DEF Inv
  <1>2. /\ ctx \in Context /\ Usable(ctx.reg) /\ Grown(disk.registry, ctx.reg)
        /\ ctx.reg \in Book /\ k \in DOMAIN ctx.reg.sessions /\ k \in Files
        /\ Entry(ctx) = ctx.reg.sessions[k]
    BY CurrentEntry DEF Good, Context
  <1>3. /\ disk' \in [registry : Book, files : [Files -> Text]]
        /\ disk'.registry = ctx.reg /\ disk'.files[k] = ctx.data
        /\ \A f \in Files : f # k => disk'.files[f] = disk.files[f]
    BY <1>1, <1>2, Written DEF AllWritten
  <1>4. /\ new \in Context /\ new.pc = "idle" /\ new.reg = ctx.reg /\ new.data = ctx.data
        /\ Entry(new) = Entry(ctx)
    BY <1>2, OtherPc
  <1>5. chat' \in [Conns -> Context] /\ \A d \in Conns : chat'[d] = new
    BY <1>1, <1>4 DEF Typed, OneConnection
  <1>6. Typed'
    BY <1>1, <1>3, <1>5 DEF Typed
  <1>7. ctx.reg # NoRegistry /\ Load' = ctx.reg
    BY <1>2, <1>3, NotEmpty DEF Load
  <1>8. \A i \in DOMAIN ctx.reg.sessions : i \in Files
    BY <1>2, InFiles
  <1>9. faults.failures = 0 => \A i \in DOMAIN ctx.reg.sessions : Fits(ctx.reg.sessions[i], disk'.files[i])
    BY <1>2, <1>3, <1>8 DEF Good
  <1>10. Faultless =>
            /\ \A i \in DOMAIN ctx.reg.sessions : Exact(ctx.reg.sessions[i], disk'.files[i])
            /\ \A f \in Files : f \notin DOMAIN ctx.reg.sessions => disk'.files[f] = Blank
    BY <1>2, <1>3, <1>8 DEF Good
  <1>11. Faultless' = Faultless
    BY DEF Faultless
  <1>12. Disk'
    BY <1>2, <1>3, <1>7, <1>9, <1>10, <1>11 DEF Disk
  <1>13. ctx.data.history \in Seq(Line)
    BY <1>2 DEF Context, Text
  <1>14. IsPrefix(disk'.files[k].history, ctx.data.history)
    BY <1>3, <1>13, PrefixSelf
  <1>15. Grown(disk'.registry, ctx.reg)
    BY <1>2, <1>3, GrownSelf
  <1>16. \A d \in Conns : chat'[d] = new
    BY <1>5
  <1>17. Good(new)'
    BY <1>2, <1>3, <1>4, <1>9, <1>10, <1>11, <1>14, <1>15 DEF Good
  <1>18. Memory'
    BY <1>3, <1>4, <1>16, <1>17 DEF Memory, Good
  <1>19. Agents'
    BY <1>1, <1>4, <1>5 DEF Agents
  <1>20. Steady
    <2>1. ASSUME Faultless, NEW f \in Files PROVE IsPrefix(disk.files[f].history, disk'.files[f].history)
      <3>1. CASE f = k
        BY <1>3, <2>1, <3>1 DEF Good
      <3>2. CASE f # k
        <4>1. disk.files[f].history \in Seq(Line)
          BY <1>1 DEF Typed, Text
        <4> QED
          BY <1>3, <3>2, <4>1, PrefixSelf
      <3> QED
        BY <3>1, <3>2
    <2>2. ASSUME NEW i \in DOMAIN disk.registry.sessions
          PROVE  /\ i \in DOMAIN disk'.registry.sessions
                 /\ disk'.registry.sessions[i].file = disk.registry.sessions[i].file
                 /\ disk'.registry.sessions[i].turns >= disk.registry.sessions[i].turns
                 /\ disk.registry.sessions[i].thread # NoThread =>
                       disk'.registry.sessions[i].thread = disk.registry.sessions[i].thread
      <3>1. Usable(disk.registry)
        BY <1>1 DEF Disk, NoRegistry
      <3> QED
        BY <1>2, <1>3, <3>1 DEF Grown, Usable
    <2> QED
      BY <2>1, <2>2 DEF Steady
  <1> QED
    BY <1>6, <1>12, <1>18, <1>19, <1>20 DEF Inv

(* The save raises an OSError.                                             *)
LEMMA Fails ==
    ASSUME Inv, OneConnection, NEW c \in Conns, NEW ctx, Good(ctx), NEW agents,
           agents \subseteq procs, turns' = turns, procs' = agents,
           faults' = [faults EXCEPT !.failures = @ + 1],
           disk' \in {disk, HalfWritten(ctx)},
           \/ chat' = [chat EXCEPT ![c] = [ctx EXCEPT !.pc = "idle"]]
           \/ chat' = [chat EXCEPT ![c] = Closed]
    PROVE  Inv' /\ Steady
  <1> DEFINE k == ctx.reg.current
             new == [ctx EXCEPT !.pc = "idle"]
  <1>1. Typed /\ Disk /\ Memory /\ Agents
    BY DEF Inv
  <1>2. /\ ctx \in Context /\ Usable(ctx.reg) /\ Grown(disk.registry, ctx.reg)
        /\ ctx.reg \in Book /\ k \in Files
    BY CurrentEntry DEF Good, Context
  <1>3. /\ disk' \in [registry : Book, files : [Files -> Text]]
        /\ disk'.registry = disk.registry
        /\ \A f \in Files : disk'.files[f] = disk.files[f] \/ (f = k /\ disk'.files[f] = ctx.data)
    BY <1>1, <1>2, Written DEF HalfWritten, Typed
  <1>4. /\ new \in Context /\ new.pc = "idle" /\ new.reg = ctx.reg
        /\ Closed \in Context /\ Closed.pc = "closed"
    <2>1. Blank \in Text
      BY CountsBlank
    <2>2. NoRegistry \in Book
      BY DEF NoRegistry, Book
    <2>3. Closed \in Context /\ Closed.pc = "closed"
      BY <2>1, <2>2 DEF Closed, Context
    <2> QED
      BY <1>2, <2>3, OtherPc
  <1>5. chat' \in [Conns -> Context] /\ \A d \in Conns : chat'[d] = new \/ chat'[d] = Closed
    BY <1>1, <1>4 DEF Typed, OneConnection
  <1>6. /\ faults' \in [crashes : Nat, failures : Nat] /\ faults'.failures # 0 /\ ~Faultless'
    BY <1>1 DEF Typed, Faultless
  <1>7. Typed'
    BY <1>1, <1>3, <1>5, <1>6 DEF Typed
  <1>8. Disk'
    BY <1>1, <1>3, <1>6 DEF Disk
  <1>9. Good(new)'
    BY <1>2, <1>3, <1>4, <1>6 DEF Good
  <1>10. Memory'
    BY <1>4, <1>5, <1>6, <1>9 DEF Memory
  <1>11. Agents'
    BY <1>1, <1>4, <1>5 DEF Agents
  <1>12. Steady
    <2>1. ASSUME Faultless, NEW f \in Files PROVE IsPrefix(disk.files[f].history, disk'.files[f].history)
      <3>1. CASE disk'.files[f] = disk.files[f]
        <4>1. disk.files[f].history \in Seq(Line)
          BY <1>1 DEF Typed, Text
        <4> QED
          BY <3>1, <4>1, PrefixSelf
      <3>2. CASE f = k /\ disk'.files[f] = ctx.data
        BY <2>1, <3>2 DEF Good
      <3> QED
        BY <1>3, <3>1, <3>2
    <2>2. ASSUME NEW i \in DOMAIN disk.registry.sessions
          PROVE  disk.registry.sessions[i].turns \in Nat
      <3>1. Usable(disk.registry) /\ disk.registry \in Book
        BY <1>1 DEF Disk, NoRegistry, Typed
      <3>2. disk.registry.sessions[i] \in Item
        BY <3>1, InFiles
      <3> QED
        BY <3>2 DEF Item
    <2> QED
      BY <1>3, <2>1, <2>2 DEF Steady
  <1> QED
    BY <1>7, <1>8, <1>10, <1>11, <1>12 DEF Inv

(* A crash falls between the two writes.                                   *)
LEMMA Cut ==
    ASSUME Inv, OneConnection, NEW ctx, Good(ctx), turns' = turns, ProcessDies,
           faults' = [faults EXCEPT !.crashes = @ + 1], disk' = HalfWritten(ctx)
    PROVE  Inv' /\ Steady
  <1> DEFINE k == ctx.reg.current
  <1>1. Typed /\ Disk /\ Memory /\ Agents
    BY DEF Inv
  <1>2. /\ ctx \in Context /\ Usable(ctx.reg) /\ Grown(disk.registry, ctx.reg)
        /\ ctx.reg \in Book /\ k \in Files /\ k \in DOMAIN ctx.reg.sessions
        /\ Entry(ctx) = ctx.reg.sessions[k] /\ Entry(ctx) \in Item /\ ctx.data \in Text
    BY CurrentEntry DEF Good, Context
  <1>3. /\ disk' \in [registry : Book, files : [Files -> Text]]
        /\ disk'.registry = disk.registry /\ disk'.files[k] = ctx.data
        /\ \A f \in Files : f # k => disk'.files[f] = disk.files[f]
    BY <1>1, <1>2, Written DEF HalfWritten
  <1>4. Closed \in Context /\ Closed.pc = "closed"
    <2>1. Blank \in Text
      BY CountsBlank
    <2>2. NoRegistry \in Book
      BY DEF NoRegistry, Book
    <2> QED
      BY <2>1, <2>2 DEF Closed, Context
  <1>5. chat' \in [Conns -> Context] /\ \A d \in Conns : chat'[d] = Closed
    BY <1>4 DEF ProcessDies
  <1>6. /\ faults' \in [crashes : Nat, failures : Nat] /\ faults'.failures = faults.failures
        /\ ~Faultless'
    BY <1>1 DEF Typed, Faultless
  <1>7. Typed'
    BY <1>1, <1>3, <1>5, <1>6 DEF Typed, ProcessDies
  <1>8. ASSUME NEW i \in DOMAIN disk.registry.sessions
        PROVE  /\ i \in Files /\ disk.registry.sessions[i].turns \in Nat
               /\ faults.failures = 0 => Fits(disk.registry.sessions[i], disk'.files[i])
    <2>1. Usable(disk.registry) /\ disk.registry \in Book
      BY <1>1 DEF Disk, NoRegistry, Typed
    <2>2. i \in Files /\ disk.registry.sessions[i] \in Item
      BY <2>1, InFiles
    <2>3. disk.registry.sessions[i].turns \in Nat
      BY <2>2 DEF Item
    <2>4. ASSUME faults.failures = 0, i = k PROVE Fits(disk.registry.sessions[i], disk'.files[i])
      <3>1. Fits(ctx.reg.sessions[k], ctx.data)
        BY <1>2, <2>4 DEF Good
      <3>2. UserTurns(ctx.data) \in Nat /\ ctx.reg.sessions[k].turns \in Nat
        BY <1>2, CountsType DEF Item
      <3> QED
        BY <1>2, <1>3, <2>3, <2>4, <3>1, <3>2 DEF Fits, Grown
    <2>5. ASSUME faults.failures = 0, i # k PROVE Fits(disk.registry.sessions[i], disk'.files[i])
      BY <1>1, <1>3, <2>2, <2>5 DEF Disk
    <2> QED
      BY <2>2, <2>3, <2>4, <2>5
  <1>9. Disk'
    BY <1>1, <1>3, <1>6, <1>8 DEF Disk
  <1>10. Memory' /\ Agents'
    BY <1>4, <1>5 DEF Memory, Agents, ProcessDies
  <1>11. Steady
    <2>1. ASSUME Faultless, NEW f \in Files PROVE IsPrefix(disk.files[f].history, disk'.files[f].history)
      <3>1. CASE f = k
        BY <1>3, <2>1, <3>1 DEF Good
      <3>2. CASE f # k
        <4>1. disk.files[f].history \in Seq(Line)
          BY <1>1 DEF Typed, Text
        <4> QED
          BY <1>3, <3>2, <4>1, PrefixSelf
      <3> QED
        BY <3>1, <3>2
    <2> QED
      BY <1>3, <1>8, <2>1 DEF Steady
  <1> QED
    BY <1>7, <1>9, <1>10, <1>11 DEF Inv

LEMMA SaveKeeps ==
    ASSUME Inv, OneConnection, NEW c \in Conns, NEW ctx, Good(ctx), NEW agents, NEW partial,
           agents \subseteq procs, partial \subseteq {disk, HalfWritten(ctx)},
           turns' = turns, Save(c, ctx, partial, agents)
    PROVE  Inv' /\ Steady
  <1>1. CASE /\ disk' = AllWritten(ctx)
             /\ chat' = [chat EXCEPT ![c] = [ctx EXCEPT !.pc = "idle"]]
             /\ procs' = agents
             /\ UNCHANGED faults
    BY <1>1, Succeeds
  <1>2. CASE /\ disk' \in partial
             /\ chat' = [chat EXCEPT ![c] = [ctx EXCEPT !.pc = "idle"]]
             /\ procs' = agents
             /\ faults' = [faults EXCEPT !.failures = @ + 1]
    <2>1. disk' \in {disk, HalfWritten(ctx)}
      BY <1>2
    <2> QED
      BY <1>2, <2>1, Fails
  <1>3. CASE /\ disk' = HalfWritten(ctx)
             /\ ProcessDies
             /\ faults' = [faults EXCEPT !.crashes = @ + 1]
    BY <1>3, Cut
  <1> QED
    BY <1>1, <1>2, <1>3 DEF Save

-----------------------------------------------------------------------------
(* What the commands and the turns make of a context may be saved.         *)

(* A new current entry with a transcript that bears it out.                *)
LEMMA GoodEntry ==
    ASSUME NEW ctx, Good(ctx), NEW e \in Item, e.file = ctx.reg.current,
           e.turns >= Entry(ctx).turns,
           Entry(ctx).thread # NoThread => e.thread = Entry(ctx).thread,
           NEW new \in Context, new.reg = SetEntry(ctx, e).reg,
           faults.failures = 0 => Fits(e, new.data),
           Faultless => /\ Exact(e, new.data)
                        /\ IsPrefix(disk.files[ctx.reg.current].history, new.data.history),
           Typed
    PROVE  Good(new) /\ Entry(new) = e /\ new.reg.current = ctx.reg.current
  <1> DEFINE k == ctx.reg.current
             set == SetEntry(ctx, e)
  <1>1. /\ ctx \in Context /\ Usable(ctx.reg) /\ Grown(disk.registry, ctx.reg)
        /\ Entry(ctx) = ctx.reg.sessions[k] /\ k \in DOMAIN ctx.reg.sessions
        /\ Entry(ctx) \in Item
    BY CurrentEntry DEF Good
  <1>2. /\ Usable(new.reg) /\ new.reg.sessions[k] = e
        /\ new.reg.current = k
        /\ DOMAIN new.reg.sessions = DOMAIN ctx.reg.sessions
        /\ \A i \in DOMAIN ctx.reg.sessions : i # k => new.reg.sessions[i] = ctx.reg.sessions[i]
    BY <1>1, SetEntryOnly DEF Entry
  <1>3. Entry(new) = e
    BY <1>2 DEF Entry
  <1>4. Grown(disk.registry, new.reg)
    <2> SUFFICES ASSUME NEW i \in DOMAIN disk.registry.sessions
                 PROVE  /\ i \in DOMAIN new.reg.sessions
                        /\ new.reg.sessions[i].turns >= disk.registry.sessions[i].turns
                        /\ disk.registry.sessions[i].thread # NoThread =>
                              new.reg.sessions[i].thread = disk.registry.sessions[i].thread
      BY DEF Grown
    <2>1. /\ i \in DOMAIN ctx.reg.sessions
          /\ ctx.reg.sessions[i].turns >= disk.registry.sessions[i].turns
          /\ disk.registry.sessions[i].thread # NoThread =>
                ctx.reg.sessions[i].thread = disk.registry.sessions[i].thread
      BY <1>1 DEF Grown
    <2>2. CASE i # k
      BY <1>2, <2>1, <2>2
    <2>3. CASE i = k
      <3>1. disk.registry.sessions \in Seq(Item)
        BY DEF Typed, Book
      <3>2. disk.registry.sessions[i] \in Item
        BY <3>1
      <3>3. disk.registry.sessions[i].turns \in Nat /\ e.turns \in Nat /\ Entry(ctx).turns \in Nat
        BY <1>1, <3>2 DEF Item
      <3> QED
        BY <1>1, <1>2, <2>1, <2>3, <3>3
    <2> QED
      BY <2>2, <2>3
  <1>5. faults.failures = 0 =>
          /\ Fits(Entry(new), new.data)
          /\ \A i \in DOMAIN new.reg.sessions : i # k => Fits(new.reg.sessions[i], disk.files[i])
    BY <1>2, <1>3 DEF Good
  <1>6. Faultless =>
          /\ Exact(Entry(new), new.data)
          /\ \A i \in DOMAIN new.reg.sessions : i # k => Exact(new.reg.sessions[i], disk.files[i])
          /\ \A f \in Files : f \notin DOMAIN new.reg.sessions => disk.files[f] = Blank
          /\ IsPrefix(disk.files[k].history, new.data.history)
    BY <1>2, <1>3 DEF Good
  <1> QED
    BY <1>2, <1>3, <1>4, <1>5, <1>6 DEF Good

(* The handler waits for a line: its transcript is the one on disk.        *)
LEMMA Idle ==
    ASSUME Inv, NEW c \in Conns, chat[c].pc \in {"idle", "queued"}
    PROVE  /\ Good(chat[c]) /\ chat[c] \in Context
           /\ faults.failures = 0 => chat[c].data = disk.files[chat[c].reg.current]
  BY DEF Inv, Memory, Good

LEMMA GoodModel ==
    ASSUME Inv, NEW c \in Conns, chat[c].pc = "idle", NEW m \in Models
    PROVE  Good(SetEntry(chat[c], [Entry(chat[c]) EXCEPT !.model = m]))
  <1> DEFINE ctx == chat[c]
             e == [Entry(ctx) EXCEPT !.model = m]
             new == SetEntry(ctx, e)
  <1>1. Good(ctx) /\ ctx \in Context /\ Usable(ctx.reg) /\ Typed
    BY Idle DEF Inv, Good
  <1>2. Entry(ctx) \in Item /\ Entry(ctx).file = ctx.reg.current
    BY <1>1, CurrentEntry
  <1>3. e \in Item /\ e.file = ctx.reg.current /\ e.turns = Entry(ctx).turns
        /\ e.thread = Entry(ctx).thread /\ e.turns \in Nat
    BY <1>2 DEF Item
  <1>4. new \in Context /\ new.data = ctx.data
    BY <1>1, <1>3, SetEntryOnly
  <1>5. faults.failures = 0 => Fits(e, new.data)
    BY <1>1, <1>3, <1>4 DEF Good, Fits
  <1>6. Faultless => /\ Exact(e, new.data)
                     /\ IsPrefix(disk.files[ctx.reg.current].history, new.data.history)
    BY <1>1, <1>3, <1>4 DEF Good, Exact
  <1>7. e.turns >= Entry(ctx).turns
    BY <1>3
  <1> HIDE DEF e, new
  <1>8. new.reg = SetEntry(ctx, e).reg
    BY DEF new
  <1>9. Good(new)
    BY <1>1, <1>3, <1>4, <1>5, <1>6, <1>7, <1>8, GoodEntry
  <1> QED
    BY <1>9 DEF new, e

LEMMA GoodSwitch ==
    ASSUME NEW ctx, Typed, Good(ctx), faults.failures = 0 => ctx.data = disk.files[ctx.reg.current],
           NEW i \in DOMAIN ctx.reg.sessions
    PROVE  Good(Switch(ctx, i))
  <1> DEFINE new == Switch(ctx, i)
  <1>1. ctx \in Context /\ Usable(ctx.reg) /\ ctx.reg \in Book /\ Grown(disk.registry, ctx.reg)
    BY DEF Good, Context
  <1>2. i \in Files /\ ctx.reg.sessions[i].file = i /\ ctx.reg.sessions \in Seq(Item) /\ i \in Nat
    BY <1>1, InFiles DEF Book, Files
  <1>3. disk.files[i] \in Text
    BY <1>2 DEF Typed
  <1>4. new = [ctx EXCEPT !.reg = [ctx.reg EXCEPT !.current = i], !.data = disk.files[i]]
    BY <1>1, <1>2 DEF Switch, Context, Book
  <1>5. /\ new \in Context /\ new.reg.current = i /\ new.reg.sessions = ctx.reg.sessions
        /\ new.data = disk.files[i] /\ Entry(new) = ctx.reg.sessions[i]
    BY <1>1, <1>2, <1>3, <1>4 DEF Context, Book, Entry
  <1>6. Usable(new.reg) /\ Grown(disk.registry, new.reg)
    BY <1>1, <1>5 DEF Usable, Grown
  <1>7. faults.failures = 0 =>
            \A j \in DOMAIN ctx.reg.sessions : Fits(ctx.reg.sessions[j], disk.files[j])
    BY DEF Good, Entry
  <1>8. Faultless =>
            /\ \A j \in DOMAIN ctx.reg.sessions : Exact(ctx.reg.sessions[j], disk.files[j])
            /\ \A f \in Files : f \notin DOMAIN ctx.reg.sessions => disk.files[f] = Blank
    BY DEF Good, Entry, Faultless
  <1>9. IsPrefix(disk.files[i].history, disk.files[i].history)
    BY <1>3, PrefixSelf DEF Text
  <1> QED
    BY <1>5, <1>6, <1>7, <1>8, <1>9 DEF Good

(* /new: the sessions are numbered like their files, so the number past the *)
(* end is free.                                                            *)
LEMMA NextFile ==
    ASSUME NEW ctx \in Context, Usable(ctx.reg), Len(ctx.reg.sessions) < MaxFiles
    PROVE  LET last == Len(ctx.reg.sessions) + 1
               new == Start(ctx)
           IN  /\ last \in Files /\ last \notin DOMAIN ctx.reg.sessions
               /\ NewEntry(last) \in Item
               /\ new.pc = ctx.pc /\ new.reg.current = last
               /\ new.reg.sessions = Append(ctx.reg.sessions, NewEntry(last))
               /\ new.data = disk.files[last]
               /\ disk.files[last] \in Text => new \in Context
  <1> DEFINE s == ctx.reg.sessions
             last == Len(s) + 1
             used == {s[i].file : i \in DOMAIN s}
             P(n) == n \notin used /\ \A m \in last..(n - 1) : m \in used
             all == Append(s, NewEntry(last))
             longer == [ctx EXCEPT !.reg.sessions = Append(@, NewEntry(last))]
             new == Start(ctx)
  <1>1. s \in Seq(Item) /\ Len(s) \in Nat /\ DOMAIN s = 1..Len(s) /\ MaxFiles \in Nat
        /\ \A i \in DOMAIN s : s[i].file = i
    BY ChatSessionsAssumption, LenProperties DEF Context, Book, Usable
  <1>2. last \in Files /\ last \notin DOMAIN s /\ last \in Nat /\ last \notin used
    BY <1>1 DEF Files
  <1>3. last \in last..(last + Len(s)) /\ P(last)
    BY <1>1, <1>2
  <1>4. \A n \in last..(last + Len(s)) : P(n) => n = last
    <2> SUFFICES ASSUME NEW n \in last..(last + Len(s)), P(n), n # last PROVE FALSE
      OBVIOUS
    <2>1. last \in last..(n - 1)
      BY <1>1
    <2> QED
      BY <1>2, <2>1
  <1>5. (CHOOSE n \in last..(last + Len(s)) : P(n)) = last
    BY <1>3, <1>4
  <1>6. new = Switch(longer, last)
    BY <1>5 DEF Start
  <1>7. NewEntry(last) \in Item /\ NewEntry(last).file = last
    BY <1>2 DEF NewEntry, Item, NoThread
  <1>8. all \in Seq(Item) /\ all[last] = NewEntry(last)
    BY <1>1, <1>7, AppendProperties
  <1>9. longer = [ctx EXCEPT !.reg = [ctx.reg EXCEPT !.sessions = all]]
    BY DEF Context, Book
  <1>10. longer \in Context /\ longer.pc = ctx.pc /\ longer.reg.sessions = all
    BY <1>8, <1>9 DEF Context, Book
  <1>11. new = [longer EXCEPT !.reg = [longer.reg EXCEPT !.current = last], !.data = disk.files[last]]
    BY <1>6, <1>7, <1>8, <1>10 DEF Switch, Context, Book
  <1>12. /\ new.pc = ctx.pc /\ new.reg.current = last /\ new.reg.sessions = all
         /\ new.data = disk.files[last]
         /\ disk.files[last] \in Text => new \in Context
    <2> DEFINE moved == [current |-> last, sessions |-> all]
    <2>3. longer.reg \in Book
      BY <1>10 DEF Context
    <2>4. [longer.reg EXCEPT !.current = last] = moved
      <3>1. ASSUME NEW r \in Book, NEW i PROVE [r EXCEPT !.current = i] = [current |-> i, sessions |-> r.sessions]
        BY DEF Book
      <3> HIDE DEF longer, all
      <3> QED
        BY <1>10, <2>3, <3>1
    <2>5. moved \in Book
      BY <1>2, <1>8 DEF Book
    <2>1. [longer.reg EXCEPT !.current = last] = moved /\ moved \in Book
      BY <2>4, <2>5
    <2>2. new = [pc |-> ctx.pc, reg |-> moved, data |-> disk.files[last]]
      BY <1>10, <1>11, <2>1 DEF Context
    <2> QED
      BY <2>1, <2>2 DEF Context
  <1> QED
    BY <1>2, <1>7, <1>12

LEMMA GoodStart ==
    ASSUME Inv, NEW c \in Conns, chat[c].pc = "idle", Len(chat[c].reg.sessions) < MaxFiles
    PROVE  Good(Start(chat[c]))
  <1> DEFINE ctx == chat[c]
             s == ctx.reg.sessions
             last == Len(s) + 1
             new == Start(ctx)
  <1>1. /\ Good(ctx) /\ ctx \in Context /\ Usable(ctx.reg) /\ Grown(disk.registry, ctx.reg)
        /\ faults.failures = 0 => ctx.data = disk.files[ctx.reg.current]
        /\ Typed
    BY Idle DEF Inv, Good
  <1>2. /\ last \in Files /\ last \notin DOMAIN s /\ NewEntry(last) \in Item
        /\ new.reg.current = last
        /\ new.reg.sessions = Append(s, NewEntry(last)) /\ new.data = disk.files[last]
        /\ disk.files[last] \in Text => new \in Context
    BY <1>1, NextFile
  <1>3. disk.files[last] \in Text /\ new \in Context
    BY <1>1, <1>2 DEF Typed
  <1>4. s \in Seq(Item) /\ Len(s) \in Nat /\ DOMAIN s = 1..Len(s)
    BY <1>1, LenProperties DEF Context, Book
  <1> HIDE DEF new
  <1>5. /\ DOMAIN new.reg.sessions = DOMAIN s \cup {last}
        /\ new.reg.sessions[last] = NewEntry(last)
        /\ \A i \in DOMAIN s : new.reg.sessions[i] = s[i]
    <2>1. /\ Append(s, NewEntry(last)) \in Seq(Item)
          /\ Len(Append(s, NewEntry(last))) = last
          /\ \A i \in 1..Len(s) : Append(s, NewEntry(last))[i] = s[i]
          /\ Append(s, NewEntry(last))[last] = NewEntry(last)
      BY <1>2, <1>4, AppendProperties
    <2>2. DOMAIN Append(s, NewEntry(last)) = 1..last
      BY <2>1, LenProperties
    <2>3. 1..last = 1..Len(s) \cup {last}
      BY <1>4
    <2> QED
      BY <1>2, <1>4, <2>1, <2>2, <2>3
  <1>6. NewEntry(last).file = last /\ NewEntry(last).turns = 0 /\ NewEntry(last).thread = NoThread
    BY DEF NewEntry
  <1>7. Usable(new.reg)
    BY <1>1, <1>2, <1>5, <1>6 DEF Usable
  <1>8. Grown(disk.registry, new.reg)
    BY <1>1, <1>5 DEF Grown
  <1>9. Entry(new) = NewEntry(last)
    BY <1>2, <1>5 DEF Entry
  <1>10. UserTurns(disk.files[last]) \in Nat
    BY <1>3, CountsType
  <1>11. faults.failures = 0 =>
            /\ Fits(Entry(new), new.data)
            /\ \A i \in DOMAIN s : Fits(s[i], disk.files[i])
    <2>1. Fits(Entry(new), new.data)
      BY <1>2, <1>6, <1>9, <1>10 DEF Fits
    <2>2. faults.failures = 0 => \A i \in DOMAIN s : Fits(s[i], disk.files[i])
      BY <1>1 DEF Good, Entry
    <2> QED
      BY <2>1, <2>2
  <1>12. Faultless =>
            /\ Exact(Entry(new), new.data)
            /\ \A i \in DOMAIN s : Exact(s[i], disk.files[i])
            /\ \A f \in Files : f \notin DOMAIN s => disk.files[f] = Blank
    <2> SUFFICES ASSUME Faultless
                 PROVE  /\ Exact(Entry(new), new.data)
                        /\ \A i \in DOMAIN s : Exact(s[i], disk.files[i])
                        /\ \A f \in Files : f \notin DOMAIN s => disk.files[f] = Blank
      OBVIOUS
    <2>1. /\ \A i \in DOMAIN s : Exact(s[i], disk.files[i])
          /\ \A f \in Files : f \notin DOMAIN s => disk.files[f] = Blank
      BY <1>1 DEF Good, Entry, Faultless
    <2>2. new.data = Blank
      BY <1>2, <2>1
    <2>3. Exact(Entry(new), new.data)
      BY <1>6, <1>9, <2>2, CountsBlank DEF Exact
    <2> QED
      BY <2>1, <2>3
  <1>13. IsPrefix(disk.files[last].history, new.data.history)
    BY <1>2, <1>3, PrefixSelf DEF Text
  <1>14. \A i \in DOMAIN new.reg.sessions : i # last => i \in DOMAIN s /\ new.reg.sessions[i] = s[i]
    BY <1>5
  <1>15. faults.failures = 0 =>
            /\ Fits(Entry(new), new.data)
            /\ \A i \in DOMAIN new.reg.sessions :
                  i # new.reg.current => Fits(new.reg.sessions[i], disk.files[i])
    BY <1>2, <1>11, <1>14
  <1>16. Faultless =>
            /\ Exact(Entry(new), new.data)
            /\ \A i \in DOMAIN new.reg.sessions :
                  i # new.reg.current => Exact(new.reg.sessions[i], disk.files[i])
            /\ \A f \in Files : f \notin DOMAIN new.reg.sessions => disk.files[f] = Blank
            /\ IsPrefix(disk.files[new.reg.current].history, new.data.history)
    BY <1>2, <1>5, <1>12, <1>13, <1>14
  <1>17. Good(new)
    BY <1>3, <1>7, <1>8, <1>15, <1>16 DEF Good
  <1> QED
    BY <1>17 DEF new

(* Bare /new: an untouched session has nothing to lose.                    *)
LEMMA GoodReset ==
    ASSUME Inv, NEW c \in Conns, chat[c].pc = "idle", Untouched(chat[c])
    PROVE  Good([chat[c] EXCEPT !.data = Blank])
  <1> DEFINE ctx == chat[c]
             new == [ctx EXCEPT !.data = Blank]
  <1>1. /\ Good(ctx) /\ ctx \in Context /\ Usable(ctx.reg)
        /\ faults.failures = 0 => ctx.data = disk.files[ctx.reg.current]
    BY Idle DEF Good
  <1>2. /\ new \in Context /\ new.reg = ctx.reg /\ new.data = Blank /\ Entry(new) = Entry(ctx)
    BY <1>1, CountsBlank DEF Context, Entry
  <1>3. Entry(ctx).turns = 0 /\ Entry(ctx).thread = NoThread
    BY DEF Untouched
  <1>4. Fits(Entry(new), new.data)
    BY <1>2, <1>3, CountsBlank DEF Fits
  <1>5. Faultless => Exact(Entry(new), new.data)
                     /\ IsPrefix(disk.files[ctx.reg.current].history, new.data.history)
    <2> SUFFICES ASSUME Faultless
                 PROVE  Exact(Entry(new), new.data)
                        /\ IsPrefix(disk.files[ctx.reg.current].history, new.data.history)
      OBVIOUS
    <2>1. Exact(Entry(ctx), ctx.data) /\ ctx.data \in Text
      BY <1>1 DEF Good, Context
    <2>2. ctx.data = Blank
      BY <1>3, <2>1, NoTurnsNoText DEF Exact
    <2> QED
      BY <1>1, <1>2, <2>1, <2>2 DEF Good
  <1> QED
    BY <1>1, <1>2, <1>4, <1>5 DEF Good

(* A line more in the transcript, and perhaps its thread.                  *)
Spoken(x, thread, said) == [x EXCEPT !.data.thread = thread, !.data.history = Append(@, said)]

Asking(x, said) == [x EXCEPT !.pc = "turn", !.data.history = Append(@, said)]

LEMMA OneLineMore ==
    ASSUME NEW x \in Context, NEW thread, NEW said
    PROVE  /\ Spoken(x, thread, said)
                = [pc |-> x.pc, reg |-> x.reg,
                   data |-> [thread |-> thread, history |-> Append(x.data.history, said)]]
           /\ Asking(x, said)
                = [pc |-> "turn", reg |-> x.reg,
                   data |-> [thread |-> x.data.thread, history |-> Append(x.data.history, said)]]
  <1> DEFINE y == [x EXCEPT !.data.thread = thread]
             z == [x EXCEPT !.pc = "turn"]
             more == Append(x.data.history, said)
  <1>1. x = [pc |-> x.pc, reg |-> x.reg, data |-> x.data]
        /\ x.data = [thread |-> x.data.thread, history |-> x.data.history]
    BY DEF Context, Text
  <1>2. y = [pc |-> x.pc, reg |-> x.reg, data |-> [thread |-> thread, history |-> x.data.history]]
    BY <1>1
  <1>3. z = [pc |-> "turn", reg |-> x.reg, data |-> x.data]
    BY <1>1
  <1>4. [y EXCEPT !.data.history = more]
          = [pc |-> x.pc, reg |-> x.reg, data |-> [thread |-> thread, history |-> more]]
    <2> HIDE DEF y, more
    <2> QED
      BY <1>2
  <1>5. [z EXCEPT !.data.history = more]
          = [pc |-> "turn", reg |-> x.reg, data |-> [thread |-> x.data.thread, history |-> more]]
    <2> HIDE DEF z, more
    <2> QED
      BY <1>1, <1>3
  <1>6. y.data.history = x.data.history /\ z.data.history = x.data.history
    <2> HIDE DEF y, z
    <2> QED
      BY <1>2, <1>3
  <1>7. Spoken(x, thread, said) = [y EXCEPT !.data.history = Append(y.data.history, said)]
    BY DEF Spoken
  <1>8. Asking(x, said) = [z EXCEPT !.data.history = Append(z.data.history, said)]
    BY DEF Asking
  <1> QED
    BY <1>4, <1>5, <1>6, <1>7, <1>8

(* Only the handler moves.                                                 *)
LEMMA MoveKeeps ==
    ASSUME NEW n, Good(n), disk' = disk, faults' = faults, \A d \in Conns : chat'[d] = n,
           n.pc \in {"idle", "queued"} /\ faults.failures = 0 =>
               n.data = disk.files[n.reg.current]
    PROVE  Memory'
  <1>1. Good(n)'
    BY DEF Good, Faultless
  <1> QED
    BY <1>1 DEF Memory, Good

LEMMA DiskKeeps == ASSUME Typed, Disk, disk' = disk, faults' = faults PROVE Disk' /\ Steady
  <1>1. Disk'
    BY DEF Disk, Faultless, Load, Adopted
  <1>2. ASSUME NEW f \in Files PROVE IsPrefix(disk.files[f].history, disk.files[f].history)
    <2>1. disk.files[f].history \in Seq(Line)
      BY DEF Typed, Text
    <2> QED
      BY <2>1, PrefixSelf
  <1>3. ASSUME NEW i \in DOMAIN disk.registry.sessions PROVE disk.registry.sessions[i].turns \in Nat
    <2>1. disk.registry.sessions \in Seq(Item)
      BY DEF Typed, Book
    <2>2. disk.registry.sessions[i] \in Item
      BY <2>1
    <2> QED
      BY <2>2 DEF Item
  <1>4. Steady
    BY <1>2, <1>3 DEF Steady
  <1> QED
    BY <1>1, <1>4

(* The agent answers: its thread is the session's, if it had one.          *)
LEMMA GoodAnswer ==
    ASSUME Inv, NEW c \in Conns, NEW p \in procs, Running(c, p)
    PROVE  Good(Answered(chat[c], p))
  <1> DEFINE ctx == chat[c]
             k == ctx.reg.current
             h == ctx.data.history
             e == [Entry(ctx) EXCEPT !.thread = p.thread]
             said == Said("assistant", p.turn, p.thread)
             text == [thread |-> p.thread, history |-> Append(h, said)]
             kept == SetEntry(ctx, e)
             new == Answered(ctx, p)
  <1>1. /\ Typed /\ Good(ctx) /\ ctx \in Context /\ Usable(ctx.reg) /\ ctx.data \in Text
        /\ h # <<>> /\ h[Len(h)].turn = turns /\ p.turn = turns
        /\ Entry(ctx).thread \in {NoThread, p.thread}
    BY DEF Inv, Memory, Agents, Running, Good, Context
  <1>2. p.turn \in Nat /\ p.thread \in Nat /\ p.thread # NoThread
    BY <1>1 DEF Typed
  <1>3. Entry(ctx) \in Item /\ Entry(ctx).file = k /\ k \in Files
    BY <1>1, CurrentEntry
  <1>4. /\ e \in Item /\ e.file = k /\ e.turns = Entry(ctx).turns /\ e.thread = p.thread
        /\ e.turns \in Nat
    BY <1>2, <1>3 DEF Item
  <1>5. said \in Line /\ said.role = "assistant" /\ said.thread = p.thread
    BY <1>2 DEF Said, Line, NoThread
  <1>6. h \in Seq(Line) /\ Len(h) \in Nat /\ Len(h) > 0 /\ DOMAIN h = 1..Len(h)
    BY <1>1, LenProperties DEF Text
  <1>7. /\ Append(h, said) \in Seq(Line) /\ Len(Append(h, said)) = Len(h) + 1
        /\ \A i \in 1..Len(h) : Append(h, said)[i] = h[i]
        /\ Append(h, said)[Len(h) + 1] = said
    BY <1>5, <1>6, AppendProperties
  <1>8. text \in Text /\ text.thread = p.thread /\ text.history = Append(h, said)
    BY <1>2, <1>7 DEF Text
  <1>9. kept \in Context /\ kept.data = ctx.data /\ kept.pc = ctx.pc
    BY <1>1, <1>4, SetEntryOnly
  <1>10. new \in Context /\ new.reg = kept.reg /\ new.data = text
    <2>2. new = [pc |-> kept.pc, reg |-> kept.reg, data |-> text]
      <3>1. new = Spoken(kept, p.thread, said)
        BY DEF Answered, Spoken
      <3>2. text = [thread |-> p.thread, history |-> Append(kept.data.history, said)]
        BY <1>9
      <3> HIDE DEF kept, text, new, said
      <3>3. Spoken(kept, p.thread, said)
              = [pc |-> kept.pc, reg |-> kept.reg,
                 data |-> [thread |-> p.thread, history |-> Append(kept.data.history, said)]]
        BY <1>9, OneLineMore
      <3> QED
        BY <3>1, <3>2, <3>3
    <2> HIDE DEF kept, text
    <2> QED
      BY <1>8, <1>9, <2>2 DEF Context
  <1> HIDE DEF new, text, said, e
  <1>11. UserTurns(text) = UserTurns(ctx.data) /\ UserTurns(text) \in Nat
    BY <1>1, <1>5, <1>8, CountsOneMore, CountsType
  <1>12. faults.failures = 0 => Fits(e, text)
    BY <1>1, <1>4, <1>8, <1>11 DEF Good, Fits
  <1>13. ASSUME Faultless PROVE Exact(e, text) /\ IsPrefix(disk.files[k].history, text.history)
    <2>1. Exact(Entry(ctx), ctx.data) /\ IsPrefix(disk.files[k].history, h)
      BY <1>1, <1>13 DEF Good
    <2>2. disk.files[k].history \in Seq(Line)
      BY <1>1, <1>3 DEF Typed, Text
    <2>3. IsPrefix(disk.files[k].history, text.history)
      BY <1>5, <1>6, <1>8, <2>1, <2>2, PrefixAppend
    <2>4. DOMAIN text.history = 1..(Len(h) + 1)
      BY <1>7, <1>8, LenProperties
    <2>5. text.history[1] = h[1] /\ h[1].role = "user"
      BY <1>1, <1>6, <1>7, <1>8, <2>1 DEF Exact, Clean
    <2>6. ASSUME NEW i \in DOMAIN text.history, text.history[i].role = "assistant"
          PROVE  text.history[i].thread = text.thread /\ text.thread # NoThread
      <3>1. CASE i = Len(h) + 1
        BY <1>2, <1>5, <1>7, <1>8, <3>1
      <3>2. CASE i \in 1..Len(h)
        <4>1. text.history[i] = h[i]
          BY <1>7, <1>8, <3>2
        <4>2. h[i].thread = ctx.data.thread /\ ctx.data.thread # NoThread
          BY <1>6, <2>1, <2>6, <3>2, <4>1 DEF Exact, Clean
        <4>3. ctx.data.thread = p.thread
          BY <1>1, <2>1, <4>2 DEF Exact
        <4> QED
          BY <1>8, <4>1, <4>2, <4>3
      <3>3. i = Len(h) + 1 \/ i \in 1..Len(h)
        BY <1>6, <2>4
      <3> QED
        BY <3>1, <3>2, <3>3
    <2>7. Clean(text)
      BY <2>5, <2>6 DEF Clean
    <2>8. Exact(e, text)
      BY <1>4, <1>8, <1>11, <2>1, <2>7 DEF Exact
    <2> QED
      BY <2>3, <2>8
  <1>14. e.turns >= Entry(ctx).turns /\ (Entry(ctx).thread # NoThread => e.thread = Entry(ctx).thread)
    BY <1>1, <1>4
  <1>15. new.reg = SetEntry(ctx, e).reg
    BY <1>10 DEF e
  <1>16. Good(new)
    BY <1>1, <1>4, <1>10, <1>12, <1>13, <1>14, <1>15, GoodEntry
  <1> QED
    BY <1>16 DEF new, e, said

(* The user's line of a new turn.                                          *)
LEMMA BeginKeeps ==
    ASSUME Inv, OneConnection, NEW c \in Conns, BeginTurn(c)
    PROVE  Inv' /\ Steady
  <1> DEFINE ctx == chat[c]
             k == ctx.reg.current
             h == ctx.data.history
             turn == turns + 1
             thread == IF Entry(ctx).thread = NoThread THEN turn ELSE Entry(ctx).thread
             e == [Entry(ctx) EXCEPT !.turns = @ + 1]
             said == Said("user", turn, NoThread)
             asked == SetEntry(ctx, e)
             text == [thread |-> ctx.data.thread, history |-> Append(h, said)]
             new == [pc |-> "turn", reg |-> asked.reg, data |-> text]
             p == [conn |-> c, turn |-> turn, thread |-> thread]
  <1>1. /\ Typed /\ Disk /\ Memory /\ Agents /\ Good(ctx) /\ ctx \in Context /\ Usable(ctx.reg)
        /\ ctx.data \in Text /\ ctx.pc = "queued"
    BY Idle DEF Inv, Good, Context, BeginTurn
  <1>2. turns \in Nat /\ turn \in Nat /\ turn # NoThread
    BY <1>1 DEF Typed, NoThread
  <1>3. Entry(ctx) \in Item /\ Entry(ctx).file = k /\ k \in Files
    BY <1>1, CurrentEntry
  <1>4. /\ e \in Item /\ e.file = k /\ e.turns = Entry(ctx).turns + 1 /\ e.thread = Entry(ctx).thread
        /\ Entry(ctx).turns \in Nat /\ Entry(ctx).thread \in Nat
    BY <1>3 DEF Item
  <1>5. said \in Line /\ said.role = "user" /\ said.turn = turn
    BY <1>2 DEF Said, Line, NoThread
  <1>6. h \in Seq(Line) /\ Len(h) \in Nat /\ DOMAIN h = 1..Len(h) /\ ctx.data.thread \in Nat
    BY <1>1, LenProperties DEF Text
  <1>7. /\ Append(h, said) \in Seq(Line) /\ Len(Append(h, said)) = Len(h) + 1
        /\ \A i \in 1..Len(h) : Append(h, said)[i] = h[i]
        /\ Append(h, said)[Len(h) + 1] = said
    BY <1>5, <1>6, AppendProperties
  <1>8. text \in Text /\ text.thread = ctx.data.thread /\ text.history = Append(h, said)
    BY <1>6, <1>7 DEF Text
  <1>9. asked \in Context /\ asked.data = ctx.data /\ asked.pc = ctx.pc
    BY <1>1, <1>4, SetEntryOnly
  <1>10. new \in Context /\ new.reg = asked.reg /\ new.data = text /\ new.pc = "turn"
    BY <1>8, <1>9 DEF Context
  <1>11. chat' = [chat EXCEPT ![c] = new]
    <2>2. chat' = [chat EXCEPT ![c] = Asking(asked, said)]
      BY DEF BeginTurn, StartAgent, Asking
    <2> QED
      BY <1>9, <2>2, OneLineMore
  <1>12. procs' = procs \cup {p} /\ turns' = turn /\ disk' = disk /\ faults' = faults
    BY DEF BeginTurn, StartAgent
  <1> HIDE DEF new, text, said, e
  <1>13. UserTurns(text) = UserTurns(ctx.data) + 1 /\ UserTurns(ctx.data) \in Nat
    BY <1>1, <1>5, <1>8, CountsOneMore, CountsType
  <1>14. faults.failures = 0 => Fits(e, text)
    BY <1>1, <1>4, <1>8, <1>13 DEF Good, Fits
  <1>15. ASSUME Faultless PROVE Exact(e, text) /\ IsPrefix(disk.files[k].history, text.history)
    <2>1. Exact(Entry(ctx), ctx.data) /\ IsPrefix(disk.files[k].history, h)
      BY <1>1, <1>15 DEF Good
    <2>2. disk.files[k].history \in Seq(Line)
      BY <1>1, <1>3 DEF Typed, Text
    <2>3. IsPrefix(disk.files[k].history, text.history)
      BY <1>5, <1>6, <1>8, <2>1, <2>2, PrefixAppend
    <2>4. DOMAIN text.history = 1..(Len(h) + 1)
      BY <1>7, <1>8, LenProperties
    <2>5. text.history[1].role = "user"
      <3>1. CASE Len(h) = 0
        BY <1>5, <1>7, <1>8, <3>1
      <3>2. CASE Len(h) > 0
        <4>1. h # <<>> /\ 1 \in 1..Len(h)
          BY <1>6, <3>2
        <4> QED
          BY <1>7, <1>8, <2>1, <4>1 DEF Exact, Clean
      <3> QED
        BY <1>6, <3>1, <3>2
    <2>6. ASSUME NEW i \in DOMAIN text.history, text.history[i].role = "assistant"
          PROVE  text.history[i].thread = text.thread /\ text.thread # NoThread
      <3>1. i # Len(h) + 1
        BY <1>5, <1>7, <1>8, <2>6
      <3>2. i \in 1..Len(h)
        BY <1>6, <2>4, <3>1
      <3>3. text.history[i] = h[i]
        BY <1>7, <1>8, <3>2
      <3> QED
        BY <1>6, <1>8, <2>1, <2>6, <3>2, <3>3 DEF Exact, Clean
    <2>7. Clean(text)
      BY <2>5, <2>6 DEF Clean
    <2>8. Exact(e, text)
      BY <1>4, <1>8, <1>13, <2>1, <2>7 DEF Exact
    <2> QED
      BY <2>3, <2>8
  <1>16. e.turns >= Entry(ctx).turns /\ (Entry(ctx).thread # NoThread => e.thread = Entry(ctx).thread)
    BY <1>4
  <1>17. new.reg = SetEntry(ctx, e).reg
    BY <1>10 DEF e
  <1>18. Good(new) /\ Entry(new) = e
    BY <1>1, <1>4, <1>10, <1>14, <1>15, <1>16, <1>17, GoodEntry
  <1>19. chat' \in [Conns -> Context] /\ \A d \in Conns : chat'[d] = new
    BY <1>1, <1>10, <1>11 DEF Typed, OneConnection
  <1>20. thread \in Nat \ {NoThread}
    BY <1>2, <1>4
  <1>21. Typed'
    BY <1>1, <1>2, <1>12, <1>19, <1>20 DEF Typed
  <1>22. Disk' /\ Steady
    BY <1>1, <1>12, DiskKeeps
  <1>24. Memory'
    BY <1>10, <1>12, <1>18, <1>19, MoveKeeps
  <1>25. Agents'
    <2>1. \A q \in procs' : q.turn <= turns'
      BY <1>1, <1>2, <1>12 DEF Agents, Typed
    <2>2. \A q \in procs' : q.turn = turns' => q = p
      BY <1>1, <1>2, <1>12 DEF Agents, Typed
    <2>3. e.thread \in {NoThread, p.thread}
      BY <1>4
    <2>4. LET g == new.data.history IN g # <<>> /\ g[Len(g)].turn = turns'
      BY <1>5, <1>6, <1>7, <1>8, <1>10, <1>12
    <2> QED
      BY <1>18, <1>19, <2>1, <2>2, <2>3, <2>4 DEF Agents
  <1> QED
    BY <1>21, <1>22, <1>24, <1>25 DEF Inv

-----------------------------------------------------------------------------
(* The first state and every action.                                       *)

LEMMA InitInv == ASSUME Init PROVE Inv
  <1>1. PICK first \in {Blank, OldTranscript} :
            /\ disk = [registry |-> NoRegistry,
                       files |-> [f \in Files |-> IF f = 1 THEN first ELSE Blank]]
            /\ turns = IF first = Blank THEN 0 ELSE 1
    BY DEF Init
  <1>2. Blank \in Text /\ Clean(Blank) /\ NoRegistry \in Book
    BY CountsBlank DEF NoRegistry, Book
  <1>3. OldTranscript \in Text /\ Clean(OldTranscript)
    <2> DEFINE a == Said("user", 1, NoThread)
               b == Said("assistant", 1, 1)
    <2>1. a \in Line /\ b \in Line /\ a.role = "user" /\ b.role = "assistant" /\ b.thread = 1
      BY DEF Said, Line, NoThread
    <2>2. <<a, b>> \in Seq(Line)
      BY <2>1
    <2>3. OldTranscript = [thread |-> 1, history |-> <<a, b>>]
      BY DEF OldTranscript
    <2> HIDE DEF a, b
    <2>4. OldTranscript \in Text
      BY <2>2, <2>3 DEF Text
    <2>5. \A i \in DOMAIN <<a, b>> : i \in {1, 2}
      OBVIOUS
    <2>6. <<a, b>>[1] = a /\ <<a, b>>[2] = b
      OBVIOUS
    <2>7. Clean(OldTranscript)
      BY <2>1, <2>3, <2>5, <2>6 DEF Clean, NoThread
    <2> QED
      BY <2>4, <2>7
  <1>4. 1 \in Files
    BY ChatSessionsAssumption DEF Files
  <1>5. first \in Text /\ Clean(first) /\ disk.files[1] = first /\ disk.registry = NoRegistry
        /\ \A f \in Files : f # 1 => disk.files[f] = Blank
    BY <1>1, <1>2, <1>3, <1>4
  <1>6. /\ disk \in [registry : Book, files : [Files -> Text]]
        /\ chat = [c \in Conns |-> Closed] /\ procs = {} /\ turns \in Nat
        /\ faults = [crashes |-> 0, failures |-> 0]
    BY <1>1, <1>2, <1>5 DEF Init
  <1>7. Closed \in Context /\ Closed.pc = "closed"
    BY <1>2 DEF Closed, Context
  <1>8. Typed
    BY <1>6, <1>7 DEF Typed
  <1> DEFINE e == [NewEntry(1) EXCEPT !.thread = first.thread, !.turns = UserTurns(first)]
  <1>9. Load = [current |-> 1, sessions |-> <<e>>]
    BY <1>5 DEF Load, Adopted
  <1>10. e.thread = first.thread /\ e.turns = UserTurns(first)
    BY DEF NewEntry
  <1>11. Exact(e, first)
    BY <1>5, <1>10 DEF Exact
  <1> HIDE DEF e
  <1>12. DOMAIN Load.sessions = {1} /\ Load.sessions[1] = e
    BY <1>9
  <1>13. Disk
    BY <1>5, <1>11, <1>12 DEF Disk, NoRegistry
  <1>14. Memory /\ Agents
    BY <1>6, <1>7 DEF Memory, Agents
  <1> QED
    BY <1>8, <1>13, <1>14 DEF Inv

(* What a connection loads when it opens.                                  *)
LEMMA LoadGood ==
    ASSUME Inv
    PROVE  LET new == [pc |-> "idle", reg |-> Load,
                       data |-> disk.files[Load.sessions[Load.current].file]]
           IN  new \in Context /\ Good(new) /\ new.data = disk.files[new.reg.current]
  <1> DEFINE new == [pc |-> "idle", reg |-> Load,
                     data |-> disk.files[Load.sessions[Load.current].file]]
             e == [NewEntry(1) EXCEPT !.thread = disk.files[1].thread,
                                      !.turns = UserTurns(disk.files[1])]
  <1>1. Typed /\ Disk
    BY DEF Inv
  <1>2. /\ Load \in Book /\ Usable(Load) /\ Grown(disk.registry, Load)
        /\ faults.failures = 0 =>
              \A i \in DOMAIN Load.sessions : Fits(Load.sessions[i], disk.files[i])
    <2>1. CASE disk.registry = NoRegistry
      <3>1. 1 \in Files
        BY ChatSessionsAssumption DEF Files
      <3>2. disk.files[1] \in Text
        BY <1>1, <3>1 DEF Typed
      <3>3. UserTurns(disk.files[1]) \in Nat /\ disk.files[1].thread \in Nat
        BY <3>2, CountsType DEF Text
      <3>4. e \in Item /\ e.file = 1 /\ e.thread = disk.files[1].thread
            /\ e.turns = UserTurns(disk.files[1])
        BY <3>1, <3>3 DEF NewEntry, Item
      <3>5. Load = [current |-> 1, sessions |-> <<e>>]
        BY <2>1 DEF Load, Adopted
      <3> HIDE DEF e
      <3>6. /\ Load.current = 1 /\ DOMAIN Load.sessions = {1} /\ Load.sessions[1] = e
            /\ Load.sessions \in Seq(Item)
        BY <3>4, <3>5
      <3>7. Load \in Book
        BY <3>4, <3>5 DEF Book
      <3>8. Usable(Load)
        BY <3>4, <3>6 DEF Usable
      <3>9. Grown(disk.registry, Load)
        BY <2>1 DEF Grown, NoRegistry
      <3>10. Fits(e, disk.files[1])
        BY <3>3, <3>4 DEF Fits
      <3> QED
        BY <3>6, <3>7, <3>8, <3>9, <3>10
    <2>2. CASE disk.registry # NoRegistry
      <3>1. Load = disk.registry /\ disk.registry \in Book
        BY <1>1, <2>2 DEF Load, Typed
      <3> QED
        BY <1>1, <2>2, <3>1, GrownSelf DEF Disk
    <2> QED
      BY <2>1, <2>2
  <1>3. /\ Load.current \in DOMAIN Load.sessions /\ Load.current \in Files
        /\ Load.sessions[Load.current].file = Load.current
    BY <1>2, InFiles DEF Usable
  <1>4. disk.files[Load.current] \in Text
    BY <1>1, <1>3 DEF Typed
  <1>5. /\ new.pc = "idle" /\ new.reg = Load /\ new.data = disk.files[Load.current]
        /\ new \in Context /\ Entry(new) = Load.sessions[Load.current]
    BY <1>2, <1>3, <1>4 DEF Context, Entry
  <1>6. IsPrefix(disk.files[Load.current].history, new.data.history)
    BY <1>4, <1>5, PrefixSelf DEF Text
  <1>7. Faultless =>
            /\ \A i \in DOMAIN Load.sessions : Exact(Load.sessions[i], disk.files[i])
            /\ \A f \in Files : f \notin DOMAIN Load.sessions => disk.files[f] = Blank
    BY <1>1 DEF Disk
  <1> HIDE DEF new
  <1>8. Good(new)
    BY <1>2, <1>3, <1>5, <1>6, <1>7 DEF Good
  <1> QED
    BY <1>5, <1>8 DEF new

LEMMA StepInv == ASSUME OneConnection, Inv, [Next]_vars PROVE Inv' /\ Steady
  <1>0. Typed /\ Disk /\ Memory /\ Agents
    BY DEF Inv
  <1>1. ASSUME NEW c \in Conns, Open(c) PROVE Inv' /\ Steady
    <2> DEFINE new == [pc |-> "idle", reg |-> Load,
                       data |-> disk.files[Load.sessions[Load.current].file]]
    <2>1. new \in Context /\ Good(new) /\ new.pc = "idle" /\ new.data = disk.files[new.reg.current]
      BY LoadGood
    <2>2. chat' = [chat EXCEPT ![c] = new] /\ UNCHANGED <<disk, queue, procs, turns, faults>>
      BY <1>1 DEF Open
    <2> HIDE DEF new
    <2>3. chat' \in [Conns -> Context] /\ \A d \in Conns : chat'[d] = new
      BY <1>0, <2>1, <2>2 DEF Typed, OneConnection
    <2>4. Memory'
      BY <2>1, <2>2, <2>3, MoveKeeps
    <2>5. Disk' /\ Steady
      BY <1>0, <2>2, DiskKeeps
    <2>6. Typed' /\ Agents'
      BY <1>0, <2>1, <2>2, <2>3 DEF Typed, Agents
    <2> QED
      BY <2>4, <2>5, <2>6 DEF Inv
  <1>2. ASSUME chat' \in [Conns -> Context], \A d \in Conns : chat'[d].pc = "closed",
               procs' \subseteq procs, UNCHANGED <<disk, turns, faults>>
        PROVE  Inv' /\ Steady
    <2>1. Disk' /\ Steady
      BY <1>0, <1>2, DiskKeeps
    <2>2. Typed'
      BY <1>0, <1>2 DEF Typed
    <2>3. Memory' /\ Agents'
      BY <1>0, <1>2 DEF Memory, Agents
    <2> QED
      BY <2>1, <2>2, <2>3 DEF Inv
  <1>3. Closed \in Context /\ Closed.pc = "closed"
    <2>1. Blank \in Text
      BY CountsBlank
    <2>2. NoRegistry \in Book
      BY DEF NoRegistry, Book
    <2> QED
      BY <2>1, <2>2 DEF Closed, Context
  <1>4. ASSUME NEW c \in Conns, Close(c) PROVE Inv' /\ Steady
    <2>1. chat' \in [Conns -> Context] /\ \A d \in Conns : chat'[d] = Closed
      BY <1>0, <1>3, <1>4 DEF Close, Typed, OneConnection
    <2> QED
      BY <1>2, <1>3, <1>4, <2>1 DEF Close
  <1>5. ASSUME Restart PROVE Inv' /\ Steady
    <2>1. chat' \in [Conns -> Context] /\ \A d \in Conns : chat'[d] = Closed
      BY <1>3, <1>5 DEF Restart, ProcessDies
    <2> QED
      BY <1>2, <1>3, <1>5, <2>1 DEF Restart, ProcessDies
  <1>6. ASSUME NEW c \in Conns, AskForTurn(c) PROVE Inv' /\ Steady
    <2> DEFINE new == [chat[c] EXCEPT !.pc = "queued"]
    <2>1. /\ Good(chat[c]) /\ chat[c] \in Context
          /\ faults.failures = 0 => chat[c].data = disk.files[chat[c].reg.current]
      BY <1>6, Idle DEF Inv, AskForTurn
    <2>2. new \in Context /\ new.pc = "queued" /\ new.reg = chat[c].reg /\ new.data = chat[c].data
          /\ Entry(new) = Entry(chat[c])
      BY <2>1, OtherPc
    <2>3. chat' = [chat EXCEPT ![c] = new] /\ UNCHANGED <<disk, procs, turns, faults>>
      BY <1>6 DEF AskForTurn
    <2> HIDE DEF new
    <2>4. Good(new)
      BY <2>1, <2>2 DEF Good
    <2>5. chat' \in [Conns -> Context] /\ \A d \in Conns : chat'[d] = new
      BY <1>0, <2>2, <2>3 DEF Typed, OneConnection
    <2>6. Memory'
      BY <2>1, <2>2, <2>3, <2>4, <2>5, MoveKeeps
    <2>7. Disk' /\ Steady
      BY <1>0, <2>3, DiskKeeps
    <2>8. Typed' /\ Agents'
      BY <1>0, <2>2, <2>3, <2>5 DEF Typed, Agents
    <2> QED
      BY <2>6, <2>7, <2>8 DEF Inv
  <1>7. ASSUME NEW c \in Conns, NEW ctx, Good(ctx), Command(c, ctx) PROVE Inv' /\ Steady
    <2>1. Save(c, ctx, AnyPartial(ctx), procs) /\ turns' = turns
      BY <1>7 DEF Command
    <2>2. AnyPartial(ctx) \subseteq {disk, HalfWritten(ctx)}
      BY DEF AnyPartial
    <2> QED
      BY <1>7, <2>1, <2>2, SaveKeeps
  <1>8. ASSUME NEW c \in Conns, CmdShow(c) PROVE Inv' /\ Steady
    <2>1. Good(chat[c])
      BY <1>8, Idle DEF CmdShow
    <2> QED
      BY <1>7, <1>8, <2>1 DEF CmdShow
  <1>9. ASSUME NEW c \in Conns, CmdModel(c) PROVE Inv' /\ Steady
    <2>1. PICK m \in Models : Command(c, SetEntry(chat[c], [Entry(chat[c]) EXCEPT !.model = m]))
      BY <1>9 DEF CmdModel
    <2>2. Good(SetEntry(chat[c], [Entry(chat[c]) EXCEPT !.model = m]))
      BY <1>9, GoodModel DEF CmdModel
    <2> QED
      BY <1>7, <2>1, <2>2
  <1>10. ASSUME NEW c \in Conns, CmdResume(c) PROVE Inv' /\ Steady
    <2>1. PICK i \in DOMAIN chat[c].reg.sessions : Command(c, Switch(chat[c], i))
      BY <1>10 DEF CmdResume
    <2>2. Good(Switch(chat[c], i))
      BY <1>0, <1>10, Idle, GoodSwitch DEF CmdResume
    <2> QED
      BY <1>7, <2>1, <2>2
  <1>11. ASSUME NEW c \in Conns, CmdNew(c) PROVE Inv' /\ Steady
    <2>1. Good(Start(chat[c]))
      BY <1>11, GoodStart DEF CmdNew
    <2> QED
      BY <1>7, <1>11, <2>1 DEF CmdNew
  <1>12. ASSUME NEW c \in Conns, CmdNewResets(c) PROVE Inv' /\ Steady
    <2> DEFINE ctx == [chat[c] EXCEPT !.data = Blank]
    <2>1. Good(ctx)
      BY <1>12, GoodReset DEF CmdNewResets
    <2>2. CASE Save(c, ctx, {TranscriptWritten(ctx)}, procs)
      <3>1. {TranscriptWritten(ctx)} \subseteq {disk, HalfWritten(ctx)} /\ turns' = turns
        BY <1>12 DEF HalfWritten, CmdNewResets
      <3> HIDE DEF ctx
      <3> QED
        BY <2>1, <2>2, <3>1, SaveKeeps
    <2>3. CASE /\ faults' = [faults EXCEPT !.failures = @ + 1]
               /\ chat' = [chat EXCEPT ![c] = Closed]
               /\ UNCHANGED <<disk, queue, procs>>
      <3>1. turns' = turns
        BY <1>12 DEF CmdNewResets
      <3> HIDE DEF ctx
      <3> QED
        BY <2>1, <2>3, <3>1, Fails
    <2> QED
      BY <1>12, <2>2, <2>3 DEF CmdNewResets
  <1>13. ASSUME NEW c \in Conns, NEW ctx, Good(ctx), NEW agents, agents \subseteq procs,
                EndTurn(c, ctx, agents)
         PROVE  Inv' /\ Steady
    <2>1. Save(c, ctx, AnyPartial(ctx), agents) /\ turns' = turns
      BY <1>13 DEF EndTurn
    <2>2. AnyPartial(ctx) \subseteq {disk, HalfWritten(ctx)}
      BY DEF AnyPartial
    <2> QED
      BY <1>13, <2>1, <2>2, SaveKeeps
  <1>14. ASSUME NEW c \in Conns, AgentAnswers(c) PROVE Inv' /\ Steady
    <2>1. PICK p \in procs : Running(c, p) /\ EndTurn(c, Answered(chat[c], p), procs \ {p})
      BY <1>14 DEF AgentAnswers
    <2>2. Good(Answered(chat[c], p))
      BY <2>1, GoodAnswer
    <2> QED
      BY <1>13, <2>1, <2>2
  <1>15. ASSUME NEW c \in Conns, NEW p \in procs, Running(c, p) PROVE Good(chat[c])
    BY <1>0, <1>15 DEF Memory, Running
  <1>16. ASSUME NEW c \in Conns, AgentFails(c) PROVE Inv' /\ Steady
    <2>1. PICK p \in procs : Running(c, p) /\ EndTurn(c, chat[c], procs \ {p})
      BY <1>16 DEF AgentFails
    <2> QED
      BY <1>13, <1>15, <2>1
  <1>17. ASSUME NEW c \in Conns, ProgressLost(c) PROVE Inv' /\ Steady
    <2>1. PICK p \in procs : Running(c, p) /\ EndTurn(c, chat[c], procs)
      BY <1>17 DEF ProgressLost
    <2> QED
      BY <1>13, <1>15, <2>1
  <1>18. ASSUME procs' \subseteq procs, UNCHANGED <<disk, chat, turns, faults>>
         PROVE  Inv' /\ Steady
    <2>1. Disk' /\ Steady
      BY <1>0, <1>18, DiskKeeps
    <2>2. Typed' /\ Agents'
      BY <1>0, <1>18 DEF Typed, Agents, Entry
    <2>3. Memory'
      BY <1>0, <1>18 DEF Memory, Good, Faultless, Entry
    <2> QED
      BY <2>1, <2>2, <2>3 DEF Inv
  <1>19. ASSUME OrphanExits PROVE Inv' /\ Steady
    BY <1>18, <1>19 DEF OrphanExits
  <1>20. ASSUME UNCHANGED vars PROVE Inv' /\ Steady
    BY <1>18, <1>20 DEF vars
  <1> QED
    BY <1>1, <1>4, <1>5, <1>6, <1>8, <1>9, <1>10, <1>11, <1>12, <1>14, <1>16, <1>17, <1>19, <1>20,
       BeginKeeps DEF Next, Commands, Turn

-----------------------------------------------------------------------------
(* The theorems.                                                           *)

LEMMA SpecInv == ASSUME OneConnection PROVE Spec => []Inv
  <1>1. Inv /\ [Next]_vars => Inv'
    BY StepInv
  <1> QED
    BY InitInv, <1>1, PTL DEF Spec

(* RegistryNeverAhead, with one connection: save() writes the transcript before the registry,   *)
(* and every command and turn of handle() brings the two to agree in       *)
(* memory; so a crash between the writes can only leave the registry       *)
(* behind, whatever it cuts short.                                         *)
THEOREM NeverAhead == ASSUME OneConnection PROVE Spec => []RegistryNeverAhead
  <1>1. Inv => RegistryNeverAhead
    <2> SUFFICES ASSUME Inv, faults.failures = 0, NEW i \in DOMAIN disk.registry.sessions
                 PROVE  LET e == disk.registry.sessions[i]
                            t == disk.files[e.file]
                        IN  /\ e.turns <= UserTurns(t)
                            /\ e.thread # NoThread => e.thread = t.thread
      BY DEF RegistryNeverAhead
    <2>1. disk.registry # NoRegistry
      BY DEF NoRegistry
    <2>2. disk.registry.sessions[i].file = i /\ Fits(disk.registry.sessions[i], disk.files[i])
      BY <2>1 DEF Inv, Disk, Usable
    <2> QED
      BY <2>2 DEF Fits
  <1> QED
    BY SpecInv, <1>1, PTL

(* OneThreadPerSession, provided that OneConnection holds: while no save   *)
(* fails or is cut, Chat.ask resumes the thread that gave the earlier      *)
(* answers of the transcript it continues, through /resume, /new,          *)
(* reconnects and restarts.  Two connections that share a session each     *)
(* start a thread of their own for it.                                     *)
THEOREM OneThread == ASSUME OneConnection PROVE Spec => []OneThreadPerSession
  <1>1. Inv => OneThreadPerSession
    <2> SUFFICES ASSUME Inv, Faultless, NEW f \in Files,
                        NEW i \in DOMAIN disk.files[f].history, NEW j \in DOMAIN disk.files[f].history,
                        disk.files[f].history[i].role = "assistant",
                        disk.files[f].history[j].role = "assistant"
                 PROVE  disk.files[f].history[i].thread = disk.files[f].history[j].thread
      BY DEF OneThreadPerSession
    <2>1. CASE f \in DOMAIN Load.sessions
      <3>1. Clean(disk.files[f])
        BY <2>1 DEF Inv, Disk, Exact
      <3> QED
        BY <3>1 DEF Clean
    <2>2. CASE f \notin DOMAIN Load.sessions
      <3>1. disk.files[f] = Blank
        BY <2>2 DEF Inv, Disk
      <3>2. Clean(disk.files[f])
        BY <3>1, CountsBlank
      <3> QED
        BY <3>2 DEF Clean
    <2> QED
      BY <2>1, <2>2
  <1> QED
    BY SpecInv, <1>1, PTL

(* HistoryGrows, provided that OneConnection holds: while no save fails or *)
(* is cut, no command, turn, reconnect or restart takes a line out of a    *)
(* transcript file.  A second connection's save would replace the file by  *)
(* its own copy.                                                           *)
THEOREM NothingForgotten == ASSUME OneConnection PROVE Spec => HistoryGrows
  <1>1. Inv /\ [Next]_vars =>
            [Faultless =>
                \A f \in Files : IsPrefix(disk.files[f].history, disk'.files[f].history)]_vars
    BY StepInv DEF Steady
  <1> QED
    BY SpecInv, <1>1, PTL DEF Spec, HistoryGrows

(* OrdinalsStable, provided that OneConnection holds: "the number is the   *)
(* session's registry ordinal -- stable" (docs/chat-commands.md:33): an    *)
(* ordinal keeps its file, its turns and its thread, through crashes and   *)
(* failed saves too.                                                       *)
THEOREM SameOrdinals == ASSUME OneConnection PROVE Spec => OrdinalsStable
  <1>1. Inv /\ [Next]_vars =>
            [\A i \in DOMAIN disk.registry.sessions :
                LET old == disk.registry.sessions[i]
                    new == disk'.registry.sessions[i]
                IN  /\ i \in DOMAIN disk'.registry.sessions
                    /\ new.file = old.file /\ new.turns >= old.turns
                    /\ old.thread # NoThread => new.thread = old.thread]_vars
    BY StepInv DEF Steady
  <1> QED
    BY SpecInv, <1>1, PTL DEF Spec, OrdinalsStable
=============================================================================
