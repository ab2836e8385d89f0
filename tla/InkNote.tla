------------------------------ MODULE InkNote ------------------------------
(***************************************************************************)
(* pkg_publisher.py, POST /ink: a note is sent as one body, or page by     *)
(* page; every page is drawn into a file and read by codex.  Each request  *)
(* has a thread of its own; the pages of a note are gathered in one entry  *)
(* per Newton address, read by a pool of workers, and answered together by *)
(* the thread of the last page.                                            *)
(*                                                                         *)
(* The Newton sends one note after the other, but it may give a note up    *)
(* and send the next while threads and workers of the old one go on.       *)
(* `crossed` says what was left of older notes when a note began: a thread *)
(* that had still to draw or to append, or one that only waited.           *)
(*                                                                         *)
(* ToolBroker is of the same source file, and PublisherProofs extends both:*)
(* where the two would share a name, the one here says Ink, Page or Note.  *)
(***************************************************************************)
EXTENDS Integers, Sequences, FiniteSets

CONSTANTS
    Pages,          \* Pages[n] is the number of pages of the n-th note
    NoEntry,        \* ink_parts holds nothing for the address
    Workers         \* INK_WORKERS

ASSUME PagesAssumption == Pages \in Seq(Nat \ {0})
ASSUME NoEntryAssumption == NoEntry \notin [total : Nat, futures : Seq(Nat \X Nat)]
ASSUME WorkersAssumption == Workers \in Nat \ {0}

VARIABLES
    device,     \* the note and page the Newton has sent, and whether it waits
    shown,      \* what the Newton got for every note
    request,    \* the live handler threads, by note and page
    entry,      \* ink_parts for the address
    picture,    \* the note whose drawing is in every file; page 0: ink_path
    job,        \* the readings submitted to the pool
    crossed

inkVars == <<device, shown, request, entry, picture, job, crossed>>

Notes == 1..Len(Pages)
Single(n) == Pages[n] = 1
File(r) == IF Single(r[1]) THEN 0 ELSE r[2]
Page == UNION {{n} \X (1..Pages[n]) : n \in Notes}

Put(f, k, v) == [x \in DOMAIN f \cup {k} |-> IF x = k THEN v ELSE f[x]]
Without(f, k) == [x \in DOMAIN f \ {k} |-> f[x]]

InkInit ==
    /\ device = [note |-> 0, page |-> 0, waits |-> FALSE]
    /\ shown = [n \in Notes |-> [how |-> "nothing", text |-> <<>>]]
    /\ request = [x \in {} |-> 0]
    /\ entry = NoEntry
    /\ picture = [k \in {0} \cup {r[2] : r \in Page} |-> 0]
    /\ job = [x \in {} |-> 0]
    /\ crossed = [n \in Notes |-> "no"]

-----------------------------------------------------------------------------
(* The Newton.                                                             *)

Early == {"check", "save", "submit", "append"}
Arrives(r) == Put(request, r, [step |-> "check", futures |-> <<>>])

SendNote ==
    LET n == device.note + 1
    IN /\ ~device.waits /\ n \in Notes
       /\ device' = [note |-> n, page |-> 1, waits |-> TRUE]
       /\ request' = Arrives(<<n, 1>>)
       /\ crossed' = [crossed EXCEPT ![n] =
              IF \E r \in DOMAIN request : request[r].step \in Early THEN "early"
              ELSE IF DOMAIN request # {} THEN "waiting" ELSE "no"]
       /\ UNCHANGED <<shown, entry, picture, job>>

\* What the thread of request r ends with, if the Newton still waits for it.
Listens(r) == device.waits /\ device.note = r[1] /\ device.page = r[2]

Shows(r, how, text) ==
    /\ shown' = IF Listens(r) THEN [shown EXCEPT ![r[1]] = [how |-> how, text |-> text]]
                ELSE shown
    /\ device' = IF Listens(r) THEN [device EXCEPT !.waits = FALSE] ELSE device

(* The connection is lost, the watchdog expires or the user disconnects.   *)
GiveUp ==
    /\ device.waits
    /\ device' = [device EXCEPT !.waits = FALSE]
    /\ shown' = [shown EXCEPT ![device.note].how = "lost"]
    /\ UNCHANGED <<request, entry, picture, job, crossed>>

-----------------------------------------------------------------------------
(* The thread of one page.                                                 *)

On(r, step) == r \in DOMAIN request /\ request[r].step = step
Goes(r, step) == request' = [request EXCEPT ![r].step = step]
Ends(r) == request' = Without(request, r)

Fits(r) ==
    /\ entry # NoEntry
    /\ entry.total = Pages[r[1]] /\ Len(entry.futures) + 1 = r[2]

(* The body ends with the connection and does not parse: nothing of the    *)
(* page stays.                                                             *)
BadBody(r) ==
    /\ On(r, "check") /\ ~Listens(r)
    /\ Ends(r)
    /\ UNCHANGED <<device, shown, entry, picture, job, crossed>>

\* (Mutant of Check: the entry of an abandoned note is taken over.)
CheckTakesOver(r) ==
    /\ On(r, "check")
    /\ IF r[2] = 1 /\ entry = NoEntry /\ ~Single(r[1])
       THEN entry' = [total |-> Pages[r[1]], futures |-> <<>>] ELSE entry' = entry
    /\ IF r[2] = 1 \/ Fits(r) THEN Goes(r, "save") /\ UNCHANGED <<device, shown>>
       ELSE Ends(r) /\ Shows(r, "refused", <<>>)
    /\ UNCHANGED <<picture, job, crossed>>

(* Page 1 makes a new entry; a later page must be the next of the entry's. *)
Check(r) ==
    /\ On(r, "check")
    /\ entry' = IF r[2] = 1 /\ ~Single(r[1])
                THEN [total |-> Pages[r[1]], futures |-> <<>>] ELSE entry
    /\ IF r[2] = 1 \/ Fits(r) THEN Goes(r, "save") /\ UNCHANGED <<device, shown>>
       ELSE Ends(r) /\ Shows(r, "refused", <<>>)
    /\ UNCHANGED <<picture, job, crossed>>

Save(r) ==
    /\ On(r, "save")
    /\ picture' = [picture EXCEPT ![File(r)] = r[1]]
    /\ Goes(r, IF Single(r[1]) THEN "wait" ELSE "submit")
    /\ UNCHANGED <<device, shown, entry, job, crossed>>

SubmitPage(r) ==
    /\ On(r, "submit")
    /\ job' = Put(job, r, [state |-> "queued", note |-> 0])
    /\ Goes(r, "append")
    /\ UNCHANGED <<device, shown, entry, picture, crossed>>

WithPage(r) == Append(entry.futures, r)

\* (Mutant of AppendLost: the thread hangs.)
AppendLostHangs(r) ==
    /\ On(r, "append") /\ entry = NoEntry
    /\ UNCHANGED inkVars

(* The entry is looked up again; without one the thread dies of a KeyError *)
(* and the connection closes.  INKP asks the Newton for the next page.     *)
AppendLost(r) ==
    /\ On(r, "append") /\ entry = NoEntry
    /\ Ends(r) /\ Shows(r, "refused", <<>>)
    /\ UNCHANGED <<entry, picture, job, crossed>>

AppendLast(r) ==
    /\ On(r, "append") /\ entry # NoEntry /\ r[2] = Pages[r[1]]
    /\ entry' = [entry EXCEPT !.futures = WithPage(r)]
    /\ request' = [request EXCEPT ![r] = [step |-> "wait", futures |-> WithPage(r)]]
    /\ UNCHANGED <<device, shown, picture, job, crossed>>

AppendInkp(r) ==
    /\ On(r, "append") /\ entry # NoEntry /\ r[2] < Pages[r[1]]
    /\ entry' = [entry EXCEPT !.futures = WithPage(r)]
    /\ IF Listens(r)
       THEN /\ device' = [device EXCEPT !.page = r[2] + 1]
            /\ request' = Put(Without(request, r), <<r[1], r[2] + 1>>,
                              [step |-> "check", futures |-> <<>>])
       ELSE Ends(r) /\ UNCHANGED device
    /\ UNCHANGED <<shown, picture, job, crossed>>

(* A STATUS line meets a closed connection: the thread ends before its     *)
(* `try`, and the entry stays.                                             *)
StatusFails(r) ==
    /\ On(r, "wait") /\ ~Listens(r)
    /\ Ends(r)
    /\ UNCHANGED <<device, shown, entry, picture, job, crossed>>

Readings(r) ==
    IF Single(r[1]) THEN <<<<picture[0], 1>>>>
    ELSE [i \in DOMAIN request[r].futures |->
             <<job[request[r].futures[i]].note, request[r].futures[i][2]>>]

Ready(r) == \A i \in DOMAIN request[r].futures : job[request[r].futures[i]].state = "done"

\* (Mutant of AnswerNote: whatever has been read by now.)
AnswerEarly(r) ==
    /\ On(r, "wait")
    /\ Ends(r) /\ Shows(r, "read", Readings(r))
    /\ entry' = IF Single(r[1]) THEN entry ELSE NoEntry
    /\ UNCHANGED <<picture, job, crossed>>

(* The readings are joined, or one of them failed; either way the entry of *)
(* the address goes, whoever has made it.                                  *)
AnswerNote(r) ==
    /\ On(r, "wait") /\ Ready(r)
    /\ Ends(r)
    /\ \/ Shows(r, "read", Readings(r))
       \/ Shows(r, "error", <<>>)
    /\ entry' = IF Single(r[1]) THEN entry ELSE NoEntry
    /\ UNCHANGED <<picture, job, crossed>>

-----------------------------------------------------------------------------
(* The pool.  A reading ends by itself or by INK_TIMEOUT.                  *)

Running == {r \in DOMAIN job : job[r].state = "running"}

Start(r) ==
    /\ r \in DOMAIN job /\ job[r].state = "queued"
    /\ Cardinality(Running) < Workers
    /\ job' = [job EXCEPT ![r] = [state |-> "running", note |-> picture[r[2]]]]
    /\ UNCHANGED <<device, shown, request, entry, picture, crossed>>

Finish(r) ==
    /\ r \in Running
    /\ job' = [job EXCEPT ![r].state = "done"]
    /\ UNCHANGED <<device, shown, request, entry, picture, crossed>>

-----------------------------------------------------------------------------
Thread(r) ==
    \/ BadBody(r) \/ Check(r) \/ Save(r) \/ SubmitPage(r)
    \/ AppendLost(r) \/ AppendLast(r) \/ AppendInkp(r) \/ StatusFails(r) \/ AnswerNote(r)

InkNext ==
    \/ SendNote \/ GiveUp
    \/ \E r \in Page : Thread(r) \/ Start(r) \/ Finish(r)

InkSpec == InkInit /\ [][InkNext]_inkVars

(* Threads and workers run; nothing makes the Newton give up.              *)
InkFairSpec == InkSpec /\ \A r \in Page : WF_inkVars(Thread(r)) /\ WF_inkVars(Start(r)) /\ WF_inkVars(Finish(r))

-----------------------------------------------------------------------------
(* Properties                                                              *)

Files == {0} \cup {r[2] : r \in Page}

InkTypeOK ==
    /\ device \in [note : {0} \cup Notes, page : Nat, waits : BOOLEAN]
    /\ shown \in [Notes -> [how : {"nothing", "lost", "refused", "error", "read"},
                            text : Seq((Notes \cup {0}) \X Nat)]]
    /\ DOMAIN request \subseteq Page
    /\ request \in [DOMAIN request ->
                        [step : Early \cup {"wait"}, futures : Seq(DOMAIN job)]]
    /\ entry = NoEntry \/ entry \in [total : Nat, futures : Seq(DOMAIN job)]
    /\ picture \in [Files -> {0} \cup Notes]
    /\ DOMAIN job \subseteq Page
    /\ job \in [DOMAIN job ->
                    [state : {"queued", "running", "done"}, note : {0} \cup Notes]]
    /\ crossed \in [Notes -> {"no", "early", "waiting"}]

(* The reading that the Newton files for a note was made from that note's  *)
(* own pages, all of them, in their order, though the files and the entry  *)
(* are shared with notes that were given up.  (Not promised when a thread  *)
(* of an older note has still to draw or to append.)                       *)
ReadsItsPages ==
    \A n \in Notes : shown[n].how = "read" /\ crossed[n] # "early" =>
        /\ Len(shown[n].text) = Pages[n]
        /\ \A k \in 1..Pages[n] : shown[n].text[k] = <<n, k>>

(* A page is refused only when something was still left of an older note:  *)
(* no sequence of notes, given up or not, leaves an entry that spoils a    *)
(* later one.                                                              *)
RefusedOnlyIfCrossed ==
    \A n \in Notes : shown[n].how = "refused" => crossed[n] # "no"

(* The Newton, whose watchdog is not relied on, gets an end of every note: *)
(* no thread is left waiting for a reading that never comes, also when the *)
(* pool is full of the pages of notes given up.                            *)
NoteEnds == device.waits ~> ~device.waits

(* docs/ef9-ink-pagination.md:23: "Starting a new part 1 resets an         *)
(* abandoned stream."  The code violates this when the last page's thread  *)
(* of an older note still waits: no configuration lists it.                *)
NewStreamAccepted ==
    \A n \in Notes : shown[n].how = "refused" => crossed[n] = "early"
=============================================================================
