------------------------------ MODULE DockDump ------------------------------
(***************************************************************************)
(* runtime/newton_backup.py with --dump: one process per run docks with    *)
(* the Newton, walks its stores and soups and writes one file pair per     *)
(* entry, then a manifest.  A run may lose the Newton or be killed at any  *)
(* point; --resume continues in the directory an earlier run left.         *)
(*                                                                         *)
(* `phase` names what the run waits for: the packet expected next, or the  *)
(* file it writes next.  A soup's directory is a function from file        *)
(* numbers to the pair of files; a "cut" file may be empty.  The entries of *)
(* a soup change while the Newton is undocked; the stores and soups do not:*)
(* directories are numbered by position (newton_backup.py:338), and what a *)
(* card or a soup added before a resume does to them is not modelled.      *)
(***************************************************************************)
EXTENDS Integers, Sequences, FiniteSets

CONSTANTS
    Stores,         \* Stores[s] is the number of soups on store s
    Entries,        \* the entries a soup may hold
    Undecodable,    \* those nsof_decode refuses
    Unencodable,    \* those whose text the locale's encoding cannot write
    First,          \* what every soup holds at first
    MaxRuns,        \* bound: runs of the program
    MaxChanges,     \* bound: entries added or deleted between runs
    MaxKills        \* bound: runs killed

ASSUME StoresAssumption == Stores \in Seq(Nat)

Dirs == UNION {{<<s, n>> : n \in 1..Stores[s]} : s \in 1..Len(Stores)}

ASSUME FirstAssumption == First \in [Dirs -> Seq(Entries)]
ASSUME BoundsAssumption == MaxRuns \in Nat /\ MaxChanges \in Nat /\ MaxKills \in Nat

VARIABLES
    listing,    \* the entries of every soup, in the order gids lists them
    file,       \* the file pairs in every soup's directory
    exists,     \* the dump directory exists
    manifest,   \* manifest.json and the counts it states
    phase,      \* what the run waits for; "idle": no run
    resume,     \* --resume
    at,         \* the store and soup being read
    ids,        \* the soup's entries, as listed to this run
    written,    \* how many of them have files
    counts,     \* what the run will state in the manifest
    runs, changes, kills

device == <<listing, changes>>
disk == <<file, exists, manifest>>
cursor == <<at, ids, written, counts>>
vars == <<device, disk, cursor, phase, resume, runs, kills>>

Empty == [x \in {} |-> 0]
Put(f, k, v) == [x \in DOMAIN f \cup {k} |-> IF x = k THEN v ELSE f[x]]

Pair == [entry : Entries, nsof : {"cut", "whole"}, json : {"none", "cut", "whole"}]

Handshake == [rtdk |-> "name", name |-> "ninf", ninf |-> "wicn", wicn |-> "pass"]
OnWire == DOMAIN Handshake \cup {"pass", "stor", "ssto", "soup", "ssou", "sids", "entr"}
Writing == {"nsof", "json", "manifest"}

Init ==
    /\ listing = First /\ changes = 0
    /\ file = [d \in Dirs |-> Empty] /\ exists = FALSE
    /\ manifest = [state |-> "none", counts |-> Empty]
    /\ phase = "idle" /\ resume = FALSE
    /\ at = <<0, 0>> /\ ids = <<>> /\ written = 0 /\ counts = Empty
    /\ runs = 0 /\ kills = 0

-----------------------------------------------------------------------------
(* The dialogue: the run goes on with the packet `expect` names.           *)

Accept(r) ==
    /\ phase = "idle" /\ runs < MaxRuns
    /\ runs' = runs + 1
    /\ phase' = "rtdk" /\ resume' = r
    /\ UNCHANGED <<device, disk, cursor, kills>>

Greet ==
    /\ phase \in DOMAIN Handshake
    /\ phase' = Handshake[phase]
    /\ UNCHANGED <<device, disk, cursor, resume, runs, kills>>

(* After the passwords: an existing directory is used only with --resume. *)
Authenticate ==
    /\ phase = "pass"
    /\ phase' = IF exists /\ ~resume THEN "idle" ELSE "stor"
    /\ UNCHANGED <<device, disk, cursor, resume, runs, kills>>

\* (Mutant of Beyond: the last soup of a store is left out.)
BeyondShort(s, n) ==
    IF s > 0 /\ n + 1 < Stores[s] THEN [phase |-> "ssou", at |-> <<s, n + 1>>]
    ELSE IF s < Len(Stores) THEN [phase |-> "ssto", at |-> <<s + 1, 0>>]
    ELSE [phase |-> "manifest", at |-> <<s, n>>]

\* Where the run goes after soup n of store s.
Beyond(s, n) ==
    IF s > 0 /\ n < Stores[s] THEN [phase |-> "ssou", at |-> <<s, n + 1>>]
    ELSE IF s < Len(Stores) THEN [phase |-> "ssto", at |-> <<s + 1, 0>>]
    ELSE [phase |-> "manifest", at |-> <<s, n>>]

GoTo(place) == phase' = place.phase /\ at' = place.at

ListStores ==
    /\ phase = "stor"
    /\ GoTo(Beyond(0, 0))
    /\ counts' = Empty
    /\ UNCHANGED <<device, disk, ids, written, resume, runs, kills>>

SelectStore ==
    /\ phase = "ssto"
    /\ phase' = "soup"
    /\ UNCHANGED <<device, disk, cursor, resume, runs, kills>>

ListSoups ==
    /\ phase = "soup"
    /\ GoTo(Beyond(at[1], 0))
    /\ UNCHANGED <<device, disk, ids, written, counts, resume, runs, kills>>

SelectSoup ==
    /\ phase = "ssou"
    /\ phase' = "sids"
    /\ UNCHANGED <<device, disk, cursor, resume, runs, kills>>

\* The files a resumed run counts: 1, 2, ... up to the first gap.
Existing(d) ==
    CHOOSE n \in 0..Cardinality(DOMAIN file[d]) :
        1..n \subseteq DOMAIN file[d] /\ n + 1 \notin DOMAIN file[d]

\* (Mutant of ListIds: a resumed soup is read again from its first entry.)
ListIdsRestart ==
    /\ phase = "sids"
    /\ ids' = listing[at] /\ written' = 0
    /\ counts' = Put(counts, at, Len(listing[at]))
    /\ IF Len(listing[at]) > 0 THEN phase' = "entr" /\ at' = at
       ELSE GoTo(Beyond(at[1], at[2]))
    /\ exists' = TRUE
    /\ UNCHANGED <<device, file, manifest, resume, runs, kills>>

ListIds ==
    /\ phase = "sids"
    /\ LET listed == listing[at]
           existing == IF resume THEN Existing(at) ELSE 0
           refused == resume /\ \/ Cardinality(DOMAIN file[at]) # existing
                                \/ existing > Len(listed)
       IN /\ ids' = listed
          /\ written' = existing
          /\ counts' = Put(counts, at, Len(listed))
          /\ IF refused THEN phase' = "idle" /\ at' = at
             ELSE IF existing < Len(listed) THEN phase' = "entr" /\ at' = at
             ELSE GoTo(Beyond(at[1], at[2]))
    /\ exists' = TRUE
    /\ UNCHANGED <<device, file, manifest, resume, runs, kills>>

FetchEntry ==
    /\ phase = "entr"
    /\ phase' = "nsof"
    /\ UNCHANGED <<device, disk, cursor, resume, runs, kills>>

-----------------------------------------------------------------------------
(* The files.                                                              *)

\* (Mutant of NsofPut: numbers count from zero.)
NsofPutFromZero(state) ==
    file' = [file EXCEPT ![at] =
        Put(@, written, [entry |-> ids[written + 1], nsof |-> state, json |-> "none"])]

\* (Mutant of NsofPut: the .json is written first.)
NsofPutJsonFirst(state) ==
    file' = [file EXCEPT ![at] =
        Put(@, written + 1, [entry |-> ids[written + 1], nsof |-> state, json |-> "whole"])]

NsofPut(state) ==
    file' = [file EXCEPT ![at] =
        Put(@, written + 1, [entry |-> ids[written + 1], nsof |-> state, json |-> "none"])]

JsonPut(state) == file' = [file EXCEPT ![at][written + 1].json = state]

\* written' of the loop, and what comes after the entry.
EntryDone ==
    /\ written' = written + 1
    /\ IF written + 1 < Len(ids) THEN phase' = "entr" /\ at' = at
       ELSE GoTo(Beyond(at[1], at[2]))

WriteNsof ==
    /\ phase = "nsof"
    /\ NsofPut("whole")
    /\ IF ids[written + 1] \in Undecodable THEN EntryDone
       ELSE phase' = "json" /\ UNCHANGED <<at, written>>
    /\ UNCHANGED <<device, exists, manifest, ids, counts, resume, runs, kills>>

(* write_text creates the file before it encodes: a text that cannot be    *)
(* encoded leaves an empty .json, and the run goes on.                     *)
WriteJson ==
    /\ phase = "json"
    /\ JsonPut(IF ids[written + 1] \in Unencodable THEN "cut" ELSE "whole")
    /\ EntryDone
    /\ UNCHANGED <<device, exists, manifest, ids, counts, resume, runs, kills>>

WriteManifest ==
    /\ phase = "manifest"
    /\ manifest' = [state |-> "whole", counts |-> counts]
    /\ exists' = TRUE
    /\ phase' = "idle"
    /\ UNCHANGED <<device, file, cursor, resume, runs, kills>>

-----------------------------------------------------------------------------
(* Faults, and the Newton between two runs.                                *)

(* The Newton leaves, stays silent for the timeout or answers with         *)
(* anything but the expected packet: the run ends with an error.           *)
Lose ==
    /\ phase \in OnWire
    /\ phase' = "idle"
    /\ UNCHANGED <<device, disk, cursor, resume, runs, kills>>

(* The process is killed, the disk fills, or a soup's name cannot be       *)
(* written to the manifest, before or amid a write.                        *)
Kill ==
    /\ phase # "idle" /\ kills < MaxKills
    /\ kills' = kills + 1
    /\ phase' = "idle"
    /\ \/ UNCHANGED <<file, manifest>>
       \/ phase = "nsof" /\ NsofPut("cut") /\ UNCHANGED manifest
       \/ phase = "json" /\ JsonPut("cut") /\ UNCHANGED manifest
       \/ /\ phase = "manifest"
          /\ manifest' = [state |-> "cut", counts |-> Empty]
          /\ UNCHANGED file
    /\ UNCHANGED <<device, exists, cursor, resume, runs>>

\* Entry i of a soup is deleted, or e is added at its end.
DeleteAt(q, i) == SubSeq(q, 1, i - 1) \o SubSeq(q, i + 1, Len(q))

UserChanges(d) ==
    /\ phase = "idle" /\ changes < MaxChanges
    /\ changes' = changes + 1
    /\ \/ \E i \in 1..Len(listing[d]) :
            listing' = [listing EXCEPT ![d] = DeleteAt(@, i)]
       \/ \E e \in Entries :
            /\ \A i \in 1..Len(listing[d]) : listing[d][i] # e
            /\ listing' = [listing EXCEPT ![d] = Append(@, e)]
    /\ UNCHANGED <<disk, cursor, phase, resume, runs, kills>>

RunStep ==
    \/ Greet \/ Authenticate \/ ListStores \/ SelectStore \/ ListSoups \/ SelectSoup
    \/ ListIds \/ FetchEntry \/ WriteNsof \/ WriteJson \/ WriteManifest \/ Lose

Next ==
    \/ \E r \in BOOLEAN : Accept(r)
    \/ RunStep
    \/ Kill
    \/ \E d \in Dirs : UserChanges(d)

Spec == Init /\ [][Next]_vars

-----------------------------------------------------------------------------
(* Properties                                                              *)

TypeOK ==
    /\ listing \in [Dirs -> Seq(Entries)]
    /\ DOMAIN file = Dirs
    /\ \A d \in Dirs : \A p \in DOMAIN file[d] : p \in Nat /\ file[d][p] \in Pair
    /\ exists \in BOOLEAN /\ resume \in BOOLEAN
    /\ manifest.state \in {"none", "cut", "whole"}
    /\ phase \in OnWire \cup Writing \cup {"idle"}
    /\ phase \in {"ssou", "sids", "entr", "nsof", "json"} => at \in Dirs
    /\ phase \in {"entr", "nsof", "json"} => written < Len(ids)
    /\ ids \in Seq(Entries) /\ written \in Nat
    /\ {runs, changes, kills} \subseteq Nat

(* The files of a soup are numbered 1, 2, ... without a gap after any      *)
(* sequence of kills, lost Newtons and resumes, so --resume never refuses  *)
(* a directory because of what an earlier run did to it                    *)
(* (newton_backup.py:338).                                                 *)
Sequential == \A d \in Dirs : DOMAIN file[d] = 1..Cardinality(DOMAIN file[d])

(* A .json, even an empty one, stands only next to an entry whose .nsof is *)
(* whole: an entry cut short by a kill can be told by its missing .json,   *)
(* whatever was resumed afterwards.                                        *)
JsonMeansWhole ==
    \A d \in Dirs : \A p \in DOMAIN file[d] :
        file[d][p].json # "none" => file[d][p].nsof = "whole"

(* While the Newton's soups do not change, file p of a soup holds the p-th *)
(* entry of that soup, however many runs it took.                          *)
InPlace ==
    changes = 0 =>
        \A d \in Dirs : \A p \in DOMAIN file[d] :
            p \in DOMAIN listing[d] /\ file[d][p].entry = listing[d][p]

(* No run writes over an entry file that is already there: "continue a     *)
(* partial --dump directory without replacing files" (newton_backup.py:400)*)
FilesKept ==
    [][\A d \in Dirs : \A p \in DOMAIN file[d] :
           /\ p \in DOMAIN file'[d]
           /\ file'[d][p].entry = file[d][p].entry
           /\ file'[d][p].nsof = file[d][p].nsof]_vars

(* A manifest is written only when every soup directory holds exactly the  *)
(* entries it states, and at most one of them per killed run is cut short. *)
CutFiles(d) == {p \in DOMAIN file[d] : file[d][p].nsof = "cut"}

ManifestComplete ==
    [][manifest'.state = "whole" /\ manifest' # manifest =>
           /\ DOMAIN manifest'.counts = Dirs
           /\ \A d \in Dirs : DOMAIN file[d] = 1..manifest'.counts[d]
           /\ Cardinality(UNION {{d} \X CutFiles(d) : d \in Dirs}) <= kills]_vars

(* --dump: "export every soup entry" (newton_backup.py:396): once a        *)
(* manifest is there, every entry it counts is there, whole.  The code     *)
(* violates this once a run was killed amid a write: no configuration      *)
(* lists it.                                                               *)
EveryEntryExported ==
    manifest.state = "whole" /\ changes = 0 =>
        \A d \in Dirs : \A p \in 1..manifest.counts[d] :
            file[d][p].entry = listing[d][p] /\ file[d][p].nsof = "whole"
=============================================================================
