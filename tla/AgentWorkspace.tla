--------------------------- MODULE AgentWorkspace ---------------------------
(***************************************************************************)
(* newton_mcp.py: the tools that create, edit, build and publish package   *)
(* projects, and the ways a published package reaches a Newton.            *)
(*                                                                         *)
(* An agent is one MCP server process; it serves one call at a time, but   *)
(* the process of a turn that timed out finishes its call next to the      *)
(* process of the following turn, and both work on the same directories.   *)
(* `overlap` collects the file names that two processes have worked on at  *)
(* the same time: for those the tools promise nothing.                     *)
(***************************************************************************)
EXTENDS Integers

CONSTANTS
    Agents,         \* MCP server processes
    Projects,       \* project names, each also the name of its package
    Template,       \* the name of the example every project is copied from; a
                    \* project may have it too
    Configured,     \* the names that are served as the client's own package
    None,           \* no project, no name
    MaxCalls,       \* bound: calls of the three tools
    MaxKills        \* bound: processes killed

ASSUME NamesAssumption == None \notin Projects \cup {Template}
ASSUME BoundsAssumption == MaxCalls \in Nat /\ MaxKills \in Nat

Names == Projects \cup {Template}
Cut == -1       \* Main.newt while it is being written

Package == [from : Projects, src : Nat \cup {Cut}, own : BOOLEAN, whole : BOOLEAN]

VARIABLES
    made,       \* how far create_project has come
    source,     \* the version of Main.newt: the call that wrote it
    pkg,        \* the .pkg files in every project's directory
    temporary,  \* the .pkg.tmp files in the staging directory
    staged,     \* the .pkg files in the staging directory
    agent,      \* what every process is doing
    told,       \* the package a build reported, until the next call on the project
    overlap,
    calls, kills

dirs == <<made, source, pkg>>
staging == <<temporary, staged>>
vars == <<dirs, staging, agent, told, overlap, calls, kills>>

Without(f, k) == [x \in DOMAIN f \ {k} |-> f[x]]
Put(f, k, v) == [x \in DOMAIN f \cup {k} |-> IF x = k THEN v ELSE f[x]]

\* fd: which file in the staging directory the process has open.
Idle == [step |-> "idle", project |-> None, name |-> None, call |-> 0, fd |-> "none"]

Init ==
    /\ made = [p \in Projects |-> "none"]
    /\ source = [p \in Projects |-> 0]
    /\ pkg = [p \in Projects |-> [x \in {} |-> 0]]
    /\ temporary = [x \in {} |-> 0] /\ staged = [x \in {} |-> 0]
    /\ agent = [a \in Agents |-> Idle]
    /\ told = [p \in Projects |-> None]
    /\ overlap = {} /\ calls = 0 /\ kills = 0

-----------------------------------------------------------------------------
(* A call on project p begins, goes on and ends.                           *)

Begin(a, p, step) ==
    /\ agent[a] = Idle /\ calls < MaxCalls
    /\ calls' = calls + 1
    /\ agent' = [agent EXCEPT ![a] =
                    [Idle EXCEPT !.step = step, !.project = p, !.call = calls + 1]]
    /\ told' = [told EXCEPT ![p] = None]
    /\ overlap' = IF \E b \in Agents \ {a} : agent[b].project = p
                  THEN overlap \cup {p, Template} ELSE overlap

At(a, step) == agent[a].step = step
Goes(a, step) == agent' = [agent EXCEPT ![a].step = step]

\* (Mutant of Ends: what the call had open stays open.)
EndsHolding(a) == agent' = [agent EXCEPT ![a].step = "idle"]

Ends(a) == agent' = [agent EXCEPT ![a] = Idle]

-----------------------------------------------------------------------------
(* create_project: the template is copied, renamed and edited in place.    *)

Exists(p) == made[p] # "none"

Create(a, p) ==
    /\ ~Exists(p)
    /\ Begin(a, p, "create")
    /\ made' = [made EXCEPT ![p] = "copying"]
    /\ UNCHANGED <<source, pkg, staging, kills>>

Stages == [copying |-> "copied", copied |-> "renamed", renamed |-> "makefile", makefile |-> "ready"]

CreateStep(a) ==
    LET p == agent[a].project
    IN /\ At(a, "create")
       /\ made' = [made EXCEPT ![p] = Stages[@]]
       /\ IF made'[p] = "ready" THEN Ends(a) ELSE agent' = agent
       /\ UNCHANGED <<source, pkg, staging, told, overlap, calls, kills>>

-----------------------------------------------------------------------------
(* write_source: the file is truncated, then written.                      *)

WriteOpen(a, p) ==
    /\ made[p] \notin {"none", "copying"}
    /\ Begin(a, p, "write")
    /\ source' = [source EXCEPT ![p] = Cut]
    /\ UNCHANGED <<made, pkg, staging, kills>>

WriteDone(a) ==
    /\ At(a, "write")
    /\ source' = [source EXCEPT ![agent[a].project] = agent[a].call]
    /\ Ends(a)
    /\ UNCHANGED <<made, pkg, staging, told, overlap, calls, kills>>

-----------------------------------------------------------------------------
(* build_pkg: make -B in the sandbox, then the copy to the staging         *)
(* directory.                                                              *)

Build(a, p) ==
    /\ Exists(p)
    /\ Begin(a, p, "make")
    /\ UNCHANGED <<dirs, staging, kills>>

\* The target of the Makefile, and the file the tool takes for it.
Target(p) == IF made[p] = "copied" THEN Template ELSE p
Chosen(p) == IF p \in DOMAIN pkg[p] THEN p ELSE Template

(* tntk reads Main.newt and begins its output; without the files that the  *)
(* Makefile names there is no such step.  Of a project with the name of    *)
(* the template nothing is renamed: its directory is never without them.   *)
Compile(a) ==
    LET p == agent[a].project
    IN /\ At(a, "make") /\ made[p] # "copying" /\ (made[p] = "renamed" => p = Template)
       /\ pkg' = [pkg EXCEPT ![p] = Put(@, Target(p),
              [from |-> p, src |-> source[p], own |-> made[p] = "ready", whole |-> FALSE])]
       /\ agent' = [agent EXCEPT ![a].step = "link", ![a].name = Target(p)]
       /\ UNCHANGED <<made, source, staging, told, overlap, calls, kills>>

(* Two outputs to one file may leave anything in it.                       *)
Link(a) ==
    LET p == agent[a].project
        n == agent[a].name
    IN /\ At(a, "link")
       /\ \E whole \in IF p \in overlap THEN BOOLEAN ELSE {TRUE} :
              pkg' = [pkg EXCEPT ![p][n].whole = whole]
       /\ agent' = [agent EXCEPT ![a].step = "open", ![a].name = Chosen(p)]
       /\ UNCHANGED <<made, source, staging, told, overlap, calls, kills>>

\* (Mutant of MakeFails: what tntk left is published, as make exited with 0.)
MakeFailsIgnored(a) ==
    LET p == agent[a].project
    IN /\ At(a, "make") \/ At(a, "link")
       /\ IF DOMAIN pkg[p] # {}
          THEN agent' = [agent EXCEPT ![a].step = "open", ![a].name = Chosen(p)]
          ELSE Ends(a)
       /\ UNCHANGED <<dirs, staging, told, overlap, calls, kills>>

(* make fails, crashes, times out or lets an exception of tntk pass; the   *)
(* last output, or a part of this one, stays in the project.               *)
MakeFails(a) ==
    /\ At(a, "make") \/ At(a, "link")
    /\ Ends(a)
    /\ UNCHANGED <<dirs, staging, told, overlap, calls, kills>>

Others(a, n) == {b \in Agents \ {a} : agent[b].name = n /\ agent[b].fd # "none"}

\* (Mutant of StageOpen: the published file itself is opened.)
StageOpenInPlace(a) ==
    LET n == agent[a].name
    IN /\ At(a, "open")
       /\ agent' = [agent EXCEPT ![a].step = "copy", ![a].fd = "staged"]
       /\ temporary' = Put(temporary, n, pkg[agent[a].project][n])
       /\ staged' = Put(staged, n, [pkg[agent[a].project][n] EXCEPT !.whole = FALSE])
       /\ overlap' = IF Others(a, n) # {} THEN overlap \cup {n} ELSE overlap
       /\ UNCHANGED <<dirs, told, calls, kills>>

(* The temporary file has one name for all processes; opening truncates.   *)
StageOpen(a) ==
    LET n == agent[a].name
    IN /\ At(a, "open")
       /\ agent' = [agent EXCEPT ![a].step = "copy", ![a].fd = "temporary"]
       /\ temporary' = Put(temporary, n, [pkg[agent[a].project][n] EXCEPT !.whole = FALSE])
       /\ overlap' = IF Others(a, n) # {} THEN overlap \cup {n} ELSE overlap
       /\ UNCHANGED <<dirs, staged, told, calls, kills>>

StageCopy(a) ==
    LET n == agent[a].name
        copy == pkg[agent[a].project][n]
    IN /\ At(a, "copy")
       /\ Goes(a, "replace")
       /\ temporary' = IF agent[a].fd = "temporary" THEN Put(temporary, n, copy) ELSE temporary
       /\ staged' = IF agent[a].fd = "staged" THEN Put(staged, n, copy) ELSE staged
       /\ UNCHANGED <<dirs, told, overlap, calls, kills>>

\* Where an open file is after the temporary one has replaced the staged one.
Moved == [none |-> "none", temporary |-> "staged", staged |-> "gone", gone |-> "gone"]

StageReplace(a) ==
    LET n == agent[a].name
    IN /\ At(a, "replace") /\ n \in DOMAIN temporary
       /\ staged' = Put(staged, n, temporary[n])
       /\ temporary' = Without(temporary, n)
       /\ told' = [told EXCEPT ![agent[a].project] = n]
       /\ agent' = [b \in Agents |->
              IF b = a THEN Idle
              ELSE IF b \in Others(a, n) THEN [agent[b] EXCEPT !.fd = Moved[@]]
              ELSE agent[b]]
       /\ UNCHANGED <<dirs, overlap, calls, kills>>

(* Another process has taken the temporary file away: an error, although   *)
(* the package may have been published.                                    *)
StageLost(a) ==
    /\ At(a, "replace") /\ agent[a].name \notin DOMAIN temporary
    /\ Ends(a)
    /\ UNCHANGED <<dirs, staging, told, overlap, calls, kills>>

(* The process is killed; the sandbox dies with it, the files stay.        *)
Kill(a) ==
    /\ agent[a] # Idle /\ kills < MaxKills
    /\ kills' = kills + 1
    /\ Ends(a)
    /\ UNCHANGED <<dirs, staging, told, overlap, calls>>

-----------------------------------------------------------------------------
(* Packages leave the host: the Dock installer sends the staged file, the  *)
(* Loader and pkg_install fetch it from the publisher, which answers two   *)
(* names with the package it was started with; an emulator reads the       *)
(* project's directory.                                                    *)

Client == [from |-> None, src |-> 0, own |-> TRUE, whole |-> TRUE]

Staged(n) == n \in DOMAIN staged
Sent(n) == staged[n]
Fetched(n) == IF n \in Configured THEN Client ELSE staged[n]
EmulatorTakes(p, n) == pkg[p][n]

-----------------------------------------------------------------------------
Step(a) ==
    \/ CreateStep(a) \/ WriteDone(a) \/ Compile(a) \/ Link(a) \/ MakeFails(a)
    \/ StageOpen(a) \/ StageCopy(a) \/ StageReplace(a) \/ StageLost(a)

Next ==
    \/ \E a \in Agents, p \in Projects :
          Create(a, p) \/ WriteOpen(a, p) \/ Build(a, p)
    \/ \E a \in Agents : Step(a) \/ Kill(a)

Spec == Init /\ [][Next]_vars

-----------------------------------------------------------------------------
(* Properties                                                              *)

AgentState == [step : {"idle", "create", "write", "make", "link", "open", "copy", "replace"},
               project : Projects \cup {None}, name : Names \cup {None},
               call : Nat, fd : {"none", "temporary", "staged", "gone"}]

TypeOK ==
    /\ made \in [Projects -> {"none", "copying", "copied", "renamed", "makefile", "ready"}]
    /\ source \in [Projects -> Nat \cup {Cut}]
    /\ DOMAIN pkg = Projects
    /\ \A p \in Projects : \A n \in DOMAIN pkg[p] : n \in Names /\ pkg[p][n] \in Package
    /\ \A n \in DOMAIN temporary : n \in Names /\ temporary[n] \in Package
    /\ \A n \in DOMAIN staged : n \in Names /\ staged[n] \in Package
    /\ agent \in [Agents -> AgentState]
    /\ \A a \in Agents : At(a, "idle") => agent[a] = Idle
    /\ told \in [Projects -> Names \cup {None}]
    /\ overlap \subseteq Names /\ calls \in Nat /\ kills \in Nat

(* Whatever moment the Loader or an installer chooses, in the middle of a  *)
(* build, after a failed or a killed one: the package of an agent that     *)
(* reaches the Newton is the whole output of a make that succeeded.        *)
NewtonGetsWhole ==
    \A n \in DOMAIN staged \ overlap :
        Sent(n).whole /\ (n \notin Configured => Fetched(n).whole)

\* What a build of p makes of the sources that are there now.
Current(p) == [from |-> p, src |-> source[p], own |-> made[p] = "ready", whole |-> TRUE]

(* A build that was reported stands: until the next call on the project,   *)
(* what an agent tries in an emulator under the returned path was built    *)
(* from this project and from the Main.newt that is there now, and so was  *)
(* the package the Newton is sent or fetches under the returned name,      *)
(* whatever other projects build.  Two names are exceptions.  A half-made  *)
(* project builds a package with the name of the template and publishes    *)
(* it: of a project of that name it replaces the package, but not by an    *)
(* older one of its own.  And a name the publisher is configured with is   *)
(* never fetched from the staging directory.                               *)
ReportedIsCurrent ==
    \A p \in Projects \ overlap : told[p] = p =>
        /\ p \in DOMAIN pkg[p] /\ EmulatorTakes(p, p) = Current(p)
        /\ Staged(p) /\ (p # Template \/ Sent(p).from = p => Sent(p) = Current(p))
        /\ p # Template /\ p \notin Configured => Fetched(p) = Current(p)

(* src/newton_mcp.py:785-790 says of build_pkg that it stages the package  *)
(* of the project under its name, for any project.  The code violates this *)
(* for the two kinds of names above: no configuration lists it.            *)
EveryReportStands ==
    \A p \in Projects \ overlap : told[p] = p => Fetched(p) = Current(p)

(* docs/agent-package-download.md:42: "The copy uses a temporary sibling   *)
(* followed by `Path.replace`, so `dual_send.py` cannot read a partially   *)
(* copied package."  The code violates this for names that two processes   *)
(* work on: no configuration lists it.                                     *)
NeverPartial == \A n \in DOMAIN staged : Sent(n).whole
=============================================================================
