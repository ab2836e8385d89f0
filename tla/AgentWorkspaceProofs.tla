------------------------ MODULE AgentWorkspaceProofs ------------------------
(***************************************************************************)
(* AgentWorkspace for any number of processes, projects, calls and kills.  *)
(***************************************************************************)
EXTENDS AgentWorkspace, TLAPS

Making == {"copying", "copied", "renamed", "makefile"}
Stage == Making \cup {"none", "ready"}
Later == {"link", "open", "copy", "replace"}

(* What holds of every process, also next to another one on its project.   *)
Named(a) ==
    LET p == agent[a].project
        n == agent[a].name
    IN /\ agent[a].step # "idle" => p \in Projects /\ made[p] # "none"
       /\ agent[a].step \in Later => n \in {p, Template} /\ n \in DOMAIN pkg[p]
       /\ agent[a].step \notin Later => n = None
       /\ agent[a].fd # "none" <=> agent[a].step \in {"copy", "replace"}
       /\ agent[a].step = "create" => made[p] \in Making

OneMaker ==
    \A a, b \in Agents : /\ agent[a].step = "create" /\ agent[b].step = "create"
                         /\ agent[a].project = agent[b].project
                         => a = b

(* The names that two processes have worked on together: with a project,   *)
(* always that of the template too.                                        *)
Apart ==
    /\ \A p \in Projects : p \in overlap => Template \in overlap
    /\ \A a, b \in Agents : /\ agent[a].project = agent[b].project
                            /\ agent[a].project \in Projects \ overlap
                            => a = b
    /\ \A a, b \in Agents : /\ agent[a].fd # "none" /\ agent[b].fd # "none"
                            /\ agent[a].name = agent[b].name
                            /\ agent[a].name \notin overlap
                            => a = b

(* The package that a build of p makes now.                                *)
Output(p, whole) == [from |-> p, src |-> source[p], own |-> made[p] = "ready", whole |-> whole]

(* What a process on a project of its own has made so far.                 *)
Progress(a) ==
    LET p == agent[a].project
        n == agent[a].name
    IN p \in Projects \ overlap =>
         /\ agent[a].step \in Later => n = Target(p)
         /\ agent[a].step = "link" => pkg[p][n] = Output(p, FALSE)
         /\ agent[a].step \in {"open", "copy", "replace"} => pkg[p][n] = Output(p, TRUE)
         /\ agent[a].step \in {"copy", "replace"} /\ n \notin overlap =>
               agent[a].fd = "temporary" /\ n \in DOMAIN temporary
         /\ agent[a].step = "replace" /\ n \notin overlap => temporary[n] = pkg[p][n]

(* A project has a package of its own name: its Makefile names that.       *)
BuiltAs(p) == p = Template \/ made[p] \in {"makefile", "ready"}

(* What stays when nobody works on a project.                              *)
Published(p) ==
    /\ p \in DOMAIN pkg[p] => BuiltAs(p)
    /\ told[p] # None /\ p \notin overlap => \A a \in Agents : agent[a].project # p
    /\ told[p] = p /\ p \notin overlap =>
          /\ p \in DOMAIN pkg[p] /\ p \in DOMAIN staged
          /\ pkg[p][p] = Output(p, TRUE)
          /\ p # Template \/ staged[p].from = p => staged[p] = Output(p, TRUE)

Whole == \A n \in DOMAIN staged \ overlap : staged[n].whole

Inv ==
    /\ TypeOK
    /\ \A a \in Agents : Named(a) /\ Progress(a)
    /\ OneMaker
    /\ Apart
    /\ \A p \in Projects : Published(p)
    /\ Whole

-----------------------------------------------------------------------------
(* Records and functions.                                                  *)

LEMMA IdleType == Idle \in AgentState
  BY DEF Idle, AgentState

LEMMA OutputType ==
    ASSUME TypeOK, NEW p \in Projects, NEW w \in BOOLEAN
    PROVE  Output(p, w) \in Package
  <1>1. source[p] \in Nat \cup {Cut}
    BY DEF TypeOK
  <1> QED
    BY <1>1 DEF Output, Package

LEMMA AgentAt ==
    ASSUME TypeOK, NEW a \in Agents, NEW s \in AgentState, agent' = [agent EXCEPT ![a] = s]
    PROVE  /\ agent' \in [Agents -> AgentState]
           /\ agent'[a] = s
           /\ \A b \in Agents : b # a => agent'[b] = agent[b]
  BY DEF TypeOK

(* None and the names are different.                                       *)
LEMMA NamesApart ==
    /\ None \notin Projects /\ None # Template
    /\ Names = Projects \cup {Template}
  BY NamesAssumption DEF Names

LEMMA IdleAgent ==
    ASSUME TypeOK, NEW a \in Agents
    PROVE  agent[a].step = "idle" <=> agent[a] = Idle
  BY DEF TypeOK, At, Idle

LEMMA IdleFields ==
    Idle.step = "idle" /\ Idle.project = None /\ Idle.name = None /\ Idle.fd = "none"
  BY DEF Idle

-----------------------------------------------------------------------------
LEMMA InitInv == Init => Inv
  <1> SUFFICES ASSUME Init PROVE Inv
    OBVIOUS
  <1>1. agent = [a \in Agents |-> Idle]
    BY DEF Init
  <1>2. agent \in [Agents -> AgentState] /\ \A a \in Agents : agent[a] = Idle
    BY <1>1, IdleType
  <1>3. DOMAIN temporary = {} /\ DOMAIN staged = {} /\ \A p \in Projects : DOMAIN pkg[p] = {}
    BY DEF Init
  <1>4. made \in [Projects -> Stage] /\ source \in [Projects -> Nat \cup {Cut}]
    BY DEF Init, Stage
  <1>5. told \in [Projects -> Names \cup {None}] /\ DOMAIN pkg = Projects
    BY DEF Init
  <1>6. overlap = {} /\ calls \in Nat /\ kills \in Nat
    BY DEF Init
  <1>7. TypeOK
    BY <1>2, <1>3, <1>4, <1>5, <1>6 DEF TypeOK, Stage, Making
  <1>8. \A a \in Agents : Named(a) /\ Progress(a)
    BY <1>2, IdleFields, NamesApart DEF Named, Progress, Later
  <1>9. Apart /\ OneMaker
    BY <1>2, <1>6, IdleFields, NamesApart DEF Apart, OneMaker
  <1>10. \A p \in Projects : told[p] = None
    BY DEF Init
  <1>11. \A p \in Projects : Published(p)
    BY <1>3, <1>10, NamesApart DEF Published, BuiltAs
  <1>12. Whole
    BY <1>3 DEF Whole
  <1> QED
    BY <1>7, <1>8, <1>9, <1>11, <1>12 DEF Inv

-----------------------------------------------------------------------------
(* A call ends: nothing is left but the files.                             *)
LEMMA EndsInv ==
    ASSUME Inv, NEW a \in Agents, Ends(a), UNCHANGED <<dirs, staging, told, overlap>>,
           calls' \in Nat, kills' \in Nat
    PROVE  Inv'
  <1>1. TypeOK
    BY DEF Inv
  <1>2. /\ agent' \in [Agents -> AgentState] /\ agent'[a] = Idle
        /\ \A b \in Agents : b # a => agent'[b] = agent[b]
    BY <1>1, IdleType, AgentAt DEF Ends
  <1>3. UNCHANGED <<made, source, pkg, temporary, staged, told, overlap>>
    BY DEF dirs, staging
  <1>4. \A b \in Agents : agent'[b].step = "idle" => agent'[b] = Idle
    BY <1>1, <1>2 DEF TypeOK, At
  <1>5. TypeOK'
    BY <1>1, <1>2, <1>3, <1>4 DEF TypeOK, At
  <1>6. ASSUME NEW b \in Agents PROVE Named(b)' /\ Progress(b)'
    <2>1. CASE b = a
      BY <1>2, <2>1, IdleFields, NamesApart DEF Named, Progress, Later
    <2>2. CASE b # a
      BY <1>2, <1>3, <2>2 DEF Inv, Named, Progress, Target, Output
    <2> QED
      BY <2>1, <2>2
  <1>7. OneMaker'
    BY <1>2, <1>3, IdleFields DEF Inv, OneMaker
  <1>8. Apart'
    BY <1>2, <1>3, IdleFields, NamesApart DEF Inv, Apart
  <1>9. ASSUME NEW p \in Projects PROVE Published(p)'
    BY <1>2, <1>3, IdleFields, NamesApart DEF Inv, Published, BuiltAs, Output
  <1>10. Whole'
    BY <1>3 DEF Inv, Whole
  <1> QED
    BY <1>5, <1>6, <1>7, <1>8, <1>9, <1>10 DEF Inv

(* A call begins: next to another one on the project, the names overlap.   *)
LEMMA BeginInv ==
    ASSUME Inv, NEW a \in Agents, NEW p \in Projects,
           NEW step \in {"create", "write", "make"}, Begin(a, p, step),
           UNCHANGED <<pkg, staging, kills>>,
           made' \in [Projects -> Stage], source' \in [Projects -> Nat \cup {Cut}],
           \A q \in Projects : q # p => made'[q] = made[q] /\ source'[q] = source[q],
           made'[p] # "none",
           made'[p] = made[p] \/ made[p] = "none",
           step = "create" => made'[p] \in Making /\ made[p] = "none"
    PROVE  Inv'
  <1> DEFINE s == [Idle EXCEPT !.step = step, !.project = p, !.call = calls + 1]
  <1>1. TypeOK
    BY DEF Inv
  <1>2. calls + 1 \in Nat
    BY <1>1 DEF TypeOK
  <1>3. s.step = step /\ s.project = p /\ s.name = None /\ s.fd = "none"
    BY IdleType, IdleFields DEF AgentState
  <1>4. s \in AgentState
    BY <1>2, IdleType DEF AgentState
  <1>5. agent' = [agent EXCEPT ![a] = s] /\ agent[a] = Idle /\ calls' = calls + 1
    BY DEF Begin
  <1> HIDE DEF s
  <1>6. /\ agent' \in [Agents -> AgentState] /\ agent'[a] = s
        /\ \A b \in Agents : b # a => agent'[b] = agent[b]
    BY <1>1, <1>4, <1>5, AgentAt
  <1>7. /\ agent'[a].step = step /\ agent'[a].project = p
        /\ agent'[a].name = None /\ agent'[a].fd = "none"
    BY <1>3, <1>6
  <1>8. told' = [told EXCEPT ![p] = None] /\ told' \in [Projects -> Names \cup {None}]
    BY <1>1 DEF Begin, TypeOK
  <1>9. UNCHANGED <<pkg, temporary, staged, kills>>
    BY DEF staging
  <1>10. /\ overlap' = IF \E b \in Agents \ {a} : agent[b].project = p
                       THEN overlap \cup {p, Template} ELSE overlap
         /\ overlap \subseteq overlap'
    BY DEF Begin
  <1>11. overlap' \subseteq Names
    BY <1>1, <1>10, NamesApart DEF TypeOK
  <1>12. \A b \in Agents : agent'[b].step = "idle" => agent'[b] = Idle
    BY <1>1, <1>6, <1>7 DEF TypeOK, At
  <1>13. TypeOK'
    BY <1>1, <1>2, <1>5, <1>6, <1>8, <1>9, <1>11, <1>12 DEF TypeOK, At, Stage, Making
  <1>14. ASSUME NEW b \in Agents PROVE Named(b)'
    <2>1. CASE b = a
      BY <1>7, <2>1 DEF Named, Later
    <2>2. CASE b # a
      BY <1>6, <1>9, <2>2 DEF Inv, Named, Making
    <2> QED
      BY <2>1, <2>2
  <1>15. ASSUME NEW b \in Agents PROVE Progress(b)'
    <2> SUFFICES ASSUME agent'[b].project \in Projects \ overlap' PROVE Progress(b)'
      BY DEF Progress
    <2>1. CASE b = a
      BY <1>7, <2>1 DEF Progress, Later
    <2>2. CASE b # a
      <3>1. agent'[b] = agent[b] /\ agent[b].project # p
        BY <1>6, <1>10, <2>2
      <3>2. Progress(b) /\ agent[b].project \in Projects \ overlap
        BY <1>10, <3>1 DEF Inv
      <3>3. /\ made'[agent[b].project] = made[agent[b].project]
            /\ source'[agent[b].project] = source[agent[b].project]
        BY <3>1, <3>2
      <3> QED
        BY <1>9, <1>10, <3>1, <3>2, <3>3 DEF Progress, Target, Output
    <2> QED
      BY <2>1, <2>2
  <1>16. OneMaker'
    <2>1. \A b \in Agents : agent[b].step = "create" => made[agent[b].project] # "none"
      BY DEF Inv, Named, Making
    <2> QED
      BY <1>6, <1>7, <2>1 DEF Inv, OneMaker
  <1>17. Apart'
    <2>1. \A q \in Projects : q \in overlap' => Template \in overlap'
      BY <1>10, NamesApart DEF Inv, Apart
    <2>2. ASSUME NEW b \in Agents, NEW c \in Agents, agent'[b].project = agent'[c].project,
                 agent'[b].project \in Projects \ overlap'
          PROVE  b = c
      BY <1>6, <1>7, <1>10, <2>2 DEF Inv, Apart
    <2>3. ASSUME NEW b \in Agents, NEW c \in Agents, agent'[b].fd # "none",
                 agent'[c].fd # "none", agent'[b].name = agent'[c].name,
                 agent'[b].name \notin overlap'
          PROVE  b = c
      BY <1>6, <1>7, <1>10, <2>3 DEF Inv, Apart
    <2> QED
      BY <2>1, <2>2, <2>3 DEF Apart
  <1>18. ASSUME NEW q \in Projects PROVE Published(q)'
    <2>1. CASE q = p
      <3>1. told'[q] = None
        BY <1>1, <1>8, <2>1 DEF TypeOK
      <3>2. p \in DOMAIN pkg[p] => BuiltAs(p)
        BY DEF Inv, Published
      <3> QED
        BY <1>9, <2>1, <3>1, <3>2, NamesApart DEF Published, BuiltAs
    <2>2. CASE q # p
      <3>1. told'[q] = told[q]
        BY <1>1, <1>8, <2>2 DEF TypeOK
      <3> QED
        BY <1>6, <1>7, <1>9, <1>10, <2>2, <3>1 DEF Inv, Published, BuiltAs, Output
    <2> QED
      BY <2>1, <2>2
  <1>19. Whole'
    BY <1>9, <1>10 DEF Inv, Whole
  <1> QED
    BY <1>13, <1>14, <1>15, <1>16, <1>17, <1>18, <1>19 DEF Inv

(* What is known of a process at a step of a call.                         *)
LEMMA AtWork ==
    ASSUME Inv, NEW a \in Agents, NEW step, At(a, step), step # "idle"
    PROVE  /\ TypeOK /\ Named(a) /\ Progress(a)
           /\ agent[a] \in AgentState /\ agent[a].project \in Projects /\ agent[a].step = step
           /\ \A b \in Agents : /\ b # a /\ agent[b].project = agent[a].project
                                => agent[a].project \in overlap
           /\ told[agent[a].project] # None => agent[a].project \in overlap
  <1>1. TypeOK /\ Named(a) /\ Progress(a) /\ agent[a].step = step
    BY DEF Inv, At
  <1>2. agent[a] \in AgentState
    BY <1>1 DEF TypeOK
  <1>3. agent[a].project \in Projects
    BY <1>1 DEF Named
  <1> QED
    BY <1>1, <1>2, <1>3 DEF Inv, Apart, Published

-----------------------------------------------------------------------------
(* create_project goes on.                                                 *)
LEMMA CreateStepInv == ASSUME Inv, NEW a \in Agents, CreateStep(a) PROVE Inv'
  <1> DEFINE p == agent[a].project
  <1>1. At(a, "create")
    BY DEF CreateStep
  <1>2. /\ TypeOK /\ Named(a) /\ p \in Projects /\ agent[a].step = "create"
        /\ \A b \in Agents : b # a /\ agent[b].project = p => p \in overlap
        /\ told[p] # None => p \in overlap
    BY <1>1, AtWork
  <1>3. made[p] \in Making
    BY <1>2 DEF Named
  <1>4. made' = [made EXCEPT ![p] = Stages[made[p]]]
    BY DEF CreateStep
  <1>5. Stages[made[p]] \in {"copied", "renamed", "makefile", "ready"}
        /\ (Stages[made[p]] = "ready" => made[p] = "makefile")
    BY <1>3 DEF Stages, Making
  <1>6. /\ made' \in [Projects -> Stage]
        /\ made'[p] \in {"copied", "renamed", "makefile", "ready"}
        /\ made'[p] = "ready" => made[p] = "makefile"
        /\ \A q \in Projects : q # p => made'[q] = made[q]
    BY <1>2, <1>4, <1>5 DEF TypeOK, Stage, Making
  <1>7. UNCHANGED <<source, pkg, temporary, staged, told, overlap, calls, kills>>
    BY DEF CreateStep, staging
  <1>8. /\ agent' \in [Agents -> AgentState]
        /\ \A b \in Agents : b # a => agent'[b] = agent[b]
        /\ IF made'[p] = "ready" THEN agent'[a] = Idle ELSE agent'[a] = agent[a]
    <2>1. CASE made'[p] = "ready"
      BY <1>2, <2>1, IdleType, AgentAt DEF CreateStep, Ends
    <2>2. CASE made'[p] # "ready"
      BY <1>2, <2>2 DEF CreateStep, TypeOK
    <2> QED
      BY <2>1, <2>2
  <1> HIDE DEF p
  <1>9. \A b \in Agents : agent'[b].step = "idle" => agent'[b] = Idle
    BY <1>2, <1>8 DEF TypeOK, At
  <1>10. TypeOK'
    BY <1>2, <1>6, <1>7, <1>8, <1>9 DEF TypeOK, At, Stage, Making
  <1>11. ASSUME NEW b \in Agents PROVE Named(b)'
    <2>1. CASE b = a /\ made'[p] = "ready"
      BY <1>8, <2>1, IdleFields DEF Named, Later
    <2>2. CASE b = a /\ made'[p] # "ready"
      <3>1. agent'[b] = agent[b] /\ agent[b].project = p /\ agent[b].step = "create"
        BY <1>2, <1>8, <2>2 DEF p
      <3>2. made'[p] \in Making
        BY <1>6, <2>2 DEF Making
      <3> QED
        BY <1>2, <1>7, <2>2, <3>1, <3>2 DEF Named, Later, Making
    <2>3. CASE b # a
      <3>1. agent'[b] = agent[b] /\ Named(b)
        BY <1>8, <2>3 DEF Inv
      <3>2. agent[b].step = "create" => agent[b].project # p
        BY <1>2, <2>3 DEF Inv, OneMaker, p
      <3>3. agent[b].step # "idle" => made'[agent[b].project] # "none"
        BY <1>6, <3>1 DEF Named
      <3>4. agent[b].step = "create" => made'[agent[b].project] \in Making
        BY <1>6, <3>1, <3>2 DEF Named
      <3> QED
        BY <1>7, <3>1, <3>3, <3>4 DEF Named
    <2> QED
      BY <2>1, <2>2, <2>3
  <1>12. ASSUME NEW b \in Agents PROVE Progress(b)'
    <2> SUFFICES ASSUME agent'[b].project \in Projects \ overlap PROVE Progress(b)'
      BY <1>7 DEF Progress
    <2>1. CASE b = a
      <3>1. agent'[b].step \in {"create", "idle"}
        BY <1>2, <1>8, <2>1, IdleFields
      <3> QED
        BY <3>1 DEF Progress, Later
    <2>2. CASE b # a
      <3>1. agent'[b] = agent[b] /\ agent[b].project # p /\ Progress(b)
        BY <1>2, <1>8, <2>2 DEF Inv
      <3>2. made'[agent[b].project] = made[agent[b].project]
        BY <1>6, <3>1
      <3> QED
        BY <1>7, <3>1, <3>2 DEF Progress, Target, Output
    <2> QED
      BY <2>1, <2>2
  <1>13. OneMaker'
    BY <1>2, <1>8, IdleFields DEF Inv, OneMaker
  <1>14. Apart'
    BY <1>7, <1>8, IdleFields, NamesApart DEF Inv, Apart
  <1>15. ASSUME NEW q \in Projects PROVE Published(q)'
    <2>1. CASE q = p
      <3>1. q \in DOMAIN pkg[q] => BuiltAs(q)'
        <4>1. p \in DOMAIN pkg[p] /\ p # Template => made[p] = "makefile"
          BY <1>2, <1>3 DEF Inv, Published, BuiltAs, Making
        <4>2. made[p] = "makefile" => made'[p] = "ready"
          BY <1>2, <1>4 DEF TypeOK, Stages
        <4> QED
          BY <2>1, <4>1, <4>2 DEF BuiltAs
      <3>2. told[p] # None => p \in overlap
        BY <1>2 DEF p
      <3> QED
        BY <1>2, <1>7, <2>1, <3>1, <3>2, NamesApart DEF Published, BuiltAs
    <2>2. CASE q # p
      <3>1. made'[q] = made[q]
        BY <1>6, <2>2
      <3>2. \A b \in Agents : agent'[b].project = q => agent[b].project = q
        BY <1>8, IdleFields, NamesApart
      <3> QED
        BY <1>7, <3>1, <3>2 DEF Inv, Published, BuiltAs, Output
    <2> QED
      BY <2>1, <2>2
  <1>16. Whole'
    BY <1>7 DEF Inv, Whole
  <1> QED
    BY <1>10, <1>11, <1>12, <1>13, <1>14, <1>15, <1>16 DEF Inv

-----------------------------------------------------------------------------
(* A process changes the source or the output of the project it works on.  *)
LEMMA DirsInv ==
    ASSUME Inv, NEW a \in Agents, NEW step, At(a, step), step # "idle",
           NEW p, p = agent[a].project,
           UNCHANGED <<made, temporary, staged, told, overlap, calls, kills>>,
           agent' \in [Agents -> AgentState],
           \A b \in Agents : b # a => agent'[b] = agent[b],
           agent'[a].step = "idle" => agent'[a] = Idle,
           agent'[a].project \in {p, None}, agent'[a].fd = "none", agent'[a].step # "create",
           Named(a)', Progress(a)',
           source' \in [Projects -> Nat \cup {Cut}], DOMAIN pkg' = Projects,
           \A q \in Projects : q # p => source'[q] = source[q] /\ pkg'[q] = pkg[q],
           \A n \in DOMAIN pkg'[p] : n \in Names /\ pkg'[p][n] \in Package,
           DOMAIN pkg[p] \subseteq DOMAIN pkg'[p],
           p \in DOMAIN pkg'[p] => BuiltAs(p)
    PROVE  Inv'
  <1>1. /\ TypeOK /\ p \in Projects
        /\ \A b \in Agents : b # a /\ agent[b].project = p => p \in overlap
        /\ told[p] # None => p \in overlap
    BY AtWork
  <1>2. \A b \in Agents : agent'[b].step = "idle" => agent'[b] = Idle
    BY <1>1 DEF TypeOK, At
  <1>3. \A q \in Projects : \A n \in DOMAIN pkg'[q] : n \in Names /\ pkg'[q][n] \in Package
    BY <1>1 DEF TypeOK
  <1>4. TypeOK'
    BY <1>1, <1>2, <1>3 DEF TypeOK, At
  <1>5. ASSUME NEW b \in Agents PROVE Named(b)'
    <2>1. CASE b = a
      BY <2>1
    <2>2. CASE b # a
      <3>1. agent'[b] = agent[b] /\ Named(b)
        BY <2>2 DEF Inv
      <3>2. agent[b].step # "idle" => DOMAIN pkg[agent[b].project] \subseteq DOMAIN pkg'[agent[b].project]
        BY <3>1 DEF Named
      <3>3. agent[b].step \in Later => agent[b].name \in DOMAIN pkg'[agent[b].project]
        BY <3>1, <3>2 DEF Named, Later
      <3> QED
        BY <3>1, <3>3 DEF Named
    <2> QED
      BY <2>1, <2>2
  <1>6. ASSUME NEW b \in Agents PROVE Progress(b)'
    <2>1. CASE b = a
      BY <2>1
    <2>2. CASE b # a
      <3> SUFFICES ASSUME agent'[b].project \in Projects \ overlap PROVE Progress(b)'
        BY DEF Progress
      <3>1. agent'[b] = agent[b] /\ agent[b].project # p /\ Progress(b)
        BY <1>1, <2>2 DEF Inv
      <3>2. /\ source'[agent[b].project] = source[agent[b].project]
            /\ pkg'[agent[b].project] = pkg[agent[b].project]
        BY <3>1
      <3> QED
        BY <3>1, <3>2 DEF Progress, Target, Output
    <2> QED
      BY <2>1, <2>2
  <1>7. OneMaker'
    BY DEF Inv, OneMaker
  <1>8. Apart'
    BY <1>1, NamesApart DEF Inv, Apart
  <1>9. ASSUME NEW q \in Projects PROVE Published(q)'
    <2>1. CASE q = p
      BY <1>1, <2>1, NamesApart DEF Published, BuiltAs
    <2>2. CASE q # p
      <3>1. source'[q] = source[q] /\ pkg'[q] = pkg[q]
        BY <2>2
      <3>2. \A b \in Agents : agent'[b].project = q => agent[b].project = q
        BY <2>2, NamesApart
      <3> QED
        BY <3>1, <3>2 DEF Inv, Published, BuiltAs, Output
    <2> QED
      BY <2>1, <2>2
  <1>10. Whole'
    BY DEF Inv, Whole
  <1> QED
    BY <1>4, <1>5, <1>6, <1>7, <1>8, <1>9, <1>10 DEF Inv

(* write_source finishes.                                                  *)
LEMMA WriteDoneInv == ASSUME Inv, NEW a \in Agents, WriteDone(a) PROVE Inv'
  <1> DEFINE p == agent[a].project
  <1>1. At(a, "write") /\ Ends(a) /\ UNCHANGED <<made, pkg, temporary, staged, told, overlap, calls, kills>>
    BY DEF WriteDone, staging
  <1>2. TypeOK /\ p \in Projects /\ agent[a] \in AgentState
    BY <1>1, AtWork
  <1>3. /\ agent' \in [Agents -> AgentState] /\ agent'[a] = Idle
        /\ \A b \in Agents : b # a => agent'[b] = agent[b]
    BY <1>1, <1>2, IdleType, AgentAt DEF Ends
  <1>4. agent[a].call \in Nat
    BY <1>2 DEF AgentState
  <1>5. source' = [source EXCEPT ![p] = agent[a].call]
    BY DEF WriteDone
  <1>6. /\ source' \in [Projects -> Nat \cup {Cut}]
        /\ \A q \in Projects : q # p => source'[q] = source[q]
    BY <1>2, <1>4, <1>5 DEF TypeOK
  <1>7. Named(a)' /\ Progress(a)'
    BY <1>3, IdleFields, NamesApart DEF Named, Progress, Later
  <1>8. /\ DOMAIN pkg = Projects
        /\ \A n \in DOMAIN pkg[p] : n \in Names /\ pkg[p][n] \in Package
    BY <1>2 DEF TypeOK
  <1>9. p \in DOMAIN pkg[p] => BuiltAs(p)
    BY <1>2 DEF Inv, Published
  <1> HIDE DEF p
  <1>10. p = agent[a].project
    BY DEF p
  <1> QED
    BY <1>1, <1>2, <1>3, <1>6, <1>7, <1>8, <1>9, <1>10, IdleFields, DirsInv

(* The three tools are called.                                             *)
LEMMA CreateInv == ASSUME Inv, NEW a \in Agents, NEW p \in Projects, Create(a, p) PROVE Inv'
  <1>1. TypeOK /\ made[p] = "none"
    BY DEF Inv, Create, Exists
  <1>2. made' = [made EXCEPT ![p] = "copying"] /\ Begin(a, p, "create")
        /\ UNCHANGED <<source, pkg, staging, kills>>
    BY DEF Create
  <1>3. /\ made' \in [Projects -> Stage] /\ made'[p] = "copying" /\ made'[p] \in Making
        /\ \A q \in Projects : q # p => made'[q] = made[q]
    BY <1>1, <1>2 DEF TypeOK, Stage, Making
  <1>4. source' \in [Projects -> Nat \cup {Cut}]
    BY <1>1, <1>2 DEF TypeOK
  <1> QED
    BY <1>1, <1>2, <1>3, <1>4, BeginInv

LEMMA WriteOpenInv ==
    ASSUME Inv, NEW a \in Agents, NEW p \in Projects, WriteOpen(a, p) PROVE Inv'
  <1>1. TypeOK /\ made[p] # "none"
    BY DEF Inv, WriteOpen
  <1>2. source' = [source EXCEPT ![p] = Cut] /\ Begin(a, p, "write")
        /\ UNCHANGED <<made, pkg, staging, kills>>
    BY DEF WriteOpen
  <1>3. /\ source' \in [Projects -> Nat \cup {Cut}]
        /\ \A q \in Projects : q # p => source'[q] = source[q]
    BY <1>1, <1>2 DEF TypeOK
  <1>4. made' \in [Projects -> Stage]
    BY <1>1, <1>2 DEF TypeOK, Stage, Making
  <1> QED
    BY <1>1, <1>2, <1>3, <1>4, BeginInv

LEMMA BuildInv == ASSUME Inv, NEW a \in Agents, NEW p \in Projects, Build(a, p) PROVE Inv'
  <1>1. TypeOK /\ made[p] # "none"
    BY DEF Inv, Build, Exists
  <1>2. Begin(a, p, "make") /\ UNCHANGED <<made, source, pkg, staging, kills>>
    BY DEF Build, dirs
  <1>3. made' \in [Projects -> Stage] /\ source' \in [Projects -> Nat \cup {Cut}]
    BY <1>1, <1>2 DEF TypeOK, Stage, Making
  <1> QED
    BY <1>1, <1>2, <1>3, BeginInv

(* A call ends without a result, or its process is killed.                 *)
LEMMA MakeFailsInv == ASSUME Inv, NEW a \in Agents, MakeFails(a) PROVE Inv'
  BY EndsInv DEF MakeFails, Inv, TypeOK

LEMMA StageLostInv == ASSUME Inv, NEW a \in Agents, StageLost(a) PROVE Inv'
  BY EndsInv DEF StageLost, Inv, TypeOK

LEMMA KillInv == ASSUME Inv, NEW a \in Agents, Kill(a) PROVE Inv'
  BY EndsInv DEF Kill, Inv, TypeOK

-----------------------------------------------------------------------------
(* make writes the package of the project.                                 *)
LEMMA CompileInv == ASSUME Inv, NEW a \in Agents, Compile(a) PROVE Inv'
  <1> DEFINE p == agent[a].project
             n == Target(p)
             s == [agent[a] EXCEPT !.step = "link", !.name = n]
  <1>1. /\ At(a, "make") /\ made[p] # "copying" /\ (made[p] = "renamed" => p = Template)
        /\ UNCHANGED <<made, source, temporary, staged, told, overlap, calls, kills>>
    BY DEF Compile, staging
  <1>2. TypeOK /\ Named(a) /\ p \in Projects /\ agent[a] \in AgentState /\ agent[a].step = "make"
    BY <1>1, AtWork
  <1>3. agent[a].fd = "none" /\ made[p] # "none" /\ n \in {p, Template} /\ n \in Names
    BY <1>2, NamesApart DEF Named, Target
  <1>4. s \in AgentState /\ s.step = "link" /\ s.name = n /\ s.project = p /\ s.fd = "none"
    BY <1>2, <1>3 DEF AgentState
  <1>5. agent' = [agent EXCEPT ![a] = s]
    BY <1>2 DEF Compile, TypeOK
  <1> HIDE DEF s
  <1>6. /\ agent' \in [Agents -> AgentState] /\ agent'[a] = s
        /\ \A b \in Agents : b # a => agent'[b] = agent[b]
    BY <1>2, <1>4, <1>5, AgentAt
  <1>7. pkg' = [pkg EXCEPT ![p] = Put(pkg[p], n, Output(p, FALSE))]
    BY DEF Compile, Output
  <1>8. /\ DOMAIN pkg' = Projects /\ pkg'[p] = Put(pkg[p], n, Output(p, FALSE))
        /\ \A q \in Projects : q # p => pkg'[q] = pkg[q]
    BY <1>2, <1>7 DEF TypeOK
  <1>9. /\ DOMAIN pkg'[p] = DOMAIN pkg[p] \cup {n} /\ pkg'[p][n] = Output(p, FALSE)
        /\ \A m \in DOMAIN pkg[p] : m # n => pkg'[p][m] = pkg[p][m]
    BY <1>8 DEF Put
  <1>10. \A m \in DOMAIN pkg'[p] : m \in Names /\ pkg'[p][m] \in Package
    BY <1>2, <1>3, <1>9, OutputType DEF TypeOK
  <1>11. p \in DOMAIN pkg'[p] => BuiltAs(p)
    <2>1. p \in DOMAIN pkg[p] => BuiltAs(p)
      BY <1>2 DEF Inv, Published
    <2>2. n = p => BuiltAs(p)
      <3>1. made[p] \in Stage
        BY <1>2 DEF TypeOK, Stage, Making
      <3>2. made[p] # "copied" \/ n = Template
        BY DEF Target
      <3> QED
        BY <1>1, <1>2, <1>3, <3>1, <3>2 DEF BuiltAs, Stage, Making
    <2> QED
      BY <1>9, <2>1, <2>2
  <1>12. Named(a)'
    BY <1>1, <1>2, <1>3, <1>4, <1>6, <1>9 DEF Named, Later
  <1>13. Progress(a)'
    <2>1. agent'[a].project = p /\ agent'[a].name = n /\ agent'[a].step = "link"
      BY <1>4, <1>6
    <2> QED
      BY <1>1, <1>9, <2>1 DEF Progress, Target, Output
  <1> HIDE DEF p, n
  <1>14. p = agent[a].project /\ source' \in [Projects -> Nat \cup {Cut}]
         /\ DOMAIN pkg[p] \subseteq DOMAIN pkg'[p]
         /\ \A q \in Projects : source'[q] = source[q]
    BY <1>1, <1>2, <1>9 DEF p, TypeOK
  <1> QED
    BY <1>1, <1>4, <1>6, <1>8, <1>10, <1>11, <1>12, <1>13, <1>14, DirsInv

LEMMA LinkInv == ASSUME Inv, NEW a \in Agents, Link(a) PROVE Inv'
  <1> DEFINE p == agent[a].project
             n == agent[a].name
             m == Chosen(p)
             s == [agent[a] EXCEPT !.step = "open", !.name = m]
  <1>1. At(a, "link") /\ UNCHANGED <<made, source, temporary, staged, told, overlap, calls, kills>>
    BY DEF Link, staging
  <1>2. /\ TypeOK /\ Named(a) /\ Progress(a) /\ p \in Projects /\ agent[a] \in AgentState
        /\ agent[a].step = "link"
    BY <1>1, AtWork
  <1>3. /\ agent[a].fd = "none" /\ n \in {p, Template} /\ n \in DOMAIN pkg[p] /\ made[p] # "none"
    BY <1>2 DEF Named, Later
  <1>4. m \in {p, Template} /\ m \in Names /\ m \in DOMAIN pkg[p]
    BY <1>2, <1>3, NamesApart DEF Chosen
  <1>5. s \in AgentState /\ s.step = "open" /\ s.name = m /\ s.project = p /\ s.fd = "none"
    BY <1>2, <1>3, <1>4 DEF AgentState
  <1>6. agent' = [agent EXCEPT ![a] = s]
    BY <1>2 DEF Link, TypeOK
  <1> HIDE DEF s
  <1>7. /\ agent' \in [Agents -> AgentState] /\ agent'[a] = s
        /\ \A b \in Agents : b # a => agent'[b] = agent[b]
    BY <1>2, <1>5, <1>6, AgentAt
  <1>8. PICK w \in IF p \in overlap THEN BOOLEAN ELSE {TRUE} : pkg' = [pkg EXCEPT ![p][n].whole = w]
    BY DEF Link
  <1>9. w \in BOOLEAN /\ (p \notin overlap => w = TRUE)
    BY <1>8
  <1>10. /\ DOMAIN pkg' = Projects /\ DOMAIN pkg'[p] = DOMAIN pkg[p]
         /\ pkg'[p][n] = [pkg[p][n] EXCEPT !.whole = w]
         /\ \A x \in DOMAIN pkg[p] : x # n => pkg'[p][x] = pkg[p][x]
         /\ \A q \in Projects : q # p => pkg'[q] = pkg[q]
    BY <1>2, <1>3, <1>8 DEF TypeOK
  <1>11. pkg[p][n] \in Package
    BY <1>2, <1>3 DEF TypeOK
  <1>12. pkg'[p][n] \in Package
    BY <1>9, <1>10, <1>11 DEF Package
  <1>13. \A x \in DOMAIN pkg'[p] : x \in Names /\ pkg'[p][x] \in Package
    BY <1>2, <1>10, <1>12 DEF TypeOK
  <1>14. p \in DOMAIN pkg[p] => BuiltAs(p)
    BY <1>2 DEF Inv, Published
  <1>15. Named(a)'
    BY <1>1, <1>2, <1>3, <1>4, <1>5, <1>7, <1>10 DEF Named, Later
  <1>16. Progress(a)'
    <2> SUFFICES ASSUME p \notin overlap PROVE Progress(a)'
      BY <1>1, <1>5, <1>7 DEF Progress
    <2>1. n = Target(p) /\ pkg[p][n] = Output(p, FALSE)
      BY <1>2 DEF Progress, Later
    <2>2. m = n
      BY <1>3, <1>14, <2>1 DEF Target, Chosen, BuiltAs
    <2>3. pkg'[p][n] = Output(p, TRUE)
      <3>1. pkg'[p][n] = [Output(p, FALSE) EXCEPT !.whole = TRUE]
        BY <1>9, <1>10, <2>1
      <3> QED
        BY <3>1 DEF Output
    <2>4. agent'[a].project = p /\ agent'[a].name = n /\ agent'[a].step = "open"
      BY <1>5, <1>7, <2>2
    <2> QED
      BY <1>1, <2>1, <2>3, <2>4 DEF Progress, Target, Output
  <1> HIDE DEF p, n, m
  <1>17. /\ p = agent[a].project /\ source' \in [Projects -> Nat \cup {Cut}]
         /\ \A q \in Projects : source'[q] = source[q]
    BY <1>1, <1>2 DEF p, TypeOK
  <1> QED
    BY <1>1, <1>5, <1>7, <1>10, <1>13, <1>14, <1>15, <1>16, <1>17, DirsInv

-----------------------------------------------------------------------------
(* The copy to the staging directory.                                      *)
LEMMA StageOpenInv == ASSUME Inv, NEW a \in Agents, StageOpen(a) PROVE Inv'
  <1> DEFINE p == agent[a].project
             n == agent[a].name
             s == [agent[a] EXCEPT !.step = "copy", !.fd = "temporary"]
             v == [pkg[p][n] EXCEPT !.whole = FALSE]
  <1>1. At(a, "open") /\ UNCHANGED <<made, source, pkg, staged, told, calls, kills>>
    BY DEF StageOpen, dirs
  <1>2. /\ TypeOK /\ Named(a) /\ Progress(a) /\ p \in Projects /\ agent[a] \in AgentState
        /\ agent[a].step = "open"
        /\ \A b \in Agents : b # a /\ agent[b].project = p => p \in overlap
        /\ told[p] # None => p \in overlap
    BY <1>1, AtWork
  <1>3. n \in {p, Template} /\ n \in Names /\ n \in DOMAIN pkg[p] /\ made[p] # "none"
    BY <1>2, NamesApart DEF Named, Later
  <1>4. v \in Package
    <2>1. pkg[p][n] \in Package
      BY <1>2, <1>3 DEF TypeOK
    <2> QED
      BY <2>1 DEF Package
  <1>5. s \in AgentState /\ s.step = "copy" /\ s.name = n /\ s.project = p /\ s.fd = "temporary"
    BY <1>2 DEF AgentState
  <1>6. agent' = [agent EXCEPT ![a] = s] /\ temporary' = Put(temporary, n, v)
    BY <1>2 DEF StageOpen, TypeOK
  <1> HIDE DEF s, v
  <1>7. /\ agent' \in [Agents -> AgentState] /\ agent'[a] = s
        /\ \A b \in Agents : b # a => agent'[b] = agent[b]
    BY <1>2, <1>5, <1>6, AgentAt
  <1>8. /\ DOMAIN temporary' = DOMAIN temporary \cup {n} /\ temporary'[n] = v
        /\ \A x \in DOMAIN temporary : x # n => temporary'[x] = temporary[x]
    BY <1>6 DEF Put
  <1>9. /\ overlap \subseteq overlap' /\ overlap' \subseteq overlap \cup {n}
        /\ \A b \in Agents : b # a /\ agent[b].name = n /\ agent[b].fd # "none" => n \in overlap'
    BY DEF StageOpen, Others
  <1>10. n # Template => (n \in overlap' => n \in overlap)
    <2> SUFFICES ASSUME n # Template, n \in overlap', n \notin overlap PROVE FALSE
      OBVIOUS
    <2>1. PICK b \in Agents : b # a /\ agent[b].name = n /\ agent[b].fd # "none"
      BY DEF StageOpen, Others
    <2>2. Named(b) /\ n = p
      BY <1>3, NamesApart DEF Inv
    <2>3. agent[b].step \in Later /\ agent[b].step # "idle"
      BY <2>1, <2>2 DEF Named, Later
    <2>4. agent[b].project = n
      BY <2>1, <2>2, <2>3, NamesApart DEF Named
    <2> QED
      BY <1>2, <2>1, <2>2, <2>4
  <1>11. \A q \in Projects : (q \in overlap' => q \in overlap \/ q = Template)
                            /\ (q \in overlap => q \in overlap')
    BY <1>9, <1>10
  <1>12. \A b \in Agents : agent'[b].step = "idle" => agent'[b] = Idle
    BY <1>2, <1>5, <1>7 DEF TypeOK, At
  <1>13. \A x \in DOMAIN temporary' : x \in Names /\ temporary'[x] \in Package
    BY <1>2, <1>3, <1>4, <1>8 DEF TypeOK
  <1>14. TypeOK'
    BY <1>1, <1>2, <1>3, <1>7, <1>9, <1>12, <1>13 DEF TypeOK, At
  <1>15. ASSUME NEW b \in Agents PROVE Named(b)'
    <2>1. CASE b = a
      BY <1>1, <1>2, <1>3, <1>5, <1>7, <2>1 DEF Named, Later
    <2>2. CASE b # a
      BY <1>1, <1>7, <2>2 DEF Inv, Named
    <2> QED
      BY <2>1, <2>2
  <1>16. ASSUME NEW b \in Agents PROVE Progress(b)'
    <2> SUFFICES ASSUME agent'[b].project \in Projects \ overlap' PROVE Progress(b)'
      BY DEF Progress
    <2>1. CASE b = a
      <3>1. p \notin overlap
        BY <1>5, <1>7, <1>11, <2>1
      <3>2. n = Target(p) /\ pkg[p][n] = Output(p, TRUE)
        BY <1>2, <3>1 DEF Progress, Later
      <3>3. /\ agent'[a].project = p /\ agent'[a].name = n
            /\ agent'[a].step = "copy" /\ agent'[a].fd = "temporary"
        BY <1>5, <1>7
      <3> QED
        BY <1>1, <1>8, <2>1, <3>2, <3>3 DEF Progress, Target, Output
    <2>2. CASE b # a
      <3>1. agent'[b] = agent[b] /\ Progress(b) /\ Named(b) /\ agent[b].project \in Projects \ overlap
        BY <1>7, <1>11, <2>2 DEF Inv
      <3>2. /\ Target(agent[b].project)' = Target(agent[b].project)
            /\ \A w \in BOOLEAN : Output(agent[b].project, w)' = Output(agent[b].project, w)
        BY <1>1, <3>1 DEF Target, Output
      <3>3. CASE agent[b].name = n /\ agent[b].step \in {"copy", "replace"}
        <4>1. n \in overlap'
          BY <1>9, <2>2, <3>1, <3>3 DEF Named
        <4> QED
          BY <1>1, <3>1, <3>2, <3>3, <4>1 DEF Progress
      <3>4. CASE agent[b].name # n \/ agent[b].step \notin {"copy", "replace"}
        <4>1. agent[b].name \notin overlap' => agent[b].name \notin overlap
          BY <1>9
        <4> QED
          BY <1>1, <1>8, <3>1, <3>2, <3>4, <4>1 DEF Progress
      <3> QED
        BY <3>3, <3>4
    <2> QED
      BY <2>1, <2>2
  <1>17. OneMaker'
    BY <1>5, <1>7 DEF Inv, OneMaker
  <1>18. Apart'
    <2>1. ASSUME NEW q \in Projects, q \in overlap' PROVE Template \in overlap'
      <3>1. q \in overlap \/ q = Template
        BY <1>11, <2>1
      <3>2. q \in overlap => Template \in overlap
        BY DEF Inv, Apart
      <3> QED
        BY <1>9, <2>1, <3>1, <3>2
    <2>2. ASSUME NEW b \in Agents, NEW c \in Agents, agent'[b].project = agent'[c].project,
                 agent'[b].project \in Projects \ overlap'
          PROVE  b = c
      BY <1>5, <1>7, <1>11, <2>2 DEF Inv, Apart
    <2>3. ASSUME NEW b \in Agents, NEW c \in Agents, agent'[b].fd # "none",
                 agent'[c].fd # "none", agent'[b].name = agent'[c].name,
                 agent'[b].name \notin overlap'
          PROVE  b = c
      BY <1>5, <1>7, <1>9, <2>3 DEF Inv, Apart
    <2> QED
      BY <2>1, <2>2, <2>3 DEF Apart
  <1>19. ASSUME NEW q \in Projects PROVE Published(q)'
    <2>1. \A b \in Agents : agent'[b].project = agent[b].project
      BY <1>5, <1>7
    <2> QED
      BY <1>1, <1>11, <2>1 DEF Inv, Published, BuiltAs, Output
  <1>20. Whole'
    BY <1>1, <1>9 DEF Inv, Whole
  <1> QED
    BY <1>14, <1>15, <1>16, <1>17, <1>18, <1>19, <1>20 DEF Inv

LEMMA StageCopyInv == ASSUME Inv, NEW a \in Agents, StageCopy(a) PROVE Inv'
  <1> DEFINE p == agent[a].project
             n == agent[a].name
             s == [agent[a] EXCEPT !.step = "replace"]
             v == pkg[p][n]
  <1>1. At(a, "copy") /\ UNCHANGED <<made, source, pkg, told, overlap, calls, kills>>
    BY DEF StageCopy, dirs
  <1>2. /\ TypeOK /\ Named(a) /\ Progress(a) /\ p \in Projects /\ agent[a] \in AgentState
        /\ agent[a].step = "copy"
        /\ told[p] # None => p \in overlap
    BY <1>1, AtWork
  <1>3. /\ n \in {p, Template} /\ n \in Names /\ n \in DOMAIN pkg[p] /\ made[p] # "none"
        /\ agent[a].fd # "none"
    BY <1>2, NamesApart DEF Named, Later
  <1>4. v \in Package
    BY <1>2, <1>3 DEF TypeOK
  <1>5. /\ s \in AgentState /\ s.step = "replace" /\ s.name = n /\ s.project = p
        /\ s.fd = agent[a].fd
    BY <1>2 DEF AgentState
  <1>6. /\ agent' = [agent EXCEPT ![a] = s]
        /\ temporary' = IF agent[a].fd = "temporary" THEN Put(temporary, n, v) ELSE temporary
        /\ staged' = IF agent[a].fd = "staged" THEN Put(staged, n, v) ELSE staged
    BY <1>2 DEF StageCopy, Goes, TypeOK
  <1>7. n \notin overlap => p \notin overlap
    BY <1>2, <1>3 DEF Inv, Apart
  <1>8. n \notin overlap => agent[a].fd = "temporary"
    BY <1>2, <1>7 DEF Progress
  <1> HIDE DEF s, v
  <1>9. /\ agent' \in [Agents -> AgentState] /\ agent'[a] = s
        /\ \A b \in Agents : b # a => agent'[b] = agent[b]
    BY <1>2, <1>5, <1>6, AgentAt
  <1>10. /\ DOMAIN temporary \subseteq DOMAIN temporary'
         /\ DOMAIN temporary' \subseteq DOMAIN temporary \cup {n}
         /\ agent[a].fd = "temporary" => n \in DOMAIN temporary' /\ temporary'[n] = v
         /\ n \in DOMAIN temporary' => temporary'[n] \in {v, temporary[n]}
         /\ agent[a].fd # "temporary" => temporary' = temporary
         /\ \A x \in DOMAIN temporary : x # n => temporary'[x] = temporary[x]
    BY <1>6 DEF Put
  <1>11. /\ DOMAIN staged \subseteq DOMAIN staged'
         /\ DOMAIN staged' \subseteq DOMAIN staged \cup {n}
         /\ agent[a].fd = "staged" => staged'[n] = v
         /\ agent[a].fd # "staged" => staged' = staged
         /\ \A x \in DOMAIN staged : x # n => staged'[x] = staged[x]
    BY <1>6 DEF Put
  <1>12. \A b \in Agents : agent'[b].step = "idle" => agent'[b] = Idle
    BY <1>2, <1>5, <1>9 DEF TypeOK, At
  <1>13. \A x \in DOMAIN temporary' : x \in Names /\ temporary'[x] \in Package
    <2>1. CASE agent[a].fd = "temporary"
      BY <1>2, <1>3, <1>4, <1>10, <2>1 DEF TypeOK
    <2>2. CASE agent[a].fd # "temporary"
      BY <1>2, <1>10, <2>2 DEF TypeOK
    <2> QED
      BY <2>1, <2>2
  <1>14. \A x \in DOMAIN staged' : x \in Names /\ staged'[x] \in Package
    <2>1. CASE agent[a].fd = "staged"
      BY <1>2, <1>3, <1>4, <1>11, <2>1 DEF TypeOK
    <2>2. CASE agent[a].fd # "staged"
      BY <1>2, <1>11, <2>2 DEF TypeOK
    <2> QED
      BY <2>1, <2>2
  <1>15. TypeOK'
    BY <1>1, <1>2, <1>9, <1>12, <1>13, <1>14 DEF TypeOK, At
  <1>16. ASSUME NEW b \in Agents PROVE Named(b)'
    <2>1. CASE b = a
      BY <1>1, <1>2, <1>3, <1>5, <1>9, <2>1 DEF Named, Later
    <2>2. CASE b # a
      BY <1>1, <1>9, <2>2 DEF Inv, Named
    <2> QED
      BY <2>1, <2>2
  <1>17. ASSUME NEW b \in Agents PROVE Progress(b)'
    <2> SUFFICES ASSUME agent'[b].project \in Projects \ overlap PROVE Progress(b)'
      BY <1>1 DEF Progress
    <2>1. CASE b = a
      <3>1. n = Target(p) /\ pkg[p][n] = Output(p, TRUE)
        BY <1>2, <1>5, <1>9, <2>1 DEF Progress, Later
      <3>2. /\ agent'[a].project = p /\ agent'[a].name = n
            /\ agent'[a].step = "replace" /\ agent'[a].fd = agent[a].fd
        BY <1>5, <1>9
      <3>3. n \notin overlap =>
               agent[a].fd = "temporary" /\ n \in DOMAIN temporary' /\ temporary'[n] = pkg[p][n]
        BY <1>8, <1>10 DEF v
      <3> QED
        BY <1>1, <2>1, <3>1, <3>2, <3>3 DEF Progress, Target, Output
    <2>2. CASE b # a
      <3>1. agent'[b] = agent[b] /\ Progress(b) /\ Named(b) /\ agent[b].project \in Projects \ overlap
        BY <1>9, <2>2 DEF Inv
      <3>2. /\ Target(agent[b].project)' = Target(agent[b].project)
            /\ \A w \in BOOLEAN : Output(agent[b].project, w)' = Output(agent[b].project, w)
        BY <1>1, <3>1 DEF Target, Output
      <3>3. agent[b].step \in {"copy", "replace"} /\ agent[b].name \notin overlap => agent[b].name # n
        BY <1>3, <2>2, <3>1 DEF Inv, Apart, Named
      <3> QED
        BY <1>1, <1>10, <3>1, <3>2, <3>3 DEF Progress
    <2> QED
      BY <2>1, <2>2
  <1>18. OneMaker'
    BY <1>5, <1>9 DEF Inv, OneMaker
  <1>19. Apart'
    BY <1>1, <1>3, <1>5, <1>9 DEF Inv, Apart
  <1>20. ASSUME NEW q \in Projects PROVE Published(q)'
    <2>1. \A b \in Agents : agent'[b].project = agent[b].project
      BY <1>5, <1>9
    <2>2. Published(q)
      BY DEF Inv
    <2>3. told[q] = q /\ q \notin overlap => staged'[q] = staged[q] /\ q \in DOMAIN staged'
      <3> SUFFICES ASSUME told[q] = q, q \notin overlap
                   PROVE  staged'[q] = staged[q] /\ q \in DOMAIN staged'
        OBVIOUS
      <3>1. q # p /\ q \in DOMAIN staged
        BY <1>2, <2>2, NamesApart DEF Published, BuiltAs
      <3>2. agent[a].fd = "staged" => q # n
        BY <1>8
      <3> QED
        BY <1>11, <3>1, <3>2
    <2> QED
      BY <1>1, <2>1, <2>2, <2>3 DEF Published, BuiltAs, Output
  <1>21. Whole'
    BY <1>1, <1>8, <1>11 DEF Inv, Whole
  <1> QED
    BY <1>15, <1>16, <1>17, <1>18, <1>19, <1>20, <1>21 DEF Inv

LEMMA StageReplaceInv == ASSUME Inv, NEW a \in Agents, StageReplace(a) PROVE Inv'
  <1> DEFINE p == agent[a].project
             n == agent[a].name
  <1>1. /\ At(a, "replace") /\ n \in DOMAIN temporary
        /\ UNCHANGED <<made, source, pkg, overlap, calls, kills>>
    BY DEF StageReplace, dirs
  <1>2. /\ TypeOK /\ Named(a) /\ Progress(a) /\ p \in Projects /\ agent[a] \in AgentState
        /\ agent[a].step = "replace"
        /\ \A b \in Agents : b # a /\ agent[b].project = p => p \in overlap
    BY <1>1, AtWork
  <1>3. n \in {p, Template} /\ n \in Names /\ agent[a].fd # "none"
    BY <1>2, NamesApart DEF Named, Later
  <1>4. /\ agent' = [b \in Agents |-> IF b = a THEN Idle
                       ELSE IF b \in Others(a, n) THEN [agent[b] EXCEPT !.fd = Moved[agent[b].fd]]
                       ELSE agent[b]]
        /\ staged' = Put(staged, n, temporary[n]) /\ temporary' = Without(temporary, n)
        /\ told' = [told EXCEPT ![p] = n]
    BY DEF StageReplace
  <1>5. n \notin overlap =>
           p \notin overlap /\ temporary[n] = pkg[p][n] /\ pkg[p][n] = Output(p, TRUE)
    <2>1. n \notin overlap => p \notin overlap
      BY <1>2, <1>3 DEF Inv, Apart
    <2> QED
      BY <1>2, <2>1 DEF Progress
  <1>6. ASSUME NEW b \in Agents, b # a
        PROVE  /\ agent'[b] \in AgentState
               /\ agent'[b].step = agent[b].step /\ agent'[b].project = agent[b].project
               /\ agent'[b].name = agent[b].name
               /\ agent'[b].fd # "none" <=> agent[b].fd # "none"
               /\ agent[b].name # n => agent'[b].fd = agent[b].fd
               /\ agent[b].fd = "none" => agent'[b] = agent[b]
    <2>1. agent[b] \in AgentState
      BY <1>2 DEF TypeOK
    <2>2. CASE b \in Others(a, n)
      <3>1. agent'[b] = [agent[b] EXCEPT !.fd = Moved[agent[b].fd]]
        BY <1>4, <1>6, <2>2
      <3>2. agent[b].fd \in {"temporary", "staged", "gone"} /\ agent[b].name = n
        BY <2>1, <2>2 DEF Others, AgentState
      <3>3. Moved[agent[b].fd] \in {"staged", "gone"}
        BY <3>2 DEF Moved
      <3> QED
        BY <2>1, <3>1, <3>2, <3>3 DEF AgentState
    <2>3. CASE b \notin Others(a, n)
      BY <1>4, <1>6, <2>1, <2>3
    <2> QED
      BY <2>2, <2>3
  <1>7. agent'[a] = Idle
    BY <1>4
  <1>8. agent' \in [Agents -> AgentState]
    <2>1. \A b \in Agents : agent'[b] \in AgentState
      BY <1>6, <1>7, IdleType
    <2> QED
      BY <1>4, <2>1
  <1>9. \A b \in Agents : agent'[b].step = "idle" => agent'[b] = Idle
    <2> SUFFICES ASSUME NEW b \in Agents, b # a, agent'[b].step = "idle" PROVE agent'[b] = Idle
      BY <1>7
    <2>1. agent[b] = Idle
      BY <1>2, <1>6 DEF TypeOK, At
    <2> QED
      BY <1>6, <2>1, IdleFields
  <1>10. /\ DOMAIN staged' = DOMAIN staged \cup {n} /\ staged'[n] = temporary[n]
         /\ \A x \in DOMAIN staged : x # n => staged'[x] = staged[x]
    BY <1>4 DEF Put
  <1>11. /\ DOMAIN temporary' = DOMAIN temporary \ {n}
         /\ \A x \in DOMAIN temporary : x # n => temporary'[x] = temporary[x]
    BY <1>4 DEF Without
  <1>12. /\ told' \in [Projects -> Names \cup {None}] /\ told'[p] = n
         /\ \A q \in Projects : q # p => told'[q] = told[q]
    BY <1>2, <1>3, <1>4 DEF TypeOK
  <1>13. \A x \in DOMAIN temporary' : x \in Names /\ temporary'[x] \in Package
    BY <1>2, <1>11 DEF TypeOK
  <1>14. \A x \in DOMAIN staged' : x \in Names /\ staged'[x] \in Package
    BY <1>1, <1>2, <1>10 DEF TypeOK
  <1> HIDE DEF p, n
  <1>15. TypeOK'
    BY <1>1, <1>2, <1>8, <1>9, <1>12, <1>13, <1>14 DEF TypeOK, At
  <1>16. ASSUME NEW b \in Agents PROVE Named(b)'
    <2>1. CASE b = a
      BY <1>7, <2>1, IdleFields DEF Named, Later
    <2>2. CASE b # a
      BY <1>1, <1>6, <2>2 DEF Inv, Named
    <2> QED
      BY <2>1, <2>2
  <1>17. ASSUME NEW b \in Agents PROVE Progress(b)'
    <2> SUFFICES ASSUME agent'[b].project \in Projects \ overlap PROVE Progress(b)'
      BY <1>1 DEF Progress
    <2>1. CASE b = a
      BY <1>7, <2>1, IdleFields, NamesApart
    <2>2. CASE b # a
      <3>1. Progress(b) /\ Named(b) /\ agent[b].project \in Projects \ overlap
        BY <1>6, <2>2 DEF Inv
      <3>2. /\ agent'[b].step = agent[b].step /\ agent'[b].project = agent[b].project
            /\ agent'[b].name = agent[b].name
            /\ agent[b].name # n => agent'[b].fd = agent[b].fd
        BY <1>6, <2>2
      <3>3. agent[b].step \in {"copy", "replace"} /\ agent[b].name \notin overlap => agent[b].name # n
        BY <1>3, <2>2, <3>1 DEF Inv, Apart, Named, n
      <3> QED
        BY <1>1, <1>11, <3>1, <3>2, <3>3 DEF Progress, Target, Output
    <2> QED
      BY <2>1, <2>2
  <1>18. OneMaker'
    BY <1>6, <1>7, IdleFields DEF Inv, OneMaker
  <1>19. Apart'
    BY <1>1, <1>6, <1>7, IdleFields, NamesApart DEF Inv, Apart
  <1>20. ASSUME NEW q \in Projects PROVE Published(q)'
    <2>1. Published(q) /\ \A b \in Agents : agent'[b].project = q => b # a /\ agent[b].project = q
      BY <1>6, <1>7, IdleFields, NamesApart DEF Inv
    <2>2. CASE q = p
      <3>1. p \notin overlap => \A b \in Agents : agent'[b].project # p
        BY <1>2, <2>1, <2>2 DEF p
      <3>2. n = p /\ p \notin overlap =>
               staged'[p] = Output(p, TRUE) /\ pkg[p][p] = Output(p, TRUE) /\ p \in DOMAIN staged'
        BY <1>5, <1>10
      <3>3. n = p => p \in DOMAIN pkg[p]
        BY <1>2 DEF Named, Later, p, n
      <3> QED
        BY <1>1, <1>12, <2>1, <2>2, <3>1, <3>2, <3>3 DEF Published, BuiltAs, Output
    <2>3. CASE q # p
      <3>1. told'[q] = told[q]
        BY <1>12, <2>3
      <3>2. q = n /\ q \notin overlap => staged'[q].from # q
        BY <1>5, <1>10, <2>3 DEF Output
      <3>3. q = n => q = Template
        BY <1>3, <2>3
      <3> QED
        BY <1>1, <1>10, <2>1, <3>1, <3>2, <3>3 DEF Published, BuiltAs, Output
    <2> QED
      BY <2>2, <2>3
  <1>21. Whole'
    <2>1. n \notin overlap => temporary[n].whole
      BY <1>5 DEF Output
    <2> QED
      BY <1>1, <1>10, <2>1 DEF Inv, Whole
  <1> QED
    BY <1>15, <1>16, <1>17, <1>18, <1>19, <1>20, <1>21 DEF Inv

-----------------------------------------------------------------------------
LEMMA NextInv == ASSUME Inv, Next PROVE Inv'
  <1>1. ASSUME NEW a \in Agents, NEW p \in Projects, Create(a, p) \/ WriteOpen(a, p) \/ Build(a, p)
        PROVE  Inv'
    BY <1>1, CreateInv, WriteOpenInv, BuildInv
  <1>2. ASSUME NEW a \in Agents, Kill(a) PROVE Inv'
    BY <1>2, KillInv
  <1>3. ASSUME NEW a \in Agents, Step(a) PROVE Inv'
    BY <1>3, CreateStepInv, WriteDoneInv, CompileInv, LinkInv, MakeFailsInv, StageOpenInv,
       StageCopyInv, StageReplaceInv, StageLostInv DEF Step
  <1> QED
    BY <1>1, <1>2, <1>3 DEF Next

LEMMA StutterInv == ASSUME Inv, UNCHANGED vars PROVE Inv'
  <1>1. UNCHANGED <<made, source, pkg, temporary, staged, agent, told, overlap, calls, kills>>
    BY DEF vars, dirs, staging
  <1>2. TypeOK'
    BY <1>1 DEF Inv, TypeOK, At
  <1>3. ASSUME NEW a \in Agents PROVE Named(a)' /\ Progress(a)'
    BY <1>1 DEF Inv, Named, Progress, Target, Output
  <1>4. OneMaker' /\ Apart' /\ Whole'
    BY <1>1 DEF Inv, OneMaker, Apart, Whole
  <1>5. ASSUME NEW p \in Projects PROVE Published(p)'
    BY <1>1 DEF Inv, Published, BuiltAs, Output
  <1> QED
    BY <1>2, <1>3, <1>4, <1>5 DEF Inv

(* The invariant holds in every state.                                     *)
LEMMA AlwaysInv == Spec => []Inv
  <1>1. Inv /\ [Next]_vars => Inv'
    BY NextInv, StutterInv
  <1> QED
    BY <1>1, InitInv, PTL DEF Spec

(* Files, processes and reports have their types, and a process without a  *)
(* call holds nothing open.                                                *)
THEOREM Types == Spec => []TypeOK
  <1>1. Inv => TypeOK
    BY DEF Inv
  <1> QED
    BY <1>1, AlwaysInv, PTL

(* However many processes build, crash and are killed: the package that    *)
(* reaches the Newton is whole, unless two of them worked on that name.    *)
THEOREM WholePackages == Spec => []NewtonGetsWhole
  <1>1. Inv => NewtonGetsWhole
    BY DEF Inv, Whole, NewtonGetsWhole, Sent, Fetched
  <1> QED
    BY <1>1, AlwaysInv, PTL

(* A reported build stands until the next call on its project, whatever    *)
(* any number of other projects do, except for the two kinds of names that *)
(* ReportedIsCurrent tells: the template's, for which only an older        *)
(* package of the same project is excluded, and those fetched elsewhere.   *)
THEOREM ReportsStand == Spec => []ReportedIsCurrent
  <1>1. Inv => ReportedIsCurrent
    <2> SUFFICES ASSUME Inv, NEW p \in Projects \ overlap, told[p] = p
                 PROVE  /\ p \in DOMAIN pkg[p] /\ p \in DOMAIN staged
                        /\ pkg[p][p] = Output(p, TRUE)
                        /\ p # Template \/ staged[p].from = p => staged[p] = Output(p, TRUE)
      BY DEF ReportedIsCurrent, Staged, Sent, Fetched, EmulatorTakes, Current, Output
    <2> QED
      BY DEF Inv, Published
  <1> QED
    BY <1>1, AlwaysInv, PTL
=============================================================================
