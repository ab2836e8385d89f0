--------------------------- MODULE DockDumpProofs ---------------------------
(***************************************************************************)
(* DockDump for any stores and soups, and any number of runs, changes and  *)
(* kills.                                                                  *)
(***************************************************************************)
EXTENDS DockDump, FiniteSetTheorems, SequenceTheorems, TLAPS

\* The soups a run has passed when it has finished soup n of store s.
Before(d, s, n) == d[1] < s \/ (d[1] = s /\ d[2] < n)
Upto == {d \in Dirs : Before(d, at[1], at[2])}
Passed(s, n) == {d \in Dirs : Before(d, s, n) \/ d = <<s, n>>}

(* What is on the disk, whatever the run is doing.                         *)
Cuts == UNION {{d} \X CutFiles(d) : d \in Dirs}
FewCuts == IsFiniteSet(Cuts) /\ Cardinality(Cuts) <= kills

OnDisk ==
    /\ \A d \in Dirs : \E k \in Nat : DOMAIN file[d] = 1..k
    /\ JsonMeansWhole
    /\ InPlace
    /\ FewCuts
    /\ ~exists => \A d \in Dirs : DOMAIN file[d] = {}

(* The soups of D have all the files that were counted, and without        *)
(* --resume the others have none.                                          *)
Tidy(D) ==
    /\ DOMAIN counts = D
    /\ \A d \in D : DOMAIN file[d] = 1..counts[d]
    /\ ~resume => \A d \in Dirs \ D : DOMAIN file[d] = {}

(* The soup being read.                                                    *)
Reading ==
    /\ at \in Dirs /\ exists /\ ids = listing[at]
    /\ DOMAIN counts = Upto \cup {at} /\ counts[at] = Len(ids)
    /\ \A d \in Upto : DOMAIN file[d] = 1..counts[d]
    /\ ~resume => \A d \in Dirs \ (Upto \cup {at}) : DOMAIN file[d] = {}
    /\ DOMAIN file[at] = 1..(IF phase = "json" THEN written + 1 ELSE written)
    /\ phase = "json" => file[at][written + 1].nsof = "whole"

InRun ==
    /\ phase = "stor" /\ ~resume => \A d \in Dirs : DOMAIN file[d] = {}
    /\ phase \in {"ssto", "soup"} => at[1] \in 1..Len(Stores) /\ at = <<at[1], 0>>
    /\ phase \in {"ssou", "sids"} => at \in Dirs
    /\ phase \in {"ssto", "soup", "ssou", "sids"} => Tidy(Upto)
    /\ phase \in {"entr", "nsof", "json"} => Reading
    /\ phase = "manifest" => Tidy(Dirs)

Inv == TypeOK /\ OnDisk /\ InRun

-----------------------------------------------------------------------------
(* Soups, files and sequences.                                             *)

LEMMA DirsAre ==
    /\ \A d \in Dirs : d = <<d[1], d[2]>> /\ d[1] \in 1..Len(Stores) /\ d[2] \in 1..Stores[d[1]]
    /\ \A s \in 1..Len(Stores) : \A n \in 1..Stores[s] : <<s, n>> \in Dirs
    /\ Len(Stores) \in Nat /\ \A s \in 1..Len(Stores) : Stores[s] \in Nat
  BY StoresAssumption DEF Dirs

LEMMA CutsAre ==
    \A x : x \in Cuts <=> \E d \in Dirs : \E p \in CutFiles(d) : x = <<d, p>>
  BY DEF Cuts

LEMMA ExistingIs ==
    ASSUME NEW d \in Dirs, NEW k \in Nat, DOMAIN file[d] = 1..k
    PROVE  Existing(d) = k /\ Cardinality(DOMAIN file[d]) = k
  <1>1. Cardinality(1..k) = k
    BY FS_Interval
  <1>2. k \in 0..k /\ 1..k \subseteq 1..k /\ k + 1 \notin 1..k
    OBVIOUS
  <1>3. \A n \in 0..k : n + 1 \notin 1..k => n = k
    OBVIOUS
  <1>4. Existing(d) = CHOOSE n \in 0..k : 1..n \subseteq 1..k /\ n + 1 \notin 1..k
    BY <1>1 DEF Existing
  <1> QED
    BY <1>1, <1>2, <1>3, <1>4

LEMMA DeleteType ==
    ASSUME NEW q \in Seq(Entries), NEW i \in 1..Len(q)
    PROVE  DeleteAt(q, i) \in Seq(Entries)
  <1>1. Len(q) \in Nat /\ DOMAIN q = 1..Len(q)
    BY LenProperties
  <1>2. SubSeq(q, 1, i - 1) \in Seq(Entries)
    BY <1>1, SubSeqProperties
  <1>3. SubSeq(q, i + 1, Len(q)) \in Seq(Entries)
    BY <1>1, SubSeqProperties
  <1> QED
    BY <1>2, <1>3, ConcatProperties DEF DeleteAt

(* Where a run goes after a soup or a store.                               *)
LEMMA BeyondIs ==
    ASSUME NEW s \in 0..Len(Stores), NEW n \in Nat, s = 0 => n = 0,
           s > 0 => n <= Stores[s]
    PROVE  LET b == Beyond(s, n)
           IN  /\ b.phase \in {"ssou", "ssto", "manifest"}
               /\ b.phase = "manifest" => Passed(s, n) = Dirs
               /\ b.phase = "ssou" => b.at \in Dirs
               /\ b.phase = "ssto" => b.at[1] \in 1..Len(Stores) /\ b.at = <<b.at[1], 0>>
               /\ b.phase # "manifest" =>
                     {d \in Dirs : Before(d, b.at[1], b.at[2])} = Passed(s, n)
  <1>1. Len(Stores) \in Nat /\ (s > 0 => Stores[s] \in Nat)
    BY DirsAre
  <1>2. CASE s > 0 /\ n < Stores[s]
    <2>1. Beyond(s, n) = [phase |-> "ssou", at |-> <<s, n + 1>>]
      BY <1>2 DEF Beyond
    <2>2. <<s, n + 1>> \in Dirs
      BY <1>1, <1>2, DirsAre
    <2>3. \A d \in Dirs : Before(d, s, n + 1) <=> Before(d, s, n) \/ d = <<s, n>>
      BY <1>1, DirsAre DEF Before
    <2> QED
      BY <2>1, <2>2, <2>3 DEF Passed
  <1>3. CASE ~(s > 0 /\ n < Stores[s]) /\ s < Len(Stores)
    <2>1. Beyond(s, n) = [phase |-> "ssto", at |-> <<s + 1, 0>>]
      BY <1>3 DEF Beyond
    <2>2. \A d \in Dirs : Before(d, s + 1, 0) <=> Before(d, s, n) \/ d = <<s, n>>
      BY <1>1, <1>3, DirsAre DEF Before
    <2> QED
      BY <1>1, <1>3, <2>1, <2>2 DEF Passed
  <1>4. CASE ~(s > 0 /\ n < Stores[s]) /\ ~(s < Len(Stores))
    <2>1. Beyond(s, n) = [phase |-> "manifest", at |-> <<s, n>>]
      BY <1>4 DEF Beyond
    <2>2. \A d \in Dirs : Before(d, s, n) \/ d = <<s, n>>
      BY <1>1, <1>4, DirsAre DEF Before
    <2> QED
      BY <2>1, <2>2 DEF Passed
  <1> QED
    BY <1>2, <1>3, <1>4

-----------------------------------------------------------------------------
LEMMA InitInv == Init => Inv
  <1> SUFFICES ASSUME Init PROVE Inv
    OBVIOUS
  <1>1. listing \in [Dirs -> Seq(Entries)]
    BY FirstAssumption DEF Init
  <1>2. DOMAIN file = Dirs /\ \A d \in Dirs : DOMAIN file[d] = {}
    BY DEF Init, Empty
  <1>3. /\ exists = FALSE /\ resume = FALSE /\ manifest.state = "none" /\ phase = "idle"
        /\ ids = <<>> /\ written = 0 /\ runs = 0 /\ kills = 0 /\ changes = 0
    BY DEF Init
  <1>4. ids \in Seq(Entries)
    BY <1>3
  <1>5. TypeOK
    <2>1. \A d \in Dirs : \A p \in DOMAIN file[d] : p \in Nat /\ file[d][p] \in Pair
      BY <1>2
    <2>2. {runs, changes, kills} \subseteq Nat /\ written \in Nat
      BY <1>3
    <2>3. phase \in OnWire \cup Writing \cup {"idle"}
          /\ phase \notin {"ssou", "sids", "entr", "nsof", "json"}
      BY <1>3
    <2>4. exists \in BOOLEAN /\ resume \in BOOLEAN /\ manifest.state \in {"none", "cut", "whole"}
      BY <1>3
    <2> QED
      BY <1>1, <1>2, <1>4, <2>1, <2>2, <2>3, <2>4 DEF TypeOK
  <1>6. \A d \in Dirs : DOMAIN file[d] = 1..0
    BY <1>2
  <1>7. JsonMeansWhole /\ InPlace
    BY <1>2 DEF JsonMeansWhole, InPlace
  <1>8. FewCuts
    <2>1. Cuts = {}
      BY <1>2, CutsAre DEF CutFiles
    <2> QED
      BY <1>3, <2>1, FS_EmptySet DEF FewCuts
  <1>9. OnDisk
    BY <1>2, <1>6, <1>7, <1>8 DEF OnDisk
  <1>10. InRun
    BY <1>3 DEF InRun
  <1> QED
    BY <1>5, <1>9, <1>10 DEF Inv

(* Nothing is written.                                                     *)
LEMMA DiskStays ==
    ASSUME OnDisk, UNCHANGED <<file, listing, changes, kills>>, exists => exists'
    PROVE  OnDisk'
  <1>1. JsonMeansWhole' /\ InPlace'
    BY DEF OnDisk, JsonMeansWhole, InPlace
  <1>2. Cuts' = Cuts
    BY DEF Cuts, CutFiles
  <1>3. FewCuts'
    BY <1>2 DEF OnDisk, FewCuts
  <1> QED
    BY <1>1, <1>3 DEF OnDisk

(* A run goes on to the next soup or store, or to the manifest.            *)
LEMMA GoOn ==
    ASSUME NEW s \in 0..Len(Stores), NEW n \in Nat, s = 0 => n = 0,
           s > 0 => n <= Stores[s], GoTo(Beyond(s, n)),
           DOMAIN counts' = Passed(s, n),
           \A d \in Passed(s, n) : DOMAIN file'[d] = 1..counts'[d],
           ~resume' => \A d \in Dirs \ Passed(s, n) : DOMAIN file'[d] = {}
    PROVE  /\ InRun'
           /\ phase' \in {"ssou", "ssto", "manifest"}
           /\ phase' = "ssou" => at' \in Dirs
  <1> DEFINE b == Beyond(s, n)
  <1>1. phase' = b.phase /\ at' = b.at
    BY DEF GoTo
  <1>2. /\ b.phase \in {"ssou", "ssto", "manifest"}
        /\ b.phase = "manifest" => Passed(s, n) = Dirs
        /\ b.phase = "ssou" => b.at \in Dirs
        /\ b.phase = "ssto" => b.at[1] \in 1..Len(Stores) /\ b.at = <<b.at[1], 0>>
        /\ b.phase # "manifest" => {d \in Dirs : Before(d, b.at[1], b.at[2])} = Passed(s, n)
    BY BeyondIs
  <1> HIDE DEF b
  <1>3. phase' # "manifest" => Upto' = Passed(s, n)
    BY <1>1, <1>2 DEF Upto, Before
  <1>4. phase' # "manifest" => Tidy(Upto)'
    BY <1>3 DEF Tidy
  <1>5. phase' = "manifest" => Tidy(Dirs)'
    BY <1>1, <1>2 DEF Tidy
  <1> QED
    BY <1>1, <1>2, <1>4, <1>5 DEF InRun

-----------------------------------------------------------------------------
(* The dialogue before the first soup.                                     *)
LEMMA AcceptInv == ASSUME Inv, NEW r \in BOOLEAN, Accept(r) PROVE Inv'
  <1>1. OnDisk'
    BY DiskStays DEF Inv, Accept, device, disk
  <1>2. TypeOK'
    BY DEF Inv, Accept, TypeOK, device, disk, cursor, OnWire, Handshake
  <1>3. InRun'
    BY DEF Accept, InRun
  <1> QED
    BY <1>1, <1>2, <1>3 DEF Inv

LEMMA GreetInv == ASSUME Inv, Greet PROVE Inv'
  <1>1. OnDisk'
    BY DiskStays DEF Inv, Greet, device, disk
  <1>2. phase' \in {"name", "ninf", "wicn", "pass"}
    BY DEF Greet, Handshake
  <1>3. TypeOK'
    BY <1>2 DEF Inv, Greet, TypeOK, device, disk, cursor, OnWire, Handshake
  <1>4. InRun'
    BY <1>2 DEF InRun
  <1> QED
    BY <1>1, <1>3, <1>4 DEF Inv

LEMMA AuthenticateInv == ASSUME Inv, Authenticate PROVE Inv'
  <1>1. OnDisk'
    BY DiskStays DEF Inv, Authenticate, device, disk
  <1>2. phase' \in {"idle", "stor"} /\ (phase' = "stor" => resume \/ ~exists)
    BY DEF Authenticate
  <1>3. TypeOK'
    BY <1>2 DEF Inv, Authenticate, TypeOK, device, disk, cursor, OnWire
  <1>4. UNCHANGED <<file, exists, resume>>
    BY DEF Authenticate, disk
  <1>5. InRun'
    BY <1>2, <1>4 DEF Inv, OnDisk, InRun
  <1> QED
    BY <1>1, <1>3, <1>5 DEF Inv

(* A run that ends, without a file.                                        *)
LEMMA EndInv ==
    ASSUME Inv, phase' = "idle", UNCHANGED <<file, listing, changes, exists, cursor, resume>>,
           UNCHANGED <<manifest, runs, kills>>
    PROVE  Inv'
  <1>1. OnDisk'
    BY DiskStays DEF Inv
  <1>2. TypeOK'
    BY DEF Inv, TypeOK, cursor, OnWire
  <1>3. InRun'
    BY DEF InRun
  <1> QED
    BY <1>1, <1>2, <1>3 DEF Inv

LEMMA LoseInv == ASSUME Inv, Lose PROVE Inv'
  BY EndInv DEF Lose, device, disk

(* Stores and soups are selected.                                          *)
LEMMA SelectStoreInv == ASSUME Inv, SelectStore PROVE Inv'
  <1>1. OnDisk'
    BY DiskStays DEF Inv, SelectStore, device, disk
  <1>2. UNCHANGED <<file, at, counts, resume>> /\ phase = "ssto" /\ phase' = "soup"
    BY DEF SelectStore, disk, cursor
  <1>3. TypeOK'
    BY <1>2 DEF Inv, SelectStore, TypeOK, device, disk, cursor, OnWire
  <1>4. Tidy(Upto)'
    BY <1>2 DEF Inv, InRun, Tidy, Upto
  <1>5. InRun'
    BY <1>2, <1>4 DEF Inv, InRun
  <1> QED
    BY <1>1, <1>3, <1>5 DEF Inv

LEMMA SelectSoupInv == ASSUME Inv, SelectSoup PROVE Inv'
  <1>1. OnDisk'
    BY DiskStays DEF Inv, SelectSoup, device, disk
  <1>2. UNCHANGED <<file, at, counts, resume>> /\ phase = "ssou" /\ phase' = "sids"
    BY DEF SelectSoup, disk, cursor
  <1>3. TypeOK'
    BY <1>2 DEF Inv, SelectSoup, TypeOK, device, disk, cursor, OnWire
  <1>4. Tidy(Upto)'
    BY <1>2 DEF Inv, InRun, Tidy, Upto
  <1>5. InRun'
    BY <1>2, <1>4 DEF Inv, InRun
  <1> QED
    BY <1>1, <1>3, <1>5 DEF Inv

LEMMA ListStoresInv == ASSUME Inv, ListStores PROVE Inv'
  <1>1. OnDisk'
    BY DiskStays DEF Inv, ListStores, device, disk
  <1>2. UNCHANGED <<file, resume>> /\ phase = "stor" /\ DOMAIN counts' = {} /\ GoTo(Beyond(0, 0))
    BY DEF ListStores, disk, Empty
  <1>3. Passed(0, 0) = {}
    BY DirsAre DEF Passed, Before
  <1>4. 0 \in 0..Len(Stores)
    BY DirsAre
  <1>5. ~resume => \A d \in Dirs : DOMAIN file[d] = {}
    BY <1>2 DEF Inv, InRun
  <1>6. /\ InRun' /\ phase' \in {"ssou", "ssto", "manifest"}
        /\ phase' = "ssou" => at' \in Dirs
    BY <1>2, <1>3, <1>4, <1>5, GoOn
  <1>7. TypeOK'
    BY <1>6 DEF Inv, ListStores, TypeOK, device, disk, OnWire, Writing
  <1> QED
    BY <1>1, <1>6, <1>7 DEF Inv

LEMMA ListSoupsInv == ASSUME Inv, ListSoups PROVE Inv'
  <1> DEFINE s == at[1]
  <1>1. OnDisk'
    BY DiskStays DEF Inv, ListSoups, device, disk
  <1>2. UNCHANGED <<file, resume, counts>> /\ phase = "soup" /\ GoTo(Beyond(s, 0))
    BY DEF ListSoups, disk
  <1>3. s \in 1..Len(Stores) /\ at = <<s, 0>> /\ Tidy(Upto)
    BY <1>2 DEF Inv, InRun
  <1>4. at[2] = 0 /\ Len(Stores) \in Nat /\ s \in 0..Len(Stores) /\ s > 0 /\ Stores[s] \in Nat
    BY <1>3, DirsAre
  <1>5. Passed(s, 0) = Upto
    BY <1>3, <1>4, DirsAre DEF Passed, Upto
  <1> HIDE DEF s
  <1>6. /\ InRun' /\ phase' \in {"ssou", "ssto", "manifest"}
        /\ phase' = "ssou" => at' \in Dirs
    BY <1>2, <1>3, <1>4, <1>5, GoOn DEF Tidy
  <1>7. TypeOK'
    BY <1>6 DEF Inv, ListSoups, TypeOK, device, disk, OnWire, Writing
  <1> QED
    BY <1>1, <1>6, <1>7 DEF Inv

-----------------------------------------------------------------------------
(* What is known while a soup is read.                                     *)
LEMMA Here ==
    ASSUME TypeOK, at \in Dirs
    PROVE  /\ at[1] \in 0..Len(Stores) /\ at[1] > 0 /\ at[2] \in Nat /\ at[2] <= Stores[at[1]]
           /\ at = <<at[1], at[2]>>
           /\ Passed(at[1], at[2]) = Upto \cup {at} /\ at \notin Upto /\ Upto \subseteq Dirs
  <1>1. /\ at = <<at[1], at[2]>> /\ at[1] \in 1..Len(Stores) /\ at[2] \in 1..Stores[at[1]]
        /\ Len(Stores) \in Nat /\ Stores[at[1]] \in Nat
    BY DirsAre
  <1>2. Passed(at[1], at[2]) = Upto \cup {at}
    BY <1>1 DEF Passed, Upto
  <1>3. ~Before(at, at[1], at[2])
    BY <1>1 DEF Before
  <1> QED
    BY <1>1, <1>2, <1>3 DEF Upto

(* A soup is listed: to be read from the first entry without a file, or    *)
(* done already, or refused.                                               *)
LEMMA ListIdsInv == ASSUME Inv, ListIds PROVE Inv'
  <1> DEFINE existing == IF resume THEN Existing(at) ELSE 0
             refused == resume /\ \/ Cardinality(DOMAIN file[at]) # existing
                                  \/ existing > Len(listing[at])
  <1>1. /\ phase = "sids" /\ at \in Dirs /\ Tidy(Upto) /\ TypeOK /\ OnDisk
        /\ UNCHANGED <<listing, changes, file, manifest, resume, runs, kills>>
        /\ exists' = TRUE
    BY DEF Inv, InRun, ListIds, device
  <1>2. OnDisk'
    BY <1>1, DiskStays
  <1>3. listing[at] \in Seq(Entries) /\ Len(listing[at]) \in Nat
    BY <1>1, LenProperties DEF TypeOK
  <1>4. ids' = listing[at] /\ written' = existing /\ counts' = Put(counts, at, Len(listing[at]))
    BY DEF ListIds
  <1>5. IF refused THEN phase' = "idle" /\ at' = at
        ELSE IF existing < Len(listing[at]) THEN phase' = "entr" /\ at' = at
        ELSE GoTo(Beyond(at[1], at[2]))
    BY DEF ListIds
  <1>6. existing \in Nat /\ DOMAIN file[at] = 1..existing
    <2>1. CASE resume
      <3>1. PICK k \in Nat : DOMAIN file[at] = 1..k
        BY <1>1 DEF OnDisk
      <3> QED
        BY <1>1, <2>1, <3>1, ExistingIs
    <2>2. CASE ~resume
      BY <1>1, <2>2, Here DEF Tidy
    <2> QED
      BY <2>1, <2>2
  <1>7. refused \/ existing <= Len(listing[at])
    <2>1. CASE resume
      BY <1>3, <1>6, <2>1
    <2>2. CASE ~resume
      BY <1>3, <2>2
    <2> QED
      BY <2>1, <2>2
  <1> HIDE DEF existing, refused
  <1>8. /\ DOMAIN counts' = Upto \cup {at} /\ counts'[at] = Len(listing[at])
        /\ \A d \in Upto : counts'[d] = counts[d]
    BY <1>1, <1>4, Here DEF Put, Tidy
  <1>9. CASE refused
    <2>1. phase' = "idle" /\ at' = at
      BY <1>5, <1>9
    <2>2. TypeOK'
      BY <1>1, <1>3, <1>4, <1>6, <2>1 DEF TypeOK, OnWire
    <2>3. InRun'
      BY <2>1 DEF InRun
    <2> QED
      BY <1>2, <2>2, <2>3 DEF Inv
  <1>10. CASE ~refused /\ existing < Len(listing[at])
    <2>1. phase' = "entr" /\ at' = at
      BY <1>5, <1>10
    <2>2. TypeOK'
      BY <1>1, <1>3, <1>4, <1>6, <1>10, <2>1 DEF TypeOK, OnWire
    <2>3. Upto' = Upto
      BY <2>1 DEF Upto
    <2>4. Reading'
      BY <1>1, <1>4, <1>6, <1>8, <2>1, <2>3, Here DEF Reading, Tidy
    <2>5. InRun'
      BY <2>1, <2>4 DEF InRun
    <2> QED
      BY <1>2, <2>2, <2>5 DEF Inv
  <1>11. CASE ~refused /\ ~(existing < Len(listing[at]))
    <2>1. GoTo(Beyond(at[1], at[2])) /\ existing = Len(listing[at])
      BY <1>3, <1>5, <1>6, <1>7, <1>11
    <2>2. DOMAIN counts' = Passed(at[1], at[2])
      BY <1>1, <1>8, Here
    <2>3. \A d \in Passed(at[1], at[2]) : DOMAIN file'[d] = 1..counts'[d]
      BY <1>1, <1>6, <1>8, <2>1, Here DEF Tidy
    <2>4. ~resume' => \A d \in Dirs \ Passed(at[1], at[2]) : DOMAIN file'[d] = {}
      BY <1>1, Here DEF Tidy
    <2>5. /\ InRun' /\ phase' \in {"ssou", "ssto", "manifest"}
          /\ phase' = "ssou" => at' \in Dirs
      BY <1>1, <2>1, <2>2, <2>3, <2>4, Here, GoOn
    <2>6. TypeOK'
      BY <1>1, <1>3, <1>4, <1>6, <2>5 DEF TypeOK, OnWire, Writing
    <2> QED
      BY <1>2, <2>5, <2>6 DEF Inv
  <1> QED
    BY <1>9, <1>10, <1>11

LEMMA FetchEntryInv == ASSUME Inv, FetchEntry PROVE Inv'
  <1>1. /\ phase = "entr" /\ phase' = "nsof"
        /\ UNCHANGED <<listing, changes, file, exists, manifest, at, ids, written, counts, resume, runs, kills>>
    BY DEF FetchEntry, device, disk, cursor
  <1>2. OnDisk'
    BY <1>1, DiskStays DEF Inv
  <1>3. TypeOK'
    BY <1>1 DEF Inv, TypeOK, OnWire, Writing
  <1>4. Reading'
    BY <1>1 DEF Inv, InRun, Reading, Upto
  <1>5. InRun'
    BY <1>1, <1>4 DEF InRun
  <1> QED
    BY <1>2, <1>3, <1>5 DEF Inv

-----------------------------------------------------------------------------
(* The .nsof of the next entry, whole or cut.                              *)
LEMMA NsofAt ==
    ASSUME Inv, phase = "nsof", NEW state \in {"cut", "whole"}, NsofPut(state)
    PROVE  LET w == written + 1
           IN  /\ at \in Dirs /\ w \in 1..Len(ids) /\ w \notin DOMAIN file[at]
               /\ DOMAIN file' = Dirs /\ DOMAIN file'[at] = DOMAIN file[at] \cup {w}
               /\ DOMAIN file'[at] = 1..w
               /\ file'[at][w] = [entry |-> ids[w], nsof |-> state, json |-> "none"]
               /\ file'[at][w] \in Pair
               /\ \A p \in DOMAIN file[at] : p # w /\ file'[at][p] = file[at][p]
               /\ \A d \in Dirs : d # at => file'[d] = file[d]
  <1> DEFINE w == written + 1
             v == [entry |-> ids[w], nsof |-> state, json |-> "none"]
  <1>1. TypeOK /\ Reading
    BY DEF Inv, InRun
  <1>2. at \in Dirs /\ ids \in Seq(Entries) /\ written \in Nat /\ written < Len(ids) /\ DOMAIN file = Dirs
    BY <1>1 DEF TypeOK, Reading
  <1>3. Len(ids) \in Nat /\ w \in 1..Len(ids) /\ ids[w] \in Entries
    BY <1>2, LenProperties
  <1>4. DOMAIN file[at] = 1..written /\ w \notin DOMAIN file[at]
    BY <1>1, <1>2 DEF Reading
  <1>5. file' = [file EXCEPT ![at] = Put(file[at], w, v)]
    BY DEF NsofPut
  <1>6. v \in Pair /\ v.nsof = state /\ v.json = "none" /\ v.entry = ids[w]
    BY <1>3 DEF Pair
  <1> HIDE DEF v
  <1>7. /\ DOMAIN file' = Dirs /\ file'[at] = Put(file[at], w, v)
        /\ \A d \in Dirs : d # at => file'[d] = file[d]
    BY <1>2, <1>5
  <1>8. /\ DOMAIN file'[at] = DOMAIN file[at] \cup {w} /\ file'[at][w] = v
        /\ \A p \in DOMAIN file[at] : p # w => file'[at][p] = file[at][p]
    BY <1>7 DEF Put
  <1>9. DOMAIN file'[at] = 1..w
    BY <1>2, <1>4, <1>8
  <1> QED
    BY <1>2, <1>3, <1>4, <1>6, <1>7, <1>8, <1>9 DEF v

(* Its .json.                                                              *)
LEMMA JsonAt ==
    ASSUME Inv, phase = "json", NEW state \in {"cut", "whole"}, JsonPut(state)
    PROVE  LET w == written + 1
           IN  /\ at \in Dirs /\ w \in 1..Len(ids) /\ w \in DOMAIN file[at]
               /\ DOMAIN file' = Dirs /\ \A d \in Dirs : DOMAIN file'[d] = DOMAIN file[d]
               /\ DOMAIN file[at] = 1..w
               /\ file[at][w].nsof = "whole"
               /\ file'[at][w] \in Pair
               /\ \A d \in Dirs : \A p \in DOMAIN file[d] :
                     /\ file'[d][p].entry = file[d][p].entry /\ file'[d][p].nsof = file[d][p].nsof
                     /\ d # at \/ p # w => file'[d][p] = file[d][p]
  <1> DEFINE w == written + 1
  <1>1. TypeOK /\ Reading
    BY DEF Inv, InRun
  <1>2. at \in Dirs /\ ids \in Seq(Entries) /\ written \in Nat /\ written < Len(ids) /\ DOMAIN file = Dirs
    BY <1>1 DEF TypeOK, Reading
  <1>3. Len(ids) \in Nat /\ w \in 1..Len(ids)
    BY <1>2, LenProperties
  <1>4. DOMAIN file[at] = 1..w /\ w \in DOMAIN file[at] /\ file[at][w].nsof = "whole"
    BY <1>1, <1>2 DEF Reading
  <1>5. file[at][w] \in Pair
    BY <1>1, <1>2, <1>4 DEF TypeOK
  <1>6. file' = [file EXCEPT ![at][w].json = state]
    BY DEF JsonPut
  <1>7. /\ DOMAIN file' = Dirs /\ DOMAIN file'[at] = DOMAIN file[at]
        /\ file'[at][w] = [file[at][w] EXCEPT !.json = state]
        /\ \A p \in DOMAIN file[at] : p # w => file'[at][p] = file[at][p]
        /\ \A d \in Dirs : d # at => file'[d] = file[d]
    BY <1>2, <1>4, <1>6
  <1>8. /\ file'[at][w] \in Pair /\ file'[at][w].entry = file[at][w].entry
        /\ file'[at][w].nsof = file[at][w].nsof
    BY <1>5, <1>7 DEF Pair
  <1> QED
    BY <1>2, <1>3, <1>4, <1>7, <1>8

(* What the disk is like afterwards.                                       *)
LEMMA NsofOnDisk ==
    ASSUME Inv, phase = "nsof", NEW state \in {"cut", "whole"}, NsofPut(state),
           UNCHANGED <<listing, changes, exists>>,
           kills' = IF state = "cut" THEN kills + 1 ELSE kills
    PROVE  OnDisk'
  <1> DEFINE w == written + 1
  <1>1. TypeOK /\ Reading /\ OnDisk
    BY DEF Inv, InRun
  <1>2. /\ at \in Dirs /\ w \in 1..Len(ids) /\ w \notin DOMAIN file[at]
        /\ DOMAIN file'[at] = DOMAIN file[at] \cup {w} /\ DOMAIN file'[at] = 1..w
        /\ file'[at][w].entry = ids[w] /\ file'[at][w].nsof = state /\ file'[at][w].json = "none"
        /\ \A p \in DOMAIN file[at] : p # w /\ file'[at][p] = file[at][p]
        /\ \A d \in Dirs : d # at => file'[d] = file[d]
    BY NsofAt
  <1>3. w \in Nat /\ exists /\ ids = listing[at] /\ kills \in Nat /\ DOMAIN ids = 1..Len(ids)
    BY <1>1, LenProperties DEF TypeOK, Reading
  <1> HIDE DEF w
  <1>4. \A d \in Dirs : \E k \in Nat : DOMAIN file'[d] = 1..k
    BY <1>1, <1>2, <1>3 DEF OnDisk
  <1>5. JsonMeansWhole'
    <2> SUFFICES ASSUME NEW d \in Dirs, NEW p \in DOMAIN file'[d], file'[d][p].json # "none"
                 PROVE  file'[d][p].nsof = "whole"
      BY DEF JsonMeansWhole
    <2>1. p \in DOMAIN file[d] /\ file'[d][p] = file[d][p]
      BY <1>2
    <2> QED
      BY <1>1, <2>1 DEF OnDisk, JsonMeansWhole
  <1>6. InPlace'
    <2> SUFFICES ASSUME changes = 0, NEW d \in Dirs, NEW p \in DOMAIN file'[d]
                 PROVE  p \in DOMAIN listing[d] /\ file'[d][p].entry = listing[d][p]
      BY DEF InPlace
    <2>1. CASE d = at /\ p = w
      BY <1>2, <1>3, <2>1
    <2>2. CASE ~(d = at /\ p = w)
      <3>1. p \in DOMAIN file[d] /\ file'[d][p] = file[d][p]
        BY <1>2, <2>2
      <3> QED
        BY <1>1, <3>1 DEF OnDisk, InPlace
    <2> QED
      BY <2>1, <2>2
  <1>7. FewCuts'
    <2>1. IsFiniteSet(Cuts) /\ Cardinality(Cuts) <= kills
      BY <1>1 DEF OnDisk, FewCuts
    <2>2. \A d \in Dirs : CutFiles(d)' = IF d = at /\ state = "cut"
                                         THEN CutFiles(d) \cup {w} ELSE CutFiles(d)
      BY <1>2 DEF CutFiles
    <2>3. \A x : x \in Cuts' <=> \E d \in Dirs : \E p \in CutFiles(d)' : x = <<d, p>>
      BY DEF Cuts
    <2>4. Cuts' = IF state = "cut" THEN Cuts \cup {<<at, w>>} ELSE Cuts
      <3>1. CASE state = "cut"
        <4>1. \A d \in Dirs : CutFiles(d)' = IF d = at THEN CutFiles(d) \cup {w} ELSE CutFiles(d)
          BY <2>2, <3>1
        <4>2. \A x : x \in Cuts' => x \in Cuts \/ x = <<at, w>>
          BY <2>3, <4>1, CutsAre
        <4>3. \A x : x \in Cuts => x \in Cuts'
          BY <2>3, <4>1, CutsAre
        <4>4. <<at, w>> \in Cuts'
          BY <1>2, <2>3, <4>1
        <4>5. Cuts' = Cuts \cup {<<at, w>>}
          BY <4>2, <4>3, <4>4
        <4> QED
          BY <3>1, <4>5
      <3>2. CASE state # "cut"
        <4>1. \A d \in Dirs : CutFiles(d)' = CutFiles(d)
          BY <2>2, <3>2
        <4>2. Cuts' = Cuts
          BY <4>1 DEF Cuts
        <4> QED
          BY <3>2, <4>2
      <3> QED
        BY <3>1, <3>2
    <2>5. Cardinality(Cuts) \in Nat
      BY <2>1, FS_CardinalityType
    <2>6. /\ IsFiniteSet(Cuts \cup {<<at, w>>})
          /\ Cardinality(Cuts \cup {<<at, w>>}) \in {Cardinality(Cuts), Cardinality(Cuts) + 1}
      BY <2>1, FS_AddElement
    <2> QED
      BY <1>3, <2>1, <2>4, <2>5, <2>6 DEF FewCuts
  <1> QED
    BY <1>3, <1>4, <1>5, <1>6, <1>7 DEF OnDisk

LEMMA JsonOnDisk ==
    ASSUME Inv, phase = "json", NEW state \in {"cut", "whole"}, JsonPut(state),
           UNCHANGED <<listing, changes, exists>>, kills' \in {kills, kills + 1}
    PROVE  OnDisk'
  <1> DEFINE w == written + 1
  <1>1. TypeOK /\ Reading /\ OnDisk
    BY DEF Inv, InRun
  <1>2. /\ at \in Dirs /\ \A d \in Dirs : DOMAIN file'[d] = DOMAIN file[d]
        /\ file[at][w].nsof = "whole"
        /\ \A d \in Dirs : \A p \in DOMAIN file[d] :
              /\ file'[d][p].entry = file[d][p].entry /\ file'[d][p].nsof = file[d][p].nsof
              /\ d # at \/ p # w => file'[d][p] = file[d][p]
    BY JsonAt
  <1> HIDE DEF w
  <1>3. kills \in Nat /\ exists
    BY <1>1 DEF TypeOK, Reading
  <1>4. \A d \in Dirs : \E k \in Nat : DOMAIN file'[d] = 1..k
    BY <1>1, <1>2 DEF OnDisk
  <1>5. JsonMeansWhole'
    <2> SUFFICES ASSUME NEW d \in Dirs, NEW p \in DOMAIN file[d], file'[d][p].json # "none"
                 PROVE  file'[d][p].nsof = "whole"
      BY <1>2 DEF JsonMeansWhole
    <2>1. CASE d = at /\ p = w
      BY <1>2, <2>1
    <2>2. CASE d # at \/ p # w
      BY <1>1, <1>2, <2>2 DEF OnDisk, JsonMeansWhole
    <2> QED
      BY <2>1, <2>2
  <1>6. InPlace'
    BY <1>1, <1>2 DEF OnDisk, InPlace
  <1>7. FewCuts'
    <2>1. IsFiniteSet(Cuts) /\ Cardinality(Cuts) <= kills
      BY <1>1 DEF OnDisk, FewCuts
    <2>2. \A d \in Dirs : CutFiles(d)' = CutFiles(d)
      BY <1>2 DEF CutFiles
    <2>3. Cuts' = Cuts
      BY <2>2 DEF Cuts
    <2>4. Cardinality(Cuts) \in Nat
      BY <2>1, FS_CardinalityType
    <2> QED
      BY <1>3, <2>1, <2>3, <2>4 DEF FewCuts
  <1> QED
    BY <1>3, <1>4, <1>5, <1>6, <1>7 DEF OnDisk

(* The types, whatever has been written.                                   *)
LEMMA NsofTypes ==
    ASSUME Inv, phase = "nsof", NEW state \in {"cut", "whole"}, NsofPut(state)
    PROVE  DOMAIN file' = Dirs /\ \A d \in Dirs : \A p \in DOMAIN file'[d] : p \in Nat /\ file'[d][p] \in Pair
  <1>1. /\ DOMAIN file' = Dirs /\ DOMAIN file'[at] = DOMAIN file[at] \cup {written + 1}
        /\ file'[at][written + 1] \in Pair
        /\ \A p \in DOMAIN file[at] : file'[at][p] = file[at][p]
        /\ \A d \in Dirs : d # at => file'[d] = file[d]
    BY NsofAt
  <1>2. TypeOK /\ written \in Nat
    BY DEF Inv, TypeOK
  <1> QED
    BY <1>1, <1>2 DEF TypeOK

LEMMA JsonTypes ==
    ASSUME Inv, phase = "json", NEW state \in {"cut", "whole"}, JsonPut(state)
    PROVE  DOMAIN file' = Dirs /\ \A d \in Dirs : \A p \in DOMAIN file'[d] : p \in Nat /\ file'[d][p] \in Pair
  <1>1. /\ DOMAIN file' = Dirs /\ \A d \in Dirs : DOMAIN file'[d] = DOMAIN file[d]
        /\ file'[at][written + 1] \in Pair
        /\ \A d \in Dirs : \A p \in DOMAIN file[d] :
              d # at \/ p # written + 1 => file'[d][p] = file[d][p]
    BY JsonAt
  <1>2. TypeOK
    BY DEF Inv
  <1> QED
    BY <1>1, <1>2 DEF TypeOK

(* The entry is done: the next one, or the next soup.                      *)
LEMMA EntryDoneOn ==
    ASSUME Inv, phase \in {"nsof", "json"}, EntryDone,
           UNCHANGED <<listing, ids, counts, resume, exists>>,
           DOMAIN file'[at] = 1..(written + 1),
           \A d \in Dirs : d # at => DOMAIN file'[d] = DOMAIN file[d]
    PROVE  /\ InRun' /\ written' \in Nat
           /\ phase' \in {"entr", "ssou", "ssto", "manifest"}
           /\ phase' \in {"ssou", "entr"} => at' \in Dirs
           /\ phase' = "entr" => written' < Len(ids)
  <1>1. TypeOK /\ Reading
    BY DEF Inv, InRun
  <1>2. /\ at \in Dirs /\ ids \in Seq(Entries) /\ written \in Nat /\ written < Len(ids)
        /\ written' = written + 1
    BY <1>1 DEF TypeOK, Reading, EntryDone
  <1>3. Len(ids) \in Nat
    BY <1>2, LenProperties
  <1>4. CASE written + 1 < Len(ids)
    <2>1. phase' = "entr" /\ at' = at
      BY <1>4 DEF EntryDone
    <2>2. Upto' = Upto
      BY <2>1 DEF Upto
    <2>3. at \notin Upto /\ Upto \subseteq Dirs
      BY <1>1, <1>2, Here
    <2>4. Reading'
      BY <1>1, <1>2, <2>1, <2>2, <2>3 DEF Reading
    <2>5. InRun'
      BY <2>1, <2>4 DEF InRun
    <2> QED
      BY <1>2, <1>4, <2>1, <2>5
  <1>5. CASE ~(written + 1 < Len(ids))
    <2>1. GoTo(Beyond(at[1], at[2])) /\ written + 1 = Len(ids)
      BY <1>2, <1>3, <1>5 DEF EntryDone
    <2>2. DOMAIN counts' = Passed(at[1], at[2])
      BY <1>1, <1>2, Here DEF Reading
    <2>3. \A d \in Passed(at[1], at[2]) : DOMAIN file'[d] = 1..counts'[d]
      BY <1>1, <1>2, <2>1, Here DEF Reading
    <2>4. ~resume' => \A d \in Dirs \ Passed(at[1], at[2]) : DOMAIN file'[d] = {}
      BY <1>1, <1>2, Here DEF Reading
    <2>5. /\ InRun' /\ phase' \in {"ssou", "ssto", "manifest"}
          /\ phase' = "ssou" => at' \in Dirs
      BY <1>1, <1>2, <2>1, <2>2, <2>3, <2>4, Here, GoOn
    <2> QED
      BY <1>2, <2>5
  <1> QED
    BY <1>4, <1>5

LEMMA WriteNsofInv == ASSUME Inv, WriteNsof PROVE Inv'
  <1>1. /\ phase = "nsof" /\ NsofPut("whole")
        /\ UNCHANGED <<listing, changes, exists, manifest, ids, counts, resume, runs, kills>>
    BY DEF WriteNsof, device
  <1>2. TypeOK /\ Reading
    BY <1>1 DEF Inv, InRun
  <1>3. /\ DOMAIN file' = Dirs
        /\ \A d \in Dirs : \A p \in DOMAIN file'[d] : p \in Nat /\ file'[d][p] \in Pair
    BY <1>1, NsofTypes
  <1>4. OnDisk'
    BY <1>1, NsofOnDisk
  <1>5. /\ DOMAIN file'[at] = 1..(written + 1)
        /\ file'[at][written + 1].nsof = "whole"
        /\ \A d \in Dirs : d # at => file'[d] = file[d]
    BY <1>1, NsofAt
  <1>6. CASE EntryDone
    <2>1. /\ InRun' /\ written' \in Nat
          /\ phase' \in {"entr", "ssou", "ssto", "manifest"}
          /\ phase' \in {"ssou", "entr"} => at' \in Dirs
          /\ phase' = "entr" => written' < Len(ids)
      BY <1>1, <1>5, <1>6, EntryDoneOn
    <2>2. TypeOK'
      BY <1>1, <1>2, <1>3, <2>1 DEF TypeOK, OnWire, Writing
    <2> QED
      BY <1>4, <2>1, <2>2 DEF Inv
  <1>7. CASE phase' = "json" /\ UNCHANGED <<at, written>>
    <2>1. TypeOK'
      BY <1>1, <1>2, <1>3, <1>7 DEF TypeOK, OnWire, Writing
    <2>2. Upto' = Upto
      BY <1>7 DEF Upto
    <2>3. at \notin Upto /\ Upto \subseteq Dirs
      BY <1>2, Here DEF Reading
    <2>4. Reading'
      BY <1>1, <1>2, <1>5, <1>7, <2>2, <2>3 DEF Reading
    <2>5. InRun'
      BY <1>7, <2>4 DEF InRun
    <2> QED
      BY <1>4, <2>1, <2>5 DEF Inv
  <1> QED
    BY <1>6, <1>7 DEF WriteNsof

LEMMA WriteJsonInv == ASSUME Inv, WriteJson PROVE Inv'
  <1>0. PICK state \in {"cut", "whole"} : JsonPut(state)
    BY DEF WriteJson
  <1>1. /\ phase = "json" /\ JsonPut(state) /\ EntryDone
        /\ UNCHANGED <<listing, changes, exists, manifest, ids, counts, resume, runs, kills>>
    BY <1>0 DEF WriteJson, device
  <1>2. TypeOK
    BY DEF Inv
  <1>3. /\ DOMAIN file' = Dirs
        /\ \A d \in Dirs : \A p \in DOMAIN file'[d] : p \in Nat /\ file'[d][p] \in Pair
    BY <1>1, JsonTypes
  <1>4. OnDisk'
    BY <1>1, JsonOnDisk
  <1>5. /\ DOMAIN file'[at] = 1..(written + 1)
        /\ \A d \in Dirs : d # at => DOMAIN file'[d] = DOMAIN file[d]
    BY <1>1, JsonAt
  <1>6. /\ InRun' /\ written' \in Nat
        /\ phase' \in {"entr", "ssou", "ssto", "manifest"}
        /\ phase' \in {"ssou", "entr"} => at' \in Dirs
        /\ phase' = "entr" => written' < Len(ids)
    BY <1>1, <1>5, EntryDoneOn
  <1>7. TypeOK'
    BY <1>1, <1>2, <1>3, <1>6 DEF TypeOK, OnWire, Writing
  <1> QED
    BY <1>4, <1>6, <1>7 DEF Inv

LEMMA WriteManifestInv == ASSUME Inv, WriteManifest PROVE Inv'
  <1>1. /\ phase' = "idle" /\ exists' = TRUE /\ manifest'.state = "whole"
        /\ UNCHANGED <<listing, changes, file, at, ids, written, counts, resume, runs, kills>>
    BY DEF WriteManifest, device, cursor
  <1>2. OnDisk'
    BY <1>1, DiskStays DEF Inv
  <1>3. TypeOK'
    BY <1>1 DEF Inv, TypeOK, OnWire
  <1>4. InRun'
    BY <1>1 DEF InRun
  <1> QED
    BY <1>2, <1>3, <1>4 DEF Inv

(* A run is killed.                                                        *)
LEMMA KillInv == ASSUME Inv, Kill PROVE Inv'
  <1>1. /\ phase' = "idle" /\ kills' = kills + 1
        /\ UNCHANGED <<listing, changes, exists, at, ids, written, counts, resume, runs>>
    BY DEF Kill, device, cursor
  <1>2. TypeOK /\ OnDisk /\ kills \in Nat /\ kills' \in Nat
    BY <1>1 DEF Inv, TypeOK
  <1>3. InRun'
    BY <1>1 DEF InRun
  <1>4. ASSUME UNCHANGED file PROVE OnDisk'
    <2>1. JsonMeansWhole' /\ InPlace'
      BY <1>1, <1>2, <1>4 DEF OnDisk, JsonMeansWhole, InPlace
    <2>2. Cuts' = Cuts
      BY <1>4 DEF Cuts, CutFiles
    <2>3. IsFiniteSet(Cuts) /\ Cardinality(Cuts) <= kills /\ Cardinality(Cuts) \in Nat
      BY <1>2, FS_CardinalityType DEF OnDisk, FewCuts
    <2>4. FewCuts'
      BY <1>1, <1>2, <2>2, <2>3 DEF FewCuts
    <2> QED
      BY <1>1, <1>2, <1>4, <2>1, <2>4 DEF OnDisk
  <1>5. ASSUME DOMAIN file' = Dirs, manifest'.state \in {"none", "cut", "whole"},
               \A d \in Dirs : \A p \in DOMAIN file'[d] : p \in Nat /\ file'[d][p] \in Pair
        PROVE  TypeOK'
    BY <1>1, <1>2, <1>5 DEF TypeOK, OnWire
  <1>6. CASE UNCHANGED <<file, manifest>>
    <2>1. TypeOK'
      BY <1>2, <1>5, <1>6 DEF TypeOK
    <2> QED
      BY <1>3, <1>4, <1>6, <2>1 DEF Inv
  <1>7. CASE phase = "nsof" /\ NsofPut("cut") /\ UNCHANGED manifest
    <2>1. OnDisk'
      BY <1>1, <1>7, NsofOnDisk
    <2>2. /\ DOMAIN file' = Dirs
          /\ \A d \in Dirs : \A p \in DOMAIN file'[d] : p \in Nat /\ file'[d][p] \in Pair
      BY <1>7, NsofTypes
    <2>3. TypeOK'
      BY <1>2, <1>5, <1>7, <2>2 DEF TypeOK
    <2> QED
      BY <1>3, <2>1, <2>3 DEF Inv
  <1>8. CASE phase = "json" /\ JsonPut("cut") /\ UNCHANGED manifest
    <2>1. OnDisk'
      BY <1>1, <1>8, JsonOnDisk
    <2>2. /\ DOMAIN file' = Dirs
          /\ \A d \in Dirs : \A p \in DOMAIN file'[d] : p \in Nat /\ file'[d][p] \in Pair
      BY <1>8, JsonTypes
    <2>3. TypeOK'
      BY <1>2, <1>5, <1>8, <2>2 DEF TypeOK
    <2> QED
      BY <1>3, <2>1, <2>3 DEF Inv
  <1>9. CASE manifest' = [state |-> "cut", counts |-> Empty] /\ UNCHANGED file
    <2>1. TypeOK'
      BY <1>2, <1>5, <1>9 DEF TypeOK
    <2> QED
      BY <1>3, <1>4, <1>9, <2>1 DEF Inv
  <1> QED
    BY <1>6, <1>7, <1>8, <1>9 DEF Kill

(* The Newton changes while no run is docked.                              *)
LEMMA UserChangesInv == ASSUME Inv, NEW d \in Dirs, UserChanges(d) PROVE Inv'
  <1>1. /\ phase = "idle" /\ phase' = "idle" /\ changes' = changes + 1
        /\ UNCHANGED <<file, exists, manifest, at, ids, written, counts, resume, runs, kills>>
    BY DEF UserChanges, disk, cursor
  <1>2. TypeOK /\ OnDisk /\ changes \in Nat /\ listing \in [Dirs -> Seq(Entries)]
    BY DEF Inv, TypeOK
  <1>3. listing' \in [Dirs -> Seq(Entries)]
    <2>1. CASE \E i \in 1..Len(listing[d]) : listing' = [listing EXCEPT ![d] = DeleteAt(listing[d], i)]
      <3>1. PICK i \in 1..Len(listing[d]) : listing' = [listing EXCEPT ![d] = DeleteAt(listing[d], i)]
        BY <2>1
      <3>2. DeleteAt(listing[d], i) \in Seq(Entries)
        BY <1>2, DeleteType
      <3> QED
        BY <1>2, <3>1, <3>2
    <2>2. CASE \E e \in Entries : listing' = [listing EXCEPT ![d] = Append(listing[d], e)]
      <3>1. PICK e \in Entries : listing' = [listing EXCEPT ![d] = Append(listing[d], e)]
        BY <2>2
      <3>2. Append(listing[d], e) \in Seq(Entries)
        BY <1>2, AppendProperties
      <3> QED
        BY <1>2, <3>1, <3>2
    <2> QED
      BY <2>1, <2>2 DEF UserChanges
  <1>4. TypeOK'
    BY <1>1, <1>2, <1>3 DEF TypeOK, OnWire
  <1>5. JsonMeansWhole' /\ InPlace'
    BY <1>1, <1>2 DEF OnDisk, JsonMeansWhole, InPlace
  <1>6. FewCuts'
    <2>1. Cuts' = Cuts
      BY <1>1 DEF Cuts, CutFiles
    <2> QED
      BY <1>1, <1>2, <2>1 DEF OnDisk, FewCuts
  <1>7. OnDisk'
    BY <1>1, <1>2, <1>5, <1>6 DEF OnDisk
  <1>8. InRun'
    BY <1>1 DEF InRun
  <1> QED
    BY <1>4, <1>7, <1>8 DEF Inv

-----------------------------------------------------------------------------
LEMMA NextInv == ASSUME Inv, Next PROVE Inv'
  <1>1. CASE \E r \in BOOLEAN : Accept(r)
    BY <1>1, AcceptInv
  <1>2. CASE RunStep
    BY <1>2, GreetInv, AuthenticateInv, ListStoresInv, SelectStoreInv, ListSoupsInv, SelectSoupInv,
       ListIdsInv, FetchEntryInv, WriteNsofInv, WriteJsonInv, WriteManifestInv, LoseInv DEF RunStep
  <1>3. CASE Kill
    BY <1>3, KillInv
  <1>4. CASE \E d \in Dirs : UserChanges(d)
    BY <1>4, UserChangesInv
  <1> QED
    BY <1>1, <1>2, <1>3, <1>4 DEF Next

LEMMA StutterInv == ASSUME Inv, UNCHANGED vars PROVE Inv'
  <1>1. UNCHANGED <<listing, changes, file, exists, manifest, at, ids, written, counts, phase,
                    resume, runs, kills>>
    BY DEF vars, device, disk, cursor
  <1>2. OnDisk'
    BY <1>1, DiskStays DEF Inv
  <1>3. TypeOK'
    BY <1>1 DEF Inv, TypeOK
  <1>4. Upto' = Upto
    BY <1>1 DEF Upto
  <1>5. phase \in {"entr", "nsof", "json"} => Reading'
    BY <1>1, <1>4 DEF Inv, InRun, Reading
  <1>6. InRun'
    BY <1>1, <1>4, <1>5 DEF Inv, InRun, Tidy
  <1> QED
    BY <1>2, <1>3, <1>6 DEF Inv

(* The invariant holds in every state.                                     *)
LEMMA AlwaysInv == Spec => []Inv
  <1>1. Inv /\ [Next]_vars => Inv'
    BY NextInv, StutterInv
  <1> QED
    BY <1>1, InitInv, PTL DEF Spec

(* Soups, files and the state of a run keep their types.                   *)
THEOREM Types == Spec => []TypeOK
  <1>1. Inv => TypeOK
    BY DEF Inv
  <1> QED
    BY <1>1, AlwaysInv, PTL

(* After any number of kills, lost connections and resumes, the files of   *)
(* every soup are numbered without a gap.                                  *)
THEOREM NoGaps == Spec => []Sequential
  <1>1. Inv => Sequential
    <2> SUFFICES ASSUME Inv, NEW d \in Dirs PROVE DOMAIN file[d] = 1..Cardinality(DOMAIN file[d])
      BY DEF Sequential
    <2>1. PICK k \in Nat : DOMAIN file[d] = 1..k
      BY DEF Inv, OnDisk
    <2> QED
      BY <2>1, ExistingIs
  <1> QED
    BY <1>1, AlwaysInv, PTL

(* A .json never stands next to an entry that was cut short.               *)
THEOREM JsonTells == Spec => []JsonMeansWhole
  <1>1. Inv => JsonMeansWhole
    BY DEF Inv, OnDisk
  <1> QED
    BY <1>1, AlwaysInv, PTL

(* On an unchanged Newton every file holds the entry of its number,        *)
(* however many runs wrote the directory.                                  *)
THEOREM StaysInPlace == Spec => []InPlace
  <1>1. Inv => InPlace
    BY DEF Inv, OnDisk
  <1> QED
    BY <1>1, AlwaysInv, PTL

(* No step of any run, nor a kill in the middle of a write, replaces an    *)
(* entry file that is there.                                               *)
THEOREM NothingReplaced == Spec => FilesKept
  <1> DEFINE Kept == \A d \in Dirs : \A p \in DOMAIN file[d] :
                        /\ p \in DOMAIN file'[d]
                        /\ file'[d][p].entry = file[d][p].entry
                        /\ file'[d][p].nsof = file[d][p].nsof
  <1>1. Inv /\ [Next]_vars => [Kept]_vars
    <2> SUFFICES ASSUME Inv, [Next]_vars PROVE Kept
      OBVIOUS
    <2>1. CASE UNCHANGED file
      BY <2>1
    <2>2. ASSUME NEW state \in {"cut", "whole"}, phase = "nsof", NsofPut(state) PROVE Kept
      BY <2>2, NsofAt
    <2>3. ASSUME NEW state \in {"cut", "whole"}, phase = "json", JsonPut(state) PROVE Kept
      BY <2>3, JsonAt
    <2>4. CASE WriteNsof
      BY <2>2, <2>4 DEF WriteNsof
    <2>5. CASE WriteJson
      <3>1. phase = "json" /\ \E state \in {"cut", "whole"} : JsonPut(state)
        BY <2>5 DEF WriteJson
      <3> QED
        BY <2>3, <3>1
    <2>6. CASE Kill
      BY <2>1, <2>2, <2>3, <2>6 DEF Kill
    <2>7. Next => WriteNsof \/ WriteJson \/ Kill \/ UNCHANGED file
      BY DEF Next, RunStep, Accept, Greet, Authenticate, ListStores, SelectStore, ListSoups,
             SelectSoup, ListIds, FetchEntry, WriteManifest, Lose, UserChanges, disk
    <2>8. UNCHANGED vars => UNCHANGED file
      BY DEF vars, disk
    <2> QED
      BY <2>1, <2>4, <2>5, <2>6, <2>7, <2>8
  <1>2. Spec => [][Kept]_vars
    BY <1>1, AlwaysInv, PTL DEF Spec
  <1> QED
    BY <1>2 DEF FilesKept

(* Whatever became of earlier runs, a manifest is written over directories *)
(* with exactly the files it states, no more of them cut than runs were    *)
(* killed.                                                                 *)
THEOREM ManifestTrue == Spec => ManifestComplete
  <1> DEFINE Stated == manifest'.state = "whole" /\ manifest' # manifest =>
                        /\ DOMAIN manifest'.counts = Dirs
                        /\ \A d \in Dirs : DOMAIN file[d] = 1..manifest'.counts[d]
                        /\ Cardinality(UNION {{d} \X CutFiles(d) : d \in Dirs}) <= kills
  <1>1. Inv /\ [Next]_vars => [Stated]_vars
    <2> SUFFICES ASSUME Inv, [Next]_vars, manifest'.state = "whole", manifest' # manifest
                 PROVE  /\ DOMAIN manifest'.counts = Dirs
                        /\ \A d \in Dirs : DOMAIN file[d] = 1..manifest'.counts[d]
                        /\ Cardinality(Cuts) <= kills
      BY DEF Cuts
    <2>1. Next
      BY DEF vars, disk
    <2>2. ~Kill
      BY DEF Kill
    <2>3. WriteManifest
      BY <2>1, <2>2 DEF Next, RunStep, Accept, Greet, Authenticate, ListStores, SelectStore,
         ListSoups, SelectSoup, ListIds, FetchEntry, WriteNsof, WriteJson, Lose, UserChanges, disk
    <2>4. Tidy(Dirs) /\ FewCuts /\ manifest'.counts = counts
      BY <2>3 DEF WriteManifest, Inv, InRun, OnDisk
    <2> QED
      BY <2>4 DEF Tidy, FewCuts
  <1>2. Spec => [][Stated]_vars
    BY <1>1, AlwaysInv, PTL DEF Spec
  <1> QED
    BY <1>2, PTL DEF ManifestComplete
=============================================================================
