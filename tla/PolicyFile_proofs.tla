--------------------------- MODULE PolicyFile_proofs ---------------------------
(***************************************************************************)
(* PolicyFile for any number of commands, servers and edits: what init     *)
(* writes and what verify finds, as facts about Merge and Violations, and  *)
(* the invariant that carries them to the file: a command works on a       *)
(* policy it has read, of servers it has asked.                            *)
(***************************************************************************)
EXTENDS PolicyFileProperties, TLAPS

Entries == UNION {[K -> ToolPolicy] : K \in SUBSET Key}

Holdings == UNION {[S -> Inventory] : S \in SUBSET Server}

(***************************************************************************)
(* Configurations and inventories.                                         *)
(***************************************************************************)
LEMMA EmptyFunction == \A X : <<>> \in [{} -> X]
OBVIOUS

LEMMA EmptyIsConfig == Empty \in Config /\ DOMAIN Empty.tools = {} /\ <<>> \in Holdings
BY EmptyFunction DEF Empty, Config, Holdings

LEMMA ConfigIntro ==
  ASSUME NEW S \in SUBSET Server, NEW K \in SUBSET Key, NEW f \in [K -> ToolPolicy]
  PROVE  [servers |-> S, tools |-> f] \in Config
BY DEF Config

LEMMA ConfigFacts ==
  ASSUME NEW c \in Config
  PROVE  /\ c.servers \in SUBSET Server
         /\ DOMAIN c.tools \in SUBSET Key
         /\ c.tools \in [DOMAIN c.tools -> ToolPolicy]
         /\ c = [servers |-> c.servers, tools |-> c.tools]
<1>1. PICK K \in SUBSET Key : c.tools \in [K -> ToolPolicy]
  BY DEF Config
<1>. QED
  BY <1>1 DEF Config

LEMMA InventoryFacts ==
  ASSUME NEW inv \in Inventory
  PROVE  /\ DOMAIN inv \in SUBSET Tool
         /\ \A t \in DOMAIN inv : inv[t] \in Digest
BY DEF Inventory

LEMMA HoldingFacts ==
  ASSUME NEW h \in Holdings
  PROVE  /\ DOMAIN h \in SUBSET Server
         /\ \A s \in DOMAIN h : h[s] \in Inventory
BY DEF Holdings

LEMMA KeyFacts ==
  ASSUME NEW s \in Server, NEW t \in Tool
  PROVE  /\ KeyOf[<<s, t>>] \in Key
         /\ \A u \in Tool : KeyOf[<<s, t>>] = KeyOf[<<s, u>>] => t = u
BY PolicyFileAssumption

(***************************************************************************)
(* What init writes: every entry it found in the file under its own key,   *)
(* and for each tool of the server the entry that Entry makes of it.       *)
(***************************************************************************)
LEMMA EntryFacts ==
  ASSUME NEW c \in Config, NEW s \in Server, NEW inv \in Inventory,
         NEW repin \in BOOLEAN, NEW t \in DOMAIN inv
  PROVE  /\ Entry(c, s, inv, repin, t) \in ToolPolicy
         /\ t \in New(c, s, inv) => Entry(c, s, inv, repin, t).digest = inv[t]
         /\ t \notin New(c, s, inv) =>
              LET old == c.tools[KeyOf[<<s, t>>]]
                  new == Entry(c, s, inv, repin, t)
              IN  /\ new.reviewed = old.reviewed
                  /\ IF repin THEN new.digest = inv[t] ELSE new = old
<1>. DEFINE k == KeyOf[<<s, t>>]
<1>0. inv[t] \in Digest /\ t \in Tool
  BY InventoryFacts
<1>1. CASE t \in New(c, s, inv)
  BY <1>0, <1>1 DEF Entry, ToolPolicy
<1>2. CASE t \notin New(c, s, inv)
  <2>1. k \in DOMAIN c.tools /\ c.tools[k] \in ToolPolicy
    BY <1>2, ConfigFacts DEF New
  <2>2. CASE repin /\ c.tools[k].digest # inv[t]
    <3>1. Entry(c, s, inv, repin, t) = [c.tools[k] EXCEPT !.digest = inv[t]]
      BY <1>2, <2>2 DEF Entry, Accepted, Changed
    <3>. QED
      BY <1>0, <1>2, <2>1, <2>2, <3>1 DEF ToolPolicy
  <2>3. CASE ~(repin /\ c.tools[k].digest # inv[t])
    <3>1. Entry(c, s, inv, repin, t) = c.tools[k]
      BY <1>2, <2>3 DEF Entry, Accepted, Changed
    <3>. QED
      BY <1>2, <2>1, <2>3, <3>1
  <2>. QED
    BY <2>2, <2>3
<1>. QED
  BY <1>1, <1>2

LEMMA MergeFacts ==
  ASSUME NEW c \in Config, NEW s \in Server, NEW inv \in Inventory, NEW repin \in BOOLEAN
  PROVE  LET out == Merge(c, s, inv, repin)
         IN  /\ out \in Config
             /\ c.servers \subseteq out.servers
             /\ DOMAIN c.tools \subseteq DOMAIN out.tools
             /\ \A t \in DOMAIN inv :
                  /\ KeyOf[<<s, t>>] \in DOMAIN out.tools
                  /\ out.tools[KeyOf[<<s, t>>]] = Entry(c, s, inv, repin, t)
             /\ \A k \in DOMAIN c.tools :
                  \/ out.tools[k] = c.tools[k]
                  \/ \E t \in DOMAIN inv : k = KeyOf[<<s, t>>]
<1>. DEFINE out  == Merge(c, s, inv, repin)
            Mine == {KeyOf[<<s, t>>] : t \in DOMAIN inv}
            Own(k) == CHOOSE t \in DOMAIN inv : KeyOf[<<s, t>>] = k
<1>1. /\ c.servers \subseteq Server /\ DOMAIN c.tools \subseteq Key
      /\ \A k \in DOMAIN c.tools : c.tools[k] \in ToolPolicy
  BY ConfigFacts
<1>2. Mine \subseteq Key
  BY KeyFacts, InventoryFacts
<1>3. \A t \in DOMAIN inv : Own(KeyOf[<<s, t>>]) = t
  BY KeyFacts, InventoryFacts
<1>4. out = [servers |-> c.servers \cup {s},
             tools |-> [k \in DOMAIN c.tools \cup Mine |->
                          IF k \in Mine THEN Entry(c, s, inv, repin, Own(k)) ELSE c.tools[k]]]
  BY DEF Merge
<1>5. \A k \in Mine : Entry(c, s, inv, repin, Own(k)) \in ToolPolicy
  BY <1>3, EntryFacts
<1>. HIDE DEF Own, Mine
<1>6. out.tools \in [DOMAIN c.tools \cup Mine -> ToolPolicy]
  BY <1>1, <1>4, <1>5
<1>7. out \in Config
  BY <1>1, <1>2, <1>4, <1>6, ConfigIntro
<1>8. c.servers \subseteq out.servers /\ DOMAIN out.tools = DOMAIN c.tools \cup Mine
  BY <1>4
<1>9. ASSUME NEW t \in DOMAIN inv
      PROVE  /\ KeyOf[<<s, t>>] \in DOMAIN out.tools
             /\ out.tools[KeyOf[<<s, t>>]] = Entry(c, s, inv, repin, t)
  <2>1. KeyOf[<<s, t>>] \in Mine
    BY DEF Mine
  <2>2. out.tools[KeyOf[<<s, t>>]] = Entry(c, s, inv, repin, Own(KeyOf[<<s, t>>]))
    BY <1>4, <2>1
  <2>. QED
    BY <1>3, <1>8, <2>1, <2>2
<1>10. \A k \in DOMAIN c.tools : \/ out.tools[k] = c.tools[k]
                                 \/ \E t \in DOMAIN inv : k = KeyOf[<<s, t>>]
  BY <1>4 DEF Mine
<1>. QED
  BY <1>7, <1>8, <1>9, <1>10

(***************************************************************************)
(* Merge keeps every entry with its review, and its digest but for --repin.*)
(***************************************************************************)
LEMMA MergeKeeps ==
  ASSUME NEW c \in Config, NEW s \in Server, NEW inv \in Inventory, NEW repin \in BOOLEAN,
         NEW k \in DOMAIN c.tools
  PROVE  LET out == Merge(c, s, inv, repin)
         IN  /\ k \in DOMAIN out.tools
             /\ out.tools[k].reviewed = c.tools[k].reviewed
             /\ out.tools[k].digest # c.tools[k].digest => repin
<1>. DEFINE out == Merge(c, s, inv, repin)
<1>1. k \in DOMAIN out.tools
  BY MergeFacts
<1>2. CASE out.tools[k] = c.tools[k]
  BY <1>1, <1>2
<1>3. ASSUME NEW t \in DOMAIN inv, k = KeyOf[<<s, t>>]
      PROVE  /\ out.tools[k].reviewed = c.tools[k].reviewed
             /\ out.tools[k].digest # c.tools[k].digest => repin
  <2>1. t \notin New(c, s, inv)
    BY <1>3 DEF New
  <2>2. out.tools[k] = Entry(c, s, inv, repin, t)
    BY <1>3, MergeFacts
  <2>. QED
    BY <1>3, <2>1, <2>2, EntryFacts
<1>4. out.tools[k] = c.tools[k] \/ \E t \in DOMAIN inv : k = KeyOf[<<s, t>>]
  BY MergeFacts
<1>5. /\ out.tools[k].reviewed = c.tools[k].reviewed
      /\ out.tools[k].digest # c.tools[k].digest => repin
  <2>. HIDE DEF out
  <2>. QED
    BY <1>2, <1>3, <1>4
<1>. QED
  BY <1>1, <1>5

(***************************************************************************)
(* What a strict verify finds in the merged policy is what had drifted in  *)
(* the one it was merged from, and nothing of it after --repin.            *)
(***************************************************************************)
LEMMA MergeVerified ==
  ASSUME NEW c \in Config, NEW s \in Server, NEW inv \in Inventory, NEW repin \in BOOLEAN
  PROVE  LET left == Violations(Merge(c, s, inv, repin), s, inv, TRUE)
         IN  left \subseteq Drifted(c, s, inv) /\ (repin => left = {})
<1>. DEFINE out == Merge(c, s, inv, repin)
<1>1. New(out, s, inv) = {}
  BY MergeFacts DEF New
<1>2. ASSUME NEW t \in Drifted(out, s, inv)
      PROVE  t \in Drifted(c, s, inv) /\ ~repin
  <2>1. /\ t \in DOMAIN inv
        /\ out.tools[KeyOf[<<s, t>>]].digest # inv[t]
        /\ out.tools[KeyOf[<<s, t>>]].digest # NoDigest
    BY DEF Drifted, Changed
  <2>2. out.tools[KeyOf[<<s, t>>]] = Entry(c, s, inv, repin, t)
    BY <2>1, MergeFacts
  <2>3. t \notin New(c, s, inv) /\ ~repin
    BY <2>1, <2>2, EntryFacts
  <2>4. Entry(c, s, inv, repin, t) = c.tools[KeyOf[<<s, t>>]]
    BY <2>1, <2>3, EntryFacts
  <2>. QED
    BY <2>1, <2>2, <2>3, <2>4 DEF Drifted, Changed
<1>. QED
  BY <1>1, <1>2 DEF Violations

(***************************************************************************)
(* A strict verify without violations pins every tool it was shown, under  *)
(* the key the wall looks at first, to that definition or to none.         *)
(***************************************************************************)
LEMMA CleanPins ==
  ASSUME NEW c, NEW s, NEW inv, Violations(c, s, inv, TRUE) = {}, NEW t \in DOMAIN inv
  PROVE  Listed(c, s, t) /\ Lookup(c, s, t).digest \in {NoDigest, inv[t]}
<1>1. New(c, s, inv) = {} /\ Drifted(c, s, inv) = {}
  BY DEF Violations
<1>2. KeyOf[<<s, t>>] \in DOMAIN c.tools
  BY <1>1 DEF New
<1>3. c.tools[KeyOf[<<s, t>>]].digest \in {NoDigest, inv[t]}
  BY <1>1 DEF Drifted, Changed
<1>. QED
  BY <1>2, <1>3 DEF Listed, Lookup

-----------------------------------------------------------------------------
(***************************************************************************)
(* The state.  A command that runs works on a policy it has loaded, and an *)
(* init on the inventory of the one server it is for.                      *)
(***************************************************************************)
File == Config \cup {Absent, Broken}

StateTypeOK ==
    /\ file \in File
    /\ defs \in [Server -> Inventory]
    /\ pc \in [Command -> {"idle", "ask", "write"}]
    /\ job \in [Command -> Job \cup {NoJob}]
    /\ cfg \in [Command -> Config]
    /\ todo \in [Command -> SUBSET Server]
    /\ seen \in [Command -> Holdings]
    /\ base \in [Command -> File]
    /\ before \in [Command -> File]

Inits(p) == job[p] # NoJob /\ job[p].name = "init"

CommandOK(p) ==
    /\ pc[p] = "idle" <=> job[p] = NoJob
    /\ pc[p] # "idle" => cfg[p] \in LoadOrCreate(base[p])
    /\ pc[p] = "write" => todo[p] = {} /\ Inits(p)
    /\ Inits(p) => DOMAIN seen[p] \cup todo[p] = {job[p].server}

BoundsOK == runs \in 0 .. MaxRuns /\ edits \in 0 .. MaxEdits /\ changes \in 0 .. MaxChanges

\* Opened to be written, the file is there, and no edit takes it away.
Opened == \A p \in Command : pc[p] = "write" => file # Absent

StateInv == Opened /\ StateTypeOK /\ (\A p \in Command : CommandOK(p)) /\ BoundsOK

LEMMA StateInvIsType == StateInv => TypeOK
BY HoldingFacts DEF StateInv, StateTypeOK, CommandOK, BoundsOK, TypeOK, File

LEMMA FileKinds == Absent \notin Config /\ Broken \notin Config /\ Absent # Broken
BY PolicyFileAssumption

LEMMA LoadedIsConfig ==
  ASSUME NEW f \in File
  PROVE  /\ \A c \in LoadOrCreate(f) : c \in Config /\ f # Broken
         /\ \A c \in Load(f) : c \in Config /\ c \in LoadOrCreate(f) /\ c = f
         /\ f \in Config => LoadOrCreate(f) = {f} /\ Load(f) = {f}
         /\ LoadOrCreate(Absent) = {Empty}
BY FileKinds, EmptyIsConfig DEF LoadOrCreate, Load, File

\* What init puts in the place of the file is a policy.
LEMMA OutputIsConfig ==
  ASSUME StateInv, NEW p \in Command, Inits(p), todo[p] = {}
  PROVE  /\ Output(p) = Merge(cfg[p], job[p].server, seen[p][job[p].server], job[p].repin)
         /\ cfg[p] \in Config /\ job[p].server \in Server
         /\ seen[p][job[p].server] \in Inventory /\ job[p].repin \in BOOLEAN
         /\ Output(p) \in Config
<1>1. job[p] \in [name : {"init"}, server : Server, repin : BOOLEAN]
  BY DEF StateInv, StateTypeOK, Inits, Job
<1>2. DOMAIN seen[p] = {job[p].server} /\ seen[p] \in Holdings
  BY DEF StateInv, StateTypeOK, CommandOK
<1>3. seen[p][job[p].server] \in Inventory
  BY <1>2, HoldingFacts
<1>4. cfg[p] \in Config
  BY DEF StateInv, StateTypeOK
<1>5. Output(p) = Merge(cfg[p], job[p].server, seen[p][job[p].server], job[p].repin)
  BY DEF Output
<1>. QED
  BY <1>1, <1>3, <1>4, <1>5, MergeFacts

LEMMA OverlaidIsFile ==
  ASSUME NEW c \in Config, NEW other \in File, other # Broken, other # Absent
  PROVE  Overlaid(c, other) \subseteq Config \cup {Broken}
<1>1. other \in Config
  BY DEF File
<1>. SUFFICES ASSUME NEW K \in SUBSET DOMAIN other.tools
              PROVE  [c EXCEPT !.tools = [k \in DOMAIN c.tools \cup K |->
                        IF k \in DOMAIN c.tools THEN c.tools[k] ELSE other.tools[k]]] \in Config
  BY DEF Overlaid
<1>. DEFINE f == [k \in DOMAIN c.tools \cup K |->
                    IF k \in DOMAIN c.tools THEN c.tools[k] ELSE other.tools[k]]
<1>2. /\ DOMAIN c.tools \cup K \in SUBSET Key
      /\ f \in [DOMAIN c.tools \cup K -> ToolPolicy]
  BY <1>1, ConfigFacts
<1>. HIDE DEF f
<1>3. [c EXCEPT !.tools = f] = [servers |-> c.servers, tools |-> f]
  BY ConfigFacts
<1>. QED
  BY <1>2, <1>3, ConfigIntro, ConfigFacts DEF f

LEMMA CutIsFile ==
  ASSUME NEW c \in Config
  PROVE  Cut(c) \subseteq Config \cup {Broken}
<1>1. ASSUME NEW S \in SUBSET c.servers
      PROVE  [servers |-> S, tools |-> <<>>] \in Config
  BY ConfigFacts, EmptyFunction DEF Config
<1>2. ASSUME NEW K \in SUBSET DOMAIN c.tools
      PROVE  [c EXCEPT !.tools = [k \in K |-> @[k]]] \in Config
  <2>. DEFINE f == [k \in K |-> c.tools[k]]
  <2>1. K \in SUBSET Key /\ f \in [K -> ToolPolicy]
    BY ConfigFacts
  <2>2. [c EXCEPT !.tools = [k \in K |-> @[k]]] = [servers |-> c.servers, tools |-> f]
    BY ConfigFacts
  <2>. HIDE DEF f
  <2>. QED
    BY <2>1, <2>2, ConfigIntro, ConfigFacts
<1>. QED
  BY <1>1, <1>2 DEF Cut

(***************************************************************************)
(* The steps, by what they do to a command.                                *)
(***************************************************************************)
StartsSomething(p) ==
    \/ \E s \in Server, named, repin \in BOOLEAN : StartInit(p, s, named, repin)
    \/ \E only \in Server \cup {NoServer} : StartVerify(p, only)

EndsSomehow(p) ==
    \/ WriteFile(p) \/ WriteCut(p) \/ DryRunEnds(p) \/ InventoryFails(p)
    \/ \E strict \in BOOLEAN : VerifyEnds(p, strict)

LEMMA NextSteps ==
  ASSUME [Next]_vars
  PROVE  \/ \E p \in Command : StartsSomething(p)
         \/ \E p \in Command, s \in Server : TakeInventory(p, s)
         \/ \E p \in Command : EndsSomehow(p)
         \/ \E p \in Command : OpenFile(p)
         \/ ReplaceFile \/ ReviewEntry
         \/ \E s \in Server : ServerChanges(s)
         \/ UNCHANGED vars
BY DEF Next, InitCommand, VerifyCommand, StartsSomething, EndsSomehow

\* What a command starts with: a policy of the file, and servers of its own.
LEMMA StartsWith ==
  ASSUME StateInv, NEW p \in Command, StartsSomething(p)
  PROVE  \E c \in LoadOrCreate(file), j \in Job, S \in SUBSET Server :
            /\ Starts(p, c, j, S)
            /\ j.name = "init" => S = {j.server}
<1>1. file \in File
  BY DEF StateInv, StateTypeOK
<1>2. ASSUME NEW s \in Server, NEW named \in BOOLEAN, NEW repin \in BOOLEAN,
             StartInit(p, s, named, repin)
      PROVE  \E c \in LoadOrCreate(file), j \in Job, S \in SUBSET Server :
                Starts(p, c, j, S) /\ (j.name = "init" => S = {j.server})
  <2>. DEFINE j == [name |-> "init", server |-> s, repin |-> repin]
  <2>1. PICK c \in LoadOrCreate(file) : Starts(p, c, j, {s})
    BY <1>2 DEF StartInit
  <2>2. j \in Job /\ {s} \in SUBSET Server /\ j.server = s
    BY DEF Job
  <2>. QED
    BY <2>1, <2>2
<1>3. ASSUME NEW only, StartVerify(p, only)
      PROVE  \E c \in LoadOrCreate(file), j \in Job, S \in SUBSET Server :
                Starts(p, c, j, S) /\ (j.name = "init" => S = {j.server})
  <2>. DEFINE j == [name |-> "verify"]
  <2>1. PICK c \in Load(file) : Starts(p, c, j, {s \in c.servers : only \in {NoServer, s}})
    BY <1>3 DEF StartVerify
  <2>2. c \in LoadOrCreate(file) /\ c.servers \in SUBSET Server
    BY <1>1, LoadedIsConfig, ConfigFacts
  <2>3. j \in Job /\ j.name # "init"
    BY DEF Job
  <2>. QED
    BY <2>1, <2>2, <2>3
<1>. QED
  BY <1>2, <1>3 DEF StartsSomething

LEMMA StartsKeep ==
  ASSUME StateInv, NEW p \in Command, StartsSomething(p)
  PROVE  StateInv'
<1>1. PICK c \in LoadOrCreate(file), j \in Job, S \in SUBSET Server :
         Starts(p, c, j, S) /\ (j.name = "init" => S = {j.server})
  BY StartsWith
<1>2. c \in Config /\ j # NoJob /\ <<>> \in Holdings /\ DOMAIN <<>> = {}
  BY LoadedIsConfig, PolicyFileAssumption, EmptyIsConfig DEF StateInv, StateTypeOK
<1>3. StateTypeOK'
  BY <1>1, <1>2 DEF StateInv, StateTypeOK, Starts, worldVars
<1>4. ASSUME NEW q \in Command PROVE CommandOK(q)'
  <2>1. CASE q = p
    <3>1. /\ pc'[q] = "ask" /\ job'[q] = j /\ cfg'[q] = c /\ base'[q] = file
          /\ todo'[q] = S /\ seen'[q] = <<>>
      BY <1>1, <2>1 DEF StateInv, StateTypeOK, Starts
    <3>. QED
      BY <1>1, <1>2, <3>1 DEF CommandOK, Inits
  <2>2. CASE q # p
    <3>1. /\ pc'[q] = pc[q] /\ job'[q] = job[q] /\ cfg'[q] = cfg[q] /\ base'[q] = base[q]
          /\ todo'[q] = todo[q] /\ seen'[q] = seen[q]
      BY <1>1, <2>2 DEF StateInv, StateTypeOK, Starts
    <3>. QED
      BY <3>1 DEF StateInv, CommandOK, Inits
  <2>. QED
    BY <2>1, <2>2
<1>5. BoundsOK'
  BY <1>1, PolicyFileAssumption DEF StateInv, BoundsOK, Starts, worldVars
<1>6. Opened'
  BY <1>1 DEF StateInv, StateTypeOK, Opened, Starts
<1>. QED
  BY <1>3, <1>4, <1>5, <1>6 DEF StateInv

LEMMA TakeKeeps ==
  ASSUME StateInv, NEW p \in Command, NEW s \in Server, TakeInventory(p, s)
  PROVE  StateInv'
<1>. DEFINE h == [r \in DOMAIN seen[p] \cup {s} |-> IF r = s THEN defs[s] ELSE seen[p][r]]
<1>1. /\ s \in todo[p] /\ todo' = [todo EXCEPT ![p] = todo[p] \ {s}]
      /\ seen' = [seen EXCEPT ![p] = h] /\ pc[p] = "ask"
      /\ UNCHANGED <<pc, job, cfg, base, before, runs, file, worldVars>>
  BY DEF TakeInventory, StateInv, StateTypeOK
<1>2. h \in Holdings
  <2>1. DOMAIN seen[p] \in SUBSET Server /\ \A r \in DOMAIN seen[p] : seen[p][r] \in Inventory
    BY HoldingFacts DEF StateInv, StateTypeOK
  <2>2. defs[s] \in Inventory
    BY DEF StateInv, StateTypeOK
  <2>3. h \in [DOMAIN seen[p] \cup {s} -> Inventory]
    BY <2>1, <2>2
  <2>. QED
    BY <2>1, <2>3 DEF Holdings
<1>3. StateTypeOK'
  BY <1>1, <1>2 DEF StateInv, StateTypeOK, worldVars
<1>4. ASSUME NEW q \in Command PROVE CommandOK(q)'
  <2>1. CASE q = p
    <3>1. todo'[q] = todo[p] \ {s} /\ DOMAIN seen'[q] = DOMAIN seen[p] \cup {s}
      BY <1>1, <2>1 DEF StateInv, StateTypeOK
    <3>. QED
      BY <1>1, <2>1, <3>1 DEF StateInv, CommandOK, Inits
  <2>2. CASE q # p
    <3>1. todo'[q] = todo[q] /\ seen'[q] = seen[q]
      BY <1>1, <2>2 DEF StateInv, StateTypeOK
    <3>. QED
      BY <1>1, <3>1 DEF StateInv, CommandOK, Inits
  <2>. QED
    BY <2>1, <2>2
<1>. QED
  BY <1>1, <1>3, <1>4 DEF StateInv, BoundsOK, Opened, worldVars

LEMMA EndKeeps ==
  ASSUME StateInv, NEW p \in Command, Ends(p), UNCHANGED worldVars,
         file' \in File, file # Absent => file' # Absent
  PROVE  StateInv'
<1>1. StateTypeOK'
  BY EmptyIsConfig DEF StateInv, StateTypeOK, Ends, worldVars, File
<1>2. ASSUME NEW q \in Command PROVE CommandOK(q)'
  <2>1. CASE q = p
    <3>1. pc'[q] = "idle" /\ job'[q] = NoJob
      BY <2>1 DEF StateInv, StateTypeOK, Ends
    <3>. QED
      BY <3>1 DEF CommandOK, Inits
  <2>2. CASE q # p
    <3>1. /\ pc'[q] = pc[q] /\ job'[q] = job[q] /\ cfg'[q] = cfg[q] /\ base'[q] = base[q]
          /\ todo'[q] = todo[q] /\ seen'[q] = seen[q]
      BY <2>2 DEF StateInv, StateTypeOK, Ends
    <3>. QED
      BY <3>1 DEF StateInv, CommandOK, Inits
  <2>. QED
    BY <2>1, <2>2
<1>3. Opened'
  BY DEF StateInv, StateTypeOK, Opened, Ends
<1>. QED
  BY <1>1, <1>2, <1>3 DEF StateInv, BoundsOK, Ends, worldVars

\* What is left of the file by the end of a command.
LEMMA EndLeaves ==
  ASSUME StateInv, NEW p \in Command, EndsSomehow(p)
  PROVE  /\ Ends(p) /\ UNCHANGED worldVars
         /\ file' \in File /\ (file # Absent => file' # Absent)
         /\ UNCHANGED file \/ pc[p] = "write"
<1>1. CASE WriteFile(p)
  <2>1. pc[p] = "write" /\ file # Absent /\ file \in File /\ Output(p) \in Config
    BY <1>1, OutputIsConfig DEF WriteFile, StateInv, StateTypeOK, CommandOK, Opened
  <2>2. file' \in Config \cup {Broken}
    BY <1>1, <2>1, OverlaidIsFile DEF WriteFile
  <2>. QED
    BY <1>1, <2>1, <2>2, FileKinds DEF WriteFile, File
<1>2. CASE WriteCut(p)
  <2>1. pc[p] = "write" /\ file # Absent /\ file \in File /\ Output(p) \in Config
    BY <1>2, OutputIsConfig DEF WriteCut, StateInv, StateTypeOK, CommandOK, Opened
  <2>2. file' \in Config \cup {Broken}
    BY <1>2, <2>1, CutIsFile DEF WriteCut, File
  <2>. QED
    BY <1>2, <2>1, <2>2, FileKinds DEF WriteCut, File
<1>3. CASE DryRunEnds(p) \/ InventoryFails(p) \/ \E strict \in BOOLEAN : VerifyEnds(p, strict)
  BY <1>3 DEF DryRunEnds, InventoryFails, VerifyEnds, StateInv, StateTypeOK
<1>. QED
  BY <1>1, <1>2, <1>3 DEF EndsSomehow

LEMMA OpenKeeps ==
  ASSUME StateInv, NEW p \in Command, OpenFile(p)
  PROVE  StateInv'
<1>1. StateTypeOK'
  BY DEF StateInv, StateTypeOK, OpenFile, worldVars, File
<1>2. job[p] # NoJob
  BY DEF StateInv, CommandOK, OpenFile
<1>3. ASSUME NEW q \in Command PROVE CommandOK(q)'
  <2>1. pc'[q] = IF q = p THEN "write" ELSE pc[q]
    BY DEF StateInv, StateTypeOK, OpenFile
  <2>. QED
    BY <1>2, <2>1 DEF StateInv, CommandOK, Inits, OpenFile
<1>4. Opened'
  BY FileKinds DEF Opened, OpenFile
<1>. QED
  BY <1>1, <1>3, <1>4 DEF StateInv, BoundsOK, OpenFile, worldVars

LEMMA EditKeeps ==
  ASSUME StateInv, Edits, file' \in File
  PROVE  StateInv'
<1>1. StateTypeOK'
  BY DEF StateInv, StateTypeOK, Edits, commandVars
<1>2. \A q \in Command : CommandOK(q)'
  BY DEF StateInv, CommandOK, Inits, Edits, commandVars
<1>3. BoundsOK'
  BY PolicyFileAssumption DEF StateInv, BoundsOK, Edits, commandVars
<1>. QED
  BY <1>1, <1>2, <1>3 DEF StateInv, Opened, Edits, commandVars

LEMMA ReviewedIsFile ==
  ASSUME StateInv, ReplaceFile \/ ReviewEntry
  PROVE  Edits /\ file' \in File
<1>1. CASE ReplaceFile
  BY <1>1, PolicyFileAssumption DEF ReplaceFile, File
<1>2. CASE ReviewEntry
  <2>0. PICK c \in Load(file) : \E k \in DOMAIN c.tools :
          /\ Edits
          /\ file' \in {[c EXCEPT !.tools[k].reviewed = TRUE],
                        [c EXCEPT !.tools[k].digest = NoDigest]}
    BY <1>2 DEF ReviewEntry
  <2>1. PICK k \in DOMAIN c.tools :
          /\ Edits
          /\ file' \in {[c EXCEPT !.tools[k].reviewed = TRUE],
                        [c EXCEPT !.tools[k].digest = NoDigest]}
    BY <2>0
  <2>2. /\ c.servers \in SUBSET Server /\ DOMAIN c.tools \in SUBSET Key
        /\ c.tools \in [DOMAIN c.tools -> ToolPolicy]
        /\ c = [servers |-> c.servers, tools |-> c.tools]
    BY LoadedIsConfig, ConfigFacts DEF StateInv, StateTypeOK
  <2>3. ASSUME NEW n \in [DOMAIN c.tools -> ToolPolicy]
        PROVE  [c EXCEPT !.tools = n] \in Config
    BY <2>2, ConfigIntro
  <2>4. /\ [c.tools EXCEPT ![k].reviewed = TRUE] \in [DOMAIN c.tools -> ToolPolicy]
        /\ [c.tools EXCEPT ![k].digest = NoDigest] \in [DOMAIN c.tools -> ToolPolicy]
    BY <2>2 DEF ToolPolicy
  <2>5. /\ [c EXCEPT !.tools[k].reviewed = TRUE] =
             [c EXCEPT !.tools = [c.tools EXCEPT ![k].reviewed = TRUE]]
        /\ [c EXCEPT !.tools[k].digest = NoDigest] =
             [c EXCEPT !.tools = [c.tools EXCEPT ![k].digest = NoDigest]]
    OBVIOUS
  <2>. QED
    BY <2>1, <2>3, <2>4, <2>5 DEF File
<1>. QED
  BY <1>1, <1>2

LEMMA ServerChangesKeeps ==
  ASSUME StateInv, NEW s \in Server, ServerChanges(s)
  PROVE  StateInv'
<1>1. defs' \in [Server -> Inventory]
  BY PolicyFileAssumption DEF StateInv, StateTypeOK, ServerChanges
<1>2. StateTypeOK'
  BY <1>1 DEF StateInv, StateTypeOK, ServerChanges, commandVars
<1>3. \A q \in Command : CommandOK(q)'
  BY DEF StateInv, CommandOK, Inits, ServerChanges, commandVars
<1>4. BoundsOK'
  BY PolicyFileAssumption DEF StateInv, BoundsOK, ServerChanges, commandVars
<1>. QED
  BY <1>2, <1>3, <1>4 DEF StateInv, Opened, ServerChanges, commandVars

LEMMA StateInvStep == StateInv /\ [Next]_vars => StateInv'
<1>. SUFFICES ASSUME StateInv, [Next]_vars PROVE StateInv'
  OBVIOUS
<1>1. CASE \E p \in Command : EndsSomehow(p)
  BY <1>1, EndLeaves, EndKeeps
<1>2. CASE ReplaceFile \/ ReviewEntry
  BY <1>2, ReviewedIsFile, EditKeeps
<1>3. CASE UNCHANGED vars
  BY <1>3 DEF StateInv, Opened, StateTypeOK, CommandOK, Inits, BoundsOK, vars, commandVars, worldVars
<1>. QED
  BY <1>1, <1>2, <1>3, NextSteps, StartsKeep, TakeKeeps, OpenKeeps, ServerChangesKeeps

LEMMA StateInvInit == Init => StateInv
<1>. SUFFICES ASSUME Init PROVE StateInv
  OBVIOUS
<1>1. defs \in [Server -> Inventory]
  BY PolicyFileAssumption DEF Init
<1>2. StateTypeOK
  BY <1>1, EmptyIsConfig, PolicyFileAssumption DEF Init, StateTypeOK, File
<1>3. \A p \in Command : CommandOK(p)
  BY DEF Init, CommandOK, Inits
<1>4. BoundsOK /\ Opened
  BY PolicyFileAssumption DEF Init, BoundsOK, Opened
<1>. QED
  BY <1>2, <1>3, <1>4 DEF StateInv

(***************************************************************************)
(* The variables keep their types, for any number of commands side by side *)
(* and any edits: what any of them leaves of the file is absent, broken or *)
(* a policy, and a command that writes has asked all its servers.          *)
(***************************************************************************)
THEOREM TypeCorrect == Spec => []TypeOK
BY StateInvInit, StateInvStep, StateInvIsType, PTL DEF Spec

-----------------------------------------------------------------------------
(***************************************************************************)
(* What init writes over a file it finds as it emptied it.                 *)
(***************************************************************************)
\* A report of init is made by the step that puts its file in place, or kept.
LEMMA InitReports ==
  ASSUME StateInv, [Next]_vars
  PROVE  \/ UNCHANGED <<file, lastInit>>
         \/ lastInit' = NoReport
         \/ \E p \in Command :
              /\ pc[p] = "write"
              /\ file' = Output(p)
              /\ lastInit' = [server |-> job[p].server, inv |-> seen[p][job[p].server],
                              repin |-> job[p].repin, base |-> base[p], before |-> before[p]]
<1>1. CASE \E p \in Command : EndsSomehow(p)
  BY <1>1 DEF EndsSomehow, WriteFile, WriteCut, DryRunEnds, InventoryFails, VerifyEnds, NoneEnds
<1>2. CASE \E p \in Command : StartsSomething(p)
  BY <1>2 DEF StartsSomething, StartInit, StartVerify, Starts, NoneEnds
<1>3. CASE \/ \E p \in Command, s \in Server : TakeInventory(p, s)
           \/ \E p \in Command : OpenFile(p)
           \/ ReplaceFile \/ ReviewEntry
           \/ \E s \in Server : ServerChanges(s)
           \/ UNCHANGED vars
  BY <1>3 DEF TakeInventory, OpenFile, ReplaceFile, ReviewEntry, Edits, ServerChanges, NoneEnds, vars
<1>. QED
  BY <1>1, <1>2, <1>3, NextSteps

\* The policy a writing init has merged into is the file it read.
LEMMA WritesWhatItRead ==
  ASSUME StateInv, NEW p \in Command, pc[p] = "write"
  PROVE  LET s == job[p].server  inv == seen[p][s]
         IN  /\ Output(p) = Merge(cfg[p], s, inv, job[p].repin)
             /\ cfg[p] \in Config /\ s \in Server /\ inv \in Inventory
             /\ job[p].repin \in BOOLEAN
             /\ \A c \in Load(base[p]) : c = cfg[p]
             /\ base[p] = Absent => cfg[p] = Empty
<1>1. Inits(p) /\ todo[p] = {} /\ cfg[p] \in LoadOrCreate(base[p]) /\ base[p] \in File
  BY DEF StateInv, StateTypeOK, CommandOK
<1>2. \A c \in Load(base[p]) : c = cfg[p]
  BY <1>1, LoadedIsConfig
<1>3. base[p] = Absent => cfg[p] = Empty
  BY <1>1, LoadedIsConfig
<1>. QED
  BY <1>1, <1>2, <1>3, OutputIsConfig

LEMMA KeepsStep ==
  ASSUME StateInv, InitKeepsReviewed, [Next]_vars
  PROVE  InitKeepsReviewed'
<1>1. CASE UNCHANGED <<file, lastInit>>
  BY <1>1 DEF InitKeepsReviewed, Load
<1>2. CASE lastInit' = NoReport
  BY <1>2 DEF InitKeepsReviewed
<1>3. ASSUME NEW p \in Command, pc[p] = "write", file' = Output(p),
             lastInit' = [server |-> job[p].server, inv |-> seen[p][job[p].server],
                          repin |-> job[p].repin, base |-> base[p], before |-> before[p]]
      PROVE  InitKeepsReviewed'
  <2>. DEFINE out == Merge(cfg[p], job[p].server, seen[p][job[p].server], job[p].repin)
  <2>1. file' = out /\ lastInit'.repin = job[p].repin
        /\ lastInit'.base = base[p] /\ lastInit'.before = before[p]
    BY <1>3, WritesWhatItRead
  <2>. SUFFICES ASSUME base[p] = before[p], NEW c \in Load(before[p])
                PROVE  /\ c.servers \subseteq out.servers
                       /\ \A k \in DOMAIN c.tools :
                             /\ k \in DOMAIN out.tools
                             /\ out.tools[k].reviewed = c.tools[k].reviewed
                             /\ out.tools[k].digest # c.tools[k].digest => job[p].repin
    <3>. HIDE DEF out
    <3>. QED
      BY <2>1 DEF InitKeepsReviewed, Load
  <2>2. c = cfg[p] /\ cfg[p] \in Config
    BY <1>3, WritesWhatItRead
  <2>3. /\ job[p].server \in Server /\ seen[p][job[p].server] \in Inventory
        /\ job[p].repin \in BOOLEAN
    BY <1>3, WritesWhatItRead
  <2>. QED
    BY <2>2, <2>3, MergeFacts, MergeKeeps
<1>. QED
  BY <1>1, <1>2, <1>3, InitReports

(***************************************************************************)
(* An init that found the file as it had read it has lost nothing of what  *)
(* a reviewer made of it, and no digest without --repin.                   *)
(***************************************************************************)
THEOREM InitKeepsReviewedHolds == Spec => []InitKeepsReviewed
<1>1. Init => InitKeepsReviewed
  BY DEF Init, InitKeepsReviewed
<1>2. StateInv /\ InitKeepsReviewed /\ [Next]_vars => InitKeepsReviewed'
  BY KeepsStep
<1>. QED
  BY <1>1, <1>2, StateInvInit, StateInvStep, PTL DEF Spec

LEMMA AgreesStep ==
  ASSUME StateInv, InitAgreesWithVerify, [Next]_vars
  PROVE  InitAgreesWithVerify'
<1>1. CASE UNCHANGED <<file, lastInit>>
  BY <1>1 DEF InitAgreesWithVerify, Load, Violations, Drifted, Changed, New
<1>2. CASE lastInit' = NoReport
  BY <1>2 DEF InitAgreesWithVerify
<1>3. ASSUME NEW p \in Command, pc[p] = "write", file' = Output(p),
             lastInit' = [server |-> job[p].server, inv |-> seen[p][job[p].server],
                          repin |-> job[p].repin, base |-> base[p], before |-> before[p]]
      PROVE  InitAgreesWithVerify'
  <2>1. PICK s \in Server, inv \in Inventory :
          s = job[p].server /\ inv = seen[p][job[p].server]
    BY <1>3, WritesWhatItRead
  <2>. DEFINE out  == Merge(cfg[p], s, inv, job[p].repin)
              left == Violations(out, s, inv, TRUE)
  <2>2. /\ file' = out /\ lastInit'.repin = job[p].repin /\ lastInit'.base = base[p]
        /\ lastInit'.server = s /\ lastInit'.inv = inv
    BY <1>3, <2>1, WritesWhatItRead
  <2>3. /\ cfg[p] \in Config /\ job[p].repin \in BOOLEAN
        /\ \A c \in Load(base[p]) : c = cfg[p]
        /\ base[p] = Absent => cfg[p] = Empty
    BY <1>3, WritesWhatItRead
  <2>4. left \subseteq Drifted(cfg[p], s, inv) /\ (job[p].repin => left = {})
    BY <2>3, MergeVerified
  <2>5. base[p] = Absent => Drifted(cfg[p], s, inv) = {}
    BY <2>3, EmptyIsConfig DEF Drifted, Changed, New
  <2>6. /\ job[p].repin => left = {}
        /\ \A c \in Load(base[p]) : left \subseteq Drifted(c, s, inv)
        /\ base[p] = Absent => left = {}
    BY <2>3, <2>4, <2>5
  <2>. HIDE DEF out
  <2>. QED
    BY <2>2, <2>6 DEF InitAgreesWithVerify, Load, Violations, Drifted, Changed, New
<1>. QED
  BY <1>1, <1>2, <1>3, InitReports

(***************************************************************************)
(* A strict verify of what an init has just seen finds no more than that   *)
(* init left alone, and nothing after --repin or for a new file.           *)
(***************************************************************************)
THEOREM InitAgreesWithVerifyHolds == Spec => []InitAgreesWithVerify
<1>1. Init => InitAgreesWithVerify
  BY DEF Init, InitAgreesWithVerify
<1>2. StateInv /\ InitAgreesWithVerify /\ [Next]_vars => InitAgreesWithVerify'
  BY AgreesStep
<1>. QED
  BY <1>1, <1>2, StateInvInit, StateInvStep, PTL DEF Spec

-----------------------------------------------------------------------------
(***************************************************************************)
(* A strict verify that ends without a violation has cleared the wall, for *)
(* every server it asked and every tool of theirs.                         *)
(***************************************************************************)
THEOREM CleanVerifyClearsWallHolds == Spec => []CleanVerifyClearsWall
<1>1. Init => CleanVerifyClearsWall
  BY DEF Init, CleanVerifyClearsWall
<1>2. ASSUME CleanVerifyClearsWall, [Next]_vars
      PROVE  CleanVerifyClearsWall'
  <2>1. \/ UNCHANGED lastVerify \/ lastVerify' = NoReport
        \/ \E p \in Command, strict \in BOOLEAN : VerifyEnds(p, strict)
    BY <1>2 DEF Next, InitCommand, VerifyCommand, StartInit, StartVerify, Starts,
         TakeInventory, InventoryFails, DryRunEnds, OpenFile, WriteFile, WriteCut,
         ReplaceFile, ReviewEntry, Edits, ServerChanges, NoneEnds, vars
  <2>2. CASE UNCHANGED lastVerify
    BY <1>2, <2>2 DEF CleanVerifyClearsWall, Listed, Lookup
  <2>3. CASE lastVerify' = NoReport
    BY <2>3 DEF CleanVerifyClearsWall
  <2>4. ASSUME NEW p \in Command, NEW strict \in BOOLEAN, VerifyEnds(p, strict)
        PROVE  CleanVerifyClearsWall'
    <3>1. PICK c, h :
            lastVerify' = [cfg |-> c, seen |-> h, strict |-> strict,
                           clean |-> \A s \in DOMAIN h : Violations(c, s, h[s], strict) = {}]
      BY <2>4 DEF VerifyEnds
    <3>2. ASSUME \A s \in DOMAIN h : Violations(c, s, h[s], TRUE) = {}
          PROVE  \A s \in DOMAIN h : \A t \in DOMAIN h[s] :
                   Listed(c, s, t) /\ Lookup(c, s, t).digest \in {NoDigest, h[s][t]}
      BY <3>2, CleanPins
    <3>3. lastVerify'.cfg = c /\ lastVerify'.seen = h /\ lastVerify'.strict = strict
      BY <3>1
    <3>4. lastVerify'.clean => \A s \in DOMAIN h : Violations(c, s, h[s], strict) = {}
      BY <3>1
    <3>5. lastVerify'.clean /\ strict => \A s \in DOMAIN h : Violations(c, s, h[s], TRUE) = {}
      <4>1. CASE strict = TRUE
        BY <3>4, <4>1
      <4>2. CASE strict = FALSE
        BY <4>2
      <4>. QED
        BY <4>1, <4>2
    <3>. QED
      BY <3>2, <3>3, <3>5 DEF CleanVerifyClearsWall, Listed, Lookup
  <2>. QED
    BY <2>1, <2>2, <2>3, <2>4
<1>. QED
  BY <1>1, <1>2, PTL DEF Spec

-----------------------------------------------------------------------------
\* Who puts another file in the place of a broken one.
LEMMA BrokenStep ==
  ASSUME StateInv, [Next]_vars, file = Broken, file' # Broken
  PROVE  \/ edits' # edits
         \/ \E p \in Command : pc[p] = "write" /\ pc'[p] = "idle" /\ base[p] # Broken
<1>1. ASSUME NEW p \in Command, EndsSomehow(p)
      PROVE  pc[p] = "write" /\ pc'[p] = "idle" /\ base[p] # Broken
  <2>1. pc[p] = "write" /\ Ends(p)
    BY <1>1, EndLeaves
  <2>2. cfg[p] \in LoadOrCreate(base[p]) /\ base[p] \in File
    BY <2>1 DEF StateInv, StateTypeOK, CommandOK
  <2>3. pc'[p] = "idle"
    BY <2>1 DEF Ends, StateInv, StateTypeOK
  <2>. QED
    BY <2>1, <2>2, <2>3, LoadedIsConfig
<1>2. CASE ReplaceFile \/ ReviewEntry
  <2>1. edits \in Nat /\ edits' = edits + 1
    BY <1>2, PolicyFileAssumption DEF ReplaceFile, ReviewEntry, Edits, StateInv, BoundsOK
  <2>. QED
    BY <2>1
<1>3. CASE \/ \E p \in Command : StartsSomething(p)
           \/ \E p \in Command, s \in Server : TakeInventory(p, s)
           \/ \E p \in Command : OpenFile(p)
           \/ \E s \in Server : ServerChanges(s)
           \/ UNCHANGED vars
  BY <1>3 DEF StartsSomething, StartInit, StartVerify, Starts, TakeInventory, OpenFile,
       ServerChanges, vars
<1>. QED
  BY <1>1, <1>2, <1>3, NextSteps

(***************************************************************************)
(* A file that cannot be read is replaced by the operator, or by a command *)
(* that had read it before it broke, and by nothing else.                  *)
(***************************************************************************)
THEOREM BrokenFileKeptHolds == Spec => BrokenFileKept
<1>1. StateInv /\ [Next]_vars =>
        [file = Broken /\ file' # Broken =>
          \/ edits' # edits
          \/ \E p \in Command : pc[p] = "write" /\ pc'[p] = "idle" /\ base[p] # Broken]_vars
  BY BrokenStep
<1>. QED
  BY <1>1, StateInvInit, StateInvStep, PTL DEF Spec, BrokenFileKept

=============================================================================
