---------------------------- MODULE PhasesProofs ----------------------------
(***************************************************************************)
(* What the evidence of the phases is worth, for any number of servers,     *)
(* migrations, chunks, losses and stops: whatever talks to whatever, what   *)
(* is recorded as passed was so.                                           *)
(***************************************************************************)
EXTENDS Phases, TLAPS

-----------------------------------------------------------------------------
(* Types, exact enough to reason with. *)

Pcs == {"guards", "hash", "upload", "fetch", "write", "capture", "verify", "erase",
        "table", "install", "report", "failed"}
PcsOf(phase) ==
  CASE phase = "preflight" -> {"guards", "hash", "upload", "report"}
    [] phase = "stage" -> {"guards", "fetch", "write", "capture", "verify", "report"}
    [] phase = "commit" -> {"guards", "table", "install", "report", "failed"}
    [] phase = "restore" -> {"guards", "fetch", "write", "capture", "verify", "erase",
                             "report", "failed"}

ProgramRecs ==
  [phase : PHASES, session : 1..MaxServers, manifest : Manifests, nvs : NvsStates,
   pc : Pcs, i : Nat, data : Parts]
EvidenceRecs ==
  [session : 1..MaxServers, manifest : Manifests, status : {"PASS", "FAIL"}, nvs : NvsStates]
RegionRecs == [body : [Indices -> Parts], pad : BOOLEAN, tail : BOOLEAN]
Settings == [1..NvsChunks -> 0..MaxSaves]

IsServer(s) ==
  s \in [up : BOOLEAN, phase : PHASES, session : 1..MaxServers, manifest : Manifests,
         captures : {s.captures}, nvs : NvsStates]
NoServer == [up |-> FALSE, session |-> 0]
Served == server.session > 0

HostTypes ==
  /\ manifest \in Manifests
  /\ server = NoServer \/ (Served /\ IsServer(server))
  /\ runner \in {"none", "served", "gate", "waiting"}
  /\ runner # "none" => Served
  /\ runner = "gate" => server.phase \in ARMED_PHASES
  /\ evidence \in [PHASES -> {None} \cup EvidenceRecs]
  /\ held \in Sessions /\ mishaps \in 0..MaxMishaps

CapturesTyped ==
  Served =>
    \A i \in DOMAIN server.captures :
       IF server.phase = "preflight" THEN server.captures[i] \in 0..MaxSaves
                                     ELSE server.captures[i] \in Parts

Fresh(x) == x.pc = "guards" /\ x.i = 0
PlugTypes ==
  /\ queued \subseteq [do : {"load", "arm"}, phase : PHASES, session : Sessions]
  /\ \A command \in queued : command.do = "arm" =>
       command.phase \in ARMED_PHASES /\ command.session > 0
  /\ closures \in [ARMED_PHASES -> {None} \cup ProgramRecs]
  /\ \A p \in ARMED_PHASES : closures[p] # None => closures[p].phase = p /\ Fresh(closures[p])
  /\ program \in {None} \cup ProgramRecs
  /\ layout \in {"source", "target"} /\ region \in RegionRecs
  /\ nvs \in Settings /\ past \subseteq Settings /\ saves \in 0..MaxSaves

(* Where a program is in its image or its settings.                        *)
PlaceOf(x) ==
  /\ x.pc \in PcsOf(x.phase)
  /\ x.pc = "guards" => x.i = 0
  /\ x.pc \in {"hash", "upload"} => x.i < NvsChunks
  /\ x.pc \in {"fetch", "write", "capture"} => x.i \in Indices
  /\ x.phase = "preflight" /\ x.pc = "report" => x.i = NvsChunks

PlaceInv == program # None => PlaceOf(program)

(* A program or a closure belongs to the server of its session.            *)
Owned(x) ==
  x # None =>
    /\ x.session <= server.session
    /\ x.session = server.session => x.phase = server.phase /\ x.manifest = server.manifest
OwnedInv == Owned(program) /\ \A p \in ARMED_PHASES : Owned(closures[p])

TInv == HostTypes /\ CapturesTyped /\ PlugTypes /\ PlaceInv /\ OwnedInv

-----------------------------------------------------------------------------
(* The versions of the settings only grow, so what was read earlier is     *)
(* never newer.                                                            *)
Older(u, v) == \A c \in 1..NvsChunks : u[c] <= v[c]

AgeInv ==
  /\ \A c \in 1..NvsChunks : nvs[c] <= saves
  /\ \A u \in past : Older(u, nvs)
  /\ Served => Older(server.nvs, nvs)
  /\ program # None => Older(program.nvs, nvs)
  /\ \A p \in ARMED_PHASES : closures[p] # None => Older(closures[p].nvs, nvs)
  /\ \A p \in PHASES : evidence[p] # None => Older(evidence[p].nvs, nvs)

(* A preflight that has read the settings once has read no older state than *)
(* an earlier one; v is what they were between its two readings.           *)
Between(v) ==
  /\ Older(program.nvs, v)
  /\ server.up /\ server.session = program.session =>
       \A c \in 1..program.i : c \in DOMAIN server.captures /\ v[c] <= server.captures[c]

PreflightInv ==
  program # None /\ program.phase = "preflight" =>
    /\ nvs \in past
    /\ evidence["preflight"] # None /\ program.pc = "hash" =>
         \A c \in 1..program.i : evidence["preflight"].nvs[c] <= program.nvs[c]
    /\ program.pc \in {"upload", "report"} =>
         /\ evidence["preflight"] # None => Older(evidence["preflight"].nvs, program.nvs)
         /\ \E v \in past : Between(v)

(* What a commit has behind it.                                            *)
Backed(x) ==
  /\ evidence["preflight"] # None /\ Older(x.nvs, evidence["preflight"].nvs)
  /\ evidence["stage"] # None
  /\ evidence["stage"].session < x.session => evidence["stage"].manifest = x.manifest

Chained ==
  /\ evidence["preflight"] # None /\ evidence["stage"] # None
  /\ evidence["preflight"].manifest = evidence["stage"].manifest
  /\ evidence["preflight"].nvs = evidence["stage"].nvs

ChainInv ==
  /\ \A p \in {"preflight", "stage"} : evidence[p] # None => evidence[p].status = "PASS"
  /\ Up({"stage", "commit"}) =>
       /\ evidence["preflight"] # None
       /\ evidence["preflight"].manifest = server.manifest
       /\ evidence["preflight"].nvs = server.nvs
  /\ Up({"commit"}) => Chained
  /\ closures["commit"] # None => Backed(closures["commit"])
  /\ program # None /\ program.phase = "commit" =>
       /\ Backed(program)
       /\ program.pc \in {"table", "install"} => program.nvs = evidence["preflight"].nvs
       /\ program.pc = "install" => Chained

(* Where the programs find and leave the plug.                             *)
PlugOf(x) ==
  /\ x.phase = "stage" =>
       /\ x.pc # "guards" => layout = "source"
       /\ x.pc = "report" => RegionIs(x.manifest)
  /\ x.phase = "commit" =>
       /\ x.pc \in {"table", "install"} => layout = "source" /\ RegionIs(x.manifest)
       /\ x.pc = "report" => layout = "target"
  /\ x.phase = "restore" =>
       /\ x.pc # "guards" => layout = "target" /\ ~Passed("restore")
       /\ x.pc \in {"erase", "report"} => RegionIs("official")
       /\ x.pc = "report" => region.tail

PlugInv ==
  /\ program # None => PlugOf(program)
  /\ Passed("restore") => layout = "target"
  /\ EvidenceTruth

IInv == TInv /\ AgeInv /\ PreflightInv /\ ChainInv /\ PlugInv

-----------------------------------------------------------------------------
LEMMA NotNone == \A x \in ProgramRecs \cup EvidenceRecs : x # None /\ x.session > 0
BY DEF ProgramRecs, EvidenceRecs, None

LEMMA PartsAre ==
  /\ \A m \in Manifests \cup {"official"}, i \in Indices : Part(m, i) \in Parts
  /\ Unknown \in Parts
  /\ 0 \in Indices /\ Chunks - 1 \in Indices
  /\ \A m \in Manifests : Image(m) # Image("official")
<1>1. \A m \in Manifests \cup {"official"}, i \in Indices : Part(m, i) \in Parts
  BY DEF Parts
<1>2. Unknown \in Parts
  BY DEF Parts
<1>3. 0 \in Indices /\ Chunks - 1 \in Indices /\ Imprinted \in Indices
  BY PhasesAssumption DEF Indices
<1>4. ASSUME NEW m \in Manifests PROVE Image(m) # Image("official")
  <2>1. Image(m)[Imprinted] = <<m, Imprinted>> /\ Image("official")[Imprinted] = <<"official", Imprinted>>
    BY <1>3 DEF Image, Part
  <2>2. m # "official"
    BY PhasesAssumption
  <2> QED
    BY <2>1, <2>2
<1> QED
  BY <1>1, <1>2, <1>3, <1>4

LEMMA SettingsAre ==
  /\ NoNvs \in NvsStates /\ Settings \subseteq NvsStates
  /\ \A v \in Settings : Older(NoNvs, v)
<1>1. MaxSaves \in Nat /\ 0 - 1 \in (0 - 1)..MaxSaves /\ 0..MaxSaves \subseteq (0 - 1)..MaxSaves
  BY PhasesAssumption
<1>2. NoNvs \in NvsStates
  BY <1>1 DEF NoNvs, NvsStates
<1>3. Settings \subseteq NvsStates
  BY <1>1 DEF Settings, NvsStates
<1>4. ASSUME NEW v \in Settings, NEW c \in 1..NvsChunks PROVE NoNvs[c] <= v[c]
  <2>1. v[c] \in 0..MaxSaves /\ NoNvs[c] = 0 - 1
    BY DEF Settings, NoNvs
  <2> QED
    BY <2>1, <1>1
<1> QED
  BY <1>2, <1>3, <1>4 DEF Older

LEMMA InitIInv == Init => IInv
<1> SUFFICES ASSUME Init PROVE IInv
  OBVIOUS
<1>1. HostTypes /\ CapturesTyped /\ OwnedInv
  <2>1. manifest \in Manifests /\ mishaps \in 0..MaxMishaps /\ held \in Sessions
    BY PhasesAssumption DEF Init, Sessions
  <2> QED
    BY <2>1 DEF Init, HostTypes, NoServer, CapturesTyped, Served, OwnedInv, Owned, ARMED_PHASES
<1>2. PlugTypes /\ PlaceInv
  <2>1. region \in RegionRecs
    BY PartsAre DEF Init, RegionRecs
  <2>2. nvs \in Settings /\ saves \in 0..MaxSaves
    BY PhasesAssumption DEF Init, Settings
  <2> QED
    BY <2>1, <2>2 DEF Init, PlugTypes, PlaceInv
<1>3. AgeInv
  BY DEF Init, AgeInv, Served
<1>4. PreflightInv /\ ChainInv
  <2>1. PreflightInv
    BY DEF Init, PreflightInv
  <2>2. evidence["preflight"] = None /\ evidence["stage"] = None /\ closures["commit"] = None
        /\ ~server.up
    BY DEF Init, PHASES, ARMED_PHASES
  <2>3. ChainInv
    BY <2>2 DEF Init, ChainInv, Up
  <2> QED
    BY <2>1, <2>3
<1>5. PlugInv
  BY DEF Init, PlugInv, EvidenceTruth, Passed, PHASES
<1> QED
  BY <1>1, <1>2, <1>3, <1>4, <1>5 DEF IInv, TInv

-----------------------------------------------------------------------------
(* The server stays, goes down, or a new one is started. *)

LEMMA DownIs ==
  ASSUME HostTypes, Served, server' = Down
  PROVE  /\ Served' /\ IsServer(server)' /\ ~server'.up
         /\ server'.session = server.session /\ server'.phase = server.phase
         /\ server'.manifest = server.manifest /\ server'.captures = <<>> /\ server'.nvs = NoNvs
<1>1. IsServer(server)
  BY DEF HostTypes, Served, NoServer
<1>2. server' = [server EXCEPT !.up = FALSE, !.captures = <<>>, !.nvs = NoNvs]
  BY DEF Down
<1>3. /\ server'.up = FALSE /\ server'.session = server.session /\ server'.phase = server.phase
      /\ server'.manifest = server.manifest /\ server'.captures = <<>> /\ server'.nvs = NoNvs
  BY <1>1, <1>2 DEF IsServer
<1>4. IsServer(server)'
  BY <1>1, <1>2, <1>3, SettingsAre DEF IsServer
<1> QED
  BY <1>3, <1>4 DEF Served

NewServer ==
  /\ runner' = "served"
  /\ \E phase \in PHASES :
       /\ Accepts(phase) /\ server.session < MaxServers
       /\ server' = [up |-> TRUE, phase |-> phase, session |-> server.session + 1,
                     manifest |-> manifest, captures |-> <<>>,
                     nvs |-> IF phase \in {"stage", "commit"}
                               THEN evidence["preflight"].nvs ELSE NoNvs]

LEMMA NewIs ==
  ASSUME HostTypes, NewServer
  PROVE  /\ Served' /\ IsServer(server)' /\ server'.up
         /\ server'.session = server.session + 1 /\ server'.manifest = manifest
         /\ server'.captures = <<>> /\ server'.phase \in PHASES /\ Accepts(server'.phase)
         /\ server'.nvs = IF server'.phase \in {"stage", "commit"}
                            THEN evidence["preflight"].nvs ELSE NoNvs
         /\ server'.phase \in {"stage", "commit"} => evidence["preflight"] \in EvidenceRecs
<1> PICK phase \in PHASES :
       /\ Accepts(phase) /\ server.session < MaxServers
       /\ server' = [up |-> TRUE, phase |-> phase, session |-> server.session + 1,
                     manifest |-> manifest, captures |-> <<>>,
                     nvs |-> IF phase \in {"stage", "commit"}
                               THEN evidence["preflight"].nvs ELSE NoNvs]
  BY DEF NewServer
<1>1. server.session \in Nat
  BY DEF HostTypes, NoServer, IsServer
<1>2. phase \in {"stage", "commit"} => evidence["preflight"] \in EvidenceRecs
  BY DEF Accepts, PassedWith, Passed, HostTypes, PHASES
<1>3. server'.nvs \in NvsStates
  BY <1>2, SettingsAre DEF EvidenceRecs
<1>4. server.session + 1 \in 1..MaxServers
  BY <1>1, PhasesAssumption
<1> QED
  BY <1>1, <1>2, <1>3, <1>4 DEF Served, IsServer, HostTypes

ServerMoves == UNCHANGED server \/ (Served /\ server' = Down) \/ NewServer

HostStep ==
  (\E phase \in PHASES : Serve(phase) \/ ServeTaken(phase))
    \/ Hang \/ Timeout \/ Fire \/ Confirm \/ Return \/ GiveUp \/ Abandon \/ Prepare

LEMMA HostMoves ==
  ASSUME TInv, HostStep
  PROVE  /\ ServerMoves /\ UNCHANGED <<evidence, closures, program, layout, region, nvs, past, saves>>
         /\ mishaps' \in 0..MaxMishaps /\ held' \in Sessions
<1>1. UNCHANGED <<evidence, closures, program, layout, region, nvs, past, saves>>
  BY DEF HostStep, Serve, ServeTaken, Hang, Timeout, Fire, Confirm, Return, GiveUp, Abandon,
         Prepare, hostVars, plugVars, restVars
<1>2. mishaps' \in 0..MaxMishaps
  BY PhasesAssumption
  DEF HostStep, Serve, ServeTaken, Hang, Timeout, Fire, Confirm, Return, GiveUp, Abandon,
      Prepare, Mishap, TInv, HostTypes
<1>3. server.up \/ runner # "none" => Served
  BY DEF TInv, HostTypes, NoServer
<1>4. ServerMoves
  BY <1>3
  DEF HostStep, Serve, ServeTaken, Hang, Timeout, Fire, Confirm, Return, GiveUp, Abandon,
      Prepare, Held, hostVars, ServerMoves, NewServer
<1>5. held' \in Sessions
  <2>1. 0 \in Sessions /\ server.session \in Sessions /\ held \in Sessions
    BY PhasesAssumption DEF TInv, HostTypes, NoServer, IsServer, Sessions
  <2>2. held' \in {held, 0, server.session}
    BY DEF HostStep, Serve, ServeTaken, Hang, Timeout, Fire, Confirm, Return, GiveUp, Abandon,
           Prepare, restVars
  <2> QED
    BY <2>1, <2>2
<1> QED
  BY <1>1, <1>2, <1>4, <1>5

LEMMA HostTypesStep == TInv /\ HostStep => TInv'
<1> SUFFICES ASSUME TInv, HostStep PROVE TInv'
  OBVIOUS
<1>1. ServerMoves /\ UNCHANGED <<evidence, closures, program, layout, region, nvs, past, saves>>
      /\ mishaps' \in 0..MaxMishaps /\ held' \in Sessions
  BY HostMoves
<1>2. HostTypes'
  <2>1. manifest' \in Manifests
    BY DEF HostStep, Serve, ServeTaken, Hang, Timeout, Fire, Confirm, Return, GiveUp, Abandon,
           Prepare, hostVars, TInv, HostTypes
  <2>2. runner' \in {"none", "served", "gate", "waiting"} /\ (runner' # "none" => Served')
        /\ (runner' = "gate" => server'.phase \in ARMED_PHASES)
    <3>1. CASE UNCHANGED server
      <4>1. runner' \in {"none", "served", "gate", "waiting"}
            /\ (runner' # "none" => runner # "none")
            /\ (runner' = "gate" => server.phase \in ARMED_PHASES)
        BY <3>1
        DEF HostStep, Serve, ServeTaken, Hang, Timeout, Fire, Confirm, Return, GiveUp, Abandon,
            Prepare, hostVars, TInv, HostTypes, Down
      <4> QED
        BY <3>1, <4>1 DEF TInv, HostTypes, Served
    <3>2. CASE Served /\ server' = Down
      <4>1. Served' /\ server'.phase = server.phase
        BY <3>2, DownIs DEF TInv
      <4> QED
        BY <4>1
        DEF HostStep, Serve, ServeTaken, Hang, Timeout, Fire, Confirm, Return, GiveUp, Abandon,
            Prepare, hostVars, TInv, HostTypes
    <3>3. CASE NewServer
      BY <3>3, NewIs DEF TInv, NewServer
    <3> QED
      BY <1>1, <3>1, <3>2, <3>3 DEF ServerMoves
  <2>3. server' = NoServer \/ (Served' /\ IsServer(server)')
    <3>1. CASE UNCHANGED server
      BY <3>1 DEF TInv, HostTypes, Served, IsServer
    <3>2. CASE Served /\ server' = Down
      BY <3>2, DownIs DEF TInv
    <3>3. CASE NewServer
      BY <3>3, NewIs DEF TInv
    <3> QED
      BY <1>1, <3>1, <3>2, <3>3 DEF ServerMoves
  <2> QED
    BY <1>1, <2>1, <2>2, <2>3 DEF TInv, HostTypes
<1>3. CapturesTyped'
  <2>1. CASE UNCHANGED server
    BY <2>1 DEF TInv, CapturesTyped, Served
  <2>2. ASSUME server'.captures = <<>> PROVE CapturesTyped'
    BY <2>2 DEF CapturesTyped
  <2> QED
    BY <1>1, <2>1, <2>2, DownIs, NewIs DEF ServerMoves, TInv
<1>4. PlugTypes'
  <2>1. ASSUME NEW command \in queued'
        PROVE  /\ command \in [do : {"load", "arm"}, phase : PHASES, session : Sessions]
               /\ command.do = "arm" => command.phase \in ARMED_PHASES /\ command.session > 0
    <3>1. CASE command \in queued
      BY <3>1 DEF TInv, PlugTypes
    <3>2. CASE Fire /\ command \notin queued
      <4>1. command = [do |-> "load", phase |-> server.phase, session |-> 0]
        BY <3>2, <2>1 DEF Fire
      <4>2. server.phase \in PHASES /\ 0 \in Sessions
        BY <3>2, PhasesAssumption DEF Fire, TInv, HostTypes, NoServer, Served, IsServer, Sessions
      <4> QED
        BY <4>1, <4>2
    <3>3. CASE Confirm /\ command \notin queued
      <4>1. command = [do |-> "arm", phase |-> server.phase, session |-> server.session]
        BY <3>3, <2>1 DEF Confirm
      <4>2. server.phase \in ARMED_PHASES /\ server.session \in Sessions /\ server.session > 0
        BY <3>3, PhasesAssumption
           DEF Confirm, TInv, HostTypes, NoServer, Served, IsServer, Sessions
      <4> QED
        BY <4>1, <4>2 DEF ARMED_PHASES, PHASES
    <3>4. CASE (\E phase \in PHASES : ServeTaken(phase)) /\ command \notin queued
      <4>1. PICK phase \in PHASES : command = [do |-> "load", phase |-> phase, session |-> 0]
        BY <3>4, <2>1 DEF ServeTaken
      <4> QED
        BY <4>1, PhasesAssumption DEF Sessions
    <3> QED
      BY <2>1, <3>1, <3>2, <3>3, <3>4
      DEF HostStep, Serve, Hang, Timeout, Return, GiveUp, Abandon, Prepare
  <2> QED
    BY <1>1, <2>1 DEF TInv, PlugTypes, Fresh
<1>5. PlaceInv'
  BY <1>1 DEF TInv, PlaceInv, PlaceOf
<1>6. OwnedInv'
  <2>1. ASSUME NEW x, Owned(x), x \in {None} \cup ProgramRecs
        PROVE  x # None => /\ x.session <= server'.session
                           /\ x.session = server'.session => x.phase = server'.phase /\ x.manifest = server'.manifest
    <3>1. server.session \in Nat
      BY DEF TInv, HostTypes, NoServer, IsServer
    <3>2. x # None => x.session \in Nat
      BY <2>1 DEF ProgramRecs
    <3>3. CASE server'.session = server.session + 1
      BY <2>1, <3>1, <3>2, <3>3 DEF Owned
    <3>4. CASE UNCHANGED server
      BY <2>1, <3>4 DEF Owned
    <3>5. CASE Served /\ server' = Down
      BY <2>1, <3>5, DownIs DEF Owned, TInv
    <3> QED
      BY <1>1, <3>3, <3>4, <3>5, NewIs DEF ServerMoves, TInv
  <2> QED
    BY <1>1, <2>1 DEF TInv, OwnedInv, Owned, PlugTypes
<1> QED
  BY <1>2, <1>3, <1>4, <1>5, <1>6 DEF TInv


-----------------------------------------------------------------------------
(* A command loads a closure, or starts a program. *)

Loaded ==
  [phase |-> server.phase, session |-> server.session, manifest |-> server.manifest,
   nvs |-> server.nvs, pc |-> "guards", i |-> 0, data |-> Unknown]

LEMMA LoadedIs ==
  ASSUME HostTypes, Served PROVE Loaded \in ProgramRecs /\ Fresh(Loaded)
BY PartsAre DEF HostTypes, NoServer, Served, IsServer, Loaded, ProgramRecs, Pcs, Fresh

CommandMoves ==
  \/ UNCHANGED <<program, closures, past>>
  \/ /\ server.phase \in ARMED_PHASES /\ closures' = [closures EXCEPT ![server.phase] = Loaded]
     /\ server.up /\ UNCHANGED <<program, past>>
  \/ /\ server.up /\ server.phase \notin ARMED_PHASES /\ program' = Loaded
     /\ past' = (IF server.phase = "preflight" THEN {nvs} ELSE {}) /\ UNCHANGED closures
  \/ /\ \E p \in ARMED_PHASES : closures[p] # None /\ program' = closures[p]
     /\ past' = {} /\ UNCHANGED closures

LEMMA CommandIs ==
  ASSUME TInv, Command
  PROVE  /\ CommandMoves /\ program = None /\ queued' \subseteq queued
         /\ UNCHANGED <<manifest, server, runner, evidence, layout, region, nvs, saves, held, mishaps>>
<1>1. program = None /\ queued' \subseteq queued
      /\ UNCHANGED <<manifest, server, runner, evidence, layout, region, nvs, saves, held, mishaps>>
  BY DEF Command, Load, Arm, Idle, hostVars
<1> SUFFICES CommandMoves
  BY <1>1
<1>2. PICK command \in queued : Load(command) \/ Arm(command)
  BY DEF Command
<1>3. CASE Load(command)
  <2>1. CASE ~Serving({command.phase})
    BY <1>3, <2>1 DEF Load, CommandMoves
  <2>2. CASE Serving({command.phase}) /\ server.phase \in ARMED_PHASES
    BY <1>3, <2>2 DEF Load, CommandMoves, Loaded, Serving, Up
  <2>3. CASE Serving({command.phase}) /\ server.phase \notin ARMED_PHASES
    <3>1. Start(Loaded) /\ UNCHANGED closures /\ server.up
      BY <1>3, <2>3 DEF Load, Loaded, Serving, Up
    <3> QED
      BY <3>1, <2>3 DEF CommandMoves, Start, Loaded
  <2> QED
    BY <2>1, <2>2, <2>3
<1>4. CASE Arm(command)
  <2>1. CASE closures[command.phase].session = command.session
    <3>1. command.phase \in ARMED_PHASES /\ command.session > 0
      BY <1>4 DEF Arm, TInv, PlugTypes
    <3>2. closures[command.phase] # None
      BY <2>1, <3>1 DEF None
    <3>3. closures[command.phase].phase = command.phase
      BY <3>1, <3>2 DEF TInv, PlugTypes
    <3>4. Start(closures[command.phase]) /\ UNCHANGED closures
      BY <1>4, <2>1 DEF Arm
    <3>5. program' = closures[command.phase] /\ past' = {}
      BY <3>1, <3>3, <3>4 DEF Start, ARMED_PHASES
    <3> QED
      BY <3>1, <3>2, <3>4, <3>5 DEF CommandMoves
  <2> QED
    BY <1>4, <2>1 DEF Arm, CommandMoves
<1> QED
  BY <1>1, <1>2, <1>3, <1>4

LEMMA CommandTypes == TInv /\ Command => TInv'
<1> SUFFICES ASSUME TInv, Command PROVE TInv'
  OBVIOUS
<1>1. /\ CommandMoves /\ program = None /\ queued' \subseteq queued
      /\ UNCHANGED <<manifest, server, runner, evidence, layout, region, nvs, saves, held, mishaps>>
  BY CommandIs
<1>2. HostTypes' /\ CapturesTyped'
  BY <1>1 DEF TInv, HostTypes, CapturesTyped, Served, IsServer
<1>3. server.up => Loaded \in ProgramRecs /\ Fresh(Loaded) /\ Loaded.phase = server.phase
  BY LoadedIs DEF TInv, HostTypes, NoServer, Loaded
<1>4. closures' \in [ARMED_PHASES -> {None} \cup ProgramRecs]
      /\ \A p \in ARMED_PHASES : closures'[p] # None => closures'[p].phase = p /\ Fresh(closures'[p])
  BY <1>1, <1>3 DEF TInv, PlugTypes, CommandMoves, Fresh
<1>5. program' \in {None} \cup ProgramRecs /\ (program' # None => Fresh(program'))
  BY <1>1, <1>3 DEF TInv, PlugTypes, CommandMoves
<1>6. past' \subseteq Settings
  BY <1>1 DEF TInv, PlugTypes, CommandMoves
<1>7. PlugTypes'
  BY <1>1, <1>4, <1>5, <1>6 DEF TInv, PlugTypes, Fresh
<1>8. PlaceInv'
  <2>1. ASSUME NEW x \in ProgramRecs, Fresh(x) PROVE PlaceOf(x)
    BY <2>1 DEF ProgramRecs, PHASES, Fresh, PlaceOf, PcsOf
  <2> QED
    BY <1>5, <2>1 DEF PlaceInv, PlaceOf
<1>9. OwnedInv'
  <2>1. Owned(Loaded)
    BY <1>1, <1>3 DEF Owned, Loaded, TInv, HostTypes, NoServer, IsServer
  <2>2. Owned(program') /\ \A p \in ARMED_PHASES : Owned(closures'[p])
    BY <1>1, <2>1 DEF TInv, OwnedInv, CommandMoves, PlugTypes
  <2> QED
    BY <1>1, <2>2 DEF OwnedInv, Owned
<1> QED
  BY <1>2, <1>7, <1>8, <1>9 DEF TInv


-----------------------------------------------------------------------------
(* A program goes on, or ends. *)

Kept ==
  /\ program' \in {None} \cup ProgramRecs
  /\ program' # None =>
       /\ program'.phase = program.phase /\ program'.session = program.session
       /\ program'.manifest = program.manifest

ClosuresShrink ==
  /\ closures' \in [ARMED_PHASES -> {None} \cup ProgramRecs]
  /\ \A p \in ARMED_PHASES : closures'[p] \in {closures[p], None}

(* The server it talks to is the same one, or is down. *)
ServerKept ==
  \/ UNCHANGED server
  \/ /\ Served /\ Served' /\ IsServer(server)' /\ CapturesTyped'
     /\ server'.session = server.session /\ server'.phase = server.phase
     /\ server'.manifest = server.manifest

LEMMA AtIs ==
  ASSUME TInv, NEW phases, NEW pc, At(phases, pc)
  PROVE  program \in ProgramRecs /\ program.phase \in phases /\ program.pc = pc
         /\ PlaceOf(program) /\ Owned(program) /\ program # None
BY DEF At, TInv, PlugTypes, PlaceInv, OwnedInv

LEMMA GotoIs ==
  ASSUME program \in ProgramRecs, NEW pc \in Pcs, Goto(pc)
  PROVE  /\ Kept /\ program' \in ProgramRecs /\ program' # None /\ program'.pc = pc
         /\ program'.i = program.i /\ program'.nvs = program.nvs
<1>1. /\ program' \in ProgramRecs /\ program'.pc = pc
      /\ program'.i = program.i /\ program'.nvs = program.nvs
      /\ program'.phase = program.phase /\ program'.session = program.session
      /\ program'.manifest = program.manifest
  BY DEF Goto, ProgramRecs
<1> QED
  BY <1>1, NotNone DEF Kept

LEMMA AdvanceIs ==
  ASSUME program \in ProgramRecs, NEW pc \in Pcs, NEW done \in Pcs, NEW more,
         Advance(more, pc, done)
  PROVE  /\ Kept /\ program' \in ProgramRecs /\ program' # None
         /\ program'.pc = IF program.i + 1 < more THEN pc ELSE done
         /\ program'.i = program.i + 1 /\ program'.nvs = program.nvs
<1>1. /\ program' \in ProgramRecs /\ program'.pc = IF program.i + 1 < more THEN pc ELSE done
      /\ program'.i = program.i + 1 /\ program'.nvs = program.nvs
      /\ program'.phase = program.phase /\ program'.session = program.session
      /\ program'.manifest = program.manifest
  <2> DEFINE next == IF program.i + 1 < more THEN pc ELSE done
  <2>1. program' = [program EXCEPT !.i = program.i + 1, !.data = Unknown, !.pc = next]
    BY DEF Advance, ProgramRecs
  <2>2. next \in Pcs /\ Unknown \in Parts /\ program.i + 1 \in Nat
    BY PartsAre DEF ProgramRecs
  <2> HIDE DEF next
  <2>3. program' \in ProgramRecs /\ program'.pc = next
        /\ program'.i = program.i + 1 /\ program'.nvs = program.nvs
        /\ program'.phase = program.phase /\ program'.session = program.session
        /\ program'.manifest = program.manifest
    BY <2>1, <2>2 DEF ProgramRecs
  <2> QED
    BY <2>3 DEF next
<1> QED
  BY <1>1, NotNone DEF Kept

LEMMA EndedIs == ASSUME program' = None PROVE Kept /\ PlaceInv'
BY DEF Kept, PlaceInv

LEMMA RaiseIs ==
  ASSUME program \in ProgramRecs, Raise
  PROVE  /\ Kept /\ PlaceInv' /\ (program' # None => program'.nvs = program.nvs)
         /\ program' # None =>
              program.phase = "restore" /\ program.pc # "guards" /\ program'.pc = "failed"
<1>1. CASE Ended
  BY <1>1, EndedIs DEF Ended
<1>2. CASE program.phase = "restore" /\ program.pc # "guards" /\ Goto("failed")
  <2>1. /\ Kept /\ program'.pc = "failed" /\ program'.nvs = program.nvs /\ program' # None
    BY <1>2, GotoIs DEF Pcs
  <2>2. PlaceInv'
    BY <1>2, <2>1 DEF Kept, PlaceInv, PlaceOf, PcsOf
  <2> QED
    BY <1>2, <2>1, <2>2
<1> QED
  BY <1>1, <1>2 DEF Raise

LEMMA MishapType == ASSUME HostTypes, Mishap \/ UNCHANGED mishaps PROVE mishaps' \in 0..MaxMishaps
BY PhasesAssumption DEF HostTypes, Mishap

LEMMA CapturedIs ==
  ASSUME HostTypes, server.up, NEW i, NEW data, server' = Captured(i, data)
  PROVE  /\ Served /\ Served' /\ IsServer(server)' /\ server'.up
         /\ server'.session = server.session /\ server'.phase = server.phase
         /\ server'.manifest = server.manifest /\ server'.nvs = server.nvs
         /\ DOMAIN server'.captures = DOMAIN server.captures \cup {i}
         /\ \A j \in DOMAIN server'.captures :
              server'.captures[j] = IF j = i THEN data ELSE server.captures[j]
<1> DEFINE captures == [j \in DOMAIN server.captures \cup {i} |->
                          IF j = i THEN data ELSE server.captures[j]]
<1>1. Served /\ IsServer(server)
  BY DEF HostTypes, NoServer
<1>2. server' = [server EXCEPT !.captures = captures]
  BY DEF Captured
<1> HIDE DEF captures
<1>3. /\ server'.up = server.up /\ server'.session = server.session /\ server'.phase = server.phase
      /\ server'.manifest = server.manifest /\ server'.nvs = server.nvs
      /\ server'.captures = captures
  BY <1>1, <1>2 DEF IsServer
<1>4. IsServer(server)'
  BY <1>1, <1>2, <1>3 DEF IsServer
<1>5. /\ DOMAIN captures = DOMAIN server.captures \cup {i}
      /\ \A j \in DOMAIN captures : captures[j] = IF j = i THEN data ELSE server.captures[j]
  BY DEF captures
<1> QED
  BY <1>1, <1>3, <1>4, <1>5 DEF Served

LEMMA ProgramTypes ==
  ASSUME TInv, Kept, PlaceInv', ClosuresShrink, ServerKept, region' \in RegionRecs,
         layout' \in {"source", "target"}, mishaps' \in 0..MaxMishaps, queued' \subseteq queued,
         evidence' \in [PHASES -> {None} \cup EvidenceRecs],
         UNCHANGED <<manifest, runner, nvs, past, saves, held>>, program \in ProgramRecs
  PROVE  TInv'
<1>1. HostTypes'
  <2>1. server' = NoServer \/ (Served' /\ IsServer(server)')
    BY DEF TInv, HostTypes, ServerKept, Served, IsServer
  <2>2. runner' # "none" => Served'
    BY DEF TInv, HostTypes, ServerKept, Served
  <2>3. runner' = "gate" => server'.phase \in ARMED_PHASES
    BY DEF TInv, HostTypes, ServerKept
  <2> QED
    BY <2>1, <2>2, <2>3 DEF TInv, HostTypes
<1>2. CapturesTyped'
  BY DEF TInv, CapturesTyped, ServerKept, Served
<1>3. PlugTypes'
  <2>1. \A p \in ARMED_PHASES : closures'[p] # None => closures'[p].phase = p /\ Fresh(closures'[p])
    BY DEF ClosuresShrink, TInv, PlugTypes
  <2> QED
    BY <2>1 DEF TInv, PlugTypes, Fresh, Kept, ClosuresShrink
<1>4. OwnedInv'
  <2>1. server'.session = server.session /\ server'.phase = server.phase
        /\ server'.manifest = server.manifest
    BY DEF ServerKept
  <2>2. program # None
    BY NotNone
  <2> QED
    BY <2>1, <2>2 DEF TInv, OwnedInv, Owned, Kept, ClosuresShrink
<1> QED
  BY <1>1, <1>2, <1>3, <1>4 DEF TInv


-----------------------------------------------------------------------------
(* The steps of the programs. *)

(* What a program step that only reads the flash leaves alone.              *)
Quiet == UNCHANGED <<manifest, server, runner, evidence, queued, layout, region, nvs, past, saves, held>>

LEMMA SameClosures == ASSUME TInv, UNCHANGED closures PROVE ClosuresShrink
BY DEF TInv, PlugTypes, ClosuresShrink

LEMMA QuietTypes ==
  ASSUME TInv, Quiet, Kept, PlaceInv', ClosuresShrink, Mishap \/ UNCHANGED mishaps,
         program \in ProgramRecs
  PROVE  TInv'
<1>1. mishaps' \in 0..MaxMishaps
  BY MishapType DEF TInv
<1>2. region' \in RegionRecs /\ layout' \in {"source", "target"}
      /\ evidence' \in [PHASES -> {None} \cup EvidenceRecs] /\ ServerKept /\ queued' \subseteq queued
  BY DEF TInv, HostTypes, PlugTypes, Quiet, ServerKept
<1> QED
  BY <1>1, <1>2, ProgramTypes DEF Quiet

LEMMA GuardsIs ==
  ASSUME TInv, Guards
  PROVE  /\ program \in ProgramRecs /\ program # None /\ program.pc = "guards" /\ program.i = 0
         /\ Kept /\ PlaceInv' /\ ClosuresShrink /\ Quiet /\ UNCHANGED mishaps
         /\ program' # None => /\ GuardsHold /\ program'.pc = First /\ program'.i = 0
                               /\ program'.nvs = program.nvs
<1>1. program \in ProgramRecs /\ program # None /\ program.pc = "guards" /\ program.i = 0
      /\ program.phase \in PHASES
  BY AtIs DEF Guards, PlaceOf
<1>2. Quiet /\ UNCHANGED mishaps
  BY DEF Guards, Quiet, hostVars, restVars
<1>3. ClosuresShrink
  <2>1. CASE UNCHANGED closures
    BY <2>1, SameClosures
  <2>2. CASE closures' = [closures EXCEPT !["restore"] = None]
    BY <2>2 DEF TInv, PlugTypes, ClosuresShrink, ARMED_PHASES
  <2> QED
    BY <2>1, <2>2 DEF Guards
<1>4. CASE ~GuardsHold
  <2>1. program' = None
    BY <1>4 DEF Guards, Ended
  <2> QED
    BY <1>1, <1>2, <1>3, <2>1, EndedIs
<1>5. CASE GuardsHold
  <2>1. /\ First \in {"hash", "table", "fetch"} /\ First \in Pcs
        /\ First \in PcsOf(program.phase)
    BY <1>1 DEF First, Pcs, PcsOf, PHASES
  <2>2. Goto(First)
    BY <1>5 DEF Guards
  <2> HIDE DEF First
  <2>3. Kept /\ program'.pc = First /\ program'.i = 0 /\ program'.nvs = program.nvs
        /\ program' # None
    BY <1>1, <2>1, <2>2, GotoIs
  <2>4. PlaceInv'
    <3>1. First \in PcsOf(program'.phase)
      BY <2>1, <2>3 DEF Kept
    <3>2. 0 < NvsChunks /\ 0 \in Indices
      BY PartsAre, PhasesAssumption
    <3> QED
      BY <2>1, <2>3, <3>1, <3>2 DEF PlaceInv, PlaceOf
  <2> QED
    BY <1>1, <1>2, <1>3, <1>5, <2>3, <2>4
<1> QED
  BY <1>4, <1>5

LEMMA HashIs ==
  ASSUME TInv, Hash
  PROVE  /\ program \in ProgramRecs /\ program # None /\ program.phase = "preflight"
         /\ program.pc = "hash" /\ program.i + 1 \in 1..NvsChunks
         /\ Kept /\ PlaceInv' /\ ClosuresShrink /\ Quiet /\ UNCHANGED mishaps /\ program' # None
         /\ program'.nvs = [program.nvs EXCEPT ![program.i + 1] = nvs[program.i + 1]]
         /\ \/ program.i + 1 = NvsChunks /\ program'.pc = "upload" /\ program'.i = 0
            \/ program.i + 1 < NvsChunks /\ program'.pc = "hash" /\ program'.i = program.i + 1
<1>1. program \in ProgramRecs /\ program # None /\ program.phase = "preflight"
      /\ program.pc = "hash" /\ program.i < NvsChunks
  BY AtIs DEF Hash, PlaceOf
<1>2. Quiet /\ UNCHANGED mishaps /\ ClosuresShrink
  BY SameClosures DEF Hash, Quiet, hostVars, restVars
<1>3. program.i + 1 \in 1..NvsChunks /\ program.i \in Nat
  BY <1>1, PhasesAssumption DEF ProgramRecs
<1> DEFINE c == program.i + 1
           last == c = NvsChunks
           i == IF last THEN 0 ELSE c
           pc == IF last THEN "upload" ELSE "hash"
           read == [program.nvs EXCEPT ![c] = nvs[c]]
<1>4. program' = [program EXCEPT !.nvs = read, !.i = i, !.pc = pc]
  BY <1>1 DEF Hash, ProgramRecs
<1>5. i \in Nat /\ pc \in Pcs
  BY <1>3 DEF Pcs
<1>6. read \in NvsStates
  <2>1. program.nvs \in NvsStates /\ nvs[c] \in (0 - 1)..MaxSaves
    BY <1>1, <1>3, SettingsAre DEF ProgramRecs, TInv, PlugTypes, NvsStates
  <2> QED
    BY <2>1 DEF NvsStates
<1>7. \/ last /\ pc = "upload" /\ i = 0
      \/ program.i + 1 < NvsChunks /\ pc = "hash" /\ i = program.i + 1
  BY <1>3, PhasesAssumption
<1> HIDE DEF read, i, pc
<1>8. /\ program' \in ProgramRecs /\ program'.phase = program.phase
      /\ program'.session = program.session /\ program'.manifest = program.manifest
      /\ program'.nvs = read /\ program'.i = i /\ program'.pc = pc
  BY <1>1, <1>4, <1>5, <1>6 DEF ProgramRecs
<1>9. program' # None /\ Kept
  BY <1>8, NotNone DEF Kept
<1>10. PlaceInv'
  BY <1>1, <1>7, <1>8, PhasesAssumption DEF PlaceInv, PlaceOf, PcsOf
<1> QED
  BY <1>1, <1>2, <1>3, <1>7, <1>8, <1>9, <1>10 DEF read


LEMMA PlaceAt ==
  ASSUME Kept, program' # None, program'.pc \in PcsOf(program.phase),
         program'.pc \in {"verify", "erase", "table", "install", "report", "failed"},
         program.phase # "preflight"
  PROVE  PlaceInv'
BY DEF Kept, PlaceInv, PlaceOf

LEMMA UploadIs ==
  ASSUME TInv, Upload
  PROVE  /\ program \in ProgramRecs /\ program # None /\ program.phase = "preflight"
         /\ program.pc = "upload" /\ program.i + 1 \in 1..NvsChunks
         /\ Kept /\ PlaceInv' /\ ClosuresShrink /\ ServerKept
         /\ UNCHANGED <<manifest, runner, evidence, queued, closures, layout, region, nvs, past, saves, held>>
         /\ mishaps' \in 0..MaxMishaps /\ server'.up = server.up
         /\ Served => server'.nvs = server.nvs
         /\ program' # None =>
              /\ program'.nvs = program.nvs /\ program'.i = program.i + 1
              /\ program'.pc \in {"upload", "report"}
              /\ server.up /\ server'.up
              /\ DOMAIN server'.captures = DOMAIN server.captures \cup {program.i + 1}
              /\ program.i + 1 \in DOMAIN server.captures =>
                   server.captures[program.i + 1] = nvs[program.i + 1]
              /\ \A j \in DOMAIN server'.captures :
                   server'.captures[j] = IF j = program.i + 1 THEN nvs[j] ELSE server.captures[j]
<1> DEFINE c == program.i + 1
           fits == CaptureFits("preflight", c, nvs[c])
           carriedOut == server' = Captured(c, nvs[c])
           answered == Advance(NvsChunks, "upload", "report")
<1>1. program \in ProgramRecs /\ program # None /\ program.phase = "preflight"
      /\ program.pc = "upload" /\ program.i < NvsChunks
  BY AtIs DEF Upload, PlaceOf
<1>2. c \in 1..NvsChunks /\ program.i \in Nat
  BY <1>1, PhasesAssumption DEF ProgramRecs
<1>3. UNCHANGED <<manifest, runner, evidence, queued, closures, layout, region, nvs, past, saves, held>>
      /\ ClosuresShrink
  BY SameClosures DEF Upload, restVars
<1>4. Request(fits, carriedOut, UNCHANGED server, answered)
  BY DEF Upload
<1>5. fits => server.up /\ server.phase = "preflight"
              /\ (c \in DOMAIN server.captures => server.captures[c] = nvs[c])
  BY DEF CaptureFits, Serving, Up
<1>6. ASSUME fits, carriedOut
      PROVE  /\ Served /\ Served' /\ IsServer(server)' /\ server'.up
             /\ server'.session = server.session /\ server'.phase = server.phase
             /\ server'.manifest = server.manifest /\ server'.nvs = server.nvs
             /\ DOMAIN server'.captures = DOMAIN server.captures \cup {c}
             /\ \A j \in DOMAIN server'.captures :
                  server'.captures[j] = IF j = c THEN nvs[c] ELSE server.captures[j]
  BY <1>5, <1>6, CapturedIs DEF TInv
<1>7. ASSUME fits, carriedOut PROVE CapturesTyped'
  <2>1. nvs[c] \in 0..MaxSaves
    BY <1>2 DEF TInv, PlugTypes, Settings
  <2> QED
    BY <1>5, <1>6, <1>7, <2>1 DEF TInv, CapturesTyped
<1>8. mishaps' \in 0..MaxMishaps
  <2>1. Mishap \/ UNCHANGED mishaps
    BY <1>4 DEF Request
  <2> QED
    BY <2>1, MishapType DEF TInv
<1>9. ServerKept /\ server'.up = server.up /\ (Served => server'.nvs = server.nvs)
  <2>1. UNCHANGED server \/ (fits /\ carriedOut)
    BY <1>4 DEF Request
  <2> HIDE DEF fits, carriedOut
  <2> QED
    BY <1>5, <1>6, <1>7, <2>1 DEF ServerKept
<1>10. (fits /\ carriedOut /\ answered) \/ Raise
  BY <1>4 DEF Request
<1>11. CASE Raise
  <2>1. Kept /\ PlaceInv' /\ program' = None
    BY <1>1, <1>11, RaiseIs
  <2> QED
    BY <1>1, <1>2, <1>3, <1>8, <1>9, <2>1
<1>12. CASE fits /\ carriedOut /\ answered
  <2>1. /\ Kept /\ program' # None /\ program'.i = program.i + 1
        /\ program'.nvs = program.nvs
        /\ program'.pc = IF c < NvsChunks THEN "upload" ELSE "report"
    BY <1>1, <1>12, AdvanceIs DEF Pcs
  <2>2. PlaceInv'
    BY <1>1, <1>2, <2>1, PhasesAssumption DEF Kept, PlaceInv, PlaceOf, PcsOf
  <2> HIDE DEF fits, carriedOut, answered
  <2> QED
    BY <1>1, <1>2, <1>3, <1>5, <1>6, <1>8, <1>9, <1>12, <2>1, <2>2
<1> QED
  BY <1>10, <1>11, <1>12

LEMMA FetchIs ==
  ASSUME TInv, Fetch
  PROVE  /\ program \in ProgramRecs /\ program # None /\ program.phase \in {"stage", "restore"}
         /\ program.pc = "fetch"
         /\ Kept /\ PlaceInv' /\ ClosuresShrink /\ Quiet /\ (Mishap \/ UNCHANGED mishaps)
         /\ UNCHANGED closures
         /\ program' # None => /\ program'.nvs = program.nvs /\ program'.pc # "guards"
                               /\ program'.pc \in {"write", "failed"}
<1>1. program \in ProgramRecs /\ program # None /\ program.phase \in {"stage", "restore"}
      /\ program.pc = "fetch" /\ program.i \in Indices
  BY AtIs DEF Fetch, PlaceOf
<1>2. Quiet /\ ClosuresShrink /\ UNCHANGED closures /\ (Mishap \/ UNCHANGED mishaps)
  BY SameClosures DEF Fetch, Request, Quiet, hostVars, restVars
<1>3. CASE Raise
  BY <1>1, <1>2, <1>3, RaiseIs
<1>4. CASE Serving({"stage", "restore"})
           /\ program' = [program EXCEPT !.pc = "write", !.data = safeboot_chunk(program.i)]
  <2>1. safeboot_chunk(program.i) \in Parts
    <3>1. server.manifest \in Manifests
      BY <1>4 DEF Serving, Up, TInv, HostTypes, NoServer, IsServer
    <3> QED
      BY <1>1, <3>1, PartsAre DEF safeboot_chunk
  <2>2. /\ program' \in ProgramRecs /\ program'.phase = program.phase
        /\ program'.session = program.session /\ program'.manifest = program.manifest
        /\ program'.nvs = program.nvs /\ program'.i = program.i /\ program'.pc = "write"
    BY <1>1, <1>4, <2>1 DEF ProgramRecs, Pcs
  <2>3. Kept /\ program' # None
    BY <2>2, NotNone DEF Kept
  <2>4. PlaceInv'
    BY <1>1, <2>2 DEF PlaceInv, PlaceOf, PcsOf
  <2> QED
    BY <1>1, <1>2, <2>2, <2>3, <2>4
<1> QED
  BY <1>3, <1>4 DEF Fetch, Request

(* What a step may do to the place Safeboot goes to.                       *)
LEMMA WriteIs ==
  ASSUME TInv, Write
  PROVE  /\ program \in ProgramRecs /\ program # None /\ program.phase \in {"stage", "restore"}
         /\ program.pc = "write"
         /\ Kept /\ PlaceInv' /\ ClosuresShrink /\ (Mishap \/ UNCHANGED mishaps)
         /\ UNCHANGED <<manifest, server, runner, evidence, queued, closures, layout, nvs, past, saves, held>>
         /\ region' \in RegionRecs
         /\ program' # None => /\ program'.nvs = program.nvs /\ program'.pc # "guards"
                               /\ program'.pc \in {"capture", "failed"}
<1>1. program \in ProgramRecs /\ program # None /\ program.phase \in {"stage", "restore"}
      /\ program.pc = "write" /\ program.i \in Indices /\ program.data \in Parts
  BY AtIs DEF Write, PlaceOf, ProgramRecs
<1>2. UNCHANGED <<manifest, server, runner, evidence, queued, closures, layout, nvs, past, saves, held>>
      /\ ClosuresShrink
  BY SameClosures DEF Write, hostVars, restVars
<1>3. Mishap \/ UNCHANGED mishaps
  BY DEF Write
<1>4. region' \in RegionRecs
  <2>1. region \in RegionRecs
    BY DEF TInv, PlugTypes
  <2> DEFINE pad == IF program.i = Chunks - 1 THEN TRUE ELSE region.pad
             written == [region EXCEPT !.body[program.i] = program.data, !.pad = pad]
  <2>2. written = [region EXCEPT !.body[program.i] = program.data,
                                 !.pad = IF program.i = Chunks - 1 THEN TRUE ELSE @]
    BY <2>1 DEF RegionRecs
  <2>3. pad \in BOOLEAN
    BY <2>1 DEF RegionRecs
  <2> HIDE DEF pad
  <2>4. written \in RegionRecs
    BY <1>1, <2>1, <2>3 DEF RegionRecs
  <2>5. [region EXCEPT !.body[program.i] = Unknown] \in RegionRecs
    BY <1>1, <2>1, PartsAre DEF RegionRecs
  <2> HIDE DEF written
  <2>6. [written EXCEPT !.pad = FALSE] \in RegionRecs
    BY <2>4 DEF RegionRecs
  <2> QED
    BY <2>2, <2>4, <2>5, <2>6 DEF Write
<1>5. CASE Raise
  BY <1>1, <1>2, <1>3, <1>4, <1>5, RaiseIs
<1>6. CASE Goto("capture")
  <2>1. Kept /\ program' # None /\ program'.nvs = program.nvs /\ program'.pc = "capture"
        /\ program'.i = program.i
    BY <1>1, <1>6, GotoIs DEF Pcs
  <2>2. PlaceInv'
    BY <1>1, <2>1 DEF Kept, PlaceInv, PlaceOf, PcsOf
  <2> QED
    BY <1>1, <1>2, <1>3, <1>4, <2>1, <2>2
<1> QED
  BY <1>5, <1>6 DEF Write


LEMMA CaptureIs ==
  ASSUME TInv, Capture
  PROVE  /\ program \in ProgramRecs /\ program # None /\ program.phase \in {"stage", "restore"}
         /\ program.pc = "capture"
         /\ Kept /\ PlaceInv' /\ ClosuresShrink /\ ServerKept /\ mishaps' \in 0..MaxMishaps
         /\ UNCHANGED <<manifest, runner, evidence, queued, closures, layout, region, nvs, past, saves, held>>
         /\ server'.up = server.up /\ (Served => server'.nvs = server.nvs)
         /\ program' # None => /\ program'.nvs = program.nvs
                               /\ program'.pc \in {"fetch", "verify", "failed"}
<1> DEFINE fits == CaptureFits(program.phase, program.i, program.data)
           carriedOut == server' = Captured(program.i, program.data)
           answered == Advance(Chunks, "fetch", "verify")
<1>1. program \in ProgramRecs /\ program # None /\ program.phase \in {"stage", "restore"}
      /\ program.pc = "capture" /\ program.i \in Indices /\ program.data \in Parts
  BY AtIs DEF Capture, PlaceOf, ProgramRecs
<1>2. UNCHANGED <<manifest, runner, evidence, queued, closures, layout, region, nvs, past, saves, held>>
      /\ ClosuresShrink
  BY SameClosures DEF Capture, restVars
<1>3. Request(fits, carriedOut, UNCHANGED server, answered)
  BY DEF Capture
<1>4. mishaps' \in 0..MaxMishaps
  <2>1. Mishap \/ UNCHANGED mishaps
    BY <1>3 DEF Request
  <2> QED
    BY <2>1, MishapType DEF TInv
<1>5. ASSUME fits, carriedOut PROVE ServerKept /\ server'.up = server.up /\ server'.nvs = server.nvs
  <2>1. server.up /\ server.phase = program.phase
    BY <1>5 DEF CaptureFits, Serving, Up
  <2>2. /\ Served /\ Served' /\ IsServer(server)' /\ server'.up
        /\ server'.session = server.session /\ server'.phase = server.phase
        /\ server'.manifest = server.manifest /\ server'.nvs = server.nvs
        /\ DOMAIN server'.captures = DOMAIN server.captures \cup {program.i}
        /\ \A j \in DOMAIN server'.captures :
             server'.captures[j] = IF j = program.i THEN program.data ELSE server.captures[j]
    BY <1>5, <2>1, CapturedIs DEF TInv
  <2>3. CapturesTyped'
    BY <1>1, <2>1, <2>2 DEF TInv, CapturesTyped
  <2>4. server'.up = server.up
    BY <2>1, <2>2 DEF TInv, HostTypes, NoServer, IsServer
  <2> QED
    BY <2>2, <2>3, <2>4 DEF ServerKept
<1>6. ServerKept /\ server'.up = server.up /\ (Served => server'.nvs = server.nvs)
  <2>1. UNCHANGED server \/ (fits /\ carriedOut)
    BY <1>3 DEF Request
  <2> HIDE DEF fits, carriedOut
  <2> QED
    BY <1>5, <2>1 DEF ServerKept
<1>7. CASE Raise
  BY <1>1, <1>2, <1>4, <1>6, <1>7, RaiseIs
<1>8. CASE answered
  <2>1. /\ Kept /\ program' # None /\ program'.i = program.i + 1
        /\ program'.nvs = program.nvs
        /\ program'.pc = IF program.i + 1 < Chunks THEN "fetch" ELSE "verify"
    BY <1>1, <1>8, AdvanceIs DEF Pcs
  <2>2. program'.pc = "fetch" => program'.i \in Indices
    BY <1>1, <2>1, PhasesAssumption DEF Indices
  <2>3. PlaceInv'
    BY <1>1, <2>1, <2>2 DEF Kept, PlaceInv, PlaceOf, PcsOf
  <2> QED
    BY <1>1, <1>2, <1>4, <1>6, <2>1, <2>3
<1> QED
  BY <1>3, <1>7, <1>8 DEF Request

LEMMA VerifyIs ==
  ASSUME TInv, Verify
  PROVE  /\ program \in ProgramRecs /\ program # None /\ program.phase \in {"stage", "restore"}
         /\ program.pc = "verify"
         /\ Kept /\ PlaceInv' /\ ClosuresShrink /\ Quiet /\ UNCHANGED <<closures, mishaps>>
         /\ program' # None =>
              /\ program'.nvs = program.nvs
              /\ \/ program'.pc = "failed"
                 \/ Verified /\ program.phase = "restore" /\ program'.pc = "erase"
                 \/ Verified /\ program.phase = "stage" /\ program'.pc = "report"
<1>1. program \in ProgramRecs /\ program # None /\ program.phase \in {"stage", "restore"}
      /\ program.pc = "verify"
  BY AtIs DEF Verify
<1>2. Quiet /\ ClosuresShrink /\ UNCHANGED <<closures, mishaps>>
  BY SameClosures DEF Verify, Quiet, hostVars, restVars
<1>3. CASE Raise
  BY <1>1, <1>2, <1>3, RaiseIs
<1>4. CASE Verified /\ program.phase = "restore" /\ Goto("erase")
  <2>1. Kept /\ program' # None /\ program'.nvs = program.nvs /\ program'.pc = "erase"
    BY <1>1, <1>4, GotoIs DEF Pcs
  <2>2. PlaceInv'
    BY <1>4, <2>1, PlaceAt DEF PcsOf
  <2> QED
    BY <1>1, <1>2, <1>4, <2>1, <2>2
<1>5. CASE Verified /\ program.phase = "stage" /\ Goto("report")
  <2>1. Kept /\ program' # None /\ program'.nvs = program.nvs /\ program'.pc = "report"
    BY <1>1, <1>5, GotoIs DEF Pcs
  <2>2. PlaceInv'
    BY <1>5, <2>1, PlaceAt DEF PcsOf
  <2> QED
    BY <1>1, <1>2, <1>5, <2>1, <2>2
<1> QED
  BY <1>1, <1>3, <1>4, <1>5 DEF Verify

LEMMA EraseIs ==
  ASSUME TInv, Erase
  PROVE  /\ program \in ProgramRecs /\ program # None /\ program.phase = "restore"
         /\ program.pc = "erase"
         /\ Kept /\ PlaceInv' /\ ClosuresShrink /\ (Mishap \/ UNCHANGED mishaps)
         /\ UNCHANGED <<manifest, server, runner, evidence, queued, closures, layout, nvs, past, saves, held>>
         /\ region' \in RegionRecs /\ region'.body = region.body /\ region'.pad = region.pad
         /\ program' # None => /\ program'.nvs = program.nvs
                               /\ \/ program'.pc = "failed"
                                  \/ program'.pc = "report" /\ region'.tail
<1>1. program \in ProgramRecs /\ program # None /\ program.phase = "restore"
      /\ program.pc = "erase"
  BY AtIs DEF Erase
<1>2. UNCHANGED <<manifest, server, runner, evidence, queued, closures, layout, nvs, past, saves, held>>
      /\ ClosuresShrink /\ (Mishap \/ UNCHANGED mishaps)
  BY SameClosures DEF Erase, hostVars, restVars
<1>3. region \in RegionRecs
  BY DEF TInv, PlugTypes
<1>4. CASE UNCHANGED region /\ Raise
  BY <1>1, <1>2, <1>3, <1>4, RaiseIs
<1>5. CASE region' = [region EXCEPT !.tail = TRUE] /\ Goto("report")
  <2>1. region' \in RegionRecs /\ region'.body = region.body /\ region'.pad = region.pad
        /\ region'.tail
    BY <1>3, <1>5 DEF RegionRecs
  <2>2. Kept /\ program' # None /\ program'.nvs = program.nvs /\ program'.pc = "report"
    BY <1>1, <1>5, GotoIs DEF Pcs
  <2>3. PlaceInv'
    BY <1>1, <2>2, PlaceAt DEF PcsOf
  <2> QED
    BY <1>1, <1>2, <2>1, <2>2, <2>3
<1> QED
  BY <1>4, <1>5 DEF Erase

LEMMA FetchTableIs ==
  ASSUME TInv, FetchTable
  PROVE  /\ program \in ProgramRecs /\ program # None /\ program.phase = "commit"
         /\ program.pc = "table"
         /\ Kept /\ PlaceInv' /\ ClosuresShrink /\ Quiet /\ (Mishap \/ UNCHANGED mishaps)
         /\ program' # None =>
              program'.nvs = program.nvs /\ program'.pc = "install" /\ Serving({"commit"})
<1>1. program \in ProgramRecs /\ program # None /\ program.phase = "commit"
      /\ program.pc = "table"
  BY AtIs DEF FetchTable
<1>2. Quiet /\ (Mishap \/ UNCHANGED mishaps)
  BY DEF FetchTable, Request, Quiet, hostVars, restVars
<1>3. ClosuresShrink
  <2>1. CASE UNCHANGED closures
    BY <2>1, SameClosures
  <2>2. CASE closures' = [closures EXCEPT !["commit"] = None]
    BY <2>2 DEF TInv, PlugTypes, ClosuresShrink, ARMED_PHASES
  <2> QED
    BY <2>1, <2>2 DEF FetchTable
<1>4. CASE Raise
  BY <1>1, <1>2, <1>3, <1>4, RaiseIs
<1>5. CASE Serving({"commit"}) /\ Goto("install")
  <2>1. Kept /\ program' # None /\ program'.nvs = program.nvs /\ program'.pc = "install"
    BY <1>1, <1>5, GotoIs DEF Pcs
  <2>2. PlaceInv'
    BY <1>1, <2>1, PlaceAt DEF PcsOf
  <2> QED
    BY <1>1, <1>2, <1>3, <1>5, <2>1, <2>2
<1> QED
  BY <1>4, <1>5 DEF FetchTable, Request

LEMMA InstallIs ==
  ASSUME TInv, Install
  PROVE  /\ program \in ProgramRecs /\ program # None /\ program.phase = "commit"
         /\ program.pc = "install"
         /\ Kept /\ PlaceInv' /\ ClosuresShrink /\ (Mishap \/ UNCHANGED mishaps)
         /\ UNCHANGED <<manifest, server, runner, evidence, queued, closures, nvs, past, saves, held>>
         /\ region' \in RegionRecs /\ program' # None /\ program'.nvs = program.nvs
         /\ \/ layout' = "target" /\ UNCHANGED region /\ program'.pc = "report"
            \/ UNCHANGED layout /\ program'.pc = "failed"
<1>1. program \in ProgramRecs /\ program # None /\ program.phase = "commit"
      /\ program.pc = "install"
  BY AtIs DEF Install
<1>2. UNCHANGED <<manifest, server, runner, evidence, queued, closures, nvs, past, saves, held>>
      /\ ClosuresShrink /\ (Mishap \/ UNCHANGED mishaps)
  BY SameClosures DEF Install, hostVars, restVars
<1>3. region' \in RegionRecs
  <2>1. region \in RegionRecs
    BY DEF TInv, PlugTypes
  <2>2. [region EXCEPT !.body[0] = Unknown] \in RegionRecs
    BY <2>1, PartsAre DEF RegionRecs
  <2> QED
    BY <2>1, <2>2 DEF Install
<1>4. \/ layout' = "target" /\ UNCHANGED region /\ Goto("report")
      \/ UNCHANGED layout /\ Goto("failed")
  BY DEF Install
<1>5. ASSUME NEW pc \in {"report", "failed"}, Goto(pc)
      PROVE  Kept /\ PlaceInv' /\ program' # None /\ program'.nvs = program.nvs /\ program'.pc = pc
  <2>1. Kept /\ program' # None /\ program'.nvs = program.nvs /\ program'.pc = pc
    BY <1>1, <1>5, GotoIs DEF Pcs
  <2>2. PlaceInv'
    BY <1>1, <2>1, PlaceAt DEF PcsOf
  <2> QED
    BY <2>1, <2>2
<1> QED
  BY <1>1, <1>2, <1>3, <1>4, <1>5

LEMMA ReportIs ==
  ASSUME TInv, Report
  PROVE  /\ program \in ProgramRecs /\ program # None /\ program' = None
         /\ program.pc = "report" \/ (program.phase \in ARMED_PHASES /\ program.pc = "failed")
         /\ Kept /\ PlaceInv' /\ ClosuresShrink /\ (Mishap \/ UNCHANGED mishaps)
         /\ queued' \subseteq queued
         /\ UNCHANGED <<manifest, runner, layout, region, nvs, past, saves, held>>
         /\ \/ UNCHANGED <<evidence, server>>
            \/ ReportFits(TheReport) /\ evidence' = Recorded(TheReport) /\ server' = Down
<1>1. program \in ProgramRecs /\ program # None
      /\ (program.pc = "report" \/ (program.phase \in ARMED_PHASES /\ program.pc = "failed"))
  BY AtIs DEF Report, Reporting
<1>2. program' = None /\ Kept /\ PlaceInv'
  BY EndedIs DEF Report, Ended
<1>3. ClosuresShrink /\ queued' \subseteq queued
  BY SameClosures DEF Report, Restarts, ClosuresShrink
<1>4. UNCHANGED <<manifest, runner, layout, region, nvs, past, saves, held>> /\ (Mishap \/ UNCHANGED mishaps)
  BY DEF Report, restVars
<1>5. \/ UNCHANGED <<evidence, server>>
      \/ ReportFits(TheReport) /\ evidence' = Recorded(TheReport) /\ server' = Down
  BY DEF Report, Delivered, NotDelivered
<1> QED
  BY <1>1, <1>2, <1>3, <1>4, <1>5


(* A report that fits comes from the server's own program. *)
LEMMA RecordedIs ==
  ASSUME TInv, program \in ProgramRecs, ReportFits(TheReport), evidence' = Recorded(TheReport),
         program.pc = "report" \/ (program.phase \in ARMED_PHASES /\ program.pc = "failed")
  PROVE  /\ server.up /\ Served /\ server.phase = program.phase /\ server.session = program.session
         /\ server.manifest = program.manifest
         /\ evidence' \in [PHASES -> {None} \cup EvidenceRecs]
         /\ \A p \in PHASES : p # program.phase => evidence'[p] = evidence[p]
         /\ evidence'[program.phase] \in EvidenceRecs
         /\ evidence'[program.phase].session = program.session
         /\ evidence'[program.phase].manifest = program.manifest
         /\ evidence'[program.phase].nvs = program.nvs
         /\ evidence'[program.phase].status = IF program.pc = "failed" THEN "FAIL" ELSE "PASS"
<1> DEFINE status == IF program.pc = "failed" THEN "FAIL" ELSE "PASS"
           new == [session |-> program.session, manifest |-> server.manifest,
                   status |-> status, nvs |-> program.nvs]
<1>1. server.up /\ server.phase = program.phase /\ server.session = program.session
  BY DEF ReportFits, Serving, Up, TheReport
<1>2. Served /\ IsServer(server)
  BY <1>1 DEF TInv, HostTypes, NoServer
<1>3. server.manifest = program.manifest
  BY <1>1, NotNone DEF TInv, OwnedInv, Owned
<1>4. new \in EvidenceRecs
  BY <1>1, <1>2 DEF IsServer, EvidenceRecs, ProgramRecs
<1>5. program.phase \in PHASES
  BY DEF ProgramRecs
<1>6. evidence' = [evidence EXCEPT ![program.phase] = new]
  BY DEF Recorded, TheReport, StatusOf
<1>7. /\ new.session = program.session /\ new.manifest = program.manifest
      /\ new.nvs = program.nvs /\ new.status = status
  BY <1>3
<1> HIDE DEF new
<1>8. /\ evidence' \in [PHASES -> {None} \cup EvidenceRecs]
      /\ \A p \in PHASES : p # program.phase => evidence'[p] = evidence[p]
      /\ evidence'[program.phase] = new
  BY <1>4, <1>5, <1>6 DEF TInv, HostTypes
<1> QED
  BY <1>1, <1>2, <1>3, <1>4, <1>7, <1>8

LEMMA ReportTypes == TInv /\ Report => TInv'
<1> SUFFICES ASSUME TInv, Report PROVE TInv'
  OBVIOUS
<1>1. ServerKept /\ evidence' \in [PHASES -> {None} \cup EvidenceRecs]
  <2>1. CASE UNCHANGED <<evidence, server>>
    BY <2>1 DEF ServerKept, TInv, HostTypes
  <2>2. CASE ReportFits(TheReport) /\ evidence' = Recorded(TheReport) /\ server' = Down
    <3>1. Served /\ evidence' \in [PHASES -> {None} \cup EvidenceRecs]
      BY <2>2, ReportIs, RecordedIs
    <3>2. /\ Served' /\ IsServer(server)'
          /\ server'.session = server.session /\ server'.phase = server.phase
          /\ server'.manifest = server.manifest /\ server'.captures = <<>>
      BY <2>2, <3>1, DownIs DEF TInv
    <3>3. CapturesTyped'
      BY <3>2 DEF CapturesTyped
    <3> QED
      BY <3>1, <3>2, <3>3 DEF ServerKept
  <2> QED
    BY <2>1, <2>2, ReportIs
<1>2. mishaps' \in 0..MaxMishaps
  BY ReportIs, MishapType DEF TInv
<1>3. region' \in RegionRecs /\ layout' \in {"source", "target"}
  BY ReportIs DEF TInv, PlugTypes
<1> QED
  BY <1>1, <1>2, <1>3, ReportIs, ProgramTypes

LEMMA ProgramStepTypes == TInv /\ ProgramStep => TInv'
<1> SUFFICES ASSUME TInv, ProgramStep PROVE TInv'
  OBVIOUS
<1>1. /\ region \in RegionRecs /\ layout \in {"source", "target"}
      /\ evidence \in [PHASES -> {None} \cup EvidenceRecs]
  BY DEF TInv, HostTypes, PlugTypes, ServerKept
<1>2. CASE Guards
  BY <1>2, GuardsIs, QuietTypes
<1>3. CASE Hash
  BY <1>3, HashIs, QuietTypes
<1>4. CASE Upload
  <2>1. region' \in RegionRecs /\ layout' \in {"source", "target"} /\ queued' \subseteq queued
        /\ evidence' \in [PHASES -> {None} \cup EvidenceRecs]
    BY <1>1, <1>4, UploadIs
  <2> QED
    BY <1>4, <2>1, UploadIs, ProgramTypes
<1>5. CASE Fetch
  BY <1>5, FetchIs, QuietTypes
<1>6. CASE Write
  BY <1>1, <1>6, WriteIs, MishapType, ProgramTypes DEF TInv, ServerKept
<1>7. CASE Capture
  <2>1. region' \in RegionRecs /\ layout' \in {"source", "target"} /\ queued' \subseteq queued
        /\ evidence' \in [PHASES -> {None} \cup EvidenceRecs]
    BY <1>1, <1>7, CaptureIs
  <2> QED
    BY <1>7, <2>1, CaptureIs, ProgramTypes
<1>8. CASE Verify
  BY <1>8, VerifyIs, QuietTypes
<1>9. CASE Erase
  BY <1>1, <1>9, EraseIs, MishapType, ProgramTypes DEF TInv, ServerKept
<1>10. CASE FetchTable
  BY <1>10, FetchTableIs, QuietTypes
<1>11. CASE Install
  BY <1>1, <1>11, InstallIs, MishapType, ProgramTypes DEF TInv, ServerKept
<1>12. CASE Report
  BY <1>12, ReportTypes
<1> QED
  BY <1>2, <1>3, <1>4, <1>5, <1>6, <1>7, <1>8, <1>9, <1>10, <1>11, <1>12 DEF ProgramStep

-----------------------------------------------------------------------------
(* The firmware saves its settings; power is lost. *)

LEMMA SaveIs ==
  ASSUME TInv, NEW c \in 1..NvsChunks, Save(c)
  PROVE  /\ UNCHANGED <<manifest, server, runner, evidence, queued, closures, program, layout,
                        region, held, mishaps>>
         /\ layout = "source" /\ saves' = saves + 1 /\ saves' \in 0..MaxSaves
         /\ nvs' \in Settings /\ nvs' = [nvs EXCEPT ![c] = saves']
         /\ past' \in {past, past \cup {nvs'}} /\ (past # {} => past' = past \cup {nvs'})
<1>1. saves' = saves + 1 /\ saves' \in 0..MaxSaves
  BY PhasesAssumption DEF Save, TInv, PlugTypes
<1>2. nvs' \in Settings
  BY <1>1 DEF Save, TInv, PlugTypes, Settings
<1> QED
  BY <1>1, <1>2 DEF Save, hostVars, plugVars

LEMMA SaveTypes == ASSUME TInv, NEW c \in 1..NvsChunks, Save(c) PROVE TInv'
<1>1. HostTypes' /\ CapturesTyped' /\ PlaceInv' /\ OwnedInv'
  BY SaveIs DEF TInv, HostTypes, CapturesTyped, PlaceInv, PlaceOf, OwnedInv, Owned, Served, IsServer
<1>2. PlugTypes'
  BY SaveIs DEF TInv, PlugTypes, Fresh
<1> QED
  BY <1>1, <1>2 DEF TInv

LEMMA PowerCutIs ==
  ASSUME TInv, PowerCut
  PROVE  /\ UNCHANGED <<manifest, server, runner, evidence, layout, nvs, past, saves, held>>
         /\ program' = None /\ queued' = {} /\ ClosuresShrink
         /\ closures' = [p \in ARMED_PHASES |-> None] /\ Mishap
         /\ region' \in RegionRecs
         /\ UNCHANGED region \/ At({"stage", "restore"}, "write")
<1>1. region' \in RegionRecs
  <2>1. region \in RegionRecs
    BY DEF TInv, PlugTypes
  <2>2. ASSUME At({"stage", "restore"}, "write")
        PROVE  [region EXCEPT !.body[program.i] = Unknown] \in RegionRecs
    <3>1. program.i \in Indices
      BY <2>2, AtIs DEF PlaceOf
    <3> QED
      BY <2>1, <3>1, PartsAre DEF RegionRecs
  <2> QED
    BY <2>1, <2>2 DEF PowerCut
<1> QED
  BY <1>1 DEF PowerCut, Restarts, hostVars, restVars, ClosuresShrink

LEMMA PowerCutTypes == TInv /\ PowerCut => TInv'
<1> SUFFICES ASSUME TInv, PowerCut PROVE TInv'
  OBVIOUS
<1>1. mishaps' \in 0..MaxMishaps
  BY PowerCutIs, MishapType DEF TInv
<1>2. HostTypes' /\ CapturesTyped'
  BY <1>1, PowerCutIs DEF TInv, HostTypes, CapturesTyped, Served, IsServer
<1>3. PlugTypes'
  BY PowerCutIs DEF TInv, PlugTypes, ClosuresShrink
<1>4. PlaceInv' /\ OwnedInv'
  BY PowerCutIs DEF PlaceInv, OwnedInv, Owned
<1> QED
  BY <1>2, <1>3, <1>4 DEF TInv

LEMMA NextTypes == TInv /\ [Next]_vars => TInv'
<1> SUFFICES ASSUME TInv, [Next]_vars PROVE TInv'
  OBVIOUS
<1>1. CASE UNCHANGED vars
  BY <1>1 DEF vars, TInv, HostTypes, CapturesTyped, PlugTypes, Fresh, PlaceInv, PlaceOf, OwnedInv,
              Owned, Served, IsServer
<1> QED
  BY <1>1, HostTypesStep, CommandTypes, ProgramStepTypes, SaveTypes, PowerCutTypes
     DEF Next, HostStep


(* Every variable of the conversation stays in its type. *)
THEOREM PhasesTypeOK == Spec => []TypeOK
<1>1. TInv => TypeOK
  <2> SUFFICES ASSUME TInv PROVE TypeOK
    OBVIOUS
  <2>1. 0 \in Sessions /\ 1..MaxServers \subseteq Sessions
    BY PhasesAssumption DEF Sessions
  <2>2. manifest \in Manifests /\ runner \in {"none", "served", "gate", "waiting"}
        /\ mishaps \in 0..MaxMishaps /\ held \in Sessions
    BY DEF TInv, HostTypes
  <2>3. /\ server.up \in BOOLEAN /\ server.session \in Sessions
        /\ server.session > 0 =>
             /\ server.phase \in PHASES /\ server.manifest \in Manifests
             /\ server.nvs \in NvsStates
    <3>1. CASE server = NoServer
      BY <2>1, <3>1 DEF NoServer
    <3>2. CASE Served /\ IsServer(server)
      BY <2>1, <3>2 DEF IsServer
    <3> QED
      BY <3>1, <3>2 DEF TInv, HostTypes
  <2>4. server.session > 0 =>
          \A i \in DOMAIN server.captures :
            IF server.phase = "preflight" THEN server.captures[i] \in 0..MaxSaves
                                          ELSE server.captures[i] \in Parts
    BY DEF TInv, CapturesTyped, Served
  <2>5. \A p \in PHASES : evidence[p] = None \/
          /\ evidence[p].session \in Sessions /\ evidence[p].manifest \in Manifests
          /\ evidence[p].status \in {"PASS", "FAIL"} /\ evidence[p].nvs \in NvsStates
    BY <2>1 DEF TInv, HostTypes, EvidenceRecs
  <2>6. \A command \in queued :
          command.do \in {"load", "arm"} /\ command.phase \in PHASES
            /\ command.session \in Sessions
    BY DEF TInv, PlugTypes
  <2>7. DOMAIN closures = ARMED_PHASES /\ layout \in {"source", "target"} /\ saves \in 0..MaxSaves
    BY DEF TInv, PlugTypes
  <2>8. program.session \in Sessions
    BY <2>1 DEF TInv, PlugTypes, None, ProgramRecs
  <2>9. region.body \in [Indices -> Parts] /\ region.pad \in BOOLEAN /\ region.tail \in BOOLEAN
    BY DEF TInv, PlugTypes, RegionRecs
  <2>10. nvs \in NvsStates /\ past \subseteq NvsStates
    BY SettingsAre DEF TInv, PlugTypes
  <2> QED
    BY <2>2, <2>3, <2>4, <2>5, <2>6, <2>7, <2>8, <2>9, <2>10 DEF TypeOK
<1>2. Init => TInv
  BY InitIInv DEF IInv
<1> QED
  BY <1>1, <1>2, NextTypes, PTL DEF Spec

-----------------------------------------------------------------------------
(* The programs and the plug. *)

LEMMA PlugFrame ==
  ASSUME PlugInv, UNCHANGED <<evidence, layout, region>>,
         program' # None => \/ program' = program
                            \/ program'.phase = "preflight"
                            \/ program'.pc = "guards"
  PROVE  PlugInv'
<1>1. \A image : RegionIs(image)' <=> RegionIs(image)
  BY DEF RegionIs, ImageThere
<1>2. \A p : Passed(p)' <=> Passed(p)
  BY DEF Passed
<1>3. program' # None => PlugOf(program)'
  <2>1. CASE program' = program
    BY <1>1, <1>2, <2>1 DEF PlugInv, PlugOf
  <2>2. CASE program'.phase = "preflight" \/ program'.pc = "guards"
    BY <2>2 DEF PlugOf
  <2> QED
    BY <2>1, <2>2
<1> QED
  BY <1>1, <1>2, <1>3 DEF PlugInv, EvidenceTruth

LEMMA HostPlug == TInv /\ PlugInv /\ HostStep => PlugInv'
BY HostMoves, PlugFrame

LEMMA CommandPlug == TInv /\ PlugInv /\ Command => PlugInv'
<1> SUFFICES ASSUME TInv, PlugInv, Command PROVE PlugInv'
  OBVIOUS
<1>1. program' # None => program'.pc = "guards"
  BY CommandIs DEF CommandMoves, Loaded, TInv, PlugTypes, Fresh
<1> QED
  BY <1>1, CommandIs, PlugFrame

(* The official image is no prepared one, so a restore that finds the       *)
(* prepared image has not been recorded as passed.                         *)
LEMMA GuardsPlug == TInv /\ PlugInv /\ Guards => PlugInv'
<1> SUFFICES ASSUME TInv, PlugInv, Guards, program' # None PROVE PlugInv'
  BY GuardsIs, PlugFrame DEF Quiet
<1>1. /\ UNCHANGED <<evidence, layout, region>>
      /\ GuardsHold /\ program'.pc = First /\ program'.phase = program.phase
      /\ program'.manifest = program.manifest
      /\ program.phase \in PHASES /\ program.manifest \in Manifests
  BY GuardsIs DEF Quiet, Kept, ProgramRecs
<1>2. \A image : RegionIs(image)' <=> RegionIs(image)
  BY <1>1 DEF RegionIs, ImageThere
<1>3. \A p : Passed(p)' <=> Passed(p)
  BY <1>1 DEF Passed
<1>4. CASE program.phase = "preflight"
  BY <1>1, <1>4, PlugFrame
<1>5. CASE program.phase = "stage"
  <2>1. layout = "source" /\ First = "fetch"
    BY <1>1, <1>5 DEF GuardsHold, First
  <2> QED
    BY <1>1, <1>2, <1>3, <1>5, <2>1 DEF PlugInv, PlugOf, EvidenceTruth
<1>6. CASE program.phase = "commit"
  <2>1. layout = "source" /\ First = "table" /\ RegionIs(program.manifest)
    BY <1>1, <1>6 DEF GuardsHold, First, RegionIs
  <2> QED
    BY <1>1, <1>2, <1>3, <1>6, <2>1 DEF PlugInv, PlugOf, EvidenceTruth
<1>7. CASE program.phase = "restore"
  <2>1. layout = "target" /\ First = "fetch" /\ ImageThere(program.manifest)
    BY <1>1, <1>7 DEF GuardsHold, First
  <2>2. ~Passed("restore")
    BY <1>1, <2>1, PartsAre DEF PlugInv, EvidenceTruth, RegionIs, ImageThere
  <2> QED
    BY <1>1, <1>2, <1>3, <1>7, <2>1, <2>2 DEF PlugInv, PlugOf, EvidenceTruth
<1> QED
  BY <1>1, <1>4, <1>5, <1>6, <1>7 DEF PHASES

(* Steps of stage and restore that touch the place: it belongs to them.     *)
LEMMA PlaceChanges ==
  ASSUME TInv, PlugInv, UNCHANGED <<evidence, layout>>, program \in ProgramRecs, Kept,
         program.phase \in {"stage", "restore"}, program.pc # "guards",
         program' # None => program'.pc \notin {"guards", "erase", "report"}
  PROVE  PlugInv'
<1>1. \A p : Passed(p)' <=> Passed(p)
  BY DEF Passed
<1>2. PlugOf(program) /\ program # None
  BY NotNone DEF PlugInv
<1>3. ~Passed("restore")
  BY <1>2 DEF PlugInv, PlugOf
<1>4. program' # None => PlugOf(program)'
  BY <1>1, <1>2, <1>3 DEF Kept, PlugOf
<1> QED
  BY <1>1, <1>3, <1>4 DEF PlugInv, EvidenceTruth

LEMMA VerifyPlug == TInv /\ PlugInv /\ Verify => PlugInv'
<1> SUFFICES ASSUME TInv, PlugInv, Verify PROVE PlugInv'
  OBVIOUS
<1>1. CASE program' # None => program'.pc = "failed"
  BY <1>1, VerifyIs, PlaceChanges DEF Quiet
<1>2. CASE program' # None /\ Verified
  <2>1. UNCHANGED <<evidence, layout, region>> /\ Kept /\ program # None
        /\ PlugOf(program) /\ program.pc = "verify" /\ program.phase \in {"stage", "restore"}
    BY VerifyIs DEF Quiet, PlugInv
  <2>2. \A image : RegionIs(image)' <=> RegionIs(image)
    BY <2>1 DEF RegionIs, ImageThere
  <2>3. \A p : Passed(p)' <=> Passed(p)
    BY <2>1 DEF Passed
  <2>4. /\ program.phase = "stage" => RegionIs(program.manifest)
        /\ program.phase = "restore" => RegionIs("official")
    BY <1>2 DEF Verified, RegionIs
  <2>5. /\ program'.phase = program.phase /\ program'.manifest = program.manifest
        /\ program.phase = "stage" => program'.pc \in {"report", "failed"}
        /\ program.phase = "restore" => program'.pc \in {"erase", "failed"}
    BY <1>2, VerifyIs DEF Kept
  <2>6. PlugOf(program)'
    BY <2>1, <2>2, <2>3, <2>4, <2>5 DEF PlugOf
  <2> QED
    BY <2>1, <2>2, <2>3, <2>6 DEF PlugInv, EvidenceTruth
<1> QED
  BY <1>1, <1>2, VerifyIs

LEMMA ErasePlug == TInv /\ PlugInv /\ Erase => PlugInv'
<1> SUFFICES ASSUME TInv, PlugInv, Erase PROVE PlugInv'
  OBVIOUS
<1>1. /\ UNCHANGED <<evidence, layout>> /\ Kept /\ program # None /\ PlugOf(program)
      /\ program.pc = "erase" /\ program.phase = "restore"
      /\ region'.body = region.body /\ region'.pad = region.pad
      /\ program' # None => program'.pc = "failed" \/ (program'.pc = "report" /\ region'.tail)
  BY EraseIs DEF PlugInv
<1>2. \A image : RegionIs(image)' <=> RegionIs(image)
  BY <1>1 DEF RegionIs, ImageThere
<1>3. \A p : Passed(p)' <=> Passed(p)
  BY <1>1 DEF Passed
<1>4. ~Passed("restore") /\ layout = "target" /\ RegionIs("official")
  BY <1>1 DEF PlugOf
<1>5. program' # None => PlugOf(program)'
  BY <1>1, <1>2, <1>3, <1>4 DEF PlugOf, Kept
<1> QED
  BY <1>1, <1>3, <1>4, <1>5 DEF PlugInv, EvidenceTruth

LEMMA CommitPlug == TInv /\ PlugInv /\ (FetchTable \/ Install) => PlugInv'
<1> SUFFICES ASSUME TInv, PlugInv, FetchTable \/ Install PROVE PlugInv'
  OBVIOUS
<1>1. CASE FetchTable
  <2>1. /\ UNCHANGED <<evidence, layout, region>> /\ Kept /\ program # None /\ PlugOf(program)
        /\ program.pc = "table" /\ program.phase = "commit"
        /\ program' # None => program'.pc = "install"
    BY <1>1, FetchTableIs DEF Quiet, PlugInv
  <2>2. \A image : RegionIs(image)' <=> RegionIs(image)
    BY <2>1 DEF RegionIs, ImageThere
  <2>3. \A p : Passed(p)' <=> Passed(p)
    BY <2>1 DEF Passed
  <2>4. program' # None => PlugOf(program)'
    BY <2>1, <2>2 DEF PlugOf, Kept
  <2> QED
    BY <2>1, <2>2, <2>3, <2>4 DEF PlugInv, EvidenceTruth
<1>2. CASE Install
  <2>1. /\ UNCHANGED evidence /\ Kept /\ program # None /\ PlugOf(program) /\ program' # None
        /\ program.pc = "install" /\ program.phase = "commit"
        /\ \/ layout' = "target" /\ UNCHANGED region /\ program'.pc = "report"
           \/ UNCHANGED layout /\ program'.pc = "failed"
    BY <1>2, InstallIs DEF PlugInv
  <2>2. \A p : Passed(p)' <=> Passed(p)
    BY <2>1 DEF Passed
  <2>3. layout = "source" /\ ~Passed("restore") /\ ~Passed("commit")
    BY <2>1 DEF PlugOf, PlugInv, EvidenceTruth
  <2>4. PlugOf(program)'
    BY <2>1 DEF PlugOf, Kept
  <2> QED
    BY <2>1, <2>2, <2>3, <2>4 DEF PlugInv, EvidenceTruth
<1> QED
  BY <1>1, <1>2

LEMMA ReportPlug == TInv /\ PlugInv /\ Report => PlugInv'
<1> SUFFICES ASSUME TInv, PlugInv, Report PROVE PlugInv'
  OBVIOUS
<1>1. UNCHANGED <<layout, region>> /\ program' = None /\ program # None /\ PlugOf(program)
      /\ program \in ProgramRecs
  BY ReportIs DEF PlugInv
<1>2. CASE UNCHANGED evidence
  BY <1>1, <1>2, PlugFrame
<1>3. CASE ReportFits(TheReport) /\ evidence' = Recorded(TheReport)
  <2>1. /\ \A p \in PHASES : p # program.phase => evidence'[p] = evidence[p]
        /\ evidence'[program.phase].status = "PASS" => program.pc # "failed"
    BY <1>1, <1>3, ReportIs, RecordedIs
  <2>2. program.pc \in {"report", "failed"}
    BY ReportIs
  <2>3. \A p \in PHASES : p # program.phase => (Passed(p)' <=> Passed(p))
    BY <2>1 DEF Passed
  <2>4. program.phase \in PHASES
        /\ \A p \in PHASES : Passed(p)' => Passed(p) \/ (p = program.phase /\ program.pc = "report")
    BY <1>1, <2>1, <2>2, <2>3 DEF Passed, ProgramRecs
  <2>5. \A image : RegionIs(image)' <=> RegionIs(image)
    BY <1>1 DEF RegionIs, ImageThere
  <2>6. Passed("restore")' => layout = "target" /\ RegionIs("official") /\ region.tail
    <3>1. Passed("restore")' => Passed("restore")
                                \/ (program.phase = "restore" /\ program.pc = "report")
      BY <2>4 DEF PHASES
    <3> QED
      BY <1>1, <3>1 DEF PlugOf, PlugInv, EvidenceTruth
  <2>7. Passed("commit")' => layout = "target"
    <3>1. Passed("commit")' => Passed("commit")
                               \/ (program.phase = "commit" /\ program.pc = "report")
      BY <2>4 DEF PHASES
    <3> QED
      BY <1>1, <3>1 DEF PlugOf, PlugInv, EvidenceTruth
  <2> QED
    BY <1>1, <2>5, <2>6, <2>7 DEF PlugInv, EvidenceTruth
<1> QED
  BY <1>2, <1>3, ReportIs

LEMMA ProgramPlug == TInv /\ PlugInv /\ ProgramStep => PlugInv'
<1> SUFFICES ASSUME TInv, PlugInv, ProgramStep PROVE PlugInv'
  OBVIOUS
<1>1. CASE Hash
  BY <1>1, HashIs, PlugFrame DEF Quiet, Kept
<1>2. CASE Upload
  BY <1>2, UploadIs, PlugFrame DEF Kept
<1>3. CASE Fetch
  BY <1>3, FetchIs, PlaceChanges DEF Quiet
<1>4. CASE Write
  BY <1>4, WriteIs, PlaceChanges
<1>5. CASE Capture
  BY <1>5, CaptureIs, PlaceChanges
<1> QED
  BY <1>1, <1>2, <1>3, <1>4, <1>5, GuardsPlug, VerifyPlug, ErasePlug, CommitPlug, ReportPlug
     DEF ProgramStep

LEMMA PowerCutPlug == TInv /\ PlugInv /\ PowerCut => PlugInv'
<1> SUFFICES ASSUME TInv, PlugInv, PowerCut PROVE PlugInv'
  OBVIOUS
<1>1. CASE UNCHANGED region
  BY <1>1, PowerCutIs, PlugFrame
<1>2. CASE At({"stage", "restore"}, "write")
  BY <1>2, AtIs, PowerCutIs, PlaceChanges, EndedIs
<1> QED
  BY <1>1, <1>2, PowerCutIs

LEMMA NextPlug == TInv /\ PlugInv /\ [Next]_vars => PlugInv'
<1> SUFFICES ASSUME TInv, PlugInv, [Next]_vars PROVE PlugInv'
  OBVIOUS
<1>1. CASE UNCHANGED vars
  BY <1>1, PlugFrame DEF vars
<1>2. ASSUME NEW c \in 1..NvsChunks, Save(c) PROVE PlugInv'
  BY <1>2, SaveIs, PlugFrame
<1> QED
  BY <1>1, <1>2, HostPlug, CommandPlug, ProgramPlug, PowerCutPlug DEF Next, HostStep

LEMMA PlugInductive == Spec => [](TInv /\ PlugInv)
<1>1. Init => TInv /\ PlugInv
  BY InitIInv DEF IInv
<1> QED
  BY <1>1, NextTypes, NextPlug, PTL DEF Spec

(* A commit on record has left the target table, a restore on record the    *)
(* official image, whoever spoke to whom in between.                       *)
THEOREM EvidenceIsTruth == Spec => []EvidenceTruth
BY PlugInductive, PTL DEF PlugInv

(* A stage on record has left the whole image of its migration in place.   *)
THEOREM StageIsTruth == Spec => StageTruth
<1> DEFINE Staged == evidence["stage"]' # evidence["stage"] => RegionIs(evidence["stage"]'.manifest)
<1>1. TInv /\ PlugInv /\ [Next]_vars => [Staged]_vars
  <2> SUFFICES ASSUME TInv, PlugInv, Next, evidence'["stage"] # evidence["stage"]
               PROVE  RegionIs(evidence'["stage"].manifest)
    OBVIOUS
  <2>1. Report
    BY HostMoves, CommandIs, GuardsIs, HashIs, UploadIs, FetchIs, WriteIs, CaptureIs, VerifyIs,
       EraseIs, FetchTableIs, InstallIs, SaveIs, PowerCutIs
       DEF Next, HostStep, ProgramStep, Quiet
  <2>2. program \in ProgramRecs /\ ReportFits(TheReport) /\ evidence' = Recorded(TheReport)
    BY <2>1, ReportIs
  <2>3. /\ \A p \in PHASES : p # program.phase => evidence'[p] = evidence[p]
        /\ evidence'[program.phase].manifest = program.manifest
    BY <2>1, <2>2, ReportIs, RecordedIs
  <2>4. program.phase = "stage" /\ program.pc = "report"
    BY <2>1, <2>3, ReportIs DEF PHASES, ARMED_PHASES
  <2> QED
    BY <2>2, <2>3, <2>4, NotNone DEF PlugInv, PlugOf
<1> QED
  BY <1>1, PlugInductive, PTL DEF Spec, StageTruth


-----------------------------------------------------------------------------
(* The ages of the settings. *)

LEMMA OlderIs ==
  /\ \A u, v, w \in NvsStates : Older(u, v) /\ Older(v, w) => Older(u, w)
  /\ \A u, v \in NvsStates : Older(u, v) /\ Older(v, u) => u = v
  /\ \A v \in NvsStates : Older(v, v)
<1>1. \A v \in NvsStates, c \in 1..NvsChunks : v[c] \in Int
  BY PhasesAssumption DEF NvsStates
<1>2. ASSUME NEW u \in NvsStates, NEW v \in NvsStates, NEW w \in NvsStates, Older(u, v), Older(v, w),
             NEW c \in 1..NvsChunks
      PROVE  u[c] <= w[c]
  BY <1>1, <1>2 DEF Older
<1>3. ASSUME NEW u \in NvsStates, NEW v \in NvsStates, Older(u, v), Older(v, u) PROVE u = v
  <2>1. \A c \in 1..NvsChunks : u[c] = v[c]
    BY <1>1, <1>3 DEF Older
  <2>2. u = [c \in 1..NvsChunks |-> u[c]] /\ v = [c \in 1..NvsChunks |-> v[c]]
    BY DEF NvsStates
  <2> QED
    BY <2>1, <2>2
<1>4. \A v \in NvsStates, c \in 1..NvsChunks : v[c] <= v[c]
  BY <1>1
<1> QED
  BY <1>2, <1>3, <1>4 DEF Older

(* What the conversation holds as settings is typed as such. *)
LEMMA NvsTyped ==
  ASSUME TInv
  PROVE  /\ nvs \in NvsStates /\ past \subseteq NvsStates
         /\ Served => server.nvs \in NvsStates
         /\ program # None => program.nvs \in NvsStates
         /\ \A p \in ARMED_PHASES : closures[p] # None => closures[p].nvs \in NvsStates
         /\ \A p \in PHASES : evidence[p] # None => evidence[p].nvs \in NvsStates
<1>1. nvs \in NvsStates /\ past \subseteq NvsStates
  BY SettingsAre DEF TInv, PlugTypes
<1>2. Served => server.nvs \in NvsStates
  BY DEF TInv, HostTypes, NoServer, Served, IsServer
<1>3. /\ program # None => program.nvs \in NvsStates
      /\ \A p \in ARMED_PHASES : closures[p] # None => closures[p].nvs \in NvsStates
  BY DEF TInv, PlugTypes, ProgramRecs
<1>4. \A p \in PHASES : evidence[p] # None => evidence[p].nvs \in NvsStates
  BY DEF TInv, HostTypes, EvidenceRecs
<1> QED
  BY <1>1, <1>2, <1>3, <1>4

(* The server a program talks to keeps what it was started with. *)
ServerStays ==
  /\ Served' => /\ Served /\ server'.phase = server.phase /\ server'.session = server.session
                /\ server'.manifest = server.manifest /\ server'.nvs \in {server.nvs, NoNvs}
  /\ server'.up => server.up /\ Served' /\ server'.nvs = server.nvs

LEMMA ServerStaysIs ==
  ASSUME TInv,
         \/ UNCHANGED server
         \/ Served /\ server' = Down
         \/ ServerKept /\ server'.up = server.up /\ (Served => server'.nvs = server.nvs)
  PROVE  ServerStays
<1>1. server.up => Served
  BY DEF TInv, HostTypes, NoServer
<1>2. CASE UNCHANGED server
  BY <1>1, <1>2 DEF ServerStays, Served
<1>3. CASE Served /\ server' = Down
  BY <1>3, DownIs DEF TInv, ServerStays
<1>4. CASE ServerKept /\ server'.up = server.up /\ (Served => server'.nvs = server.nvs)
  BY <1>1, <1>2, <1>4 DEF ServerKept, ServerStays
<1> QED
  BY <1>2, <1>3, <1>4

LEMMA ProgramStepIs ==
  ASSUME TInv, ProgramStep
  PROVE  /\ program \in ProgramRecs /\ program # None /\ Kept /\ ClosuresShrink /\ ServerStays
         /\ UNCHANGED <<nvs, past, saves, held>>
         /\ program' # None => Hash \/ program'.nvs = program.nvs
         /\ UNCHANGED evidence \/ (Report /\ program' = None /\ ~server'.up)
<1> DEFINE Goal == /\ program \in ProgramRecs /\ program # None /\ Kept /\ ClosuresShrink /\ ServerStays
                   /\ UNCHANGED <<nvs, past, saves, held>>
                   /\ program' # None => Hash \/ program'.nvs = program.nvs
                   /\ UNCHANGED evidence \/ (Report /\ program' = None /\ ~server'.up)
<1> SUFFICES Goal
  OBVIOUS
<1>1. CASE Guards
  BY <1>1, GuardsIs, ServerStaysIs DEF Quiet
<1>2. CASE Hash
  BY <1>2, HashIs, ServerStaysIs DEF Quiet
<1>3. CASE Upload
  BY <1>3, UploadIs, ServerStaysIs
<1>4. CASE Fetch
  BY <1>4, FetchIs, ServerStaysIs DEF Quiet
<1>5. CASE Write
  BY <1>5, WriteIs, ServerStaysIs
<1>6. CASE Capture
  BY <1>6, CaptureIs, ServerStaysIs
<1>7. CASE Verify
  BY <1>7, VerifyIs, ServerStaysIs DEF Quiet
<1>8. CASE Erase
  BY <1>8, EraseIs, ServerStaysIs
<1>9. CASE FetchTable
  BY <1>9, FetchTableIs, ServerStaysIs DEF Quiet
<1>10. CASE Install
  BY <1>10, InstallIs, ServerStaysIs
<1>11. CASE Report
  <2>1. CASE UNCHANGED <<evidence, server>>
    BY <1>11, <2>1, ReportIs, ServerStaysIs
  <2>2. CASE ReportFits(TheReport) /\ evidence' = Recorded(TheReport) /\ server' = Down
    <3>1. Served
      BY <1>11, <2>2, ReportIs, RecordedIs
    <3>2. ~server'.up
      BY <2>2, <3>1, DownIs DEF TInv
    <3> QED
      BY <1>11, <2>2, <3>1, <3>2, ReportIs, ServerStaysIs
  <2> QED
    BY <1>11, <2>1, <2>2, ReportIs
<1> QED
  BY <1>1, <1>2, <1>3, <1>4, <1>5, <1>6, <1>7, <1>8, <1>9, <1>10, <1>11 DEF ProgramStep


LEMMA AgeFrame ==
  ASSUME TInv, AgeInv, UNCHANGED <<nvs, saves>>, past' \subseteq past \cup {nvs},
         Served' => Older(server'.nvs, nvs),
         program' # None => Older(program'.nvs, nvs),
         \A p \in ARMED_PHASES : closures'[p] # None => Older(closures'[p].nvs, nvs),
         \A p \in PHASES : evidence'[p] # None => Older(evidence'[p].nvs, nvs)
  PROVE  AgeInv'
<1>1. Older(nvs, nvs)
  BY NvsTyped, OlderIs
<1> QED
  BY <1>1 DEF AgeInv, Older, Served

LEMMA NoNvsIsOld == TInv => Older(NoNvs, nvs)
BY SettingsAre DEF TInv, PlugTypes

LEMMA HostAge == TInv /\ AgeInv /\ HostStep => AgeInv'
<1> SUFFICES ASSUME TInv, AgeInv, HostStep PROVE AgeInv'
  OBVIOUS
<1>1. ServerMoves /\ UNCHANGED <<evidence, closures, program, nvs, past, saves>>
  BY HostMoves
<1>2. Served' => Older(server'.nvs, nvs)
  <2>1. CASE UNCHANGED server
    BY <2>1 DEF AgeInv, Served
  <2>2. CASE Served /\ server' = Down
    BY <2>2, DownIs, NoNvsIsOld DEF TInv
  <2>3. CASE NewServer
    <3>1. server'.nvs = NoNvs
          \/ (evidence["preflight"] \in EvidenceRecs /\ server'.nvs = evidence["preflight"].nvs)
      BY <2>3, NewIs DEF TInv
    <3> QED
      BY <3>1, NoNvsIsOld, NotNone DEF AgeInv, PHASES
  <2> QED
    BY <1>1, <2>1, <2>2, <2>3 DEF ServerMoves
<1> QED
  BY <1>1, <1>2, AgeFrame DEF AgeInv

LEMMA CommandAge == TInv /\ AgeInv /\ Command => AgeInv'
<1> SUFFICES ASSUME TInv, AgeInv, Command PROVE AgeInv'
  OBVIOUS
<1>1. CommandMoves /\ UNCHANGED <<server, evidence, nvs, saves>>
  BY CommandIs
<1>2. server.up => Older(Loaded.nvs, nvs)
  BY DEF TInv, HostTypes, NoServer, Loaded, AgeInv
<1>3. past' \subseteq past \cup {nvs}
  BY <1>1 DEF CommandMoves
<1>4. program' # None => Older(program'.nvs, nvs)
  BY <1>1, <1>2 DEF CommandMoves, AgeInv
<1>5. \A p \in ARMED_PHASES : closures'[p] # None => Older(closures'[p].nvs, nvs)
  BY <1>1, <1>2 DEF CommandMoves, AgeInv, TInv, PlugTypes
<1> QED
  BY <1>1, <1>3, <1>4, <1>5, AgeFrame DEF AgeInv, Served

LEMMA ProgramAge == TInv /\ AgeInv /\ ProgramStep => AgeInv'
<1> SUFFICES ASSUME TInv, AgeInv, ProgramStep PROVE AgeInv'
  OBVIOUS
<1>1. program \in ProgramRecs /\ program # None /\ ClosuresShrink /\ ServerStays
      /\ UNCHANGED <<nvs, past, saves, held>>
  BY ProgramStepIs
<1>2. Served' => Older(server'.nvs, nvs)
  BY <1>1, NoNvsIsOld DEF ServerStays, AgeInv
<1>3. program' # None => Older(program'.nvs, nvs)
  <2>1. CASE Hash
    <3>1. /\ program.i + 1 \in 1..NvsChunks
          /\ program'.nvs = [program.nvs EXCEPT ![program.i + 1] = nvs[program.i + 1]]
      BY <2>1, HashIs
    <3>2. program.nvs \in NvsStates /\ Older(program.nvs, nvs) /\ Older(nvs, nvs)
      BY <1>1, NvsTyped, OlderIs DEF AgeInv
    <3>3. \A c \in 1..NvsChunks : program'.nvs[c] \in {program.nvs[c], nvs[c]}
      BY <3>1, <3>2 DEF NvsStates
    <3> QED
      BY <3>2, <3>3 DEF Older
  <2> QED
    BY <1>1, <2>1, ProgramStepIs DEF AgeInv
<1>4. \A p \in ARMED_PHASES : closures'[p] # None => Older(closures'[p].nvs, nvs)
  BY <1>1 DEF ClosuresShrink, AgeInv
<1>5. \A p \in PHASES : evidence'[p] # None => Older(evidence'[p].nvs, nvs)
  <2>1. CASE UNCHANGED evidence
    BY <2>1 DEF AgeInv
  <2>2. CASE Report /\ ~UNCHANGED evidence
    <3>1. /\ \A p \in PHASES : p # program.phase => evidence'[p] = evidence[p]
          /\ evidence'[program.phase].nvs = program.nvs
      BY <2>2, ReportIs, RecordedIs
    <3>2. Older(program.nvs, nvs)
      BY <1>1 DEF AgeInv
    <3> QED
      BY <3>1, <3>2 DEF AgeInv
  <2> QED
    BY <2>1, <2>2, ProgramStepIs
<1> QED
  BY <1>1, <1>2, <1>3, <1>4, <1>5, AgeFrame

(* A save makes the settings newer than all that was read of them. *)
LEMMA SaveAge == ASSUME TInv, AgeInv, NEW c \in 1..NvsChunks, Save(c) PROVE AgeInv'
<1>1. saves' = saves + 1 /\ nvs' = [nvs EXCEPT ![c] = saves'] /\ nvs' \in NvsStates
      /\ UNCHANGED <<server, program, closures, evidence>>
      /\ past' \subseteq past \cup {nvs'}
  BY SaveIs, SettingsAre
<1>2. \A d \in 1..NvsChunks : nvs[d] \in Int /\ nvs[d] <= saves /\ saves \in Int
  BY PhasesAssumption DEF TInv, PlugTypes, Settings, AgeInv
<1>3. \A d \in 1..NvsChunks : nvs'[d] = IF d = c THEN saves + 1 ELSE nvs[d]
  BY <1>1 DEF TInv, PlugTypes, Settings
<1>4. \A d \in 1..NvsChunks : nvs[d] <= nvs'[d] /\ nvs'[d] <= saves'
  BY <1>1, <1>2, <1>3
<1>5. ASSUME NEW u \in NvsStates, Older(u, nvs) PROVE Older(u, nvs')
  <2>1. Older(nvs, nvs')
    BY <1>4 DEF Older
  <2> QED
    BY <1>1, <1>5, <2>1, NvsTyped, OlderIs
<1>6. /\ \A u \in past' : Older(u, nvs')
      /\ Served => Older(server.nvs, nvs')
      /\ program # None => Older(program.nvs, nvs')
      /\ \A p \in ARMED_PHASES : closures[p] # None => Older(closures[p].nvs, nvs')
      /\ \A p \in PHASES : evidence[p] # None => Older(evidence[p].nvs, nvs')
  BY <1>1, <1>5, NvsTyped, OlderIs DEF AgeInv
<1> QED
  BY <1>1, <1>4, <1>6 DEF AgeInv, Older, Served

LEMMA NextAge == TInv /\ AgeInv /\ [Next]_vars => AgeInv'
<1> SUFFICES ASSUME TInv, AgeInv, [Next]_vars PROVE AgeInv'
  OBVIOUS
<1>1. CASE UNCHANGED vars
  BY <1>1, AgeFrame DEF vars, AgeInv, Served
<1>2. CASE PowerCut
  BY <1>2, PowerCutIs, AgeFrame DEF AgeInv, Served, ClosuresShrink
<1> QED
  BY <1>1, <1>2, HostAge, CommandAge, ProgramAge, SaveAge DEF Next, HostStep


-----------------------------------------------------------------------------
(* The two readings of a preflight. *)

(* While the program and the evidence stay, the two readings stay true if   *)
(* the server keeps what it has of this program.                           *)
LEMMA PreflightFrame ==
  ASSUME TInv, PreflightInv, UNCHANGED <<evidence, program>>,
         program # None /\ program.phase = "preflight" => nvs' \in past' /\ past \subseteq past',
         server'.up /\ program # None /\ server'.session = program.session => UNCHANGED server
  PROVE  PreflightInv'
<1> SUFFICES ASSUME program # None, program.phase = "preflight" PROVE PreflightInv'
  BY DEF PreflightInv
<1>1. \A v : Between(v) => Between(v)'
  BY DEF Between, Older
<1>2. nvs' \in past' /\ \A v \in past : v \in past'
  OBVIOUS
<1> QED
  BY <1>1, <1>2 DEF PreflightInv, Older

LEMMA HostPreflight == TInv /\ PreflightInv /\ HostStep => PreflightInv'
<1> SUFFICES ASSUME TInv, PreflightInv, HostStep PROVE PreflightInv'
  OBVIOUS
<1>1. ServerMoves /\ UNCHANGED <<evidence, program, nvs, past>>
  BY HostMoves
<1>2. ASSUME server'.up, program # None, server'.session = program.session PROVE UNCHANGED server
  <2>1. ~(Served /\ server' = Down)
    BY <1>2, DownIs DEF TInv
  <2>2. ~NewServer
    <3>1. program.session <= server.session /\ program.session \in Nat /\ server.session \in Nat
      BY <1>2 DEF TInv, OwnedInv, Owned, PlugTypes, ProgramRecs, HostTypes, NoServer, IsServer
    <3> QED
      BY <1>2, <3>1, NewIs DEF TInv
  <2> QED
    BY <1>1, <2>1, <2>2 DEF ServerMoves
<1>3. program # None /\ program.phase = "preflight" => nvs' \in past' /\ past \subseteq past'
  BY <1>1 DEF PreflightInv
<1> QED
  BY <1>1, <1>2, <1>3, PreflightFrame

LEMMA CommandPreflight == TInv /\ PreflightInv /\ Command => PreflightInv'
<1> SUFFICES ASSUME TInv, PreflightInv, Command, program' # None, program'.phase = "preflight"
             PROVE  PreflightInv'
  BY DEF PreflightInv
<1>1. CommandMoves /\ program = None /\ UNCHANGED nvs
  BY CommandIs
<1>2. program'.pc = "guards" /\ nvs \in past'
  BY <1>1 DEF CommandMoves, Loaded, TInv, PlugTypes, ARMED_PHASES
<1> QED
  BY <1>1, <1>2 DEF PreflightInv

LEMMA HashPreflight == TInv /\ AgeInv /\ PreflightInv /\ Hash => PreflightInv'
<1> SUFFICES ASSUME TInv, AgeInv, PreflightInv, Hash PROVE PreflightInv'
  OBVIOUS
<1> DEFINE c == program.i + 1
<1>1. /\ program # None /\ program.phase = "preflight" /\ program.pc = "hash" /\ program' # None
      /\ c \in 1..NvsChunks /\ program.i \in Nat /\ program.nvs \in NvsStates
      /\ UNCHANGED <<evidence, nvs, past, server>>
      /\ program'.nvs = [program.nvs EXCEPT ![c] = nvs[c]]
      /\ program'.session = program.session
      /\ \/ c = NvsChunks /\ program'.pc = "upload" /\ program'.i = 0
         \/ c < NvsChunks /\ program'.pc = "hash" /\ program'.i = c
  BY HashIs, NvsTyped DEF Quiet, Kept, ProgramRecs
<1>2. nvs \in past
  BY <1>1 DEF PreflightInv
<1>3. \A d \in 1..NvsChunks : program'.nvs[d] = IF d = c THEN nvs[c] ELSE program.nvs[d]
  BY <1>1 DEF NvsStates
<1>4. evidence["preflight"] # None =>
        \A d \in 1..c : evidence["preflight"].nvs[d] <= program'.nvs[d]
  <2> SUFFICES ASSUME evidence["preflight"] # None, NEW d \in 1..c
               PROVE  evidence["preflight"].nvs[d] <= program'.nvs[d]
    OBVIOUS
  <2>1. d \in 1..NvsChunks /\ (d = c \/ d \in 1..program.i)
    BY <1>1, PhasesAssumption
  <2>2. CASE d = c
    BY <1>3, <2>1, <2>2 DEF AgeInv, Older, PHASES
  <2>3. CASE d # c
    BY <1>1, <1>3, <2>1, <2>3 DEF PreflightInv
  <2> QED
    BY <2>2, <2>3
<1>5. Older(program'.nvs, nvs)
  <2>1. Older(program.nvs, nvs) /\ Older(nvs, nvs)
    BY <1>1, NvsTyped, OlderIs DEF AgeInv
  <2> QED
    BY <1>3, <2>1 DEF Older
<1>6. CASE c = NvsChunks /\ program'.pc = "upload" /\ program'.i = 0
  <2>1. evidence["preflight"] # None => Older(evidence["preflight"].nvs, program'.nvs)
    BY <1>4, <1>6 DEF Older
  <2>2. Between(nvs)'
    BY <1>1, <1>5, <1>6 DEF Between, Older
  <2> QED
    BY <1>1, <1>2, <1>6, <2>1, <2>2 DEF PreflightInv, Older
<1>7. CASE c < NvsChunks /\ program'.pc = "hash" /\ program'.i = c
  BY <1>1, <1>2, <1>4, <1>7 DEF PreflightInv
<1> QED
  BY <1>1, <1>6, <1>7

LEMMA UploadPreflight == TInv /\ AgeInv /\ PreflightInv /\ Upload => PreflightInv'
<1> SUFFICES ASSUME TInv, AgeInv, PreflightInv, Upload, program' # None PROVE PreflightInv'
  BY DEF PreflightInv
<1> DEFINE c == program.i + 1
<1>1. /\ program # None /\ program.phase = "preflight" /\ program.pc = "upload"
      /\ c \in 1..NvsChunks /\ program.i \in Nat /\ UNCHANGED <<evidence, nvs, past>>
      /\ program'.nvs = program.nvs /\ program'.i = c /\ program'.pc \in {"upload", "report"}
      /\ program'.session = program.session /\ program'.phase = program.phase
      /\ server.up /\ server'.session = server.session
      /\ DOMAIN server'.captures = DOMAIN server.captures \cup {c}
      /\ \A j \in DOMAIN server'.captures :
           server'.captures[j] = IF j = c THEN nvs[j] ELSE server.captures[j]
  BY UploadIs DEF Kept, ServerKept, ProgramRecs
<1>2. PICK v \in past : Between(v)
  BY <1>1 DEF PreflightInv
<1>3. Older(v, nvs)
  BY DEF AgeInv
<1>4. ASSUME server.session = program.session, NEW d \in 1..c
      PROVE  d \in DOMAIN server'.captures /\ v[d] <= server'.captures[d]
  <2>1. d \in 1..NvsChunks /\ (d = c \/ d \in 1..program.i)
    BY <1>1, PhasesAssumption
  <2>2. CASE d = c
    BY <1>1, <1>3, <2>1, <2>2 DEF Older
  <2>3. CASE d # c
    BY <1>1, <1>2, <1>4, <2>1, <2>3 DEF Between
  <2> QED
    BY <2>2, <2>3
<1>5. Between(v)'
  BY <1>1, <1>2, <1>4 DEF Between, Older
<1>6. nvs \in past /\ (evidence["preflight"] # None => Older(evidence["preflight"].nvs, program.nvs))
  BY <1>1 DEF PreflightInv
<1> QED
  BY <1>1, <1>5, <1>6 DEF PreflightInv, Older

LEMMA ProgramPreflight == TInv /\ AgeInv /\ PreflightInv /\ ProgramStep => PreflightInv'
<1> SUFFICES ASSUME TInv, AgeInv, PreflightInv, ProgramStep,
                    program' # None, program'.phase = "preflight"
             PROVE  PreflightInv'
  BY DEF PreflightInv
<1>1. program # None /\ program.phase = "preflight" /\ UNCHANGED <<nvs, past, evidence>>
  BY ProgramStepIs DEF Kept
<1>2. Guards \/ Hash \/ Upload
  BY <1>1, FetchIs, WriteIs, CaptureIs, VerifyIs, EraseIs, FetchTableIs, InstallIs, ReportIs
     DEF ProgramStep
<1>3. CASE Guards
  <2>1. program'.pc = "hash" /\ program'.i = 0 /\ nvs' \in past'
    BY <1>1, <1>3, GuardsIs DEF First, PreflightInv
  <2> QED
    BY <2>1 DEF PreflightInv
<1> QED
  BY <1>2, <1>3, HashPreflight, UploadPreflight

LEMMA NextPreflight == TInv /\ AgeInv /\ PreflightInv /\ [Next]_vars => PreflightInv'
<1> SUFFICES ASSUME TInv, AgeInv, PreflightInv, [Next]_vars PROVE PreflightInv'
  OBVIOUS
<1>1. CASE UNCHANGED vars
  <2>1. program # None /\ program.phase = "preflight" => nvs' \in past'
    BY <1>1 DEF vars, PreflightInv
  <2> QED
    BY <1>1, <2>1, PreflightFrame DEF vars
<1>2. ASSUME NEW c \in 1..NvsChunks, Save(c) PROVE PreflightInv'
  <2>1. program # None /\ program.phase = "preflight" => past # {}
    BY DEF PreflightInv
  <2> QED
    BY <1>2, <2>1, SaveIs, PreflightFrame
<1>3. CASE PowerCut
  BY <1>3, PowerCutIs DEF PreflightInv
<1> QED
  BY <1>1, <1>2, <1>3, HostPreflight, CommandPreflight, ProgramPreflight DEF Next, HostStep


-----------------------------------------------------------------------------
(* The chain of evidence. *)

(* While the evidence stays, a server that stays what it was started as and *)
(* a program that goes on have behind them what they had.                  *)
LEMMA ChainFrame ==
  ASSUME TInv, ChainInv, UNCHANGED evidence, ServerStays,
         \/ closures'["commit"] \in {None, closures["commit"]}
         \/ Backed(closures'["commit"]),
         program' # None /\ program'.phase = "commit" =>
           /\ Backed(program')
           /\ program'.pc \in {"table", "install"} => program'.nvs = evidence["preflight"].nvs
           /\ program'.pc = "install" => Chained
  PROVE  ChainInv'
<1>1. \A phases : Up(phases)' => Up(phases) /\ server'.nvs = server.nvs
                                      /\ server'.manifest = server.manifest
  BY DEF ServerStays, Up
<1>2. Chained' <=> Chained
  BY DEF Chained
<1>3. \A x : Backed(x)' <=> Backed(x)
  BY DEF Backed
<1>4. closures'["commit"] # None => Backed(closures'["commit"])
  BY DEF ChainInv
<1>5. closures'["commit"] # None => Backed(closures["commit"])'
  BY <1>4 DEF Backed
<1>6. program' # None /\ program'.phase = "commit" => Backed(program)'
  BY DEF Backed
<1> QED
  BY <1>1, <1>2, <1>5, <1>6 DEF ChainInv

LEMMA ChainKept ==
  ASSUME TInv, ChainInv, UNCHANGED <<evidence, program>>, ServerStays,
         closures'["commit"] \in {None, closures["commit"]}
  PROVE  ChainInv'
<1>1. program' # None /\ program'.phase = "commit" =>
        /\ Backed(program')
        /\ program'.pc \in {"table", "install"} => program'.nvs = evidence["preflight"].nvs
        /\ program'.pc = "install" => Chained
  BY DEF ChainInv
<1> QED
  BY <1>1, ChainFrame

LEMMA HostChain == TInv /\ ChainInv /\ HostStep => ChainInv'
<1> SUFFICES ASSUME TInv, ChainInv, HostStep PROVE ChainInv'
  OBVIOUS
<1>1. ServerMoves /\ UNCHANGED <<evidence, closures, program>>
  BY HostMoves
<1>2. CASE UNCHANGED server \/ (Served /\ server' = Down)
  BY <1>1, <1>2, ServerStaysIs, ChainKept
<1>3. CASE NewServer
  <2>1. /\ server'.manifest = manifest /\ Accepts(server'.phase)
        /\ server'.phase \in {"stage", "commit"} => server'.nvs = evidence["preflight"].nvs
    BY <1>3, NewIs DEF TInv
  <2>2. Up({"stage", "commit"})' =>
          /\ evidence["preflight"] # None
          /\ evidence["preflight"].manifest = server'.manifest
          /\ evidence["preflight"].nvs = server'.nvs
    BY <2>1 DEF Up, Accepts, PassedWith, Passed
  <2>3. Up({"commit"})' => Chained
    BY <2>1 DEF Up, Accepts, PassedWith, Passed, Chained
  <2> QED
    BY <1>1, <2>2, <2>3 DEF ChainInv, Chained, Backed
<1> QED
  BY <1>1, <1>2, <1>3 DEF ServerMoves

LEMMA CommandChain == TInv /\ ChainInv /\ Command => ChainInv'
<1> SUFFICES ASSUME TInv, ChainInv, Command PROVE ChainInv'
  OBVIOUS
<1>1. CommandMoves /\ program = None /\ UNCHANGED <<server, evidence>> /\ ServerStays
  BY CommandIs, ServerStaysIs
<1>2. server.up /\ server.phase = "commit" => Backed(Loaded)
  <2> SUFFICES ASSUME server.up, server.phase = "commit" PROVE Backed(Loaded)
    OBVIOUS
  <2>1. /\ evidence["preflight"].manifest = server.manifest
        /\ evidence["preflight"].nvs = server.nvs /\ Chained
    BY DEF ChainInv, Serving, Up
  <2>2. Served /\ Older(server.nvs, server.nvs)
    BY NvsTyped, OlderIs DEF TInv, HostTypes, NoServer
  <2> QED
    BY <2>1, <2>2 DEF Chained, Backed, Loaded
<1>3. \/ closures'["commit"] \in {None, closures["commit"]}
      \/ Backed(closures'["commit"])
  <2>1. CASE UNCHANGED closures
    BY <2>1
  <2>2. CASE server.phase \in ARMED_PHASES /\ server.up
             /\ closures' = [closures EXCEPT ![server.phase] = Loaded]
    BY <1>2, <2>2 DEF TInv, PlugTypes, ARMED_PHASES
  <2> QED
    BY <1>1, <2>1, <2>2 DEF CommandMoves
<1>4. program' # None => program'.pc = "guards"
  BY <1>1 DEF CommandMoves, Loaded, TInv, PlugTypes, Fresh
<1>5. program' # None /\ program'.phase = "commit" => Backed(program')
  <2> SUFFICES ASSUME program' # None, program'.phase = "commit" PROVE Backed(program')
    OBVIOUS
  <2>1. program' # Loaded \/ server.phase = "commit"
    BY DEF Loaded
  <2>2. PICK p \in ARMED_PHASES : closures[p] # None /\ program' = closures[p]
    BY <1>1, <2>1 DEF CommandMoves, ARMED_PHASES
  <2>3. p = "commit"
    BY <2>2 DEF TInv, PlugTypes
  <2> QED
    BY <2>2, <2>3 DEF ChainInv
<1> QED
  BY <1>1, <1>3, <1>4, <1>5, ChainFrame

(* The settings a commit finds are at least those of the last preflight,    *)
(* and those it was given are at most that: so they are the same.          *)
LEMMA GuardsChain == TInv /\ AgeInv /\ ChainInv /\ Guards => ChainInv'
<1> SUFFICES ASSUME TInv, AgeInv, ChainInv, Guards PROVE ChainInv'
  OBVIOUS
<1>1. /\ program \in ProgramRecs /\ program # None /\ Kept /\ ClosuresShrink /\ ServerStays
      /\ UNCHANGED evidence
      /\ program' # None => GuardsHold /\ program'.pc = First /\ program'.nvs = program.nvs
  BY GuardsIs, ProgramStepIs DEF ProgramStep, Quiet
<1>2. ASSUME program' # None, program'.phase = "commit"
      PROVE  /\ Backed(program') /\ program'.pc = "table"
             /\ program'.nvs = evidence["preflight"].nvs
  <2>1. program.phase = "commit" /\ Backed(program)
    BY <1>1, <1>2 DEF Kept, ChainInv
  <2>2. program.nvs = nvs /\ program'.pc = "table"
    BY <1>1, <1>2, <2>1 DEF GuardsHold, First
  <2>3. evidence["preflight"] # None /\ Older(program.nvs, evidence["preflight"].nvs)
    BY <2>1 DEF Backed
  <2>4. Older(evidence["preflight"].nvs, program.nvs)
    BY <2>2, <2>3 DEF AgeInv, PHASES
  <2>5. program.nvs = evidence["preflight"].nvs
    BY <1>1, <2>3, <2>4, NvsTyped, OlderIs DEF PHASES
  <2> QED
    BY <1>1, <1>2, <2>1, <2>2, <2>5 DEF Kept, Backed
<1>3. closures'["commit"] \in {None, closures["commit"]}
  BY <1>1 DEF ClosuresShrink, ARMED_PHASES
<1> QED
  BY <1>1, <1>2, <1>3, ChainFrame

LEMMA ReportChain == TInv /\ PreflightInv /\ ChainInv /\ Report => ChainInv'
<1> SUFFICES ASSUME TInv, PreflightInv, ChainInv, Report PROVE ChainInv'
  OBVIOUS
<1>1. /\ program \in ProgramRecs /\ program # None /\ program' = None /\ ServerStays
      /\ closures'["commit"] \in {None, closures["commit"]}
      /\ UNCHANGED evidence \/ ~server'.up
  BY ReportIs, ProgramStepIs DEF ProgramStep, ClosuresShrink, ARMED_PHASES
<1>2. CASE UNCHANGED evidence
  BY <1>1, <1>2, ChainFrame
<1>3. CASE ~UNCHANGED evidence
  <2>1. /\ \A p \in PHASES : p # program.phase => evidence'[p] = evidence[p]
        /\ evidence'[program.phase] \in EvidenceRecs
        /\ evidence'[program.phase].session = program.session
        /\ evidence'[program.phase].nvs = program.nvs
        /\ evidence'[program.phase].status = IF program.pc = "failed" THEN "FAIL" ELSE "PASS"
        /\ server.phase = program.phase /\ server.session = program.session /\ Served
        /\ program.pc = "report" \/ program.phase \in ARMED_PHASES
    BY <1>3, ReportIs, RecordedIs
  <2>2. \A p \in {"preflight", "stage"} : evidence'[p] # None => evidence'[p].status = "PASS"
    BY <2>1 DEF ChainInv, PHASES, ARMED_PHASES
  <2>3. ~server'.up
    BY <1>1, <1>3
  <2>4. closures'["commit"] # None => Backed(closures["commit"])'
    <3> DEFINE x == closures["commit"]
    <3> SUFFICES ASSUME closures'["commit"] # None PROVE Backed(x)'
      OBVIOUS
    <3>1. /\ x # None /\ closures'["commit"] = x /\ Backed(x) /\ x.phase = "commit"
          /\ x.session \in Nat /\ x.nvs \in NvsStates /\ x.session <= server.session
          /\ x.session = server.session => server.phase = "commit"
      BY <1>1 DEF ChainInv, TInv, OwnedInv, Owned, PlugTypes, ProgramRecs, ARMED_PHASES
    <3>2. /\ evidence["preflight"] # None /\ Older(x.nvs, evidence["preflight"].nvs)
          /\ evidence["stage"] # None
          /\ evidence["stage"].session < x.session => evidence["stage"].manifest = x.manifest
      BY <3>1 DEF Backed
    <3>3. evidence'["preflight"] # None /\ Older(x.nvs, evidence'["preflight"].nvs)
      <4>1. CASE program.phase = "preflight"
        <5>1. Older(evidence["preflight"].nvs, program.nvs)
          BY <1>1, <2>1, <3>2, <4>1 DEF PreflightInv, ARMED_PHASES
        <5>2. Older(x.nvs, program.nvs)
          BY <1>1, <3>1, <3>2, <5>1, NvsTyped, OlderIs DEF PHASES
        <5> QED
          BY <2>1, <4>1, <5>2, NotNone
      <4>2. CASE program.phase # "preflight"
        BY <2>1, <3>2, <4>2 DEF PHASES
      <4> QED
        BY <4>1, <4>2
    <3>4. evidence'["stage"] # None
          /\ (evidence'["stage"].session < x.session => evidence'["stage"].manifest = x.manifest)
      <4>1. CASE program.phase = "stage"
        <5>1. server.session \in Nat
          BY <2>1 DEF TInv, HostTypes, NoServer, Served, IsServer
        <5>2. ~(evidence'["stage"].session < x.session)
          BY <2>1, <3>1, <4>1, <5>1
        <5> QED
          BY <2>1, <4>1, <5>2, NotNone
      <4>2. CASE program.phase # "stage"
        BY <2>1, <3>2, <4>2 DEF PHASES
      <4> QED
        BY <4>1, <4>2
    <3> QED
      BY <3>1, <3>3, <3>4 DEF Backed, Older
  <2> QED
    BY <1>1, <2>2, <2>3, <2>4 DEF ChainInv, Serving, Up
<1> QED
  BY <1>2, <1>3

LEMMA ProgramChain == TInv /\ AgeInv /\ PreflightInv /\ ChainInv /\ ProgramStep => ChainInv'
<1> SUFFICES ASSUME TInv, AgeInv, PreflightInv, ChainInv, ProgramStep, ~Guards, ~Report
             PROVE  ChainInv'
  BY GuardsChain, ReportChain
<1>1. /\ program \in ProgramRecs /\ program # None /\ Kept /\ ServerStays /\ UNCHANGED evidence
      /\ closures'["commit"] \in {None, closures["commit"]}
      /\ program' # None => Hash \/ program'.nvs = program.nvs
  BY ProgramStepIs DEF ClosuresShrink, ARMED_PHASES
<1>2. ASSUME program' # None, program'.phase = "commit"
      PROVE  /\ Backed(program')
             /\ program'.pc \in {"table", "install"} => program'.nvs = evidence["preflight"].nvs
             /\ program'.pc = "install" => Chained
  <2>1. program.phase = "commit" /\ Backed(program)
    BY <1>1, <1>2 DEF Kept, ChainInv
  <2>2. FetchTable \/ Install
    BY <2>1, HashIs, UploadIs, FetchIs, WriteIs, CaptureIs, VerifyIs, EraseIs DEF ProgramStep
  <2>3. program'.nvs = program.nvs
    BY <1>1, <1>2, <2>1, HashIs
  <2>4. Backed(program')
    BY <1>1, <1>2, <2>1, <2>3 DEF Kept, Backed
  <2>5. CASE FetchTable
    <3>1. program.pc = "table" /\ program'.pc = "install" /\ Serving({"commit"})
      BY <1>2, <2>5, FetchTableIs
    <3> QED
      BY <2>1, <2>3, <2>4, <3>1, <1>1 DEF ChainInv, Serving
  <2>6. CASE Install
    BY <1>2, <2>4, <2>6, InstallIs
  <2> QED
    BY <2>2, <2>5, <2>6
<1> QED
  BY <1>1, <1>2, ChainFrame

LEMMA NextChain ==
  TInv /\ AgeInv /\ PreflightInv /\ ChainInv /\ [Next]_vars => ChainInv'
<1> SUFFICES ASSUME TInv, AgeInv, PreflightInv, ChainInv, [Next]_vars PROVE ChainInv'
  OBVIOUS
<1>1. CASE UNCHANGED vars
  BY <1>1, ServerStaysIs, ChainKept DEF vars
<1>2. ASSUME NEW c \in 1..NvsChunks, Save(c) PROVE ChainInv'
  BY <1>2, SaveIs, ServerStaysIs, ChainKept
<1>3. CASE PowerCut
  BY <1>3, PowerCutIs, ServerStaysIs, ChainFrame DEF ARMED_PHASES
<1> QED
  BY <1>1, <1>2, <1>3, HostChain, CommandChain, ProgramChain DEF Next, HostStep

-----------------------------------------------------------------------------
(* The invariant is one.                                                   *)
THEOREM InductiveInvariant == Spec => []IInv
<1>1. IInv /\ [Next]_vars => IInv'
  BY NextTypes, NextAge, NextPreflight, NextChain, NextPlug DEF IInv
<1> QED
  BY <1>1, InitIInv, PTL DEF Spec

(* A preflight on record is a state the settings really had while its       *)
(* program ran: the second reading is no older than the state v between     *)
(* the two, the first no newer, and the report was accepted because they    *)
(* are equal.                                                              *)
THEOREM SnapshotIsReal == Spec => PreflightSnapshot
<1> DEFINE Real == evidence["preflight"]' # evidence["preflight"] =>
                     evidence["preflight"]'.nvs \in past
<1>1. IInv /\ [Next]_vars => [Real]_vars
  <2> SUFFICES ASSUME IInv, Next, evidence'["preflight"] # evidence["preflight"]
               PROVE  evidence'["preflight"].nvs \in past
    OBVIOUS
  <2>1. Report /\ TInv /\ PreflightInv
    BY HostMoves, CommandIs, ProgramStepIs, SaveIs, PowerCutIs DEF Next, HostStep, IInv
  <2>2. program \in ProgramRecs /\ program # None /\ ReportFits(TheReport)
        /\ evidence' = Recorded(TheReport)
    BY <2>1, ReportIs
  <2>3. /\ program.phase = "preflight" /\ program.pc = "report"
        /\ server.up /\ server.session = program.session
        /\ evidence'["preflight"].nvs = program.nvs
    BY <2>1, <2>2, ReportIs, RecordedIs DEF PHASES, ARMED_PHASES
  <2>4. server.captures = program.nvs
    BY <2>2, <2>3 DEF ReportFits, Judged, TheReport
  <2>5. program.i = NvsChunks
    BY <2>1, <2>2, <2>3 DEF TInv, PlaceInv, PlaceOf
  <2>6. PICK v \in past : Between(v)
    BY <2>1, <2>2, <2>3 DEF PreflightInv
  <2>7. Older(v, program.nvs)
    BY <2>3, <2>4, <2>5, <2>6 DEF Between, Older
  <2>8. v = program.nvs
    BY <2>1, <2>2, <2>6, <2>7, NvsTyped, OlderIs DEF Between
  <2> QED
    BY <2>3, <2>6, <2>8
<1> QED
  BY <1>1, InductiveInvariant, PTL DEF Spec, PreflightSnapshot

(* The table is rewritten with the chain of evidence behind it.             *)
THEOREM CommitIsChained == Spec => CommitChain
<1> DEFINE Behind ==
      layout' # layout =>
        /\ RegionIs(program.manifest)
        /\ \A p \in {"preflight", "stage"} : Passed(p) /\ evidence[p].nvs = program.nvs
        /\ evidence["preflight"].manifest = evidence["stage"].manifest
        /\ evidence["stage"].session < program.session =>
             evidence["stage"].manifest = program.manifest
<1>1. IInv /\ [Next]_vars => [Behind]_vars
  <2> SUFFICES ASSUME IInv, Next, layout' # layout
               PROVE  /\ RegionIs(program.manifest)
                      /\ \A p \in {"preflight", "stage"} :
                           Passed(p) /\ evidence[p].nvs = program.nvs
                      /\ evidence["preflight"].manifest = evidence["stage"].manifest
                      /\ evidence["stage"].session < program.session =>
                           evidence["stage"].manifest = program.manifest
    OBVIOUS
  <2>1. Install /\ TInv /\ ChainInv /\ PlugInv
    BY HostMoves, CommandIs, GuardsIs, HashIs, UploadIs, FetchIs, WriteIs, CaptureIs, VerifyIs,
       EraseIs, FetchTableIs, ReportIs, SaveIs, PowerCutIs
       DEF Next, HostStep, ProgramStep, Quiet, IInv
  <2>2. program # None /\ program.phase = "commit" /\ program.pc = "install"
    BY <2>1, InstallIs
  <2>3. Backed(program) /\ Chained /\ program.nvs = evidence["preflight"].nvs
    BY <2>1, <2>2 DEF ChainInv
  <2>4. RegionIs(program.manifest)
    BY <2>1, <2>2 DEF PlugInv, PlugOf
  <2>5. \A p \in {"preflight", "stage"} : Passed(p) /\ evidence[p].nvs = program.nvs
    BY <2>1, <2>3 DEF ChainInv, Chained, Passed
  <2> QED
    BY <2>3, <2>4, <2>5 DEF Chained, Backed
<1> QED
  BY <1>1, InductiveInvariant, PTL DEF Spec, CommitChain

=============================================================================
