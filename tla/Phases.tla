------------------------------- MODULE Phases -------------------------------
(***************************************************************************)
(* The four phases of the migration as a conversation: the host's runner   *)
(* (tools/autoflash/phases.py) starts a one-phase server                   *)
(* (tools/serve_safeboot_migration.py), has the plug load that phase's     *)
(* Berry program (repartition/berry/*.be.tmpl) from it, and waits for the  *)
(* server to have judged what the program uploads and reports.             *)
(*                                                                         *)
(* The three end independently: a runner can be stopped and leave its      *)
(* server, a server can time out under a running program, a program that   *)
(* started under one server talks to whichever server has the port.        *)
(* Requests and answers get lost, and a command sent to a busy plug is     *)
(* carried out when the plug is free.                                      *)
(*                                                                         *)
(* The commit's flash operations are one step here (Commit has them all).  *)
(***************************************************************************)
EXTENDS Integers

CONSTANTS
  Manifests,   \* prepared migrations, each with its own recovery image
  Chunks,      \* chunks of an image; the last one ends inside its sector
  Imprinted,   \* the chunk that holds the imprinted Wi-Fi settings
  NvsChunks,   \* chunks of the settings region
  MaxServers,  \* bound: servers started
  MaxMishaps,  \* bound: losses, faults, stops and power cuts
  MaxSaves     \* bound: settings writes by the running firmware

ASSUME PhasesAssumption ==
  /\ Chunks \in Nat \ {0} /\ NvsChunks \in Nat \ {0}
  /\ Imprinted \in 0..(Chunks - 1)
  /\ MaxServers \in Nat /\ MaxMishaps \in Nat /\ MaxSaves \in Nat
  /\ Manifests # {}
  /\ "official" \notin Manifests  \* a recovery image that equals it is refused

VARIABLES
  manifest,  \* the one the operator uses
  server,    \* up?, its phase, session, manifest, settings and captures
  runner,    \* where PhaseRunner.run is
  evidence,  \* the judged report of each phase
  queued,    \* commands sent to the plug and not carried out yet
  closures,  \* s60_commit and s60_restore, as loaded
  program,   \* the program that runs
  layout,    \* the partition table
  region,    \* where Safeboot goes: the staging area, later the factory
             \* partition; its chunks, and what follows the image
  nvs,       \* the settings region, a version per chunk
  past,      \* history: what nvs has been while this program runs
  held,      \* session of the server a connection that never ends holds, or 0
  mishaps, saves

hostVars == <<manifest, server, runner, evidence>>
plugVars == <<closures, program, layout, region>>
restVars == <<nvs, past, saves, held>>
vars == <<manifest, server, runner, evidence, queued, closures, program, layout, region,
          nvs, past, held, mishaps, saves>>

PHASES == {"preflight", "stage", "commit", "restore"}
ARMED_PHASES == {"commit", "restore"}
Indices == 0..(Chunks - 1)
None == [session |-> 0]

(* Images prepared with other Wi-Fi settings differ in the imprinted chunk. *)
Part(image, i) ==
  <<IF image = "official" \/ i = Imprinted THEN image ELSE "recovery", i>>
Image(image) == [i \in Indices |-> Part(image, i)]
Unknown == <<"unknown", 0>>
Parts == {Part(m, i) : m \in Manifests \cup {"official"}, i \in Indices} \cup {Unknown}

NoNvs == [c \in 1..NvsChunks |-> 0 - 1]
NvsStates == [1..NvsChunks -> (0 - 1)..MaxSaves]
Sessions == 0..MaxServers

TypeOK ==
  /\ manifest \in Manifests
  /\ server.up \in BOOLEAN /\ server.session \in Sessions
  /\ server.session > 0 =>
       /\ server.phase \in PHASES /\ server.manifest \in Manifests
       /\ server.nvs \in NvsStates
       /\ \A i \in DOMAIN server.captures :
            IF server.phase = "preflight" THEN server.captures[i] \in 0..MaxSaves
                                          ELSE server.captures[i] \in Parts
  /\ runner \in {"none", "served", "gate", "waiting"}
  /\ \A p \in PHASES : evidence[p] = None \/
       /\ evidence[p].session \in Sessions /\ evidence[p].manifest \in Manifests
       /\ evidence[p].status \in {"PASS", "FAIL"} /\ evidence[p].nvs \in NvsStates
  /\ \A command \in queued :
       command.do \in {"load", "arm"} /\ command.phase \in PHASES
         /\ command.session \in Sessions
  /\ DOMAIN closures = ARMED_PHASES
  /\ program.session \in Sessions
  /\ layout \in {"source", "target"}
  /\ region.body \in [Indices -> Parts] /\ region.pad \in BOOLEAN /\ region.tail \in BOOLEAN
  /\ nvs \in NvsStates /\ past \subseteq NvsStates /\ held \in Sessions
  /\ mishaps \in 0..MaxMishaps /\ saves \in 0..MaxSaves

Init ==
  /\ manifest = (CHOOSE m \in Manifests : TRUE)
  /\ server = [up |-> FALSE, session |-> 0]
  /\ runner = "none"
  /\ evidence = [p \in PHASES |-> None]
  /\ queued = {} /\ closures = [p \in ARMED_PHASES |-> None]
  /\ program = None
  /\ layout = "source"
  /\ region = [body |-> [i \in Indices |-> Unknown], pad |-> FALSE, tail |-> FALSE]
  /\ nvs = [c \in 1..NvsChunks |-> 0] /\ past = {} /\ held = 0
  /\ mishaps = 0 /\ saves = 0

Mishap == mishaps < MaxMishaps /\ mishaps' = mishaps + 1

-----------------------------------------------------------------------------
(* The server: what it demands before it starts, and how it judges.        *)

Passed(phase) == evidence[phase] # None /\ evidence[phase].status = "PASS"
PassedWith(phase) == Passed(phase) /\ evidence[phase].manifest = manifest

(* Mutant: the commit does not ask for the stage's evidence.               *)
AcceptsUnstaged(phase) ==
  /\ phase \in {"stage", "commit"} => PassedWith("preflight")
  /\ phase = "restore" => PassedWith("commit")

(* MigrationState.__init__ *)
Accepts(phase) ==
  /\ phase \in {"stage", "commit"} => PassedWith("preflight")
  /\ phase = "commit" =>
       PassedWith("stage") /\ evidence["stage"].nvs = evidence["preflight"].nvs
  /\ phase = "restore" => PassedWith("commit")

Serve(phase) ==
  /\ runner = "none" /\ ~server.up /\ server.session < MaxServers
  /\ Accepts(phase)
  /\ server' = [up |-> TRUE, phase |-> phase, session |-> server.session + 1,
                manifest |-> manifest, captures |-> <<>>,
                nvs |-> IF phase \in {"stage", "commit"}
                          THEN evidence["preflight"].nvs ELSE NoNvs]
  /\ runner' = "served"
  /\ UNCHANGED <<manifest, evidence, queued, plugVars, restVars, mishaps>>

(* An earlier server still has the port.  What to load and how to arm it is *)
(* printed before the port is bound, so the plug is sent to load whatever   *)
(* that server has; the token it is armed with is no closure's.  Bound: no  *)
(* other command is on its way to the plug.                                *)
ServeTaken(phase) ==
  /\ runner = "none" /\ server.up /\ queued = {}
  /\ Accepts(phase)
  /\ queued' = {[do |-> "load", phase |-> phase, session |-> 0]}
  /\ UNCHANGED <<manifest, server, runner, evidence, plugVars, restVars, mishaps>>

Down == [server EXCEPT !.up = FALSE, !.captures = <<>>, !.nvs = NoNvs]

(* The server handles one connection at a time, and waits for it without a  *)
(* limit: while it does, it neither answers another nor looks at its clock. *)
Held == server.up /\ held = server.session
Up(phases) == server.up /\ server.phase \in phases
Serving(phases) == Up(phases) /\ ~Held

(* The plug has, or is about to open, a connection to the server.          *)
Connected ==
  \/ program # None /\ program.pc \in {"upload", "fetch", "capture", "table", "report", "failed"}
  \/ program = None /\ \E command \in queued : command.do = "load"

(* The plug is cut off in the middle of a request: nobody ever tells the    *)
(* server that this connection has ended.                                  *)
Hang ==
  /\ server.up /\ Connected /\ Mishap
  /\ held' = server.session
  /\ UNCHANGED <<hostVars, queued, plugVars, nvs, past, saves>>

(* main: the wait for a report is over; a mishap while the plug is at work  *)
(* for the runner.                                                         *)
Timeout ==
  /\ server.up /\ ~Held /\ server' = Down
  /\ \/ program = None /\ queued = {} /\ runner # "served" /\ UNCHANGED mishaps
     \/ runner = "none" /\ UNCHANGED mishaps
     \/ Mishap
  /\ UNCHANGED <<manifest, runner, evidence, queued, plugVars, restVars>>

(* safeboot_chunk: the chunk of whatever image this server's phase has.    *)
safeboot_chunk(i) ==
  Part(IF server.phase = "restore" THEN "official" ELSE server.manifest, i)

(* receive_capture: refused in another phase, and when the chunk is there   *)
(* with other bytes.                                                       *)
CaptureFits(phase, i, data) ==
  /\ Serving({phase})
  /\ i \in DOMAIN server.captures => server.captures[i] = data

Captured(i, data) ==
  [server EXCEPT !.captures =
     [j \in DOMAIN server.captures \cup {i} |-> IF j = i THEN data ELSE server.captures[j]]]

(* Mutants: the report's hash of the settings is not compared with what     *)
(* was uploaded, or a report of the commit is a PASS whatever it says.      *)
JudgedUncompared(report) ==
  CASE report.phase = "preflight" -> DOMAIN server.captures = 1..NvsChunks
    [] report.phase = "stage" ->
         server.captures = Image(server.manifest) /\ report.nvs = server.nvs
    [] report.phase = "commit" -> TRUE
    [] report.phase = "restore" ->
         report.status = "PASS" => server.captures = Image("official")
StatusIgnored(report) == "PASS"

(* _finish_preflight, _finish_stage, _finish_commit, _finish_restore       *)
Judged(report) ==
  CASE report.phase = "preflight" -> server.captures = report.nvs
    [] report.phase = "stage" ->
         server.captures = Image(server.manifest) /\ report.nvs = server.nvs
    [] report.phase = "commit" -> TRUE
    [] report.phase = "restore" ->
         report.status = "PASS" => server.captures = Image("official")
StatusOf(report) == report.status

(* receive_report *)
ReportFits(report) ==
  /\ Serving({report.phase}) /\ report.session = server.session
  /\ Judged(report)

Recorded(report) ==
  [evidence EXCEPT ![report.phase] =
     [session |-> report.session, manifest |-> server.manifest,
      status |-> StatusOf(report), nvs |-> report.nvs]]

-----------------------------------------------------------------------------
(* The runner. *)

Fire ==
  /\ runner = "served"
  /\ runner' = IF server.phase \in ARMED_PHASES THEN "gate" ELSE "waiting"
  /\ \/ queued' = queued \cup {[do |-> "load", phase |-> server.phase, session |-> 0]}
        /\ UNCHANGED mishaps
     \/ Mishap /\ UNCHANGED queued
  /\ UNCHANGED <<manifest, server, evidence, plugVars, restVars>>

(* The operator confirms: the closure is called with this session's token.  *)
Confirm ==
  /\ runner = "gate"
  /\ runner' = "waiting"
  /\ \/ queued' = queued \cup
                    {[do |-> "arm", phase |-> server.phase, session |-> server.session]}
        /\ UNCHANGED mishaps
     \/ Mishap /\ UNCHANGED queued
  /\ UNCHANGED <<manifest, server, evidence, plugVars, restVars>>

Return ==
  /\ runner = "waiting" /\ ~server.up
  /\ runner' = "none"
  /\ UNCHANGED <<manifest, server, evidence, queued, plugVars, restVars, mishaps>>

(* process.wait(timeout=exec_timeout): a server that is held outlasts its   *)
(* own clock, and the runner ends it.                                      *)
GiveUp ==
  /\ runner = "waiting" /\ Held
  /\ runner' = "none" /\ server' = Down /\ held' = 0
  /\ UNCHANGED <<manifest, evidence, queued, plugVars, nvs, past, saves, mishaps>>

(* Declined, interrupted, or broken by an exception nothing catches: only   *)
(* the last leaves the server behind.                                      *)
Abandon ==
  /\ runner # "none" /\ Mishap
  /\ runner' = "none"
  /\ server' \in {server, Down}
  /\ UNCHANGED <<manifest, evidence, queued, plugVars, restVars>>

(* Between two runs the operator prepares another migration.               *)
Prepare ==
  /\ runner = "none"
  /\ manifest' \in Manifests \ {manifest}
  /\ UNCHANGED <<server, runner, evidence, queued, plugVars, restVars, mishaps>>

-----------------------------------------------------------------------------
(* The plug carries out a command when no program runs.                    *)

Idle == program = None

Start(p) == program' = p /\ past' = IF p.phase = "preflight" THEN {nvs} ELSE {}

Load(command) ==
  /\ Idle /\ command \in queued /\ command.do = "load"
  /\ queued' = queued \ {command}
  /\ IF ~Serving({command.phase}) THEN UNCHANGED <<program, closures, past>>
     ELSE LET new == [phase |-> server.phase, session |-> server.session,
                      manifest |-> server.manifest, nvs |-> server.nvs,
                      pc |-> "guards", i |-> 0, data |-> Unknown]
          IN IF server.phase \in ARMED_PHASES
               THEN /\ closures' = [closures EXCEPT ![server.phase] = new]
                    /\ UNCHANGED <<program, past>>
               ELSE Start(new) /\ UNCHANGED closures
  /\ UNCHANGED <<hostVars, layout, region, nvs, saves, held, mishaps>>

Arm(command) ==
  /\ Idle /\ command \in queued /\ command.do = "arm"
  /\ queued' = queued \ {command}
  /\ IF closures[command.phase].session = command.session
       THEN Start(closures[command.phase]) ELSE UNCHANGED <<program, past>>
  /\ UNCHANGED <<hostVars, closures, layout, region, nvs, saves, held, mishaps>>

At(phases, pc) == program # None /\ program.phase \in phases /\ program.pc = pc
Goto(pc) == program' = [program EXCEPT !.pc = pc]
Ended == program' = None

(* An exception: restore has begun to write and reports it, the others end. *)
Raise ==
  IF program.phase = "restore" /\ program.pc # "guards" THEN Goto("failed")
                                                       ELSE Ended

ImageThere(image) == region.body = Image(image)

GuardsHold ==
  CASE program.phase = "preflight" -> layout = "source"
    [] program.phase = "stage" -> layout = "source" /\ nvs = program.nvs
    [] program.phase = "commit" ->
         /\ layout = "source" /\ nvs = program.nvs
         /\ ImageThere(program.manifest) /\ region.pad
    [] program.phase = "restore" -> layout = "target" /\ ImageThere(program.manifest)

First ==
  CASE program.phase = "preflight" -> "hash" [] program.phase = "commit" -> "table"
    [] OTHER -> "fetch"

Guards ==
  /\ At(PHASES, "guards")
  /\ IF GuardsHold THEN Goto(First) ELSE Ended
  /\ closures' = IF GuardsHold /\ program.phase = "restore"
                   THEN [closures EXCEPT !["restore"] = None] ELSE closures
  /\ UNCHANGED <<hostVars, queued, layout, region, restVars, mishaps>>

(* preflight: hash the settings chunk by chunk, then upload them the same   *)
(* way; the firmware may save settings in between.                         *)
Hash ==
  /\ At({"preflight"}, "hash")
  /\ LET c == program.i + 1 IN
       program' = [program EXCEPT !.nvs[c] = nvs[c], !.i = IF c = NvsChunks THEN 0 ELSE c,
                                  !.pc = IF c = NvsChunks THEN "upload" ELSE "hash"]
  /\ UNCHANGED <<hostVars, queued, closures, layout, region, restVars, mishaps>>

(* What a request can come to: answered; lost on its way or refused; or     *)
(* carried out with the answer lost.                                       *)
Request(fits, carriedOut, unchanged, answered) ==
  \/ fits /\ carriedOut /\ answered /\ UNCHANGED mishaps
  \/ ~fits /\ unchanged /\ Raise /\ UNCHANGED mishaps
  \/ fits /\ (carriedOut \/ unchanged) /\ Raise /\ Mishap

(* Mutant: the same chunk for ever.                                        *)
AdvanceNot(more, pc, done) ==
  program' = [program EXCEPT !.data = Unknown,
                             !.pc = IF program.i + 1 < more THEN pc ELSE done]

Advance(more, pc, done) ==
  program' = [program EXCEPT !.i = @ + 1, !.data = Unknown,
                             !.pc = IF program.i + 1 < more THEN pc ELSE done]

Upload ==
  /\ At({"preflight"}, "upload")
  /\ LET c == program.i + 1 IN
       Request(CaptureFits("preflight", c, nvs[c]), server' = Captured(c, nvs[c]),
               UNCHANGED server, Advance(NvsChunks, "upload", "report"))
  /\ UNCHANGED <<manifest, runner, evidence, queued, closures, layout, region, restVars>>

(* stage and restore: fetch a chunk, write and read it back, upload it.    *)
Fetch ==
  /\ At({"stage", "restore"}, "fetch")
  /\ Request(Serving({"stage", "restore"}), TRUE, TRUE,
             program' = [program EXCEPT !.pc = "write", !.data = safeboot_chunk(program.i)])
  /\ UNCHANGED <<hostVars, queued, closures, layout, region, restVars>>

(* The last chunk ends inside its sector, which is erased first; a failed   *)
(* erase does not show when only the chunk is read back.                   *)
Write ==
  /\ At({"stage", "restore"}, "write")
  /\ LET written == [region EXCEPT !.body[program.i] = program.data,
                                   !.pad = IF program.i = Chunks - 1 THEN TRUE ELSE @] IN
       \/ region' = written /\ Goto("capture") /\ UNCHANGED mishaps
       \/ region' = [region EXCEPT !.body[program.i] = Unknown] /\ Raise /\ Mishap
       \/ /\ program.i = Chunks - 1 /\ Mishap
          /\ region' = [written EXCEPT !.pad = FALSE] /\ Goto("capture")
  /\ UNCHANGED <<hostVars, queued, closures, layout, restVars>>

(* Mutant: one chunk too many.                                             *)
CaptureTooFar ==
  /\ At({"stage", "restore"}, "capture")
  /\ Request(CaptureFits(program.phase, program.i, program.data),
             server' = Captured(program.i, program.data), UNCHANGED server,
             Advance(Chunks + 1, "fetch", "verify"))
  /\ UNCHANGED <<manifest, runner, evidence, queued, closures, layout, region, restVars>>

Capture ==
  /\ At({"stage", "restore"}, "capture")
  /\ Request(CaptureFits(program.phase, program.i, program.data),
             server' = Captured(program.i, program.data), UNCHANGED server,
             Advance(Chunks, "fetch", "verify"))
  /\ UNCHANGED <<manifest, runner, evidence, queued, closures, layout, region, restVars>>

(* Mutant: the padding of the staged image is not looked at.               *)
VerifiedBody ==
  \/ program.phase = "stage" /\ ImageThere(program.manifest) /\ nvs = program.nvs
  \/ program.phase = "restore" /\ ImageThere("official") /\ region.pad

Verified ==
  \/ /\ program.phase = "stage"
     /\ ImageThere(program.manifest) /\ region.pad /\ nvs = program.nvs
  \/ program.phase = "restore" /\ ImageThere("official") /\ region.pad

(* The whole image and its padding are hashed again.                       *)
Verify ==
  /\ At({"stage", "restore"}, "verify")
  /\ IF ~Verified THEN Raise
     ELSE Goto(IF program.phase = "restore" THEN "erase" ELSE "report")
  /\ UNCHANGED <<hostVars, queued, closures, layout, region, restVars, mishaps>>

(* restore: the rest of the partition is erased, and hashed.               *)
Erase ==
  /\ At({"restore"}, "erase")
  /\ \/ region' = [region EXCEPT !.tail = TRUE] /\ Goto("report") /\ UNCHANGED mishaps
     \/ UNCHANGED region /\ Raise /\ Mishap
  /\ UNCHANGED <<hostVars, queued, closures, layout, restVars>>

(* commit: from here on no server is needed.                               *)
FetchTable ==
  /\ At({"commit"}, "table")
  /\ Request(Serving({"commit"}), TRUE, TRUE, Goto("install"))
  /\ closures' = IF program' = None THEN closures ELSE [closures EXCEPT !["commit"] = None]
  /\ UNCHANGED <<hostVars, queued, layout, region, restVars>>

(* Installed, or rolled back with the staged copy perhaps overwritten.     *)
Install ==
  /\ At({"commit"}, "install")
  /\ \/ layout' = "target" /\ UNCHANGED region
        /\ Goto("report") /\ UNCHANGED mishaps
     \/ /\ Mishap /\ UNCHANGED layout
        /\ region' \in {region, [region EXCEPT !.body[0] = Unknown]}
        /\ Goto("failed")
  /\ UNCHANGED <<hostVars, queued, closures, restVars>>

Reporting == At(PHASES, "report") \/ At(ARMED_PHASES, "failed")
TheReport ==
  [phase |-> program.phase, session |-> program.session, nvs |-> program.nvs,
   status |-> IF program.pc = "failed" THEN "FAIL" ELSE "PASS"]

(* The server judges the report, records it and ends; an exception of the   *)
(* armed programs' report is swallowed.  A plug that has committed restarts. *)
Delivered ==
  /\ ReportFits(TheReport)
  /\ evidence' = Recorded(TheReport) /\ server' = Down
NotDelivered == UNCHANGED <<evidence, server>>

Restarts == queued' = {} /\ closures' = [p \in ARMED_PHASES |-> None]

Report ==
  /\ Reporting /\ Ended
  /\ \/ Delivered /\ UNCHANGED mishaps
     \/ ~ReportFits(TheReport) /\ NotDelivered /\ UNCHANGED mishaps
     \/ ReportFits(TheReport) /\ Mishap /\ (Delivered \/ NotDelivered)
  /\ IF program.phase = "commit" /\ program.pc = "report"
       THEN Restarts ELSE UNCHANGED <<queued, closures>>
  /\ UNCHANGED <<manifest, runner, layout, region, restVars>>

(* The running firmware writes its settings; every write changes the log.  *)
Save(c) ==
  /\ layout = "source" /\ saves < MaxSaves /\ saves' = saves + 1
  /\ nvs' = [nvs EXCEPT ![c] = saves']
  /\ past' = IF past = {} THEN past ELSE past \cup {nvs'}
  /\ UNCHANGED <<hostVars, queued, plugVars, held, mishaps>>

(* Power is lost (not during the commit's installation, see Commit).       *)
PowerCut ==
  /\ Mishap /\ ~At({"commit"}, "install")
  /\ region' \in {region} \cup (IF At({"stage", "restore"}, "write")
                                  THEN {[region EXCEPT !.body[program.i] = Unknown]} ELSE {})
  /\ program' = None /\ Restarts
  /\ UNCHANGED <<hostVars, layout, restVars>>

-----------------------------------------------------------------------------
ProgramStep ==
  Guards \/ Hash \/ Upload \/ Fetch \/ Write \/ Capture \/ Verify \/ Erase
    \/ FetchTable \/ Install \/ Report

Command == \E command \in queued : Load(command) \/ Arm(command)

Next ==
  \/ \E phase \in PHASES : Serve(phase) \/ ServeTaken(phase)
  \/ Hang \/ Timeout \/ Fire \/ Confirm \/ Return \/ GiveUp \/ Abandon \/ Prepare
  \/ Command
  \/ ProgramStep
  \/ \E c \in 1..NvsChunks : Save(c)
  \/ PowerCut

(* The plug carries out its commands and goes on with its program, the      *)
(* server's clock runs unless a connection holds it, the runner's runs      *)
(* always, and the operator answers the runner.                            *)
Spec ==
  /\ Init /\ [][Next]_vars
  /\ WF_vars(Command) /\ WF_vars(ProgramStep) /\ WF_vars(Timeout)
  /\ WF_vars(Fire \/ Confirm \/ Return \/ GiveUp)

-----------------------------------------------------------------------------
(* Properties. *)

RegionIs(image) == ImageThere(image) /\ region.pad

(* What preflight records as the plug's settings is one state the settings  *)
(* really had while the program ran, not a mixture of two, although they    *)
(* are read in pieces while the firmware may write them: they are read      *)
(* twice and the two readings must agree.                                  *)
PreflightSnapshot ==
  [][evidence["preflight"]' # evidence["preflight"] =>
       evidence["preflight"]'.nvs \in past]_vars

(* When the stage is recorded as passed the whole image of its manifest is  *)
(* in the staging area with erased padding, whatever other program or       *)
(* server has been at work before.                                         *)
StageTruth ==
  [][evidence["stage"]' # evidence["stage"] =>
       RegionIs(evidence["stage"]'.manifest)]_vars

(* The table is rewritten only with the chain of evidence behind it: the    *)
(* commit's own image is in place, a preflight and a stage of one migration *)
(* have passed and saw the settings the commit found.  It is the commit's   *)
(* own migration, unless a stage has passed after the commit was served: a  *)
(* commit that was armed late finds the evidence of what was done since.    *)
CommitChain ==
  [][layout' # layout =>
       /\ RegionIs(program.manifest)
       /\ \A p \in {"preflight", "stage"} : Passed(p) /\ evidence[p].nvs = program.nvs
       /\ evidence["preflight"].manifest = evidence["stage"].manifest
       /\ evidence["stage"].session < program.session =>
            evidence["stage"].manifest = program.manifest]_vars

(* A commit recorded as passed has left the target table, and a restore     *)
(* recorded as passed the official image, in place to the last byte of the  *)
(* partition.                                                              *)
EvidenceTruth ==
  /\ Passed("commit") => layout = "target"
  /\ Passed("restore") => RegionIs("official") /\ region.tail

(* Nothing waits for ever: a program and a runner all end, and so does a    *)
(* server, but for one that its runner has left behind and that is held by  *)
(* a connection nobody closes.                                             *)
AllEnd ==
  /\ program # None ~> program = None
  /\ server.up ~> ~server.up \/ (Held /\ runner = "none")
  /\ runner # "none" ~> runner = "none"

=============================================================================
