------------------------------- MODULE Bundle -------------------------------
(***************************************************************************)
(* The files of a migration and the processes that write and read them:    *)
(* tools/prepare_safeboot_migration.py fetches the official artifacts into *)
(* a directory, tools/prepare_recovery_safeboot_migration.py makes of them *)
(* a second one with a private recovery image, and                         *)
(* tools/serve_safeboot_migration.py starts a server on that for a phase.  *)
(*                                                                         *)
(* None of them locks anything.  A preparation can be killed between two   *)
(* files, and run while a server reads them one after the other; a server  *)
(* keeps what it has read and goes by the manifest it loaded first.        *)
(*                                                                         *)
(* The official artifacts are one file here, and so are the recovery image *)
(* and its validation report's subject: what tells them apart is whether   *)
(* they are the pinned ones, and of which build.                           *)
(***************************************************************************)
EXTENDS Integers, Sequences

CONSTANTS
  Builds,       \* recovery images the operator has built
  Captures,     \* settings a preflight may find
  MaxManifests, \* bound: recovery manifests written but to mend a bundle
  MaxServers,   \* bound: servers started
  MaxMishaps    \* bound: preparations killed, wrong files fetched, long waits

ASSUME BundleAssumption ==
  MaxManifests \in Nat /\ MaxServers \in Nat /\ MaxMishaps \in Nat

VARIABLES
  base,      \* the first directory: the artifacts, the manifest
  out,       \* the second: artifacts, recovery image, validation, manifest
  preparer,  \* which preparation runs, and how far it is
  server,    \* of a phase: what it has read
  evidence,  \* the report of each phase
  built,     \* history: the recovery image of every manifest written
  servers, mishaps

fileVars == <<base, out>>
serverVars == <<server, evidence, servers>>
vars == <<base, out, preparer, server, evidence, built, servers, mishaps>>

PHASES == {"preflight", "stage", "commit", "restore"}
NoFile == "none"
NoManifest == [id |-> 0, build |-> NoFile]
NoPreparer == [pc |-> "none", build |-> NoFile]
NoServer == [pc |-> "none", phase |-> "preflight", loaded |-> NoManifest, id |-> 0,
             image |-> NoFile, official |-> NoFile]
NoEvidence == [status |-> "none", id |-> 0, image |-> NoFile, nvs |-> NoFile, fresh |-> FALSE]

Official == {NoFile, "pinned", "other"}
Images == Builds \cup {NoFile}
Manifest == [id : Nat, build : Images]

TypeOK ==
  /\ base \in [files : Official, manifest : {NoFile, "whole", "torn"}]
  /\ out \in [official : Official, image : Images, validation : Images, manifest : Manifest]
  /\ preparer \in [pc : {"none", "fetch", "judge", "record",
                        "copy", "image", "validation", "manifest"}, build : Images]
  /\ server \in [pc : {"none", "files", "provenance", "identity", "image", "official",
                      "evidence", "up"},
                 phase : PHASES, loaded : Manifest, id : Nat, image : Images,
                 official : Official]
  /\ evidence \in [PHASES -> [status : {"none", "PASS", "FAIL"}, id : Nat, image : Images,
                             nvs : Captures \cup {NoFile}, fresh : BOOLEAN]]
  /\ built \in Seq(Builds) /\ servers \in 0..MaxServers /\ mishaps \in 0..MaxMishaps

Init ==
  /\ base = [files |-> NoFile, manifest |-> NoFile]
  /\ out = [official |-> NoFile, image |-> NoFile, validation |-> NoFile, manifest |-> NoManifest]
  /\ preparer = NoPreparer /\ server = NoServer
  /\ evidence = [p \in PHASES |-> NoEvidence]
  /\ built = <<>> /\ servers = 0 /\ mishaps = 0

(* What the manifest of the second directory says is what lies beside it.   *)
Valid ==
  /\ out.manifest.id # 0 /\ out.official = "pinned"
  /\ out.image = out.manifest.build /\ out.validation = out.manifest.build

Recorded(p) == evidence[p].status # "none"
Mishap == mishaps < MaxMishaps /\ mishaps' = mishaps + 1

-----------------------------------------------------------------------------
(* prepare_safeboot_migration: what is fetched lands in the directory       *)
(* before anything has looked at it; the manifest is written last, in place.*)

At(pc) == preparer.pc = pc
Then(pc) == preparer' = [preparer EXCEPT !.pc = pc]
Stop == preparer' = NoPreparer
Prepares == UNCHANGED <<serverVars>>

Prepare ==
  /\ At("none") /\ preparer' = [NoPreparer EXCEPT !.pc = "fetch"]
  /\ Prepares /\ UNCHANGED <<fileVars, built, mishaps>>

(* obtain *)
Fetch ==
  /\ At("fetch")
  /\ \/ base' = [base EXCEPT !.files = "pinned"] /\ UNCHANGED mishaps
     \/ base' = [base EXCEPT !.files = "other"] /\ Mishap
  /\ Then("judge") /\ Prepares /\ UNCHANGED <<out, built>>

(* The images, the factory image's payloads, require_pinned_artifacts.     *)
Judge ==
  /\ At("judge")
  /\ IF base.files = "pinned" THEN Then("record") ELSE Stop
  /\ Prepares /\ UNCHANGED <<fileVars, built, mishaps>>

Record ==
  /\ At("record")
  /\ \/ base' = [base EXCEPT !.manifest = "whole"] /\ UNCHANGED mishaps
     \/ base' = [base EXCEPT !.manifest = "torn"] /\ Mishap
  /\ Stop /\ Prepares /\ UNCHANGED <<out, built>>

(* Mutant: a bundle that is there has to be whole to be prepared again.     *)
PrepareRecoveryOver(build) ==
  /\ At("none") /\ base = [files |-> "pinned", manifest |-> "whole"]
  /\ IF Valid THEN Len(built) < MaxManifests ELSE out.manifest.id = 0
  /\ preparer' = [pc |-> "copy", build |-> build]
  /\ Prepares /\ UNCHANGED <<fileVars, built, mishaps>>

(* prepare_recovery_safeboot_migration: load_manifest, verify_manifest_files,*)
(* require_pinned_artifacts; each file is replaced whole, the manifest last. *)
PrepareRecovery(build) ==
  /\ At("none") /\ base = [files |-> "pinned", manifest |-> "whole"]
  /\ Valid => Len(built) < MaxManifests
  /\ preparer' = [pc |-> "copy", build |-> build]
  /\ Prepares /\ UNCHANGED <<fileVars, built, mishaps>>

(* The copies are made in place, and one can be cut short.                 *)
Copy ==
  /\ At("copy") /\ Prepares /\ UNCHANGED <<base, built>>
  /\ \/ out' = [out EXCEPT !.official = base.files] /\ Then("image") /\ UNCHANGED mishaps
     \/ out' = [out EXCEPT !.official = "other"] /\ Stop /\ Mishap

WriteImage ==
  /\ At("image") /\ out' = [out EXCEPT !.image = preparer.build]
  /\ Then("validation") /\ Prepares /\ UNCHANGED <<base, built, mishaps>>

WriteValidation ==
  /\ At("validation") /\ out' = [out EXCEPT !.validation = preparer.build]
  /\ Then("manifest") /\ Prepares /\ UNCHANGED <<base, built, mishaps>>

(* The time of its making is in every manifest: no two are alike.          *)
WriteManifest ==
  /\ At("manifest") /\ built' = Append(built, preparer.build)
  /\ out' = [out EXCEPT !.manifest = [id |-> Len(built) + 1, build |-> preparer.build]]
  /\ Stop /\ Prepares /\ UNCHANGED <<base, mishaps>>

Kill ==
  /\ ~At("none") /\ Mishap
  /\ Stop /\ Prepares /\ UNCHANGED <<fileVars, built>>

-----------------------------------------------------------------------------
(* serve_safeboot_migration: main loads the manifest and verifies every     *)
(* file; then MigrationState hashes the manifest that is on the disk by     *)
(* now, and reads again, against the loaded one, what it will serve.        *)

NextStep ==
  [files |-> "provenance", provenance |-> "identity", identity |-> "image",
   image |-> "official", official |-> "evidence", evidence |-> "up"]

Reading(pc) == server.pc = pc /\ UNCHANGED <<fileVars, preparer, built, mishaps>>
Keeps == UNCHANGED <<evidence, servers>>
Proceed(holds, next) ==
  server' = IF holds THEN [next EXCEPT !.pc = NextStep[server.pc]] ELSE NoServer

Serve(phase) ==
  /\ Reading("none") /\ servers < MaxServers /\ servers' = servers + 1
  /\ out.manifest.id # 0
  /\ server' = [NoServer EXCEPT !.pc = "files", !.phase = phase, !.loaded = out.manifest]
  /\ UNCHANGED evidence

(* verify_manifest_files: every file on the manifest's list.               *)
VerifyFiles ==
  /\ Reading("files") /\ Keeps
  /\ Proceed(out.official = "pinned" /\ out.image = server.loaded.build, server)

(* require_recovery_manifest *)
VerifyProvenance ==
  /\ Reading("provenance") /\ Keeps
  /\ Proceed(out.image = server.loaded.build /\ out.validation = server.loaded.build, server)

Identify ==
  /\ Reading("identity") /\ Keeps
  /\ Proceed(TRUE, [server EXCEPT !.id = out.manifest.id])

(* Mutant: what was verified a moment ago is read without another look.    *)
AsOnceVerified(file, wanted) == TRUE

(* artifact_bytes *)
AsLoaded(file, wanted) == file = wanted

ReadImage ==
  /\ Reading("image") /\ Keeps
  /\ Proceed(AsLoaded(out.image, server.loaded.build), [server EXCEPT !.image = out.image])

ReadFiles ==
  /\ Reading("official") /\ Keeps
  /\ Proceed(AsLoaded(out.official, "pinned"), [server EXCEPT !.official = out.official])

(* Mutant: evidence of any manifest will do.                               *)
FitsAny(p, id) == evidence[p].status = "PASS" /\ evidence[p].fresh

(* load_evidence, and the manifest it belongs to.                          *)
Fits(p, id) ==
  evidence[p].status = "PASS" /\ evidence[p].fresh /\ evidence[p].id = id

Admits(phase, id, image) ==
  /\ phase \in {"stage", "commit"} => Fits("preflight", id)
  /\ phase = "commit" =>
       /\ Fits("stage", id) /\ evidence["stage"].nvs = evidence["preflight"].nvs
       /\ evidence["stage"].image = image
  /\ phase = "restore" => Fits("commit", id) /\ evidence["commit"].image = image

Admit ==
  /\ Reading("evidence") /\ Keeps
  /\ Proceed(Admits(server.phase, server.id, server.image), server)

(* A phase ends with its report, or without one.                           *)
Finish ==
  /\ Reading("up") /\ server' = NoServer /\ UNCHANGED servers
  /\ \/ UNCHANGED evidence
     \/ \E status \in {"PASS", "FAIL"}, nvs \in Captures :
          /\ server.phase \in {"preflight", "stage"} => status = "PASS"
          /\ server.phase # "preflight" => nvs = evidence["preflight"].nvs
          /\ evidence' = [evidence EXCEPT ![server.phase] =
               [status |-> status, id |-> server.id, image |-> server.image,
                nvs |-> nvs, fresh |-> TRUE]]

(* Hours pass: what was recorded is too old to go by.                      *)
Age ==
  /\ Mishap
  /\ \E p \in PHASES : evidence[p].fresh
  /\ evidence' = [p \in PHASES |-> [evidence[p] EXCEPT !.fresh = FALSE]]
  /\ UNCHANGED <<fileVars, preparer, server, servers, built>>

-----------------------------------------------------------------------------
Preparing ==
  \/ Fetch \/ Judge \/ Record \/ Copy \/ WriteImage \/ WriteValidation \/ WriteManifest
Starting == VerifyFiles \/ VerifyProvenance \/ Identify \/ ReadImage \/ ReadFiles \/ Admit

Next ==
  \/ Prepare \/ (\E build \in Builds : PrepareRecovery(build)) \/ Preparing \/ Kill
  \/ (\E phase \in PHASES : Serve(phase)) \/ Starting \/ Finish \/ Age

(* A preparation that is not killed ends, and an operator whose bundle is   *)
(* refused goes on preparing it.                                           *)
Fairness ==
  /\ WF_vars(Preparing)
  /\ WF_vars(~Valid /\ Prepare)
  /\ SF_vars(~Valid /\ \E build \in Builds : PrepareRecovery(build))

Spec == Init /\ [][Next]_vars /\ Fairness

-----------------------------------------------------------------------------
(* A server that is up serves the pinned official artifacts and the image   *)
(* of the manifest it loaded, whatever was prepared while it started.      *)
ServedPinned ==
  server.pc = "up" => server.official = "pinned" /\ server.image = server.loaded.build

(* Records of the writing phases are of the image their manifest names,     *)
(* though the server takes the manifest's identity and reads the image at   *)
(* different moments.  A preflight's record may not be: two preparations    *)
(* can pass while its server starts.  For the others that is excluded by    *)
(* the earlier record of the same manifest they demand.                    *)
IdentityTruth ==
  \A p \in PHASES \ {"preflight"} :
    Recorded(p) => evidence[p].image = built[evidence[p].id]

(* A bundle in any state - cut short, mixed, of wrong files - is mended by  *)
(* preparing it again.                                                     *)
Mended == ~Valid ~> Valid

=============================================================================
