-------------------------- MODULE CandidateBundle --------------------------
(***************************************************************************)
(* The template and dependency candidate of AICO-004: the build            *)
(* (build-aico-004-candidate.mjs with aico-004-image-builder.mjs), the     *)
(* validator (validate-aico-004-architecture.mjs) and the candidate        *)
(* verification (verify-aico-004-candidate.mjs), which work on one         *)
(* directory of files while somebody may edit the sources, and which may   *)
(* be killed between any two writes.  Nothing keeps a verification from    *)
(* running beside a build, nor two builds from running beside each other:  *)
(* the former is modelled, the latter is not.                              *)
(*                                                                         *)
(* The content of a file is a version; a derived file is a record of what  *)
(* it was made from, and a digest is the content it is the digest of.      *)
(* Layouts, wording and the fixed inventory of the design manifest are     *)
(* left out: what is written there is the same in every build.             *)
(***************************************************************************)
EXTENDS Naturals, FiniteSets

CONSTANTS
  Version,     \* contents a source file may have
  MaxEdits,    \* bound: edits of the sources
  MaxFaults    \* bound: failures and kills of builds

(* What stands for a file, a decision or an installation that is not there *)
(* is no content.                                                          *)
Absent == [absent |-> TRUE]

ASSUME BundleConstants ==
  Version # {} /\ Absent \notin Version /\ MaxEdits \in Nat /\ MaxFaults \in Nat

VARIABLES
  template,   \* template-v1: the content of each file, package-lock.json among them
  recipe,     \* dependency-image/Dockerfile
  lacking,    \* parts kept by hand that lack something the validator requires
  installed,  \* template-v1/node_modules: the lock it was installed from
  texts,      \* licenses/: the lock whose licence texts are there
  licenses, sbom, files, archive, metadata, provenance, design, manifest,
  adr,        \* status of ADR-009, with both evidence fields
  build,      \* the build: its step and what it holds in memory
  check,      \* the candidate verification: step, digest expected, and whether it is good:
              \* its images have that digest so far, no source was edited and no build ran
  verified,   \* history: the verification passed and nothing was touched since
  disturbed,  \* history: a source was edited, or packages installed, while the build ran
  frozen,     \* history: the artifacts the owners accepted
  residue,    \* temporary directories, in use or left behind
  edits, faults

sources == <<template, recipe, lacking>>
outputs == <<texts, licenses, sbom, files, archive, metadata, provenance, design, manifest>>
history == <<verified, disturbed, frozen>>
vars    == <<sources, installed, outputs, adr, build, check, history, residue, edits, faults>>

TemplateFile == {"package-lock.json", "page", "extra"}
Lock == template["package-lock.json"]

(* External: the image is a function of recipe and template archive        *)
(* (.dockerignore keeps everything else out of the context).               *)
Image(r, a) == [recipe |-> r, archive |-> a]

(* What no build writes: ADR, contract, plans and audit; the JSON schema;  *)
(* the rows of the architecture manifest that are updated by hand.         *)
Part == {"prose", "schema", "rows"}

Idle == [step |-> "idle"]

(* Files once built by an undisturbed run, proposed and not yet accepted.  *)
Built(v) ==
  LET ls   == [lock |-> v, texts |-> v]
      tree == [f \in {"package-lock.json", "page"} |-> v]
      img  == Image(v, tree)
      arts == [archive |-> tree, lock |-> v, sbom |-> v, licenses |-> ls, image |-> img]
      dd   == [status |-> "PROPOSED", artifacts |-> arts]
  IN  [licenses |-> ls, tree |-> tree, image |-> img, design |-> dd,
       provenance |-> [image |-> img, recipe |-> v, inputs |-> arts],
       manifest |-> [status |-> "PROPOSED", artifacts |-> arts, design |-> dd]]

Init ==
  \E v \in Version :
    /\ template = [f \in TemplateFile |-> IF f = "extra" THEN Absent ELSE v]
    /\ recipe = v /\ lacking = {} /\ installed = Absent
    /\ texts = v /\ licenses = Built(v).licenses /\ sbom = v
    /\ files = Built(v).tree /\ archive = Built(v).tree
    /\ metadata = Built(v).image /\ provenance = Built(v).provenance
    /\ design = Built(v).design /\ manifest = Built(v).manifest
    /\ adr = "Proposed"
    /\ build = Idle /\ check = Idle
    /\ verified = FALSE /\ disturbed = FALSE /\ frozen = Absent
    /\ residue = {} /\ edits = 0 /\ faults = 0
-----------------------------------------------------------------------------
Overtaken(c) == IF c = Idle THEN c ELSE [c EXCEPT !.good = FALSE]

(* The sources are edited by hand, at any time, to another content.        *)
Touch ==
  /\ edits < MaxEdits
  /\ edits' = edits + 1
  /\ disturbed' = (disturbed \/ build # Idle)
  /\ verified' = FALSE /\ check' = Overtaken(check)
  /\ UNCHANGED <<installed, outputs, adr, build, frozen, residue, faults>>

EditTemplate(f, v) ==
  /\ Touch /\ v # template[f]
  /\ template' = [template EXCEPT ![f] = v]
  /\ UNCHANGED <<recipe, lacking>>

EditRecipe(v) ==
  /\ Touch /\ v # recipe
  /\ recipe' = v
  /\ UNCHANGED <<template, lacking>>

EditPart(p) ==
  /\ Touch
  /\ lacking' = IF p \in lacking THEN lacking \ {p} ELSE lacking \cup {p}
  /\ UNCHANGED <<template, recipe>>
-----------------------------------------------------------------------------
(* Mutant of BeginBuild: what a killed build left stops the next one.      *)
BeginBuildLocked ==
  /\ build = Idle /\ "leftover" \notin residue
  /\ build' = [step |-> "clear", lock |-> Lock]
  /\ residue' = residue \cup {"temporary"}
  /\ disturbed' = FALSE /\ verified' = FALSE /\ check' = Overtaken(check)
  /\ UNCHANGED <<sources, installed, outputs, adr, frozen, edits, faults>>

(* The build reads the lock once, before anything else.  There is no lock: *)
(* a verification may be under way.                                        *)
BeginBuild ==
  /\ build = Idle
  /\ build' = [step |-> "clear", lock |-> Lock]
  /\ residue' = residue \cup {"temporary"}
  /\ disturbed' = FALSE /\ verified' = FALSE /\ check' = Overtaken(check)
  /\ UNCHANGED <<sources, installed, outputs, adr, frozen, edits, faults>>

Advance(step) ==
  /\ build' = [build EXCEPT !.step = step]
  /\ UNCHANGED <<sources, installed, adr, check, history, edits, faults>>

ClearLicenses ==
  /\ build.step = "clear"
  /\ texts' = Absent
  /\ Advance("texts")
  /\ UNCHANGED <<licenses, sbom, files, archive, metadata, provenance, design, manifest, residue>>

(* The text of a licence is that of the installed package, if there is     *)
(* one; only a downloaded archive is compared with the integrity of the    *)
(* lock.  A verification that is installing takes packages away and puts   *)
(* those of the lock as it is now.                                         *)
TextsFor(lock) ==
  {IF installed = Absent THEN lock ELSE installed}
    \cup IF check.step = "install" THEN {lock, Lock} ELSE {}

WriteTexts ==
  /\ build.step = "texts"
  /\ texts' \in TextsFor(build.lock)
  /\ Advance("licenses")
  /\ UNCHANGED <<licenses, sbom, files, archive, metadata, provenance, design, manifest, residue>>

WriteLicenses ==
  /\ build.step = "licenses"
  /\ licenses' = [lock |-> build.lock, texts |-> texts]
  /\ Advance("sbom")
  /\ UNCHANGED <<texts, sbom, files, archive, metadata, provenance, design, manifest, residue>>

WriteSbom ==
  /\ build.step = "sbom"
  /\ sbom' = build.lock
  /\ Advance("files")
  /\ UNCHANGED <<texts, licenses, files, archive, metadata, provenance, design, manifest, residue>>

Present == {f \in TemplateFile : template[f] # Absent}

(* The template is walked once; the list serves the archive too.           *)
WriteFiles ==
  /\ build.step = "files"
  /\ files' = [f \in Present |-> template[f]]
  /\ Advance("archive")
  /\ UNCHANGED <<texts, licenses, sbom, archive, metadata, provenance, design, manifest, residue>>

(* Every listed file is read a second time; one that is gone throws.       *)
WriteArchive ==
  /\ build.step = "archive" /\ DOMAIN files \subseteq Present
  /\ archive' = [f \in DOMAIN files |-> template[f]]
  /\ Advance("image")
  /\ UNCHANGED <<texts, licenses, sbom, files, metadata, provenance, design, manifest, residue>>

(* buildPinnedDependencyImage.  Its builder is removed at the end; if that *)
(* fails there is a warning, and nothing asks for the builder again.       *)
BuildImage ==
  /\ build.step = "image"
  /\ build' = [step |-> "metadata", lock |-> build.lock, image |-> Image(recipe, archive)]
  /\ UNCHANGED <<sources, installed, outputs, adr, check, history, residue, edits, faults>>

WriteMetadata ==
  /\ build.step = "metadata"
  /\ metadata' = build.image
  /\ Advance("provenance")
  /\ UNCHANGED <<texts, licenses, sbom, files, archive, provenance, design, manifest, residue>>

(* The digests bound by what follows: the lock as it was read at the       *)
(* start, the other files as they are read back.                           *)
Artifacts ==
  [archive |-> archive, lock |-> build.lock, sbom |-> sbom, licenses |-> licenses,
   image |-> build.image]

WriteProvenance ==
  /\ build.step = "provenance"
  /\ provenance' = [image |-> build.image, recipe |-> recipe, inputs |-> Artifacts]
  /\ Advance("design")
  /\ UNCHANGED <<texts, licenses, sbom, files, archive, metadata, design, manifest, residue>>

(* Mutant of BuiltDesign: the decision of the owners is carried over.      *)
BuiltDesignKept == [status |-> design.status, artifacts |-> Artifacts]

(* The design decision is always written as proposed.                      *)
BuiltDesign == [status |-> "PROPOSED", artifacts |-> Artifacts]

WriteDesign ==
  /\ build.step = "design"
  /\ design' = BuiltDesign
  /\ Advance("manifest")
  /\ UNCHANGED <<texts, licenses, sbom, files, archive, metadata, provenance, manifest, residue>>

(* Mutant of WriteManifest: the design decision is not bound again.        *)
WriteManifestArtifacts ==
  /\ build.step = "manifest"
  /\ manifest' = [manifest EXCEPT !.artifacts = Artifacts]
  /\ Advance("done")
  /\ UNCHANGED <<texts, licenses, sbom, files, archive, metadata, provenance, design, residue>>

(* The architecture manifest is updated in place: its status stays.        *)
WriteManifest ==
  /\ build.step = "manifest"
  /\ manifest' = [manifest EXCEPT !.artifacts = Artifacts, !.design = design]
  /\ Advance("done")
  /\ UNCHANGED <<texts, licenses, sbom, files, archive, metadata, provenance, design, residue>>

(* The finally block of the build.                                         *)
EndBuild ==
  /\ build.step = "done"
  /\ build' = Idle
  /\ residue' = residue \ {"temporary"}
  /\ UNCHANGED <<sources, installed, outputs, adr, check, history, edits, faults>>

(* A throw: the finally blocks run.                                        *)
LeaveBuild ==
  /\ build' = Idle
  /\ residue' = residue \ {"temporary"}
  /\ UNCHANGED <<sources, installed, outputs, adr, check, history, edits>>

(* A file that is gone since it was listed.                                *)
AbortArchive ==
  /\ build.step = "archive" /\ ~(DOMAIN files \subseteq Present)
  /\ LeaveBuild
  /\ UNCHANGED faults

(* A download, an integrity check or the image builder fails.              *)
FailBuild ==
  /\ build.step \in {"texts", "image"} /\ faults < MaxFaults
  /\ faults' = faults + 1
  /\ LeaveBuild

KillBuild ==
  /\ build # Idle /\ faults < MaxFaults
  /\ faults' = faults + 1
  /\ build' = Idle
  /\ residue' = (residue \ {"temporary"}) \cup {"leftover"}
  /\ UNCHANGED <<sources, installed, outputs, adr, check, history, edits>>

BuildStep ==
  \/ ClearLicenses \/ WriteTexts \/ WriteLicenses \/ WriteSbom \/ WriteFiles \/ WriteArchive \/ BuildImage \/ AbortArchive
  \/ WriteMetadata \/ WriteProvenance \/ WriteDesign \/ WriteManifest \/ EndBuild
-----------------------------------------------------------------------------
(* The validator, part by part.  Nothing compares the archive, the SBOM or *)
(* the six artifacts of the design decision with what they were made from. *)
(* The numbers it wants besides (182 licences, the components of the SBOM, *)
(* the resolved packages of the manifest) follow from the lock, and the    *)
(* design contract, whose digest the manifest has too, is a file of the    *)
(* template: they are left out, and no property here depends on them.      *)
StatusAgrees ==
  /\ design.status = IF adr = "Accepted" THEN "ACCEPTED" ELSE "PROPOSED"
  /\ manifest.status = design.status

LicensesMatch == texts # Absent /\ licenses = [lock |-> Lock, texts |-> texts]

FilesMatch == \A f \in DOMAIN files : template[f] = files[f]

ImageMatches == provenance.image = metadata

(* Mutant of DigestsMatch: the design decision is not compared.            *)
DigestsMatchButDesign ==
  /\ manifest.artifacts.archive = archive
  /\ manifest.artifacts.lock = Lock
  /\ manifest.artifacts.sbom = sbom
  /\ manifest.artifacts.licenses = licenses
  /\ manifest.artifacts.image = metadata

DigestsMatch ==
  /\ manifest.artifacts.archive = archive
  /\ manifest.artifacts.lock = Lock
  /\ manifest.artifacts.sbom = sbom
  /\ manifest.artifacts.licenses = licenses
  /\ manifest.artifacts.image = metadata
  /\ manifest.design = design

ProseComplete == "prose" \notin lacking

SchemaClosed == "schema" \notin lacking

RowsComplete == "rows" \notin lacking

Validates ==
  /\ ProseComplete /\ SchemaClosed /\ RowsComplete /\ StatusAgrees
  /\ LicensesMatch /\ FilesMatch /\ ImageMatches /\ DigestsMatch

(* External: the owners accept what the validator passes; they change the  *)
(* status in ADR, design decision and manifest, and the digest with them.  *)
Accept ==
  /\ build = Idle /\ check = Idle /\ adr = "Proposed" /\ Validates
  /\ adr' = "Accepted"
  /\ design' = [design EXCEPT !.status = "ACCEPTED"]
  /\ manifest' = [manifest EXCEPT !.status = "ACCEPTED", !.design = design']
  /\ frozen' = design.artifacts
  /\ UNCHANGED <<sources, installed, texts, licenses, sbom, files, archive, metadata, provenance,
                 build, check, verified, disturbed, residue, edits, faults>>

(* External: a decision that no longer validates is taken back; the digest *)
(* of the design decision comes with the next build.                       *)
Reopen ==
  /\ build = Idle /\ check = Idle /\ adr = "Accepted" /\ ~Validates
  /\ adr' = "Proposed"
  /\ design' = [design EXCEPT !.status = "PROPOSED"]
  /\ manifest' = [manifest EXCEPT !.status = "PROPOSED"]
  /\ frozen' = Absent
  /\ UNCHANGED <<sources, installed, texts, licenses, sbom, files, archive, metadata, provenance,
                 build, check, verified, disturbed, residue, edits, faults>>
-----------------------------------------------------------------------------
(* verify-aico-004-candidate: the digest expected is read first, then the  *)
(* template is installed and tested, then the image is built twice; a      *)
(* build may run beside all of it.                                         *)
Follow(c) ==
  /\ check' = c
  /\ UNCHANGED <<sources, outputs, adr, build, frozen, edits>>

BeginCheck ==
  /\ check = Idle
  /\ Follow([step |-> "install", expected |-> metadata, good |-> build = Idle])
  /\ verified' = FALSE
  /\ UNCHANGED <<installed, disturbed, residue, faults>>

InstallTemplate ==
  /\ check.step = "install"
  /\ installed' = Lock
  /\ disturbed' = (disturbed \/ build # Idle)
  /\ residue' = residue \cup {"scratch"}
  /\ Follow([check EXCEPT !.step = "first"])
  /\ UNCHANGED <<verified, faults>>

(* Both images must have the digest expected.  The code compares them when *)
(* both are built, which reads nothing more.                               *)
Reproduced(c) == Image(recipe, archive) = c.expected

Rebuild ==
  /\ check.step = "first"
  /\ Follow([check EXCEPT !.step = "second", !.good = @ /\ Reproduced(check)])
  /\ UNCHANGED <<installed, disturbed, residue, verified, faults>>

EndCheck ==
  /\ check.step = "second"
  /\ verified' = (check.good /\ Reproduced(check))
  /\ residue' = residue \ {"scratch"}
  /\ Follow(Idle)
  /\ UNCHANGED <<installed, disturbed, faults>>

(* An installation, a test or a build of the verification fails.           *)
FailCheck ==
  /\ check # Idle
  /\ residue' = residue \ {"scratch"}
  /\ Follow(Idle)
  /\ UNCHANGED <<installed, disturbed, verified, faults>>

CheckStep == BeginCheck \/ InstallTemplate \/ Rebuild \/ EndCheck \/ FailCheck

(* The extra file is a copy of the page that comes and goes.               *)
Edit ==
  \/ \E f \in {"package-lock.json", "page"}, v \in Version : EditTemplate(f, v)
  \/ \E v \in {template["page"], Absent} : EditTemplate("extra", v)
  \/ \E v \in Version : EditRecipe(v)
  \/ \E p \in Part : EditPart(p)

Next ==
  \/ Edit \/ BeginBuild \/ BuildStep \/ FailBuild \/ KillBuild
  \/ CheckStep \/ Accept \/ Reopen

Spec == Init /\ [][Next]_vars

(* A build that has begun goes on, and so does a check; a proposal that    *)
(* the validator refuses is built again by its author.                     *)
Fairness ==
  /\ WF_vars(BuildStep)
  /\ WF_vars(InstallTemplate \/ Rebuild \/ EndCheck)
  /\ WF_vars(BeginBuild /\ ~Validates)

FairSpec == Spec /\ Fairness
-----------------------------------------------------------------------------
Tree == [{"package-lock.json", "page"} -> Version] \cup [TemplateFile -> Version]
Images == [recipe : Version, archive : Tree]
LicenseReports == [lock : Version, texts : Version]
Bound == [archive : Tree, lock : Version, sbom : Version, licenses : LicenseReports, image : Images]
Status == {"PROPOSED", "ACCEPTED"}
Designs == [status : Status, artifacts : Bound]
Provenances == [image : Images, recipe : Version, inputs : Bound]
Manifests == [status : Status, artifacts : Bound, design : Designs]

(* The image is in memory from the step that builds it on.                 *)
Builds ==
  [step : {"idle"}]
    \cup [step : {"clear", "texts", "licenses", "sbom", "files", "archive", "image"}, lock : Version]
    \cup [step : {"metadata", "provenance", "design", "manifest", "done"}, lock : Version,
          image : Images]

Checks ==
  [step : {"idle"}]
    \cup [step : {"install", "first", "second"}, expected : Images,
          good : BOOLEAN]

TypeOK ==
  /\ template \in [TemplateFile -> Version \cup {Absent}]
  /\ template["package-lock.json"] \in Version /\ template["page"] \in Version
  /\ recipe \in Version /\ lacking \subseteq Part
  /\ installed \in Version \cup {Absent} /\ texts \in Version \cup {Absent}
  /\ licenses \in LicenseReports /\ sbom \in Version
  /\ files \in Tree /\ archive \in Tree /\ metadata \in Images
  /\ provenance \in Provenances /\ design \in Designs /\ manifest \in Manifests
  /\ build \in Builds /\ check \in Checks
  /\ adr \in {"Proposed", "Accepted"}
  /\ verified \in BOOLEAN /\ disturbed \in BOOLEAN
  /\ frozen \in Bound \cup {Absent}
  /\ residue \subseteq {"temporary", "scratch", "leftover"}
  /\ edits \in 0..MaxEdits /\ faults \in 0..MaxFaults

(* What the checks do not compare follows from the order in which the      *)
(* build writes: whatever was edited, failed or was killed, a set that     *)
(* validates is one whose design decision binds the files that are there,  *)
(* and whose SBOM describes the lock that is there; and a verification     *)
(* that passed, with nothing edited and no build begun or running since it *)
(* began, means that recipe and archive, as they are, give the image whose *)
(* digest is recorded.  The variables have their types.                    *)
CheckedSetAgrees ==
  /\ TypeOK
  /\ Validates =>
       /\ design.artifacts = [archive |-> archive, lock |-> Lock, sbom |-> sbom,
                              licenses |-> licenses, image |-> metadata]
       /\ sbom = Lock
  /\ verified => metadata = Image(recipe, archive)

(* A build during which no source was edited and no verification installed *)
(* packages ends with a set that comes from the sources as they are, and   *)
(* that validates as a proposal; another verification beside it, which     *)
(* reads the same files, does it no harm.                                  *)
UndisturbedBuildIsValid ==
  build.step = "done" /\ ~disturbed =>
    /\ archive = [f \in Present |-> template[f]]
    /\ metadata = Image(recipe, archive)
    /\ installed \in {Absent, Lock} => texts = Lock
    /\ lacking = {} /\ adr = "Proposed" => Validates

(* While an accepted set validates it is the set the owners accepted: no   *)
(* rebuild, complete or not, slips other artifacts under their decision.   *)
AcceptedIsFrozen == adr = "Accepted" /\ Validates => design.artifacts = frozen

(* A proposal that is left alone, with complete documents, comes to        *)
(* validate whatever earlier build was halted halfway.                     *)
BundleRepaired == <>[](lacking = {} /\ adr = "Proposed") => []<>Validates
=============================================================================
