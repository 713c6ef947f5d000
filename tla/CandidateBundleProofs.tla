----------------------- MODULE CandidateBundleProofs -----------------------
(***************************************************************************)
(* Theorems about CandidateBundle, for any contents of the sources and any *)
(* number of edits and faults: what the order of the writes gives to a set *)
(* that validates, although the validator compares only part of it.        *)
(***************************************************************************)
EXTENDS CandidateBundle, TLAPS
-----------------------------------------------------------------------------
(* The strengthening.                                                      *)

(* The manifest binds a design decision and its artifacts together, an     *)
(* SBOM with its lock, and has the status of the ADR: also when a build    *)
(* was killed between design decision and manifest.                        *)
ManifestCoherent ==
  /\ manifest.design.artifacts = manifest.artifacts
  /\ manifest.artifacts.sbom = manifest.artifacts.lock
  /\ manifest.status = IF adr = "Accepted" THEN "ACCEPTED" ELSE "PROPOSED"

(* An accepted design decision is the one the owners saw.                  *)
DecisionKept ==
  design.status = "ACCEPTED" => adr = "Accepted" /\ design.artifacts = frozen

AfterManifest   == {"done"}
AfterDesign     == {"manifest", "done"}
AfterProvenance == {"design", "manifest", "done"}
AfterMetadata   == {"provenance", "design", "manifest", "done"}
AfterImage      == {"metadata", "provenance", "design", "manifest", "done"}
AfterArchive    == {"image", "metadata", "provenance", "design", "manifest", "done"}
AfterFiles      == {"archive"} \cup AfterArchive
AfterSbom       == {"files"} \cup AfterFiles
AfterLicenses   == {"sbom"} \cup AfterSbom
AfterTexts      == {"licenses"} \cup AfterLicenses

(* What a build has written so far is still there.                         *)
WrittenSoFar ==
  /\ build.step \in AfterTexts => texts \in Version
  /\ build.step \in AfterLicenses => licenses = [lock |-> build.lock, texts |-> texts]
  /\ build.step \in AfterSbom => sbom = build.lock
  /\ build.step \in AfterMetadata => metadata = build.image
  /\ build.step \in AfterProvenance => provenance.image = build.image
  /\ build.step \in AfterDesign => design = BuiltDesign
  /\ build.step \in AfterManifest => manifest.artifacts = Artifacts /\ manifest.design = design

(* What an undisturbed build has read so far is still so.                  *)
ReadSoFar ==
  build.step # "idle" /\ ~disturbed =>
    /\ build.lock = Lock
    /\ build.step \in AfterTexts /\ installed \in {Absent, Lock} => texts = Lock
    /\ build.step \in AfterFiles => files = [f \in Present |-> template[f]]
    /\ build.step \in AfterArchive => archive = [f \in Present |-> template[f]]
    /\ build.step \in AfterImage => build.image = Image(recipe, archive)

(* A verification that is good so far runs beside no build, and its first  *)
(* image is still what recipe and archive give.                            *)
CheckedSoFar ==
  /\ build.step # "idle" => ~verified
  /\ verified => metadata = Image(recipe, archive)
  /\ check.step # "idle" /\ check.good =>
       /\ build.step = "idle" /\ check.expected = metadata
       /\ check.step = "second" => metadata = Image(recipe, archive)

IInv == TypeOK /\ ManifestCoherent /\ DecisionKept /\ WrittenSoFar /\ ReadSoFar /\ CheckedSoFar
-----------------------------------------------------------------------------
(* Shapes.                                                                 *)
Early == {"clear", "texts", "licenses", "sbom", "files", "archive", "image"}
Late  == AfterImage

(* No script runs exactly when its step is idle.                           *)
LEMMA IdleShapes ==
  ASSUME TypeOK
  PROVE  /\ build = Idle <=> build.step = "idle"
         /\ check = Idle <=> check.step = "idle"
  BY DEF TypeOK, Builds, Checks, Idle

(* Until the image is built a build remembers its lock, then the image     *)
(* too.                                                                    *)
LEMMA BuildShapes ==
  ASSUME TypeOK
  PROVE  /\ build.step \in {"idle"} \cup Early \cup Late
         /\ build.step \in Early => build \in [step : Early, lock : Version]
         /\ build.step \in Late => build \in [step : Late, lock : Version, image : Images]
  BY DEF TypeOK, Builds, Early, Late, AfterImage

(* A verification remembers what it expects and whether it is good.        *)
LEMMA CheckShapes ==
  ASSUME TypeOK, check.step # "idle"
  PROVE  check \in [step : {"install", "first", "second"}, expected : Images, good : BOOLEAN]
  BY DEF TypeOK, Checks

(* One that is overtaken by an edit or a build is not good any more.       *)
LEMMA OvertakenShapes ==
  ASSUME TypeOK, check' = Overtaken(check)
  PROVE  check' \in Checks /\ (check'.step # "idle" => ~check'.good)
<1>1. CASE check = Idle
  BY <1>1 DEF Overtaken, TypeOK, Idle
<1>2. CASE check # Idle
  <2>1. check \in [step : {"install", "first", "second"}, expected : Images, good : BOOLEAN]
    BY <1>2, IdleShapes, CheckShapes
  <2>2. check' = [check EXCEPT !.good = FALSE]
    BY <1>2 DEF Overtaken
  <2> QED
    BY <2>1, <2>2 DEF Checks
<1> QED
  BY <1>1, <1>2

(* A build that advances before the image keeps its lock.                  *)
LEMMA AdvanceEarly ==
  ASSUME TypeOK, build.step \in Early, NEW s \in Early, Advance(s)
  PROVE  build' \in Builds /\ build'.step = s /\ build'.lock = build.lock /\ build.lock \in Version
<1>1. build \in [step : Early, lock : Version]
  BY BuildShapes
<1>2. build' = [build EXCEPT !.step = s]
  BY DEF Advance
<1>3. build' \in [step : Early, lock : Version] /\ build'.step = s /\ build'.lock = build.lock
  BY <1>1, <1>2
<1> QED
  BY <1>1, <1>3 DEF Builds, Early

(* After the image it keeps lock and image.                                *)
LEMMA AdvanceLate ==
  ASSUME TypeOK, build.step \in Late, NEW s \in Late, Advance(s)
  PROVE  /\ build' \in Builds /\ build'.step = s /\ build'.lock = build.lock
         /\ build'.image = build.image /\ build.lock \in Version /\ build.image \in Images
<1>1. build \in [step : Late, lock : Version, image : Images]
  BY BuildShapes
<1>2. build' = [build EXCEPT !.step = s]
  BY DEF Advance
<1>3. /\ build' \in [step : Late, lock : Version, image : Images]
      /\ build'.step = s /\ build'.lock = build.lock /\ build'.image = build.image
  BY <1>1, <1>2
<1> QED
  BY <1>1, <1>3 DEF Builds, Late, AfterImage

(* What a late build binds in the manifest has its type.                   *)
LEMMA ArtifactsTyped ==
  ASSUME TypeOK, build.step \in Late
  PROVE  Artifacts \in Bound
<1>1. build.lock \in Version /\ build.image \in Images
  BY BuildShapes
<1> QED
  BY <1>1 DEF TypeOK, Artifacts, Bound

(* The files of the template that are there, with their contents.          *)
LEMMA WalkTyped ==
  ASSUME TypeOK
  PROVE  [f \in Present |-> template[f]] \in Tree
<1>1. /\ template["package-lock.json"] \in Version /\ template["page"] \in Version
      /\ template["extra"] \in Version \cup {Absent} /\ Absent \notin Version
  BY BundleConstants DEF TypeOK, TemplateFile
<1>2. CASE template["extra"] = Absent
  <2>1. Present = {"package-lock.json", "page"}
    BY <1>1, <1>2 DEF Present, TemplateFile
  <2> QED
    BY <1>1, <2>1 DEF Tree
<1>3. CASE template["extra"] # Absent
  <2>1. Present = TemplateFile
    BY <1>1, <1>3 DEF Present, TemplateFile
  <2>2. \A f \in TemplateFile : template[f] \in Version
    BY <1>1, <1>3 DEF TemplateFile
  <2> QED
    BY <2>1, <2>2 DEF Tree
<1> QED
  BY <1>2, <1>3
-----------------------------------------------------------------------------
(* One lemma per action: it preserves the invariant.                       *)
LEMMA ClearLicensesStep ==
  ASSUME IInv, ClearLicenses
  PROVE  IInv'
<1>1. TypeOK /\ ManifestCoherent /\ DecisionKept /\ WrittenSoFar /\ ReadSoFar /\ CheckedSoFar
  BY DEF IInv
<1>2. /\ build.step = "clear" /\ Advance("texts")
      /\ texts' = Absent
      /\ UNCHANGED <<licenses, sbom, files, archive, metadata, provenance, design, manifest, residue>>
  BY DEF ClearLicenses
<1>3. UNCHANGED <<template, recipe, lacking, installed, adr, check, verified, disturbed, frozen,
                  edits, faults>>
  BY <1>2 DEF Advance, sources, history
<1>4. /\ build' \in Builds /\ build'.step = "texts" /\ build'.lock = build.lock
      /\ build.lock \in Version
  BY <1>1, <1>2, AdvanceEarly DEF Early
<1>5. texts' \in Version \cup {Absent}
  BY <1>2
<1>6. TypeOK'
  BY <1>1, <1>2, <1>3, <1>4, <1>5 DEF TypeOK
<1>7. ManifestCoherent' /\ DecisionKept'
  BY <1>1, <1>2, <1>3, <1>5 DEF ManifestCoherent, DecisionKept
<1>8. WrittenSoFar'
  BY <1>1, <1>2, <1>3, <1>4, <1>5
     DEF WrittenSoFar, BuiltDesign, Artifacts,
         AfterManifest, AfterDesign, AfterProvenance, AfterMetadata, AfterImage, AfterArchive,
         AfterFiles, AfterSbom, AfterLicenses, AfterTexts
<1>9. ReadSoFar'
  BY <1>1, <1>2, <1>3, <1>4
     DEF ReadSoFar, Lock, Present, Image,
         AfterManifest, AfterDesign, AfterProvenance, AfterMetadata, AfterImage, AfterArchive,
         AfterFiles, AfterSbom, AfterLicenses, AfterTexts
<1>10. CheckedSoFar'
  BY <1>1, <1>2, <1>3, <1>4 DEF CheckedSoFar
<1> QED
  BY <1>6, <1>7, <1>8, <1>9, <1>10 DEF IInv

(* The licence texts are written from the lock that was read.              *)
LEMMA WriteTextsStep ==
  ASSUME IInv, WriteTexts
  PROVE  IInv'
<1>1. TypeOK /\ ManifestCoherent /\ DecisionKept /\ WrittenSoFar /\ ReadSoFar /\ CheckedSoFar
  BY DEF IInv
<1>2. /\ build.step = "texts" /\ Advance("licenses")
      /\ texts' \in TextsFor(build.lock)
      /\ UNCHANGED <<licenses, sbom, files, archive, metadata, provenance, design, manifest, residue>>
  BY DEF WriteTexts
<1>3. UNCHANGED <<template, recipe, lacking, installed, adr, check, verified, disturbed, frozen,
                  edits, faults>>
  BY <1>2 DEF Advance, sources, history
<1>4. /\ build' \in Builds /\ build'.step = "licenses" /\ build'.lock = build.lock
      /\ build.lock \in Version
  BY <1>1, <1>2, AdvanceEarly DEF Early
<1>5. /\ texts' \in Version
      /\ build.lock = Lock /\ installed \in {Absent, Lock} => texts' = Lock
  BY <1>1, <1>2, <1>4 DEF TextsFor, TypeOK, Lock
<1>6. TypeOK'
  BY <1>1, <1>2, <1>3, <1>4, <1>5 DEF TypeOK
<1>7. ManifestCoherent' /\ DecisionKept'
  BY <1>1, <1>2, <1>3, <1>5 DEF ManifestCoherent, DecisionKept
<1>8. WrittenSoFar'
  BY <1>1, <1>2, <1>3, <1>4, <1>5
     DEF WrittenSoFar, BuiltDesign, Artifacts,
         AfterManifest, AfterDesign, AfterProvenance, AfterMetadata, AfterImage, AfterArchive,
         AfterFiles, AfterSbom, AfterLicenses, AfterTexts
<1>9. ReadSoFar'
  BY <1>1, <1>2, <1>3, <1>4, <1>5
     DEF ReadSoFar, Lock, Present, Image,
         AfterManifest, AfterDesign, AfterProvenance, AfterMetadata, AfterImage, AfterArchive,
         AfterFiles, AfterSbom, AfterLicenses, AfterTexts
<1>10. CheckedSoFar'
  BY <1>1, <1>2, <1>3, <1>4 DEF CheckedSoFar
<1> QED
  BY <1>6, <1>7, <1>8, <1>9, <1>10 DEF IInv

(* The licence report follows the texts just written.                      *)
LEMMA WriteLicensesStep ==
  ASSUME IInv, WriteLicenses
  PROVE  IInv'
<1>1. TypeOK /\ ManifestCoherent /\ DecisionKept /\ WrittenSoFar /\ ReadSoFar /\ CheckedSoFar
  BY DEF IInv
<1>2. /\ build.step = "licenses" /\ Advance("sbom")
      /\ licenses' = [lock |-> build.lock, texts |-> texts]
      /\ UNCHANGED <<texts, sbom, files, archive, metadata, provenance, design, manifest, residue>>
  BY DEF WriteLicenses
<1>3. UNCHANGED <<template, recipe, lacking, installed, adr, check, verified, disturbed, frozen,
                  edits, faults>>
  BY <1>2 DEF Advance, sources, history
<1>4. /\ build' \in Builds /\ build'.step = "sbom" /\ build'.lock = build.lock
      /\ build.lock \in Version
  BY <1>1, <1>2, AdvanceEarly DEF Early
<1>5. licenses' \in LicenseReports
  <2>1. texts \in Version
    BY <1>1, <1>2, <1>4 DEF WrittenSoFar, TypeOK, AfterTexts
  <2> QED
    BY <1>2, <1>4, <2>1 DEF LicenseReports
<1>6. TypeOK'
  BY <1>1, <1>2, <1>3, <1>4, <1>5 DEF TypeOK
<1>7. ManifestCoherent' /\ DecisionKept'
  BY <1>1, <1>2, <1>3, <1>5 DEF ManifestCoherent, DecisionKept
<1>8. WrittenSoFar'
  BY <1>1, <1>2, <1>3, <1>4, <1>5
     DEF WrittenSoFar, BuiltDesign, Artifacts,
         AfterManifest, AfterDesign, AfterProvenance, AfterMetadata, AfterImage, AfterArchive,
         AfterFiles, AfterSbom, AfterLicenses, AfterTexts
<1>9. ReadSoFar'
  BY <1>1, <1>2, <1>3, <1>4
     DEF ReadSoFar, Lock, Present, Image,
         AfterManifest, AfterDesign, AfterProvenance, AfterMetadata, AfterImage, AfterArchive,
         AfterFiles, AfterSbom, AfterLicenses, AfterTexts
<1>10. CheckedSoFar'
  BY <1>1, <1>2, <1>3, <1>4 DEF CheckedSoFar
<1> QED
  BY <1>6, <1>7, <1>8, <1>9, <1>10 DEF IInv

(* The SBOM is written from the same lock.                                 *)
LEMMA WriteSbomStep ==
  ASSUME IInv, WriteSbom
  PROVE  IInv'
<1>1. TypeOK /\ ManifestCoherent /\ DecisionKept /\ WrittenSoFar /\ ReadSoFar /\ CheckedSoFar
  BY DEF IInv
<1>2. /\ build.step = "sbom" /\ Advance("files")
      /\ sbom' = build.lock
      /\ UNCHANGED <<texts, licenses, files, archive, metadata, provenance, design, manifest, residue>>
  BY DEF WriteSbom
<1>3. UNCHANGED <<template, recipe, lacking, installed, adr, check, verified, disturbed, frozen,
                  edits, faults>>
  BY <1>2 DEF Advance, sources, history
<1>4. /\ build' \in Builds /\ build'.step = "files" /\ build'.lock = build.lock
      /\ build.lock \in Version
  BY <1>1, <1>2, AdvanceEarly DEF Early
<1>5. sbom' \in Version
  BY <1>2, <1>4
<1>6. TypeOK'
  BY <1>1, <1>2, <1>3, <1>4, <1>5 DEF TypeOK
<1>7. ManifestCoherent' /\ DecisionKept'
  BY <1>1, <1>2, <1>3, <1>5 DEF ManifestCoherent, DecisionKept
<1>8. WrittenSoFar'
  BY <1>1, <1>2, <1>3, <1>4, <1>5
     DEF WrittenSoFar, BuiltDesign, Artifacts,
         AfterManifest, AfterDesign, AfterProvenance, AfterMetadata, AfterImage, AfterArchive,
         AfterFiles, AfterSbom, AfterLicenses, AfterTexts
<1>9. ReadSoFar'
  BY <1>1, <1>2, <1>3, <1>4
     DEF ReadSoFar, Lock, Present, Image,
         AfterManifest, AfterDesign, AfterProvenance, AfterMetadata, AfterImage, AfterArchive,
         AfterFiles, AfterSbom, AfterLicenses, AfterTexts
<1>10. CheckedSoFar'
  BY <1>1, <1>2, <1>3, <1>4 DEF CheckedSoFar
<1> QED
  BY <1>6, <1>7, <1>8, <1>9, <1>10 DEF IInv

(* The file list is that of the template when it is read.                  *)
LEMMA WriteFilesStep ==
  ASSUME IInv, WriteFiles
  PROVE  IInv'
<1>1. TypeOK /\ ManifestCoherent /\ DecisionKept /\ WrittenSoFar /\ ReadSoFar /\ CheckedSoFar
  BY DEF IInv
<1>2. /\ build.step = "files" /\ Advance("archive")
      /\ files' = [f \in Present |-> template[f]]
      /\ UNCHANGED <<texts, licenses, sbom, archive, metadata, provenance, design, manifest, residue>>
  BY DEF WriteFiles
<1>3. UNCHANGED <<template, recipe, lacking, installed, adr, check, verified, disturbed, frozen,
                  edits, faults>>
  BY <1>2 DEF Advance, sources, history
<1>4. /\ build' \in Builds /\ build'.step = "archive" /\ build'.lock = build.lock
      /\ build.lock \in Version
  BY <1>1, <1>2, AdvanceEarly DEF Early
<1>5. files' \in Tree
  BY <1>1, <1>2, WalkTyped
<1>6. TypeOK'
  BY <1>1, <1>2, <1>3, <1>4, <1>5 DEF TypeOK
<1>7. ManifestCoherent' /\ DecisionKept'
  BY <1>1, <1>2, <1>3, <1>5 DEF ManifestCoherent, DecisionKept
<1>8. WrittenSoFar'
  BY <1>1, <1>2, <1>3, <1>4, <1>5
     DEF WrittenSoFar, BuiltDesign, Artifacts,
         AfterManifest, AfterDesign, AfterProvenance, AfterMetadata, AfterImage, AfterArchive,
         AfterFiles, AfterSbom, AfterLicenses, AfterTexts
<1>9. ReadSoFar'
  BY <1>1, <1>2, <1>3, <1>4
     DEF ReadSoFar, Lock, Present, Image,
         AfterManifest, AfterDesign, AfterProvenance, AfterMetadata, AfterImage, AfterArchive,
         AfterFiles, AfterSbom, AfterLicenses, AfterTexts
<1>10. CheckedSoFar'
  BY <1>1, <1>2, <1>3, <1>4 DEF CheckedSoFar
<1> QED
  BY <1>6, <1>7, <1>8, <1>9, <1>10 DEF IInv

(* The archive is packed from the template, which may have changed since   *)
(* the file list.                                                          *)
LEMMA WriteArchiveStep ==
  ASSUME IInv, WriteArchive
  PROVE  IInv'
<1>1. TypeOK /\ ManifestCoherent /\ DecisionKept /\ WrittenSoFar /\ ReadSoFar /\ CheckedSoFar
  BY DEF IInv
<1>2. /\ build.step = "archive" /\ Advance("image") /\ DOMAIN files \subseteq Present
      /\ archive' = [f \in DOMAIN files |-> template[f]]
      /\ UNCHANGED <<texts, licenses, sbom, files, metadata, provenance, design, manifest, residue>>
  BY DEF WriteArchive
<1>3. UNCHANGED <<template, recipe, lacking, installed, adr, check, verified, disturbed, frozen,
                  edits, faults>>
  BY <1>2 DEF Advance, sources, history
<1>4. /\ build' \in Builds /\ build'.step = "image" /\ build'.lock = build.lock
      /\ build.lock \in Version
  BY <1>1, <1>2, AdvanceEarly DEF Early
<1>5. archive' \in Tree
  <2>1. \A f \in DOMAIN files : template[f] \in Version
    BY <1>1, <1>2 DEF Present, TypeOK, TemplateFile
  <2>2. DOMAIN files = {"package-lock.json", "page"} \/ DOMAIN files = TemplateFile
    BY <1>1 DEF TypeOK, Tree
  <2> QED
    BY <1>2, <2>1, <2>2 DEF Tree
<1>6. TypeOK'
  BY <1>1, <1>2, <1>3, <1>4, <1>5 DEF TypeOK
<1>7. ManifestCoherent' /\ DecisionKept'
  BY <1>1, <1>2, <1>3, <1>5 DEF ManifestCoherent, DecisionKept
<1>8. WrittenSoFar'
  BY <1>1, <1>2, <1>3, <1>4, <1>5
     DEF WrittenSoFar, BuiltDesign, Artifacts,
         AfterManifest, AfterDesign, AfterProvenance, AfterMetadata, AfterImage, AfterArchive,
         AfterFiles, AfterSbom, AfterLicenses, AfterTexts
<1>9. ReadSoFar'
  BY <1>1, <1>2, <1>3, <1>4
     DEF ReadSoFar, Lock, Present, Image,
         AfterManifest, AfterDesign, AfterProvenance, AfterMetadata, AfterImage, AfterArchive,
         AfterFiles, AfterSbom, AfterLicenses, AfterTexts
<1>10. CheckedSoFar'
  BY <1>1, <1>2, <1>3, <1>4 DEF CheckedSoFar
<1> QED
  BY <1>6, <1>7, <1>8, <1>9, <1>10 DEF IInv

(* The image metadata name the image that was built.                       *)
LEMMA WriteMetadataStep ==
  ASSUME IInv, WriteMetadata
  PROVE  IInv'
<1>1. TypeOK /\ ManifestCoherent /\ DecisionKept /\ WrittenSoFar /\ ReadSoFar /\ CheckedSoFar
  BY DEF IInv
<1>2. /\ build.step = "metadata" /\ Advance("provenance")
      /\ metadata' = build.image
      /\ UNCHANGED <<texts, licenses, sbom, files, archive, provenance, design, manifest, residue>>
  BY DEF WriteMetadata
<1>3. UNCHANGED <<template, recipe, lacking, installed, adr, check, verified, disturbed, frozen,
                  edits, faults>>
  BY <1>2 DEF Advance, sources, history
<1>4. /\ build' \in Builds /\ build'.step = "provenance" /\ build'.lock = build.lock
      /\ build'.image = build.image /\ build.lock \in Version /\ build.image \in Images
  BY <1>1, <1>2, AdvanceLate DEF Late, AfterImage
<1>5. metadata' \in Images
  BY <1>2, <1>4
<1>6. TypeOK'
  BY <1>1, <1>2, <1>3, <1>4, <1>5 DEF TypeOK
<1>7. ManifestCoherent' /\ DecisionKept'
  BY <1>1, <1>2, <1>3, <1>5 DEF ManifestCoherent, DecisionKept
<1>8. WrittenSoFar'
  BY <1>1, <1>2, <1>3, <1>4, <1>5
     DEF WrittenSoFar, BuiltDesign, Artifacts,
         AfterManifest, AfterDesign, AfterProvenance, AfterMetadata, AfterImage, AfterArchive,
         AfterFiles, AfterSbom, AfterLicenses, AfterTexts
<1>9. ReadSoFar'
  BY <1>1, <1>2, <1>3, <1>4
     DEF ReadSoFar, Lock, Present, Image,
         AfterManifest, AfterDesign, AfterProvenance, AfterMetadata, AfterImage, AfterArchive,
         AfterFiles, AfterSbom, AfterLicenses, AfterTexts
<1>10. CheckedSoFar'
  BY <1>1, <1>2, <1>3, <1>4 DEF CheckedSoFar
<1> QED
  BY <1>6, <1>7, <1>8, <1>9, <1>10 DEF IInv

(* So does the provenance.                                                 *)
LEMMA WriteProvenanceStep ==
  ASSUME IInv, WriteProvenance
  PROVE  IInv'
<1>1. TypeOK /\ ManifestCoherent /\ DecisionKept /\ WrittenSoFar /\ ReadSoFar /\ CheckedSoFar
  BY DEF IInv
<1>2. /\ build.step = "provenance" /\ Advance("design")
      /\ provenance' = [image |-> build.image, recipe |-> recipe, inputs |-> Artifacts]
      /\ UNCHANGED <<texts, licenses, sbom, files, archive, metadata, design, manifest, residue>>
  BY DEF WriteProvenance
<1>3. UNCHANGED <<template, recipe, lacking, installed, adr, check, verified, disturbed, frozen,
                  edits, faults>>
  BY <1>2 DEF Advance, sources, history
<1>4. /\ build' \in Builds /\ build'.step = "design" /\ build'.lock = build.lock
      /\ build'.image = build.image /\ build.lock \in Version /\ build.image \in Images
  BY <1>1, <1>2, AdvanceLate DEF Late, AfterImage
<1>5. provenance' \in Provenances /\ provenance'.image = build.image
  <2>1. Artifacts \in Bound
    BY <1>1, <1>2, ArtifactsTyped DEF Late, AfterImage
  <2>2. recipe \in Version
    BY <1>1 DEF TypeOK
  <2> QED
    BY <1>2, <1>4, <2>1, <2>2 DEF Provenances
<1>6. TypeOK'
  BY <1>1, <1>2, <1>3, <1>4, <1>5 DEF TypeOK
<1>7. ManifestCoherent' /\ DecisionKept'
  BY <1>1, <1>2, <1>3, <1>5 DEF ManifestCoherent, DecisionKept
<1>8. WrittenSoFar'
  BY <1>1, <1>2, <1>3, <1>4, <1>5
     DEF WrittenSoFar, BuiltDesign, Artifacts,
         AfterManifest, AfterDesign, AfterProvenance, AfterMetadata, AfterImage, AfterArchive,
         AfterFiles, AfterSbom, AfterLicenses, AfterTexts
<1>9. ReadSoFar'
  BY <1>1, <1>2, <1>3, <1>4
     DEF ReadSoFar, Lock, Present, Image,
         AfterManifest, AfterDesign, AfterProvenance, AfterMetadata, AfterImage, AfterArchive,
         AfterFiles, AfterSbom, AfterLicenses, AfterTexts
<1>10. CheckedSoFar'
  BY <1>1, <1>2, <1>3, <1>4 DEF CheckedSoFar
<1> QED
  BY <1>6, <1>7, <1>8, <1>9, <1>10 DEF IInv

(* The design decision binds the artifacts; a different one is no longer   *)
(* accepted.                                                               *)
LEMMA WriteDesignStep ==
  ASSUME IInv, WriteDesign
  PROVE  IInv'
<1>1. TypeOK /\ ManifestCoherent /\ DecisionKept /\ WrittenSoFar /\ ReadSoFar /\ CheckedSoFar
  BY DEF IInv
<1>2. /\ build.step = "design" /\ Advance("manifest")
      /\ design' = BuiltDesign
      /\ UNCHANGED <<texts, licenses, sbom, files, archive, metadata, provenance, manifest, residue>>
  BY DEF WriteDesign
<1>3. UNCHANGED <<template, recipe, lacking, installed, adr, check, verified, disturbed, frozen,
                  edits, faults>>
  BY <1>2 DEF Advance, sources, history
<1>4. /\ build' \in Builds /\ build'.step = "manifest" /\ build'.lock = build.lock
      /\ build'.image = build.image /\ build.lock \in Version /\ build.image \in Images
  BY <1>1, <1>2, AdvanceLate DEF Late, AfterImage
<1>5. design' \in Designs
  <2>1. Artifacts \in Bound
    BY <1>1, <1>2, ArtifactsTyped DEF Late, AfterImage
  <2> QED
    BY <1>2, <2>1 DEF Designs, Status, BuiltDesign
<1>6. TypeOK'
  BY <1>1, <1>2, <1>3, <1>4, <1>5 DEF TypeOK
<1>7. ManifestCoherent' /\ DecisionKept'
  BY <1>1, <1>2, <1>3, <1>5 DEF ManifestCoherent, DecisionKept, BuiltDesign
<1>8. WrittenSoFar'
  BY <1>1, <1>2, <1>3, <1>4, <1>5
     DEF WrittenSoFar, BuiltDesign, Artifacts,
         AfterManifest, AfterDesign, AfterProvenance, AfterMetadata, AfterImage, AfterArchive,
         AfterFiles, AfterSbom, AfterLicenses, AfterTexts
<1>9. ReadSoFar'
  BY <1>1, <1>2, <1>3, <1>4
     DEF ReadSoFar, Lock, Present, Image,
         AfterManifest, AfterDesign, AfterProvenance, AfterMetadata, AfterImage, AfterArchive,
         AfterFiles, AfterSbom, AfterLicenses, AfterTexts
<1>10. CheckedSoFar'
  BY <1>1, <1>2, <1>3, <1>4 DEF CheckedSoFar
<1> QED
  BY <1>6, <1>7, <1>8, <1>9, <1>10 DEF IInv

(* The manifest, written last, binds what is there and the design          *)
(* decision.                                                               *)
LEMMA WriteManifestStep ==
  ASSUME IInv, WriteManifest
  PROVE  IInv'
<1>1. TypeOK /\ ManifestCoherent /\ DecisionKept /\ WrittenSoFar /\ ReadSoFar /\ CheckedSoFar
  BY DEF IInv
<1>2. /\ build.step = "manifest" /\ Advance("done")
      /\ manifest' = [manifest EXCEPT !.artifacts = Artifacts, !.design = design]
      /\ UNCHANGED <<texts, licenses, sbom, files, archive, metadata, provenance, design, residue>>
  BY DEF WriteManifest
<1>3. UNCHANGED <<template, recipe, lacking, installed, adr, check, verified, disturbed, frozen,
                  edits, faults>>
  BY <1>2 DEF Advance, sources, history
<1>4. /\ build' \in Builds /\ build'.step = "done" /\ build'.lock = build.lock
      /\ build'.image = build.image /\ build.lock \in Version /\ build.image \in Images
  BY <1>1, <1>2, AdvanceLate DEF Late, AfterImage
<1>5. /\ manifest' \in Manifests
      /\ manifest'.status = manifest.status /\ manifest'.artifacts = Artifacts /\ manifest'.design = design
  <2>1. Artifacts \in Bound
    BY <1>1, <1>2, ArtifactsTyped DEF Late, AfterImage
  <2>2. manifest \in Manifests /\ design \in Designs
    BY <1>1 DEF TypeOK
  <2>3. \A a \in Bound, d \in Designs :
          LET n == [manifest EXCEPT !.artifacts = a, !.design = d]
          IN  n \in Manifests /\ n.status = manifest.status /\ n.artifacts = a /\ n.design = d
    BY <2>2 DEF Manifests
  <2> QED
    BY <1>2, <2>1, <2>2, <2>3
<1>6. design.artifacts = Artifacts /\ sbom = build.lock
  BY <1>1, <1>2 DEF WrittenSoFar, BuiltDesign,
         AfterManifest, AfterDesign, AfterProvenance, AfterMetadata, AfterImage, AfterArchive,
         AfterFiles, AfterSbom, AfterLicenses, AfterTexts
<1>7. TypeOK'
  BY <1>1, <1>2, <1>3, <1>4, <1>5 DEF TypeOK
<1>8. ManifestCoherent'
  <2>1. Artifacts.sbom = Artifacts.lock
    BY <1>6 DEF Artifacts
  <2> QED
    BY <1>1, <1>3, <1>5, <1>6, <2>1 DEF ManifestCoherent
<1>9. DecisionKept'
  BY <1>1, <1>2, <1>3 DEF DecisionKept
<1>10. WrittenSoFar'
  BY <1>1, <1>2, <1>3, <1>4, <1>5
     DEF WrittenSoFar, BuiltDesign, Artifacts,
         AfterManifest, AfterDesign, AfterProvenance, AfterMetadata, AfterImage, AfterArchive,
         AfterFiles, AfterSbom, AfterLicenses, AfterTexts
<1>11. ReadSoFar'
  BY <1>1, <1>2, <1>3, <1>4
     DEF ReadSoFar, Lock, Present, Image,
         AfterManifest, AfterDesign, AfterProvenance, AfterMetadata, AfterImage, AfterArchive,
         AfterFiles, AfterSbom, AfterLicenses, AfterTexts
<1>12. CheckedSoFar'
  BY <1>1, <1>2, <1>3, <1>4 DEF CheckedSoFar
<1> QED
  BY <1>7, <1>8, <1>9, <1>10, <1>11, <1>12 DEF IInv

(* The image is built from recipe and archive on disk.                     *)
LEMMA BuildImageStep ==
  ASSUME IInv, BuildImage
  PROVE  IInv'
<1>1. TypeOK /\ ManifestCoherent /\ DecisionKept /\ WrittenSoFar /\ ReadSoFar /\ CheckedSoFar
  BY DEF IInv
<1>2. /\ build.step = "image"
      /\ build' = [step |-> "metadata", lock |-> build.lock, image |-> Image(recipe, archive)]
  BY DEF BuildImage
<1>3. UNCHANGED <<template, recipe, lacking, installed,
                  texts, licenses, sbom, files, archive, metadata, provenance, design, manifest,
                  adr, check,
                  verified, disturbed, frozen, residue, edits, faults>>
  BY DEF BuildImage, sources, outputs, history
<1>4. build.lock \in Version /\ Image(recipe, archive) \in Images
  BY <1>1, <1>2, BuildShapes DEF Early, TypeOK, Image, Images
<1>5. /\ build' \in Builds /\ build'.step = "metadata" /\ build'.lock = build.lock
      /\ build'.image = Image(recipe, archive)
  BY <1>2, <1>4 DEF Builds
<1>6. TypeOK'
  BY <1>1, <1>3, <1>5 DEF TypeOK
<1>7. ManifestCoherent' /\ DecisionKept'
  BY <1>1, <1>3 DEF ManifestCoherent, DecisionKept
<1>8. WrittenSoFar'
  BY <1>1, <1>2, <1>3, <1>5
     DEF WrittenSoFar, BuiltDesign, Artifacts,
         AfterManifest, AfterDesign, AfterProvenance, AfterMetadata, AfterImage, AfterArchive,
         AfterFiles, AfterSbom, AfterLicenses, AfterTexts
<1>9. ReadSoFar'
  BY <1>1, <1>2, <1>3, <1>5
     DEF ReadSoFar, Lock, Present, Image,
         AfterManifest, AfterDesign, AfterProvenance, AfterMetadata, AfterImage, AfterArchive,
         AfterFiles, AfterSbom, AfterLicenses, AfterTexts
<1>10. CheckedSoFar'
  BY <1>1, <1>2, <1>3, <1>5 DEF CheckedSoFar
<1> QED
  BY <1>6, <1>7, <1>8, <1>9, <1>10 DEF IInv

(* A build begins when no other does, and ends the standing of an earlier  *)
(* verification and of the one under way.                                  *)
LEMMA BeginBuildStep ==
  ASSUME IInv, BeginBuild
  PROVE  IInv'
<1>1. TypeOK /\ ManifestCoherent /\ DecisionKept /\ WrittenSoFar /\ ReadSoFar /\ CheckedSoFar
  BY DEF IInv
<1>2. /\ check' = Overtaken(check) /\ build' = [step |-> "clear", lock |-> Lock]
      /\ residue' = residue \cup {"temporary"} /\ disturbed' = FALSE /\ verified' = FALSE
  BY DEF BeginBuild
<1>3. UNCHANGED <<template, recipe, lacking, installed,
                  texts, licenses, sbom, files, archive, metadata, provenance, design, manifest,
                  adr, frozen, edits, faults>>
  BY DEF BeginBuild, sources, outputs
<1>4. /\ build' \in Builds /\ build'.step = "clear" /\ build'.lock = Lock
      /\ check' \in Checks /\ (check'.step # "idle" => ~check'.good)
  BY <1>1, <1>2, OvertakenShapes DEF TypeOK, Lock, Builds
<1>5. TypeOK'
  BY <1>1, <1>2, <1>3, <1>4 DEF TypeOK
<1>6. ManifestCoherent' /\ DecisionKept'
  BY <1>1, <1>3 DEF ManifestCoherent, DecisionKept
<1>7. WrittenSoFar'
  BY <1>4 DEF WrittenSoFar,
         AfterManifest, AfterDesign, AfterProvenance, AfterMetadata, AfterImage, AfterArchive,
         AfterFiles, AfterSbom, AfterLicenses, AfterTexts
<1>8. ReadSoFar'
  BY <1>3, <1>4 DEF ReadSoFar, Lock,
         AfterManifest, AfterDesign, AfterProvenance, AfterMetadata, AfterImage, AfterArchive,
         AfterFiles, AfterSbom, AfterLicenses, AfterTexts
<1>9. CheckedSoFar'
  BY <1>2, <1>4 DEF CheckedSoFar
<1> QED
  BY <1>5, <1>6, <1>7, <1>8, <1>9 DEF IInv

(* What is common to the ways out of a build.                              *)
LEMMA BuildEnds ==
  ASSUME IInv, build.step # "idle", build' = Idle, faults' \in 0..MaxFaults,
         residue' \subseteq {"temporary", "scratch", "leftover"},
         UNCHANGED <<sources, installed, outputs, adr, check, history, edits>>
  PROVE  IInv'
<1>1. TypeOK /\ ManifestCoherent /\ DecisionKept /\ WrittenSoFar /\ ReadSoFar /\ CheckedSoFar
  BY DEF IInv
<1>2. UNCHANGED <<template, recipe, lacking, installed,
                  texts, licenses, sbom, files, archive, metadata, provenance, design, manifest,
                  adr, check,
                  verified, disturbed, frozen, edits>>
  BY DEF sources, outputs, history
<1>3. build' \in Builds /\ build'.step = "idle"
  BY DEF Idle, Builds
<1>4. TypeOK'
  BY <1>1, <1>2, <1>3 DEF TypeOK
<1>5. ManifestCoherent' /\ DecisionKept'
  BY <1>1, <1>2 DEF ManifestCoherent, DecisionKept
<1>6. WrittenSoFar' /\ ReadSoFar'
  BY <1>3 DEF WrittenSoFar, ReadSoFar,
         AfterManifest, AfterDesign, AfterProvenance, AfterMetadata, AfterImage, AfterArchive,
         AfterFiles, AfterSbom, AfterLicenses, AfterTexts
<1>7. CheckedSoFar'
  BY <1>1, <1>2, <1>3 DEF CheckedSoFar
<1> QED
  BY <1>4, <1>5, <1>6, <1>7 DEF IInv

(* The build ends with everything written.                                 *)
LEMMA EndBuildStep ==
  ASSUME IInv, EndBuild
  PROVE  IInv'
<1>1. residue' \subseteq {"temporary", "scratch", "leftover"} /\ faults' \in 0..MaxFaults
  BY DEF IInv, TypeOK, EndBuild
<1>2. /\ build.step # "idle" /\ build' = Idle
      /\ UNCHANGED <<sources, installed, outputs, adr, check, history, edits>>
  BY DEF EndBuild
<1> QED
  BY <1>1, <1>2, BuildEnds

(* A build gives up when a listed file is gone from the template.          *)
LEMMA AbortArchiveStep ==
  ASSUME IInv, AbortArchive
  PROVE  IInv'
<1>1. residue' \subseteq {"temporary", "scratch", "leftover"} /\ faults' \in 0..MaxFaults
  BY DEF IInv, TypeOK, AbortArchive, LeaveBuild
<1>2. /\ build.step # "idle" /\ build' = Idle
      /\ UNCHANGED <<sources, installed, outputs, adr, check, history, edits>>
  BY DEF AbortArchive, LeaveBuild
<1> QED
  BY <1>1, <1>2, BuildEnds

(* A build whose download or image fails leaves a prefix of its files.     *)
LEMMA FailBuildStep ==
  ASSUME IInv, FailBuild
  PROVE  IInv'
<1>1. residue' \subseteq {"temporary", "scratch", "leftover"}
  BY DEF IInv, TypeOK, FailBuild, LeaveBuild
<1>2. faults' \in 0..MaxFaults
  BY BundleConstants DEF IInv, TypeOK, FailBuild
<1>3. /\ build.step # "idle" /\ build' = Idle
      /\ UNCHANGED <<sources, installed, outputs, adr, check, history, edits>>
  BY DEF FailBuild, LeaveBuild
<1> QED
  BY <1>1, <1>2, <1>3, BuildEnds

(* So does one that is killed.                                             *)
LEMMA KillBuildStep ==
  ASSUME IInv, KillBuild
  PROVE  IInv'
<1>1. residue' \subseteq {"temporary", "scratch", "leftover"}
  BY DEF IInv, TypeOK, KillBuild
<1>2. faults' \in 0..MaxFaults
  BY BundleConstants DEF IInv, TypeOK, KillBuild
<1>3. /\ build.step # "idle" /\ build' = Idle
      /\ UNCHANGED <<sources, installed, outputs, adr, check, history, edits>>
  BY IdleShapes DEF KillBuild, IInv
<1> QED
  BY <1>1, <1>2, <1>3, BuildEnds
-----------------------------------------------------------------------------
(* An edit of any source: what was read before is not claimed any more.    *)
LEMMA TouchStep ==
  ASSUME IInv, Touch,
         template' \in [TemplateFile -> Version \cup {Absent}],
         template'["package-lock.json"] \in Version, template'["page"] \in Version,
         recipe' \in Version, lacking' \subseteq Part
  PROVE  IInv'
<1>1. TypeOK /\ ManifestCoherent /\ DecisionKept /\ WrittenSoFar /\ ReadSoFar /\ CheckedSoFar
  BY DEF IInv
<1>2. /\ edits < MaxEdits /\ edits' = edits + 1
      /\ disturbed' = (disturbed \/ build # Idle) /\ verified' = FALSE
      /\ check' = Overtaken(check)
  BY DEF Touch
<1>3. UNCHANGED <<installed,
                  texts, licenses, sbom, files, archive, metadata, provenance, design, manifest,
                  adr, build,
                  frozen, residue, faults>>
  BY DEF Touch, outputs
<1>4. edits \in Nat /\ edits' \in 0..MaxEdits
  BY <1>1, <1>2, BundleConstants DEF TypeOK
<1>5. /\ disturbed' \in BOOLEAN /\ (build.step # "idle" => disturbed')
      /\ check' \in Checks /\ (check'.step # "idle" => ~check'.good)
  BY <1>1, <1>2, IdleShapes, OvertakenShapes DEF TypeOK
<1>6. TypeOK'
  BY <1>1, <1>2, <1>3, <1>4, <1>5 DEF TypeOK
<1>7. ManifestCoherent' /\ DecisionKept'
  BY <1>1, <1>3 DEF ManifestCoherent, DecisionKept
<1>8. WrittenSoFar'
  BY <1>1, <1>3
     DEF WrittenSoFar, BuiltDesign, Artifacts,
         AfterManifest, AfterDesign, AfterProvenance, AfterMetadata, AfterImage, AfterArchive,
         AfterFiles, AfterSbom, AfterLicenses, AfterTexts
<1>9. ReadSoFar'
  BY <1>3, <1>5 DEF ReadSoFar
<1>10. CheckedSoFar'
  BY <1>2, <1>5 DEF CheckedSoFar
<1> QED
  BY <1>6, <1>7, <1>8, <1>9, <1>10 DEF IInv

(* An edit of a source disturbs a build, and overtakes a verification.     *)
LEMMA EditStep ==
  ASSUME IInv, Edit
  PROVE  IInv'
<1>1. TypeOK
  BY DEF IInv
<1>2. ASSUME NEW f \in {"package-lock.json", "page"}, NEW v \in Version, EditTemplate(f, v)
      PROVE  IInv'
  <2>1. Touch /\ UNCHANGED <<recipe, lacking>>
    BY <1>2 DEF EditTemplate
  <2>2. /\ template' \in [TemplateFile -> Version \cup {Absent}]
        /\ template'["package-lock.json"] \in Version /\ template'["page"] \in Version
    BY <1>1, <1>2 DEF EditTemplate, TypeOK, TemplateFile
  <2>3. recipe' \in Version /\ lacking' \subseteq Part
    BY <1>1, <2>1 DEF TypeOK
  <2> QED
    BY <2>1, <2>2, <2>3, TouchStep
<1>3. ASSUME NEW v \in Version \cup {Absent}, EditTemplate("extra", v)
      PROVE  IInv'
  <2>1. Touch /\ UNCHANGED <<recipe, lacking>>
    BY <1>3 DEF EditTemplate
  <2>2. /\ template' \in [TemplateFile -> Version \cup {Absent}]
        /\ template'["package-lock.json"] \in Version /\ template'["page"] \in Version
    BY <1>1, <1>3 DEF EditTemplate, TypeOK, TemplateFile
  <2>3. recipe' \in Version /\ lacking' \subseteq Part
    BY <1>1, <2>1 DEF TypeOK
  <2> QED
    BY <2>1, <2>2, <2>3, TouchStep
<1>4. ASSUME NEW v \in Version, EditRecipe(v)
      PROVE  IInv'
  BY <1>1, <1>4, TouchStep DEF EditRecipe, TypeOK
<1>5. ASSUME NEW p \in Part, EditPart(p)
      PROVE  IInv'
  <2>1. Touch /\ UNCHANGED <<template, recipe>> /\ lacking' \subseteq Part
    BY <1>1, <1>5 DEF EditPart, TypeOK
  <2> QED
    BY <1>1, <2>1, TouchStep DEF TypeOK
<1>6. template["page"] \in Version
  BY <1>1 DEF TypeOK
<1> QED
  BY <1>2, <1>3, <1>4, <1>5, <1>6 DEF Edit
-----------------------------------------------------------------------------
(* The owners.                                                             *)
LEMMA DesignStatus ==
  ASSUME NEW d \in Designs, NEW s \in Status
  PROVE  LET n == [d EXCEPT !.status = s]
         IN  n \in Designs /\ n.status = s /\ n.artifacts = d.artifacts
  BY DEF Designs

(* The owners accept a set that validates: it becomes the frozen one.      *)
LEMMA AcceptStep ==
  ASSUME IInv, Accept
  PROVE  IInv'
<1>1. TypeOK /\ ManifestCoherent /\ DecisionKept /\ WrittenSoFar /\ ReadSoFar /\ CheckedSoFar
  BY DEF IInv
<1>2. build = Idle /\ check = Idle /\ adr = "Proposed" /\ Validates
      /\ adr' = "Accepted" /\ frozen' = design.artifacts
      /\ design' = [design EXCEPT !.status = "ACCEPTED"]
      /\ manifest' = [manifest EXCEPT !.status = "ACCEPTED", !.design = design']
  BY DEF Accept
<1>3. UNCHANGED <<template, recipe, lacking, installed,
                  texts, licenses, sbom, files, archive, metadata, provenance,
                  build, check, verified, disturbed, residue, edits, faults>>
  BY DEF Accept, sources
<1>4. design' \in Designs /\ design'.status = "ACCEPTED" /\ design'.artifacts = design.artifacts
  BY <1>1, <1>2, DesignStatus DEF TypeOK, Status
<1>5. /\ manifest' \in Manifests /\ manifest'.status = "ACCEPTED"
      /\ manifest'.artifacts = manifest.artifacts /\ manifest'.design = design'
  <2>1. manifest \in Manifests
    BY <1>1 DEF TypeOK
  <2>2. \A d \in Designs :
          LET n == [manifest EXCEPT !.status = "ACCEPTED", !.design = d]
          IN  /\ n \in Manifests /\ n.status = "ACCEPTED"
              /\ n.artifacts = manifest.artifacts /\ n.design = d
    BY <2>1 DEF Manifests, Status
  <2> QED
    BY <1>2, <1>4, <2>2
<1>6. design.artifacts \in Bound
  BY <1>1 DEF TypeOK, Designs
<1>7. TypeOK'
  BY <1>1, <1>2, <1>3, <1>4, <1>5, <1>6 DEF TypeOK
<1>8. ManifestCoherent'
  <2>1. manifest.design = design
    BY <1>2 DEF Validates, DigestsMatch
  <2> QED
    BY <1>1, <1>2, <1>4, <1>5, <2>1 DEF ManifestCoherent
<1>9. DecisionKept'
  BY <1>2, <1>4 DEF DecisionKept
<1>10. build'.step = "idle"
  BY <1>2, <1>3 DEF Idle
<1>11. WrittenSoFar' /\ ReadSoFar'
  BY <1>10 DEF WrittenSoFar, ReadSoFar,
         AfterManifest, AfterDesign, AfterProvenance, AfterMetadata, AfterImage, AfterArchive,
         AfterFiles, AfterSbom, AfterLicenses, AfterTexts
<1>12. CheckedSoFar'
  BY <1>1, <1>3 DEF CheckedSoFar
<1> QED
  BY <1>7, <1>8, <1>9, <1>11, <1>12 DEF IInv

(* An accepted set that no longer validates becomes a proposal again.      *)
LEMMA ReopenStep ==
  ASSUME IInv, Reopen
  PROVE  IInv'
<1>1. TypeOK /\ ManifestCoherent /\ DecisionKept /\ WrittenSoFar /\ ReadSoFar /\ CheckedSoFar
  BY DEF IInv
<1>2. build = Idle /\ check = Idle
      /\ adr' = "Proposed" /\ frozen' = Absent
      /\ design' = [design EXCEPT !.status = "PROPOSED"]
      /\ manifest' = [manifest EXCEPT !.status = "PROPOSED"]
  BY DEF Reopen
<1>3. UNCHANGED <<template, recipe, lacking, installed,
                  texts, licenses, sbom, files, archive, metadata, provenance,
                  build, check, verified, disturbed, residue, edits, faults>>
  BY DEF Reopen, sources
<1>4. design' \in Designs /\ design'.status = "PROPOSED"
  BY <1>1, <1>2, DesignStatus DEF TypeOK, Status
<1>5. /\ manifest' \in Manifests /\ manifest'.status = "PROPOSED"
      /\ manifest'.artifacts = manifest.artifacts /\ manifest'.design = manifest.design
  BY <1>1, <1>2 DEF TypeOK, Manifests, Status
<1>6. TypeOK'
  BY <1>1, <1>2, <1>3, <1>4, <1>5 DEF TypeOK
<1>7. ManifestCoherent' /\ DecisionKept'
  BY <1>1, <1>2, <1>4, <1>5 DEF ManifestCoherent, DecisionKept
<1>8. build'.step = "idle"
  BY <1>2, <1>3 DEF Idle
<1>9. WrittenSoFar' /\ ReadSoFar'
  BY <1>8 DEF WrittenSoFar, ReadSoFar,
         AfterManifest, AfterDesign, AfterProvenance, AfterMetadata, AfterImage, AfterArchive,
         AfterFiles, AfterSbom, AfterLicenses, AfterTexts
<1>10. CheckedSoFar'
  BY <1>1, <1>3 DEF CheckedSoFar
<1> QED
  BY <1>6, <1>7, <1>9, <1>10 DEF IInv
-----------------------------------------------------------------------------
(* What is common to the steps of the verification.                        *)
LEMMA FollowStep ==
  ASSUME IInv, NEW c, Follow(c), c \in Checks, CheckedSoFar', disturbed' \in BOOLEAN,
         UNCHANGED <<installed, disturbed>> \/ (build.step # "idle" => disturbed'),
         installed' \in Version \cup {Absent}, verified' \in BOOLEAN,
         residue' \subseteq {"temporary", "scratch", "leftover"}, faults' \in 0..MaxFaults
  PROVE  IInv'
<1>1. TypeOK /\ ManifestCoherent /\ DecisionKept /\ WrittenSoFar /\ ReadSoFar /\ CheckedSoFar
  BY DEF IInv
<1>2. check' = c /\ UNCHANGED <<template, recipe, lacking,
                  texts, licenses, sbom, files, archive, metadata, provenance, design, manifest,
                  adr, build, frozen, edits>>
  BY DEF Follow, sources, outputs
<1>3. TypeOK'
  BY <1>1, <1>2 DEF TypeOK
<1>4. ManifestCoherent' /\ DecisionKept'
  BY <1>1, <1>2 DEF ManifestCoherent, DecisionKept
<1>5. WrittenSoFar'
  BY <1>1, <1>2 DEF WrittenSoFar, BuiltDesign, Artifacts
<1>6. ReadSoFar'
  <2>1. CASE UNCHANGED <<installed, disturbed>>
    BY <1>1, <1>2, <2>1 DEF ReadSoFar, Lock, Present, Image
  <2>2. CASE build.step # "idle" => disturbed'
    BY <1>2, <2>2 DEF ReadSoFar
  <2> QED
    BY <2>1, <2>2
<1> QED
  BY <1>3, <1>4, <1>5, <1>6 DEF IInv

(* A verification begins from the metadata on disk.                        *)
LEMMA BeginCheckStep ==
  ASSUME IInv, BeginCheck
  PROVE  IInv'
<1> DEFINE c == [step |-> "install", expected |-> metadata, good |-> build = Idle]
<1>1. TypeOK /\ ManifestCoherent /\ DecisionKept /\ WrittenSoFar /\ ReadSoFar /\ CheckedSoFar
  BY DEF IInv
<1>2. Follow(c) /\ verified' = FALSE /\ UNCHANGED <<installed, disturbed, residue, faults>>
  BY DEF BeginCheck
<1>3. c \in Checks
  BY <1>1 DEF TypeOK, Checks
<1>4. check' = c /\ UNCHANGED <<build, metadata>>
  BY <1>2 DEF Follow, outputs
<1>5. CheckedSoFar'
  BY <1>1, <1>2, <1>4, IdleShapes DEF CheckedSoFar
<1> HIDE DEF c
<1>6. /\ installed' \in Version \cup {Absent} /\ verified' \in BOOLEAN /\ disturbed' \in BOOLEAN
      /\ residue' \subseteq {"temporary", "scratch", "leftover"} /\ faults' \in 0..MaxFaults
  BY <1>1, <1>2 DEF TypeOK
<1> QED
  BY <1>2, <1>3, <1>5, <1>6, FollowStep

(* It installs the template, which disturbs a build that runs.             *)
LEMMA InstallTemplateStep ==
  ASSUME IInv, InstallTemplate
  PROVE  IInv'
<1> DEFINE c == [check EXCEPT !.step = "first"]
<1>1. TypeOK /\ ManifestCoherent /\ DecisionKept /\ WrittenSoFar /\ ReadSoFar /\ CheckedSoFar
  BY DEF IInv
<1>2. /\ check.step = "install" /\ installed' = Lock /\ residue' = residue \cup {"scratch"}
      /\ disturbed' = (disturbed \/ build # Idle)
      /\ Follow(c) /\ UNCHANGED <<verified, faults>>
  BY DEF InstallTemplate
<1>3. disturbed' \in BOOLEAN /\ (build.step # "idle" => disturbed')
  BY <1>1, <1>2, IdleShapes DEF TypeOK
<1>4. /\ c \in Checks /\ c.step = "first" /\ c.expected = check.expected /\ c.good = check.good
  BY <1>1, <1>2, CheckShapes DEF Checks
<1>5. check' = c /\ UNCHANGED <<build, metadata, recipe, archive>>
  BY <1>2 DEF Follow, outputs, sources
<1> HIDE DEF c
<1>6. CheckedSoFar'
  BY <1>1, <1>2, <1>4, <1>5 DEF CheckedSoFar, Image
<1>7. /\ installed' \in Version \cup {Absent} /\ verified' \in BOOLEAN
      /\ residue' \subseteq {"temporary", "scratch", "leftover"} /\ faults' \in 0..MaxFaults
  BY <1>1, <1>2 DEF TypeOK, Lock
<1> QED
  BY <1>2, <1>3, <1>4, <1>6, <1>7, FollowStep

(* It builds the image from what recipe and archive are then.              *)
LEMMA RebuildStep ==
  ASSUME IInv, Rebuild
  PROVE  IInv'
<1> DEFINE good == check.good /\ Reproduced(check)
           c == [check EXCEPT !.step = "second", !.good = good]
<1>1. TypeOK /\ ManifestCoherent /\ DecisionKept /\ WrittenSoFar /\ ReadSoFar /\ CheckedSoFar
  BY DEF IInv
<1>2. /\ check.step = "first" /\ Follow(c)
      /\ UNCHANGED <<installed, disturbed, residue, verified, faults>>
  BY DEF Rebuild
<1>3. good \in BOOLEAN /\ (good => check.good /\ Image(recipe, archive) = check.expected)
  BY DEF Reproduced
<1> HIDE DEF good
<1>4. /\ c \in Checks /\ c.step = "second" /\ c.expected = check.expected /\ c.good = good
  BY <1>1, <1>2, <1>3, CheckShapes DEF Checks
<1>5. check' = c /\ UNCHANGED <<build, metadata, recipe, archive>>
  BY <1>2 DEF Follow, outputs, sources
<1> HIDE DEF c
<1>6. CheckedSoFar'
  BY <1>1, <1>2, <1>3, <1>4, <1>5 DEF CheckedSoFar, Image
<1>7. /\ installed' \in Version \cup {Absent} /\ verified' \in BOOLEAN /\ disturbed' \in BOOLEAN
      /\ residue' \subseteq {"temporary", "scratch", "leftover"} /\ faults' \in 0..MaxFaults
  BY <1>1, <1>2 DEF TypeOK
<1> QED
  BY <1>2, <1>4, <1>6, <1>7, FollowStep

(* It passes when both images are the one expected and nothing overtook    *)
(* it.                                                                     *)
LEMMA EndCheckStep ==
  ASSUME IInv, EndCheck
  PROVE  IInv'
<1>1. TypeOK /\ ManifestCoherent /\ DecisionKept /\ WrittenSoFar /\ ReadSoFar /\ CheckedSoFar
  BY DEF IInv
<1>2. /\ check.step = "second" /\ Follow(Idle) /\ residue' = residue \ {"scratch"}
      /\ verified' = (check.good /\ Reproduced(check))
      /\ UNCHANGED <<installed, disturbed, faults>>
  BY DEF EndCheck
<1>3. Idle \in Checks /\ Idle.step = "idle"
  BY DEF Checks, Idle
<1>4. check' = Idle /\ UNCHANGED <<build, metadata, recipe, archive>>
  BY <1>2 DEF Follow, outputs, sources
<1>5. verified' => build.step = "idle" /\ metadata = Image(recipe, archive)
  BY <1>1, <1>2 DEF CheckedSoFar
<1>6. CheckedSoFar'
  BY <1>3, <1>4, <1>5 DEF CheckedSoFar, Image
<1>7. check.good \in BOOLEAN /\ Reproduced(check) \in BOOLEAN
  BY <1>1, <1>2, CheckShapes DEF Reproduced
<1>8. /\ installed' \in Version \cup {Absent} /\ verified' \in BOOLEAN /\ disturbed' \in BOOLEAN
      /\ residue' \subseteq {"temporary", "scratch", "leftover"} /\ faults' \in 0..MaxFaults
  BY <1>1, <1>2, <1>7 DEF TypeOK
<1> QED
  BY <1>2, <1>3, <1>6, <1>8, FollowStep

(* It ends without a verdict.                                              *)
LEMMA FailCheckStep ==
  ASSUME IInv, FailCheck
  PROVE  IInv'
<1>1. TypeOK /\ ManifestCoherent /\ DecisionKept /\ WrittenSoFar /\ ReadSoFar /\ CheckedSoFar
  BY DEF IInv
<1>2. /\ Follow(Idle) /\ residue' = residue \ {"scratch"}
      /\ UNCHANGED <<installed, disturbed, verified, faults>>
  BY DEF FailCheck
<1>3. Idle \in Checks /\ Idle.step = "idle"
  BY DEF Checks, Idle
<1>4. check' = Idle /\ UNCHANGED <<build, metadata, recipe, archive>>
  BY <1>2 DEF Follow, outputs, sources
<1>5. CheckedSoFar'
  BY <1>1, <1>2, <1>3, <1>4 DEF CheckedSoFar, Image
<1>6. /\ installed' \in Version \cup {Absent} /\ verified' \in BOOLEAN /\ disturbed' \in BOOLEAN
      /\ residue' \subseteq {"temporary", "scratch", "leftover"} /\ faults' \in 0..MaxFaults
  BY <1>1, <1>2 DEF TypeOK
<1> QED
  BY <1>2, <1>3, <1>5, <1>6, FollowStep
-----------------------------------------------------------------------------
(* Every initial state satisfies the invariant.                            *)
LEMMA InitIInv == Init => IInv
<1>1. SUFFICES ASSUME Init PROVE IInv
  OBVIOUS
<1>2. PICK v \in Version :
    /\ template = [f \in TemplateFile |-> IF f = "extra" THEN Absent ELSE v]
    /\ recipe = v /\ lacking = {} /\ installed = Absent
    /\ texts = v /\ licenses = Built(v).licenses /\ sbom = v
    /\ files = Built(v).tree /\ archive = Built(v).tree
    /\ metadata = Built(v).image /\ provenance = Built(v).provenance
    /\ design = Built(v).design /\ manifest = Built(v).manifest
    /\ adr = "Proposed"
    /\ build = Idle /\ check = Idle
    /\ verified = FALSE /\ disturbed = FALSE /\ frozen = Absent
    /\ residue = {} /\ edits = 0 /\ faults = 0
  BY <1>1 DEF Init
<1> DEFINE ls   == [lock |-> v, texts |-> v]
           tree == [f \in {"package-lock.json", "page"} |-> v]
           img  == Image(v, tree)
           arts == [archive |-> tree, lock |-> v, sbom |-> v, licenses |-> ls, image |-> img]
           dd   == [status |-> "PROPOSED", artifacts |-> arts]
<1>3. /\ Built(v).licenses = ls /\ Built(v).tree = tree /\ Built(v).image = img
      /\ Built(v).design = dd
      /\ Built(v).provenance = [image |-> img, recipe |-> v, inputs |-> arts]
      /\ Built(v).manifest = [status |-> "PROPOSED", artifacts |-> arts, design |-> dd]
  BY DEF Built
<1>4. tree \in Tree /\ ls \in LicenseReports
  BY DEF Tree, LicenseReports
<1> HIDE DEF tree, ls
<1>5. img \in Images
  BY <1>4 DEF Images, Image
<1> HIDE DEF img
<1>6. arts \in Bound /\ arts.sbom = arts.lock
  BY <1>4, <1>5 DEF Bound
<1> HIDE DEF arts
<1>7. dd \in Designs /\ dd.status = "PROPOSED" /\ dd.artifacts = arts
  BY <1>6 DEF Designs, Status
<1> HIDE DEF dd
<1>8. /\ provenance \in Provenances /\ manifest \in Manifests
      /\ manifest.status = "PROPOSED" /\ manifest.artifacts = arts /\ manifest.design = dd
  BY <1>2, <1>3, <1>5, <1>6, <1>7 DEF Provenances, Manifests, Status
<1>9. /\ template \in [TemplateFile -> Version \cup {Absent}]
      /\ template["package-lock.json"] \in Version /\ template["page"] \in Version
  BY <1>2 DEF TemplateFile
<1>10. /\ build \in Builds /\ build.step = "idle" /\ check \in Checks /\ check.step = "idle"
  BY <1>2 DEF Idle, Builds, Checks
<1>11. TypeOK
  <2>1. /\ licenses \in LicenseReports /\ files \in Tree /\ archive \in Tree
        /\ metadata \in Images /\ design \in Designs
    BY <1>2, <1>3, <1>4, <1>5, <1>7
  <2>2. edits \in 0..MaxEdits /\ faults \in 0..MaxFaults
    BY <1>2, BundleConstants
  <2>3. /\ recipe \in Version /\ lacking \subseteq Part /\ sbom \in Version
        /\ installed \in Version \cup {Absent} /\ texts \in Version \cup {Absent}
        /\ adr \in {"Proposed", "Accepted"} /\ verified \in BOOLEAN /\ disturbed \in BOOLEAN
        /\ frozen \in Bound \cup {Absent}
        /\ residue \subseteq {"temporary", "scratch", "leftover"}
    BY <1>2
  <2> QED
    BY <1>8, <1>9, <1>10, <2>1, <2>2, <2>3 DEF TypeOK
<1>12. ManifestCoherent /\ DecisionKept
  BY <1>2, <1>3, <1>6, <1>7, <1>8 DEF ManifestCoherent, DecisionKept
<1>13. WrittenSoFar /\ ReadSoFar
  BY <1>10 DEF WrittenSoFar, ReadSoFar,
         AfterManifest, AfterDesign, AfterProvenance, AfterMetadata, AfterImage, AfterArchive,
         AfterFiles, AfterSbom, AfterLicenses, AfterTexts
<1>14. CheckedSoFar
  BY <1>2, <1>10 DEF CheckedSoFar
<1> QED
  BY <1>11, <1>12, <1>13, <1>14 DEF IInv

(* A step that changes nothing keeps the invariant.                        *)
LEMMA StutterIInv ==
  ASSUME IInv, UNCHANGED vars
  PROVE  IInv'
<1>1. TypeOK /\ ManifestCoherent /\ DecisionKept /\ WrittenSoFar /\ ReadSoFar /\ CheckedSoFar
  BY DEF IInv
<1>2. UNCHANGED <<template, recipe, lacking, installed,
                  texts, licenses, sbom, files, archive, metadata, provenance, design, manifest,
                  adr, build, check,
                  verified, disturbed, frozen, residue, edits, faults>>
  BY DEF vars, sources, outputs, history
<1>3. TypeOK'
  BY <1>1, <1>2 DEF TypeOK
<1>4. ManifestCoherent' /\ DecisionKept'
  BY <1>1, <1>2 DEF ManifestCoherent, DecisionKept
<1>5. WrittenSoFar'
  BY <1>1, <1>2 DEF WrittenSoFar, BuiltDesign, Artifacts
<1>6. ReadSoFar'
  BY <1>1, <1>2 DEF ReadSoFar, Lock, Present, Image
<1>7. CheckedSoFar'
  BY <1>1, <1>2 DEF CheckedSoFar, Image
<1> QED
  BY <1>3, <1>4, <1>5, <1>6, <1>7 DEF IInv

(* Every step keeps the invariant.                                         *)
LEMMA NextIInv == IInv /\ [Next]_vars => IInv'
<1>1. SUFFICES ASSUME IInv, Next PROVE IInv'
  BY StutterIInv
<1>2. CASE Edit \/ BeginBuild \/ FailBuild \/ KillBuild \/ Accept \/ Reopen
  BY <1>1, <1>2, EditStep, BeginBuildStep, FailBuildStep, KillBuildStep, AcceptStep, ReopenStep
<1>3. CASE BuildStep
  BY <1>1, <1>3, ClearLicensesStep, WriteTextsStep, WriteLicensesStep, WriteSbomStep, WriteFilesStep,
     WriteArchiveStep, BuildImageStep, AbortArchiveStep, WriteMetadataStep, WriteProvenanceStep,
     WriteDesignStep, WriteManifestStep, EndBuildStep DEF BuildStep
<1>4. CASE CheckStep
  BY <1>1, <1>4, BeginCheckStep, InstallTemplateStep, RebuildStep, EndCheckStep, FailCheckStep
     DEF CheckStep
<1> QED
  BY <1>1, <1>2, <1>3, <1>4 DEF Next

(* Types, the coherence of the manifest, the decision of the owners and    *)
(* what build and verification have done so far hold in every reachable    *)
(* state, wherever a build was killed.                                     *)
THEOREM InductiveInvariant == Spec => []IInv
  BY InitIInv, NextIInv, PTL DEF Spec

(* A set that validates binds what is there although the validator never   *)
(* compares it, and a verification that passed is of what is there.        *)
THEOREM ValidatedSetIsBound == Spec => []CheckedSetAgrees
<1>1. IInv => CheckedSetAgrees
  <2>1. SUFFICES ASSUME IInv PROVE CheckedSetAgrees
    OBVIOUS
  <2>2. TypeOK /\ ManifestCoherent /\ CheckedSoFar
    BY <2>1 DEF IInv
  <2>3. ASSUME Validates
        PROVE  /\ design.artifacts = [archive |-> archive, lock |-> Lock, sbom |-> sbom,
                                      licenses |-> licenses, image |-> metadata]
               /\ sbom = Lock
    <3>1. DigestsMatch
      BY <2>3 DEF Validates
    <3>2. /\ manifest.artifacts.archive = archive /\ manifest.artifacts.lock = Lock
          /\ manifest.artifacts.sbom = sbom /\ manifest.artifacts.licenses = licenses
          /\ manifest.artifacts.image = metadata /\ manifest.design = design
      BY <3>1 DEF DigestsMatch
    <3>3. design.artifacts = manifest.artifacts /\ manifest.artifacts.sbom = manifest.artifacts.lock
      BY <2>2, <3>2 DEF ManifestCoherent
    <3>4. manifest.artifacts \in Bound
      BY <2>2 DEF TypeOK, Manifests
    <3>5. manifest.artifacts = [archive |-> archive, lock |-> Lock, sbom |-> sbom,
                                licenses |-> licenses, image |-> metadata]
      BY <3>2, <3>4 DEF Bound
    <3> QED
      BY <3>2, <3>3, <3>5
  <2>4. verified => metadata = Image(recipe, archive)
    BY <2>2 DEF CheckedSoFar
  <2> QED
    BY <2>2, <2>3, <2>4 DEF CheckedSetAgrees
<1> QED
  BY <1>1, InductiveInvariant, PTL

(* A build that nobody disturbed ends with a set made from the sources as  *)
(* they are, and the validator passes it as a proposal.                    *)
THEOREM UndisturbedBuildsValidate == Spec => []UndisturbedBuildIsValid
<1>1. IInv => UndisturbedBuildIsValid
  <2>1. SUFFICES ASSUME IInv, build.step = "done", ~disturbed
                 PROVE  /\ archive = [f \in Present |-> template[f]]
                        /\ metadata = Image(recipe, archive)
                        /\ installed \in {Absent, Lock} => texts = Lock
                        /\ lacking = {} /\ adr = "Proposed" => Validates
    BY DEF UndisturbedBuildIsValid
  <2>2. TypeOK /\ ManifestCoherent /\ WrittenSoFar /\ ReadSoFar
    BY <2>1 DEF IInv
  <2>3. /\ build.lock = Lock /\ files = [f \in Present |-> template[f]]
        /\ archive = [f \in Present |-> template[f]] /\ build.image = Image(recipe, archive)
    BY <2>1, <2>2 DEF ReadSoFar,
         AfterManifest, AfterDesign, AfterProvenance, AfterMetadata, AfterImage, AfterArchive,
         AfterFiles, AfterSbom, AfterLicenses, AfterTexts
  <2>4. /\ texts \in Version /\ licenses = [lock |-> build.lock, texts |-> texts]
        /\ sbom = build.lock /\ metadata = build.image /\ provenance.image = build.image
        /\ design = BuiltDesign /\ manifest.artifacts = Artifacts /\ manifest.design = design
    BY <2>1, <2>2 DEF WrittenSoFar,
         AfterManifest, AfterDesign, AfterProvenance, AfterMetadata, AfterImage, AfterArchive,
         AfterFiles, AfterSbom, AfterLicenses, AfterTexts
  <2>5. installed \in {Absent, Lock} => texts = Lock
    BY <2>1, <2>2 DEF ReadSoFar,
         AfterManifest, AfterDesign, AfterProvenance, AfterMetadata, AfterImage, AfterArchive,
         AfterFiles, AfterSbom, AfterLicenses, AfterTexts
  <2>6. ASSUME lacking = {}, adr = "Proposed" PROVE Validates
    <3>1. ProseComplete /\ SchemaClosed /\ RowsComplete
      BY <2>6 DEF ProseComplete, SchemaClosed, RowsComplete
    <3>2. StatusAgrees
      BY <2>2, <2>4, <2>6 DEF StatusAgrees, BuiltDesign, ManifestCoherent
    <3>3. LicensesMatch
      <4>1. texts # Absent
        BY <2>4, BundleConstants
      <4> QED
        BY <2>3, <2>4, <4>1 DEF LicensesMatch
    <3>4. FilesMatch
      BY <2>3 DEF FilesMatch
    <3>5. ImageMatches
      BY <2>4 DEF ImageMatches
    <3>6. DigestsMatch
      BY <2>3, <2>4 DEF DigestsMatch, Artifacts
    <3> QED
      BY <3>1, <3>2, <3>3, <3>4, <3>5, <3>6 DEF Validates
  <2> QED
    BY <2>3, <2>4, <2>5, <2>6
<1> QED
  BY <1>1, InductiveInvariant, PTL

(* No rebuild, complete or killed halfway, slips other artifacts under the *)
(* decision of the owners while the set validates.                         *)
THEOREM AcceptanceIsFrozen == Spec => []AcceptedIsFrozen
<1>1. IInv => AcceptedIsFrozen
  BY DEF IInv, DecisionKept, AcceptedIsFrozen, Validates, StatusAgrees
<1> QED
  BY <1>1, InductiveInvariant, PTL
=============================================================================
