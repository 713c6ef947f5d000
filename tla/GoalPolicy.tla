----------------------------- MODULE GoalPolicy -----------------------------
(***************************************************************************)
(* goal-qualification.ts with its policy, goal-scope.policy.ts, the body   *)
(* rules of create-goal.dto.ts and attachment-validator.ts: the decisions  *)
(* taken on a request before any row is written.                           *)
(*                                                                         *)
(* The text of a goal is reduced to what the patterns find in it: the      *)
(* capabilities and other signals, the largest number of screens it        *)
(* mentions, and the gaps of the fields it leaves vague.  A file is        *)
(* reduced to what it holds and where, beside which stands what the        *)
(* inspections of its bytes find.                                          *)
(***************************************************************************)
EXTENDS Naturals, Sequences, FiniteSets, FiniteSetsExt

MaxScreens == 5
MaxClarificationQuestions == 5

(* GOAL_REASON_CODE_ORDER: the codes a refusal may carry.  The lists of an *)
(* evaluation are sets here, except where a list is cut.                   *)
ReasonCode ==
  {"GOAL_CATEGORY_UNSUPPORTED", "GOAL_TOO_MANY_PERSONAS", "GOAL_TOO_MANY_FLOWS",
    "GOAL_TOO_MANY_SCREENS", "GOAL_PLATFORM_UNSUPPORTED", "GOAL_TEMPLATE_UNAVAILABLE",
    "GOAL_REQUIRES_BACKEND", "GOAL_REQUIRES_REAL_DATA", "GOAL_CAPABILITY_UNSUPPORTED",
    "GOAL_NEEDS_CLARIFICATION"}

(* DENIED_CAPABILITY_PATTERNS.                                             *)
Capability ==
  {"production_deployment", "generated_backend", "production_database", "real_authentication",
    "real_payment", "email_delivery", "third_party_business_api", "sensitive_data",
    "native_mobile", "native_desktop", "browser_extension", "multi_user_collaboration",
    "multiple_primary_flows", "multiple_concurrent_initiatives", "custom_employees",
    "arbitrary_shell", "unrestricted_network", "external_business_action"}

(* The reason each denied capability is refused for.                       *)
CapabilityReason(c) ==
  CASE c \in {"generated_backend", "production_database"} -> "GOAL_REQUIRES_BACKEND"
    [] c \in {"native_mobile", "native_desktop", "browser_extension"} -> "GOAL_PLATFORM_UNSUPPORTED"
    [] c = "multiple_primary_flows" -> "GOAL_TOO_MANY_FLOWS"
    [] OTHER -> "GOAL_CAPABILITY_UNSUPPORTED"

ScopeRules ==
  {"allowed_categories", "one_primary_persona", "one_primary_flow", "max_five_screens",
    "max_five_screens_in_text", "client_only", "mock_or_local_data", "fixed_react_template"}

Rules == ScopeRules \cup Capability

Signal == {"unsupported_category", "several_personas", "other_stack", "react"} \cup Capability

QuestionOrder ==
  <<"missing_target_user", "vague_problem", "vague_outcome", "vague_flow", "missing_must_have">>

Gap == {QuestionOrder[i] : i \in DOMAIN QuestionOrder}

Goal == [signals : SUBSET Signal, max_screens : Nat, mentioned : Nat, primary_flows : Nat,
         client_only : BOOLEAN, mock_data : BOOLEAN, gaps : SUBSET Gap,
         start_run : BOOLEAN, unique_ids : BOOLEAN]

(* class-validator on the body: what is outside is answered 400.  An       *)
(* absent must-have and a vague text pass.                                 *)
BodyValid(g) == g.max_screens \in 1..5 /\ g.primary_flows = 1 /\ g.mock_data

(* assertCommand: otherwise 422, before the goal is looked at.             *)
CommandAccepted(g) == g.start_run /\ g.unique_ids

(* The number of screens is looked for in the text only when the declared  *)
(* number is within the limit.                                             *)
TextScreens(g) == g.max_screens <= MaxScreens /\ g.mentioned > MaxScreens

(* One finding per rule that a goal breaks.                                *)
Violates(g, rule) ==
  CASE rule = "allowed_categories"       -> "unsupported_category" \in g.signals
    [] rule = "one_primary_persona"      -> "several_personas" \in g.signals
    [] rule = "one_primary_flow"         -> g.primary_flows # 1
    [] rule = "max_five_screens"         -> g.max_screens > MaxScreens
    [] rule = "max_five_screens_in_text" -> TextScreens(g)
    [] rule = "client_only"              -> ~g.client_only
    [] rule = "mock_or_local_data"       -> ~g.mock_data
    [] rule = "fixed_react_template"     -> "other_stack" \in g.signals /\ "react" \notin g.signals
    [] OTHER                             -> rule \in g.signals

ReasonOf(rule) ==
  CASE rule = "allowed_categories"   -> "GOAL_CATEGORY_UNSUPPORTED"
    [] rule = "one_primary_persona"  -> "GOAL_TOO_MANY_PERSONAS"
    [] rule = "one_primary_flow"     -> "GOAL_TOO_MANY_FLOWS"
    [] rule \in {"max_five_screens", "max_five_screens_in_text"} -> "GOAL_TOO_MANY_SCREENS"
    [] rule = "client_only"          -> "GOAL_REQUIRES_BACKEND"
    [] rule = "mock_or_local_data"   -> "GOAL_REQUIRES_REAL_DATA"
    [] rule = "fixed_react_template" -> "GOAL_TEMPLATE_UNAVAILABLE"
    [] OTHER                         -> CapabilityReason(rule)

(* Mutant of Findings: the evaluation ends with the first rule broken.     *)
FirstFinding(g) ==
  LET all == {rule \in Rules : Violates(g, rule)}
  IN  {rule \in all : rule = CHOOSE first \in all : TRUE}

Findings(g) == {rule \in Rules : Violates(g, rule)}

(* uniqueReasonCodes: the published codes that some finding carries.       *)
ReasonCodes(findings) == {code \in ReasonCode : \E rule \in findings : ReasonOf(rule) = code}

(* proposalFor: the capabilities the founder is told to remove.            *)
CitedCapabilities(findings) == findings \cap Capability

(* The first MaxClarificationQuestions of the questions for the gaps.      *)
Questions(g) ==
  LET asked == {i \in DOMAIN QuestionOrder : QuestionOrder[i] \in g.gaps}
  IN  {QuestionOrder[i] : i \in {i \in asked :
         Cardinality({j \in asked : j < i}) < MaxClarificationQuestions}}

OutOfScope(g) == ReasonCodes(Findings(g)) # {}

(* evaluateGoalQualification.                                              *)
Evaluate(g) ==
  LET findings  == Findings(g)
      questions == Questions(g)
      estimate  == Max({g.max_screens, g.mentioned})
  IN  IF OutOfScope(g)
        THEN [result |-> "out_of_scope", reason_codes |-> ReasonCodes(findings),
              remove |-> CitedCapabilities(findings), questions |-> {}, screen_estimate |-> estimate]
      ELSE IF questions # {}
        THEN [result |-> "needs_clarification", reason_codes |-> {"GOAL_NEEDS_CLARIFICATION"},
              remove |-> {}, questions |-> questions, screen_estimate |-> estimate]
        ELSE [result |-> "qualified", reason_codes |-> {},
              remove |-> {}, questions |-> {}, screen_estimate |-> estimate]
-----------------------------------------------------------------------------
ImageType == {"image/png", "image/jpeg", "image/webp"}
MediaType == {"text/plain", "text/markdown", "application/pdf"} \cup ImageType

(* What the policy denies inside a file: what its first bytes make it (an  *)
(* executable, an archive, a script), markup (HTML, SVG), entries of a PDF *)
(* (encryption, embedded files, active content), the malware signature.    *)
Content == {"leading", "markup", "pdf_entry", "malware"}

(* Where it first occurs; deniedClass reads the first 4096 bytes as text.  *)
Place == {"no", "head", "beyond"}

(* A file as it is.  The detected type is what its leading bytes say,      *)
(* unknown for bytes that are no text either; extent is the number of its  *)
(* pages or of its pixels once decoded, within or over the limit; layout   *)
(* tells how that number is written: plainly, in a form the code does not  *)
(* read (compressed page objects, a WebP without VP8X header), not at all  *)
(* (cut short), or amid text that looks like more pages.                   *)
Bytes == [detected : (MediaType \ {"text/markdown"}) \cup {"unknown"}, holds : [Content -> Place],
          extent : {"within", "over"}, layout : {"plain", "hidden", "unreadable", "crowded"}]

(* The combinations that files show.                                       *)
Occurs(b) ==
  /\ b.holds["leading"] \in {"no", "head"}
  /\ b.holds["leading"] = "head" => b.detected \in {"text/plain", "unknown"}
  /\ b.holds["pdf_entry"] # "no" => b.detected = "application/pdf"
  /\ b.extent = "over" => b.detected \in ImageType \cup {"application/pdf"}
  /\ b.layout = "hidden" => b.detected \in {"image/webp", "application/pdf"}
  /\ b.layout = "unreadable" => b.detected \in ImageType
  /\ b.layout = "crowded" => b.detected = "application/pdf"

(* An upload: the file and what is said of it.                             *)
File == [declared : MediaType \cup {"other"}, name : {"safe", "unsafe", "executable"}, size : Nat,
         digest_matches : BOOLEAN, bytes : {b \in Bytes : Occurs(b)}]

(* Markdown cannot be told from plain text.                                *)
Detected(f) ==
  IF f.declared = "text/markdown" /\ f.bytes.detected = "text/plain"
    THEN "text/markdown" ELSE f.bytes.detected

(* Mutant of DeniedFound: the malware signature too is looked for in the   *)
(* head only.                                                              *)
DeniedInHead(f) ==
  \E c \in Content : f.bytes.holds[c] = "head" /\ (c = "pdf_entry" => Detected(f) = "application/pdf")

(* deniedClass: the malware signature alone is looked for in all bytes.    *)
DeniedFound(f) ==
  \E c \in Content : /\ f.bytes.holds[c] = "head" \/ (c = "malware" /\ f.bytes.holds[c] = "beyond")
                     /\ c = "pdf_entry" => Detected(f) = "application/pdf"

(* pdfPageCount counts what looks like a page object, one at least; the    *)
(* pixels of an image are those its header declares, infinitely many when  *)
(* there is none, and 1 for a WebP of another form than VP8X.              *)
MeasuredOver(f) ==
  CASE f.bytes.layout = "plain" -> f.bytes.extent = "over"
    [] f.bytes.layout = "hidden" -> FALSE
    [] f.bytes.layout \in {"unreadable", "crowded"} -> TRUE

(* The checks of validateAttachmentIngest, in their order.                 *)
Checks(f, perFileMax) ==
  <<[fails |-> f.declared \notin MediaType,     code |-> "attachment_type_unsupported"],
    [fails |-> f.name = "unsafe",               code |-> "attachment_validation_failed"],
    [fails |-> f.name = "executable",           code |-> "attachment_unsafe"],
    [fails |-> f.size = 0,                      code |-> "attachment_validation_failed"],
    [fails |-> f.declared \in MediaType /\ f.size > perFileMax[f.declared],
                                                code |-> "attachment_too_large"],
    [fails |-> ~f.digest_matches,               code |-> "attachment_validation_failed"],
    [fails |-> Detected(f) = "unknown",         code |-> "attachment_unsafe"],
    [fails |-> Detected(f) # f.declared,        code |-> "attachment_validation_failed"],
    [fails |-> DeniedFound(f),                  code |-> "attachment_unsafe"],
    [fails |-> MeasuredOver(f) /\ Detected(f) = "application/pdf",
                                                code |-> "attachment_pdf_too_long"],
    [fails |-> MeasuredOver(f) /\ Detected(f) \in ImageType,
                                                code |-> "attachment_image_too_large"]>>

(* The code of the first check that fails.                                 *)
Verdict(f, perFileMax) ==
  LET checks == Checks(f, perFileMax)
      failed == {i \in DOMAIN checks : checks[i].fails}
  IN  IF failed = {} THEN "accepted" ELSE checks[Min(failed)].code
=============================================================================
