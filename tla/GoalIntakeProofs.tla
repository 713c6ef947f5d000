-------------------------- MODULE GoalIntakeProofs --------------------------
(***************************************************************************)
(* Theorems about GoalIntake and the decisions of GoalPolicy: what         *)
(* validateAttachmentIngest decides for every file, that a refused goal    *)
(* can be narrowed, and what the rows of goals, runs and rejections keep   *)
(* to, for any sets of objects and handlers and any limits.                *)
(***************************************************************************)
EXTENDS GoalIntake, FiniteSetTheorems, WellFoundedInduction, TLAPS
-----------------------------------------------------------------------------
(* Every rule is refused for a published reason, so a goal is out of scope *)
(* as soon as it breaks one rule.                                          *)
LEMMA ReasonsPublished == \A rule \in Rules : ReasonOf(rule) \in ReasonCode
<1>1. \A c \in Capability : CapabilityReason(c) \in ReasonCode
  BY DEF CapabilityReason, ReasonCode, Capability
<1> QED
  BY <1>1 DEF Rules, ScopeRules, ReasonOf, ReasonCode

(* A goal is out of scope exactly when a rule finds something.             *)
LEMMA OutOfScopeIffFinding == \A g : OutOfScope(g) <=> Findings(g) # {}
  BY ReasonsPublished DEF OutOfScope, ReasonCodes, Findings

(* Of the checks that fail, one is the first.                              *)
LEMMA LeastCheck ==
  ASSUME NEW S \in SUBSET (1..11), S # {}
  PROVE  Min(S) \in S /\ \A y \in S : Min(S) <= y
<1>1. \E x \in S : \A y \in S : x <= y
  <2>1. ASSUME NEW k \in 1..11, k \in S, \A j \in 1..11 : j < k => j \notin S
        PROVE  \E x \in S : \A y \in S : x <= y
    BY <2>1
  <2>2. SUFFICES ASSUME \A k \in 1..11 : k \in S => \E j \in 1..11 : j < k /\ j \in S
                 PROVE  FALSE
    BY <2>1
  <2>3. 1 \notin S
    BY <2>2
  <2>4. 2 \notin S
    BY <2>2, <2>3
  <2>5. 3 \notin S
    BY <2>2, <2>3, <2>4
  <2>6. 4 \notin S
    BY <2>2, <2>3, <2>4, <2>5
  <2>7. 5 \notin S
    BY <2>2, <2>3, <2>4, <2>5, <2>6
  <2>8. 6 \notin S
    BY <2>2, <2>3, <2>4, <2>5, <2>6, <2>7
  <2>9. 7 \notin S
    BY <2>2, <2>3, <2>4, <2>5, <2>6, <2>7, <2>8
  <2>10. 8 \notin S
    BY <2>2, <2>3, <2>4, <2>5, <2>6, <2>7, <2>8, <2>9
  <2>11. 9 \notin S
    BY <2>2, <2>3, <2>4, <2>5, <2>6, <2>7, <2>8, <2>9, <2>10
  <2>12. 10 \notin S
    BY <2>2, <2>3, <2>4, <2>5, <2>6, <2>7, <2>8, <2>9, <2>10, <2>11
  <2>13. 11 \notin S
    BY <2>2, <2>3, <2>4, <2>5, <2>6, <2>7, <2>8, <2>9, <2>10, <2>11, <2>12
  <2>14. PICK k \in S : TRUE
    OBVIOUS
  <2>15. k \in 1..11
    OBVIOUS
  <2> QED
    BY <2>14, <2>15, <2>3, <2>4, <2>5, <2>6, <2>7, <2>8, <2>9, <2>10, <2>11, <2>12, <2>13
<1> QED
  BY <1>1, Zenon DEF Min

(* A goal is put out of scope for a finding, and gets one of the results.  *)
LEMMA GoalResult ==
  ASSUME NEW g
  PROVE  /\ Evaluate(g).result \in {"out_of_scope", "needs_clarification", "qualified"}
         /\ Evaluate(g).result = "out_of_scope" => Findings(g) # {}
<1>1. Evaluate(g).result = IF OutOfScope(g) THEN "out_of_scope"
                           ELSE IF Questions(g) # {} THEN "needs_clarification" ELSE "qualified"
  BY DEF Evaluate
<1> QED
  BY <1>1, OutOfScopeIffFinding
-----------------------------------------------------------------------------
(* The first check that fails names a code.                                *)
LEMMA ElevenChecks ==
  ASSUME NEW f, NEW perFileMax
  PROVE  /\ DOMAIN Checks(f, perFileMax) = 1..11
         /\ \A i \in 1..11 : Checks(f, perFileMax)[i].code \in RejectionCode
  BY DEF Checks, RejectionCode

(* The verdict on a file is a published code, and accepts exactly what     *)
(* fails no check.                                                         *)
LEMMA VerdictCodes ==
  ASSUME NEW f, NEW perFileMax
  PROVE  /\ Verdict(f, perFileMax) \in RejectionCode \cup {"accepted"}
         /\ Verdict(f, perFileMax) = "accepted" <=> \A i \in 1..11 : ~Checks(f, perFileMax)[i].fails
<1> DEFINE checks == Checks(f, perFileMax)
           failed == {i \in DOMAIN checks : checks[i].fails}
<1>1. DOMAIN checks = 1..11 /\ \A i \in 1..11 : checks[i].code \in RejectionCode
  BY ElevenChecks
<1>2. failed # {} => Min(failed) \in failed
  BY <1>1, LeastCheck
<1>3. Verdict(f, perFileMax) = IF failed = {} THEN "accepted" ELSE checks[Min(failed)].code
  BY DEF Verdict
<1>4. failed # {} => checks[Min(failed)].code \in RejectionCode
  BY <1>1, <1>2
<1>5. "accepted" \notin RejectionCode
  BY DEF RejectionCode
<1>6. failed = {} <=> \A i \in 1..11 : ~checks[i].fails
  BY <1>1
<1> HIDE DEF failed, checks
<1>7. /\ Verdict(f, perFileMax) \in RejectionCode \cup {"accepted"}
      /\ Verdict(f, perFileMax) = "accepted" <=> \A i \in 1..11 : ~checks[i].fails
  BY <1>3, <1>4, <1>5, <1>6
<1> QED
  BY <1>7 DEF checks

(* validateAttachmentIngest, for every file: what its eleven checks say.   *)
LEMMA FileDecision ==
  ASSUME NEW f \in File
  PROVE  Verdict(f, PerFileMax) = "accepted" <=>
           /\ f.declared = f.bytes.detected
                \/ (f.declared = "text/markdown" /\ f.bytes.detected = "text/plain")
           /\ f.declared \in MediaType /\ f.size \in 1..PerFileMax[f.declared]
           /\ f.name = "safe" /\ f.digest_matches /\ ~DeniedFound(f)
           /\ ~(MeasuredOver(f) /\ f.bytes.detected # "text/plain")
<1>1. /\ f.declared \in MediaType \cup {"other"} /\ f.name \in {"safe", "unsafe", "executable"}
      /\ f.size \in Nat /\ f.digest_matches \in BOOLEAN
      /\ f.bytes.detected \in (MediaType \ {"text/markdown"}) \cup {"unknown"}
  BY DEF File, Bytes
<1> DEFINE checks == Checks(f, PerFileMax)
<1>2. /\ checks[1].fails = (f.declared \notin MediaType)
      /\ checks[2].fails = (f.name = "unsafe")
      /\ checks[3].fails = (f.name = "executable")
      /\ checks[4].fails = (f.size = 0)
      /\ checks[5].fails = (f.declared \in MediaType /\ f.size > PerFileMax[f.declared])
      /\ checks[6].fails = (~f.digest_matches)
  BY DEF Checks
<1>3. /\ checks[7].fails = (Detected(f) = "unknown")
      /\ checks[8].fails = (Detected(f) # f.declared)
      /\ checks[9].fails = DeniedFound(f)
      /\ checks[10].fails = (MeasuredOver(f) /\ Detected(f) = "application/pdf")
      /\ checks[11].fails = (MeasuredOver(f) /\ Detected(f) \in ImageType)
  BY DEF Checks
<1>4. Verdict(f, PerFileMax) = "accepted" <=> \A i \in 1..11 : ~checks[i].fails
  BY VerdictCodes
<1> HIDE DEF checks
<1>5. (\A i \in 1..11 : ~checks[i].fails) <=>
        /\ ~checks[1].fails /\ ~checks[2].fails /\ ~checks[3].fails /\ ~checks[4].fails
        /\ ~checks[5].fails /\ ~checks[6].fails /\ ~checks[7].fails /\ ~checks[8].fails
        /\ ~checks[9].fails /\ ~checks[10].fails /\ ~checks[11].fails
  OBVIOUS
<1>6. (\A i \in 1..11 : ~checks[i].fails) <=>
        /\ f.declared \in MediaType /\ f.name # "unsafe" /\ f.name # "executable"
        /\ f.size # 0 /\ ~(f.declared \in MediaType /\ f.size > PerFileMax[f.declared])
        /\ f.digest_matches /\ Detected(f) # "unknown" /\ Detected(f) = f.declared
        /\ ~DeniedFound(f) /\ ~(MeasuredOver(f) /\ Detected(f) = "application/pdf")
        /\ ~(MeasuredOver(f) /\ Detected(f) \in ImageType)
  BY <1>2, <1>3, <1>5, Zenon
<1>7. f.declared \in MediaType => PerFileMax[f.declared] \in Nat
  BY IntakeConstants
<1>8. (f.size # 0 /\ f.declared \in MediaType /\ ~(f.size > PerFileMax[f.declared])) <=>
        (f.declared \in MediaType /\ f.size \in 1..PerFileMax[f.declared])
  BY <1>1, <1>7
<1>9. (f.declared \in MediaType /\ Detected(f) # "unknown" /\ Detected(f) = f.declared) <=>
        /\ f.declared \in MediaType
        /\ f.declared = f.bytes.detected
             \/ (f.declared = "text/markdown" /\ f.bytes.detected = "text/plain")
  BY <1>1 DEF Detected, MediaType, ImageType
<1>10. (Detected(f) = f.declared /\ f.declared \in MediaType) =>
         ((Detected(f) = "application/pdf" \/ Detected(f) \in ImageType)
          <=> f.bytes.detected # "text/plain")
  BY <1>1 DEF Detected, MediaType, ImageType
<1>11. f.name = "safe" <=> f.name # "unsafe" /\ f.name # "executable"
  BY <1>1
<1> HIDE DEF checks
<1> QED
  BY <1>4, <1>6, <1>8, <1>9, <1>10, <1>11

(* deniedClass finds what is denied unless it is overlooked.               *)
LEMMA FoundUnlessOverlooked ==
  ASSUME NEW f \in File
  PROVE  DeniedFound(f) <=> \E c \in Content : SansOverlooked(f).bytes.holds[c] # "no"
<1> DEFINE holds == f.bytes.holds
<1>1. /\ holds \in [Content -> Place] /\ holds["leading"] \in {"no", "head"}
      /\ holds["pdf_entry"] # "no" => f.bytes.detected = "application/pdf"
  BY DEF File, Bytes, Occurs
<1>2. holds["pdf_entry"] # "no" => Detected(f) = "application/pdf"
  BY <1>1 DEF Detected
<1>3. SansOverlooked(f).bytes.holds =
        [c \in Content |-> IF c \in {"markup", "pdf_entry"} /\ holds[c] = "beyond" THEN "no" ELSE holds[c]]
  BY DEF SansOverlooked, File, Bytes
<1> HIDE DEF holds
<1>4. DeniedFound(f) <=>
        \E c \in Content : holds[c] = "head" \/ (c = "malware" /\ holds[c] = "beyond")
  BY <1>1, <1>2 DEF DeniedFound, holds
<1>5. \A c \in Content : holds[c] \in {"no", "head", "beyond"}
  BY <1>1 DEF Place
<1> QED
  BY <1>1, <1>3, <1>4, <1>5 DEF Content

(* Pages and pixels are measured unless they are written in another form,  *)
(* and a file without pages or pixels has none too many.                   *)
LEMMA MeasuredUnlessHidden ==
  ASSUME NEW f \in File
  PROVE  /\ ~(MeasuredOver(f) /\ f.bytes.detected # "text/plain")
              => SansOverlooked(f).bytes.extent = "within" \/ f.bytes.detected = "unknown"
         /\ (f.bytes.extent = "within" /\ f.bytes.layout \notin {"unreadable", "crowded"})
              => ~MeasuredOver(f)
<1>1. /\ f.bytes.layout \in {"plain", "hidden", "unreadable", "crowded"}
      /\ f.bytes.extent \in {"within", "over"}
      /\ f.bytes.extent = "over" => f.bytes.detected \in ImageType \cup {"application/pdf"}
  BY DEF File, Bytes, Occurs
<1>2. SansOverlooked(f).bytes.extent = IF f.bytes.layout = "hidden" THEN "within" ELSE f.bytes.extent
  BY DEF SansOverlooked, File, Bytes
<1>3. MeasuredOver(f) <=>
        (f.bytes.layout = "plain" /\ f.bytes.extent = "over") \/ f.bytes.layout \in {"unreadable", "crowded"}
  BY <1>1 DEF MeasuredOver
<1>4. f.bytes.detected = "text/plain" => f.bytes.extent = "within"
  BY <1>1 DEF ImageType
<1> QED
  BY <1>1, <1>2, <1>3, <1>4

(* What taking the overlooked away leaves as it was.                       *)
LEMMA SansOverlookedKeeps ==
  ASSUME NEW f \in File
  PROVE  /\ SansOverlooked(f).declared = f.declared /\ SansOverlooked(f).size = f.size
         /\ SansOverlooked(f).name = f.name /\ SansOverlooked(f).digest_matches = f.digest_matches
         /\ SansOverlooked(f).bytes.detected = f.bytes.detected
         /\ (\A c \in Content : f.bytes.holds[c] = "no")
              => \A c \in Content : SansOverlooked(f).bytes.holds[c] = "no"
  BY DEF SansOverlooked, File, Bytes

(* The verdict on a file against the policy.                               *)
LEMMA FileVerdict ==
  ASSUME NEW f \in File
  PROVE  /\ Permitted(f) /\ f.bytes.layout \notin {"unreadable", "crowded"}
              => Verdict(f, PerFileMax) = "accepted"
         /\ Verdict(f, PerFileMax) = "accepted" => Permitted(SansOverlooked(f))
<1>1. /\ f.declared \in MediaType \cup {"other"}
      /\ f.bytes.detected \in (MediaType \ {"text/markdown"}) \cup {"unknown"}
  BY DEF File, Bytes
<1>2. ASSUME Permitted(f), f.bytes.layout \notin {"unreadable", "crowded"}
      PROVE  Verdict(f, PerFileMax) = "accepted"
  <2>1. ~DeniedFound(f) /\ ~MeasuredOver(f)
    BY <1>2, FoundUnlessOverlooked, SansOverlookedKeeps, MeasuredUnlessHidden DEF Permitted
  <2>2. f.declared \in MediaType
    BY <1>1, <1>2 DEF Permitted, MediaType, ImageType
  <2> QED
    BY <1>2, <2>1, <2>2, FileDecision DEF Permitted
<1>3. ASSUME Verdict(f, PerFileMax) = "accepted"
      PROVE  Permitted(SansOverlooked(f))
  <2>1. /\ f.declared = f.bytes.detected
             \/ (f.declared = "text/markdown" /\ f.bytes.detected = "text/plain")
        /\ f.declared \in MediaType /\ f.size \in 1..PerFileMax[f.declared]
        /\ f.name = "safe" /\ f.digest_matches /\ ~DeniedFound(f)
        /\ ~(MeasuredOver(f) /\ f.bytes.detected # "text/plain")
    BY <1>3, FileDecision
  <2>2. \A c \in Content : SansOverlooked(f).bytes.holds[c] = "no"
    BY <2>1, FoundUnlessOverlooked
  <2>3. f.bytes.detected # "unknown"
    BY <2>1 DEF MediaType, ImageType
  <2>4. SansOverlooked(f).bytes.extent = "within"
    BY <2>1, <2>3, MeasuredUnlessHidden
  <2> QED
    BY <2>1, <2>2, <2>4, SansOverlookedKeeps DEF Permitted
<1> QED
  BY <1>2, <1>3
-----------------------------------------------------------------------------
(* The strengthening.                                                      *)

(* A founder who was refused once has only a number of screens left that   *)
(* the text mentions, and one who was refused twice nothing.               *)
DraftShrinks ==
  draft.kind = "goal" =>
    /\ draft.refusals \in 0..2
    /\ draft.refusals = 1 => Findings(draft.goal) \subseteq {"max_five_screens_in_text"}
    /\ draft.refusals = 2 => Findings(draft.goal) = {}

(* Where the run of a goal can stand, by the qualification of the goal.    *)
RunStands(result, r) ==
  IF result = "qualified"
    THEN \/ r.state = "DRAFT" /\ r.task \in {"QUEUED", "READY"}
         \/ r.state = "AWAITING_FOUNDER_INPUT" /\ r.task = "AWAITING_INPUT" /\ r.wait = "OPEN"
         \/ r.state = "AWAITING_BRIEF_APPROVAL" /\ r.task = "SUCCEEDED"
         \/ r.state = "BLOCKED" /\ r.task = "BLOCKED"
         \/ r.state = "CANCELED" /\ r.task \in {"SUCCEEDED", "CANCELED"}
    ELSE r.state \in {"AWAITING_FOUNDER_INPUT", "CANCELED"} /\ r.task = "none"

RunsStand == \A k \in DOMAIN goals : RunStands(goals[k].result, runs[k])

(* The handlers about to tell a client of a rejection for reason c: each   *)
(* has an event of its own that no client has been told of yet.            *)
Rejecting(c) == {h \in Handler : request[h].step = "reject" /\ request[h].code = c}

EventsAhead ==
  \A c \in RejectionCode :
    /\ IsFiniteSet(Rejecting(c))
    /\ told[c] + Cardinality(Rejecting(c)) <= audited[c]

IInv == TypeOK /\ DraftShrinks /\ RunsStand /\ EventsAhead
-----------------------------------------------------------------------------
(* What a revision leaves of a goal.                                       *)
LEMMA NarrowFields ==
  ASSUME NEW g \in Goal
  PROVE  LET n == Narrow(g)
             Cites(rule) == rule \in Findings(g)
         IN  /\ n \in Goal
             /\ n.signals = {s \in g.signals :
                    /\ s \notin Findings(g)
                    /\ ~(s = "unsupported_category" /\ Cites("allowed_categories"))
                    /\ ~(s = "several_personas" /\ Cites("one_primary_persona"))
                    /\ ~(s = "other_stack" /\ Cites("fixed_react_template"))}
             /\ n.max_screens = IF Cites("max_five_screens") THEN MaxScreens ELSE g.max_screens
             /\ n.mentioned = IF Cites("max_five_screens_in_text") THEN MaxScreens ELSE g.mentioned
             /\ n.primary_flows = IF Cites("one_primary_flow") THEN 1 ELSE g.primary_flows
             /\ n.client_only = (g.client_only \/ Cites("client_only"))
             /\ n.mock_data = (g.mock_data \/ Cites("mock_or_local_data"))
<1> DEFINE cited == Findings(g)
           kept == {s \in g.signals :
                    /\ s \notin cited
                    /\ ~(s = "unsupported_category" /\ "allowed_categories" \in cited)
                    /\ ~(s = "several_personas" /\ "one_primary_persona" \in cited)
                    /\ ~(s = "other_stack" /\ "fixed_react_template" \in cited)}
           screens == IF "max_five_screens" \in cited THEN MaxScreens ELSE g.max_screens
           mentioned == IF "max_five_screens_in_text" \in cited THEN MaxScreens ELSE g.mentioned
           flows == IF "one_primary_flow" \in cited THEN 1 ELSE g.primary_flows
           client == g.client_only \/ "client_only" \in cited
           mock == g.mock_data \/ "mock_or_local_data" \in cited
<1>1. Narrow(g) = [g EXCEPT !.signals = kept, !.max_screens = screens, !.mentioned = mentioned,
                            !.primary_flows = flows, !.client_only = client, !.mock_data = mock]
  BY DEF Narrow
<1>2. kept \in SUBSET Signal /\ client \in BOOLEAN /\ mock \in BOOLEAN
  BY DEF Goal
<1>3. screens \in Nat /\ mentioned \in Nat /\ flows \in Nat
  BY DEF Goal, MaxScreens
<1> HIDE DEF kept, screens, mentioned, flows, client, mock
<1>4. /\ Narrow(g) \in Goal
      /\ Narrow(g).signals = kept /\ Narrow(g).max_screens = screens
      /\ Narrow(g).mentioned = mentioned /\ Narrow(g).primary_flows = flows
      /\ Narrow(g).client_only = client /\ Narrow(g).mock_data = mock
  BY <1>1, <1>2, <1>3 DEF Goal
<1> QED
  BY <1>4 DEF kept, screens, mentioned, flows, client, mock

(* Everything else the boundary asks for holds after one revision: a rule  *)
(* broken by a signal, a flag or a number is cited with all the others.    *)
LEMMA NarrowOnce ==
  ASSUME NEW g \in Goal
  PROVE  Findings(Narrow(g)) \subseteq {"max_five_screens_in_text"}
<1> DEFINE n == Narrow(g)
           Cites(rule) == rule \in Findings(g)
<1>1. /\ n \in Goal
      /\ n.signals = {s \in g.signals :
            /\ s \notin Findings(g)
            /\ ~(s = "unsupported_category" /\ Cites("allowed_categories"))
            /\ ~(s = "several_personas" /\ Cites("one_primary_persona"))
            /\ ~(s = "other_stack" /\ Cites("fixed_react_template"))}
      /\ n.max_screens = IF Cites("max_five_screens") THEN MaxScreens ELSE g.max_screens
      /\ n.primary_flows = IF Cites("one_primary_flow") THEN 1 ELSE g.primary_flows
      /\ n.client_only = (g.client_only \/ Cites("client_only"))
      /\ n.mock_data = (g.mock_data \/ Cites("mock_or_local_data"))
  BY NarrowFields
<1> HIDE DEF n
<1>2. \A rule \in Rules : Cites(rule) <=> Violates(g, rule)
  BY DEF Findings
<1>3. SUFFICES ASSUME NEW rule \in Rules, Violates(n, rule), rule # "max_five_screens_in_text"
               PROVE  FALSE
  BY DEF Findings, n
<1>4. CASE rule \in Capability
  <2>1. rule \in n.signals
    BY <1>3, <1>4 DEF Violates, Capability
  <2>2. rule \in g.signals /\ rule \notin Findings(g)
    BY <2>1, <1>1
  <2>3. Violates(g, rule)
    BY <2>2, <1>4 DEF Violates, Capability
  <2> QED
    BY <2>2, <2>3, <1>2
<1>5. CASE rule = "allowed_categories"
  <2>1. "unsupported_category" \in n.signals
    BY <1>3, <1>5 DEF Violates
  <2>2. "unsupported_category" \in g.signals /\ ~Cites("allowed_categories")
    BY <2>1, <1>1
  <2>3. Violates(g, "allowed_categories")
    BY <2>2 DEF Violates
  <2> QED
    BY <2>2, <2>3, <1>2, <1>5
<1>6. CASE rule = "one_primary_persona"
  <2>1. "several_personas" \in n.signals
    BY <1>3, <1>6 DEF Violates
  <2>2. "several_personas" \in g.signals /\ ~Cites("one_primary_persona")
    BY <2>1, <1>1
  <2>3. Violates(g, "one_primary_persona")
    BY <2>2 DEF Violates
  <2> QED
    BY <2>2, <2>3, <1>2, <1>6
<1>7. CASE rule = "one_primary_flow"
  <2>1. n.primary_flows # 1
    BY <1>3, <1>7 DEF Violates
  <2>2. g.primary_flows # 1 /\ ~Cites("one_primary_flow")
    BY <2>1, <1>1
  <2>3. Violates(g, "one_primary_flow")
    BY <2>2 DEF Violates
  <2> QED
    BY <2>2, <2>3, <1>2, <1>7
<1>8. CASE rule = "max_five_screens"
  <2>1. n.max_screens > MaxScreens
    BY <1>3, <1>8 DEF Violates
  <2>2. g.max_screens > MaxScreens /\ ~Cites("max_five_screens")
    BY <2>1, <1>1 DEF MaxScreens
  <2>3. Violates(g, "max_five_screens")
    BY <2>2 DEF Violates
  <2> QED
    BY <2>2, <2>3, <1>2, <1>8
<1>9. CASE rule = "client_only"
  <2>1. ~n.client_only
    BY <1>3, <1>9 DEF Violates
  <2>2. ~g.client_only /\ ~Cites("client_only")
    BY <2>1, <1>1
  <2>3. Violates(g, "client_only")
    BY <2>2 DEF Violates
  <2> QED
    BY <2>2, <2>3, <1>2, <1>9
<1>10. CASE rule = "mock_or_local_data"
  <2>1. ~n.mock_data
    BY <1>3, <1>10 DEF Violates
  <2>2. ~g.mock_data /\ ~Cites("mock_or_local_data")
    BY <2>1, <1>1
  <2>3. Violates(g, "mock_or_local_data")
    BY <2>2 DEF Violates
  <2> QED
    BY <2>2, <2>3, <1>2, <1>10
<1>11. CASE rule = "fixed_react_template"
  <2>1. "other_stack" \in n.signals /\ "react" \notin n.signals
    BY <1>3, <1>11 DEF Violates
  <2>2. "react" \notin Findings(g)
    BY DEF Findings, Rules, ScopeRules, Capability
  <2>3. "other_stack" \in g.signals /\ "react" \notin g.signals /\ ~Cites("fixed_react_template")
    BY <2>1, <2>2, <1>1
  <2>4. Violates(g, "fixed_react_template")
    BY <2>3 DEF Violates
  <2> QED
    BY <2>3, <2>4, <1>2, <1>11
<1> QED
  BY <1>3, <1>4, <1>5, <1>6, <1>7, <1>8, <1>9, <1>10, <1>11 DEF Rules, ScopeRules

(* With only the screens of the text left, a second revision is the last.  *)
LEMMA NarrowTwice ==
  ASSUME NEW g \in Goal, Findings(g) \subseteq {"max_five_screens_in_text"}
  PROVE  Findings(Narrow(g)) = {}
<1>1. Findings(Narrow(g)) \subseteq {"max_five_screens_in_text"}
  BY NarrowOnce
<1>2. SUFFICES ASSUME Violates(Narrow(g), "max_five_screens_in_text") PROVE FALSE
  BY <1>1 DEF Findings
<1>3. Narrow(g).mentioned > MaxScreens /\ Narrow(g).max_screens <= MaxScreens
  BY <1>2 DEF Violates, TextScreens
<1>4. g.mentioned \in Nat /\ g.max_screens \in Nat
  BY DEF Goal
<1>5. g.mentioned > MaxScreens /\ "max_five_screens_in_text" \notin Findings(g)
  BY <1>3, <1>4, NarrowFields DEF MaxScreens
<1>6. "max_five_screens" \notin Findings(g)
  OBVIOUS
<1>7. g.max_screens <= MaxScreens
  BY <1>3, <1>6, NarrowFields
<1>8. Violates(g, "max_five_screens_in_text")
  BY <1>5, <1>7 DEF Violates, TextScreens
<1> QED
  BY <1>5, <1>8 DEF Findings, Rules, ScopeRules
-----------------------------------------------------------------------------
(* Frames: a conjunct survives a step that leaves its variables alone.     *)
LEMMA DraftFrame == DraftShrinks /\ UNCHANGED draft => DraftShrinks'
  BY DEF DraftShrinks

(* A step that leaves goals and runs alone leaves their standing.          *)
LEMMA RunsFrame == RunsStand /\ UNCHANGED <<goals, runs>> => RunsStand'
  BY DEF RunsStand

(* A step that leaves requests, answers and events alone leaves their      *)
(* agreement.                                                              *)
LEMMA EventsFrame == EventsAhead /\ UNCHANGED <<request, told, audited>> => EventsAhead'
<1>1. SUFFICES ASSUME EventsAhead, UNCHANGED <<request, told, audited>>
               PROVE  EventsAhead'
  OBVIOUS
<1>2. \A c \in RejectionCode : Rejecting(c)' = Rejecting(c)
  BY <1>1 DEF Rejecting
<1> QED
  BY <1>1, <1>2 DEF EventsAhead

(* A handler that turns to something else than a rejection leaves the set  *)
(* of those about to reject, or was not in it.                             *)
LEMMA TurnsAway ==
  ASSUME EventsAhead, TypeOK, NEW h \in Handler, NEW r \in Request, r.step # "reject",
         Become(h, r), UNCHANGED <<told, audited>>
  PROVE  EventsAhead'
<1>1. SUFFICES ASSUME NEW c \in RejectionCode
               PROVE  IsFiniteSet(Rejecting(c)') /\ (told[c] + Cardinality(Rejecting(c)) <= audited[c])'
  BY DEF EventsAhead
<1>2. Rejecting(c)' = Rejecting(c) \ {h}
  BY DEF Rejecting, Become, TypeOK
<1>3. IsFiniteSet(Rejecting(c)) /\ told[c] + Cardinality(Rejecting(c)) <= audited[c]
  BY DEF EventsAhead
<1>4. IsFiniteSet(Rejecting(c) \ {h}) /\ Cardinality(Rejecting(c) \ {h}) <= Cardinality(Rejecting(c))
  BY <1>3, FS_Subset
<1>5. Cardinality(Rejecting(c) \ {h}) \in Nat /\ Cardinality(Rejecting(c)) \in Nat
  BY <1>3, <1>4, FS_CardinalityType
<1>6. told[c] \in Nat /\ audited[c] \in Nat
  BY DEF TypeOK
<1> QED
  BY <1>2, <1>3, <1>4, <1>5, <1>6

(* A handler that moves on still has a request of the right shape.         *)
LEMMA RequestUpdate ==
  ASSUME TypeOK, NEW h \in Handler, NEW r \in Request, Become(h, r)
  PROVE  request' \in [Handler -> Request]
  BY DEF TypeOK, Become

(* A handler without a request has nothing to reject.                      *)
LEMMA IdleIsRequest == Idle \in Request /\ Idle.step # "reject"
  BY DEF Idle, Request

(* The shapes of a request by the step it is at.                           *)
LEMMA RequestShapes ==
  ASSUME NEW r \in Request
  PROVE  /\ r.step \in {"audit", "reject"} => r \in [step : {"audit", "reject"}, code : RejectionCode]
         /\ r.step = "ingest" => r \in [step : {"ingest"}, file : FileSample]
         /\ r.step = "start" =>
              r \in [step : {"start"}, goal : GoalSample, result : {"qualified", "needs_clarification"},
                     ids : Seq(Object), expected : Nat]
  BY DEF Request

(* One run changes: its row keeps its type and its standing.               *)
LEMMA RunUpdate ==
  ASSUME TypeOK, RunsStand, NEW k \in DOMAIN runs, NEW r \in Run,
         runs' = [runs EXCEPT ![k] = r], UNCHANGED goals,
         RunStands(goals[k].result, r)
  PROVE  runs' \in Seq(Run) /\ Len(runs') = Len(goals) /\ RunsStand'
<1>1. runs \in Seq(Run) /\ Len(runs) = Len(goals) /\ goals \in Seq(GoalRow)
  BY DEF TypeOK
<1>2. runs' \in Seq(Run) /\ Len(runs') = Len(runs)
  BY <1>1
<1>3. DOMAIN goals = DOMAIN runs
  BY <1>1
<1>4. ASSUME NEW j \in DOMAIN goals PROVE RunStands(goals[j].result, runs'[j])
  BY <1>3, <1>4 DEF RunsStand
<1> QED
  BY <1>1, <1>2, <1>4 DEF RunsStand
-----------------------------------------------------------------------------
(* One lemma per action: it preserves the invariant.                       *)
LEMMA ReviseDraftStep == IInv /\ ReviseDraft => IInv'
<1>1. SUFFICES ASSUME IInv, ReviseDraft PROVE IInv'
  OBVIOUS
<1>2. TypeOK /\ DraftShrinks /\ RunsStand /\ EventsAhead
  BY <1>1 DEF IInv
<1>3. UNCHANGED intake
  BY <1>1 DEF ReviseDraft
<1>4. draft \in [kind : {"goal"}, goal : Goal, refusals : Nat]
  BY <1>1, <1>2 DEF ReviseDraft, TypeOK, Draft
<1>5. draft' = [kind |-> "goal", goal |-> Narrow(draft.goal), refusals |-> draft.refusals + 1]
  <2>1. draft' = [draft EXCEPT !.goal = Narrow(draft.goal), !.refusals = draft.refusals + 1]
    BY <1>1 DEF ReviseDraft
  <2> QED
    BY <2>1, <1>4
<1>6. Narrow(draft.goal) \in Goal
  BY <1>4, NarrowFields
<1>7. Findings(draft.goal) # {}
  <2>1. Evaluate(draft.goal).result = "out_of_scope"
    BY <1>1, <1>4 DEF ReviseDraft
  <2> QED
    BY <2>1, GoalResult
<1>8. TypeOK'
  <2>1. draft' \in Draft
    BY <1>4, <1>5, <1>6 DEF Draft
  <2> QED
    BY <2>1, <1>2, <1>3 DEF TypeOK, intake
<1>9. DraftShrinks'
  <2>1. draft.refusals \in {0, 1}
    BY <1>2, <1>4, <1>7 DEF DraftShrinks
  <2>2. draft'.kind = "goal" /\ draft'.goal = Narrow(draft.goal) /\ draft'.refusals = draft.refusals + 1
    BY <1>5
  <2>3. Findings(Narrow(draft.goal)) \subseteq {"max_five_screens_in_text"}
    BY <1>4, NarrowOnce
  <2>4. draft.refusals = 1 => Findings(Narrow(draft.goal)) = {}
    BY <1>2, <1>4, NarrowTwice DEF DraftShrinks
  <2>5. draft'.refusals = 1 => Findings(draft'.goal) \subseteq {"max_five_screens_in_text"}
    BY <2>2, <2>3
  <2>6. draft'.refusals = 2 => draft.refusals = 1
    BY <2>1, <2>2
  <2>7. draft'.refusals = 2 => Findings(draft'.goal) = {}
    BY <2>2, <2>4, <2>6
  <2>8. draft'.refusals \in 0..2
    BY <2>1, <2>2
  <2> QED
    BY <2>5, <2>7, <2>8 DEF DraftShrinks
<1>10. RunsStand' /\ EventsAhead'
  BY <1>2, <1>3, RunsFrame, EventsFrame DEF intake
<1> QED
  BY <1>8, <1>9, <1>10 DEF IInv

(* The founder narrows the draft by what the refusal cites.                *)
LEMMA SettleDraftStep == IInv /\ SettleDraft => IInv'
<1>1. SUFFICES ASSUME IInv, SettleDraft PROVE IInv'
  OBVIOUS
<1>2. TypeOK /\ RunsStand /\ EventsAhead /\ UNCHANGED intake /\ draft' = [kind |-> "none"]
  BY <1>1 DEF IInv, SettleDraft
<1>3. TypeOK'
  BY <1>2 DEF TypeOK, intake, Draft
<1>4. RunsStand' /\ EventsAhead'
  BY <1>2, RunsFrame, EventsFrame DEF intake
<1>5. DraftShrinks'
  BY <1>2 DEF DraftShrinks
<1> QED
  BY <1>3, <1>4, <1>5 DEF IInv

(* An upload is accepted, or its rejection is to be audited.               *)
LEMMA UploadStep ==
  ASSUME IInv, UNCHANGED draft, NEW h \in Handler, NEW f \in FileSample, Upload(h, f)
  PROVE  IInv'
<1>1. TypeOK /\ DraftShrinks /\ RunsStand /\ EventsAhead
  BY DEF IInv
<1>2. uploads < MaxUploads /\ uploads' = uploads + 1
      /\ UNCHANGED <<objects, version, goals, runs, audited, told, faults>>
  BY DEF Upload
<1>3. PICK r \in Request : r.step # "reject" /\ Become(h, r)
  <2> DEFINE verdict == Verdict(f, PerFileMax)
  <2>1. verdict \in RejectionCode \cup {"accepted"}
    BY VerdictCodes
  <2>2. CASE verdict = "accepted"
    <3>1. [step |-> "ingest", file |-> f] \in Request
      BY DEF Request
    <3> QED
      BY <2>2, <3>1 DEF Upload
  <2>3. CASE verdict # "accepted"
    <3>1. [step |-> "audit", code |-> verdict] \in Request
      BY <2>1, <2>3 DEF Request
    <3>2. Become(h, [step |-> "audit", code |-> verdict])
      BY <2>3 DEF Upload
    <3> QED
      BY <3>1, <3>2
  <2> QED
    BY <2>2, <2>3
<1>4. request' \in [Handler -> Request] /\ EventsAhead'
  BY <1>1, <1>2, <1>3, RequestUpdate, TurnsAway
<1>5. uploads' \in 0..MaxUploads
  BY <1>1, <1>2, IntakeConstants DEF TypeOK
<1>6. TypeOK'
  BY <1>1, <1>2, <1>4, <1>5 DEF TypeOK
<1> QED
  BY <1>1, <1>2, <1>4, <1>6, DraftFrame, RunsFrame DEF IInv

(* The event of a rejection is written before the client is told.          *)
LEMMA AuditRejectionStep ==
  ASSUME IInv, UNCHANGED draft, NEW h \in Handler, AuditRejection(h)
  PROVE  IInv'
<1>1. TypeOK /\ DraftShrinks /\ RunsStand /\ EventsAhead
  BY DEF IInv
<1>2. UNCHANGED <<objects, version, goals, runs, told, uploads, faults>> /\ request[h].step = "audit"
  BY DEF AuditRejection
<1>3. PICK d \in RejectionCode : d = request[h].code
  BY <1>1, <1>2, RequestShapes DEF TypeOK
<1>4. request[h] = [step |-> "audit", code |-> d]
  BY <1>1, <1>2, <1>3, RequestShapes DEF TypeOK
<1>5. audited' = [audited EXCEPT ![d] = audited[d] + 1]
  BY <1>3 DEF AuditRejection
<1>6. Become(h, [step |-> "reject", code |-> d])
  BY <1>4 DEF AuditRejection
<1>7. [step |-> "reject", code |-> d] \in Request
  BY DEF Request
<1>8. request' \in [Handler -> Request]
  BY <1>1, <1>6, <1>7, RequestUpdate
<1>9. TypeOK'
  BY <1>1, <1>2, <1>5, <1>8 DEF TypeOK
<1>10. EventsAhead'
  <2>1. SUFFICES ASSUME NEW c \in RejectionCode
                 PROVE  IsFiniteSet(Rejecting(c)') /\ (told[c] + Cardinality(Rejecting(c)) <= audited[c])'
    BY DEF EventsAhead
  <2>2. IsFiniteSet(Rejecting(c)) /\ told[c] + Cardinality(Rejecting(c)) <= audited[c]
    BY <1>1 DEF EventsAhead
  <2>3. told[c] \in Nat /\ audited[c] \in Nat /\ Cardinality(Rejecting(c)) \in Nat
    BY <1>1, <2>2, FS_CardinalityType DEF TypeOK
  <2>4. h \notin Rejecting(c)
    BY <1>2 DEF Rejecting
  <2>5. CASE c = d
    <3>1. Rejecting(c)' = Rejecting(c) \cup {h}
      BY <1>1, <1>6, <2>5 DEF Rejecting, Become, TypeOK
    <3>2. IsFiniteSet(Rejecting(c) \cup {h})
          /\ Cardinality(Rejecting(c) \cup {h}) = Cardinality(Rejecting(c)) + 1
      BY <2>2, <2>4, FS_AddElement
    <3>3. audited'[c] = audited[c] + 1 /\ told'[c] = told[c]
      BY <1>1, <1>2, <1>5, <2>5 DEF TypeOK
    <3> QED
      BY <2>2, <2>3, <3>1, <3>2, <3>3
  <2>6. CASE c # d
    <3>1. Rejecting(c)' = Rejecting(c)
      BY <1>1, <1>2, <1>6, <2>6 DEF Rejecting, Become, TypeOK
    <3>2. audited'[c] = audited[c] /\ told'[c] = told[c]
      BY <1>1, <1>2, <1>5, <2>6 DEF TypeOK
    <3> QED
      BY <2>2, <3>1, <3>2
  <2> QED
    BY <2>5, <2>6
<1> QED
  BY <1>1, <1>2, <1>9, <1>10, DraftFrame, RunsFrame DEF IInv

(* The client is told of the rejection.                                    *)
LEMMA RejectStep ==
  ASSUME IInv, UNCHANGED draft, NEW h \in Handler, Reject(h)
  PROVE  IInv'
<1>1. TypeOK /\ DraftShrinks /\ RunsStand /\ EventsAhead
  BY DEF IInv
<1>2. /\ UNCHANGED <<objects, version, goals, runs, audited, uploads, faults>>
      /\ request[h].step = "reject" /\ Become(h, Idle)
  BY DEF Reject
<1>3. PICK d \in RejectionCode : d = request[h].code
  BY <1>1, <1>2, RequestShapes DEF TypeOK
<1>4. told' = [told EXCEPT ![d] = told[d] + 1]
  BY <1>3 DEF Reject
<1>5. request' \in [Handler -> Request]
  BY <1>1, <1>2, IdleIsRequest, RequestUpdate
<1>6. TypeOK'
  BY <1>1, <1>2, <1>4, <1>5 DEF TypeOK
<1>7. EventsAhead'
  <2>1. SUFFICES ASSUME NEW c \in RejectionCode
                 PROVE  IsFiniteSet(Rejecting(c)') /\ (told[c] + Cardinality(Rejecting(c)) <= audited[c])'
    BY DEF EventsAhead
  <2>2. IsFiniteSet(Rejecting(c)) /\ told[c] + Cardinality(Rejecting(c)) <= audited[c]
    BY <1>1 DEF EventsAhead
  <2>3. told[c] \in Nat /\ audited[c] \in Nat /\ Cardinality(Rejecting(c)) \in Nat
    BY <1>1, <2>2, FS_CardinalityType DEF TypeOK
  <2>4. Rejecting(c)' = Rejecting(c) \ {h}
    BY <1>1, <1>2, IdleIsRequest DEF Rejecting, Become, TypeOK
  <2>5. CASE c = d
    <3>1. h \in Rejecting(c)
      BY <1>2, <1>3, <2>5 DEF Rejecting
    <3>2. IsFiniteSet(Rejecting(c) \ {h})
          /\ Cardinality(Rejecting(c) \ {h}) = Cardinality(Rejecting(c)) - 1
      BY <2>2, <3>1, FS_RemoveElement
    <3>3. told'[c] = told[c] + 1 /\ audited'[c] = audited[c]
      BY <1>1, <1>2, <1>4, <2>5 DEF TypeOK
    <3> QED
      BY <2>2, <2>3, <2>4, <3>2, <3>3
  <2>6. CASE c # d
    <3>1. Rejecting(c) \ {h} = Rejecting(c)
      BY <1>3, <2>6 DEF Rejecting
    <3>2. audited'[c] = audited[c] /\ told'[c] = told[c]
      BY <1>1, <1>2, <1>4, <2>6 DEF TypeOK
    <3> QED
      BY <2>2, <2>4, <3>1, <3>2
  <2> QED
    BY <2>5, <2>6
<1> QED
  BY <1>1, <1>2, <1>6, <1>7, DraftFrame, RunsFrame DEF IInv

(* An accepted file becomes an object.                                     *)
LEMMA IngestStep ==
  ASSUME IInv, UNCHANGED draft, NEW h \in Handler, NEW o \in Object, Ingest(h, o)
  PROVE  IInv'
<1>1. TypeOK /\ DraftShrinks /\ RunsStand /\ EventsAhead
  BY DEF IInv
<1>2. /\ UNCHANGED <<version, goals, runs, audited, told, uploads, faults>>
      /\ request[h].step = "ingest" /\ Become(h, Idle)
      /\ objects' = [objects EXCEPT ![o] = [state |-> "READY", size |-> request[h].file.size]]
  BY DEF Ingest
<1>3. request[h].file \in FileSample
  BY <1>1, <1>2, RequestShapes DEF TypeOK
<1>4. request[h].file.size \in Nat
  BY <1>3, IntakeConstants DEF File
<1>5. objects' \in [Object -> ObjectRow]
  BY <1>1, <1>2, <1>4 DEF TypeOK, ObjectRow
<1>6. request' \in [Handler -> Request] /\ EventsAhead'
  BY <1>1, <1>2, IdleIsRequest, RequestUpdate, TurnsAway
<1>7. TypeOK'
  BY <1>1, <1>2, <1>5, <1>6 DEF TypeOK
<1> QED
  BY <1>1, <1>2, <1>6, <1>7, DraftFrame, RunsFrame DEF IInv

(* An object is deleted, linked or not.                                    *)
LEMMA DeleteStep ==
  ASSUME IInv, UNCHANGED draft, NEW o \in Object, Delete(o)
  PROVE  IInv'
<1>1. TypeOK /\ DraftShrinks /\ RunsStand /\ EventsAhead
  BY DEF IInv
<1>2. /\ UNCHANGED <<version, goals, runs, request, audited, told, uploads, faults>>
      /\ objects' = [objects EXCEPT ![o].state = "DELETED"]
  BY DEF Delete
<1>3. objects' \in [Object -> ObjectRow]
  BY <1>1, <1>2 DEF TypeOK, ObjectRow
<1>4. TypeOK'
  BY <1>1, <1>2, <1>3 DEF TypeOK
<1> QED
  BY <1>1, <1>2, <1>4, DraftFrame, RunsFrame, EventsFrame DEF IInv

(* A goal is evaluated before its transaction begins.                      *)
LEMMA SubmitStep ==
  ASSUME IInv, UNCHANGED draft, NEW h \in Handler, NEW g \in GoalSample, NEW ids \in IdLists,
         Submit(h, g, ids)
  PROVE  IInv'
<1>1. TypeOK /\ DraftShrinks /\ RunsStand /\ EventsAhead
  BY DEF IInv
<1> DEFINE r == [step |-> "start", goal |-> g, result |-> Evaluate(g).result, ids |-> ids,
                 expected |-> version]
<1>2. /\ UNCHANGED <<objects, version, goals, runs, audited, told, uploads, faults>>
      /\ Evaluate(g).result # "out_of_scope" /\ Become(h, r)
  BY DEF Submit
<1>3. Evaluate(g).result \in {"qualified", "needs_clarification"}
  BY <1>2, GoalResult
<1>4. ids \in Seq(Object)
  BY IntakeConstants
<1>5. version \in Nat
  BY <1>1 DEF TypeOK
<1>6. r \in Request /\ r.step # "reject"
  BY <1>3, <1>4, <1>5 DEF Request
<1> HIDE DEF r
<1>7. request' \in [Handler -> Request] /\ EventsAhead'
  BY <1>1, <1>2, <1>6, RequestUpdate, TurnsAway
<1>8. TypeOK'
  BY <1>1, <1>2, <1>7 DEF TypeOK
<1> QED
  BY <1>1, <1>2, <1>7, <1>8, DraftFrame, RunsFrame DEF IInv

(* Goal, run and task are created together, as the evaluation says.        *)
LEMMA CreateGoalAndRunStep ==
  ASSUME IInv, UNCHANGED draft, NEW h \in Handler, CreateGoalAndRun(h)
  PROVE  IInv'
<1>1. TypeOK /\ DraftShrinks /\ RunsStand /\ EventsAhead
  BY DEF IInv
<1> DEFINE row == [goal |-> request[h].goal, result |-> request[h].result, links |-> request[h].ids]
           run == CreatedRun(request[h].result)
<1>2. /\ UNCHANGED <<objects, audited, told, uploads, faults>>
      /\ request[h].step = "start" /\ Become(h, Idle)
      /\ goals' = Append(goals, row) /\ runs' = Append(runs, run) /\ version' = version + 1
  BY DEF CreateGoalAndRun
<1>3. /\ request[h].goal \in GoalSample /\ request[h].result \in {"qualified", "needs_clarification"}
      /\ request[h].ids \in Seq(Object)
  BY <1>1, <1>2, RequestShapes DEF TypeOK
<1>4. row \in GoalRow
  BY <1>3 DEF GoalRow
<1>5. run \in Run /\ RunStands(row.result, run)
  BY <1>3 DEF CreatedRun, Run, RunStands
<1> HIDE DEF row, run
<1>6. goals \in Seq(GoalRow) /\ runs \in Seq(Run) /\ Len(runs) = Len(goals) /\ version \in Nat
  BY <1>1 DEF TypeOK
<1>7. goals' \in Seq(GoalRow) /\ runs' \in Seq(Run) /\ Len(runs') = Len(goals') /\ version' \in Nat
  BY <1>2, <1>4, <1>5, <1>6
<1>8. request' \in [Handler -> Request] /\ EventsAhead'
  BY <1>1, <1>2, IdleIsRequest, RequestUpdate, TurnsAway
<1>9. TypeOK'
  BY <1>1, <1>2, <1>7, <1>8 DEF TypeOK
<1>10. RunsStand'
  <2>1. SUFFICES ASSUME NEW k \in DOMAIN goals'
                 PROVE  RunStands(goals'[k].result, runs'[k])
    BY DEF RunsStand
  <2>2. CASE k = Len(goals) + 1
    <3>1. goals'[k] = row /\ runs'[k] = run
      BY <1>2, <1>6, <2>2
    <3> QED
      BY <3>1, <1>5
  <2>3. CASE k # Len(goals) + 1
    <3>1. k \in DOMAIN goals /\ goals'[k] = goals[k] /\ runs'[k] = runs[k]
      BY <1>2, <1>4, <1>5, <1>6, <2>3
    <3> QED
      BY <3>1, <1>1 DEF RunsStand
  <2> QED
    BY <2>2, <2>3
<1> QED
  BY <1>1, <1>8, <1>9, <1>10, DraftFrame DEF IInv

(* A goal whose version or attachments do not fit creates nothing.         *)
LEMMA RefuseGoalStep ==
  ASSUME IInv, UNCHANGED draft, NEW h \in Handler, RefuseGoal(h)
  PROVE  IInv'
<1>1. TypeOK /\ DraftShrinks /\ RunsStand /\ EventsAhead
  BY DEF IInv
<1>2. UNCHANGED <<objects, version, goals, runs, audited, told, uploads, faults>> /\ Become(h, Idle)
  BY DEF RefuseGoal
<1>3. request' \in [Handler -> Request] /\ EventsAhead'
  BY <1>1, <1>2, IdleIsRequest, RequestUpdate, TurnsAway
<1>4. TypeOK'
  BY <1>1, <1>2, <1>3 DEF TypeOK
<1> QED
  BY <1>1, <1>2, <1>3, <1>4, DraftFrame, RunsFrame DEF IInv

(* A handler that fails creates nothing.                                   *)
LEMMA FailStep ==
  ASSUME IInv, UNCHANGED draft, NEW h \in Handler, Fail(h)
  PROVE  IInv'
<1>1. TypeOK /\ DraftShrinks /\ RunsStand /\ EventsAhead
  BY DEF IInv
<1>2. /\ UNCHANGED <<objects, version, goals, runs, audited, told, uploads>> /\ Become(h, Idle)
      /\ faults < MaxFaults /\ faults' = faults + 1
  BY DEF Fail
<1>3. request' \in [Handler -> Request] /\ EventsAhead'
  BY <1>1, <1>2, IdleIsRequest, RequestUpdate, TurnsAway
<1>4. faults' \in 0..MaxFaults
  BY <1>1, <1>2, IntakeConstants DEF TypeOK
<1>5. TypeOK'
  BY <1>1, <1>2, <1>3, <1>4 DEF TypeOK
<1> QED
  BY <1>1, <1>2, <1>3, <1>5, DraftFrame, RunsFrame DEF IInv

(* What is common to the steps of a run.                                   *)
LEMMA RunStep ==
  ASSUME IInv, UNCHANGED draft, NEW k \in DOMAIN runs, NEW r \in Run,
         runs' = [runs EXCEPT ![k] = r], RunStands(goals[k].result, r),
         UNCHANGED <<objects, version, goals, request, audited, told, uploads, faults>>
  PROVE  IInv'
<1>1. TypeOK /\ DraftShrinks /\ RunsStand /\ EventsAhead
  BY DEF IInv
<1>2. runs' \in Seq(Run) /\ Len(runs') = Len(goals) /\ RunsStand'
  BY <1>1, RunUpdate
<1>3. TypeOK'
  BY <1>1, <1>2 DEF TypeOK
<1> QED
  BY <1>1, <1>2, <1>3, DraftFrame, EventsFrame DEF IInv

(* Every run belongs to a goal that was let in, and stands as its result   *)
(* says.                                                                   *)
LEMMA RunRow ==
  ASSUME IInv, NEW k \in DOMAIN runs
  PROVE  /\ runs[k] \in Run /\ RunStands(goals[k].result, runs[k])
         /\ goals[k].result \in {"qualified", "needs_clarification"}
<1>1. runs \in Seq(Run) /\ goals \in Seq(GoalRow) /\ Len(runs) = Len(goals) /\ RunsStand
  BY DEF IInv, TypeOK
<1>2. k \in DOMAIN goals /\ runs[k] \in Run /\ goals[k] \in GoalRow
  BY <1>1
<1> QED
  BY <1>1, <1>2 DEF RunsStand, GoalRow

(* A worker drives a run that has a task.                                  *)
LEMMA WorkStep ==
  ASSUME IInv, UNCHANGED draft, NEW k \in DOMAIN runs, Work(k)
  PROVE  IInv'
<1>1. /\ runs[k].task \in {"QUEUED", "READY"}
      /\ UNCHANGED <<objects, version, goals, request, audited, told, uploads, faults>>
  BY DEF Work
<1> DEFINE r(blocked) == [state |-> IF blocked THEN "BLOCKED" ELSE "AWAITING_BRIEF_APPROVAL",
                          task |-> IF blocked THEN "BLOCKED" ELSE "SUCCEEDED", wait |-> runs[k].wait]
<1>2. PICK blocked \in BOOLEAN : runs' = [runs EXCEPT ![k] = r(blocked)]
  BY DEF Work
<1>3. runs[k] \in Run /\ RunStands(goals[k].result, runs[k])
  BY RunRow
<1>4. r(blocked) \in Run /\ RunStands(goals[k].result, r(blocked))
  BY <1>1, <1>3 DEF Run, RunStands
<1> HIDE DEF r
<1> QED
  BY <1>1, <1>2, <1>4, RunStep

(* A wait is opened on a run.                                              *)
LEMMA OpenWaitStep ==
  ASSUME IInv, UNCHANGED draft, NEW k \in DOMAIN runs, OpenWait(k)
  PROVE  IInv'
<1> DEFINE r == [state |-> "AWAITING_FOUNDER_INPUT", task |-> "AWAITING_INPUT", wait |-> "OPEN"]
<1>1. /\ runs[k].task \in {"QUEUED", "READY"} /\ runs' = [runs EXCEPT ![k] = r]
      /\ UNCHANGED <<objects, version, goals, request, audited, told, uploads, faults>>
  BY DEF OpenWait
<1>2. RunStands(goals[k].result, runs[k])
  BY RunRow
<1>3. r \in Run /\ RunStands(goals[k].result, r)
  BY <1>1, <1>2 DEF Run, RunStands
<1> HIDE DEF r
<1> QED
  BY <1>1, <1>3, RunStep

(* Its answer sends the run back to the worker.                            *)
LEMMA AnswerWaitStep ==
  ASSUME IInv, UNCHANGED draft, NEW k \in DOMAIN runs, AnswerWait(k)
  PROVE  IInv'
<1> DEFINE r == [state |-> "DRAFT", task |-> "READY", wait |-> "RESOLVED"]
<1>1. /\ runs[k].task = "AWAITING_INPUT" /\ runs' = [runs EXCEPT ![k] = r]
      /\ UNCHANGED <<objects, version, goals, request, audited, told, uploads, faults>>
  BY DEF AnswerWait
<1>2. RunStands(goals[k].result, runs[k])
  BY RunRow
<1>3. r \in Run /\ RunStands(goals[k].result, r)
  BY <1>1, <1>2 DEF Run, RunStands
<1> HIDE DEF r
<1> QED
  BY <1>1, <1>3, RunStep

(* A canceled run stays so.                                                *)
LEMMA CancelStep ==
  ASSUME IInv, UNCHANGED draft, NEW k \in DOMAIN runs, Cancel(k)
  PROVE  IInv'
<1> DEFINE r == [state |-> "CANCELED",
                 task |-> IF runs[k].task \in {"none", "SUCCEEDED"} THEN runs[k].task ELSE "CANCELED",
                 wait |-> IF runs[k].wait = "OPEN" THEN "CANCELED" ELSE runs[k].wait]
<1>1. /\ runs' = [runs EXCEPT ![k] = r]
      /\ UNCHANGED <<objects, version, goals, request, audited, told, uploads, faults>>
  BY DEF Cancel
<1>2. runs[k] \in Run /\ RunStands(goals[k].result, runs[k])
  BY RunRow
<1>3. r \in Run /\ RunStands(goals[k].result, r)
  BY <1>2 DEF Run, RunStands
<1> HIDE DEF r
<1> QED
  BY <1>1, <1>3, RunStep
-----------------------------------------------------------------------------
(* Every initial state satisfies the invariant.                            *)
LEMMA InitIInv == Init => IInv
<1>1. SUFFICES ASSUME Init PROVE IInv
  OBVIOUS
<1>2. TypeOK
  <2>1. draft \in Draft
    BY <1>1, IntakeConstants DEF Init, Draft
  <2>2. objects \in [Object -> ObjectRow] /\ request \in [Handler -> Request]
    BY <1>1, IdleIsRequest DEF Init, ObjectRow
  <2> QED
    BY <1>1, <2>1, <2>2, IntakeConstants DEF Init, TypeOK
<1>3. DraftShrinks
  BY <1>1 DEF Init, DraftShrinks
<1>4. RunsStand
  BY <1>1 DEF Init, RunsStand
<1>5. EventsAhead
  <2>1. \A c \in RejectionCode : Rejecting(c) = {}
    BY <1>1 DEF Init, Rejecting, Idle
  <2>2. \A c \in RejectionCode : told[c] = 0 /\ audited[c] = 0
    BY <1>1 DEF Init
  <2> QED
    BY <2>1, <2>2, FS_EmptySet DEF EventsAhead
<1> QED
  BY <1>2, <1>3, <1>4, <1>5 DEF IInv

(* A step that changes nothing keeps the invariant.                        *)
LEMMA StutterIInv == IInv /\ UNCHANGED vars => IInv'
<1>1. SUFFICES ASSUME IInv, UNCHANGED vars PROVE IInv'
  OBVIOUS
<1>2. TypeOK'
  BY <1>1 DEF IInv, TypeOK, vars, intake
<1> QED
  BY <1>1, <1>2, DraftFrame, RunsFrame, EventsFrame DEF IInv, vars, intake

(* Every step keeps the invariant.                                         *)
LEMMA NextIInv == IInv /\ [Next]_vars => IInv'
<1>1. SUFFICES ASSUME IInv, Next PROVE IInv'
  BY StutterIInv
<1>2. CASE ReviseDraft
  BY <1>1, <1>2, ReviseDraftStep
<1>3. CASE SettleDraft
  BY <1>1, <1>3, SettleDraftStep
<1>4. CASE Serve /\ UNCHANGED draft
  <2>1. ASSUME NEW h \in Handler, Handle(h) PROVE IInv'
    BY <1>1, <1>4, <2>1, AuditRejectionStep, RejectStep, CreateGoalAndRunStep, RefuseGoalStep,
       IngestStep DEF Handle
  <2>2. ASSUME NEW h \in Handler, Fail(h) PROVE IInv'
    BY <1>1, <1>4, <2>2, FailStep
  <2>3. ASSUME NEW h \in Handler, NEW f \in FileSample, Upload(h, f) PROVE IInv'
    BY <1>1, <1>4, <2>3, UploadStep
  <2>4. ASSUME NEW h \in Handler, NEW g \in GoalSample, NEW ids \in IdLists, Submit(h, g, ids)
        PROVE  IInv'
    BY <1>1, <1>4, <2>4, SubmitStep
  <2>5. ASSUME NEW o \in Object, Delete(o) PROVE IInv'
    BY <1>1, <1>4, <2>5, DeleteStep
  <2>6. ASSUME NEW k \in DOMAIN runs, Live(k) PROVE IInv'
    BY <1>1, <1>4, <2>6, WorkStep, OpenWaitStep, AnswerWaitStep, CancelStep DEF Live
  <2> QED
    BY <1>4, <2>1, <2>2, <2>3, <2>4, <2>5, <2>6 DEF Serve
<1> QED
  BY <1>1, <1>2, <1>3, <1>4 DEF Next

(* Types, drafts, standings of runs and events hold in every reachable     *)
(* state, whatever the limits, the goals and the files.                    *)
THEOREM InductiveInvariant == Spec => []IInv
  BY InitIInv, NextIInv, PTL DEF Spec

(* validateAttachmentIngest accepts a permitted file that can be measured, *)
(* and of the others only those that hide what it overlooks, for any file  *)
(* that a founder may try.                                                 *)
THEOREM VerdictsArePolicy == Spec => []VerdictIsPolicy
<1>1. IInv => VerdictIsPolicy
  <2>1. SUFFICES ASSUME IInv, draft.kind = "file"
                 PROVE  LET f == draft.file
                            accepted == Verdict(f, PerFileMax) = "accepted"
                        IN  /\ Permitted(f) /\ f.bytes.layout \notin {"unreadable", "crowded"} => accepted
                            /\ accepted => Permitted(SansOverlooked(f))
    BY DEF VerdictIsPolicy
  <2>2. draft \in Draft
    BY <2>1 DEF IInv, TypeOK
  <2>3. draft.file \in File
    BY <2>1, <2>2, IntakeConstants DEF Draft
  <2> QED
    BY <2>3, FileVerdict
<1> QED
  BY <1>1, InductiveInvariant, PTL

(* A founder who removes what a refusal cites is refused twice at most,    *)
(* whatever the goal: no rule hides behind another one for longer.         *)
THEOREM RefusalsEnd == Spec => []NarrowingEnds
<1>1. IInv => NarrowingEnds
  BY DEF IInv, DraftShrinks, NarrowingEnds
<1> QED
  BY <1>1, InductiveInvariant, PTL

(* Only a run that needs clarification is alive with nothing to drive it.  *)
THEOREM RunsAreDriven == Spec => []OnlyClarificationStalls
<1>1. IInv => OnlyClarificationStalls
  <2>1. SUFFICES ASSUME IInv, NEW k \in DOMAIN goals
                 PROVE  LET driven == \/ runs[k].task \in {"QUEUED", "READY"} /\ runs[k].state # "CANCELED"
                                      \/ runs[k].task = "AWAITING_INPUT" /\ runs[k].wait = "OPEN"
                            ended == runs[k].state \in {"AWAITING_BRIEF_APPROVAL", "BLOCKED", "CANCELED"}
                        IN  driven <=> goals[k].result = "qualified" /\ ~ended
    BY DEF OnlyClarificationStalls
  <2>2. k \in DOMAIN runs
    BY <2>1 DEF IInv, TypeOK
  <2>3. RunStands(goals[k].result, runs[k])
    BY <2>1, <2>2, RunRow
  <2> QED
    BY <2>3 DEF RunStands
<1> QED
  BY <1>1, InductiveInvariant, PTL

(* No client is told of a rejection that is not in the event log, however  *)
(* many handlers reject at once and wherever one of them ends.             *)
THEOREM RejectionsAreOnRecord == Spec => []RefusalsAreAudited
<1>1. IInv => RefusalsAreAudited
  <2>1. SUFFICES ASSUME IInv, NEW c \in RejectionCode PROVE told[c] <= audited[c]
    BY DEF RefusalsAreAudited
  <2>2. IsFiniteSet(Rejecting(c)) /\ told[c] + Cardinality(Rejecting(c)) <= audited[c]
    BY <2>1 DEF IInv, EventsAhead
  <2>3. told[c] \in Nat /\ audited[c] \in Nat /\ Cardinality(Rejecting(c)) \in Nat
    BY <2>1, <2>2, FS_CardinalityType DEF IInv, TypeOK
  <2> QED
    BY <2>2, <2>3
<1> QED
  BY <1>1, InductiveInvariant, PTL
-----------------------------------------------------------------------------
(* Sums over finite sets.                                                  *)
(* A set with 0 and, with a number, its successor, has every natural       *)
(* number: the least number outside it would follow one inside.            *)
LEMMA NatClosure ==
  ASSUME NEW T, 0 \in T, \A n \in Nat : n \in T => n + 1 \in T
  PROVE  Nat \subseteq T
<1> DEFINE Out == Nat \ T
<1>1. SUFFICES ASSUME Out # {} PROVE FALSE
  OBVIOUS
<1>2. PICK x \in Out : \A y \in Out : ~(<<y, x>> \in OpToRel(<, Nat))
  <2> HIDE DEF Out
  <2>1. Out \subseteq Nat BY DEF Out
  <2>2. IsWellFoundedOn(OpToRel(<, Nat), Nat) BY NatLessThanWellFounded
  <2> QED
    BY <1>1, <2>1, <2>2, WFMin
<1>3. x \in Nat /\ x # 0 /\ x - 1 \in Nat /\ (x - 1) + 1 = x
  OBVIOUS
<1>4. x - 1 \in T
  <2>1. <<x - 1, x>> \in OpToRel(<, Nat)
    BY <1>3 DEF OpToRel
  <2> QED
    BY <1>2, <1>3, <2>1
<1> QED
  BY <1>3, <1>4

(* What SumFunctionOnSet computes, written out: the element taken next,    *)
(* and the equation of its recursive function.                             *)
Picked(s) == CHOOSE x \in s : TRUE
Summing(g, f, S) == [s \in SUBSET S |-> IF s = {} THEN 0 ELSE f[Picked(s)] + g[s \ {Picked(s)}]]

(* The library adds up with a function that satisfies the equation.        *)
LEMMA SumIs ==
  ASSUME NEW f, NEW S
  PROVE  SumFunctionOnSet(f, S) = (CHOOSE g : g = Summing(g, f, S))[S]
  BY DEF SumFunctionOnSet, FoldFunctionOnSet, MapThenFoldSet, Summing, Picked

(* The equation holds for the subsets of up to n elements.                 *)
Stage(g, f, S, n) ==
  \A s \in SUBSET S : Cardinality(s) <= n =>
    g[s] = IF s = {} THEN 0 ELSE f[Picked(s)] + g[s \ {Picked(s)}]

(* Taking an element out of a finite set leaves one element less.          *)
LEMMA PickedOut ==
  ASSUME NEW S, IsFiniteSet(S), NEW s \in SUBSET S, s # {}
  PROVE  /\ Picked(s) \in s /\ s \ {Picked(s)} \in SUBSET S
         /\ Cardinality(s) \in Nat /\ Cardinality(s \ {Picked(s)}) = Cardinality(s) - 1
         /\ Cardinality(s) - 1 \in Nat /\ IsFiniteSet(s)
<1>1. Picked(s) \in s
  BY DEF Picked
<1>2. IsFiniteSet(s) /\ Cardinality(s) \in Nat
  BY FS_Subset, FS_CardinalityType
<1>3. Cardinality(s \ {Picked(s)}) = Cardinality(s) - 1 /\ IsFiniteSet(s \ {Picked(s)})
  BY <1>1, <1>2, FS_RemoveElement
<1>4. Cardinality(s \ {Picked(s)}) \in Nat
  BY <1>3, FS_CardinalityType
<1> QED
  BY <1>1, <1>2, <1>3, <1>4

(* A set of no elements is empty.                                          *)
LEMMA NothingToPick ==
  ASSUME NEW S, IsFiniteSet(S), NEW s \in SUBSET S, Cardinality(s) <= 0
  PROVE  s = {}
<1>1. IsFiniteSet(s)
  BY FS_Subset
<1>2. Cardinality(s) \in Nat
  BY <1>1, FS_CardinalityType
<1>3. Cardinality(s) = 0
  BY <1>2
<1> QED
  BY <1>1, <1>3, FS_EmptySet

(* Over a finite set there is a function that satisfies the equation: it   *)
(* is built up from the smaller subsets to the larger ones.                *)
LEMMA SumExists ==
  ASSUME NEW S, IsFiniteSet(S), NEW f
  PROVE  \E g : g = Summing(g, f, S)
<1> DEFINE T == {n \in Nat : \E g : Stage(g, f, S, n)}
<1>1. 0 \in T
  <2> DEFINE g == [s \in SUBSET S |-> 0]
  <2>1. Stage(g, f, S, 0)
    <3>1. ASSUME NEW s \in SUBSET S, Cardinality(s) <= 0 PROVE s = {}
      BY <3>1, NothingToPick
    <3>2. g[{}] = 0
      OBVIOUS
    <3> QED
      BY <3>1, <3>2 DEF Stage
  <2> QED
    BY <2>1
<1>2. ASSUME NEW n \in Nat, n \in T PROVE n + 1 \in T
  <2>1. PICK g : Stage(g, f, S, n)
    BY <1>2
  <2> DEFINE h == [s \in SUBSET S |-> IF s = {} THEN 0 ELSE f[Picked(s)] + g[s \ {Picked(s)}]]
  <2>2. ASSUME NEW s \in SUBSET S, Cardinality(s) <= n + 1
        PROVE  h[s] = IF s = {} THEN 0 ELSE f[Picked(s)] + h[s \ {Picked(s)}]
    <3>1. CASE s = {}
      BY <3>1
    <3>2. CASE s # {}
      <4>1. s \ {Picked(s)} \in SUBSET S /\ Cardinality(s \ {Picked(s)}) <= n
        BY <3>2, <2>2, PickedOut
      <4> DEFINE r == s \ {Picked(s)}
      <4>2. g[r] = IF r = {} THEN 0 ELSE f[Picked(r)] + g[r \ {Picked(r)}]
        BY <2>1, <4>1 DEF Stage
      <4>3. h[r] = g[r]
        BY <4>1, <4>2
      <4> QED
        BY <4>1, <4>3, <3>2
    <3> QED
      BY <3>1, <3>2
  <2>3. Stage(h, f, S, n + 1)
    <3> HIDE DEF h
    <3> QED
      BY <2>2 DEF Stage
  <2> QED
    BY <2>3
<1>3. Cardinality(S) \in T
  <2> HIDE DEF T
  <2> QED
    BY <1>1, <1>2, NatClosure, FS_CardinalityType
<1>4. PICK g : Stage(g, f, S, Cardinality(S))
  BY <1>3
<1> DEFINE h == [s \in SUBSET S |-> g[s]]
<1>5. ASSUME NEW s \in SUBSET S
      PROVE  h[s] = IF s = {} THEN 0 ELSE f[Picked(s)] + h[s \ {Picked(s)}]
  <2>1. Cardinality(s) <= Cardinality(S)
    BY FS_Subset
  <2>2. g[s] = IF s = {} THEN 0 ELSE f[Picked(s)] + g[s \ {Picked(s)}]
    BY <1>4, <2>1 DEF Stage
  <2>3. s # {} => s \ {Picked(s)} \in SUBSET S
    BY PickedOut
  <2> QED
    BY <2>2, <2>3
<1>6. h = Summing(h, f, S)
  BY <1>5 DEF Summing
<1> QED
  BY <1>6

(* Two functions that satisfy the equation agree where both are defined.   *)
LEMMA SumUnique ==
  ASSUME NEW S, IsFiniteSet(S), NEW R \in SUBSET S, NEW f, NEW g, g = Summing(g, f, S),
         NEW h, h = Summing(h, f, R)
  PROVE  \A s \in SUBSET R : g[s] = h[s]
<1> DEFINE T == {n \in Nat : \A s \in SUBSET R : Cardinality(s) = n => g[s] = h[s]}
<1>1. IsFiniteSet(R)
  BY FS_Subset
<1>2. ASSUME NEW s \in SUBSET R
      PROVE  /\ g[s] = IF s = {} THEN 0 ELSE f[Picked(s)] + g[s \ {Picked(s)}]
             /\ h[s] = IF s = {} THEN 0 ELSE f[Picked(s)] + h[s \ {Picked(s)}]
  <2>1. g[s] = Summing(g, f, S)[s] /\ h[s] = Summing(h, f, R)[s]
    OBVIOUS
  <2> QED
    BY <2>1 DEF Summing
<1>3. 0 \in T
  <2>1. ASSUME NEW s \in SUBSET R, Cardinality(s) = 0 PROVE s = {}
    BY <2>1, <1>1, NothingToPick
  <2>2. g[{}] = h[{}]
    BY <1>2
  <2> QED
    BY <2>1, <2>2
<1>4. ASSUME NEW n \in Nat, n \in T PROVE n + 1 \in T
  <2>1. ASSUME NEW s \in SUBSET R, Cardinality(s) = n + 1 PROVE g[s] = h[s]
    <3>1. s # {}
      BY <2>1, FS_EmptySet
    <3>2. s \ {Picked(s)} \in SUBSET R /\ Cardinality(s \ {Picked(s)}) = n
      BY <3>1, <2>1, <1>1, PickedOut
    <3>3. g[s \ {Picked(s)}] = h[s \ {Picked(s)}]
      BY <3>2, <1>4
    <3> QED
      BY <3>1, <3>3, <1>2
  <2> QED
    BY <2>1
<1>5. Nat \subseteq T
  <2> HIDE DEF T
  <2> QED
    BY <1>3, <1>4, NatClosure
<1>6. ASSUME NEW s \in SUBSET R PROVE g[s] = h[s]
  <2>1. Cardinality(s) \in T
    BY <1>1, <1>5, FS_Subset, FS_CardinalityType
  <2> QED
    BY <2>1
<1> QED
  BY <1>6

(* So the function the library chooses satisfies the equation.             *)
LEMMA SumChosen ==
  ASSUME NEW S, IsFiniteSet(S), NEW f
  PROVE  \E g : g = Summing(g, f, S) /\ SumFunctionOnSet(f, S) = g[S]
<1> DEFINE g == CHOOSE g : g = Summing(g, f, S)
<1>1. g = Summing(g, f, S)
  BY SumExists, Zenon
<1>2. SumFunctionOnSet(f, S) = g[S]
  BY SumIs
<1> QED
  BY <1>1, <1>2

(* A sum over a finite set is 0, or one value and the sum over the rest.   *)
LEMMA SumPicked ==
  ASSUME NEW S, IsFiniteSet(S), NEW f
  PROVE  /\ S = {} => SumFunctionOnSet(f, S) = 0
         /\ S # {} => SumFunctionOnSet(f, S) = f[Picked(S)] + SumFunctionOnSet(f, S \ {Picked(S)})
<1>1. PICK g : g = Summing(g, f, S) /\ SumFunctionOnSet(f, S) = g[S]
  BY SumChosen
<1>2. g[S] = IF S = {} THEN 0 ELSE f[Picked(S)] + g[S \ {Picked(S)}]
  <2>1. g[S] = Summing(g, f, S)[S]
    BY <1>1
  <2> QED
    BY <2>1 DEF Summing
<1>3. ASSUME S # {} PROVE g[S \ {Picked(S)}] = SumFunctionOnSet(f, S \ {Picked(S)})
  <2> DEFINE R == S \ {Picked(S)}
  <2>1. R \in SUBSET S /\ IsFiniteSet(R)
    BY FS_Subset
  <2>2. PICK h : h = Summing(h, f, R) /\ SumFunctionOnSet(f, R) = h[R]
    BY <2>1, SumChosen
  <2>3. g[R] = h[R]
    <3> HIDE DEF R
    <3> QED
      BY <1>1, <2>1, <2>2, SumUnique
  <2> QED
    BY <2>2, <2>3
<1> QED
  BY <1>1, <1>2, <1>3

(* A sum of natural numbers is a natural number.                           *)
LEMMA SumIsNat ==
  ASSUME NEW S, IsFiniteSet(S), NEW f, \A x \in S : f[x] \in Nat
  PROVE  \A s \in SUBSET S : SumFunctionOnSet(f, s) \in Nat
<1> DEFINE T == {n \in Nat : \A s \in SUBSET S : Cardinality(s) = n => SumFunctionOnSet(f, s) \in Nat}
<1>1. 0 \in T
  <2>1. ASSUME NEW s \in SUBSET S, Cardinality(s) = 0 PROVE SumFunctionOnSet(f, s) \in Nat
    <3>1. s = {}
      BY <2>1, NothingToPick
    <3> QED
      BY <3>1, SumPicked, FS_EmptySet
  <2> QED
    BY <2>1
<1>2. ASSUME NEW n \in Nat, n \in T PROVE n + 1 \in T
  <2>1. ASSUME NEW s \in SUBSET S, Cardinality(s) = n + 1 PROVE SumFunctionOnSet(f, s) \in Nat
    <3>1. s # {}
      BY <2>1, FS_EmptySet
    <3>2. /\ Picked(s) \in S /\ s \ {Picked(s)} \in SUBSET S /\ Cardinality(s \ {Picked(s)}) = n
          /\ IsFiniteSet(s)
      <4>1. /\ Picked(s) \in s /\ s \ {Picked(s)} \in SUBSET S /\ IsFiniteSet(s)
            /\ Cardinality(s \ {Picked(s)}) = Cardinality(s) - 1
        BY <3>1, PickedOut
      <4> QED
        BY <4>1, <2>1
    <3>3. SumFunctionOnSet(f, s \ {Picked(s)}) \in Nat
      BY <3>2, <1>2
    <3>4. SumFunctionOnSet(f, s) = f[Picked(s)] + SumFunctionOnSet(f, s \ {Picked(s)})
      BY <3>1, <3>2, SumPicked
    <3>5. f[Picked(s)] \in Nat
      BY <3>2
    <3> QED
      BY <3>3, <3>4, <3>5
  <2> QED
    BY <2>1
<1>3. Nat \subseteq T
  <2> HIDE DEF T
  <2> QED
    BY <1>1, <1>2, NatClosure
<1>4. ASSUME NEW s \in SUBSET S PROVE SumFunctionOnSet(f, s) \in Nat
  <2>1. Cardinality(s) \in T
    BY <1>3, FS_Subset, FS_CardinalityType
  <2> QED
    BY <2>1
<1> QED
  BY <1>4

(* The order in which a set is added up does not matter: any element can   *)
(* be the one that is taken first.                                         *)
LEMMA SumAny ==
  ASSUME NEW S, IsFiniteSet(S), NEW f, \A x \in S : f[x] \in Nat
  PROVE  \A s \in SUBSET S : \A x \in s :
           SumFunctionOnSet(f, s) = f[x] + SumFunctionOnSet(f, s \ {x})
<1> DEFINE Splits(s) == \A x \in s : SumFunctionOnSet(f, s) = f[x] + SumFunctionOnSet(f, s \ {x})
           T == {n \in Nat : \A s \in SUBSET S : Cardinality(s) = n => Splits(s)}
<1>1. 0 \in T
  <2>1. ASSUME NEW s \in SUBSET S, Cardinality(s) = 0 PROVE s = {}
    BY <2>1, NothingToPick
  <2> QED
    BY <2>1
<1>2. ASSUME NEW n \in Nat, n \in T PROVE n + 1 \in T
  <2>1. ASSUME NEW s \in SUBSET S, Cardinality(s) = n + 1, NEW x \in s
        PROVE  SumFunctionOnSet(f, s) = f[x] + SumFunctionOnSet(f, s \ {x})
    <3>1. PICK p : p = Picked(s)
      OBVIOUS
    <3>2. /\ p \in s /\ s \ {p} \in SUBSET S /\ Cardinality(s \ {p}) = n /\ IsFiniteSet(s)
      <4>1. /\ Picked(s) \in s /\ s \ {Picked(s)} \in SUBSET S /\ IsFiniteSet(s)
            /\ Cardinality(s \ {Picked(s)}) = Cardinality(s) - 1
        BY <3>1, PickedOut
      <4> QED
        BY <4>1, <2>1, <3>1
    <3>3. SumFunctionOnSet(f, s) = f[p] + SumFunctionOnSet(f, s \ {p})
      BY <3>1, <3>2, SumPicked
    <3>4. CASE x = p
      BY <3>3, <3>4
    <3>5. CASE x # p
      <4>1. s \ {x} \in SUBSET S /\ Cardinality(s \ {x}) = n
        BY <3>2, <2>1, FS_RemoveElement
      <4>2. x \in s \ {p} /\ p \in s \ {x} /\ (s \ {p}) \ {x} = (s \ {x}) \ {p}
        BY <3>2, <3>5
      <4>3. PICK r : r = (s \ {x}) \ {p}
        OBVIOUS
      <4>4. SumFunctionOnSet(f, s \ {p}) = f[x] + SumFunctionOnSet(f, r)
        BY <1>2, <3>2, <4>2, <4>3
      <4>5. SumFunctionOnSet(f, s \ {x}) = f[p] + SumFunctionOnSet(f, r)
        BY <1>2, <4>1, <4>2, <4>3
      <4>6. SumFunctionOnSet(f, r) \in Nat /\ f[x] \in Nat /\ f[p] \in Nat
        BY <4>1, <4>3, <3>2, SumIsNat
      <4> QED
        BY <3>3, <4>4, <4>5, <4>6
    <3> QED
      BY <3>4, <3>5
  <2> QED
    BY <2>1
<1>3. Nat \subseteq T
  <2> HIDE DEF T
  <2> QED
    BY <1>1, <1>2, NatClosure
<1>4. ASSUME NEW s \in SUBSET S PROVE Splits(s)
  <2>1. Cardinality(s) \in T
    BY <1>3, FS_Subset, FS_CardinalityType
  <2> QED
    BY <2>1
<1> QED
  BY <1>4

(* A sum depends on the values over its set alone.                         *)
LEMMA SumCongruent ==
  ASSUME NEW S, NEW f, NEW h, \A x \in S : f[x] = h[x]
  PROVE  SumFunctionOnSet(f, S) = SumFunctionOnSet(h, S)
<1>1. ASSUME NEW g PROVE Summing(g, f, S) = Summing(g, h, S)
  <2>1. ASSUME NEW s \in SUBSET S, s # {} PROVE f[Picked(s)] = h[Picked(s)]
    BY <2>1 DEF Picked
  <2> QED
    BY <2>1 DEF Summing
<1>2. (CHOOSE g : g = Summing(g, f, S)) = (CHOOSE g : g = Summing(g, h, S))
  BY <1>1, Zenon
<1> QED
  BY <1>2, SumIs

(* The members of the first places of a list.                              *)
Members(ids, n) == {ids[i] : i \in 1..n}

(* A list without repetitions has as many members as places.               *)
LEMMA DistinctImage ==
  ASSUME NEW n \in Nat, NEW ids, \A i, j \in 1..n : ids[i] = ids[j] => i = j
  PROVE  IsFiniteSet(Members(ids, n)) /\ Cardinality(Members(ids, n)) = n
<1> DEFINE T == Members(ids, n)
           f == [i \in 1..n |-> ids[i]]
<1>1. f \in Bijection(1..n, T)
  BY DEF Members, Bijection, Injection, Surjection, IsInjective
<1>2. ExistsBijection(1..n, T)
  BY <1>1 DEF ExistsBijection
<1>3. IsFiniteSet(1..n) /\ Cardinality(1..n) = n
  BY FS_Interval
<1> QED
  <2> HIDE DEF T
  <2>1. IsFiniteSet(T) /\ Cardinality(T) = n
    BY <1>2, <1>3, FS_Bijection
  <2> QED
    BY <2>1 DEF T

(* Added up place by place, a list without repetitions comes to what its   *)
(* members come to.                                                        *)
LEMMA SumOfList ==
  ASSUME NEW n \in Nat, NEW ids, \A i, j \in 1..n : ids[i] = ids[j] => i = j,
         NEW f, \A i \in 1..n : f[ids[i]] \in Nat,
         NEW h, \A i \in 1..n : h[i] = f[ids[i]]
  PROVE  SumFunctionOnSet(h, 1..n) = SumFunctionOnSet(f, Members(ids, n))
<1> DEFINE T == {k \in Nat : k <= n => SumFunctionOnSet(h, 1..k) = SumFunctionOnSet(f, Members(ids, k))}
<1>1. 0 \in T
  <2>1. 1..0 = {} /\ Members(ids, 0) = {}
    BY DEF Members
  <2> QED
    BY <2>1, SumPicked, FS_EmptySet
<1>2. ASSUME NEW k \in Nat, k \in T PROVE k + 1 \in T
  <2>1. SUFFICES ASSUME k + 1 <= n
                 PROVE  SumFunctionOnSet(h, 1..(k + 1)) = SumFunctionOnSet(f, Members(ids, k + 1))
    OBVIOUS
  <2>2. /\ k + 1 \in 1..(k + 1) /\ (1..(k + 1)) \ {k + 1} = 1..k /\ IsFiniteSet(1..(k + 1))
        /\ 1..(k + 1) \subseteq 1..n
    BY <2>1, FS_Interval
  <2>3. /\ ids[k + 1] \in Members(ids, k + 1) /\ Members(ids, k + 1) \ {ids[k + 1]} = Members(ids, k)
    <3>1. \A i \in 1..(k + 1) : ids[i] = ids[k + 1] => i = k + 1
      BY <2>1
    <3>2. \A i \in 1..k : i \in 1..(k + 1) /\ i # k + 1
      OBVIOUS
    <3>3. \A i \in 1..(k + 1) : i # k + 1 => i \in 1..k
      OBVIOUS
    <3>4. k + 1 \in 1..(k + 1)
      OBVIOUS
    <3> QED
      BY <3>1, <3>2, <3>3, <3>4 DEF Members
  <2>4. IsFiniteSet(Members(ids, k + 1))
    BY <2>1, <2>2, DistinctImage
  <2>5. SumFunctionOnSet(h, 1..(k + 1)) = h[k + 1] + SumFunctionOnSet(h, 1..k)
    <3>1. \A x \in 1..(k + 1) : h[x] \in Nat
      BY <2>2
    <3> QED
      BY <3>1, <2>2, SumAny
  <2>6. SumFunctionOnSet(f, Members(ids, k + 1)) = f[ids[k + 1]] + SumFunctionOnSet(f, Members(ids, k))
    <3>1. \A x \in Members(ids, k + 1) : f[x] \in Nat
      BY <2>1 DEF Members
    <3> QED
      BY <3>1, <2>3, <2>4, SumAny
  <2> QED
    BY <1>2, <2>1, <2>5, <2>6
<1>3. n \in T
  <2> HIDE DEF T
  <2> QED
    BY <1>1, <1>2, NatClosure
<1> QED
  BY <1>3
-----------------------------------------------------------------------------
(* The links of a goal, place by place, as bindToGoalVersion has checked   *)
(* them; the objects they name have been stored, so that their sizes       *)
(* stand.                                                                  *)
SizeAt(links) == [i \in DOMAIN links |-> objects[links[i]].size]

LinksFit(links) ==
  /\ Len(links) <= MaxCount
  /\ \A i, j \in DOMAIN links : links[i] = links[j] => i = j
  /\ \A i \in DOMAIN links : objects[links[i]].state # "none"
  /\ SumFunctionOnSet(SizeAt(links), DOMAIN links) <= MaxTotal

LinksStand == \A k \in DOMAIN goals : LinksFit(goals[k].links)

(* A list that bindToGoalVersion lets through fits: its running total at   *)
(* the last place is the sum over all of them.                             *)
LEMMA BindableFits ==
  ASSUME TypeOK, NEW ids \in Seq(Object), Bindable(ids)
  PROVE  LinksFit(ids)
<1>1. Len(ids) \in Nat /\ DOMAIN ids = 1..Len(ids) /\ MaxTotal \in Nat
  BY IntakeConstants
<1>2. SumFunctionOnSet(SizeAt(ids), DOMAIN ids) <= MaxTotal
  <2>1. CASE Len(ids) = 0
    <3>1. DOMAIN ids = {}
      BY <1>1, <2>1
    <3>2. SumFunctionOnSet(SizeAt(ids), {}) = 0
      BY SumPicked, FS_EmptySet
    <3> QED
      BY <1>1, <3>1, <3>2
  <2>2. CASE Len(ids) # 0
    <3>1. Len(ids) \in DOMAIN ids
      BY <1>1, <2>2
    <3>2. Aggregate(ids, Len(ids)) <= MaxTotal
      BY <3>1 DEF Bindable
    <3> QED
      BY <1>1, <3>2 DEF Aggregate, SizeAt
  <2> QED
    BY <2>1, <2>2
<1>3. \A i \in DOMAIN ids : objects[ids[i]].state # "none"
  BY DEF Bindable
<1>4. Len(ids) <= MaxCount /\ \A i, j \in DOMAIN ids : ids[i] = ids[j] => i = j
  BY DEF Bindable
<1> QED
  BY <1>2, <1>3, <1>4 DEF LinksFit

(* A step that keeps what is stored, states aside, keeps the links of      *)
(* every goal fitting.                                                     *)
LEMMA StoredKept ==
  ASSUME TypeOK, LinksStand, UNCHANGED goals,
         \A o \in Object : objects[o].state # "none" =>
           objects'[o].state # "none" /\ objects'[o].size = objects[o].size
  PROVE  LinksStand'
<1>1. SUFFICES ASSUME NEW k \in DOMAIN goals PROVE LinksFit(goals[k].links)'
  BY DEF LinksStand
<1>2. PICK links \in Seq(Object) : links = goals[k].links
  <2>1. goals[k] \in GoalRow
    BY DEF TypeOK
  <2> QED
    BY <2>1 DEF GoalRow
<1>3. LinksFit(links)
  BY <1>2 DEF LinksStand
<1>4. ASSUME NEW i \in DOMAIN links
      PROVE  objects'[links[i]].state # "none" /\ objects'[links[i]].size = objects[links[i]].size
  <2>1. links[i] \in Object
    BY <1>2
  <2> QED
    BY <1>3, <2>1 DEF LinksFit
<1>5. [i \in DOMAIN links |-> objects'[links[i]].size] = [i \in DOMAIN links |-> objects[links[i]].size]
  BY <1>4
<1>6. SumFunctionOnSet([i \in DOMAIN links |-> objects'[links[i]].size], DOMAIN links) <= MaxTotal
  BY <1>3, <1>5 DEF LinksFit, SizeAt
<1>7. /\ Len(links) <= MaxCount
      /\ \A i, j \in DOMAIN links : links[i] = links[j] => i = j
  BY <1>3 DEF LinksFit
<1>8. goals[k].links' = links
  BY <1>2
<1> QED
  BY <1>4, <1>6, <1>7, <1>8 DEF LinksFit, SizeAt

(* A goal is recorded only with links that fit.                            *)
LEMMA LinksRecorded ==
  ASSUME TypeOK, LinksStand, NEW h \in Handler, CreateGoalAndRun(h)
  PROVE  LinksStand'
<1> DEFINE row == [goal |-> request[h].goal, result |-> request[h].result, links |-> request[h].ids]
<1>1. /\ UNCHANGED objects /\ request[h].step = "start" /\ goals' = Append(goals, row)
      /\ Bindable(request[h].ids) /\ goals \in Seq(GoalRow)
  BY DEF CreateGoalAndRun, TypeOK
<1>2. request[h].ids \in Seq(Object)
  BY <1>1, RequestShapes DEF TypeOK
<1>3. LinksFit(row.links)
  BY <1>1, <1>2, BindableFits
<1>4. ASSUME NEW links PROVE LinksFit(links)' = LinksFit(links)
  BY <1>1 DEF LinksFit, SizeAt
<1> HIDE DEF row
<1>5. SUFFICES ASSUME NEW k \in DOMAIN goals' PROVE LinksFit(goals'[k].links)
  BY <1>1, <1>4 DEF LinksStand, LinksFit, SizeAt
<1>6. CASE k = Len(goals) + 1
  <2>1. goals'[k] = row
    BY <1>1, <1>6
  <2> QED
    BY <2>1, <1>3
<1>7. CASE k # Len(goals) + 1
  <2>1. k \in DOMAIN goals /\ goals'[k] = goals[k]
    BY <1>1, <1>7
  <2> QED
    BY <2>1 DEF LinksStand
<1> QED
  BY <1>6, <1>7

(* Every step keeps the links of every goal fitting: an object that is     *)
(* linked is never stored again, and a deletion keeps its size.            *)
LEMMA LinksStep == IInv /\ LinksStand /\ [Next]_vars => LinksStand'
<1>1. SUFFICES ASSUME IInv, LinksStand, [Next]_vars PROVE LinksStand'
  OBVIOUS
<1>2. TypeOK
  BY <1>1 DEF IInv
<1>3. CASE UNCHANGED <<goals, objects>>
  BY <1>1, <1>2, <1>3, StoredKept
<1>4. ASSUME NEW h \in Handler, CreateGoalAndRun(h) PROVE LinksStand'
  BY <1>1, <1>2, <1>4, LinksRecorded
<1>5. ASSUME NEW h \in Handler, NEW o \in Object, Ingest(h, o) PROVE LinksStand'
  <2>1. /\ objects[o].state = "none" /\ UNCHANGED goals
        /\ objects' = [objects EXCEPT ![o] = [state |-> "READY", size |-> request[h].file.size]]
    BY <1>5 DEF Ingest
  <2>2. \A p \in Object : objects[p].state # "none" => objects'[p] = objects[p]
    BY <1>2, <2>1 DEF TypeOK
  <2> QED
    BY <1>1, <1>2, <2>1, <2>2, StoredKept
<1>6. ASSUME NEW o \in Object, Delete(o) PROVE LinksStand'
  <2>1. objects' = [objects EXCEPT ![o].state = "DELETED"] /\ UNCHANGED goals
    BY <1>6 DEF Delete
  <2>2. \A p \in Object : objects'[p].size = objects[p].size /\
          (objects[p].state # "none" => objects'[p].state # "none")
    BY <1>2, <2>1 DEF TypeOK, ObjectRow
  <2> QED
    BY <1>1, <1>2, <2>1, <2>2, StoredKept
<1>7. \/ UNCHANGED <<goals, objects>>
      \/ \E h \in Handler : CreateGoalAndRun(h) \/ \E o \in Object : Ingest(h, o)
      \/ \E o \in Object : Delete(o)
  <2>1. CASE Serve
    BY <2>1 DEF Serve, Handle, Live, AuditRejection, Reject, RefuseGoal, Fail, Upload, Submit, Work,
                OpenWait, AnswerWait, Cancel
  <2>2. CASE ~Serve
    BY <1>1, <2>2 DEF Next, ReviseDraft, SettleDraft, vars, intake
  <2> QED
    BY <2>1, <2>2
<1> QED
  BY <1>3, <1>4, <1>5, <1>6, <1>7

(* What bindToGoalVersion checks row by row is what the policy says of the *)
(* attachments of a goal, for any list of them and any limits: as many as  *)
(* places, no more than allowed, and together no larger than allowed,      *)
(* whatever is deleted and whichever goals compete.                        *)
THEOREM AttachmentsWithinPolicy == Spec => []LinksWithinPolicy
<1>1. Init => LinksStand
  BY DEF Init, LinksStand
<1>2. Spec => []LinksStand
  BY <1>1, LinksStep, InductiveInvariant, PTL DEF Spec
<1>3. IInv /\ LinksStand => LinksWithinPolicy
  <2>1. SUFFICES ASSUME IInv, LinksStand, NEW k \in DOMAIN goals
                 PROVE  LET linked == {goals[k].links[i] : i \in DOMAIN goals[k].links}
                        IN  /\ Cardinality(linked) = Len(goals[k].links)
                            /\ Cardinality(linked) <= MaxCount
                            /\ SumFunction([o \in linked |-> objects[o].size]) <= MaxTotal
    BY DEF IInv, LinksWithinPolicy
  <2>2. PICK ids \in Seq(Object) : ids = goals[k].links
    <3>1. goals[k] \in GoalRow
      BY <2>1 DEF IInv, TypeOK
    <3> QED
      BY <3>1 DEF GoalRow
  <2>3. PICK n \in Nat : n = Len(ids) /\ DOMAIN ids = 1..n
    BY <2>2
  <2>4. LinksFit(ids)
    BY <2>1, <2>2 DEF LinksStand
  <2>5. \A i, j \in 1..n : ids[i] = ids[j] => i = j
    BY <2>3, <2>4 DEF LinksFit
  <2>6. Cardinality(Members(ids, n)) = n
    BY <2>5, DistinctImage
  <2> DEFINE linked == Members(ids, n)
             size == [o \in linked |-> objects[o].size]
  <2>7. n <= MaxCount
    BY <2>3, <2>4 DEF LinksFit
  <2>8. \A i \in 1..n : size[ids[i]] \in Nat /\ SizeAt(ids)[i] = size[ids[i]]
    <3>1. \A i \in 1..n : ids[i] \in Object
      BY <2>3
    <3>2. \A i \in 1..n : ids[i] \in linked
      BY DEF Members
    <3> QED
      BY <2>1, <2>3, <3>1, <3>2 DEF IInv, TypeOK, ObjectRow, SizeAt
  <2>9. SumFunctionOnSet(SizeAt(ids), 1..n) = SumFunctionOnSet(size, linked)
    <3>1. PICK f : f = size
      OBVIOUS
    <3>2. PICK g : g = SizeAt(ids)
      OBVIOUS
    <3>3. \A i \in 1..n : f[ids[i]] \in Nat /\ g[i] = f[ids[i]]
      BY <2>8, <3>1, <3>2
    <3>4. SumFunctionOnSet(g, 1..n) = SumFunctionOnSet(f, Members(ids, n))
      BY <2>5, <3>3, SumOfList
    <3> QED
      BY <3>1, <3>2, <3>4
  <2>10. SumFunction(size) = SumFunctionOnSet(size, linked)
    BY DEF SumFunction
  <2>11. SumFunction(size) <= MaxTotal
    BY <2>3, <2>4, <2>9, <2>10 DEF LinksFit
  <2>12. {goals[k].links[i] : i \in DOMAIN goals[k].links} = linked
    BY <2>2, <2>3 DEF Members
  <2> QED
    BY <2>2, <2>3, <2>6, <2>7, <2>11, <2>12
<1> QED
  BY <1>2, <1>3, InductiveInvariant, PTL
=============================================================================
