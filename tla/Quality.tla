-------------------------------- MODULE Quality --------------------------------
(***************************************************************************)
(* The passes that complete a text (app/generation/quality_improver.py)    *)
(* and the score, risk and verdict it gets (app/evaluation/quality.py),    *)
(* computed for every kind of text.                                        *)
(*                                                                         *)
(* A text is reduced to what its safety lists have of substance and of     *)
(* fillers, and to the checks it fails; the eight criteria that are not    *)
(* about safety, completeness or sources have one score in common.         *)
(***************************************************************************)
EXTENDS Rounding, FiniteSets

CONSTANTS
  Critical,   \* codes of SafetyFinding with severity critical ...
  High,       \* ... and high
  Shapes,     \* the lists that a text can have: pairs of items with and without substance
  Notes,      \* the steps with a note: pairs of percentages, with substance and with none
  Others,     \* scores of the criteria that are not detailed
  MaxPasses   \* bound: how often a text is improved

Codes == Critical \cup High
Percent == 0 .. 100

ASSUME QualityAssumption ==
  /\ Critical \cap High = {} /\ IsFiniteSet(Codes)
  /\ Shapes \subseteq Nat \X Nat /\ <<0, 0>> \notin Shapes
  /\ Notes \subseteq {n \in Percent \X Percent : n[1] + n[2] <= 100}
  /\ Others \subseteq Percent /\ MaxPasses \in Nat

VARIABLES
  text,
  passes,     \* how often improve_instruction_quality was applied to it
  findings,   \* what analyze_untrusted_context finds in its request
  validated   \* one of its claims has a validation record

qualityVars == <<text, passes, findings, validated>>

-----------------------------------------------------------------------------
(* Texts.                                                                  *)

\* house: items that improve_instruction_quality has added.
List == [own : Nat, filler : Nat, house : Nat]

\* ppe: the list has substance.  zones: so has that of the hazard zones (it is not 0), and
\* the share of them that the text addresses.  domain, grounding: the checks of these
\* criteria that the text fails, those on findings aside.  short: less than four steps.
Document == [ppe : BOOLEAN, zones : Percent, requirements : List, emergency : List,
             noted : Percent, silent : Percent, domain : 0 .. 4, grounding : 0 .. 7,
             rest : Percent, short : BOOLEAN]

\* Before there is one.
NoText == [kind |-> "none"]

ListOf(shape) == [own |-> shape[1], filler |-> shape[2], house |-> 0]

\* What a model, the fallback or an editor writes.
Texts ==
  {[ppe |-> p, zones |-> z, requirements |-> ListOf(r), emergency |-> ListOf(e),
    noted |-> n[1], silent |-> n[2], domain |-> d, grounding |-> d, rest |-> o, short |-> o < 75] :
     p \in BOOLEAN, z \in {0, 50, 100}, r \in Shapes, e \in Shapes, n \in Notes,
     d \in {0, 1}, o \in Others}

Size(list) == list.own + list.filler + list.house
Formal(list) == list.own = 0 /\ list.filler > 0

Least(a, b) == IF a <= b THEN a ELSE b
Most(a, b) == IF a >= b THEN a ELSE b

\* _extend_unique: items are added until the minimum is reached, at least one, and none twice.
Extended(list, candidates, minimum) ==
  [list EXCEPT !.house = Least(candidates, @ + Most(1, minimum - Size(list)))]

\* Fault: the steps that get a note are taken for silent ones again.
ImprovedAgain(doc) ==
  [doc EXCEPT !.requirements = Extended(@, 5, 4),
              !.emergency = Extended(@, 4, 4),
              !.noted = @ + doc.silent]

\* improve_instruction_quality
Improved(doc) ==
  [doc EXCEPT !.requirements = Extended(@, 5, 4),
              !.emergency = Extended(@, 4, 4),
              !.noted = @ + doc.silent,
              !.silent = 0]

-----------------------------------------------------------------------------
(* evaluate_instruction.                                                   *)

Passed(check) == IF check THEN 100 ELSE 0

\* _is_substantive_list
Substantive(list, minimum) ==
  list.own + list.house >= minimum /\ 5 * (list.own + list.house) >= 4 * Size(list)

SafetyScore(doc) ==
  Rounded(Passed(doc.ppe) + Passed(doc.zones > 0) + Passed(Substantive(doc.requirements, 3))
            + doc.noted + Passed(Substantive(doc.emergency, 3)) + doc.zones, 6)

\* The lists of tools, prerequisites and control points go with the other criteria.
CompletenessScore(doc) ==
  Rounded(Passed(doc.ppe) + Passed(doc.zones > 0) + Passed(Substantive(doc.requirements, 1))
            + Passed(Substantive(doc.emergency, 1)) + Passed(~ doc.short) + 3 * doc.rest, 8)

DomainScore(doc, found) ==
  Rounded(100 * (4 - doc.domain) + Passed(found \cap Critical = {}), 5)

GroundingScore(doc, found) ==
  Rounded(100 * (7 - doc.grounding) + Passed(found = {}), 8)

\* CRITERION_WEIGHTS, doubled; their sum is 36.
Weighted(doc, found) ==
  6 * SafetyScore(doc) + 4 * DomainScore(doc, found) + 4 * GroundingScore(doc, found)
    + 3 * CompletenessScore(doc) + 19 * doc.rest

WorstSafety(doc, found) == Least(SafetyScore(doc), DomainScore(doc, found))

SafetyFloor == 90

\* Fault: the score is the average.
AverageOnly(doc, found) == Rounded(Weighted(doc, found), 36)

\* Fault: below the floor the score is that of the criterion.
WeakestOnly(doc, found) ==
  IF WorstSafety(doc, found) < SafetyFloor THEN WorstSafety(doc, found)
                                           ELSE Rounded(Weighted(doc, found), 36)

\* _overall_score: min(average, weakest) before it is rounded.
OverallScore(doc, found) ==
  LET weakest == WorstSafety(doc, found)
  IN  IF weakest < SafetyFloor /\ 36 * weakest < Weighted(doc, found)
        THEN weakest
        ELSE Rounded(Weighted(doc, found), 36)

\* _unverified_draft_ceiling
Ceiling(score, claim) == IF claim THEN score ELSE Rounded(score * 95, 100)

\* _risk_level
Risk(score, doc, found) ==
  LET weakSafety == WorstSafety(doc, found) < 80
  IN  IF found \cap Critical # {} THEN "critical"
      ELSE IF found # {} THEN "high"
      ELSE IF score < 60 \/ (weakSafety /\ doc.short) THEN "critical"
      ELSE IF score < 75 \/ weakSafety \/ GroundingScore(doc, found) < 75 THEN "high"
      ELSE IF score < 90 THEN "medium" ELSE "low"

\* _verdict: the structure is called complete.
Complete(score, found) == found = {} /\ score >= 90

\* evaluate_instruction; _build_recommendations only words what is in here.
Score(doc, found, claim) == Ceiling(OverallScore(doc, found), claim)

-----------------------------------------------------------------------------
(* Every kind of text, improved any number of times.                       *)

QualityInit ==
  text = NoText /\ passes = 0 /\ findings = {} /\ validated = FALSE

\* A text of any kind, from any request.
WriteText ==
  /\ text = NoText
  /\ text' \in Texts
  /\ findings' \in SUBSET Codes
  /\ validated' \in BOOLEAN
  /\ UNCHANGED passes

Improve ==
  /\ text # NoText /\ passes < MaxPasses
  /\ text' = Improved(text)
  /\ passes' = passes + 1
  /\ UNCHANGED <<findings, validated>>

QualityNext == WriteText \/ Improve

QualitySpec == QualityInit /\ [][QualityNext]_qualityVars

-----------------------------------------------------------------------------
QualityTypeOK ==
  /\ text \in Document \cup {NoText} /\ passes \in 0 .. MaxPasses
  /\ findings \subseteq Codes /\ validated \in BOOLEAN
  /\ text # NoText => Score(text, findings, validated) \in Percent

\* No text is rated above its own safety.  With only fillers for the protective equipment or
\* the hazard zones, however often it is improved, or for the safety requirements or the
\* emergency actions when it was improved once, as every generated text is, and with a
\* critical finding, the criterion holds down the whole score, and none of them is left when
\* the verdict calls the structure complete or the risk is low.
ScoreIsCapped ==
  text # NoText =>
  LET score == Score(text, findings, validated)
      risk == Risk(score, text, findings)
  IN  /\ ~ text.ppe => score <= 83
      /\ text.zones = 0 => score <= 67
      /\ passes = 1 /\ (Formal(text.requirements) \/ Formal(text.emergency)) => score <= 83
      /\ findings \cap Critical # {} => score <= 80 /\ risk = "critical"
      /\ findings # {} => risk \in {"high", "critical"}
      /\ Complete(score, findings) \/ risk = "low" =>
           findings = {} /\ WorstSafety(text, findings) >= SafetyFloor
      /\ ~ validated => score <= 95

\* The texts that are better than one in one respect.
Better(doc) ==
  {[doc EXCEPT !.ppe = TRUE], [doc EXCEPT !.zones = 100], [doc EXCEPT !.requirements.filler = 0, !.requirements.own = 3],
   [doc EXCEPT !.emergency.filler = 0, !.emergency.own = 3], [doc EXCEPT !.noted = 100 - doc.silent],
   [doc EXCEPT !.domain = 0], [doc EXCEPT !.grounding = 0], [doc EXCEPT !.rest = 100], [doc EXCEPT !.short = FALSE]}

\* A text that gets better in one respect, loses a finding, or has its first claim
\* validated, never scores less: not at the floor, where the score stops to be held down,
\* and not where it is rounded.
ScoreIsMonotone ==
  text # NoText =>
  LET score == Score(text, findings, validated)
  IN  /\ \A doc \in Better(text) : Score(doc, findings, validated) >= score
      /\ \A found \in SUBSET findings : Score(text, found, validated) >= score
      /\ Score(text, findings, TRUE) >= score
=================================================================================
