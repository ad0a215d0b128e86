--------------------------- MODULE ProfileMatching ---------------------------
(***************************************************************************)
(* Which profile an input file gets: MatchCriteria, ProfileMatcher,        *)
(* MatchProfile, and the validation of VshiftConfig they rely on.          *)
(*                                                                         *)
(* An input is what was probed of it, with its extension in lower case and *)
(* "globs", the filename patterns its name matches (fnmatch).  Criteria    *)
(* that a rule does not set are None; no extensions is the empty set.      *)
(***************************************************************************)
EXTENDS VideoStream, SequencesExt

\* A value that is not a list, as in "extensions: mkv", counts as no extensions.
NormalizeExtensions(value, isList) == IF isList THEN value ELSE {}

InOrder(least, most) == least = None \/ most = None \/ least <= most

CriteriaValid(c) ==
  /\ InOrder(c.minWidth, c.maxWidth)
  /\ InOrder(c.minHeight, c.maxHeight)
  /\ InOrder(c.minBitDepth, c.maxBitDepth)

MatchesDimension(value, least, most) ==
  \/ least = None /\ most = None
  \/ /\ value # None
     /\ least = None \/ value >= least
     /\ most = None \/ value <= most

MatchesHdr(value, expected) == expected = None \/ value = expected

Matches(c, probed) ==
  /\ c.extensions = {} \/ probed.extension \in c.extensions
  /\ c.filenameGlob = None \/ c.filenameGlob \in probed.globs
  /\ MatchesDimension(probed.width, c.minWidth, c.maxWidth)
  /\ MatchesDimension(probed.height, c.minHeight, c.maxHeight)
  /\ MatchesDimension(probed.bitDepth, c.minBitDepth, c.maxBitDepth)
  /\ MatchesHdr(probed.hdr, c.hdr)

\* Mutant: the rules are taken in the order of the file.
ByPriority_Unsorted(rules) == rules

\* Rules as they are loaded: a list, with numbers for the priorities.
Prioritised(rules) ==
  /\ rules \in Seq({rules[a] : a \in DOMAIN rules})
  /\ \A a \in DOMAIN rules : rules[a].priority \in Nat

\* sorted() is stable: rules of one priority stay in the order of the file.
Precedes(rules, a, b) ==
  rules[a].priority < rules[b].priority \/ (rules[a].priority = rules[b].priority /\ a < b)

Place(rules, a) == Cardinality({b \in DOMAIN rules : b = a \/ Precedes(rules, b, a)})

ByPriority(rules) ==
  [n \in DOMAIN rules |-> rules[CHOOSE a \in DOMAIN rules : Place(rules, a) = n]]

\* The rule that the ProfileMatcher selects, or None.
MatchRule(rules, probed) ==
  LET sorted == ByPriority(rules)
      n == SelectInSeq(sorted, LAMBDA rule : Matches(rule.match, probed))
  IN  IF n = 0 THEN None ELSE sorted[n]

NoMatchActions == {"ignore", "reject", "default_profile"}

\* Mutant: the default profile is not looked up.
ConfigValid_NoDefault(config) ==
  /\ config.profiles # {}
  /\ \A i, k \in DOMAIN config.rules :
       config.rules[i].id = config.rules[k].id => i = k
  /\ \A i \in DOMAIN config.rules :
       CriteriaValid(config.rules[i].match) /\ config.rules[i].profile \in config.profiles

\* The configuration that VshiftConfig accepts.
ConfigValid(config) ==
  /\ config.profiles # {}
  /\ config.noMatch = "default_profile" => config.defaultProfile \in config.profiles
  /\ \A i, k \in DOMAIN config.rules :
       config.rules[i].id = config.rules[k].id => i = k
  /\ \A i \in DOMAIN config.rules :
       CriteriaValid(config.rules[i].match) /\ config.rules[i].profile \in config.profiles

\* A profile that is not there: a KeyError or a VShiftException.
Raised == "raised"

ProfileOf(config, name) == IF name \in config.profiles THEN name ELSE Raised

MatchProfile(config, probed) ==
  LET rule == MatchRule(config.rules, probed)
  IN  IF rule # None THEN ProfileOf(config, rule.profile)
      ELSE IF config.noMatch = "default_profile" THEN ProfileOf(config, config.defaultProfile)
      ELSE None
=============================================================================
