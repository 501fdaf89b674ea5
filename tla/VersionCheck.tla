---------------------------- MODULE VersionCheck ----------------------------
(***************************************************************************)
(* What the checker says of one chart reference over its life: the tags of *)
(* the registry come and go, scans resolve the declared version and look   *)
(* for a newer one (registry.Latest, isNewer, classifyScope), and the      *)
(* owner of the manifest follows what was reported.                        *)
(*                                                                         *)
(* A version text is a member of Texts.  Reading it is the work of the     *)
(* semver library, given here by two constants: Parsed, the version a text *)
(* stands for, and Allows, the versions a text accepts as a constraint.    *)
(***************************************************************************)
EXTENDS Integers

CONSTANTS Texts,       \* version texts of manifests and registries
          Parsed,      \* semver.NewVersion
          Allows,      \* semver.NewConstraint and Check
          NotSemver    \* semver.NewVersion failed

Versions == [major : Nat, minor : Nat, patch : Nat, pre : BOOLEAN]
Scopes == {"all", "major", "minor", "patch"}
Bumps == {"", "major", "minor", "patch", "unknown"}

ASSUME TextsAreNotEmpty == "" \notin Texts
ASSUME ParsedIsTotal == Parsed \in [Texts -> Versions \cup {NotSemver}]
ASSUME FailureIsNoVersion == NotSemver \notin Versions

VARIABLES
  tags,       \* the versions the registry has of the chart
  declared,   \* the version the manifest declares
  scope,      \* the configured scope
  report,     \* the Result of the last scan, with the base it was made from
  fresh,      \* history: the tags are those of the last scan
  origin      \* history: the version in use when the first update was taken

checkVars == <<tags, declared, scope, report, fresh, origin>>

Parses(text) == Parsed[text] # NotSemver

\* Version.GreaterThan: by major, minor and patch, a prerelease before its release.
Exceeds(v, w) ==
  \/ v.major > w.major
  \/ v.major = w.major /\ v.minor > w.minor
  \/ v.major = w.major /\ v.minor = w.minor /\ v.patch > w.patch
  \/ /\ v.major = w.major /\ v.minor = w.minor /\ v.patch = w.patch
     /\ w.pre /\ ~v.pre

Stable(S) == {t \in S : Parses(t) /\ ~Parsed[t].pre}

\* The last of the sorted texts; equal versions may be spelled in several ways.
Newest(S) == {t \in S : \A u \in S : ~Exceeds(Parsed[u], Parsed[t])}

\* The version updates are measured from: one, or none when it is an error.
resolveCurrent(text, S) ==
  IF Parses(text)
  THEN {Parsed[text]}
  ELSE {Parsed[t] : t \in Newest({u \in Stable(S) : Parsed[u] \in Allows[text]})}

\* Before it: patch scope that compares the minor version alone.
InScopeMinorOnly(v, current, sc) ==
  /\ sc = "patch" => v.minor = current.minor
  /\ sc = "minor" => v.major = current.major

InScope(v, current, sc) ==
  /\ sc = "patch" => v.major = current.major /\ v.minor = current.minor
  /\ sc = "minor" => v.major = current.major

\* Before it: candidates that need only not be older.
CandidatesNotOlder(current, S, sc) ==
  {t \in Stable(S) : ~Exceeds(current, Parsed[t]) /\ InScope(Parsed[t], current, sc)}

Candidates(current, S, sc) ==
  {t \in Stable(S) : Exceeds(Parsed[t], current) /\ InScope(Parsed[t], current, sc)}

\* Before it: the last of the candidates as they come, not sorted.
latestFromTagsUnsorted(current, S, sc) ==
  IF Candidates(current, S, sc) = {} THEN {""} ELSE Candidates(current, S, sc)

latestFromTags(current, S, sc) ==
  IF Candidates(current, S, sc) = {} THEN {""} ELSE Newest(Candidates(current, S, sc))

\* Before it: versions that do not parse are never newer.
isNewerParsed(latest, current) ==
  /\ latest # ""
  /\ Parses(latest) /\ Parses(current) /\ Exceeds(Parsed[latest], Parsed[current])

isNewer(latest, current) ==
  /\ latest # ""
  /\ IF Parses(latest) /\ Parses(current)
     THEN Exceeds(Parsed[latest], Parsed[current])
     ELSE latest # current

classifyScope(current, latest) ==
  IF latest = "" \/ current = latest THEN ""
  ELSE IF ~(Parses(latest) /\ Parses(current)) THEN "unknown"
  ELSE IF Parsed[latest].major # Parsed[current].major THEN "major"
  ELSE IF Parsed[latest].minor # Parsed[current].minor THEN "minor"
  ELSE "patch"

(***************************************************************************)
(* Scans, the registry and the owner of the manifest.                      *)
(***************************************************************************)
\* The Result of one reference, and for the history its base.
Result(latest, base) ==
  [current |-> declared, latest |-> latest, base |-> base,
   update |-> isNewer(latest, declared), bump |-> classifyScope(declared, latest)]

CheckInit ==
  /\ tags \in SUBSET Texts
  /\ declared \in Texts
  /\ scope \in Scopes
  /\ report = Result("", NotSemver)
  /\ fresh = FALSE
  /\ origin = NotSemver

Check ==
  /\ \E base \in resolveCurrent(declared, tags) :
       \E latest \in latestFromTags(base, tags, scope) : report' = Result(latest, base)
  /\ fresh' = TRUE
  /\ UNCHANGED <<tags, declared, scope, origin>>

\* No base, an index or a tag list that could not be read, a chart not in it.
CheckFails ==
  /\ report' = Result("", NotSemver)
  /\ fresh' = TRUE
  /\ UNCHANGED <<tags, declared, scope, origin>>

Publish(t) ==
  /\ tags' = tags \cup {t}
  /\ fresh' = (fresh /\ tags' = tags)
  /\ UNCHANGED <<declared, scope, report, origin>>

Withdraw(t) ==
  /\ tags' = tags \ {t}
  /\ fresh' = (fresh /\ tags' = tags)
  /\ UNCHANGED <<declared, scope, report, origin>>

\* The owner writes the reported version into the manifest.
TakeUpdate ==
  /\ report.update
  /\ report.current = declared
  /\ declared' = report.latest
  /\ origin' = IF origin = NotSemver THEN report.base ELSE origin
  /\ UNCHANGED <<tags, scope, report, fresh>>

CheckNext ==
  \/ Check
  \/ CheckFails
  \/ \E t \in Texts : Publish(t) \/ Withdraw(t)
  \/ TakeUpdate

CheckSpec == CheckInit /\ [][CheckNext]_checkVars

(***************************************************************************)
(* Properties.                                                             *)
(***************************************************************************)
Reports ==
  [current : Texts, latest : Texts \cup {""}, base : Versions \cup {NotSemver},
   update : BOOLEAN, bump : Bumps]

\* A reported version is a stable one, newer than the base and in scope, and
\* the newest such while the registry has not changed.
Founded ==
  report.latest # "" =>
    /\ report.base \in Versions
    /\ Parses(report.current) => report.base = Parsed[report.current]
    /\ report.latest \in Candidates(report.base, {report.latest}, scope)
    /\ fresh => report.latest \in Newest(Candidates(report.base, tags, scope))

\* The fields of a Result that are computed from the two texts.
Derived ==
  /\ report.update = isNewer(report.latest, report.current)
  /\ report.bump = classifyScope(report.current, report.latest)

\* Once an update was taken the manifest declares a version, not a range.
Settled == origin # NotSemver => Parses(declared)

CheckTypeOK ==
  /\ tags \subseteq Texts
  /\ declared \in Texts
  /\ scope \in Scopes
  /\ report \in Reports
  /\ fresh \in BOOLEAN
  /\ origin \in Versions \cup {NotSemver}

\* The three ways a Result says "there is an update" agree: isNewer,
\* classifyScope and LatestVersion are computed apart, from texts that need
\* not parse, and the dashboard, the gauge and the table read different ones.
ReportsAgree ==
  /\ report.update <=> report.latest # ""
  /\ report.bump # "" <=> report.latest # ""

\* The bump shown for a declared version is one the configured scope allows.
BumpsAreInScope ==
  /\ scope = "patch" => report.bump \in {"", "patch", "unknown"}
  /\ scope = "minor" => report.bump \in {"", "minor", "patch", "unknown"}

\* Taking the update ends it: measured from the version reported, and while the
\* registry stays, nothing newer is eligible, however the version is spelled.
UpdatesSettle ==
  fresh /\ report.latest # "" =>
    Candidates(Parsed[report.latest], tags, scope) = {}

\* However many updates are taken, while versions are published and withdrawn,
\* the manifest only climbs from where it started and never leaves its line:
\* patch scope keeps the minor version, minor scope the major one.
NeverLeavesLine ==
  origin # NotSemver =>
    /\ Exceeds(Parsed[declared], origin)
    /\ scope \in {"patch", "minor"} => Parsed[declared].major = origin.major
    /\ scope = "patch" => Parsed[declared].minor = origin.minor

CheckInv == CheckTypeOK /\ Founded /\ Derived /\ Settled
=============================================================================
