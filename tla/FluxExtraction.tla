--------------------------- MODULE FluxExtraction ---------------------------
(***************************************************************************)
(* How the chart references of the repositories are found and reported:    *)
(* scanDir of internal/scan/runner.go walks the YAML files of a repository *)
(* twice with extractors of its own (internal/extractor), first to collect *)
(* the Flux sources and then to resolve the releases against them, looks   *)
(* the references up, and /metrics shows what is outdated.                 *)
(*                                                                         *)
(* A repository is the sequence of the YAML documents of its files, in the *)
(* order of the walk; reading one is one action.  Repositories are scanned *)
(* concurrently.  An entry of a source map is named by the document it was *)
(* built from.  Lookups are the subject of ScanRunner and IndexCache.      *)
(***************************************************************************)
EXTENDS Integers, Sequences

CONSTANTS
  Repos,     \* the configured repositories, all of them synced
  Names,     \* namespaces and names of resources; "" when absent
  Trees,     \* what the repositories may hold, each a sequence of Doc
  Flaky,     \* repositories whose files may be unreadable (runner.go:131)
  Newest     \* the newest version of every chart

SourceKinds == {"HelmRepository", "OCIRepository"}
CrossRef == [kind : STRING, ns : Names, name : Names]

\* A document.  defect: what the document breaks, the decoding of pass 1, the
\* one of pass 2 or the one as a Chart.yaml (type mismatches), or all of them
\* and the rest of its file ("syntax").  image, tag: what an OCIRepository names
\* and pins.  A Chart.yaml is of kind "Chart", chart is its name, and it has deps.
\* Empty texts are absent fields.
Doc == [file : Nat, kind : STRING,
        defect : SUBSET {"prepare", "extract", "chart", "syntax"},
        ns : Names, name : Names, image : STRING, tag : STRING,
        chartRef : CrossRef, sourceRef : CrossRef,
        protocol : STRING, repoURL : STRING, chart : STRING, version : STRING,
        deps : Seq([name : STRING, version : STRING, repository : STRING,
                    protocol : STRING])]

\* The documents of a file are together.
ASSUME TreesAreWalks ==
  \A t \in Trees :
    /\ t \in [Repos -> Seq(Doc)]
    /\ \A r \in Repos : \A i, j \in DOMAIN t[r] :
         i <= j => t[r][i].file <= t[r][j].file
ASSUME FlakyAreRepos == Flaky \subseteq Repos
ASSUME NamesAreTexts == "" \in Names /\ Names \subseteq STRING

VARIABLES
  tree,      \* the documents of each repository
  pass,      \* 1: prepare, 2: extract, 3: scanned
  at,        \* the document the walk comes to next
  closed,    \* the decoding of the current file has ended, or never began
  sources,   \* the maps helm and oci of each repository's FluxCD extractor
  pending,   \* the references found
  results,   \* the results of the scan
  scrape,    \* what GET /metrics answers after the scan
  unread     \* history: the files each pass could not read

walkVars == <<pass, at, closed, unread>>
vars == <<tree, walkVars, sources, pending, results, scrape>>

Keys  == Names \X Names   \* "namespace/name"
Entry == [repo : Repos, at : Nat \ {0}]

\* A reference: the document it is of and the dependency in that, or 0, the entry
\* it was resolved with, if any, and the labels its result will have.  Results are
\* told apart by what they are of; their order is the one lookups end in.
Label     == [chart : STRING, name : STRING, protocol : STRING, current : STRING]
Reference == [type : {"helm", "fluxcd"}, at : Nat \ {0}, dep : Nat,
              source : SUBSET Entry, label : Label]
Result    == [ref : Reference, outdated : BOOLEAN]

WalkOK ==
  /\ pass \in [Repos -> 1..3] /\ at \in [Repos -> Nat \ {0}]
  /\ closed \in [Repos -> BOOLEAN]
  /\ unread \in [Repos -> SUBSET ({1, 2} \X Nat)]

TypeOK ==
  /\ tree \in [Repos -> Seq(Doc)]
  /\ WalkOK
  /\ sources \in [Repos -> [SourceKinds -> [Keys -> SUBSET Entry]]]
  /\ pending \in [Repos -> SUBSET Reference]
  /\ results \in [Repos -> SUBSET Result]
  /\ scrape \in {"none", "ok", "error"}

Init ==
  /\ tree \in Trees
  /\ pass = [r \in Repos |-> 1] /\ at = [r \in Repos |-> 1]
  /\ closed = [r \in Repos |-> FALSE]
  /\ unread = [r \in Repos |-> {}]
  /\ sources = [r \in Repos |-> [k \in SourceKinds |-> [key \in Keys |-> {}]]]
  /\ pending = [r \in Repos |-> {}]
  /\ results = [r \in Repos |-> {}]
  /\ scrape = "none"

-----------------------------------------------------------------------------
(* The walk and the decoding loop, which both passes share.                 *)

Here(r)  == tree[r][at[r]]
First(r) == at[r] = 1 \/ tree[r][at[r] - 1].file # Here(r).file

\* At the first document of a file the file is read, which may fail.
Readings(r) == IF r \in Flaky /\ First(r) THEN BOOLEAN ELSE {TRUE}

\* A file is decoded only if its text has a word of the pass in it, wherever:
\* the references of a release name source kinds too.
Words(doc)  == {doc.kind, doc.chartRef.kind, doc.sourceRef.kind}
\* A wrong WordsOf: pass 1 looks only at the files that pass 2 will extract.
WordsOfMatch(n) == {"HelmRelease"}
WordsOf(n) == IF n = 1 THEN SourceKinds ELSE {"HelmRelease"}

Wanted(r, n) ==
  \E i \in DOMAIN tree[r] :
    tree[r][i].file = Here(r).file /\ Words(tree[r][i]) \cap WordsOf(n) # {}

\* keepDecoding: a type mismatch costs its document, a syntax error its file.
EndsFileAny(doc) == doc.defect # {}  \* a wrong EndsFile: any error ends the file
EndsFile(doc) == "syntax" \in doc.defect

Shut(r, n, readable) ==
  IF First(r) THEN ~readable \/ ~Wanted(r, n) ELSE closed[r]

Decodes(doc, step) == doc.defect \cap {step, "syntax"} = {}

\* The walk comes to the next document; a file that cannot be read is skipped
\* without a word.
Reading(r, n) == pass[r] = n /\ at[r] \in DOMAIN tree[r]

Advance(r, n, readable) ==
  /\ at' = [at EXCEPT ![r] = @ + 1]
  /\ closed' = [closed EXCEPT ![r] = Shut(r, n, readable) \/ EndsFile(Here(r))]
  /\ unread' = IF readable THEN unread
               ELSE [unread EXCEPT ![r] = @ \cup {<<n, Here(r).file>>}]
  /\ UNCHANGED <<tree, pass, scrape>>

-----------------------------------------------------------------------------
(* Pass 1: PrepareFile.                                                     *)

\* A wrong Own: the extractors are made once, for all repositories.
OwnShared(r) == CHOOSE s \in Repos : TRUE
\* newExtractors is called by each scanDir.
Own(r) == r

Prepare(r) ==
  /\ Reading(r, 1)
  /\ \E readable \in Readings(r) :
       LET doc == Here(r) IN
       /\ Advance(r, 1, readable)
       /\ sources' =
            IF ~Shut(r, 1, readable) /\ Decodes(doc, "prepare")
                 /\ doc.kind \in SourceKinds
            THEN [sources EXCEPT ![Own(r)][doc.kind][<<doc.ns, doc.name>>] =
                    {[repo |-> r, at |-> at[r]]}]
            ELSE sources
  /\ UNCHANGED <<pending, results>>

\* Both walks begin at the first file.
SecondPass(r) ==
  /\ pass[r] = 1 /\ at[r] \notin DOMAIN tree[r]
  /\ pass' = [pass EXCEPT ![r] = 2]
  /\ at' = [at EXCEPT ![r] = 1]
  /\ UNCHANGED <<tree, closed, unread, sources, pending, results, scrape>>

-----------------------------------------------------------------------------
(* Pass 2: Match and Extract.                                               *)

\* A wrong KeyOf: a reference without a namespace stays without one.
KeyOfBare(ref, doc) == <<ref.ns, ref.name>>
KeyOf(ref, doc) == <<IF ref.ns = "" THEN doc.ns ELSE ref.ns, ref.name>>

\* The three patterns, in the order refsFromRelease tries them: one that applies
\* is the only one tried.
ByImage(doc)  == doc.chartRef.kind = "OCIRepository"
ByRepo(doc)   == ~ByImage(doc) /\ doc.sourceRef.kind = "HelmRepository"
Inline(doc)   == ~ByImage(doc) /\ ~ByRepo(doc) /\ doc.repoURL # ""
HasChart(doc) == doc.chart # "" /\ doc.version # ""

\* The map's entry for the release: {} when there is none, or none is asked for.
Entries(r, doc) ==
  IF ByImage(doc)
  THEN sources[Own(r)]["OCIRepository"][KeyOf(doc.chartRef, doc)]
  ELSE IF ByRepo(doc)
  THEN sources[Own(r)]["HelmRepository"][KeyOf(doc.sourceRef, doc)]
  ELSE {}

\* The document an entry was built from.
Origin(entry) == tree[entry.repo][entry.at]

Flux(r, doc, entries, name, protocol, current) ==
  [type |-> "fluxcd", at |-> at[r], dep |-> 0, source |-> entries,
   label |-> [chart |-> doc.name, name |-> name, protocol |-> protocol,
              current |-> current]]

RefsFromRelease(r, doc) ==
  LET found  == Entries(r, doc)
      source == Origin(CHOOSE e \in found : TRUE)
  IN IF ByImage(doc)
     THEN IF found # {} /\ source.image # "" /\ source.tag # ""
          THEN {Flux(r, doc, found, source.image, source.protocol, source.tag)}
          ELSE {}
     ELSE IF HasChart(doc) /\ (found # {} \/ Inline(doc))
          THEN {Flux(r, doc, found, doc.chart,
                     IF Inline(doc) THEN doc.protocol ELSE source.protocol,
                     doc.version)}
          ELSE {}

\* The extractor does not look at the kind: a named document of any kind with
\* the fields of a release would do.
FluxRefs(r, readable) ==
  LET doc == Here(r) IN
  IF ~Shut(r, 2, readable) /\ Decodes(doc, "extract") /\ doc.name # ""
  THEN RefsFromRelease(r, doc)
  ELSE {}

\* HelmChart.Extract decodes the first document of a Chart.yaml, or nothing.
Complete(dep) == dep.name # "" /\ dep.version # "" /\ dep.repository # ""

ChartRefs(r, readable) ==
  LET doc == Here(r) IN
  IF readable /\ First(r) /\ doc.kind = "Chart" /\ Decodes(doc, "chart")
  THEN {[type |-> "helm", at |-> at[r], dep |-> i, source |-> {},
         label |-> [chart |-> doc.chart, name |-> doc.deps[i].name,
                    protocol |-> doc.deps[i].protocol,
                    current |-> doc.deps[i].version]] :
          i \in {k \in DOMAIN doc.deps : Complete(doc.deps[k])}}
  ELSE {}

Extract(r) ==
  /\ Reading(r, 2)
  /\ \E readable \in Readings(r) :
       /\ Advance(r, 2, readable)
       /\ pending' = [pending EXCEPT ![r] =
                        @ \cup ChartRefs(r, readable) \cup FluxRefs(r, readable)]
  /\ UNCHANGED <<sources, results>>

-----------------------------------------------------------------------------
(* Pass 3, and the answer of /metrics once every repository is scanned.     *)

\* One result per reference, nothing dropped or merged; a lookup that fails has
\* no latest version and so no update.
Check(r) ==
  /\ pass[r] = 2 /\ at[r] \notin DOMAIN tree[r]
  /\ pass' = [pass EXCEPT ![r] = 3]
  /\ \E failed \in SUBSET pending[r] :
       results' = [results EXCEPT ![r] =
         {[ref |-> ref,
           outdated |-> ref \notin failed /\ ref.label.current # Newest] :
            ref \in pending[r]}]
  /\ UNCHANGED <<tree, at, closed, unread, sources, pending, scrape>>

\* Collect emits one metric per outdated result, labelled with its repository,
\* its type and its label.
Emitted ==
  UNION {{r} \X {res.ref : res \in {o \in results[r] : o.outdated}} : r \in Repos}

\* prometheus refuses two metrics with the same labels, and HandlerOpts{} turns
\* the error into an answer without any metric.
Gather(emitted) ==
  IF \E m, n \in emitted :
       /\ m # n /\ m[1] = n[1]
       /\ m[2].type = n[2].type /\ m[2].label = n[2].label
  THEN "error"
  ELSE "ok"

Scrape ==
  /\ \A r \in Repos : pass[r] = 3
  /\ scrape = "none"
  /\ scrape' = Gather(Emitted)
  /\ UNCHANGED <<tree, walkVars, sources, pending, results>>

\* The scan is over and was scraped.
Over == scrape # "none" /\ UNCHANGED vars

Next ==
  \/ \E r \in Repos : Prepare(r) \/ SecondPass(r) \/ Extract(r) \/ Check(r)
  \/ Scrape \/ Over

Spec == Init /\ [][Next]_vars
-----------------------------------------------------------------------------
(* Properties.                                                              *)

\* A pass gets to a document unless its file could not be read or is broken
\* before its end.
Reached(r, i, n) ==
  /\ <<n, tree[r][i].file>> \notin unread[r]
  /\ \A j \in 1..i :
       tree[r][j].file = tree[r][i].file => "syntax" \notin tree[r][j].defect

Declares(r, i, kind, key) ==
  LET doc == tree[r][i] IN
  /\ doc.kind = kind /\ <<doc.ns, doc.name>> = key
  /\ "prepare" \notin doc.defect /\ Reached(r, i, 1)

\* The documents pass 1 is through with.
Prepared(r) == IF pass[r] = 1 THEN {i \in DOMAIN tree[r] : i < at[r]}
               ELSE DOMAIN tree[r]

\* The last declaration of a source, as a set of at most one entry.
LastDeclared(r, kind, key) ==
  {[repo |-> r, at |-> i] : i \in
     {j \in Prepared(r) :
        /\ Declares(r, j, kind, key)
        /\ \A k \in Prepared(r) : Declares(r, k, kind, key) => k <= j}}

\* What the decoding loop has open is what the pass gets to, and the failures to
\* read are of files the passes have come to.
ClosedExact ==
  \A r \in Repos :
    pass[r] # 3 /\ at[r] - 1 \in DOMAIN tree[r] =>
      closed[r] = (\/ ~Reached(r, at[r] - 1, pass[r])
                   \/ \A i \in DOMAIN tree[r] :
                        tree[r][i].file = tree[r][at[r] - 1].file =>
                          Words(tree[r][i]) \cap WordsOf(pass[r]) = {})

UnreadPast ==
  \A r \in Repos : \A n \in {1, 2}, i \in DOMAIN tree[r] :
    <<n, tree[r][i].file>> \in unread[r] =>
      \/ n < pass[r]
      \/ n = pass[r] /\ \E j \in DOMAIN tree[r] :
                          j < at[r] /\ tree[r][j].file = tree[r][i].file

\* The documents pass 2 is through with, and the references found in one.
Extracted(r) ==
  {i \in DOMAIN tree[r] : pass[r] = 3 \/ (pass[r] = 2 /\ i < at[r])}

RefsOf(r, i) == {ref \in pending[r] : ref.type = "fluxcd" /\ ref.at = i}

NoneAhead ==
  \A r \in Repos : \A i \in DOMAIN tree[r] \ Extracted(r) : RefsOf(r, i) = {}

\* The walk's state is what the documents passed so far make it: the decoding
\* loop is open exactly where the pass still gets to.
FluxInv == TypeOK /\ ClosedExact /\ UnreadPast /\ NoneAhead

\* The maps of a repository hold the sources of this repository, all of them,
\* each as its last readable declaration has it: malformed and unreadable files
\* cost only what they hold, and no concurrent scan adds or hides anything
\* (fluxcd.go:101, runner.go:124).
SourcesAreLast ==
  \A r \in Repos, kind \in SourceKinds : \A key \in Keys :
    sources[r][kind][key] = LastDeclared(r, kind, key)

\* What a release stands for, from the whole repository and not from the walk.
Meant(r, doc) ==
  IF ByImage(doc)
  THEN LET ref == doc.chartRef IN
       LastDeclared(r, "OCIRepository",
                    <<IF ref.ns = "" THEN doc.ns ELSE ref.ns, ref.name>>)
  ELSE LET ref == doc.sourceRef IN
       IF ref.kind # "HelmRepository" THEN {}
       ELSE LastDeclared(r, "HelmRepository",
                         <<IF ref.ns = "" THEN doc.ns ELSE ref.ns, ref.name>>)

\* Enough is known to look the release up.
Resolvable(r, doc) ==
  IF ByImage(doc)
  THEN \E e \in Meant(r, doc) : Origin(e).image # "" /\ Origin(e).tag # ""
  ELSE HasChart(doc) /\ (Meant(r, doc) # {} \/ Inline(doc))

\* Every release a repository declares in readable text gives exactly one
\* reference, resolved with what its source is in the whole repository, wherever
\* that stands; a release that stands for nothing gives none (fluxcd.go:76).
RefsExact ==
  \A r \in Repos : \A i \in Extracted(r) :
    LET doc == tree[r][i] IN
    doc.kind = "HelmRelease" /\ doc.name # "" =>
      IF Reached(r, i, 2) /\ "extract" \notin doc.defect /\ Resolvable(r, doc)
      THEN \E ref \in pending[r] :
             RefsOf(r, i) = {ref} /\ ref.source = Meant(r, doc)
      ELSE RefsOf(r, i) = {}

\* What docs/architecture.md:73 says of update_checker_dependency_outdated_info,
\* "one time series per outdated dependency": the scrape shows as many series as
\* there are outdated results.
OneSeriesPerOutdated == scrape # "error"
=============================================================================
