-------------------------- MODULE MCFluxExtraction --------------------------
(***************************************************************************)
(* Instances of FluxExtraction for TLC: every arrangement of a few         *)
(* documents in files for one repository, beside small ones for another.   *)
(***************************************************************************)
EXTENDS FluxExtraction, FiniteSets

NoRef == [kind |-> "", ns |-> "", name |-> ""]
Blank == [file |-> 1, kind |-> "", defect |-> {}, ns |-> "a", name |-> "a",
          image |-> "", tag |-> "", chartRef |-> NoRef, sourceRef |-> NoRef,
          protocol |-> "https", repoURL |-> "", chart |-> "", version |-> "",
          deps |-> <<>>]

To(kind, ns) == [kind |-> kind, ns |-> ns, name |-> "a"]
HelmRepository == [Blank EXCEPT !.kind = "HelmRepository"]
OCIRepository  == [Blank EXCEPT !.kind = "OCIRepository", !.image = "c",
                                !.tag = "1"]
Release == [Blank EXCEPT !.kind = "HelmRelease", !.chart = "c", !.version = "1"]

\* What decides how a release is resolved; and what may stand in between.
MCFewDocs ==
  { HelmRepository,
    OCIRepository,
    [Release EXCEPT !.ns = "", !.sourceRef = To("HelmRepository", "a")],
    [Release EXCEPT !.chartRef = To("OCIRepository", ""),
                    !.sourceRef = To("HelmRepository", "")],
    [Blank EXCEPT !.kind = "HelmChart", !.defect = {"extract"}],
    [Blank EXCEPT !.defect = {"syntax"}] }

MCDocs ==
  MCFewDocs \cup
  { [HelmRepository EXCEPT !.defect = {"prepare"}],
    [HelmRepository EXCEPT !.ns = ""],
    [OCIRepository EXCEPT !.tag = ""],
    [Release EXCEPT !.sourceRef = To("HelmRepository", "")],
    [Release EXCEPT !.ns = "", !.sourceRef = To("HelmRepository", "")],
    [Release EXCEPT !.sourceRef = To("HelmRepository", ""), !.version = ""],
    [Release EXCEPT !.sourceRef = To("GitRepository", ""), !.repoURL = "u"],
    [Blank EXCEPT !.kind = "Chart", !.name = "", !.deps =
       <<[name |-> "c", version |-> "1", repository |-> "", protocol |-> "https"],
         [name |-> "c", version |-> "1", repository |-> "u", protocol |-> "oci"]>>] }

\* Files are entered in order: a document is in the file of the one before it
\* or in the next.
Walks(n, docs) ==
  {t \in [1..n -> {[d EXCEPT !.file = f] : d \in docs, f \in 1..n}] :
     /\ t[1].file = 1
     /\ \A i \in 2..n : t[i].file \in {t[i - 1].file, t[i - 1].file + 1}}

MCNames == {"", "a"}
MCRepos == {"infra", "apps"}
MCFlaky == {"infra"}
MCTrees ==
  {[infra |-> t, apps |-> <<HelmRepository>>] :
     t \in Walks(1, MCDocs) \cup Walks(2, MCDocs) \cup Walks(3, MCFewDocs)}

\* A release in each of two namespaces, as where one chart is installed twice.
DocTrees ==
  LET release == [Release EXCEPT !.repoURL = "u"] IN
  {[infra |-> <<release, [release EXCEPT !.ns = "", !.file = 2]>>, apps |-> t] :
     t \in Walks(1, MCDocs)}
=============================================================================
