--------------------------- MODULE MCVersionCheck ---------------------------
EXTENDS VersionCheck

Ver(x, y, z) == [major |-> x, minor |-> y, patch |-> z, pre |-> FALSE]

\* Two spellings of one version, a prerelease, a range, a text the library
\* reads as a version and as a range ("1"), and one that is neither.
MCTexts == {"1.0.0", "v1.0.1", "1.0.1", "1.1.0", "2.0.0", "2.0.0-rc", "1.x", "1", "sha"}

MCParsed ==
  [t \in MCTexts |->
     CASE t \in {"1.0.0", "1"} -> Ver(1, 0, 0)
       [] t \in {"v1.0.1", "1.0.1"} -> Ver(1, 0, 1)
       [] t = "1.1.0" -> Ver(1, 1, 0)
       [] t = "2.0.0" -> Ver(2, 0, 0)
       [] t = "2.0.0-rc" -> [major |-> 2, minor |-> 0, patch |-> 0, pre |-> TRUE]
       [] OTHER -> NotSemver]

MCAllows ==
  [t \in MCTexts |->
     CASE t \in {"1.x", "1"} -> {Ver(1, 0, 0), Ver(1, 0, 1), Ver(1, 1, 0)}
       [] t = "sha" -> {}
       [] OTHER -> {MCParsed[t]}]
=============================================================================
