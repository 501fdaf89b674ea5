------------------------ MODULE FluxExtractionProofs ------------------------
(***************************************************************************)
(* Theorems about FluxExtraction, for any repositories, whatever they hold *)
(* and whichever files cannot be read.                                     *)
(***************************************************************************)
EXTENDS FluxExtraction, SequenceTheorems, TLAPS

\* What repositories hold does not change; TypeOK says only of what kind it is.
Walks == tree \in Trees

File(r, i) == tree[r][i].file

LEMMA Docs ==
  ASSUME TypeOK, NEW r \in Repos
  PROVE  /\ Len(tree[r]) \in Nat /\ DOMAIN tree[r] = 1..Len(tree[r])
         /\ \A i \in DOMAIN tree[r] : tree[r][i] \in Doc
<1>1. tree[r] \in Seq(Doc)
  BY DEF TypeOK
<1> HIDE DEF Doc
<1> QED
  BY <1>1, LenProperties, ElementOfSeq

LEMMA Files ==
  ASSUME TypeOK, Walks, NEW r \in Repos, NEW i \in DOMAIN tree[r]
  PROVE  /\ File(r, i) \in Nat
         /\ \A j \in DOMAIN tree[r] : i <= j => File(r, i) <= File(r, j)
<1>1. tree[r][i] \in Doc
  BY Docs
<1>2. File(r, i) \in Nat
  BY <1>1 DEF Doc, File
<1> QED
  BY <1>2, TreesAreWalks DEF Walks, File

\* At the first document of a file none of the earlier ones is of it.
LEMMA FirstIsNew ==
  ASSUME TypeOK, Walks, NEW r \in Repos, at[r] \in DOMAIN tree[r], First(r),
         NEW j \in DOMAIN tree[r], j < at[r]
  PROVE  File(r, j) # File(r, at[r])
<1>1. /\ DOMAIN tree[r] = 1..Len(tree[r]) /\ Len(tree[r]) \in Nat
      /\ at[r] \in Nat \ {0} /\ j \in Nat \ {0}
  BY Docs
<1>2. at[r] # 1 /\ at[r] - 1 \in DOMAIN tree[r] /\ j <= at[r] - 1 /\ at[r] - 1 <= at[r]
  BY <1>1
<1>3. File(r, at[r] - 1) # File(r, at[r])
  BY <1>2 DEF First, Here, File
<1>4. File(r, j) <= File(r, at[r] - 1) /\ File(r, at[r] - 1) <= File(r, at[r])
  BY <1>2, Files
<1>5. File(r, j) \in Nat /\ File(r, at[r]) \in Nat /\ File(r, at[r] - 1) \in Nat
  BY <1>2, Files
<1> QED
  BY <1>3, <1>4, <1>5

\* The files that could not be read are behind the walk.
LEMMA FirstIsNotUnread ==
  ASSUME TypeOK, Walks, UnreadPast, NEW n \in {1, 2}, NEW r \in Repos, Reading(r, n),
         First(r)
  PROVE  <<n, File(r, at[r])>> \notin unread[r]
<1>1. SUFFICES ASSUME <<n, File(r, at[r])>> \in unread[r]
               PROVE  FALSE
  OBVIOUS
<1>2. at[r] \in DOMAIN tree[r] /\ pass[r] = n
  BY DEF Reading
<1>3. PICK j \in DOMAIN tree[r] : j < at[r] /\ tree[r][j].file = tree[r][at[r]].file
  BY <1>1, <1>2 DEF UnreadPast, File
<1> QED
  BY <1>2, <1>3, FirstIsNew DEF File

-----------------------------------------------------------------------------
(* What the decoding loop gets to.                                          *)

\* The documents behind the walk stay reached or not.
LEMMA BehindStays ==
  ASSUME TypeOK, Walks, NEW n \in {1, 2}, NEW r \in Repos, Reading(r, n),
         NEW readable \in Readings(r), Advance(r, n, readable),
         NEW j \in DOMAIN tree[r], j < at[r], NEW k \in {1, 2}
  PROVE  Reached(r, j, k)' = Reached(r, j, k)
<1>1. at[r] \in DOMAIN tree[r]
  BY DEF Reading
<1>2. CASE readable
  BY <1>2 DEF Advance, Reached
<1>3. CASE ~readable
  <2>1. First(r)
    BY <1>3 DEF Readings
  <2>2. File(r, j) # File(r, at[r])
    BY <1>1, <2>1, FirstIsNew
  <2>3. unread'[r] = unread[r] \cup {<<n, File(r, at[r])>>} /\ tree' = tree
    BY <1>3 DEF Advance, TypeOK, WalkOK, File, Here
  <2>4. <<k, File(r, j)>> \in unread'[r] <=> <<k, File(r, j)>> \in unread[r]
    BY <2>2, <2>3
  <2> QED
    BY <2>3, <2>4 DEF Reached, File
<1> QED
  BY <1>2, <1>3

LEMMA OtherPassStays ==
  ASSUME TypeOK, NEW n \in {1, 2}, NEW r \in Repos, NEW s \in Repos,
         NEW readable \in Readings(r), Advance(r, n, readable),
         NEW j, NEW k \in {1, 2} \ {n}
  PROVE  Reached(s, j, k)' = Reached(s, j, k)
<1>1. <<k, tree[s][j].file>> \in unread'[s] <=> <<k, tree[s][j].file>> \in unread[s]
  BY DEF Advance, TypeOK, WalkOK
<1> QED
  BY <1>1 DEF Reached, Advance

\* A document is decoded if the pass gets to it and its file has a word of it.
LEMMA Opens ==
  ASSUME TypeOK, Walks, UnreadPast, ClosedExact, NEW n \in {1, 2}, NEW r \in Repos,
         Reading(r, n), NEW readable \in Readings(r), Advance(r, n, readable),
         NEW i, i = at[r]
  PROVE  ~Shut(r, n, readable) /\ ~EndsFile(Here(r))
           <=> Reached(r, i, n)' /\ Wanted(r, n)
<1> DEFINE f == File(r, i)
<1>1. /\ i \in DOMAIN tree[r] /\ i \in Nat \ {0} /\ tree' = tree
      /\ DOMAIN tree[r] = 1..Len(tree[r]) /\ Len(tree[r]) \in Nat
  BY Docs DEF Reading, Advance
<1>2. /\ Reached(r, i, n)' <=>
           /\ <<n, f>> \notin unread'[r]
           /\ \A j \in 1..i : File(r, j) = f => "syntax" \notin tree[r][j].defect
      /\ EndsFile(Here(r)) <=> "syntax" \in tree[r][i].defect
  BY <1>1 DEF Reached, File, EndsFile, Here
<1>3. CASE First(r)
  <2>1. <<n, f>> \notin unread[r]
    BY <1>3, FirstIsNotUnread
  <2>2. <<n, f>> \in unread'[r] <=> ~readable
    BY <2>1 DEF Advance, TypeOK, WalkOK, Readings, File, Here
  <2>3. \A j \in 1..i : File(r, j) = f => j = i
    BY <1>1, <1>3, FirstIsNew
  <2>4. (\A j \in 1..i : File(r, j) = f => "syntax" \notin tree[r][j].defect)
          <=> "syntax" \notin tree[r][i].defect
    BY <1>1, <2>3
  <2>5. Shut(r, n, readable) <=> ~readable \/ ~Wanted(r, n)
    BY <1>3 DEF Shut
  <2> QED
    BY <1>2, <2>2, <2>4, <2>5
<1>4. CASE ~First(r)
  <2>1. i # 1 /\ i - 1 \in DOMAIN tree[r] /\ File(r, i - 1) = f
    BY <1>1, <1>4 DEF First, File, Here
  <2>2. readable /\ unread' = unread
    BY <1>4 DEF Readings, Advance
  <2>3. Reached(r, i - 1, n) <=>
           /\ <<n, f>> \notin unread[r]
           /\ \A j \in 1..(i - 1) : File(r, j) = f => "syntax" \notin tree[r][j].defect
    BY <2>1 DEF Reached, File
  <2>4. 1..i = (1..(i - 1)) \cup {i}
    BY <1>1
  <2>5. Reached(r, i, n)' <=> Reached(r, i - 1, n) /\ ~EndsFile(Here(r))
    BY <1>2, <2>2, <2>3, <2>4
  <2>6. Wanted(r, n) <=>
          ~(\A k \in DOMAIN tree[r] :
              tree[r][k].file = tree[r][i - 1].file =>
                Words(tree[r][k]) \cap WordsOf(n) = {})
    BY <1>1, <2>1 DEF Wanted, Here, File
  <2>7. Shut(r, n, readable) = closed[r]
    BY <1>4 DEF Shut
  <2>8. closed[r] <=> ~Reached(r, i - 1, n) \/ ~Wanted(r, n)
    <3>1. pass[r] = n /\ pass[r] # 3 /\ at[r] - 1 \in DOMAIN tree[r]
      BY <2>1 DEF Reading
    <3> QED
      BY <2>6, <3>1 DEF ClosedExact
  <2> QED
    BY <2>5, <2>7, <2>8
<1> QED
  BY <1>3, <1>4

-----------------------------------------------------------------------------
(* The walk.                                                                *)

LEMMA Passing ==
  ASSUME TypeOK, [Next]_vars
  PROVE  WalkOK' /\ tree' = tree
<1> USE DEF TypeOK, WalkOK
<1>1. ASSUME NEW n \in {1, 2}, NEW r \in Repos, Reading(r, n),
             NEW readable \in Readings(r), Advance(r, n, readable)
      PROVE  WalkOK' /\ tree' = tree
  <2>1. Here(r).file \in Nat
    BY <1>1, Docs DEF Reading, Here, Doc
  <2>2. unread' \in [Repos -> SUBSET ({1, 2} \X Nat)]
    BY <1>1, <2>1 DEF Advance
  <2>3. closed' \in [Repos -> BOOLEAN]
    <3>1. (Shut(r, n, readable) \/ EndsFile(Here(r))) \in BOOLEAN
      OBVIOUS
    <3> QED
      BY <1>1, <3>1 DEF Advance
  <2>4. at' \in [Repos -> Nat \ {0}]
    BY <1>1 DEF Advance
  <2> QED
    BY <1>1, <2>2, <2>3, <2>4 DEF Advance
<1>2. ASSUME NEW r \in Repos, Prepare(r)
      PROVE  WalkOK' /\ tree' = tree
  BY <1>1, <1>2 DEF Prepare
<1>3. ASSUME NEW r \in Repos, Extract(r)
      PROVE  WalkOK' /\ tree' = tree
  BY <1>1, <1>3 DEF Extract
<1>4. ASSUME NEW r \in Repos, SecondPass(r)
      PROVE  WalkOK' /\ tree' = tree
  BY <1>4 DEF SecondPass
<1>5. ASSUME NEW r \in Repos, Check(r)
      PROVE  WalkOK' /\ tree' = tree
  BY <1>5 DEF Check
<1> QED
  BY <1>2, <1>3, <1>4, <1>5 DEF Next, Scrape, Over, vars, walkVars

LEMMA ClosedStep ==
  ASSUME TypeOK, Walks, UnreadPast, ClosedExact, [Next]_vars
  PROVE  ClosedExact'
<1> SUFFICES ASSUME NEW s \in Repos, pass'[s] # 3, NEW i, i = at'[s] - 1,
                    i \in DOMAIN tree'[s]
             PROVE  closed'[s] = (\/ ~Reached(s, i, pass[s])'
                                  \/ \A k \in DOMAIN tree'[s] :
                                       tree'[s][k].file = tree'[s][i].file =>
                                         Words(tree'[s][k]) \cap WordsOf(pass'[s]) = {})
  BY DEF ClosedExact
<1>1. tree' = tree
  BY Passing
<1>2. ASSUME pass'[s] = pass[s], at'[s] = at[s], closed'[s] = closed[s],
             unread'[s] = unread[s]
      PROVE  closed'[s] = (\/ ~Reached(s, i, pass[s])'
                           \/ \A k \in DOMAIN tree'[s] :
                                tree'[s][k].file = tree'[s][i].file =>
                                  Words(tree'[s][k]) \cap WordsOf(pass'[s]) = {})
  BY <1>1, <1>2 DEF ClosedExact, Reached
<1>3. ASSUME NEW n \in {1, 2}, NEW r \in Repos, Reading(r, n),
             NEW readable \in Readings(r), Advance(r, n, readable)
      PROVE  closed'[s] = (\/ ~Reached(s, i, pass[s])'
                           \/ \A k \in DOMAIN tree'[s] :
                                tree'[s][k].file = tree'[s][i].file =>
                                  Words(tree'[s][k]) \cap WordsOf(pass'[s]) = {})
  <2>1. CASE r # s
    BY <1>2, <1>3, <2>1 DEF Advance, TypeOK, WalkOK
  <2>2. CASE r = s
    <3>1. i = at[s] /\ pass'[s] = n /\ at[s] \in Nat
      BY <1>3, <2>2 DEF Advance, Reading, TypeOK, WalkOK
    <3>2. closed'[s] = ~(Reached(s, i, n)' /\ Wanted(s, n))
      <4>1. closed'[s] = (Shut(s, n, readable) \/ EndsFile(Here(s)))
        BY <1>3, <2>2 DEF Advance, TypeOK, WalkOK
      <4> QED
        BY <1>3, <2>2, <3>1, <4>1, Opens
    <3>3. Wanted(s, n) <=>
            ~(\A k \in DOMAIN tree[s] :
                tree[s][k].file = tree[s][i].file =>
                  Words(tree[s][k]) \cap WordsOf(n) = {})
      BY <3>1 DEF Wanted, Here
    <3>4. Reached(s, i, n)' = Reached(s, i, pass[s])'
      BY <3>1 DEF Reached
    <3> QED
      BY <1>1, <3>1, <3>2, <3>3, <3>4
  <2> QED
    BY <2>1, <2>2
<1>4. ASSUME NEW r \in Repos, SecondPass(r) \/ Check(r)
      PROVE  closed'[s] = (\/ ~Reached(s, i, pass[s])'
                           \/ \A k \in DOMAIN tree'[s] :
                                tree'[s][k].file = tree'[s][i].file =>
                                  Words(tree'[s][k]) \cap WordsOf(pass'[s]) = {})
  <2>1. CASE r # s
    BY <1>2, <1>4, <2>1 DEF SecondPass, Check, TypeOK, WalkOK
  <2>2. CASE r = s
    <3>1. at'[s] = 1
      BY <1>4, <2>2 DEF SecondPass, Check, TypeOK, WalkOK
    <3>2. 0 \notin DOMAIN tree[s]
      BY Docs
    <3> QED
      BY <1>1, <3>1, <3>2
  <2> QED
    BY <2>1, <2>2
<1> QED
  BY <1>2, <1>3, <1>4 DEF Next, Prepare, Extract, Scrape, Over, vars, walkVars

LEMMA UnreadStep ==
  ASSUME TypeOK, UnreadPast, [Next]_vars
  PROVE  UnreadPast'
<1> SUFFICES ASSUME NEW s \in Repos, NEW n \in {1, 2}, NEW i \in DOMAIN tree'[s],
                    <<n, tree'[s][i].file>> \in unread'[s]
             PROVE  \/ n < pass'[s]
                    \/ n = pass'[s] /\ \E j \in DOMAIN tree'[s] :
                          j < at'[s] /\ tree'[s][j].file = tree'[s][i].file
  BY DEF UnreadPast
<1>1. tree' = tree
  BY Passing
<1>2. /\ DOMAIN tree[s] = 1..Len(tree[s]) /\ Len(tree[s]) \in Nat
      /\ at[s] \in Nat \ {0} /\ pass[s] \in 1..3
  BY Docs DEF TypeOK, WalkOK
<1>3. ASSUME NEW m \in {1, 2}, NEW r \in Repos, Reading(r, m),
             NEW readable \in Readings(r), Advance(r, m, readable)
      PROVE  \/ n < pass'[s]
             \/ n = pass'[s] /\ \E j \in DOMAIN tree'[s] :
                   j < at'[s] /\ tree'[s][j].file = tree'[s][i].file
  <2>1. CASE r # s
    BY <1>1, <1>3, <2>1 DEF Advance, UnreadPast, TypeOK, WalkOK
  <2>2. CASE r = s
    <3>1. at'[s] = at[s] + 1 /\ pass'[s] = pass[s] /\ pass[s] = m
          /\ at[s] \in DOMAIN tree[s]
      BY <1>3, <2>2 DEF Advance, Reading, TypeOK, WalkOK
    <3>2. CASE <<n, tree[s][i].file>> \in unread[s]
      <4>1. CASE n < pass[s]
        BY <3>1, <4>1
      <4>2. CASE n = pass[s] /\ ~(n < pass[s])
        <5>1. PICK j \in DOMAIN tree[s] :
                j < at[s] /\ tree[s][j].file = tree[s][i].file
          BY <1>1, <3>2, <4>2 DEF UnreadPast
        <5>2. j < at'[s]
          BY <1>2, <3>1, <5>1
        <5> QED
          BY <1>1, <3>1, <4>2, <5>1, <5>2
      <4> QED
        BY <1>1, <3>2, <4>1, <4>2 DEF UnreadPast
    <3>3. CASE <<n, tree[s][i].file>> \notin unread[s]
      <4>1. n = m /\ tree[s][i].file = tree[s][at[s]].file
        BY <1>1, <1>3, <2>2, <3>3 DEF Advance, TypeOK, WalkOK, Here
      <4> QED
        BY <1>1, <1>2, <3>1, <4>1
    <3> QED
      BY <3>2, <3>3
  <2> QED
    BY <2>1, <2>2
<1>4. ASSUME NEW r \in Repos, SecondPass(r) \/ Check(r)
      PROVE  \/ n < pass'[s]
             \/ n = pass'[s] /\ \E j \in DOMAIN tree'[s] :
                   j < at'[s] /\ tree'[s][j].file = tree'[s][i].file
  <2>1. CASE r # s
    BY <1>1, <1>4, <2>1 DEF SecondPass, Check, UnreadPast, TypeOK, WalkOK
  <2>2. CASE r = s
    <3>1. pass'[s] = pass[s] + 1 /\ unread' = unread
      BY <1>4, <2>2 DEF SecondPass, Check, TypeOK, WalkOK
    <3>2. n <= pass[s]
      BY <1>1, <1>2, <3>1 DEF UnreadPast
    <3> QED
      BY <1>2, <3>1, <3>2
  <2> QED
    BY <2>1, <2>2
<1>5. CASE UNCHANGED walkVars
  BY <1>1, <1>5 DEF walkVars, UnreadPast
<1> QED
  BY <1>3, <1>4, <1>5 DEF Next, Prepare, Extract, Scrape, Over, vars

-----------------------------------------------------------------------------
(* The sources.                                                             *)

\* What was declared changes only with what pass 1 has come to.
LEMMA LastStays ==
  ASSUME NEW r, NEW kind, NEW key, tree' = tree, Prepared(r)' = Prepared(r),
         \A j \in Prepared(r) : Reached(r, j, 1)' = Reached(r, j, 1)
  PROVE  LastDeclared(r, kind, key)' = LastDeclared(r, kind, key)
<1>1. \A j \in Prepared(r) : Declares(r, j, kind, key)' = Declares(r, j, kind, key)
  BY DEF Declares
<1> QED
  BY <1>1 DEF LastDeclared

LEMMA LastOfOthersStays ==
  ASSUME NEW r \in Repos, tree' = tree, pass'[r] = pass[r], at'[r] = at[r],
         unread'[r] = unread[r], NEW kind, NEW key
  PROVE  LastDeclared(r, kind, key)' = LastDeclared(r, kind, key)
BY LastStays DEF Prepared, Reached

\* After pass 1 nothing changes what was declared.
LEMMA LastIsLast ==
  ASSUME TypeOK, [Next]_vars, NEW s \in Repos, pass[s] # 1, NEW kind, NEW key
  PROVE  LastDeclared(s, kind, key)' = LastDeclared(s, kind, key)
<1>1. tree' = tree
  BY Passing
<1>2. ASSUME NEW r \in Repos, Prepare(r)
      PROVE  LastDeclared(s, kind, key)' = LastDeclared(s, kind, key)
  BY <1>1, <1>2, LastOfOthersStays DEF Prepare, Advance, Reading, TypeOK, WalkOK
<1>3. ASSUME NEW r \in Repos, Extract(r)
      PROVE  LastDeclared(s, kind, key)' = LastDeclared(s, kind, key)
  <2>1. PICK readable \in Readings(r) : Advance(r, 2, readable)
    BY <1>3 DEF Extract
  <2>2. Prepared(s)' = Prepared(s)
    BY <1>1, <2>1 DEF Prepared, Advance
  <2>3. \A j \in Prepared(s) : Reached(s, j, 1)' = Reached(s, j, 1)
    BY <2>1, OtherPassStays
  <2> QED
    BY <1>1, <2>2, <2>3, LastStays
<1>4. ASSUME NEW r \in Repos, SecondPass(r) \/ Check(r)
      PROVE  LastDeclared(s, kind, key)' = LastDeclared(s, kind, key)
  <2>1. Prepared(s)' = Prepared(s)
    BY <1>1, <1>4 DEF Prepared, SecondPass, Check, TypeOK, WalkOK
  <2>2. \A j \in Prepared(s) : Reached(s, j, 1)' = Reached(s, j, 1)
    BY <1>1, <1>4 DEF Reached, SecondPass, Check
  <2> QED
    BY <1>1, <2>1, <2>2, LastStays
<1>5. CASE UNCHANGED walkVars
  BY <1>1, <1>5, LastOfOthersStays DEF walkVars
<1> QED
  BY <1>2, <1>3, <1>4, <1>5 DEF Next, Scrape, Over, vars

LEMMA PreparedAll ==
  ASSUME TypeOK, NEW r \in Repos, SecondPass(r)
  PROVE  Prepared(r)' = Prepared(r)
<1>1. /\ DOMAIN tree[r] = 1..Len(tree[r]) /\ Len(tree[r]) \in Nat
      /\ at[r] \in Nat \ {0} /\ at[r] \notin DOMAIN tree[r]
  BY Docs DEF SecondPass, TypeOK, WalkOK
<1>2. \A i \in DOMAIN tree[r] : i < at[r]
  BY <1>1
<1> QED
  BY <1>2 DEF Prepared, SecondPass, TypeOK, WalkOK

\* A document that declares a source takes its place, another changes nothing.
LEMMA NextDeclared ==
  ASSUME TypeOK, Walks, UnreadPast, ClosedExact, NEW r \in Repos, Reading(r, 1),
         NEW readable \in Readings(r), Advance(r, 1, readable),
         NEW i, i = at[r], NEW kind \in SourceKinds, NEW key
  PROVE  LastDeclared(r, kind, key)' =
           IF /\ ~Shut(r, 1, readable) /\ Decodes(Here(r), "prepare")
              /\ Here(r).kind = kind /\ <<Here(r).ns, Here(r).name>> = key
           THEN {[repo |-> r, at |-> i]}
           ELSE LastDeclared(r, kind, key)
<1>1. /\ i \in DOMAIN tree[r] /\ i \in Nat \ {0} /\ tree' = tree
      /\ DOMAIN tree[r] = 1..Len(tree[r]) /\ Len(tree[r]) \in Nat
      /\ pass[r] = 1 /\ pass' = pass /\ at'[r] = i + 1
  BY Docs DEF Reading, Advance, TypeOK, WalkOK
<1>2. Prepared(r)' = Prepared(r) \cup {i}
  BY <1>1 DEF Prepared
<1>3. \A j \in Prepared(r) : j \in Nat /\ j < i
  BY <1>1 DEF Prepared
<1>4. \A j \in Prepared(r) : Declares(r, j, kind, key)' = Declares(r, j, kind, key)
  <2>1. \A j \in Prepared(r) : Reached(r, j, 1)' = Reached(r, j, 1)
    BY <1>1, BehindStays DEF Prepared
  <2> QED
    BY <1>1, <2>1 DEF Declares
<1>5. Here(r).kind = kind => Wanted(r, 1)
  BY <1>1 DEF Wanted, Words, WordsOf, Here
<1>6. Declares(r, i, kind, key)' <=>
        /\ ~Shut(r, 1, readable) /\ Decodes(Here(r), "prepare")
        /\ Here(r).kind = kind /\ <<Here(r).ns, Here(r).name>> = key
  <2>1. ~Shut(r, 1, readable) /\ "syntax" \notin Here(r).defect
          <=> Reached(r, i, 1)' /\ Wanted(r, 1)
    BY Opens DEF EndsFile
  <2>2. Decodes(Here(r), "prepare") <=>
          "prepare" \notin Here(r).defect /\ "syntax" \notin Here(r).defect
    BY DEF Decodes
  <2>3. Declares(r, i, kind, key)' <=>
          /\ Here(r).kind = kind /\ <<Here(r).ns, Here(r).name>> = key
          /\ "prepare" \notin Here(r).defect /\ Reached(r, i, 1)'
    BY <1>1 DEF Declares, Here
  <2> QED
    BY <1>5, <2>1, <2>2, <2>3
<1>7. LastDeclared(r, kind, key)' =
        {[repo |-> r, at |-> k] : k \in
           {j \in Prepared(r) \cup {i} :
              /\ Declares(r, j, kind, key)'
              /\ \A h \in Prepared(r) \cup {i} : Declares(r, h, kind, key)' => h <= j}}
  BY <1>2 DEF LastDeclared
<1>8. CASE Declares(r, i, kind, key)'
  <2>1. {j \in Prepared(r) \cup {i} :
           /\ Declares(r, j, kind, key)'
           /\ \A h \in Prepared(r) \cup {i} : Declares(r, h, kind, key)' => h <= j} = {i}
    BY <1>1, <1>3, <1>8
  <2> QED
    BY <1>6, <1>7, <1>8, <2>1
<1>9. CASE ~Declares(r, i, kind, key)'
  <2>1. {j \in Prepared(r) \cup {i} :
           /\ Declares(r, j, kind, key)'
           /\ \A h \in Prepared(r) \cup {i} : Declares(r, h, kind, key)' => h <= j}
        = {j \in Prepared(r) :
             /\ Declares(r, j, kind, key)
             /\ \A h \in Prepared(r) : Declares(r, h, kind, key) => h <= j}
    BY <1>4, <1>9
  <2> QED
    BY <1>6, <1>7, <1>9, <2>1 DEF LastDeclared
<1> QED
  BY <1>8, <1>9

LEMMA SourcesTyping ==
  ASSUME TypeOK, [Next]_vars
  PROVE  sources' \in [Repos -> [SourceKinds -> [Keys -> SUBSET Entry]]]
<1>1. CASE UNCHANGED sources
  BY <1>1 DEF TypeOK
<1>2. ASSUME NEW r \in Repos, Prepare(r), ~UNCHANGED sources
      PROVE  sources' \in [Repos -> [SourceKinds -> [Keys -> SUBSET Entry]]]
  <2> DEFINE kind == Here(r).kind
             key  == <<Here(r).ns, Here(r).name>>
  <2>1. sources' = [sources EXCEPT ![r][kind][key] = {[repo |-> r, at |-> at[r]]}]
        /\ kind \in SourceKinds
    BY <1>2 DEF Prepare, Own
  <2>2. key \in Keys
    BY <1>2, Docs DEF Prepare, Reading, Here, Doc, Keys
  <2>3. {[repo |-> r, at |-> at[r]]} \in SUBSET Entry
    BY DEF Entry, TypeOK, WalkOK
  <2> HIDE DEF kind, key
  <2>4. [sources[r][kind] EXCEPT ![key] = {[repo |-> r, at |-> at[r]]}]
          \in [Keys -> SUBSET Entry]
    BY <2>1, <2>2, <2>3 DEF TypeOK
  <2>5. [sources[r] EXCEPT ![kind] =
           [sources[r][kind] EXCEPT ![key] = {[repo |-> r, at |-> at[r]]}]]
          \in [SourceKinds -> [Keys -> SUBSET Entry]]
    BY <2>1, <2>4 DEF TypeOK
  <2>6. sources' = [sources EXCEPT ![r] = [sources[r] EXCEPT ![kind] =
           [sources[r][kind] EXCEPT ![key] = {[repo |-> r, at |-> at[r]]}]]]
    BY <2>1
  <2> QED
    BY <2>5, <2>6 DEF TypeOK
<1> QED
  BY <1>1, <1>2 DEF Next, SecondPass, Extract, Check, Scrape, Over, vars

LEMMA SourcesStep ==
  ASSUME TypeOK, Walks, UnreadPast, ClosedExact, SourcesAreLast, [Next]_vars
  PROVE  SourcesAreLast'
<1> SUFFICES ASSUME NEW s \in Repos, NEW kind \in SourceKinds, NEW key \in Keys
             PROVE  sources'[s][kind][key] = LastDeclared(s, kind, key)'
  BY DEF SourcesAreLast
<1>1. sources[s][kind][key] = LastDeclared(s, kind, key) /\ tree' = tree
  BY Passing DEF SourcesAreLast
<1>2. ASSUME NEW r \in Repos, Prepare(r)
      PROVE  sources'[s][kind][key] = LastDeclared(s, kind, key)'
  <2>1. Reading(r, 1) /\ at[r] \in DOMAIN tree[r]
    BY <1>2 DEF Prepare, Reading
  <2>2. PICK readable \in Readings(r) :
          /\ Advance(r, 1, readable)
          /\ sources' =
              IF ~Shut(r, 1, readable) /\ Decodes(Here(r), "prepare")
                   /\ Here(r).kind \in SourceKinds
              THEN [sources EXCEPT
                      ![Own(r)][Here(r).kind][<<Here(r).ns, Here(r).name>>] =
                        {[repo |-> r, at |-> at[r]]}]
              ELSE sources
    BY <1>2 DEF Prepare
  <2>3. /\ s # r => sources'[s] = sources[s]
        /\ sources'[r][kind][key] =
              IF /\ ~Shut(r, 1, readable) /\ Decodes(Here(r), "prepare")
                 /\ Here(r).kind = kind /\ <<Here(r).ns, Here(r).name>> = key
              THEN {[repo |-> r, at |-> at[r]]}
              ELSE sources[r][kind][key]
    BY <2>1, <2>2 DEF TypeOK, Own
  <2>4. CASE s = r
    <3>1. PICK i : i = at[r]
      OBVIOUS
    <3>2. LastDeclared(r, kind, key)' =
            IF /\ ~Shut(r, 1, readable) /\ Decodes(Here(r), "prepare")
               /\ Here(r).kind = kind /\ <<Here(r).ns, Here(r).name>> = key
            THEN {[repo |-> r, at |-> i]}
            ELSE LastDeclared(r, kind, key)
      BY <2>1, <2>2, <3>1, NextDeclared
    <3> QED
      BY <1>1, <2>3, <2>4, <3>1, <3>2
  <2>5. CASE s # r
    <3>1. pass'[s] = pass[s] /\ at'[s] = at[s] /\ unread'[s] = unread[s]
      BY <2>2, <2>5 DEF Advance, TypeOK, WalkOK
    <3>2. LastDeclared(s, kind, key)' = LastDeclared(s, kind, key)
      BY <1>1, <3>1, LastOfOthersStays
    <3> QED
      BY <1>1, <2>3, <2>5, <3>2
  <2> QED
    BY <2>4, <2>5
<1>3. CASE UNCHANGED sources /\ pass[s] # 1
  BY <1>1, <1>3, LastIsLast
<1>4. CASE UNCHANGED sources /\ pass'[s] = pass[s] /\ at'[s] = at[s]
           /\ unread'[s] = unread[s]
  BY <1>1, <1>4, LastOfOthersStays
<1>5. ASSUME NEW r \in Repos, SecondPass(r)
      PROVE  sources'[s][kind][key] = LastDeclared(s, kind, key)'
  <2>1. CASE s = r
    <3>1. \A j \in Prepared(s) : Reached(s, j, 1)' = Reached(s, j, 1)
      BY <1>1, <1>5 DEF SecondPass, Reached
    <3> QED
      BY <1>1, <1>5, <2>1, <3>1, PreparedAll, LastStays DEF SecondPass
  <2>2. CASE s # r
    BY <1>4, <1>5, <2>2 DEF SecondPass, TypeOK, WalkOK
  <2> QED
    BY <2>1, <2>2
<1>6. ASSUME NEW r \in Repos, Extract(r)
      PROVE  sources'[s][kind][key] = LastDeclared(s, kind, key)'
  BY <1>3, <1>4, <1>6 DEF Extract, Reading, Advance, TypeOK, WalkOK
<1>7. ASSUME NEW r \in Repos, Check(r)
      PROVE  sources'[s][kind][key] = LastDeclared(s, kind, key)'
  BY <1>3, <1>4, <1>7 DEF Check, TypeOK, WalkOK
<1>8. CASE UNCHANGED <<sources, walkVars>>
  BY <1>4, <1>8 DEF walkVars
<1> QED
  BY <1>2, <1>5, <1>6, <1>7, <1>8 DEF Next, Scrape, Over, vars

-----------------------------------------------------------------------------
(* The references.                                                          *)

\* There is one last declaration at most, and it is a document of the repository.
LEMMA LastIsOne ==
  ASSUME TypeOK, NEW r \in Repos, NEW kind, NEW key, NEW e \in LastDeclared(r, kind, key)
  PROVE  /\ e.repo = r /\ e.at \in DOMAIN tree[r]
         /\ \A d \in LastDeclared(r, kind, key) : d = e
<1>1. DOMAIN tree[r] \subseteq Nat
  BY Docs
<1>2. Prepared(r) \subseteq DOMAIN tree[r]
  BY DEF Prepared
<1>3. PICK i \in Prepared(r) :
        /\ e = [repo |-> r, at |-> i] /\ Declares(r, i, kind, key)
        /\ \A k \in Prepared(r) : Declares(r, k, kind, key) => k <= i
  BY DEF LastDeclared
<1>4. ASSUME NEW d \in LastDeclared(r, kind, key)
      PROVE  d = e
  <2>1. PICK j \in Prepared(r) :
          /\ d = [repo |-> r, at |-> j] /\ Declares(r, j, kind, key)
          /\ \A k \in Prepared(r) : Declares(r, k, kind, key) => k <= j
    BY <1>4 DEF LastDeclared
  <2>2. i <= j /\ j <= i /\ i \in Nat /\ j \in Nat
    BY <1>1, <1>2, <1>3, <2>1
  <2> QED
    BY <1>3, <2>1, <2>2
<1> QED
  BY <1>2, <1>3, <1>4

\* The maps hold what the release means.
LEMMA EntriesAreMeant ==
  ASSUME TypeOK, SourcesAreLast, NEW r \in Repos, NEW doc \in Doc
  PROVE  Entries(r, doc) = Meant(r, doc)
<1>1. KeyOf(doc.chartRef, doc) \in Keys /\ KeyOf(doc.sourceRef, doc) \in Keys
  BY DEF Doc, CrossRef, Keys, KeyOf
<1>2. "OCIRepository" \in SourceKinds /\ "HelmRepository" \in SourceKinds
  BY DEF SourceKinds
<1>3. CASE ByImage(doc)
  <2>1. Meant(r, doc) = LastDeclared(r, "OCIRepository", KeyOf(doc.chartRef, doc))
    BY <1>3 DEF Meant, KeyOf
  <2> QED
    BY <1>1, <1>2, <1>3, <2>1 DEF Entries, SourcesAreLast, Own
<1>4. CASE ~ByImage(doc)
  <2>1. Meant(r, doc) =
          IF ByRepo(doc)
          THEN LastDeclared(r, "HelmRepository", KeyOf(doc.sourceRef, doc)) ELSE {}
    BY <1>4 DEF Meant, KeyOf, ByRepo
  <2> QED
    BY <1>1, <1>2, <1>4, <2>1 DEF Entries, SourcesAreLast, Own
<1> QED
  BY <1>3, <1>4

LEMMA MeantIsOne ==
  ASSUME TypeOK, NEW r \in Repos, NEW doc, NEW e \in Meant(r, doc)
  PROVE  /\ Origin(e) \in Doc
         /\ Meant(r, doc) = {e} /\ (CHOOSE d \in Meant(r, doc) : TRUE) = e
<1>1. \/ \E key : Meant(r, doc) = LastDeclared(r, "OCIRepository", key)
      \/ \E key : Meant(r, doc) = LastDeclared(r, "HelmRepository", key)
  BY DEF Meant
<1>2. PICK kind, key : Meant(r, doc) = LastDeclared(r, kind, key)
  BY <1>1
<1>3. e.repo = r /\ e.at \in DOMAIN tree[r] /\ \A d \in Meant(r, doc) : d = e
  BY <1>2, LastIsOne
<1>4. Origin(e) \in Doc
  BY <1>3, Docs DEF Origin
<1>5. Meant(r, doc) = {e}
  BY <1>3
<1> QED
  BY <1>4, <1>5

\* What refsFromRelease makes of a release.
LEMMA ReleaseRefs ==
  ASSUME TypeOK, SourcesAreLast, NEW r \in Repos, NEW doc \in Doc
  PROVE  IF Resolvable(r, doc)
         THEN \E ref \in Reference :
                /\ RefsFromRelease(r, doc) = {ref} /\ ref.type = "fluxcd"
                /\ ref.at = at[r] /\ ref.source = Meant(r, doc)
         ELSE RefsFromRelease(r, doc) = {}
<1> DEFINE found  == Meant(r, doc)
           source == Origin(CHOOSE e \in found : TRUE)
<1>1. Entries(r, doc) = found
  BY EntriesAreMeant
<1>2. /\ found # {} => source \in Doc
      /\ ByImage(doc) =>
           (Resolvable(r, doc) <=> found # {} /\ source.image # "" /\ source.tag # "")
  <2>1. CASE found = {}
    BY <2>1 DEF Resolvable
  <2>2. CASE found # {}
    <3>1. PICK e \in found : TRUE
      BY <2>2
    <3>2. Origin(e) \in Doc /\ found = {e} /\ source = Origin(e)
      BY <3>1, MeantIsOne
    <3> HIDE DEF source, found
    <3>3. (\E d \in found : Origin(d).image # "" /\ Origin(d).tag # "")
            <=> source.image # "" /\ source.tag # ""
      BY <3>2
    <3> USE DEF source, found
    <3> QED
      BY <3>2, <3>3 DEF Resolvable
  <2> QED
    BY <2>1, <2>2
<1>3. at[r] \in Nat \ {0} /\ found \in SUBSET Entry
  <2>1. KeyOf(doc.chartRef, doc) \in Keys /\ KeyOf(doc.sourceRef, doc) \in Keys
    BY DEF Doc, CrossRef, Keys, KeyOf
  <2> QED
    BY <1>1, <2>1 DEF Entries, Own, TypeOK, WalkOK, SourceKinds
<1>4. doc.name \in STRING /\ doc.chart \in STRING /\ doc.version \in STRING
      /\ doc.protocol \in STRING
  BY NamesAreTexts DEF Doc
<1>5. source \in Doc =>
        source.image \in STRING /\ source.tag \in STRING /\ source.protocol \in STRING
  BY DEF Doc
<1>6. ASSUME NEW name \in STRING, NEW protocol \in STRING, NEW current \in STRING,
             RefsFromRelease(r, doc) = {Flux(r, doc, found, name, protocol, current)}
      PROVE  \E ref \in Reference :
               /\ RefsFromRelease(r, doc) = {ref} /\ ref.type = "fluxcd"
               /\ ref.at = at[r] /\ ref.source = Meant(r, doc)
  <2> DEFINE ref == Flux(r, doc, found, name, protocol, current)
  <2>1. ref \in Reference
    BY <1>3, <1>4, <1>6 DEF Flux, Reference, Label
  <2> QED
    BY <1>6, <2>1 DEF Flux
<1> HIDE DEF found, source
<1>7. CASE ByImage(doc)
  <2>1. CASE Resolvable(r, doc)
    <3>1. RefsFromRelease(r, doc) =
            {Flux(r, doc, found, source.image, source.protocol, source.tag)}
      BY <1>1, <1>2, <1>7, <2>1 DEF RefsFromRelease, found, source
    <3> QED
      BY <1>2, <1>5, <1>6, <1>7, <2>1, <3>1
  <2>2. CASE ~Resolvable(r, doc)
    BY <1>1, <1>2, <1>7, <2>2 DEF RefsFromRelease, found, source
  <2> QED
    BY <2>1, <2>2
<1>8. CASE ~ByImage(doc)
  <2>1. Resolvable(r, doc) <=> HasChart(doc) /\ (found # {} \/ Inline(doc))
    BY <1>8 DEF Resolvable, found
  <2>2. CASE Resolvable(r, doc)
    <3> DEFINE protocol == IF Inline(doc) THEN doc.protocol ELSE source.protocol
    <3>1. RefsFromRelease(r, doc) =
            {Flux(r, doc, found, doc.chart, protocol, doc.version)}
      BY <1>1, <1>8, <2>1, <2>2 DEF RefsFromRelease, found, source
    <3>2. protocol \in STRING
      BY <1>2, <1>4, <1>5, <2>1, <2>2
    <3> QED
      BY <1>4, <1>6, <2>2, <3>1, <3>2
  <2>3. CASE ~Resolvable(r, doc)
    BY <1>1, <1>8, <2>1, <2>3 DEF RefsFromRelease, found, source
  <2> QED
    BY <2>2, <2>3
<1> QED
  BY <1>7, <1>8

\* What pass 2 makes of a document; only a release decides about type "fluxcd".
LEMMA NewRefs ==
  ASSUME TypeOK, SourcesAreLast, NEW r \in Repos, at[r] \in DOMAIN tree[r],
         NEW readable \in BOOLEAN
  PROVE  /\ ChartRefs(r, readable) \in SUBSET Reference
         /\ FluxRefs(r, readable) \in SUBSET Reference
         /\ \A ref \in ChartRefs(r, readable) : ref.type = "helm"
         /\ \A ref \in FluxRefs(r, readable) : ref.type = "fluxcd" /\ ref.at = at[r]
<1> DEFINE doc == Here(r)
<1>1. doc \in Doc /\ at[r] \in Nat \ {0}
  BY Docs DEF Here, TypeOK, WalkOK
<1>2. ASSUME NEW i \in DOMAIN doc.deps
      PROVE  [type |-> "helm", at |-> at[r], dep |-> i, source |-> {},
              label |-> [chart |-> doc.chart, name |-> doc.deps[i].name,
                         protocol |-> doc.deps[i].protocol,
                         current |-> doc.deps[i].version]] \in Reference
  <2> DEFINE Dep == [name : STRING, version : STRING, repository : STRING,
                     protocol : STRING]
  <2>1. doc.deps \in Seq(Dep) /\ doc.chart \in STRING
    BY <1>1 DEF Doc
  <2> HIDE DEF Dep
  <2>2. doc.deps[i] \in Dep /\ i \in Nat
    BY <1>2, <2>1, LenProperties, ElementOfSeq
  <2> USE DEF Dep
  <2> QED
    BY <1>1, <2>1, <2>2 DEF Reference, Label
<1>3. ChartRefs(r, readable) \in SUBSET Reference
  BY <1>2 DEF ChartRefs
<1>4. \A ref \in ChartRefs(r, readable) : ref.type = "helm"
  BY DEF ChartRefs
<1>5. \/ FluxRefs(r, readable) = {}
      \/ FluxRefs(r, readable) = RefsFromRelease(r, doc)
  BY DEF FluxRefs
<1>6. CASE FluxRefs(r, readable) = {}
  BY <1>3, <1>4, <1>6
<1>7. CASE FluxRefs(r, readable) = RefsFromRelease(r, doc)
  BY <1>1, <1>3, <1>4, <1>7, ReleaseRefs
<1> QED
  BY <1>5, <1>6, <1>7

LEMMA FluxTyping ==
  ASSUME TypeOK, SourcesAreLast, [Next]_vars
  PROVE  TypeOK'
<1>1. tree' \in [Repos -> Seq(Doc)] /\ WalkOK'
      /\ sources' \in [Repos -> [SourceKinds -> [Keys -> SUBSET Entry]]]
  BY Passing, SourcesTyping DEF TypeOK
<1>2. pending' \in [Repos -> SUBSET Reference]
  <2>1. ASSUME NEW r \in Repos, Extract(r)
        PROVE  pending' \in [Repos -> SUBSET Reference]
    <3>1. PICK readable \in Readings(r) :
            pending' = [pending EXCEPT ![r] =
                          @ \cup ChartRefs(r, readable) \cup FluxRefs(r, readable)]
      BY <2>1 DEF Extract
    <3>2. readable \in BOOLEAN /\ at[r] \in DOMAIN tree[r]
      BY <2>1 DEF Readings, Extract, Reading
    <3>3. /\ ChartRefs(r, readable) \in SUBSET Reference
          /\ FluxRefs(r, readable) \in SUBSET Reference
      BY <3>2, NewRefs
    <3> QED
      BY <3>1, <3>3 DEF TypeOK
  <2>2. CASE UNCHANGED pending
    BY <2>2 DEF TypeOK
  <2> QED
    BY <2>1, <2>2 DEF Next, Prepare, SecondPass, Check, Scrape, Over, vars
<1>3. results' \in [Repos -> SUBSET Result]
  <2>1. ASSUME NEW r \in Repos, Check(r)
        PROVE  results' \in [Repos -> SUBSET Result]
    <3>1. PICK failed \in SUBSET pending[r] :
            results' = [results EXCEPT ![r] =
              {[ref |-> ref,
                outdated |-> ref \notin failed /\ ref.label.current # Newest] :
                 ref \in pending[r]}]
      BY <2>1 DEF Check
    <3>2. \A ref \in pending[r] :
            [ref |-> ref, outdated |-> ref \notin failed /\ ref.label.current # Newest]
              \in Result
      BY DEF TypeOK, Result
    <3> QED
      BY <3>1, <3>2 DEF TypeOK
  <2>2. CASE UNCHANGED results
    BY <2>2 DEF TypeOK
  <2> QED
    BY <2>1, <2>2 DEF Next, Prepare, SecondPass, Extract, Scrape, Over, vars
<1>4. scrape' \in {"none", "ok", "error"}
  BY DEF Next, Prepare, SecondPass, Extract, Check, Scrape, Over, vars, Advance, Gather,
         TypeOK
<1> QED
  BY <1>1, <1>2, <1>3, <1>4 DEF TypeOK

\* Extracting a document changes the references of that document only.
LEMMA ExtractRefs ==
  ASSUME TypeOK, SourcesAreLast, NEW r \in Repos, Extract(r), NEW s \in Repos, NEW i,
         s = r => i # at[r]
  PROVE  RefsOf(s, i)' = RefsOf(s, i)
<1>1. PICK readable \in Readings(r) :
        pending' = [pending EXCEPT ![r] =
                      @ \cup ChartRefs(r, readable) \cup FluxRefs(r, readable)]
  BY DEF Extract
<1>2. readable \in BOOLEAN /\ at[r] \in DOMAIN tree[r]
  BY DEF Readings, Extract, Reading
<1>3. \A ref \in ChartRefs(r, readable) : ref.type # "fluxcd"
  BY <1>2, NewRefs
<1>4. \A ref \in FluxRefs(r, readable) : ref.at = at[r]
  BY <1>2, NewRefs
<1>5. pending'[s] = IF s = r THEN pending[r] \cup ChartRefs(r, readable)
                                  \cup FluxRefs(r, readable)
                    ELSE pending[s]
  BY <1>1 DEF TypeOK
<1> QED
  BY <1>3, <1>4, <1>5 DEF RefsOf

LEMMA ExtractedNow ==
  ASSUME TypeOK, NEW r \in Repos, Extract(r)
  PROVE  /\ Extracted(r)' = Extracted(r) \cup {at[r]}
         /\ at[r] \in DOMAIN tree[r] /\ at[r] \notin Extracted(r)
         /\ Extracted(r) = {i \in DOMAIN tree[r] : i < at[r]}
         /\ \A s \in Repos \ {r} : Extracted(s)' = Extracted(s)
<1>1. PICK readable \in Readings(r) : Advance(r, 2, readable)
  BY DEF Extract
<1>2. /\ pass[r] = 2 /\ pass' = pass /\ tree' = tree /\ at'[r] = at[r] + 1
      /\ \A s \in Repos \ {r} : at'[s] = at[s]
      /\ at[r] \in DOMAIN tree[r]
  BY <1>1 DEF Advance, Extract, Reading, TypeOK, WalkOK
<1>3. DOMAIN tree[r] = 1..Len(tree[r]) /\ Len(tree[r]) \in Nat /\ at[r] \in Nat
  BY Docs DEF TypeOK, WalkOK
<1>4. Extracted(r) = {i \in DOMAIN tree[r] : i < at[r]}
  BY <1>2 DEF Extracted
<1>5. Extracted(r)' = {i \in DOMAIN tree[r] : i < at[r] + 1}
  BY <1>2 DEF Extracted
<1>6. \A s \in Repos \ {r} : Extracted(s)' = Extracted(s)
  BY <1>2 DEF Extracted
<1> QED
  BY <1>2, <1>3, <1>4, <1>5, <1>6

LEMMA ExtractedThen ==
  ASSUME TypeOK, NEW s \in Repos, [Next]_vars, \A r \in Repos : ~Extract(r)
  PROVE  pending' = pending /\ tree' = tree /\ Extracted(s)' = Extracted(s)
<1>1. pending' = pending /\ tree' = tree
  BY Passing DEF Next, Prepare, SecondPass, Check, Scrape, Over, vars
<1>2. CASE pass'[s] = pass[s] /\ at'[s] = at[s]
  BY <1>1, <1>2 DEF Extracted
<1>3. ASSUME NEW r \in Repos, Prepare(r)
      PROVE  Extracted(s)' = Extracted(s)
  <2>1. CASE s # r
    BY <1>2, <1>3, <2>1 DEF Prepare, Advance, TypeOK, WalkOK
  <2>2. CASE s = r
    BY <1>3, <2>2 DEF Prepare, Advance, Reading, Extracted
  <2> QED
    BY <2>1, <2>2
<1>4. ASSUME NEW r \in Repos, SecondPass(r)
      PROVE  Extracted(s)' = Extracted(s)
  <2>1. CASE s # r
    BY <1>2, <1>4, <2>1 DEF SecondPass, TypeOK, WalkOK
  <2>2. CASE s = r
    <3>1. pass[s] = 1 /\ pass'[s] = 2 /\ at'[s] = 1
      BY <1>4, <2>2 DEF SecondPass, TypeOK, WalkOK
    <3>2. \A i \in DOMAIN tree[s] : ~(i < 1)
      BY Docs
    <3> QED
      BY <1>1, <3>1, <3>2 DEF Extracted
  <2> QED
    BY <2>1, <2>2
<1>5. ASSUME NEW r \in Repos, Check(r)
      PROVE  Extracted(s)' = Extracted(s)
  <2>1. CASE s # r
    BY <1>2, <1>5, <2>1 DEF Check, TypeOK, WalkOK
  <2>2. CASE s = r
    <3>1. pass[s] = 2 /\ pass'[s] = 3 /\ at[s] \notin DOMAIN tree[s]
          /\ at[s] \in Nat \ {0}
      BY <1>5, <2>2 DEF Check, TypeOK, WalkOK
    <3>2. \A i \in DOMAIN tree[s] : i < at[s]
      BY <3>1, Docs
    <3>3. Extracted(s) = DOMAIN tree[s]
      BY <3>1, <3>2 DEF Extracted
    <3>4. tree'[s] = tree[s]
      BY <1>5 DEF Check
    <3>5. Extracted(s)' = DOMAIN tree[s]
      BY <3>1, <3>4 DEF Extracted
    <3> QED
      BY <3>3, <3>5
  <2> QED
    BY <2>1, <2>2
<1> QED
  BY <1>1, <1>2, <1>3, <1>4, <1>5 DEF Next, Scrape, Over, vars, walkVars

LEMMA AheadStep ==
  ASSUME TypeOK, SourcesAreLast, NoneAhead, [Next]_vars
  PROVE  NoneAhead'
<1> SUFFICES ASSUME NEW s \in Repos, NEW i \in DOMAIN tree'[s], i \notin Extracted(s)'
             PROVE  RefsOf(s, i)' = {}
  BY DEF NoneAhead
<1>1. ASSUME NEW r \in Repos, Extract(r)
      PROVE  RefsOf(s, i)' = {}
  <2>1. i \notin Extracted(s) /\ (s = r => i # at[r]) /\ tree' = tree
    BY <1>1, ExtractedNow, Passing
  <2> QED
    BY <1>1, <2>1, ExtractRefs DEF NoneAhead
<1>2. CASE \A r \in Repos : ~Extract(r)
  BY <1>2, ExtractedThen DEF NoneAhead, RefsOf
<1> QED
  BY <1>1, <1>2

LEMMA ReachedStays ==
  ASSUME TypeOK, Walks, NEW s \in Repos, NEW i \in Extracted(s), [Next]_vars
  PROVE  Reached(s, i, 2)' = Reached(s, i, 2)
<1>1. pass[s] # 1 /\ tree' = tree
  BY Passing DEF Extracted
<1>2. CASE unread'[s] = unread[s]
  BY <1>1, <1>2 DEF Reached
<1>3. ASSUME NEW r \in Repos, Prepare(r)
      PROVE  unread'[s] = unread[s]
  BY <1>1, <1>3 DEF Prepare, Advance, Reading, TypeOK, WalkOK
<1>4. ASSUME NEW r \in Repos, Extract(r)
      PROVE  Reached(s, i, 2)' = Reached(s, i, 2)
  <2>1. PICK readable \in Readings(r) : Advance(r, 2, readable)
    BY <1>4 DEF Extract
  <2>2. CASE s # r
    BY <1>2, <2>1, <2>2 DEF Advance, TypeOK, WalkOK
  <2>3. CASE s = r
    <3>1. i \in DOMAIN tree[r] /\ i < at[r] /\ Reading(r, 2)
      BY <1>4, <2>3, ExtractedNow DEF Extract
    <3> QED
      BY <2>1, <2>3, <3>1, BehindStays
  <2> QED
    BY <2>2, <2>3
<1> QED
  BY <1>2, <1>3, <1>4 DEF Next, SecondPass, Check, Scrape, Over, vars, walkVars

\* What a release means is settled before pass 2 begins.
LEMMA MeantStays ==
  ASSUME TypeOK, NEW s \in Repos, pass[s] # 1, [Next]_vars, NEW doc
  PROVE  Meant(s, doc)' = Meant(s, doc) /\ Resolvable(s, doc)' = Resolvable(s, doc)
<1>1. tree' = tree
  BY Passing
<1>2. \A kind, key : LastDeclared(s, kind, key)' = LastDeclared(s, kind, key)
  BY LastIsLast
<1>3. Meant(s, doc)' = Meant(s, doc)
  BY <1>2 DEF Meant
<1> QED
  BY <1>1, <1>3 DEF Resolvable, Origin

\* What RefsExact says of one document.
Exact(r, i) ==
  LET doc == tree[r][i] IN
  doc.kind = "HelmRelease" /\ doc.name # "" =>
    IF Reached(r, i, 2) /\ "extract" \notin doc.defect /\ Resolvable(r, doc)
    THEN \E ref \in pending[r] : RefsOf(r, i) = {ref} /\ ref.source = Meant(r, doc)
    ELSE RefsOf(r, i) = {}

\* The documents pass 2 is through with stay as they were.
LEMMA ExactStays ==
  ASSUME TypeOK, Walks, SourcesAreLast, NEW s \in Repos, NEW i \in Extracted(s),
         Exact(s, i), [Next]_vars
  PROVE  Exact(s, i)'
<1> DEFINE doc == tree[s][i]
<1>1. tree' = tree /\ pass[s] # 1
  BY Passing DEF Extracted
<1>2. RefsOf(s, i)' = RefsOf(s, i)
  <2>1. ASSUME NEW r \in Repos, Extract(r)
        PROVE  RefsOf(s, i)' = RefsOf(s, i)
    BY <2>1, ExtractedNow, ExtractRefs
  <2>2. CASE \A r \in Repos : ~Extract(r)
    BY <2>2, ExtractedThen DEF RefsOf
  <2> QED
    BY <2>1, <2>2
<1>3. Reached(s, i, 2)' = Reached(s, i, 2)
  BY ReachedStays
<1>4. PICK d : d = doc
  OBVIOUS
<1>5. Meant(s, d)' = Meant(s, d) /\ Resolvable(s, d)' = Resolvable(s, d)
  BY <1>1, MeantStays
<1>6. \A ref : RefsOf(s, i)' = {ref} => ref \in pending'[s]
  BY DEF RefsOf
<1>7. Exact(s, i)' <=>
        (d.kind = "HelmRelease" /\ d.name # "" =>
           IF Reached(s, i, 2)' /\ "extract" \notin d.defect /\ Resolvable(s, d)'
           THEN \E ref \in pending'[s] :
                  RefsOf(s, i)' = {ref} /\ ref.source = Meant(s, d)'
           ELSE RefsOf(s, i)' = {})
  BY <1>1, <1>4 DEF Exact
<1> HIDE DEF doc
<1>8. d.kind = "HelmRelease" /\ d.name # "" =>
        IF Reached(s, i, 2) /\ "extract" \notin d.defect /\ Resolvable(s, d)
        THEN \E ref \in pending[s] : RefsOf(s, i) = {ref} /\ ref.source = Meant(s, d)
        ELSE RefsOf(s, i) = {}
  BY <1>4 DEF Exact, doc
<1> QED
  BY <1>2, <1>3, <1>5, <1>6, <1>7, <1>8

\* The document that is extracted gets what it should.
LEMMA ExactNext ==
  ASSUME TypeOK, Walks, UnreadPast, ClosedExact, NoneAhead, SourcesAreLast,
         NEW r \in Repos, Extract(r), NEW i, i = at[r]
  PROVE  Exact(r, i)'
<1>1. PICK readable \in Readings(r) :
        /\ Advance(r, 2, readable)
        /\ pending' = [pending EXCEPT ![r] =
                         @ \cup ChartRefs(r, readable) \cup FluxRefs(r, readable)]
  BY DEF Extract
<1>2. /\ Reading(r, 2) /\ i \in DOMAIN tree[r] /\ tree' = tree /\ pass[r] # 1
      /\ readable \in BOOLEAN
  <2>1. Reading(r, 2)
    BY DEF Extract
  <2>2. tree' = tree
    BY <1>1 DEF Advance
  <2>3. Readings(r) \subseteq BOOLEAN
    BY DEF Readings
  <2>4. readable \in BOOLEAN
    BY <2>3
  <2> QED
    BY <2>1, <2>2, <2>4 DEF Reading
<1>3. PICK doc : doc = tree[r][i]
  OBVIOUS
<1>4. doc \in Doc /\ doc = Here(r)
  BY <1>2, <1>3, Docs DEF Here
<1>5. [Next]_vars
  BY DEF Next
<1>6. Meant(r, doc)' = Meant(r, doc) /\ Resolvable(r, doc)' = Resolvable(r, doc)
  BY <1>2, <1>5, MeantStays
<1>7. RefsOf(r, i)' = FluxRefs(r, readable)
  <2>1. RefsOf(r, i) = {}
    BY <1>2, ExtractedNow DEF NoneAhead
  <2>2. pending'[r] = pending[r] \cup ChartRefs(r, readable) \cup FluxRefs(r, readable)
    BY <1>1 DEF TypeOK
  <2>3. /\ \A ref \in ChartRefs(r, readable) : ref.type # "fluxcd"
        /\ \A ref \in FluxRefs(r, readable) : ref.type = "fluxcd" /\ ref.at = i
    BY <1>2, NewRefs
  <2> QED
    BY <2>1, <2>2, <2>3 DEF RefsOf
<1>8. CASE doc.kind = "HelmRelease" /\ doc.name # ""
  <2>1. Wanted(r, 2)
    <3>1. "HelmRelease" \in WordsOf(2) /\ "HelmRelease" \in Words(doc)
      <4>1. WordsOf(2) = {"HelmRelease"}
        BY DEF WordsOf
      <4>2. Words(doc) = {"HelmRelease", doc.chartRef.kind, doc.sourceRef.kind}
        BY <1>8 DEF Words
      <4> QED
        BY <4>1, <4>2
    <3>2. Words(doc) \cap WordsOf(2) # {}
      BY <3>1
    <3>3. i \in DOMAIN tree[r] /\ tree[r][i] = doc /\ Here(r) = doc
      BY <1>2, <1>3, <1>4
    <3>4. /\ tree[r][i].file = Here(r).file
          /\ Words(tree[r][i]) \cap WordsOf(2) # {}
      BY <3>2, <3>3
    <3> QED
      BY <3>3, <3>4 DEF Wanted
  <2>2. ~Shut(r, 2, readable) /\ "syntax" \notin doc.defect <=> Reached(r, i, 2)'
    BY <1>1, <1>2, <1>4, <2>1, Opens DEF EndsFile
  <2>3. FluxRefs(r, readable) =
          IF Reached(r, i, 2)' /\ "extract" \notin doc.defect
          THEN RefsFromRelease(r, doc) ELSE {}
    <3>1. Decodes(doc, "extract") <=>
            "extract" \notin doc.defect /\ "syntax" \notin doc.defect
      BY DEF Decodes
    <3> QED
      BY <1>4, <1>8, <2>2, <3>1 DEF FluxRefs
  <2>4. IF Resolvable(r, doc)
        THEN \E ref \in Reference :
               RefsFromRelease(r, doc) = {ref} /\ ref.source = Meant(r, doc)
        ELSE RefsFromRelease(r, doc) = {}
    BY <1>4, ReleaseRefs
  <2>5. \A ref : RefsOf(r, i)' = {ref} => ref \in pending'[r]
    BY DEF RefsOf
  <2>6. IF Reached(r, i, 2)' /\ "extract" \notin doc.defect /\ Resolvable(r, doc)'
        THEN \E ref \in pending'[r] :
               RefsOf(r, i)' = {ref} /\ ref.source = Meant(r, doc)'
        ELSE RefsOf(r, i)' = {}
    BY <1>6, <1>7, <2>3, <2>4, <2>5
  <2> QED
    BY <1>2, <1>3, <2>6 DEF Exact
<1>9. CASE ~(doc.kind = "HelmRelease" /\ doc.name # "")
  BY <1>2, <1>3, <1>9 DEF Exact
<1> QED
  BY <1>8, <1>9

LEMMA ExactStep ==
  ASSUME TypeOK, Walks, UnreadPast, ClosedExact, NoneAhead, SourcesAreLast, RefsExact,
         [Next]_vars
  PROVE  RefsExact'
<1> SUFFICES ASSUME NEW s \in Repos, NEW i \in Extracted(s)'
             PROVE  Exact(s, i)'
  BY DEF RefsExact, Exact
<1>1. CASE i \in Extracted(s)
  <2>1. Exact(s, i)
    BY <1>1 DEF RefsExact, Exact
  <2> QED
    BY <1>1, <2>1, ExactStays
<1>2. CASE i \notin Extracted(s)
  <2>1. PICK r \in Repos : Extract(r)
    BY <1>2, ExtractedThen
  <2>2. s = r /\ i = at[r]
    BY <1>2, <2>1, ExtractedNow
  <2> QED
    BY <2>1, <2>2, ExactNext
<1> QED
  BY <1>1, <1>2

-----------------------------------------------------------------------------
(* The theorems.                                                            *)

WalkInv == FluxInv /\ Walks /\ SourcesAreLast

LEMMA WalkInit ==
  Init => WalkInv /\ RefsExact
<1> SUFFICES ASSUME Init
             PROVE  WalkInv /\ RefsExact
  OBVIOUS
<1>1. tree \in [Repos -> Seq(Doc)] /\ Walks
  BY TreesAreWalks DEF Init, Walks
<1>2. TypeOK
  BY <1>1 DEF Init, TypeOK, WalkOK
<1>3. \A r \in Repos : 0 \notin DOMAIN tree[r] /\ \A i \in DOMAIN tree[r] : ~(i < 1)
  <2>1. ASSUME NEW r \in Repos
        PROVE  0 \notin DOMAIN tree[r] /\ \A i \in DOMAIN tree[r] : ~(i < 1)
    <3>1. DOMAIN tree[r] = 1..Len(tree[r]) /\ Len(tree[r]) \in Nat
      BY <1>2, Docs
    <3> QED
      BY <3>1
  <2> QED
    BY <2>1
<1>4. ClosedExact
  BY <1>3 DEF ClosedExact, Init
<1>5. UnreadPast
  BY DEF UnreadPast, Init
<1>6. NoneAhead /\ RefsExact
  <2>1. \A r \in Repos : pass[r] = 1 /\ pending[r] = {}
    BY DEF Init
  <2>2. ASSUME NEW r \in Repos
        PROVE  Extracted(r) = {}
    <3>1. pass[r] = 1
      BY <2>1
    <3> QED
      BY <3>1 DEF Extracted
  <2> QED
    BY <2>1, <2>2 DEF NoneAhead, RefsExact, RefsOf
<1>7. SourcesAreLast
  <2>1. \A r \in Repos : Prepared(r) = {}
    BY <1>3 DEF Prepared, Init
  <2>2. \A r \in Repos : \A kind, key : LastDeclared(r, kind, key) = {}
    BY <2>1 DEF LastDeclared
  <2>3. \A r \in Repos, kind \in SourceKinds : \A key \in Keys :
          sources[r][kind][key] = {}
    BY DEF Init
  <2> QED
    BY <2>2, <2>3 DEF SourcesAreLast
<1> QED
  BY <1>1, <1>2, <1>4, <1>5, <1>6, <1>7 DEF WalkInv, FluxInv

LEMMA WalkStep ==
  WalkInv /\ [Next]_vars => WalkInv'
<1> SUFFICES ASSUME WalkInv, [Next]_vars
             PROVE  WalkInv'
  OBVIOUS
<1>1. TypeOK'
  BY FluxTyping DEF WalkInv, FluxInv
<1>2. ClosedExact' /\ UnreadPast' /\ NoneAhead' /\ SourcesAreLast'
  BY ClosedStep, UnreadStep, AheadStep, SourcesStep DEF WalkInv, FluxInv
<1>3. Walks'
  BY Passing DEF WalkInv, FluxInv, Walks
<1> QED
  BY <1>1, <1>2, <1>3 DEF WalkInv, FluxInv

\* The types, and the decoding loop open just where the pass gets to: the loops of
\* PrepareFile and Extract with keepDecoding (fluxcd.go:112, :147, :167).
THEOREM WalkIsExact == Spec => []FluxInv
<1>1. Spec => []WalkInv
  BY WalkInit, WalkStep, PTL DEF Spec
<1>2. WalkInv => FluxInv
  BY DEF WalkInv
<1> QED
  BY <1>1, <1>2, PTL

\* The source maps hold each repository's own sources as it last declares them,
\* however scans interleave (PrepareFile, fluxcd.go:101).
THEOREM SourcesExact == Spec => []SourcesAreLast
<1>1. Spec => []WalkInv
  BY WalkInit, WalkStep, PTL DEF Spec
<1>2. WalkInv => SourcesAreLast
  BY DEF WalkInv
<1> QED
  BY <1>1, <1>2, PTL

\* Two walks resolve every readable release against the whole repository, in
\* whatever order files name sources and releases (Extract, fluxcd.go:144).
THEOREM ReferencesExact == Spec => []RefsExact
<1>1. Spec => []WalkInv
  BY WalkInit, WalkStep, PTL DEF Spec
<1>2. WalkInv /\ RefsExact /\ [Next]_vars => RefsExact'
  BY ExactStep DEF WalkInv, FluxInv
<1> QED
  BY <1>1, <1>2, WalkInit, PTL DEF Spec
=============================================================================
