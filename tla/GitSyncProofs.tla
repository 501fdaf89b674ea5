--------------------------- MODULE GitSyncProofs ---------------------------
(***************************************************************************)
(* Theorems about GitSync, for any configuration files, URLs and branches, *)
(* and however often the process stops, the network fails or what is       *)
(* upstream changes.                                                       *)
(***************************************************************************)
EXTENDS GitSync, SequenceTheorems, TLAPS

-----------------------------------------------------------------------------
(* The inductive invariant.                                                 *)

\* What SyncExact and CleanStart ask of the directory of a sync.
Good(i, phase, clone) ==
  /\ clone.git \/ clone = Empty
  /\ phase \in {"set-url", "fetch", "reset"} => clone.git /\ config.cache
  /\ phase = "clone" => clone = Empty
  /\ phase \in {"fetch", "reset"} => clone.origin = Url(i)
  /\ phase = "reset" => Upstream(i, clone.fetched)
  /\ phase = "scan" => Upstream(i, clone.tree)
  /\ phase = "waiting" /\ ~config.cache => clone = Empty

AllGood == running => \A i \in Slots : Apart(i) => Good(i, pc[i], Here(i))

GitOrEmpty == \A kept \in BOOLEAN, d \in Dirs : disk[kept][d].git \/ disk[kept][d] = Empty

\* The default branch is there, and what is upstream has been shown in this Run.
ShownNow ==
  /\ \A u \in Urls : remote[u].head \in remote[u].live
  /\ running => \A u \in Urls : \A b \in remote[u].live :
       <<Tip(u, b), b = remote[u].head>> \in shown

DownIsIdle == running => up

DestsDiffer == \A i, j \in Slots : i # j => Dest(i) # Dest(j)

GitIInv ==
  TypeOK /\ DestsDiffer /\ AllGood /\ GitOrEmpty /\ ShownNow /\ DownIsIdle
  /\ ScannedIsUpstream

-----------------------------------------------------------------------------
(* Directories and commits.                                                 *)

LEMMA PairAppended ==
  ASSUME NEW S, NEW b \in S, NEW s \in Seq(S), Len(s) = 1
  PROVE  Append(s, b) = <<s[1], b>>
<1>1. Append(s, b) \in Seq(S) /\ Len(Append(s, b)) = 2
  OBVIOUS
<1>2. Append(s, b)[1] = s[1]
  BY AppendProperties
<1>3. Append(s, b)[2] = b
  <2>1. Append(s, b)[Len(s) + 1] = b
    BY AppendProperties
  <2> QED
    BY <2>1
<1>4. PICK t : t = <<s[1], b>>
  OBVIOUS
<1>5. t \in Seq(S) /\ Len(t) = 2 /\ t[1] = s[1] /\ t[2] = b
  <2>1. s[1] \in S
    BY ElementOfSeq
  <2> QED
    BY <1>4, <2>1
<1>6. ASSUME NEW i \in 1 .. Len(t)
      PROVE  t[i] = Append(s, b)[i]
  <2>1. i = 1 \/ i = 2
    BY <1>5
  <2> QED
    BY <1>2, <1>3, <1>5, <2>1
<1> QED
  BY <1>1, <1>4, <1>5, <1>6, SeqEqual

\* What Join makes of a name in workDir.
LEMMA EnterWorkDir ==
  ASSUME NEW step
  PROVE  Enter(WorkDir, step) = IF step = Dot THEN WorkDir
                                ELSE IF step = Up THEN Above
                                ELSE <<<<"w">>, step>>
<1>1. CASE step = Dot
  BY <1>1 DEF Enter
<1>2. CASE step = Up
  <2>1. Up # Dot
    <3>1. Len(Up) = 2 /\ Len(Dot) = 1
      BY DEF Up, Dot
    <3> QED
      BY <3>1
  <2>2. WorkDir # <<>> /\ Last(WorkDir) # Up
    <3>1. Len(WorkDir) = 1 /\ Last(WorkDir) = <<"w">>
      BY DEF WorkDir, Last
    <3>2. Len(<<"w">>) = 1 /\ Len(Up) = 2
      BY DEF Up
    <3> QED
      BY <3>1, <3>2
  <2>3. Front(WorkDir) = Above
    BY DEF WorkDir, Front, Above
  <2> QED
    BY <1>2, <2>1, <2>2, <2>3 DEF Enter
<1>3. CASE step # Dot /\ step # Up
  <2>1. Append(WorkDir, step) = <<<<"w">>, step>>
    <3> DEFINE S == {<<"w">>, step}
    <3>1. WorkDir \in Seq(S) /\ step \in S
      BY DEF WorkDir
    <3>2. Len(WorkDir) = 1 /\ WorkDir[1] = <<"w">>
      BY DEF WorkDir
    <3> HIDE DEF S
    <3> QED
      BY <3>1, <3>2, PairAppended
  <2> QED
    BY <1>3, <2>1 DEF Enter
<1> QED
  BY <1>1, <1>2, <1>3

\* Different names are different directories, and but for two they lie next to
\* each other in workDir.
LEMMA DirFacts ==
  ASSUME NEW m \in Names, NEW n \in Names
  PROVE  /\ DirOf[m] \in Dirs
         /\ Around(DirOf[m]) \/ DirOf[m] = <<<<"w">>, SafeName(m)>>
         /\ DirOf[m] = DirOf[n] => SafeName(m) = SafeName(n)
<1>1. DirOf[m] = Enter(WorkDir, SafeName(m)) /\ DirOf[n] = Enter(WorkDir, SafeName(n))
  BY DEF DirOf
<1>2. PICK s : s = SafeName(m)
  OBVIOUS
<1>3. PICK t : t = SafeName(n)
  OBVIOUS
<1>4. Around(DirOf[m]) \/ DirOf[m] = <<<<"w">>, s>>
  BY <1>1, <1>2, EnterWorkDir DEF Around
<1>5. Enter(WorkDir, s) = Enter(WorkDir, t) => s = t
  <2>1. /\ Len(WorkDir) = 1 /\ Len(Above) = 0
        /\ \A x : Len(<<<<"w">>, x>>) = 2 /\ <<<<"w">>, x>>[2] = x
    BY DEF WorkDir, Above
  <2> QED
    BY <2>1, EnterWorkDir
<1> QED
  BY <1>1, <1>2, <1>3, <1>4, <1>5 DEF Dirs

LEMMA NameOf ==
  ASSUME NEW c \in Files, NEW i \in DOMAIN c.repos
  PROVE  c.repos[i].name \in Names
BY DEF Names

LEMMA Dirsof ==
  ASSUME TypeOK, NEW i \in Slots
  PROVE  Dest(i) \in Dirs /\ Url(i) \in Urls /\ config.cache \in BOOLEAN
<1>1. config \in Files /\ config \in [repos : Seq(Repo), cache : BOOLEAN]
  BY FilesAreConfigs DEF TypeOK
<1>2. config.repos[i] \in Repo
  BY <1>1, ElementOfSeq, LenProperties DEF Slots
<1>3. config.repos[i].name \in Names
  BY <1>1, NameOf DEF Slots
<1> QED
  BY <1>1, <1>2, <1>3, DirFacts DEF Dest, Url, Repo

\* A directory that is in two of those next to each other tells that they are one.
LEMMA OneHolds ==
  ASSUME NEW d \in Dirs, NEW e \in Dirs, ~Around(d), ~Around(e), NEW dir,
         IsPrefix(d, dir), IsPrefix(e, dir)
  PROVE  d = e
<1>1. PICK s : d = <<<<"w">>, s>>
  BY DirFacts DEF Dirs
<1>2. PICK t : e = <<<<"w">>, t>>
  BY DirFacts DEF Dirs
<1>3. /\ Len(d) = 2 /\ SubSeq(d, 1, 2) = d
      /\ Len(e) = 2 /\ SubSeq(e, 1, 2) = e
  <2>1. ASSUME NEW x
        PROVE  /\ Len(<<<<"w">>, x>>) = 2
               /\ SubSeq(<<<<"w">>, x>>, 1, 2) = <<<<"w">>, x>>
    <3>1. <<<<"w">>, x>> \in Seq({<<"w">>, x}) /\ Len(<<<<"w">>, x>>) = 2
      OBVIOUS
    <3> QED
      BY <3>1, SubSeqFull
  <2> QED
    BY <1>1, <1>2, <2>1
<1>4. SubSeq(d, 1, 2) = SubSeq(dir, 1, 2) /\ SubSeq(e, 1, 2) = SubSeq(dir, 1, 2)
  BY <1>3 DEF IsPrefix
<1> QED
  BY <1>3, <1>4

LEMMA DestsAreApart ==
  ASSUME TypeOK, DestsDiffer
  PROVE  DirsApart
<1> SUFFICES ASSUME NEW i \in Slots, NEW j \in Slots, i # j,
                    IsPrefix(Dest(i), Dest(j)), ~Around(Dest(i))
             PROVE  FALSE
  BY DEF DirsApart
<1>1. PICK d \in Dirs : d = Dest(i)
  BY Dirsof
<1>2. PICK e \in Dirs : e = Dest(j)
  BY Dirsof
<1>3. PICK s : d = <<<<"w">>, s>>
  BY <1>1, DirFacts DEF Dirs
<1>4. Len(d) = 2 /\ Len(WorkDir) = 1 /\ Len(Above) = 0
  BY <1>3 DEF WorkDir, Above
<1>5. Len(d) <= Len(e)
  BY <1>1, <1>2 DEF IsPrefix
<1>6. ~Around(e)
  <2>1. e # WorkDir /\ e # Above
    BY <1>4, <1>5
  <2> QED
    BY <2>1 DEF Around
<1>7. IsPrefix(e, e)
  <2>1. PICK t : e = <<<<"w">>, t>>
    BY <1>2, <1>6, DirFacts DEF Dirs
  <2>2. Len(e) = 2
    BY <2>1
  <2> QED
    BY <2>2 DEF IsPrefix
<1> QED
  BY <1>1, <1>2, <1>6, <1>7, OneHolds DEF DestsDiffer

LEMMA AcceptedDiffer ==
  ASSUME NEW c \in Files, Accepted(c), NEW i \in DOMAIN c.repos, NEW j \in DOMAIN c.repos,
         i # j
  PROVE  DirOf[c.repos[i].name] # DirOf[c.repos[j].name]
BY NameOf, DirFacts DEF Accepted

LEMMA CacheIsBoolean ==
  ASSUME TypeOK
  PROVE  config.cache \in BOOLEAN
BY FilesAreConfigs DEF TypeOK

LEMMA HereType ==
  ASSUME TypeOK, NEW i \in Slots
  PROVE  Here(i) \in Clone
BY Dirsof DEF TypeOK, Here

LEMMA TipType ==
  ASSUME TypeOK, NEW u \in Urls, NEW b \in Branches
  PROVE  Tip(u, b) \in Commit
BY DEF TypeOK, Tip, Commit

LEMMA EmptyType == Empty \in Clone
BY DEF Empty, Clone

\* A configuration decides on the directories.
LEMMA Placed ==
  ASSUME config' = config
  PROVE  /\ Slots' = Slots
         /\ \A j : Url(j)' = Url(j) /\ Dest(j)' = Dest(j) /\ ScanPath(j)' = ScanPath(j)
         /\ DestsDiffer => DestsDiffer'
<1>1. Slots' = Slots /\ \A j : Url(j)' = Url(j) /\ Dest(j)' = Dest(j)
  BY DEF Slots, Url, Dest
<1>2. \A j : ScanPath(j)' = ScanPath(j)
  BY <1>1 DEF ScanPath
<1>3. DestsDiffer => DestsDiffer'
  BY <1>1 DEF DestsDiffer
<1> QED
  BY <1>1, <1>2, <1>3

LEMMA ApartStays ==
  ASSUME config' = config, NEW j, nested[config.cache] => nested'[config.cache]
  PROVE  Apart(j)' => Apart(j)
BY Placed DEF Apart

\* A step that has no sync be done and forgets nothing that was shown keeps what is
\* scanned upstream's.
LEMMA ScannedStays ==
  ASSUME GitIInv, config' = config, shown \subseteq shown',
         nested[config.cache] => nested'[config.cache],
         \A j \in Slots : pc'[j] = "done" =>
           \/ ~Apart(j)'
           \/ pc[j] = "done" /\ scanned'[j] = scanned[j]
           \/ IsPrefix(Dest(j), ScanPath(j)) => Upstream(j, scanned'[j])
  PROVE  ScannedIsUpstream'
<1> SUFFICES ASSUME NEW j \in Slots, pc'[j] = "done", Apart(j)',
                    IsPrefix(Dest(j), ScanPath(j))
             PROVE  Upstream(j, scanned[j])'
  BY Placed DEF ScannedIsUpstream
<1>1. Upstream(j, scanned'[j])
  BY ApartStays DEF GitIInv, ScannedIsUpstream
<1>2. PICK one \in shown :
        /\ scanned'[j] = {one[1]} /\ one[1].url = Url(j)
        /\ config.cache \/ one[2]
  BY <1>1 DEF Upstream
<1> QED
  BY <1>2, Placed DEF Upstream

\* A step of a sync touches its own directory only.
LEMMA ToTyping ==
  ASSUME TypeOK, NEW i \in Slots, NEW phase \in Phase, NEW clone \in Clone,
         To(i, phase, clone)
  PROVE  TypeOK'
<1>1. pc' \in [Slots -> Phase]
  BY DEF To, TypeOK
<1>2. disk' \in [BOOLEAN -> [Dirs -> Clone]]
  <2>1. disk[config.cache] \in [Dirs -> Clone]
    BY Dirsof DEF TypeOK
  <2>2. disk' = [disk EXCEPT ![config.cache] =
                   [disk[config.cache] EXCEPT ![Dest(i)] = clone]]
    BY DEF To
  <2> QED
    BY <2>1, <2>2, Dirsof DEF TypeOK
<1>3. config' = config /\ Slots' = Slots
  BY DEF To, Slots
<1>4. UNCHANGED <<up, running, nested, remote, shown, scanned, counters>>
  BY DEF To
<1> QED
  BY <1>1, <1>2, <1>3, <1>4 DEF TypeOK, counters

LEMMA ToLocal ==
  ASSUME TypeOK, DestsDiffer, NEW i \in Slots, NEW phase, NEW clone, To(i, phase, clone),
         NEW j \in Slots
  PROVE  /\ Here(j)' = IF j = i THEN clone ELSE Here(j)
         /\ pc'[j] = IF j = i THEN phase ELSE pc[j]
<1>1. config' = config /\ Dest(j)' = Dest(j)
  BY DEF To, Dest
<1>2. disk[config.cache] \in [Dirs -> Clone] /\ Dest(i) \in Dirs /\ Dest(j) \in Dirs
  BY Dirsof DEF TypeOK
<1>3. disk'[config.cache] = [disk[config.cache] EXCEPT ![Dest(i)] = clone]
  BY Dirsof DEF To, TypeOK
<1>4. j # i => Dest(j) # Dest(i)
  BY DEF DestsDiffer
<1>5. Here(j)' = disk'[config.cache][Dest(j)]
  BY <1>1 DEF Here
<1>6. pc'[j] = IF j = i THEN phase ELSE pc[j]
  BY DEF To, TypeOK
<1> QED
  BY <1>2, <1>3, <1>4, <1>5, <1>6 DEF Here

LEMMA ToKeeps ==
  ASSUME GitIInv, NEW i \in Slots, NEW phase \in Phase, NEW clone \in Clone,
         phase # "done", running, Good(i, phase, clone), To(i, phase, clone)
  PROVE  GitIInv'
<1>1. TypeOK'
  BY ToTyping DEF GitIInv
<1>2. /\ config' = config /\ shown' = shown /\ remote' = remote /\ nested' = nested
      /\ running' = running /\ up' = up /\ scanned' = scanned
  BY DEF To
<1>3. Slots' = Slots /\ \A j : Url(j)' = Url(j) /\ Dest(j)' = Dest(j)
  BY <1>2, Placed
<1>4. \A j, c : Upstream(j, c)' = Upstream(j, c)
  BY <1>2, <1>3 DEF Upstream
<1>5. \A j, p, c : Good(j, p, c)' = Good(j, p, c)
  BY <1>2, <1>3, <1>4 DEF Good
<1>6. AllGood'
  <2>1. ASSUME NEW j \in Slots, Apart(j)
        PROVE  Good(j, pc'[j], Here(j)')
    <3>1. Good(j, pc[j], Here(j))
      BY <2>1 DEF GitIInv, AllGood
    <3>2. /\ Here(j)' = IF j = i THEN clone ELSE Here(j)
          /\ pc'[j] = IF j = i THEN phase ELSE pc[j]
      BY ToLocal DEF GitIInv
    <3> QED
      BY <3>1, <3>2
  <2>2. ASSUME NEW j \in Slots, Apart(j)'
        PROVE  Good(j, pc[j], Here(j))'
    <3>1. PICK p : p = pc'[j]
      OBVIOUS
    <3>2. PICK c : c = Here(j)'
      OBVIOUS
    <3>3. Apart(j)
      BY <1>2, <2>2, ApartStays
    <3>4. Good(j, p, c)'
      BY <1>5, <2>1, <3>1, <3>2, <3>3
    <3> QED
      BY <3>1, <3>2, <3>4 DEF Good
  <2> QED
    BY <1>2, <1>3, <2>2 DEF AllGood
<1>7. GitOrEmpty'
  <2>1. clone.git \/ clone = Empty
    BY DEF Good
  <2>2. disk' = [disk EXCEPT ![config.cache] =
                   [disk[config.cache] EXCEPT ![Dest(i)] = clone]]
    BY DEF To
  <2>3. disk \in [BOOLEAN -> [Dirs -> Clone]] /\ Dest(i) \in Dirs /\ config.cache \in BOOLEAN
    BY Dirsof DEF GitIInv, TypeOK
  <2>4. \A kept \in BOOLEAN, d \in Dirs :
          disk'[kept][d] = disk[kept][d] \/ disk'[kept][d] = clone
    BY <2>2, <2>3
  <2> QED
    BY <2>1, <2>4 DEF GitIInv, GitOrEmpty
<1>8. DestsDiffer'
  BY <1>2, Placed DEF GitIInv
<1>9. ShownNow' /\ DownIsIdle'
  BY <1>2 DEF GitIInv, ShownNow, DownIsIdle, Tip
<1>10. ScannedIsUpstream'
  <2>1. \A j \in Slots : pc'[j] = "done" => pc[j] = "done" /\ scanned'[j] = scanned[j]
    BY <1>2, ToLocal DEF GitIInv
  <2> QED
    BY <1>2, <2>1, ScannedStays
<1> QED
  BY <1>1, <1>6, <1>7, <1>8, <1>9, <1>10 DEF GitIInv

-----------------------------------------------------------------------------
(* The steps of a sync.                                                     *)

\* The tips of what is upstream have been shown.
LEMMA TipsUpstream ==
  ASSUME TypeOK, ShownNow, running, NEW i \in Slots,
         NEW b \in remote[Url(i)].live, b = remote[Url(i)].head \/ config.cache
  PROVE  Upstream(i, {Tip(Url(i), b)})
<1>1. <<Tip(Url(i), b), b = remote[Url(i)].head>> \in shown
  BY Dirsof DEF ShownNow
<1>2. Tip(Url(i), b).url = Url(i)
  BY DEF Tip
<1> QED
  BY <1>1, <1>2 DEF Upstream

LEMMA RemoteType ==
  ASSUME TypeOK, NEW u \in Urls
  PROVE  remote[u].head \in Branches /\ remote[u].live \subseteq Branches
BY DEF TypeOK

LEMMA HereGood ==
  ASSUME GitIInv, running, NEW i \in Slots, Apart(i)
  PROVE  Good(i, pc[i], Here(i)) /\ Here(i) \in Clone
BY HereType DEF GitIInv, AllGood

LEMMA SyncKeeps ==
  ASSUME GitIInv, NEW i \in Slots, Sync(i)
  PROVE  GitIInv'
<1>1. running /\ pc[i] = "waiting" /\ Apart(i)
  BY DEF Sync, At
<1>2. Good(i, pc[i], Here(i)) /\ Here(i) \in Clone
  BY <1>1, HereGood
<1>3. Good(i, SyncRepo(Here(i)), Here(i)) /\ SyncRepo(Here(i)) \in Phase
      /\ SyncRepo(Here(i)) # "done"
  <2>1. CASE Here(i).git
    <3>1. Here(i) # Empty
      BY <2>1 DEF Empty
    <3>2. config.cache /\ SyncRepo(Here(i)) = "set-url"
      BY <1>1, <1>2, <2>1, <3>1 DEF Good, SyncRepo
    <3> QED
      BY <2>1, <3>2 DEF Good, Phase
  <2>2. CASE ~Here(i).git
    <3>1. Here(i) = Empty /\ SyncRepo(Here(i)) = "clone"
      BY <1>2, <2>2 DEF Good, SyncRepo
    <3> QED
      BY <3>1 DEF Good, Phase
  <2> QED
    BY <2>1, <2>2
<1> QED
  BY <1>1, <1>2, <1>3, ToKeeps DEF Sync

LEMMA CloneKeeps ==
  ASSUME GitIInv, NEW i \in Slots, CloneRepo(i)
  PROVE  GitIInv'
<1>1. running /\ pc[i] = "clone" /\ Apart(i)
  BY DEF CloneRepo, At
<1>2. Here(i) = Empty
  BY <1>1, HereGood DEF Good
<1>3. To(i, "scan", Cloned(Url(i)))
  BY <1>2 DEF CloneRepo
<1>4. PICK u : u = Url(i)
  OBVIOUS
<1>5. u \in Urls /\ remote[u].head \in Branches /\ remote[u].head \in remote[u].live
  BY <1>4, Dirsof, RemoteType DEF GitIInv, ShownNow
<1>6. PICK commit : commit = Tip(u, remote[u].head)
  OBVIOUS
<1>7. commit \in Commit
  BY <1>5, <1>6, TipType DEF GitIInv
<1>8. Cloned(u) \in Clone /\ Cloned(u).git /\ Cloned(u).tree = {commit}
  BY <1>5, <1>6, <1>7 DEF Cloned, Clone
<1>9. Upstream(i, {commit})
  BY <1>1, <1>4, <1>5, <1>6, TipsUpstream DEF GitIInv
<1>10. Good(i, "scan", Cloned(u))
  BY <1>8, <1>9 DEF Good
<1> QED
  BY <1>1, <1>3, <1>4, <1>8, <1>10, ToKeeps DEF Phase

LEMMA FailedKeeps ==
  ASSUME GitIInv, NEW i \in Slots, running, Apart(i), To(i, "failed", Here(i))
  PROVE  GitIInv'
<1>1. Good(i, "failed", Here(i))
  BY HereGood DEF Good
<1> QED
  BY <1>1, HereGood, ToKeeps DEF Phase

LEMMA SetURLKeeps ==
  ASSUME GitIInv, NEW i \in Slots, SetURL(i)
  PROVE  GitIInv'
<1>1. running /\ pc[i] = "set-url" /\ Apart(i)
  BY DEF SetURL, At
<1>2. PICK clone : clone = Here(i)
  OBVIOUS
<1>3. Good(i, "set-url", clone) /\ clone \in Clone /\ Url(i) \in Urls
  BY <1>1, <1>2, HereGood, Dirsof DEF GitIInv
<1>4. CASE To(i, "failed", Here(i))
  BY <1>1, <1>4, FailedKeeps
<1>5. CASE To(i, "fetch", [clone EXCEPT !.origin = Url(i)])
  <2>1. PICK new : new = [clone EXCEPT !.origin = Url(i)]
    OBVIOUS
  <2>2. new \in Clone /\ new.git = clone.git /\ new.origin = Url(i)
    BY <1>3, <2>1 DEF Clone
  <2>3. Good(i, "fetch", new)
    BY <1>3, <2>2 DEF Good
  <2> QED
    BY <1>1, <1>5, <2>1, <2>2, <2>3, ToKeeps DEF Phase
<1> QED
  BY <1>2, <1>4, <1>5 DEF SetURL

LEMMA FetchKeeps ==
  ASSUME GitIInv, NEW i \in Slots, Fetch(i)
  PROVE  GitIInv'
<1>1. running /\ pc[i] = "fetch" /\ Apart(i)
  BY DEF Fetch, At
<1>2. PICK clone : clone = Here(i)
  OBVIOUS
<1>3. Good(i, "fetch", clone) /\ clone \in Clone /\ Url(i) \in Urls
  BY <1>1, <1>2, HereGood, Dirsof DEF GitIInv
<1>4. clone.origin = Url(i) /\ clone.git /\ config.cache
  BY <1>3 DEF Good
<1>5. PICK b : b = Fetches(clone)
  OBVIOUS
<1>6. CASE "shallow" \notin clone.locks /\ b \in remote[clone.origin].live
  <2>1. PICK commit : commit = Tip(clone.origin, b)
    OBVIOUS
  <2>2. To(i, "reset", [clone EXCEPT !.fetched = {commit}])
    BY <1>2, <1>5, <1>6, <2>1 DEF Fetch, AfterFetch
  <2>3. commit \in Commit
    BY <1>3, <1>4, <1>6, <2>1, TipType, RemoteType DEF GitIInv
  <2>4. Upstream(i, {commit})
    BY <1>1, <1>4, <1>6, <2>1, TipsUpstream DEF GitIInv
  <2>5. PICK new : new = [clone EXCEPT !.fetched = {commit}]
    OBVIOUS
  <2>6. /\ new \in Clone /\ new.git = clone.git /\ new.origin = clone.origin
        /\ new.fetched = {commit}
    BY <1>3, <2>3, <2>5 DEF Clone
  <2>7. Good(i, "reset", new)
    BY <1>4, <2>4, <2>6 DEF Good
  <2> QED
    BY <1>1, <2>2, <2>5, <2>6, <2>7, ToKeeps DEF Phase
<1>7. CASE ~("shallow" \notin clone.locks /\ b \in remote[clone.origin].live)
  <2>1. To(i, "failed", Here(i))
    BY <1>2, <1>5, <1>7 DEF Fetch, AfterFetch
  <2> QED
    BY <1>1, <2>1, FailedKeeps
<1> QED
  BY <1>6, <1>7

LEMMA ResetKeeps ==
  ASSUME GitIInv, NEW i \in Slots, Reset(i)
  PROVE  GitIInv'
<1>1. running /\ pc[i] = "reset" /\ Apart(i)
  BY DEF Reset, At
<1>2. PICK clone : clone = Here(i)
  OBVIOUS
<1>3. Good(i, "reset", clone) /\ clone \in Clone
  BY <1>1, <1>2, HereGood
<1>4. CASE To(i, "failed", Here(i))
  BY <1>1, <1>4, FailedKeeps
<1>5. CASE To(i, "scan", [clone EXCEPT !.tree = clone.fetched])
  <2>1. PICK new : new = [clone EXCEPT !.tree = clone.fetched]
    OBVIOUS
  <2>2. new \in Clone /\ new.git = clone.git /\ new.tree = clone.fetched
    BY <1>3, <2>1 DEF Clone
  <2>3. Good(i, "scan", new)
    BY <1>3, <2>2 DEF Good
  <2> QED
    BY <1>1, <1>5, <2>1, <2>2, <2>3, ToKeeps DEF Phase
<1> QED
  BY <1>2, <1>4, <1>5 DEF Reset

-----------------------------------------------------------------------------
(* The other steps.                                                         *)

LEMMA UpstreamGrows ==
  ASSUME config' = config, shown \subseteq shown', NEW j, NEW c, Upstream(j, c)
  PROVE  Upstream(j, c)'
<1>1. Url(j)' = Url(j)
  BY DEF Url
<1> QED
  BY <1>1 DEF Upstream

LEMMA GoodGrows ==
  ASSUME config' = config, shown \subseteq shown', NEW j, NEW p, NEW c, Good(j, p, c)
  PROVE  Good(j, p, c)'
<1>1. Url(j)' = Url(j)
  BY DEF Url
<1>2. \A x : Upstream(j, x) => Upstream(j, x)'
  BY UpstreamGrows
<1> QED
  BY <1>1, <1>2 DEF Good

\* A step that touches no clone and forgets nothing that was shown keeps what is
\* good of every sync that stays where it is, fails, is through or has no directory
\* to itself.
LEMMA SteadyGood ==
  ASSUME GitIInv, config' = config, disk' = disk, shown \subseteq shown',
         running' => running, nested[config.cache] => nested'[config.cache],
         \A j \in Slots : pc'[j] = pc[j] \/ pc'[j] \in {"failed", "done"} \/ ~Apart(j)'
  PROVE  AllGood'
<1> SUFFICES ASSUME running', NEW j \in Slots, Apart(j)'
             PROVE  Good(j, pc[j], Here(j))'
  BY Placed DEF AllGood
<1>1. PICK p : p = pc'[j]
  OBVIOUS
<1>2. PICK c : c = Here(j)
  OBVIOUS
<1>3. Apart(j) /\ Here(j)' = c
  BY <1>2, ApartStays, Placed DEF Here
<1>4. Good(j, p, c)'
  <2>1. CASE p = pc[j]
    BY <1>2, <1>3, <2>1, HereGood, GoodGrows
  <2>2. CASE p \in {"failed", "done"}
    <3>1. c.git \/ c = Empty
      BY <1>2, Dirsof DEF GitIInv, GitOrEmpty, Here
    <3> QED
      BY <2>2, <3>1 DEF Good
  <2> QED
    BY <1>1, <2>1, <2>2
<1> QED
  BY <1>1, <1>3, <1>4 DEF Good

LEMMA FixedParts ==
  ASSUME GitIInv, config' = config, disk' = disk, remote' = remote, shown' = shown,
         running' => running, up' = up
  PROVE  DestsDiffer' /\ GitOrEmpty' /\ ShownNow' /\ DownIsIdle'
<1>1. \A u, b : Tip(u, b)' = Tip(u, b)
  BY DEF Tip
<1> QED
  BY <1>1, Placed DEF GitIInv, GitOrEmpty, ShownNow, DownIsIdle

LEMMA NetworkKeeps ==
  ASSUME GitIInv, NEW i \in Slots, NetworkFails(i)
  PROVE  GitIInv'
<1>1. /\ config' = config /\ disk' = disk /\ shown' = shown /\ remote' = remote
      /\ running' = running /\ up' = up /\ scanned' = scanned /\ nested' = nested
  BY DEF NetworkFails
<1>2. pc' = [pc EXCEPT ![i] = "failed"]
  BY DEF NetworkFails, AfterFetch
<1>3. TypeOK'
  <2>1. pc' \in [Slots -> Phase]
    BY <1>2 DEF GitIInv, TypeOK, Phase
  <2>2. failures' \in Nat /\ stops' = stops /\ changes' = changes
    BY DEF GitIInv, TypeOK, NetworkFails
  <2> QED
    BY <1>1, <2>1, <2>2 DEF GitIInv, TypeOK, Slots
<1>4. \A j \in Slots : pc'[j] = IF j = i THEN "failed" ELSE pc[j]
  BY <1>2 DEF GitIInv, TypeOK
<1> QED
  BY <1>1, <1>3, <1>4, SteadyGood, ScannedStays, FixedParts DEF GitIInv

\* What is read in its own directory is the tree of its own clone.
LEMMA ReadsOwn ==
  ASSUME TypeOK, NEW i \in Slots, Apart(i), IsPrefix(Dest(i), ScanPath(i))
  PROVE  Reads(i) = Here(i).tree
<1>1. Dest(i) \in Dirs /\ ~Around(Dest(i)) /\ ~nested[config.cache]
  BY Dirsof DEF Apart
<1>2. Holding(ScanPath(i)) = {Dest(i)}
  BY <1>1, OneHolds DEF Holding
<1> QED
  BY <1>1, <1>2 DEF Reads, Here

LEMMA ReadsType ==
  ASSUME TypeOK, NEW i \in Slots
  PROVE  Reads(i) \in SUBSET (Commit \cup {Others})
<1>1. \A d \in Dirs : disk[config.cache][d].tree \subseteq Commit
  BY CacheIsBoolean DEF TypeOK, Clone
<1>2. Holding(ScanPath(i)) \subseteq Dirs
  BY DEF Holding
<1> QED
  BY <1>1, <1>2 DEF Reads

LEMMA ScanKeeps ==
  ASSUME GitIInv, NEW i \in Slots, Scan(i)
  PROVE  GitIInv'
<1>1. /\ config' = config /\ disk' = disk /\ shown' = shown /\ remote' = remote
      /\ running' = running /\ up' = up /\ counters' = counters /\ nested' = nested
      /\ running /\ pc[i] = "scan"
  BY DEF Scan
<1>2. pc' = [pc EXCEPT ![i] = "done"] /\ scanned' = [scanned EXCEPT ![i] = Reads(i)]
  BY DEF Scan
<1>3. TypeOK'
  <2>1. pc' \in [Slots -> Phase]
    BY <1>2 DEF GitIInv, TypeOK, Phase
  <2>2. scanned' \in [Slots -> SUBSET (Commit \cup {Others})]
    BY <1>2, ReadsType DEF GitIInv, TypeOK
  <2> QED
    BY <1>1, <2>1, <2>2 DEF GitIInv, TypeOK, Slots, counters
<1>4. \A j \in Slots : /\ pc'[j] = IF j = i THEN "done" ELSE pc[j]
                       /\ scanned'[j] = IF j = i THEN Reads(i) ELSE scanned[j]
  BY <1>2 DEF GitIInv, TypeOK
<1>5. Apart(i)' /\ IsPrefix(Dest(i), ScanPath(i)) => Upstream(i, Reads(i))
  <2> SUFFICES ASSUME Apart(i)', IsPrefix(Dest(i), ScanPath(i))
               PROVE  Upstream(i, Reads(i))
    OBVIOUS
  <2>1. Apart(i)
    BY <1>1, ApartStays
  <2>2. Upstream(i, Here(i).tree)
    BY <1>1, <2>1, HereGood DEF Good
  <2> QED
    BY <2>1, <2>2, ReadsOwn DEF GitIInv
<1>6. \A j \in Slots : pc'[j] = "done" =>
        \/ ~Apart(j)'
        \/ pc[j] = "done" /\ scanned'[j] = scanned[j]
        \/ IsPrefix(Dest(j), ScanPath(j)) => Upstream(j, scanned'[j])
  BY <1>4, <1>5
<1> QED
  BY <1>1, <1>3, <1>4, <1>6, SteadyGood, ScannedStays, FixedParts DEF GitIInv

LEMMA TurnsTyping ==
  ASSUME TypeOK, NEW i \in Slots, NEW phase \in Phase, Turns(i, phase),
         nested' \in [BOOLEAN -> BOOLEAN]
  PROVE  /\ TypeOK'
         /\ \A j \in Slots : pc'[j] = IF j = i THEN phase ELSE pc[j]
<1>1. pc' \in [Slots -> Phase]
  BY DEF TypeOK, Turns
<1>2. UNCHANGED <<up, config, running, disk, remote, shown, scanned, counters>>
  BY DEF Turns
<1>3. TypeOK'
  BY <1>1, <1>2 DEF TypeOK, Slots, counters
<1> QED
  BY <1>3 DEF TypeOK, Turns

\* Where one clone is around others no sync has its directory to itself.
LEMMA TurnsKeeps ==
  ASSUME GitIInv, NEW i \in Slots, NEW phase \in Phase \ {"done"}, Turns(i, phase),
         nested' \in [BOOLEAN -> BOOLEAN],
         nested[config.cache] => nested'[config.cache],
         phase = "failed" \/ nested'[config.cache]
  PROVE  GitIInv'
<1>1. /\ config' = config /\ disk' = disk /\ shown' = shown /\ remote' = remote
      /\ running' = running /\ up' = up /\ scanned' = scanned
  BY DEF Turns
<1>2. /\ TypeOK'
      /\ \A j \in Slots : pc'[j] = IF j = i THEN phase ELSE pc[j]
  BY TurnsTyping DEF GitIInv
<1>3. nested'[config.cache] => \A j : ~Apart(j)'
  BY <1>1 DEF Apart
<1> QED
  BY <1>1, <1>2, <1>3, SteadyGood, ScannedStays, FixedParts DEF GitIInv

LEMMA RefuseKeeps ==
  ASSUME GitIInv, NEW i \in Slots, Refuse(i)
  PROVE  GitIInv'
<1>1. Turns(i, "failed") /\ nested' = nested
  BY DEF Refuse
<1> QED
  BY <1>1, TurnsKeeps DEF GitIInv, TypeOK, Phase

LEMMA NestKeeps ==
  ASSUME GitIInv, NEW i \in Slots, Nest(i)
  PROVE  GitIInv'
<1>1. Turns(i, "scan") /\ nested' = [nested EXCEPT ![config.cache] = TRUE]
  BY DEF Nest
<1>2. nested' \in [BOOLEAN -> BOOLEAN] /\ nested'[config.cache]
  BY <1>1, CacheIsBoolean DEF GitIInv, TypeOK
<1> QED
  BY <1>1, <1>2, TurnsKeeps DEF Phase

LEMMA SyncNestedKeeps ==
  ASSUME GitIInv, NEW i \in Slots, SyncNested(i)
  PROVE  GitIInv'
<1>1. PICK phase \in {"scan", "failed"} : Turns(i, phase)
  BY DEF SyncNested
<1>2. nested[config.cache] /\ nested' = nested
  BY DEF SyncNested
<1> QED
  BY <1>1, <1>2, TurnsKeeps DEF GitIInv, TypeOK, Phase, Turns

LEMMA EndRunKeeps ==
  ASSUME GitIInv, EndRun
  PROVE  GitIInv'
<1>1. /\ config' = config /\ disk' = disk /\ shown' = shown /\ remote' = remote
      /\ ~running' /\ running' \in BOOLEAN /\ up' = up /\ counters' = counters
      /\ pc' = pc /\ scanned' = scanned /\ nested' = nested
  BY DEF EndRun
<1>2. TypeOK'
  BY <1>1 DEF GitIInv, TypeOK, Slots, counters
<1> QED
  BY <1>1, <1>2, SteadyGood, ScannedStays, FixedParts DEF GitIInv

LEMMA BeginRunKeeps ==
  ASSUME GitIInv, BeginRun
  PROVE  GitIInv'
<1>1. /\ config' = config /\ remote' = remote /\ up /\ up' = up /\ running' = TRUE
      /\ counters' = counters /\ shown' = Tips
      /\ pc' = [i \in Slots |-> "waiting"] /\ scanned' = [i \in Slots |-> {}]
      /\ disk' = [disk EXCEPT ![FALSE] = [d \in Dirs |-> Empty]]
      /\ nested' = [nested EXCEPT ![FALSE] = FALSE]
  BY DEF BeginRun
<1>2. disk \in [BOOLEAN -> [Dirs -> Clone]]
  BY DEF GitIInv, TypeOK
<1>3. Tips \in SUBSET (Commit \X BOOLEAN)
  <2>1. ASSUME NEW u \in Urls, NEW b \in remote[u].live
        PROVE  <<Tip(u, b), b = remote[u].head>> \in Commit \X BOOLEAN
    <3>1. Tip(u, b) \in Commit
      BY TipType, RemoteType DEF GitIInv
    <3>2. (b = remote[u].head) \in BOOLEAN
      OBVIOUS
    <3> QED
      BY <3>1, <3>2
  <2> QED
    BY <2>1 DEF Tips
<1>4. TypeOK'
  <2>1. disk' \in [BOOLEAN -> [Dirs -> Clone]]
    BY <1>1, <1>2, EmptyType
  <2>2. pc' \in [Slots -> Phase] /\ scanned' \in [Slots -> SUBSET (Commit \cup {Others})]
    BY <1>1 DEF Phase
  <2> QED
    BY <1>1, <1>3, <2>1, <2>2 DEF GitIInv, TypeOK, Slots, counters
<1>5. GitOrEmpty'
  BY <1>1, <1>2 DEF GitIInv, GitOrEmpty
<1>6. AllGood'
  <2>1. ASSUME NEW j \in Slots
        PROVE  Good(j, pc[j], Here(j))'
    <3>1. pc'[j] = "waiting"
      BY <1>1
    <3>2. Here(j)' = disk'[config.cache][Dest(j)]
      BY <1>1 DEF Here, Dest
    <3>3. PICK c : c = disk'[config.cache][Dest(j)]
      OBVIOUS
    <3>4. c.git \/ c = Empty
      BY <1>5, <3>3, Dirsof DEF GitIInv, GitOrEmpty
    <3>5. ~config.cache => c = Empty
      BY <1>1, <1>2, <3>3, Dirsof DEF GitIInv
    <3> QED
      BY <1>1, <3>1, <3>2, <3>3, <3>4, <3>5 DEF Good
  <2> QED
    BY <1>1, <2>1 DEF AllGood, Slots
<1>7. ShownNow'
  <2>1. \A u, b : Tip(u, b)' = Tip(u, b)
    BY <1>1 DEF Tip
  <2> QED
    BY <1>1, <2>1 DEF GitIInv, ShownNow, Tips
<1>8. DestsDiffer' /\ DownIsIdle'
  BY <1>1, Placed DEF GitIInv, DownIsIdle
<1>9. ScannedIsUpstream'
  BY <1>1 DEF ScannedIsUpstream, Slots
<1> QED
  BY <1>4, <1>5, <1>6, <1>7, <1>8, <1>9 DEF GitIInv

LEMMA BootKeeps ==
  ASSUME GitIInv, Boot
  PROVE  GitIInv'
<1>1. PICK c \in Files : /\ Accepted(c) /\ config' = c
                         /\ pc' = [i \in DOMAIN c.repos |-> "waiting"]
                         /\ scanned' = [i \in DOMAIN c.repos |-> {}]
  BY DEF Boot
<1>2. /\ ~running /\ up' = TRUE /\ running' = running /\ disk' = disk
      /\ remote' = remote /\ shown' = shown /\ counters' = counters
      /\ nested' = nested
  BY DEF Boot, GitIInv, DownIsIdle
<1>3. Slots' = DOMAIN c.repos
  BY <1>1 DEF Slots
<1>4. TypeOK'
  <2>1. pc' \in [Slots' -> Phase] /\ scanned' \in [Slots' -> SUBSET (Commit \cup {Others})]
    BY <1>1, <1>3 DEF Phase
  <2> QED
    BY <1>1, <1>2, <2>1 DEF GitIInv, TypeOK, counters
<1>5. DestsDiffer'
  BY <1>1, AcceptedDiffer DEF DestsDiffer, Dest, Slots
<1>6. AllGood' /\ DownIsIdle' /\ GitOrEmpty' /\ ShownNow'
  BY <1>2 DEF GitIInv, AllGood, DownIsIdle, GitOrEmpty, ShownNow
<1>7. ScannedIsUpstream'
  BY <1>1, <1>3 DEF ScannedIsUpstream
<1> QED
  BY <1>4, <1>5, <1>6, <1>7 DEF GitIInv

LEMMA ChangeKeeps ==
  ASSUME GitIInv, NEW u \in Urls, Change(u)
  PROVE  GitIInv'
<1>1. /\ UNCHANGED <<up, config, running, pc>>
      /\ disk' = disk /\ scanned' = scanned /\ shown' = shown \cup Tips'
      /\ nested' = nested
      /\ stops' = stops /\ failures' = failures /\ changes' = changes + 1
  BY DEF Change, procVars
<1>2. PICK b \in Branches, head \in Branches, live \in SUBSET Branches :
        /\ head \in {remote[u].head, b}
        /\ \/ live = remote[u].live \cup {b}
           \/ /\ head # remote[u].head
              /\ live = (remote[u].live \ {remote[u].head}) \cup {b}
        /\ remote' = [remote EXCEPT ![u] =
             [head |-> head, live |-> live, tip |-> [remote[u].tip EXCEPT ![b] = @ + 1]]]
  BY DEF Change
<1>3. remote' \in [Urls -> [head : Branches, live : SUBSET Branches,
                            tip : [Branches -> Nat \ {0}]]]
  <2>1. remote[u].tip \in [Branches -> Nat \ {0}]
    BY DEF GitIInv, TypeOK
  <2>2. [remote[u].tip EXCEPT ![b] = @ + 1] \in [Branches -> Nat \ {0}]
    BY <2>1
  <2> QED
    BY <1>2, <2>2 DEF GitIInv, TypeOK
<1>4. Tips' \in SUBSET (Commit \X BOOLEAN)
  <2>1. ASSUME NEW v \in Urls, NEW x \in remote'[v].live
        PROVE  <<Tip(v, x)', x = remote'[v].head>> \in Commit \X BOOLEAN
    <3>1. x \in Branches
      BY <1>3, <2>1
    <3>2. Tip(v, x)' \in Commit
      BY <1>3, <3>1 DEF Tip, Commit
    <3>3. (x = remote'[v].head) \in BOOLEAN
      OBVIOUS
    <3> QED
      BY <3>2, <3>3
  <2>2. Tips' = UNION {{<<Tip(v, x)', x = remote'[v].head>> : x \in remote'[v].live} : v \in Urls}
    BY DEF Tips, Tip
  <2> QED
    BY <2>1, <2>2
<1>5. TypeOK'
  BY <1>1, <1>3, <1>4 DEF GitIInv, TypeOK, Slots
<1>6. ShownNow'
  <2>1. \A v \in Urls : remote'[v].head \in remote'[v].live
    <3>1. head \in live
      BY <1>2 DEF GitIInv, ShownNow
    <3>2. remote \in [Urls -> [head : Branches, live : SUBSET Branches,
                               tip : [Branches -> Nat \ {0}]]]
      BY DEF GitIInv, TypeOK
    <3>3. /\ remote'[u].head = head /\ remote'[u].live = live
          /\ \A v \in Urls \ {u} : remote'[v] = remote[v]
      BY <1>2, <3>2
    <3> QED
      BY <3>1, <3>3 DEF GitIInv, ShownNow
  <2>2. \A v \in Urls : \A x \in remote'[v].live :
          <<Tip(v, x)', x = remote'[v].head>> \in Tips'
    BY DEF Tips, Tip
  <2> QED
    BY <1>1, <2>1, <2>2 DEF ShownNow, Tip
<1>7. AllGood' /\ ScannedIsUpstream'
  BY <1>1, SteadyGood, ScannedStays
<1>8. DestsDiffer' /\ GitOrEmpty' /\ DownIsIdle'
  BY <1>1, Placed DEF GitIInv, GitOrEmpty, DownIsIdle
<1> QED
  BY <1>5, <1>6, <1>7, <1>8 DEF GitIInv

\* What a killed command leaves is a clone, or an empty directory.
LEMMA PartialClones ==
  ASSUME GitIInv, NEW i \in Slots, NEW left \in Partial(i)
  PROVE  left \in Clone /\ (left.git \/ left = Empty)
<1>1. PICK clone : clone = Here(i)
  OBVIOUS
<1>2. clone \in Clone /\ (clone.git \/ clone = Empty)
  BY <1>1, HereType, Dirsof DEF GitIInv, GitOrEmpty, Here
<1>3. PICK head : head = remote[Url(i)].head
  OBVIOUS
<1>4. head \in Branches /\ Url(i) \in Urls
  BY <1>3, Dirsof, RemoteType DEF GitIInv
<1>5. CASE left = clone
  BY <1>2, <1>5
<1>6. CASE At(i, "clone") /\ left # clone
  <2> DEFINE begun(origin, branch, locks) ==
               [Empty EXCEPT !.git = TRUE, !.origin = origin, !.branch = branch,
                             !.locks = locks]
  <2>1. left \in {begun(None, None, {}), begun(Url(i), None, {"config"}),
                  begun(Url(i), None, {"shallow"}), begun(Url(i), None, {}),
                  begun(Url(i), head, {"index"}), begun(Url(i), head, {})}
    BY <1>1, <1>3, <1>6 DEF Partial, At
  <2>2. ASSUME NEW origin \in Urls \cup {None}, NEW branch \in Branches \cup {None},
               NEW locks \in SUBSET {"config", "shallow", "index"}
        PROVE  begun(origin, branch, locks) \in Clone /\ begun(origin, branch, locks).git
    BY DEF Empty, Clone
  <2> HIDE DEF begun
  <2> QED
    BY <1>4, <2>1, <2>2
<1>7. CASE ~At(i, "clone") /\ left # clone
  <2>1. /\ At(i, "set-url") \/ At(i, "fetch") \/ At(i, "reset")
        /\ \/ \E lock \in {"config", "shallow"} :
                left = [clone EXCEPT !.locks = @ \cup {lock}]
           \/ left = [[clone EXCEPT !.locks = @ \cup {"index"}]
                        EXCEPT !.tree = @ \cup clone.fetched]
           \/ left = [clone EXCEPT !.origin = Url(i)]
           \/ left = [clone EXCEPT !.tree = clone.fetched]
    BY <1>1, <1>7 DEF Partial, At
  <2>2. clone.git
    BY <1>1, <2>1, HereGood DEF At, Good
  <2> QED
    BY <1>2, <1>4, <2>1, <2>2 DEF Clone
<1> QED
  BY <1>5, <1>6, <1>7

LEMMA StopKeeps ==
  ASSUME GitIInv, Stop
  PROVE  GitIInv'
<1>1. /\ config' = config /\ remote' = remote /\ up' = FALSE /\ running' = FALSE
      /\ stops' = stops + 1 /\ failures' = failures /\ changes' = changes /\ shown' = {}
      /\ pc' = [i \in Slots |-> "waiting"] /\ scanned' = [i \in Slots |-> {}]
      /\ nested' = nested
  BY DEF Stop
<1>2. PICK left : /\ left \in [Dirs -> UNION {Left(d) : d \in Dirs}]
                  /\ \A d \in Dirs : left[d] \in Left(d)
                  /\ disk' = [disk EXCEPT ![config.cache] = left]
  BY DEF Stop
<1>3. ASSUME NEW d \in Dirs
      PROVE  left[d] \in Clone /\ (left[d].git \/ left[d] = Empty)
  <2>1. PICK l : l = left[d]
    OBVIOUS
  <2>2. l \in Left(d)
    BY <1>2, <2>1
  <2>3. CASE \E i \in Slots : Dest(i) = d
    <3>1. PICK i \in Slots : l \in Partial(i)
      BY <2>2, <2>3 DEF Left
    <3> QED
      BY <2>1, <3>1, PartialClones
  <2>4. CASE ~\E i \in Slots : Dest(i) = d
    <3>1. l = disk[config.cache][d]
      BY <2>2, <2>4 DEF Left
    <3> QED
      BY <2>1, <3>1, CacheIsBoolean DEF GitIInv, TypeOK, GitOrEmpty
  <2> QED
    BY <2>3, <2>4
<1>4. left \in [Dirs -> Clone]
  BY <1>2, <1>3
<1>5. disk' \in [BOOLEAN -> [Dirs -> Clone]] /\ GitOrEmpty'
  <2>1. disk \in [BOOLEAN -> [Dirs -> Clone]] /\ config.cache \in BOOLEAN
    BY CacheIsBoolean DEF GitIInv, TypeOK
  <2>2. \A kept \in BOOLEAN :
          disk'[kept] = IF kept = config.cache THEN left ELSE disk[kept]
    BY <1>2, <2>1
  <2>3. GitOrEmpty'
    BY <1>3, <2>2 DEF GitIInv, GitOrEmpty
  <2> QED
    BY <1>2, <1>4, <2>1, <2>3
<1>6. TypeOK'
  <2>1. pc' \in [Slots -> Phase] /\ scanned' \in [Slots -> SUBSET (Commit \cup {Others})]
    BY <1>1 DEF Phase
  <2>2. up' \in BOOLEAN /\ running' \in BOOLEAN
    BY <1>1
  <2>3. Slots' = Slots /\ config' \in Files /\ nested' \in [BOOLEAN -> BOOLEAN]
        /\ shown' \in SUBSET (Commit \X BOOLEAN)
        /\ stops' \in Nat /\ failures' \in Nat /\ changes' \in Nat
    BY <1>1 DEF GitIInv, TypeOK, Slots
  <2>4. remote' \in [Urls -> [head : Branches, live : SUBSET Branches,
                              tip : [Branches -> Nat \ {0}]]]
    BY <1>1 DEF GitIInv, TypeOK
  <2> QED
    BY <1>5, <2>1, <2>2, <2>3, <2>4 DEF TypeOK
<1>7. DestsDiffer' /\ AllGood' /\ ShownNow' /\ DownIsIdle'
  BY <1>1, Placed DEF GitIInv, AllGood, ShownNow, DownIsIdle
<1>8. ScannedIsUpstream'
  BY <1>1 DEF ScannedIsUpstream, Slots
<1> QED
  BY <1>5, <1>6, <1>7, <1>8 DEF GitIInv

LEMMA StutterKeeps ==
  ASSUME GitIInv, UNCHANGED vars
  PROVE  GitIInv'
<1>1. /\ config' = config /\ disk' = disk /\ shown' = shown /\ remote' = remote
      /\ running' = running /\ up' = up /\ counters' = counters
      /\ pc' = pc /\ scanned' = scanned /\ nested' = nested
  BY DEF vars, procVars
<1>2. TypeOK'
  BY <1>1 DEF GitIInv, TypeOK, Slots, counters
<1> QED
  BY <1>1, <1>2, SteadyGood, ScannedStays, FixedParts DEF GitIInv

-----------------------------------------------------------------------------
(* The theorems.                                                            *)

LEMMA GitInit ==
  Init => GitIInv
<1> SUFFICES ASSUME Init
             PROVE  GitIInv
  OBVIOUS
<1>1. /\ up = TRUE /\ running = FALSE /\ config \in Files /\ Accepted(config)
      /\ pc = [i \in Slots |-> "waiting"] /\ scanned = [i \in Slots |-> {}]
      /\ disk = [kept \in BOOLEAN |-> [d \in Dirs |-> Empty]] /\ shown = {}
  BY DEF Init
<1>2. PICK b : b = CHOOSE x \in Branches : TRUE
  OBVIOUS
<1>3. remote = [u \in Urls |-> [head |-> b, live |-> {b}, tip |-> [x \in Branches |-> 1]]]
  BY <1>2 DEF Init
<1>4. b \in Branches
  BY <1>2, SomeBranch
<1>5. TypeOK
  <2>1. remote \in [Urls -> [head : Branches, live : SUBSET Branches,
                             tip : [Branches -> Nat \ {0}]]]
    BY <1>3, <1>4
  <2>2. disk \in [BOOLEAN -> [Dirs -> Clone]]
    BY <1>1, EmptyType
  <2>3. stops \in Nat /\ failures \in Nat /\ changes \in Nat
    BY DEF Init
  <2> QED
    BY <1>1, <2>1, <2>2, <2>3 DEF TypeOK, Phase, Init
<1>6. DestsDiffer
  BY <1>1, AcceptedDiffer DEF DestsDiffer, Dest, Slots
<1>7. GitOrEmpty /\ AllGood /\ DownIsIdle
  BY <1>1 DEF GitOrEmpty, AllGood, DownIsIdle
<1>8. ShownNow
  BY <1>1, <1>3 DEF ShownNow
<1>9. ScannedIsUpstream
  BY <1>1 DEF ScannedIsUpstream
<1> QED
  BY <1>5, <1>6, <1>7, <1>8, <1>9 DEF GitIInv

LEMMA GitStep ==
  GitIInv /\ [Next]_vars => GitIInv'
<1> SUFFICES ASSUME GitIInv, [Next]_vars
             PROVE  GitIInv'
  OBVIOUS
<1>1. ASSUME NEW i \in Slots, Step(i) \/ NetworkFails(i)
      PROVE  GitIInv'
  BY <1>1, SyncKeeps, CloneKeeps, SetURLKeeps, FetchKeeps, ResetKeeps, ScanKeeps,
     RefuseKeeps, NestKeeps, SyncNestedKeeps, NetworkKeeps DEF Step
<1>2. ASSUME NEW u \in Urls, Change(u)
      PROVE  GitIInv'
  BY <1>2, ChangeKeeps
<1> QED
  BY <1>1, <1>2, BootKeeps, BeginRunKeeps, EndRunKeeps, StopKeeps, StutterKeeps DEF Next

\* The types; directories none of which is in another, but for those of the names
\* "." and ".."; wherever a sync has its directory to itself, at every command what
\* it needs; and whatever is killed, a directory that is empty or a clone
\* (config.go:76, runner.go:69, :261).
THEOREM SyncsAreExact == Spec => []GitInv
<1>1. GitIInv => GitInv
  <2> SUFFICES ASSUME GitIInv
               PROVE  GitInv
    OBVIOUS
  <2>1. SyncExact
    BY DEF GitIInv, AllGood, Good, SyncExact
  <2>2. CleanStart
    BY DEF GitIInv, AllGood, GitOrEmpty, Good, CleanStart
  <2>3. DirsApart
    BY DestsAreApart DEF GitIInv
  <2> QED
    BY <2>1, <2>2, <2>3 DEF GitIInv, GitInv
<1> QED
  BY <1>1, GitInit, GitStep, PTL DEF Spec

\* What is scanned at a path that stays in the repository's directory is one commit
\* that the configured URL had during the Run, whatever the directory held before,
\* unless a clone is around that directory (runner.go:80, :280).
THEOREM ScansAreUpstream == Spec => []ScannedIsUpstream
<1>1. GitIInv => ScannedIsUpstream
  BY DEF GitIInv
<1> QED
  BY <1>1, GitInit, GitStep, PTL DEF Spec
=============================================================================
