----------------------------- MODULE MCGitSync -----------------------------
(***************************************************************************)
(* Instance of GitSync for TLC: two repositories that may trade their URLs *)
(* between processes, be kept or not; two whose names differ only in a     *)
(* character that is not kept; one whose clone is, or would be, around     *)
(* theirs; and paths within a clone, into another and out of them all.     *)
(***************************************************************************)
EXTENDS GitSync

MCUrls     == {"u1", "u2"}
MCBranches == {"main", "trunk"}
MCSafe     == {"a", "-", "."}

At1(name, path) == [name |-> name, url |-> "u1", path |-> path]
At2(name, path) == [name |-> name, url |-> "u2", path |-> path]
Whole   == <<>>
Inside  == <<<<"a">>>>
Sibling == <<Up, <<"-">>>>
Outside == <<Up, Up>>
MCFiles ==
  {[repos |-> <<At1(<<"a">>, Inside), At2(<<"-">>, Whole)>>, cache |-> TRUE],
   [repos |-> <<At1(<<"a">>, Sibling), At2(<<"-">>, Outside)>>, cache |-> FALSE],
   [repos |-> <<At2(<<"a">>, Whole)>>, cache |-> TRUE],
   [repos |-> <<At1(Dot, Whole)>>, cache |-> TRUE],
   [repos |-> <<At1(Up, Whole)>>, cache |-> FALSE],
   [repos |-> <<At1(<<"/">>, Whole), At2(<<"-">>, Whole)>>, cache |-> TRUE],
   [repos |-> <<>>, cache |-> TRUE]}
=============================================================================
