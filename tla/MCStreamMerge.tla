--------------------------- MODULE MCStreamMerge ---------------------------
(* Instance of StreamMerge for TLC.                                        *)
EXTENDS StreamMerge, TLC

Line(t, s, n, url, id, logo, group) ==
  [title |-> t, src |-> s, num |-> n, url |-> url, id |-> id, group |-> group,
   logo |-> IF logo = "none" THEN None ELSE 20 * s + n, auto |-> logo = "auto"]

(* Three sources carry "a": source 10 twice with the same URL, once under  *)
(* the name "c", source 1 spelled "A"; "b" fills the buffer, and a second  *)
(* "a" of source 2 is excluded by its group. A source that gives ids has   *)
(* its own.                                                                *)
Logos == {<<"auto", "given", "none">>, <<"none", "auto", "given">>}
MCInputs ==
  {{Line("a", 2, 1, 21, 2, l[1], None), Line("a", 2, 4, 24, None, "none", 9),
    Line("c", 10, 1, 31, 10, "none", None), Line("a", 10, 2, 31, None, l[2], None),
    Line("A", 1, 5, 15, i, l[3], 3), Line("b", 1, 6, 16, 1, "none", None)} :
     i \in {None, 1}, l \in Logos}

MCKey == "a" :> "a" @@ "A" :> "a" @@ "b" :> "b" @@ "c" :> "c"
MCRank == 1 :> 1 @@ 10 :> 2 @@ 2 :> 3
MCMerges == "c" :> "a"
MCRules == {[titles |-> {"b"}, sources |-> {1}]}
MCStale == {[title |-> "a", src |-> 1, url |-> 31, num |-> 9, whole |-> TRUE]}
MCPrefixed == {<<1, 10>>}
=============================================================================
