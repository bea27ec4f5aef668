----------------------------- MODULE MCDiscovery -----------------------------
(* Two jobs with an override to prune; two jobs with the same id, one of   *)
(* them by default; a job with an underscore in its id beside one with a   *)
(* bad start URL; a list that cannot be parsed, and one without a job.     *)
EXTENDS Discovery, TLC

MCUpper == ("two" :> "TWO") @@ ("1" :> "1") @@ ("2" :> "2") @@ ("my_1" :> "MY_1")
MCPrefix == ("TWO" :> "TWO") @@ ("1" :> "1") @@ ("2" :> "2") @@ ("MY_1" :> "MY")
          @@ ("OLD" :> "OLD")
MCDefaultID == <<"1", "2">>

MCFinal == ("a" :> "a") @@ ("b" :> "b") @@ ("page" :> "a2") @@ ("a2" :> "a2")
MCHash == ("a" :> "h1") @@ ("b" :> "h2") @@ ("page" :> "h3") @@ ("a2" :> "h1")

MCOverrides == (<<"TWO", "h1">> :> FALSE) @@ (<<"OLD", "h1">> :> FALSE)
               @@ (<<"MY_1", "h1">> :> FALSE) @@ (<<"2", "h2">> :> TRUE)

J(id, start, max) == [valid |-> TRUE, id |-> id, enabled |-> TRUE, start |-> start,
                      follow |-> TRUE, max |-> max]

MCConfigs == {
  <<J("two", "http", 2), J("", "http", 1)>>,
  <<J("2", "http", 1), J("", "http", 1)>>,
  <<J("my_1", "http", 0), J("", "ftp", 1)>>,
  <<[J("1", "http", 1) EXCEPT !.valid = FALSE]>>,
  <<[J("1", "http", 1) EXCEPT !.enabled = FALSE], J("", "", 1)>>}
=============================================================================
