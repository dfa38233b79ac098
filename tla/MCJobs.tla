-------------------------------- MODULE MCJobs ---------------------------------
(* Two jobs that meet on two documents, the second one signed.             *)
EXTENDS DocumentJobs

BothCelery == [w \in Worker |-> "celery"]
Losses == {"celery"} \X {"node", "child", "visibility"}

Stored(title) == [Fresh(title, "old") EXCEPT !.versions = {1}]
Pair == <<[Stored(<<"plan">>) EXCEPT !.acl = TRUE], [Stored(<<"note">>) EXCEPT !.signed = TRUE]>>

Job(type, items, parameter) == [job_type |-> type, items |-> items, parameter |-> parameter]
Listed(title, n, content, acl) ==
  [title |-> title, metadata |-> "new", version |-> n, content |-> content, acl |-> acl]
Plan  == Listed(<<"plan">>, 2, TRUE, FALSE)
Known == <<Plan, Listed(<<"note">>, 1, FALSE, TRUE)>>
News  == <<Plan, Listed(<<"memo">>, 1, FALSE, TRUE)>>

Forth == <<[id |-> 1], [id |-> 2]>>
Back  == <<[id |-> 2], [id |-> 1]>>
Meeting ==
  <<Job("delete", Forth, ""), Job("lifecycle", Back, "review"), Job("update", Back, "new"),
   Job("update", <<[id |-> 1]>>, Overlong), Job("export", Forth, ""),
   Job("import", Known, "skip"), Job("import", News, "overwrite"),
   Job("import", News, "rename")>>
================================================================================
