------------------------------- MODULE MCTasks --------------------------------
(* Small instances of the background tasks, as docker-compose deploys them: *)
(* the rendition worker has one process, the other as many as processors.  *)
EXTENDS BackgroundTasks, TLC
CONSTANTS w1, w2, w3

Deployed == w1 :> "celery" @@ w2 :> "celery" @@ w3 :> "renditions"
AnyLoss  == {"celery", "renditions"} \X {"node", "child", "visibility"}
=============================================================================
