----------------------------- MODULE MCTaskQueue -----------------------------
(***************************************************************************)
(* Model-checking instance of TaskQueue.                                   *)
(***************************************************************************)
EXTENDS TaskQueue, TLC

CONSTANTS index, analyse, clean,  \* tasks
          ix, an1, an2,           \* workers
          p1, p2, p3              \* their processes

MCModuleOf == index :> "indexing_tasks" @@ analyse :> "analysis_tasks"
              @@ clean :> "maintenance_tasks"

MCServiceOf == ix :> "celery-indexing" @@ an1 :> "celery-analysis"
               @@ an2 :> "celery-analysis"

MCHomeOf == p1 :> ix @@ p2 :> an1 @@ p3 :> an2
=============================================================================
