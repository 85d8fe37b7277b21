----------------------------- MODULE MCRuntime -----------------------------
(***************************************************************************)
(* The small concurrent parts that work behind the services: the ingestion *)
(* pool, the periodic job scheduler, the backpressure gate, the batch      *)
(* writer and the snapshot file.  They share no state, so a behaviour here *)
(* is a behaviour of one of them, chosen at the start, with the others     *)
(* where they begin.                                                       *)
(***************************************************************************)
EXTENDS MCIngestPool, JobScheduler, BackpressureGate, BatchWriter, SnapshotFile

VARIABLE part   \* the part that runs

partVars == <<part, vars, schedVars, gateVars, writerVars, fileVars>>

MCInit == /\ Init /\ SchedInit /\ GateInit /\ WriterInit /\ FileInit
          /\ part \in {"pool", "scheduler", "gate", "writer", "file"}

MCNext ==
  /\ UNCHANGED part
  /\ \/ part = "pool" /\ Next /\ UNCHANGED <<schedVars, gateVars, writerVars, fileVars>>
     \/ part = "scheduler" /\ SchedNext /\ UNCHANGED <<vars, gateVars, writerVars, fileVars>>
     \/ part = "gate" /\ GateNext /\ UNCHANGED <<vars, schedVars, writerVars, fileVars>>
     \/ part = "writer" /\ WriterNext /\ UNCHANGED <<vars, schedVars, gateVars, fileVars>>
     \/ part = "file" /\ FileNext /\ UNCHANGED <<vars, schedVars, gateVars, writerVars>>

\* The fairness of IngestPool and of JobScheduler, which asks nothing while
\* another part runs; of the gate and the writer nothing is enabled then.
PoolFair == \A c \in Calls :
              /\ WF_vars(part = "pool" /\ Main(c))
              /\ \A w \in Pool : WF_vars(part = "pool" /\ Work(c, w))

PartFair ==
  \A s \in Starters :
    /\ WF_schedVars(part = "scheduler" /\ (Claim(s) \/ Round(s) \/ RoundOver(s) \/ Leave(s)))
    /\ WF_schedVars(Tick(s))
    /\ WF_schedVars(SelectTick(s))
    /\ SF_schedVars(SelectDone(s))
    /\ \A j \in Jobs : WF_schedVars(JobReturns(s, j))

MCSpec == /\ MCInit /\ [][MCNext]_partVars
          /\ PoolFair /\ PartFair /\ GateFair /\ WriterFair

-----------------------------------------------------------------------------

\* IngestReturns of the pool: every call of Ingest returns, cancelled or not.
PoolReturns == part = "pool" => IngestReturns

=============================================================================
