------------------------- MODULE WorkerThreadGroup -------------------------
(***************************************************************************)
(* The worker threads of include/worker_thread_group.h and the user thread *)
(* that drives them through include/graph_sketch_driver.h: ingest a piece  *)
(* of the stream, flush and pause the workers, query, resume, shut down.   *)
(*                                                                         *)
(* The worker flags do_pause, paused and shutdown are plain bools that the *)
(* user thread writes without holding flush_lock; every such write is a    *)
(* step of its own.  The guttering system is external (GutterTree          *)
(* repository): a gutter of GutterCap updates and a work queue of QueueCap *)
(* nodes, modelled from the calls insert, force_flush, get_data,           *)
(* get_data_callback and set_non_block.                                    *)
(***************************************************************************)
EXTENDS Naturals, FiniteSets

CONSTANTS
  Worker,           \* the worker threads
  Update,           \* the updates, numbered as they reach the gutters
  GutterCap,        \* updates the gutter holds before it becomes a node
  QueueCap,         \* nodes of the work queue
  MaxFlush,         \* bound: calls of flush_workers in a behaviour
  SpuriousWakeups,  \* may a condition-variable wait return unnotified?
  Free              \* flush_lock has no holder

ASSUME WorkerAssumption == /\ IsFiniteSet(Worker)
                           /\ Worker # {}   \* DriverConfiguration::worker_threads
                           /\ Free \notin Worker
ASSUME UpdateAssumption == Update \subseteq Nat
ASSUME BoundAssumption == /\ GutterCap \in Nat \ {0}
                          /\ QueueCap \in Nat \ {0}
                          /\ MaxFlush \in Nat
                          /\ SpuriousWakeups \in BOOLEAN

VARIABLES
  wpc,         \* wpc[w]: where worker w is in do_work
  mpc,         \* where the user thread is in the driver
  todo,        \* workers the user thread's current loop still has to visit
  do_pause, paused, shutdown,   \* the flags of each WorkerThread
  flush_lock,  \* holder of the mutex, or Free
  waiters,     \* workers blocked on flush_condition and not yet notified
  non_block,   \* set_non_block: get_data does not wait on an empty queue
  unread,      \* updates the stream has not delivered yet
  gutter,      \* updates buffered in the gutters
  queue,       \* nodes (sets of updates) of the work queue
  node,        \* node[w]: the DataNode worker w is working on, or {}
  applied,     \* applied[u]: how often update u reached the sketches
  flushes      \* calls of flush_workers so far

flags == <<do_pause, paused, shutdown>>
sync  == <<flush_lock, waiters>>
data  == <<unread, gutter, queue, node, applied>>
vars  == <<wpc, mpc, todo, flags, sync, non_block, data, flushes>>

WorkerPC == {"get_data", "batches", "invalid", "check_pause", "lock", "pred",
             "block", "wait", "notify", "exit"}
MainPC   == {"user", "resume", "resume_notify", "stream", "force_flush",
             "set_non_block", "pause", "flush", "query", "cached_query",
             "stop", "stop_notify", "join", "end"}

\* The stretch of do_work in which a worker counts as paused.
Pausing == {"pred", "block", "wait"}

TypeOK ==
  /\ wpc \in [Worker -> WorkerPC]
  /\ mpc \in MainPC
  /\ todo \subseteq Worker
  /\ do_pause \in [Worker -> BOOLEAN]
  /\ paused \in [Worker -> BOOLEAN]
  /\ shutdown \in [Worker -> BOOLEAN]
  /\ flush_lock \in Worker \cup {Free}
  /\ waiters \subseteq Worker
  /\ non_block \in BOOLEAN
  /\ unread \subseteq Update
  /\ gutter \subseteq Update
  /\ queue \subseteq SUBSET Update
  /\ node \in [Worker -> SUBSET Update]
  /\ applied \in [Update -> Nat]
  /\ flushes \in Nat

Init ==
  /\ wpc = [w \in Worker |-> "get_data"]
  /\ mpc = "user"
  /\ todo = {}
  /\ do_pause = [w \in Worker |-> FALSE]
  /\ paused = [w \in Worker |-> FALSE]
  /\ shutdown = [w \in Worker |-> FALSE]
  /\ flush_lock = Free
  /\ waiters = {}
  /\ non_block = FALSE
  /\ unread = Update
  /\ gutter = {}
  /\ queue = {}
  /\ node = [w \in Worker |-> {}]
  /\ applied = [u \in Update |-> 0]
  /\ flushes = 0

-----------------------------------------------------------------------------
(* WorkerThread::do_work *)

WorkerGoto(w, from, to) ==
  /\ wpc[w] = from
  /\ wpc' = [wpc EXCEPT ![w] = to]

\* Mutant of GetData: the node handed out stays in the queue.
GetDataKeepsNode(w) ==
  /\ \/ \E n \in queue :
          /\ node' = [node EXCEPT ![w] = n]
          /\ WorkerGoto(w, "get_data", "batches")
     \/ /\ queue = {} /\ non_block
        /\ WorkerGoto(w, "get_data", "invalid")
        /\ UNCHANGED node
  /\ UNCHANGED <<mpc, todo, flags, sync, non_block, unread, gutter, queue, applied, flushes>>

\* gts->get_data: a node if there is one, else wait, unless non_block is set.
GetData(w) ==
  /\ \/ \E n \in queue :
          /\ queue' = queue \ {n}
          /\ node' = [node EXCEPT ![w] = n]
          /\ WorkerGoto(w, "get_data", "batches")
     \/ /\ queue = {} /\ non_block
        /\ WorkerGoto(w, "get_data", "invalid")
        /\ UNCHANGED <<queue, node>>
  /\ UNCHANGED <<mpc, todo, flags, sync, non_block, unread, gutter, applied, flushes>>

\* driver->batch_callback on every batch of the node, then
\* gts->get_data_callback, which hands the node back to the queue.
ApplyBatches(w) ==
  /\ WorkerGoto(w, "batches", "get_data")
  /\ applied' = [u \in Update |-> IF u \in node[w] THEN applied[u] + 1 ELSE applied[u]]
  /\ node' = [node EXCEPT ![w] = {}]
  /\ UNCHANGED <<mpc, todo, flags, sync, non_block, unread, gutter, queue, flushes>>

CheckShutdown(w) ==
  /\ WorkerGoto(w, "invalid", IF shutdown[w] THEN "exit" ELSE "check_pause")
  /\ UNCHANGED <<mpc, todo, flags, sync, non_block, data, flushes>>

CheckPause(w) ==
  /\ WorkerGoto(w, "check_pause", IF do_pause[w] THEN "lock" ELSE "get_data")
  /\ UNCHANGED <<mpc, todo, flags, sync, non_block, data, flushes>>

\* Take flush_lock, announce the pause and notify under the lock.
AnnouncePause(w) ==
  /\ flush_lock = Free
  /\ WorkerGoto(w, "lock", "pred")
  /\ flush_lock' = w
  /\ paused' = [paused EXCEPT ![w] = TRUE]
  /\ waiters' = {}
  /\ UNCHANGED <<mpc, todo, do_pause, shutdown, non_block, data, flushes>>

\* The predicate of flush_condition.wait, evaluated under flush_lock.  When it
\* holds the worker clears paused and releases the lock.
EvalPredicate(w) ==
  /\ IF do_pause[w] /\ ~shutdown[w]
     THEN /\ WorkerGoto(w, "pred", "block")
          /\ UNCHANGED <<paused, flush_lock>>
     ELSE /\ WorkerGoto(w, "pred", "notify")
          /\ paused' = [paused EXCEPT ![w] = FALSE]
          /\ flush_lock' = Free
  /\ UNCHANGED <<mpc, todo, do_pause, shutdown, waiters, non_block, data, flushes>>

\* Release flush_lock and start waiting, atomically.
Block(w) ==
  /\ WorkerGoto(w, "block", "wait")
  /\ flush_lock' = Free
  /\ waiters' = waiters \cup {w}
  /\ UNCHANGED <<mpc, todo, flags, non_block, data, flushes>>

\* A notified waiter (or, if allowed, any waiter) retakes flush_lock.
WakeUp(w) ==
  /\ flush_lock = Free
  /\ w \notin waiters \/ SpuriousWakeups
  /\ WorkerGoto(w, "wait", "pred")
  /\ flush_lock' = w
  /\ waiters' = waiters \ {w}
  /\ UNCHANGED <<mpc, todo, flags, non_block, data, flushes>>

NotifyUnpaused(w) ==
  /\ WorkerGoto(w, "notify", "get_data")
  /\ waiters' = {}
  /\ UNCHANGED <<mpc, todo, flags, flush_lock, non_block, data, flushes>>

WorkerStep(w) ==
  \/ GetData(w) \/ ApplyBatches(w) \/ CheckShutdown(w) \/ CheckPause(w)
  \/ AnnouncePause(w) \/ EvalPredicate(w) \/ Block(w) \/ WakeUp(w)
  \/ NotifyUnpaused(w)

-----------------------------------------------------------------------------
(* The user thread in GraphSketchDriver and WorkerThreadGroup *)

MainGoto(from, to) == mpc = from /\ mpc' = to

\* process_stream_until enters resume_workers.
ProcessStreamUntil ==
  /\ MainGoto("user", "resume")
  /\ todo' = Worker
  /\ UNCHANGED <<wpc, flags, sync, non_block, data, flushes>>

\* workers[i]->unpause(), without flush_lock.
Unpause(w) ==
  /\ mpc = "resume" /\ w \in todo
  /\ todo' = todo \ {w}
  /\ do_pause' = [do_pause EXCEPT ![w] = FALSE]
  /\ paused' = [paused EXCEPT ![w] = FALSE]
  /\ UNCHANGED <<wpc, mpc, shutdown, sync, non_block, data, flushes>>

ResumeNonBlock ==
  /\ MainGoto("resume", "resume_notify") /\ todo = {}
  /\ non_block' = FALSE
  /\ UNCHANGED <<wpc, todo, flags, sync, data, flushes>>


ResumeNotify ==
  /\ MainGoto("resume_notify", "stream")
  /\ waiters' = {}
  /\ UNCHANGED <<wpc, todo, flags, flush_lock, non_block, data, flushes>>

\* Nodes are recycled: one being worked on still occupies its queue slot.
QueueHasRoom ==
  Cardinality(queue) + Cardinality({w \in Worker : node[w] # {}}) < QueueCap

\* gts->insert: a full gutter becomes a node, which waits for a free slot.
GtsInsert(u) ==
  /\ mpc = "stream" /\ u \in unread
  /\ \A x \in unread : u <= x
  /\ unread' = unread \ {u}
  /\ IF Cardinality(gutter \cup {u}) < GutterCap
     THEN gutter' = gutter \cup {u} /\ UNCHANGED queue
     ELSE QueueHasRoom /\ queue' = queue \cup {gutter \cup {u}} /\ gutter' = {}
  /\ UNCHANGED <<wpc, mpc, todo, flags, sync, non_block, node, applied, flushes>>

\* The stream reached its breakpoint and the stream threads are joined.
Breakpoint ==
  /\ MainGoto("stream", "user")
  /\ UNCHANGED <<wpc, todo, flags, sync, non_block, data, flushes>>

\* prep_query with a cached answer returns at once.
PrepQueryCached ==
  /\ MainGoto("user", "cached_query")
  /\ UNCHANGED <<wpc, todo, flags, sync, non_block, data, flushes>>

\* prep_query without a cached answer: gts->force_flush, then flush_workers.
PrepQuery ==
  /\ flushes < MaxFlush
  /\ MainGoto("user", "force_flush")
  /\ flushes' = flushes + 1
  /\ UNCHANGED <<wpc, todo, flags, sync, non_block, data>>

\* Mutant of ForceFlush: the gutters are left as they are.
ForceFlushNothing ==
  /\ MainGoto("force_flush", "set_non_block")
  /\ UNCHANGED <<wpc, todo, flags, sync, non_block, data, flushes>>

ForceFlush ==
  /\ MainGoto("force_flush", "set_non_block")
  /\ \/ gutter = {} /\ UNCHANGED <<gutter, queue>>
     \/ gutter # {} /\ QueueHasRoom /\ queue' = queue \cup {gutter} /\ gutter' = {}
  /\ UNCHANGED <<wpc, todo, flags, sync, non_block, unread, node, applied, flushes>>

\* Mutant of FlushNonBlock: the loop over the workers runs to i <= num_workers;
\* Free stands for workers[num_workers], which is none of them.
FlushNonBlockOnePast ==
  /\ MainGoto("set_non_block", "pause")
  /\ non_block' = TRUE
  /\ todo' = Worker \cup {Free}
  /\ UNCHANGED <<wpc, flags, sync, data, flushes>>

\* set_non_block, and the start of the loop over the workers.
FlushNonBlock ==
  /\ MainGoto("set_non_block", "pause")
  /\ non_block' = TRUE
  /\ todo' = Worker
  /\ UNCHANGED <<wpc, flags, sync, data, flushes>>

\* Mutant of Pause: do_pause is not set.
PauseForgotten(w) ==
  /\ mpc = "pause" /\ w \in todo
  /\ todo' = todo \ {w}
  /\ UNCHANGED <<wpc, mpc, flags, sync, non_block, data, flushes>>

\* workers[i]->pause(), without flush_lock.
Pause(w) ==
  /\ mpc = "pause" /\ w \in todo
  /\ todo' = todo \ {w}
  /\ do_pause' = [do_pause EXCEPT ![w] = TRUE]
  /\ UNCHANGED <<wpc, mpc, paused, shutdown, sync, non_block, data, flushes>>

FlushWait ==
  /\ MainGoto("pause", "flush") /\ todo = {}
  /\ UNCHANGED <<wpc, todo, flags, sync, non_block, data, flushes>>

\* Mutant of FlushReturn: the loop ends at the first paused worker.
FlushReturnOnFirst ==
  /\ flush_lock = Free
  /\ \E w \in Worker : paused[w]
  /\ MainGoto("flush", "query")
  /\ UNCHANGED <<wpc, todo, flags, sync, non_block, data, flushes>>

\* The wait loop of flush_workers.  wait_for times out every 500 ms, so the
\* user thread rechecks under flush_lock whether or not it is notified.
FlushReturn ==
  /\ flush_lock = Free
  /\ \A w \in Worker : paused[w]
  /\ MainGoto("flush", "query")
  /\ UNCHANGED <<wpc, todo, flags, sync, non_block, data, flushes>>

\* The query of the algorithm ends; nothing here changes.
QueryReturn ==
  /\ \/ MainGoto("query", "user")
     \/ MainGoto("cached_query", "user")
  /\ UNCHANGED <<wpc, todo, flags, sync, non_block, data, flushes>>

\* ~WorkerThreadGroup: stop every worker, notify, join.
Destruct ==
  /\ MainGoto("user", "stop")
  /\ non_block' = TRUE
  /\ todo' = Worker
  /\ UNCHANGED <<wpc, flags, sync, data, flushes>>

Stop(w) ==
  /\ mpc = "stop" /\ w \in todo
  /\ todo' = todo \ {w}
  /\ shutdown' = [shutdown EXCEPT ![w] = TRUE]
  /\ UNCHANGED <<wpc, mpc, do_pause, paused, sync, non_block, data, flushes>>

StopDone ==
  /\ MainGoto("stop", "stop_notify") /\ todo = {}
  /\ UNCHANGED <<wpc, todo, flags, sync, non_block, data, flushes>>

StopNotify ==
  /\ MainGoto("stop_notify", "join")
  /\ waiters' = {}
  /\ UNCHANGED <<wpc, todo, flags, flush_lock, non_block, data, flushes>>

Join ==
  /\ \A w \in Worker : wpc[w] = "exit"
  /\ MainGoto("join", "end")
  /\ UNCHANGED <<wpc, todo, flags, sync, non_block, data, flushes>>

\* What the user thread does once it is inside a call of the driver.
DriverStep ==
  \/ \E w \in Worker : Unpause(w) \/ Pause(w) \/ Stop(w)
  \/ ResumeNonBlock \/ ResumeNotify \/ Breakpoint
  \/ ForceFlush \/ FlushNonBlock \/ FlushWait \/ FlushReturn \/ QueryReturn
  \/ StopDone \/ StopNotify \/ Join

\* The calls the user chooses to make.
UserStep == ProcessStreamUntil \/ PrepQueryCached \/ PrepQuery \/ Destruct

Terminated == mpc = "end" /\ UNCHANGED vars

Next ==
  \/ \E w \in Worker : WorkerStep(w)
  \/ \E u \in Update : GtsInsert(u)
  \/ DriverStep \/ UserStep \/ Terminated

Spec == Init /\ [][Next]_vars

(***************************************************************************)
(* Fairness.  Every thread that can run eventually runs.  A mutex is       *)
(* granted to a thread that keeps asking for it (strong fairness), which   *)
(* the futex-based std::mutex gives in practice because every critical     *)
(* section here is finite.  Nothing makes a wait return unnotified, nothing *)
(* makes the user issue another call, and a stream ends.                   *)
(***************************************************************************)
Fairness ==
  /\ \A w \in Worker :
       /\ WF_vars(WorkerStep(w) /\ wpc[w] \notin {"lock", "wait"})
       /\ SF_vars(AnnouncePause(w))
       /\ SF_vars(w \notin waiters /\ WakeUp(w))
  /\ WF_vars(DriverStep)
  /\ SF_vars(FlushReturn)

FairSpec == Spec /\ Fairness

-----------------------------------------------------------------------------
(* Properties *)

\* While a query prepared by flush_workers runs, every worker sits in the
\* pause section of do_work and holds no node: no apply_update_batch can race
\* with Boruvka over the sketches, nor meet update_locked.
QueryQuiescent ==
  mpc = "query" => \A w \in Worker : wpc[w] \in Pausing /\ node[w] = {}

\* An update is somewhere between the stream and a worker, or it has been
\* applied once; it is never dropped between insert, queue, node and sketch,
\* and never applied twice (a second application would undo it, sketches
\* being linear over GF(2)).
NoUpdateLostOrDoubled ==
  \A u \in Update :
    /\ applied[u] <= 1
    /\ applied[u] = 0 <=> \/ u \in unread \/ u \in gutter
                          \/ \E n \in queue : u \in n
                          \/ \E w \in Worker : u \in node[w]

\* docs/control_flow.md: "the driver must ensure that all stream updates have
\* been processed before allowing the query to continue".  When flush_workers
\* returns, every update read from the stream is in the sketches.
FlushComplete ==
  mpc = "query" => \A u \in Update \ unread : applied[u] = 1

\* flush_workers returns: the wait "until all WorkerThreads are flushed" ends.
FlushReturns == mpc = "flush" ~> mpc = "query"

\* The same of the first flush of a driver: it returns, ...
FirstFlushReturns == (mpc = "flush" /\ flushes = 1) ~> mpc = "query"

\* ... and then every update read from the stream is in the sketches.
FirstFlushComplete ==
  mpc = "query" /\ flushes <= 1 => \A u \in Update \ unread : applied[u] = 1


\* ~WorkerThreadGroup joins every worker, whatever the workers were doing when
\* shutdown was set without flush_lock.
DestructorReturns == mpc = "join" ~> mpc = "end"
=============================================================================
