---------------------- MODULE WorkerThreadGroupProofs ----------------------
(***************************************************************************)
(* Theorems about WorkerThreadGroup, for any number of workers, updates    *)
(* and flushes: type correctness, quiescence of the workers during a query, *)
(* and exactly-once application of every update.                           *)
(***************************************************************************)
EXTENDS WorkerThreadGroup, TLAPS

-----------------------------------------------------------------------------
(* Type correctness *)

LEMMA TypeWorker ==
  ASSUME TypeOK, NEW w \in Worker, WorkerStep(w)
  PROVE  TypeOK'
<1> USE DEF TypeOK, WorkerPC, WorkerGoto, flags, sync, data
<1>1. CASE GetData(w)
  BY <1>1 DEF GetData
<1>2. CASE ApplyBatches(w)
  BY <1>2 DEF ApplyBatches
<1>3. CASE CheckShutdown(w)
  BY <1>3 DEF CheckShutdown
<1>4. CASE CheckPause(w)
  BY <1>4 DEF CheckPause
<1>5. CASE AnnouncePause(w)
  BY <1>5 DEF AnnouncePause
<1>6. CASE EvalPredicate(w)
  BY <1>6 DEF EvalPredicate
<1>7. CASE Block(w)
  BY <1>7 DEF Block
<1>8. CASE WakeUp(w)
  BY <1>8 DEF WakeUp
<1>9. CASE NotifyUnpaused(w)
  BY <1>9 DEF NotifyUnpaused
<1> QED BY <1>1, <1>2, <1>3, <1>4, <1>5, <1>6, <1>7, <1>8, <1>9 DEF WorkerStep

LEMMA TypeDriver ==
  ASSUME TypeOK, DriverStep
  PROVE  TypeOK'
<1> USE DEF TypeOK, MainPC, MainGoto, flags, sync, data
<1>1. ASSUME NEW w \in Worker, Unpause(w) PROVE TypeOK'
  BY <1>1 DEF Unpause
<1>2. ASSUME NEW w \in Worker, Pause(w) PROVE TypeOK'
  BY <1>2 DEF Pause
<1>3. ASSUME NEW w \in Worker, Stop(w) PROVE TypeOK'
  BY <1>3 DEF Stop
<1>4. CASE ResumeNonBlock
  BY <1>4 DEF ResumeNonBlock
<1>5. CASE ResumeNotify
  BY <1>5 DEF ResumeNotify
<1>6. CASE Breakpoint
  BY <1>6 DEF Breakpoint
<1>7. CASE ForceFlush
  BY <1>7 DEF ForceFlush
<1>8. CASE FlushNonBlock
  BY <1>8 DEF FlushNonBlock
<1>9. CASE FlushWait
  BY <1>9 DEF FlushWait
<1>10. CASE FlushReturn
  BY <1>10 DEF FlushReturn
<1>11. CASE QueryReturn
  BY <1>11 DEF QueryReturn
<1>12. CASE StopDone
  BY <1>12 DEF StopDone
<1>13. CASE StopNotify
  BY <1>13 DEF StopNotify
<1>14. CASE Join
  BY <1>14 DEF Join
<1> QED BY <1>1, <1>2, <1>3, <1>4, <1>5, <1>6, <1>7, <1>8, <1>9, <1>10, <1>11,
           <1>12, <1>13, <1>14 DEF DriverStep

LEMMA TypeUser ==
  ASSUME TypeOK, UserStep
  PROVE  TypeOK'
<1> USE DEF TypeOK, MainPC, MainGoto, flags, sync, data
<1>1. CASE ProcessStreamUntil
  BY <1>1 DEF ProcessStreamUntil
<1>2. CASE PrepQueryCached
  BY <1>2 DEF PrepQueryCached
<1>3. CASE PrepQuery
  BY <1>3 DEF PrepQuery
<1>4. CASE Destruct
  BY <1>4 DEF Destruct
<1> QED BY <1>1, <1>2, <1>3, <1>4 DEF UserStep

\* Every variable keeps its type, whatever the threads do.
THEOREM TypeCorrect == Spec => []TypeOK
<1>1. Init => TypeOK
  <2> SUFFICES ASSUME Init PROVE TypeOK
    OBVIOUS
  <2>1. /\ do_pause \in [Worker -> BOOLEAN]
        /\ paused \in [Worker -> BOOLEAN]
        /\ shutdown \in [Worker -> BOOLEAN]
        /\ non_block \in BOOLEAN
    BY Zenon DEF Init
  <2> QED BY <2>1 DEF Init, TypeOK, WorkerPC, MainPC
<1>2. TypeOK /\ [Next]_vars => TypeOK'
  <2> SUFFICES ASSUME TypeOK, [Next]_vars PROVE TypeOK'
    OBVIOUS
  <2>1. ASSUME NEW w \in Worker, WorkerStep(w) PROVE TypeOK'
    BY <2>1, TypeWorker
  <2>2. ASSUME NEW u \in Update, GtsInsert(u) PROVE TypeOK'
    BY <2>2 DEF GtsInsert, TypeOK, flags, sync
  <2>3. CASE DriverStep
    BY <2>3, TypeDriver
  <2>4. CASE UserStep
    BY <2>4, TypeUser
  <2>5. CASE UNCHANGED vars
    BY <2>5 DEF vars, flags, sync, data, TypeOK
  <2> QED BY <2>1, <2>2, <2>3, <2>4, <2>5 DEF Next, Terminated
<1> QED BY <1>1, <1>2, PTL DEF Spec
-----------------------------------------------------------------------------
(* Quiescence.  QueryQuiescent is not inductive: what keeps a worker in the *)
(* pause section is that do_pause stays set and shutdown stays clear until *)
(* the user thread leaves the query, and what put it there is that paused  *)
(* is only true inside the pause section.                                  *)

Stopping == {"stop", "stop_notify", "join", "end"}

PauseInv ==
  /\ \A w \in Worker : paused[w] => wpc[w] \in Pausing
  /\ \A w \in Worker : wpc[w] # "batches" => node[w] = {}
  /\ mpc = "pause" => \A w \in Worker \ todo : do_pause[w]
  /\ mpc \in {"flush", "query"} => \A w \in Worker : do_pause[w]
  /\ mpc \notin Stopping => \A w \in Worker : ~shutdown[w]
  /\ mpc = "query" => \A w \in Worker : paused[w]

LEMMA PauseWorker ==
  ASSUME TypeOK, PauseInv, NEW w \in Worker, WorkerStep(w)
  PROVE  PauseInv'
<1> USE DEF TypeOK, PauseInv, Pausing, Stopping, WorkerPC, MainPC, WorkerGoto, flags, sync, data
<1>1. CASE GetData(w)
  BY <1>1 DEF GetData
<1>2. CASE ApplyBatches(w)
  BY <1>2 DEF ApplyBatches
<1>3. CASE CheckShutdown(w)
  BY <1>3 DEF CheckShutdown
<1>4. CASE CheckPause(w)
  BY <1>4 DEF CheckPause
<1>5. CASE AnnouncePause(w)
  BY <1>5 DEF AnnouncePause
<1>6. CASE EvalPredicate(w)
  BY <1>6 DEF EvalPredicate
<1>7. CASE Block(w)
  BY <1>7 DEF Block
<1>8. CASE WakeUp(w)
  BY <1>8 DEF WakeUp
<1>9. CASE NotifyUnpaused(w)
  BY <1>9 DEF NotifyUnpaused
<1> QED BY <1>1, <1>2, <1>3, <1>4, <1>5, <1>6, <1>7, <1>8, <1>9 DEF WorkerStep

LEMMA PauseDriver ==
  ASSUME TypeOK, PauseInv, DriverStep
  PROVE  PauseInv'
<1> USE DEF TypeOK, PauseInv, Stopping, MainPC, MainGoto, flags, sync, data
<1>1. ASSUME NEW w \in Worker, Unpause(w) PROVE PauseInv'
  BY <1>1 DEF Unpause
<1>2. ASSUME NEW w \in Worker, Pause(w) PROVE PauseInv'
  BY <1>2 DEF Pause
<1>3. ASSUME NEW w \in Worker, Stop(w) PROVE PauseInv'
  BY <1>3 DEF Stop
<1>4. CASE ResumeNonBlock
  BY <1>4 DEF ResumeNonBlock
<1>5. CASE ResumeNotify
  BY <1>5 DEF ResumeNotify
<1>6. CASE Breakpoint
  BY <1>6 DEF Breakpoint
<1>7. CASE ForceFlush
  BY <1>7 DEF ForceFlush
<1>8. CASE FlushNonBlock
  BY <1>8 DEF FlushNonBlock
<1>9. CASE FlushWait
  BY <1>9 DEF FlushWait
<1>10. CASE FlushReturn
  BY <1>10 DEF FlushReturn
<1>11. CASE QueryReturn
  BY <1>11 DEF QueryReturn
<1>12. CASE StopDone
  BY <1>12 DEF StopDone
<1>13. CASE StopNotify
  BY <1>13 DEF StopNotify
<1>14. CASE Join
  BY <1>14 DEF Join
<1> QED BY <1>1, <1>2, <1>3, <1>4, <1>5, <1>6, <1>7, <1>8, <1>9, <1>10, <1>11,
           <1>12, <1>13, <1>14 DEF DriverStep

LEMMA PauseUser ==
  ASSUME TypeOK, PauseInv, UserStep
  PROVE  PauseInv'
<1> USE DEF TypeOK, PauseInv, Stopping, MainPC, MainGoto, flags, sync, data
<1>1. CASE ProcessStreamUntil
  BY <1>1 DEF ProcessStreamUntil
<1>2. CASE PrepQueryCached
  BY <1>2 DEF PrepQueryCached
<1>3. CASE PrepQuery
  BY <1>3 DEF PrepQuery
<1>4. CASE Destruct
  BY <1>4 DEF Destruct
<1> QED BY <1>1, <1>2, <1>3, <1>4 DEF UserStep

LEMMA PauseInvariant == Spec => []PauseInv
<1>1. Init => PauseInv
  BY DEF Init, PauseInv
<1>2. TypeOK /\ PauseInv /\ [Next]_vars => PauseInv'
  <2> SUFFICES ASSUME TypeOK, PauseInv, [Next]_vars PROVE PauseInv'
    OBVIOUS
  <2>1. ASSUME NEW w \in Worker, WorkerStep(w) PROVE PauseInv'
    BY <2>1, PauseWorker
  <2>2. ASSUME NEW u \in Update, GtsInsert(u) PROVE PauseInv'
    BY <2>2 DEF GtsInsert, PauseInv, flags, sync
  <2>3. CASE DriverStep
    BY <2>3, PauseDriver
  <2>4. CASE UserStep
    BY <2>4, PauseUser
  <2>5. CASE UNCHANGED vars
    BY <2>5 DEF vars, flags, sync, data, PauseInv
  <2> QED BY <2>1, <2>2, <2>3, <2>4, <2>5 DEF Next, Terminated
<1> QED BY <1>1, <1>2, TypeCorrect, PTL DEF Spec

\* While a query prepared by flush_workers runs, every worker is in the pause
\* section of do_work and holds no node, although the flags that put it there
\* are written without flush_lock.
THEOREM QueryIsQuiescent == Spec => []QueryQuiescent
<1>1. PauseInv => QueryQuiescent
  BY DEF PauseInv, QueryQuiescent, Pausing
<1> QED BY <1>1, PauseInvariant, PTL
-----------------------------------------------------------------------------
(* Exactly once.  An update sits in at most one place at a time; this is    *)
(* what makes NoUpdateLostOrDoubled inductive.                             *)

Located(u) == \/ u \in unread \/ u \in gutter
              \/ \E n \in queue : u \in n
              \/ \E w \in Worker : u \in node[w]

PlaceInv ==
  /\ \A u \in Update : applied[u] <= 1 /\ (applied[u] = 0 <=> Located(u))
  /\ \A u \in unread : u \notin gutter
  /\ \A n \in queue : \A u \in n : u \notin unread /\ u \notin gutter
  /\ \A m, n \in queue : \A u \in m : u \in n => m = n
  /\ \A w \in Worker : \A u \in node[w] :
       u \notin unread /\ u \notin gutter /\ \A n \in queue : u \notin n
  /\ \A w, x \in Worker : \A u \in node[w] : u \in node[x] => w = x

LEMMA PlaceGetData ==
  ASSUME TypeOK, PauseInv, PlaceInv, NEW w \in Worker, GetData(w)
  PROVE  PlaceInv'
<1> USE DEF TypeOK, PauseInv, PlaceInv, Located, WorkerGoto, flags, sync
<1>1. node[w] = {}
  BY DEF GetData
<1>2. ASSUME NEW n \in queue, queue' = queue \ {n}, node' = [node EXCEPT ![w] = n],
             UNCHANGED <<unread, gutter, applied>>
      PROVE  PlaceInv'
  <2>1. node'[w] = n /\ \A x \in Worker : x # w => node'[x] = node[x]
    BY <1>2
  <2>2. \A u \in Update : Located(u) <=> Located(u)'
    BY <1>1, <1>2, <2>1
  <2> QED BY <1>1, <1>2, <2>1, <2>2
<1>3. CASE UNCHANGED <<unread, gutter, queue, node, applied>>
  BY <1>3
<1> QED BY <1>2, <1>3 DEF GetData

LEMMA PlaceApply ==
  ASSUME TypeOK, PlaceInv, NEW w \in Worker, ApplyBatches(w)
  PROVE  PlaceInv'
<1> USE DEF TypeOK, PlaceInv, Located, ApplyBatches, flags, sync
<1>1. node'[w] = {} /\ \A x \in Worker : x # w => node'[x] = node[x]
  OBVIOUS
<1>2. ASSUME NEW u \in Update
      PROVE  applied'[u] <= 1 /\ (applied'[u] = 0 <=> Located(u)')
  <2>1. CASE u \in node[w]
    BY <1>1, <2>1
  <2>2. CASE u \notin node[w]
    BY <1>1, <2>2
  <2> QED BY <2>1, <2>2
<1> QED BY <1>1, <1>2

LEMMA PlaceInsert ==
  ASSUME TypeOK, PlaceInv, NEW u \in Update, GtsInsert(u)
  PROVE  PlaceInv'
<1> USE DEF TypeOK, PlaceInv, Located, flags, sync
<1>1. CASE gutter' = gutter \cup {u} /\ UNCHANGED queue
  BY <1>1 DEF GtsInsert
<1>2. CASE queue' = queue \cup {gutter \cup {u}} /\ gutter' = {}
  <2> DEFINE m == gutter \cup {u}
  <2>1. /\ u \in unread /\ unread' = unread \ {u}
        /\ UNCHANGED <<node, applied>>
    BY DEF GtsInsert
  <2>2. ASSUME NEW o \in Update PROVE Located(o) <=> Located(o)'
    <3>1. (\E n \in queue' : o \in n) <=> (o \in m \/ \E n \in queue : o \in n)
      <4>1. m \in queue' /\ queue \subseteq queue' /\ \A n \in queue' : n \in queue \/ n = m
        BY <1>2
      <4> HIDE DEF m, TypeOK, PlaceInv
      <4> QED BY <4>1
    <3> QED BY <1>2, <2>1, <3>1
  <2>3. \A o \in m : /\ o \notin unread'
                     /\ \A n \in queue : o \notin n
                     /\ \A w \in Worker : o \notin node[w]
    BY <2>1
  <2>4. \A x, y \in queue' : \A o \in x : o \in y => x = y
    BY <1>2, <2>3
  <2>5. \A w \in Worker : \A o \in node[w] : \A n \in queue' : o \notin n
    BY <1>2, <2>3
  <2> QED BY <1>2, <2>1, <2>2, <2>3, <2>4, <2>5
<1> QED BY <1>1, <1>2 DEF GtsInsert

LEMMA PlaceForceFlush ==
  ASSUME TypeOK, PlaceInv, ForceFlush
  PROVE  PlaceInv'
  BY DEF TypeOK, PlaceInv, Located, ForceFlush, flags, sync

LEMMA PlaceUnchanged ==
  ASSUME PlaceInv, UNCHANGED data
  PROVE  PlaceInv'
  BY DEF PlaceInv, Located, data

LEMMA PlaceInvariant == Spec => []PlaceInv
<1>1. Init => PlaceInv
  BY DEF Init, PlaceInv, Located
<1>2. TypeOK /\ PauseInv /\ PlaceInv /\ [Next]_vars => PlaceInv'
  <2> SUFFICES ASSUME TypeOK, PauseInv, PlaceInv, [Next]_vars PROVE PlaceInv'
    OBVIOUS
  <2>1. ASSUME NEW w \in Worker, WorkerStep(w) PROVE PlaceInv'
    <3>1. \/ GetData(w) \/ ApplyBatches(w) \/ UNCHANGED data
      BY <2>1 DEF WorkerStep, CheckShutdown, CheckPause, AnnouncePause,
                  EvalPredicate, Block, WakeUp, NotifyUnpaused
    <3> QED BY <3>1, PlaceGetData, PlaceApply, PlaceUnchanged
  <2>2. ASSUME NEW u \in Update, GtsInsert(u) PROVE PlaceInv'
    BY <2>2, PlaceInsert
  <2>3. CASE DriverStep
    <3>1. ForceFlush \/ UNCHANGED data
      BY <2>3 DEF DriverStep, Unpause, Pause, Stop, ResumeNonBlock, ResumeNotify,
                  Breakpoint, FlushNonBlock, FlushWait, FlushReturn, QueryReturn,
                  StopDone, StopNotify, Join
    <3> QED BY <3>1, PlaceForceFlush, PlaceUnchanged
  <2>4. CASE UserStep
    <3>1. UNCHANGED data
      BY <2>4 DEF UserStep, ProcessStreamUntil, PrepQueryCached, PrepQuery, Destruct
    <3> QED BY <3>1, PlaceUnchanged
  <2>5. CASE UNCHANGED vars
    BY <2>5, PlaceUnchanged DEF vars
  <2> QED BY <2>1, <2>2, <2>3, <2>4, <2>5 DEF Next, Terminated
<1> QED BY <1>1, <1>2, TypeCorrect, PauseInvariant, PTL DEF Spec

\* No update is dropped or applied twice on its way from the stream through
\* gutter, work queue and worker to the sketches.
THEOREM ExactlyOnce == Spec => []NoUpdateLostOrDoubled
<1>1. PlaceInv => NoUpdateLostOrDoubled
  BY DEF PlaceInv, Located, NoUpdateLostOrDoubled
<1> QED BY <1>1, PlaceInvariant, PTL
-----------------------------------------------------------------------------
(* The first flush.  A worker leaves get_data empty-handed only after       *)
(* set_non_block(true), hence after force_flush, hence when nothing is     *)
(* added to the queue any more: once one worker has found the queue empty  *)
(* it stays empty.  A second flush can meet a worker that found it empty   *)
(* during the first, which is why the theorem stops at one.                *)

Working  == {"get_data", "batches"}
Flushing == {"pause", "flush", "query"}

FirstInv ==
  flushes <= 1 =>
    /\ flushes = 0 => mpc \notin Flushing \cup {"force_flush", "set_non_block"}
    /\ (flushes = 0 /\ mpc \notin Stopping) \/ mpc \in {"force_flush", "set_non_block"}
         => ~non_block /\ \A w \in Worker : wpc[w] \in Working
    /\ mpc \in Flushing \cup {"set_non_block"} => gutter = {}
    /\ mpc \in Flushing => \A w \in Worker : wpc[w] \notin Working => queue = {}

LEMMA FirstWorker ==
  ASSUME TypeOK, PauseInv, FirstInv, NEW w \in Worker, WorkerStep(w)
  PROVE  FirstInv'
<1> USE DEF TypeOK, PauseInv, FirstInv, Working, Flushing, Stopping, WorkerPC, MainPC,
            WorkerGoto, flags, sync, data
<1>1. CASE GetData(w)
  BY <1>1 DEF GetData
<1>2. CASE ApplyBatches(w)
  BY <1>2 DEF ApplyBatches
<1>3. CASE CheckShutdown(w)
  BY <1>3 DEF CheckShutdown
<1>4. CASE CheckPause(w)
  BY <1>4 DEF CheckPause
<1>5. CASE AnnouncePause(w)
  BY <1>5 DEF AnnouncePause
<1>6. CASE EvalPredicate(w)
  BY <1>6 DEF EvalPredicate
<1>7. CASE Block(w)
  BY <1>7 DEF Block
<1>8. CASE WakeUp(w)
  BY <1>8 DEF WakeUp
<1>9. CASE NotifyUnpaused(w)
  BY <1>9 DEF NotifyUnpaused
<1> QED BY <1>1, <1>2, <1>3, <1>4, <1>5, <1>6, <1>7, <1>8, <1>9 DEF WorkerStep

LEMMA FirstDriver ==
  ASSUME TypeOK, FirstInv, DriverStep
  PROVE  FirstInv'
<1> USE DEF TypeOK, FirstInv, Working, Flushing, Stopping, MainPC, MainGoto, flags, sync, data
<1>1. ASSUME NEW w \in Worker, Unpause(w) \/ Pause(w) \/ Stop(w) PROVE FirstInv'
  BY <1>1 DEF Unpause, Pause, Stop
<1>2. CASE ResumeNonBlock
  BY <1>2 DEF ResumeNonBlock
<1>3. CASE ResumeNotify \/ Breakpoint
  BY <1>3 DEF ResumeNotify, Breakpoint
<1>4. CASE ForceFlush
  BY <1>4 DEF ForceFlush
<1>5. CASE FlushNonBlock
  BY <1>5 DEF FlushNonBlock
<1>6. CASE FlushWait \/ FlushReturn
  BY <1>6 DEF FlushWait, FlushReturn
<1>7. CASE QueryReturn
  BY <1>7 DEF QueryReturn
<1>8. CASE StopDone \/ StopNotify \/ Join
  BY <1>8 DEF StopDone, StopNotify, Join
<1> QED BY <1>1, <1>2, <1>3, <1>4, <1>5, <1>6, <1>7, <1>8 DEF DriverStep

LEMMA FirstUser ==
  ASSUME TypeOK, FirstInv, UserStep
  PROVE  FirstInv'
<1> USE DEF TypeOK, FirstInv, Working, Flushing, Stopping, MainPC, MainGoto, flags, sync, data
<1>1. CASE ProcessStreamUntil \/ PrepQueryCached
  BY <1>1 DEF ProcessStreamUntil, PrepQueryCached
<1>2. CASE PrepQuery
  BY <1>2, BoundAssumption DEF PrepQuery
<1>3. CASE Destruct
  BY <1>3 DEF Destruct
<1> QED BY <1>1, <1>2, <1>3 DEF UserStep

\* The first flush_workers returns only when every update read from the stream
\* has been applied to the sketches, as docs/control_flow.md demands; for any
\* number of workers and with spurious wake-ups.
THEOREM FirstFlushIsComplete == Spec => []FirstFlushComplete
<1>1. Init => FirstInv
  BY DEF Init, FirstInv, Working, Flushing
<1>2. TypeOK /\ PauseInv /\ FirstInv /\ [Next]_vars => FirstInv'
  <2> SUFFICES ASSUME TypeOK, PauseInv, FirstInv, [Next]_vars PROVE FirstInv'
    OBVIOUS
  <2>1. ASSUME NEW w \in Worker, WorkerStep(w) PROVE FirstInv'
    BY <2>1, FirstWorker
  <2>2. ASSUME NEW u \in Update, GtsInsert(u) PROVE FirstInv'
    BY <2>2 DEF GtsInsert, FirstInv, Flushing, flags, sync
  <2>3. CASE DriverStep
    BY <2>3, FirstDriver
  <2>4. CASE UserStep
    BY <2>4, FirstUser
  <2>5. CASE UNCHANGED vars
    BY <2>5 DEF vars, flags, sync, data, FirstInv
  <2> QED BY <2>1, <2>2, <2>3, <2>4, <2>5 DEF Next, Terminated
<1>3. TypeOK /\ PauseInv /\ PlaceInv /\ FirstInv => FirstFlushComplete
  <2> SUFFICES ASSUME TypeOK, PauseInv, PlaceInv, FirstInv, mpc = "query", flushes <= 1,
                      NEW u \in Update \ unread
               PROVE  applied[u] = 1
    BY DEF FirstFlushComplete
  <2>1. \A w \in Worker : wpc[w] \in Pausing /\ node[w] = {}
    BY DEF PauseInv, Pausing
  <2>2. queue = {} /\ gutter = {}
    BY <2>1, WorkerAssumption DEF FirstInv, Flushing, Working, Pausing
  <2>3. ~Located(u)
    BY <2>1, <2>2 DEF Located
  <2> QED BY <2>3 DEF PlaceInv, TypeOK
<1> QED BY <1>1, <1>2, <1>3, TypeCorrect, PauseInvariant, PlaceInvariant, PTL DEF Spec
=============================================================================
