------------------------------ MODULE StreamPool ------------------------------
(***************************************************************************)
(* StreamPool and ParallelWriter (package transfer, unnamed/part_004) as    *)
(* driven by BulkSender.Send and BulkSender.Close (unnamed/part_002).       *)
(*                                                                         *)
(* Goroutines: one sender running the Send loop and Wait, the writer's     *)
(* workers, each running worker/sendChunk/Acquire/Release, and the caller  *)
(* of BulkSender.Close once Send has returned.  The context may be         *)
(* cancelled at any time when CancelAllowed.  Streams are anonymous: the   *)
(* pool's buffered channel is the number of idle streams in it.  Every     *)
(* channel operation, atomic load or store and mutex section is one step;  *)
(* a goroutine that blocks on a channel is a state whose actions are not   *)
(* enabled.  A panic ends the program: no step follows it.                 *)
(***************************************************************************)
EXTENDS Integers, FiniteSets

CONSTANTS
    Workers,        \* the writer's worker goroutines (ParallelWorkers)
    MaxStreams,     \* StreamPool.maxSize (ParallelStreams)
    NChunks,        \* chunks BulkSender.Send hands to the writer
    CancelAllowed,  \* whether the caller's context may be cancelled
    OpenMayFail     \* whether StreamOpener.OpenStreamSync may fail

ASSUME WorkersAssumption == IsFiniteSet(Workers) /\ Workers # {}
ASSUME MaxStreamsAssumption == MaxStreams \in Nat \ {0}
ASSUME NChunksAssumption == NChunks \in Nat
ASSUME CancelAllowedAssumption == CancelAllowed \in BOOLEAN
ASSUME OpenMayFailAssumption == OpenMayFail \in BOOLEAN

\* make(chan CompressedChunk, workers*2) and make(chan error, workers)
ChunkCap == 2 * Cardinality(Workers)
ErrCap == Cardinality(Workers)

VARIABLES
    closed,       \* StreamPool.closed
    chanClosed,   \* close(p.streams) has run
    idle,         \* streams buffered in p.streams
    created,      \* StreamPool.created
    pc,           \* worker -> where the goroutine is
    held,         \* worker -> the stream its sendChunk holds
    failed,       \* worker -> sendChunk is returning an error
    chunkQ,       \* chunks buffered in pw.chunkChan
    chunkClosed,  \* close(pw.chunkChan) has run
    errQ,         \* errors buffered in pw.errChan
    spc,          \* where the sender is
    sent,         \* chunks Send has queued
    written,      \* chunks a worker wrote to a stream
    cpc,          \* where BulkSender.Close is
    ctxDone,      \* the context is cancelled
    crashed       \* the panic that ended the program, or "none"

vars == <<closed, chanClosed, idle, created, pc, held, failed, chunkQ,
          chunkClosed, errQ, spc, sent, written, cpc, ctxDone, crashed>>

poolVars == <<closed, chanClosed, idle, created>>
writerVars == <<chunkQ, chunkClosed, errQ, spc, sent, cpc, ctxDone>>

WorkerPCs == {"loop", "acquire", "acq_try", "acq_create", "opening",
              "acq_wait", "write", "release", "rel_send", "report", "exit"}
SenderPCs == {"send", "put", "waiting", "ok", "failed"}
CloserPCs == {"idle", "closing", "draining", "done"}
Streams == {"none", "stream", "nil"}
Panics == {"none", "send_on_closed", "nil_stream"}

-----------------------------------------------------------------------------
Init ==
    /\ closed = FALSE /\ chanClosed = FALSE /\ idle = 0 /\ created = 0
    /\ pc = [w \in Workers |-> "loop"]
    /\ held = [w \in Workers |-> "none"]
    /\ failed = [w \in Workers |-> FALSE]
    /\ chunkQ = 0 /\ chunkClosed = FALSE /\ errQ = 0
    /\ spc = "send" /\ sent = 0 /\ written = 0
    /\ cpc = "idle" /\ ctxDone = FALSE /\ crashed = "none"

\* Moves worker w from pc "from" to "to", leaving everything else alone
\* unless listed.
Goto(w, from, to) == pc[w] = from /\ pc' = [pc EXCEPT ![w] = to]

Hold(w, s) == held' = [held EXCEPT ![w] = s]

-----------------------------------------------------------------------------
(* ParallelWriter.worker: select on chunkChan and ctx.Done.               *)
WorkerTake(w) ==
    /\ Goto(w, "loop", "acquire")
    /\ chunkQ > 0
    /\ chunkQ' = chunkQ - 1
    /\ UNCHANGED <<poolVars, held, failed, chunkClosed, errQ, spc, sent,
                   written, cpc, ctxDone, crashed>>

\* Mutant: the worker ignores the closed chunk channel and leaves only on
\* cancellation.
WorkerExitCtxOnly(w) ==
    /\ ctxDone
    /\ Goto(w, "loop", "exit")
    /\ UNCHANGED <<poolVars, held, failed, writerVars, written, crashed>>

WorkerExit(w) ==
    /\ \/ chunkQ = 0 /\ chunkClosed     \* chunk, ok := <-chunkChan; !ok
       \/ ctxDone                       \* <-ctx.Done()
    /\ Goto(w, "loop", "exit")
    /\ UNCHANGED <<poolVars, held, failed, writerVars, written, crashed>>

(* StreamPool.Acquire, called by sendChunk.                              *)
AcquireCheck(w) ==
    /\ pc[w] = "acquire"
    /\ IF closed                         \* ErrPoolClosed
         THEN pc' = [pc EXCEPT ![w] = "report"] /\ failed' = [failed EXCEPT ![w] = TRUE]
         ELSE pc' = [pc EXCEPT ![w] = "acq_try"] /\ UNCHANGED failed
    /\ UNCHANGED <<poolVars, held, writerVars, written, crashed>>

\* A receive on p.streams: an idle stream, or the zero value (a nil
\* interface) once the channel is closed and empty.
Receive(w) ==
    \/ idle > 0 /\ idle' = idle - 1 /\ Hold(w, "stream")
    \/ idle = 0 /\ chanClosed /\ Hold(w, "nil") /\ UNCHANGED idle

AcquireTry(w) ==
    /\ pc[w] = "acq_try"
    /\ \/ Receive(w) /\ pc' = [pc EXCEPT ![w] = "write"]
       \/ idle = 0 /\ ~ chanClosed /\ pc' = [pc EXCEPT ![w] = "acq_create"]
          /\ UNCHANGED <<idle, held>>
    /\ UNCHANGED <<closed, chanClosed, created, failed, writerVars, written, crashed>>

\* The unlocked pre-check and the check under p.mu, taken as one step: the
\* decision is the one the check under the lock makes.
AcquireCreate(w) ==
    /\ pc[w] = "acq_create"
    /\ IF created < MaxStreams
         THEN created' = created + 1 /\ pc' = [pc EXCEPT ![w] = "opening"]
         ELSE UNCHANGED created /\ pc' = [pc EXCEPT ![w] = "acq_wait"]
    /\ UNCHANGED <<closed, chanClosed, idle, held, failed, writerVars, written, crashed>>

\* Mutant: a failed open does not give back created.
AcquireOpenLeak(w) ==
    /\ pc[w] = "opening"
    /\ \/ Hold(w, "stream") /\ pc' = [pc EXCEPT ![w] = "write"]
          /\ UNCHANGED failed
       \/ OpenMayFail /\ pc' = [pc EXCEPT ![w] = "report"]
          /\ failed' = [failed EXCEPT ![w] = TRUE] /\ UNCHANGED held
    /\ UNCHANGED <<poolVars, writerVars, written, crashed>>

\* OpenStreamSync succeeds, or fails and created is given back.
AcquireOpen(w) ==
    /\ pc[w] = "opening"
    /\ \/ Hold(w, "stream") /\ pc' = [pc EXCEPT ![w] = "write"]
          /\ UNCHANGED <<created, failed>>
       \/ OpenMayFail
          /\ created' = created - 1 /\ pc' = [pc EXCEPT ![w] = "report"]
          /\ failed' = [failed EXCEPT ![w] = TRUE] /\ UNCHANGED held
    /\ UNCHANGED <<closed, chanClosed, idle, writerVars, written, crashed>>

AcquireWait(w) ==
    /\ pc[w] = "acq_wait"
    /\ \/ Receive(w) /\ pc' = [pc EXCEPT ![w] = "write"] /\ UNCHANGED failed
       \/ ctxDone /\ pc' = [pc EXCEPT ![w] = "report"]
          /\ failed' = [failed EXCEPT ![w] = TRUE] /\ UNCHANGED <<idle, held>>
    /\ UNCHANGED <<closed, chanClosed, created, writerVars, written, crashed>>

(* sendChunk: WriteBatch on the stream; a nil stream panics.             *)
Write(w) ==
    /\ pc[w] = "write"
    /\ IF held[w] = "nil"
         THEN crashed' = "nil_stream" /\ UNCHANGED <<pc, failed, written>>
         ELSE /\ pc' = [pc EXCEPT ![w] = "release"]
              /\ \/ written' = written + 1 /\ UNCHANGED failed
                 \/ failed' = [failed EXCEPT ![w] = TRUE] /\ UNCHANGED written
              /\ UNCHANGED crashed
    /\ UNCHANGED <<poolVars, held, writerVars>>

\* After the deferred Release: report an error or take the next chunk.
AfterRelease(w) == IF failed[w] THEN "report" ELSE "loop"

(* StreamPool.Release, deferred by sendChunk.                            *)
ReleaseCheck(w) ==
    /\ pc[w] = "release"
    /\ IF closed                         \* the stream is closed
         THEN pc' = [pc EXCEPT ![w] = AfterRelease(w)] /\ Hold(w, "none")
         ELSE pc' = [pc EXCEPT ![w] = "rel_send"] /\ UNCHANGED held
    /\ UNCHANGED <<poolVars, failed, writerVars, written, crashed>>

ReleaseSend(w) ==
    /\ pc[w] = "rel_send"
    /\ IF chanClosed                     \* send on closed channel
         THEN crashed' = "send_on_closed" /\ UNCHANGED <<pc, held, idle, created>>
         ELSE /\ IF idle < MaxStreams
                   THEN idle' = idle + 1 /\ UNCHANGED created
                   ELSE created' = created - 1 /\ UNCHANGED idle
              /\ pc' = [pc EXCEPT ![w] = AfterRelease(w)]
              /\ Hold(w, "none")
              /\ UNCHANGED crashed
    /\ UNCHANGED <<closed, chanClosed, failed, writerVars, written>>

\* Mutant: the worker swallows sendChunk's error.
ReportDropped(w) ==
    /\ Goto(w, "report", "loop")
    /\ failed' = [failed EXCEPT ![w] = FALSE]
    /\ UNCHANGED <<poolVars, held, writerVars, written, crashed>>

\* The worker hands sendChunk's error to errChan, or drops it when full.
Report(w) ==
    /\ Goto(w, "report", "loop")
    /\ errQ' = IF errQ < ErrCap THEN errQ + 1 ELSE errQ
    /\ failed' = [failed EXCEPT ![w] = FALSE]
    /\ UNCHANGED <<poolVars, held, chunkQ, chunkClosed, spc, sent, written,
                   cpc, ctxDone, crashed>>

Worker(w) ==
    \/ WorkerTake(w) \/ WorkerExit(w)
    \/ AcquireCheck(w) \/ AcquireTry(w) \/ AcquireCreate(w)
    \/ AcquireOpen(w) \/ AcquireWait(w)
    \/ Write(w) \/ ReleaseCheck(w) \/ ReleaseSend(w) \/ Report(w)

-----------------------------------------------------------------------------
(* BulkSender.Send's loop over ParallelWriter.Send, then Wait.            *)
SendCheck ==
    /\ spc = "send" /\ sent < NChunks
    /\ IF errQ > 0                       \* case err := <-pw.errChan
         THEN errQ' = errQ - 1 /\ spc' = "failed"
         ELSE spc' = "put" /\ UNCHANGED errQ
    /\ UNCHANGED <<poolVars, pc, held, failed, chunkQ, chunkClosed, sent,
                   written, cpc, ctxDone, crashed>>

\* Mutant: Send does not wait for room in the chunk channel.
SendPutUnbounded ==
    /\ spc = "put"
    /\ chunkQ' = chunkQ + 1 /\ sent' = sent + 1 /\ spc' = "send"
    /\ UNCHANGED <<poolVars, pc, held, failed, chunkClosed, errQ, written,
                   cpc, ctxDone, crashed>>

SendPut ==
    /\ spc = "put" /\ chunkQ < ChunkCap  \* pw.chunkChan <- chunk blocks when full
    /\ chunkQ' = chunkQ + 1 /\ sent' = sent + 1 /\ spc' = "send"
    /\ UNCHANGED <<poolVars, pc, held, failed, chunkClosed, errQ, written,
                   cpc, ctxDone, crashed>>

WaitClose ==
    /\ spc = "send" /\ sent = NChunks
    /\ chunkClosed' = TRUE /\ spc' = "waiting"
    /\ UNCHANGED <<poolVars, pc, held, failed, chunkQ, errQ, sent, written,
                   cpc, ctxDone, crashed>>

\* pw.wg.Wait(), then the first buffered error if there is one.
WaitJoin ==
    /\ spc = "waiting" /\ \A w \in Workers : pc[w] = "exit"
    /\ IF errQ > 0
         THEN errQ' = errQ - 1 /\ spc' = "failed"
         ELSE spc' = "ok" /\ UNCHANGED errQ
    /\ UNCHANGED <<poolVars, pc, held, failed, chunkQ, chunkClosed, sent,
                   written, cpc, ctxDone, crashed>>

Sender == SendCheck \/ SendPut \/ WaitClose \/ WaitJoin

(* BulkSender.Close -> StreamPool.Close, once Send has returned.         *)
CloseSwap ==
    /\ cpc = "idle" /\ spc \in {"ok", "failed"}
    /\ closed' = TRUE /\ cpc' = "closing"
    /\ UNCHANGED <<chanClosed, idle, created, pc, held, failed, chunkQ,
                   chunkClosed, errQ, spc, sent, written, ctxDone, crashed>>

CloseChannel ==
    /\ cpc = "closing"
    /\ chanClosed' = TRUE /\ cpc' = "draining"
    /\ UNCHANGED <<closed, idle, created, pc, held, failed, chunkQ,
                   chunkClosed, errQ, spc, sent, written, ctxDone, crashed>>

\* for s := range p.streams { s.Close() }
CloseDrain ==
    /\ cpc = "draining"
    /\ IF idle > 0 THEN idle' = idle - 1 /\ UNCHANGED cpc
                   ELSE cpc' = "done" /\ UNCHANGED idle
    /\ UNCHANGED <<closed, chanClosed, created, pc, held, failed, chunkQ,
                   chunkClosed, errQ, spc, sent, written, ctxDone, crashed>>

Closer == CloseSwap \/ CloseChannel \/ CloseDrain

Cancel ==
    /\ CancelAllowed /\ ~ ctxDone
    /\ ctxDone' = TRUE
    /\ UNCHANGED <<poolVars, pc, held, failed, chunkQ, chunkClosed, errQ,
                   spc, sent, written, cpc, crashed>>

Next ==
    /\ crashed = "none"
    /\ \/ \E w \in Workers : Worker(w)
       \/ Sender
       \/ Closer
       \/ Cancel

\* The Go scheduler runs every runnable goroutine eventually.
Fairness ==
    /\ \A w \in Workers : WF_vars(crashed = "none" /\ Worker(w))
    /\ WF_vars(crashed = "none" /\ Sender)

Spec == Init /\ [][Next]_vars
FairSpec == Spec /\ Fairness

-----------------------------------------------------------------------------
TypeOK ==
    /\ closed \in BOOLEAN /\ chanClosed \in BOOLEAN
    /\ idle \in 0 .. MaxStreams /\ created \in Int
    /\ pc \in [Workers -> WorkerPCs] /\ held \in [Workers -> Streams]
    /\ failed \in [Workers -> BOOLEAN]
    /\ chunkQ \in 0 .. ChunkCap /\ chunkClosed \in BOOLEAN
    /\ errQ \in 0 .. ErrCap
    /\ spc \in SenderPCs /\ sent \in 0 .. NChunks /\ written \in 0 .. NChunks
    /\ cpc \in CloserPCs /\ ctxDone \in BOOLEAN /\ crashed \in Panics

\* Streams the pool is answerable for: idle ones and those a worker holds
\* or is opening.
InUse == {w \in Workers : held[w] = "stream" \/ pc[w] = "opening"}

(* While the pool is open, StreamPool.created counts exactly the streams   *)
(* that exist: idle in the channel, held by a sendChunk, or being opened.  *)
(* Acquire's failed open, Release on a full pool and the create limit all  *)
(* adjust created from different goroutines; a missed or doubled           *)
(* adjustment lets the pool open more than maxSize streams or starve.      *)
PoolAccounting ==
    ~ closed => /\ created = idle + Cardinality(InUse)
                /\ created <= MaxStreams

(* When BulkSender.Send returns a Merkle root without an error, every chunk *)
(* it was given has been written to a stream by some worker.               *)
SuccessMeansDelivered == spc = "ok" => written = NChunks

(* BulkSender.Send returns: the chunk channel never stays full forever and *)
(* Wait's join completes.                                                  *)
SendReturns == <>(spc \in {"ok", "failed"})

(* A BulkSender.Close that runs while workers are still inside sendChunk  *)
(* (Send returned on an error without Wait) breaks none of them: Release   *)
(* never sends on the pool's closed channel, a runtime panic, and Acquire  *)
(* never returns a nil stream together with a nil error.                   *)
CloseSafe ==
    /\ crashed # "send_on_closed"
    /\ \A w \in Workers : held[w] # "nil"

=============================================================================
