-------------------------- MODULE StreamPool_proofs --------------------------
(***************************************************************************)
(* StreamPool's accounting and the writer's bounds, for every set of       *)
(* workers, pool size, number of chunks, and whether cancellation and      *)
(* failed opens may happen:                                                *)
(*   TypeCorrect       Spec => []TypeOK                                    *)
(*   Accounting        Spec => []PoolAccounting                            *)
(*   Delivered         ~CancelAllowed => (Spec => []SuccessMeansDelivered) *)
(* Neither invariant is inductive.  The chunk counters stay in range       *)
(* because every chunk Send queued is still queued, carried by a worker    *)
(* between WorkerTake and Write, written, or lost to an error (ChunkCount).*)
(* created is exact while the pool is open because a worker holds a        *)
(* stream exactly between a successful Acquire and Release's send (the     *)
(* nil stream of a closed channel cannot occur: the channel is closed only *)
(* after closed is set), so the streams are counted by pc alone (Active).  *)
(***************************************************************************)
EXTENDS StreamPool, FiniteSetTheorems, TLAPS

\* Where a worker holds a chunk it has not yet written or given up on.
CarryPCs == {"acquire", "acq_try", "acq_create", "opening", "acq_wait", "write"}
\* Where a worker is opening or holds a stream of the pool.
ActivePCs == {"opening", "write", "release", "rel_send"}
\* Where a worker's held stream is a real one.
HoldPCs == {"write", "release", "rel_send"}

Carrying == {w \in Workers : pc[w] \in CarryPCs}
Active == {w \in Workers : pc[w] \in ActivePCs}

HeldShape ==
    \A w \in Workers : held[w] = IF pc[w] \in HoldPCs THEN "stream" ELSE "none"

ChunkCount == written + chunkQ + Cardinality(Carrying) <= sent

IInv ==
    /\ TypeOK
    /\ chanClosed => closed
    /\ cpc # "idle" => closed
    /\ spc = "put" => sent < NChunks
    /\ ChunkCount
    /\ ~ closed => /\ HeldShape
                   /\ created = idle + Cardinality(Active)
                   /\ created <= MaxStreams

-----------------------------------------------------------------------------
(* Counting lemmas.                                                        *)

LEMMA CapsNat == ChunkCap \in Nat /\ ErrCap \in Nat
BY WorkersAssumption, FS_CardinalityType DEF ChunkCap, ErrCap

\* Two sets that differ at most in w have cardinalities that differ by
\* w's membership.
LEMMA CardSwap ==
  ASSUME NEW S, IsFiniteSet(S), NEW w, NEW A \in SUBSET S, NEW B \in SUBSET S,
         A \ {w} = B \ {w}
  PROVE  /\ Cardinality(A) \in Nat /\ Cardinality(B) \in Nat
         /\ Cardinality(B) + (IF w \in A THEN 1 ELSE 0)
              = Cardinality(A) + (IF w \in B THEN 1 ELSE 0)
<1>1. IsFiniteSet(A) /\ IsFiniteSet(B)
  BY FS_Subset
<1>2. Cardinality(A) \in Nat /\ Cardinality(B) \in Nat
  BY <1>1, FS_CardinalityType
<1>3. Cardinality(A \ {w}) = IF w \in A THEN Cardinality(A) - 1 ELSE Cardinality(A)
  BY <1>1, FS_RemoveElement
<1>4. Cardinality(B \ {w}) = IF w \in B THEN Cardinality(B) - 1 ELSE Cardinality(B)
  BY <1>1, FS_RemoveElement
<1>5. Cardinality(A \ {w}) = Cardinality(B \ {w})
  OBVIOUS
<1>. QED BY <1>2, <1>3, <1>4, <1>5

\* A step of worker w to x changes a count by pc of w's membership only.
LEMMA Move ==
  ASSUME NEW X, NEW f \in [Workers -> WorkerPCs], NEW w \in Workers, NEW x \in WorkerPCs
  PROVE  LET A == {v \in Workers : f[v] \in X}
             B == {v \in Workers : [f EXCEPT ![w] = x][v] \in X}
         IN  /\ Cardinality(A) \in Nat /\ Cardinality(B) \in Nat
             /\ Cardinality(B) + (IF f[w] \in X THEN 1 ELSE 0)
                  = Cardinality(A) + (IF x \in X THEN 1 ELSE 0)
<1> DEFINE A == {v \in Workers : f[v] \in X}
           B == {v \in Workers : [f EXCEPT ![w] = x][v] \in X}
<1>1. A \ {w} = B \ {w}
  OBVIOUS
<1>2. (w \in A <=> f[w] \in X) /\ (w \in B <=> x \in X)
  OBVIOUS
<1>. QED BY <1>1, <1>2, WorkersAssumption, CardSwap

\* The counts of a state in which pc is well typed are numbers.
LEMMA CountsNat ==
  ASSUME NEW f \in [Workers -> WorkerPCs], NEW X
  PROVE  Cardinality({v \in Workers : f[v] \in X}) \in Nat
BY WorkersAssumption, FS_Subset, FS_CardinalityType

\* Worker w stepping to x changes Carrying and Active by w's membership.
MovedCounts(w, x) ==
    pc' = [pc EXCEPT ![w] = x] =>
        /\ Cardinality(Carrying) \in Nat /\ Cardinality(Active) \in Nat
        /\ Cardinality(Carrying') \in Nat /\ Cardinality(Active') \in Nat
        /\ Cardinality(Carrying') + (IF pc[w] \in CarryPCs THEN 1 ELSE 0)
             = Cardinality(Carrying) + (IF x \in CarryPCs THEN 1 ELSE 0)
        /\ Cardinality(Active') + (IF pc[w] \in ActivePCs THEN 1 ELSE 0)
             = Cardinality(Active) + (IF x \in ActivePCs THEN 1 ELSE 0)

LEMMA MoveCounts ==
  ASSUME pc \in [Workers -> WorkerPCs]
  PROVE  \A w \in Workers, x \in WorkerPCs : MovedCounts(w, x)
<1> SUFFICES ASSUME NEW w \in Workers, NEW x \in WorkerPCs, pc' = [pc EXCEPT ![w] = x]
             PROVE  MovedCounts(w, x)!2
  BY DEF MovedCounts
<1>1. Carrying' = {v \in Workers : [pc EXCEPT ![w] = x][v] \in CarryPCs}
      /\ Active' = {v \in Workers : [pc EXCEPT ![w] = x][v] \in ActivePCs}
  BY DEF Carrying, Active
<1>2. /\ Cardinality(Carrying) \in Nat
      /\ Cardinality({v \in Workers : [pc EXCEPT ![w] = x][v] \in CarryPCs}) \in Nat
      /\ Cardinality({v \in Workers : [pc EXCEPT ![w] = x][v] \in CarryPCs})
           + (IF pc[w] \in CarryPCs THEN 1 ELSE 0)
           = Cardinality(Carrying) + (IF x \in CarryPCs THEN 1 ELSE 0)
  BY Move DEF Carrying
<1>3. /\ Cardinality(Active) \in Nat
      /\ Cardinality({v \in Workers : [pc EXCEPT ![w] = x][v] \in ActivePCs}) \in Nat
      /\ Cardinality({v \in Workers : [pc EXCEPT ![w] = x][v] \in ActivePCs})
           + (IF pc[w] \in ActivePCs THEN 1 ELSE 0)
           = Cardinality(Active) + (IF x \in ActivePCs THEN 1 ELSE 0)
  BY Move DEF Active
<1>. QED BY <1>1, <1>2, <1>3

LEMMA InitIInv == Init => IInv
<1> SUFFICES ASSUME Init PROVE IInv
  OBVIOUS
<1>1. Carrying = {} /\ Active = {}
  BY DEF Init, Carrying, Active, CarryPCs, ActivePCs
<1>2. TypeOK
  <2>1. pc \in [Workers -> WorkerPCs] /\ held \in [Workers -> Streams]
        /\ failed \in [Workers -> BOOLEAN]
    BY DEF Init, WorkerPCs, Streams
  <2>2. idle \in 0 .. MaxStreams /\ chunkQ \in 0 .. ChunkCap /\ errQ \in 0 .. ErrCap
        /\ sent \in 0 .. NChunks /\ written \in 0 .. NChunks /\ created \in Int
    BY CapsNat, NChunksAssumption, MaxStreamsAssumption DEF Init
  <2>3. spc \in SenderPCs /\ cpc \in CloserPCs /\ crashed \in Panics
    BY DEF Init, SenderPCs, CloserPCs, Panics
  <2>. QED BY <2>1, <2>2, <2>3 DEF Init, TypeOK
<1>3. Cardinality(Carrying) = 0 /\ Cardinality(Active) = 0
  BY <1>1, FS_EmptySet
<1>4. ChunkCount
  BY <1>3 DEF Init, ChunkCount
<1>5. HeldShape
  BY DEF Init, HeldShape, HoldPCs
<1>6. created = idle + Cardinality(Active) /\ created <= MaxStreams
  BY <1>3, MaxStreamsAssumption DEF Init
<1>. QED BY <1>2, <1>4, <1>5, <1>6, NChunksAssumption DEF Init, IInv

-----------------------------------------------------------------------------
(* Each action preserves IInv.                                             *)

\* IInv' from its parts.
LEMMA IInvParts ==
  ASSUME TypeOK', (chanClosed => closed)', (cpc # "idle" => closed)',
         (spc = "put" => sent < NChunks)', ChunkCount',
         (~ closed => /\ HeldShape
                      /\ created = idle + Cardinality(Active)
                      /\ created <= MaxStreams)'
  PROVE  IInv'
BY DEF IInv

LEMMA WorkerTakeStep ==
  ASSUME IInv, NEW w \in Workers, WorkerTake(w)
  PROVE  IInv'
<1>1. pc[w] = "loop" /\ pc' = [pc EXCEPT ![w] = "acquire"] /\ chunkQ > 0
      /\ chunkQ' = chunkQ - 1
  BY DEF WorkerTake, Goto
<1>2. MovedCounts(w, "acquire")
  BY MoveCounts DEF IInv, TypeOK, WorkerPCs
<1>3. /\ Cardinality(Carrying) \in Nat
      /\ Cardinality(Carrying') = Cardinality(Carrying) + 1
      /\ Cardinality(Active') = Cardinality(Active)
  BY <1>1, <1>2 DEF MovedCounts, CarryPCs, ActivePCs
<1>4. TypeOK'
  BY <1>1, CapsNat DEF WorkerTake, poolVars, IInv, TypeOK, WorkerPCs
<1>5. ChunkCount'
  BY <1>1, <1>3 DEF WorkerTake, IInv, TypeOK, ChunkCount
<1>6. HeldShape' = HeldShape
  BY <1>1 DEF WorkerTake, HeldShape, HoldPCs
<1>. QED BY <1>3, <1>4, <1>5, <1>6, IInvParts DEF WorkerTake, poolVars, IInv

LEMMA WorkerExitStep ==
  ASSUME IInv, NEW w \in Workers, WorkerExit(w)
  PROVE  IInv'
<1>1. pc[w] = "loop" /\ pc' = [pc EXCEPT ![w] = "exit"]
  BY DEF WorkerExit, Goto
<1>2. MovedCounts(w, "exit")
  BY MoveCounts DEF IInv, TypeOK, WorkerPCs
<1>3. /\ Cardinality(Carrying') = Cardinality(Carrying)
      /\ Cardinality(Active') = Cardinality(Active)
  BY <1>1, <1>2 DEF MovedCounts, CarryPCs, ActivePCs
<1>4. TypeOK'
  BY <1>1 DEF WorkerExit, poolVars, writerVars, IInv, TypeOK, WorkerPCs
<1>5. ChunkCount'
  BY <1>3 DEF WorkerExit, writerVars, IInv, ChunkCount
<1>6. HeldShape' = HeldShape
  BY <1>1 DEF WorkerExit, HeldShape, HoldPCs
<1>. QED BY <1>3, <1>4, <1>5, <1>6, IInvParts DEF WorkerExit, poolVars, writerVars, IInv

LEMMA AcquireCheckStep ==
  ASSUME IInv, NEW w \in Workers, AcquireCheck(w)
  PROVE  IInv'
<1>1. pc[w] = "acquire"
  BY DEF AcquireCheck
<1>2. CASE closed
  <2>1. pc' = [pc EXCEPT ![w] = "report"] /\ failed' = [failed EXCEPT ![w] = TRUE]
    BY <1>2 DEF AcquireCheck
  <2>2. MovedCounts(w, "report")
    BY MoveCounts DEF IInv, TypeOK, WorkerPCs
  <2>3. /\ Cardinality(Carrying) \in Nat /\ Cardinality(Carrying') \in Nat
        /\ Cardinality(Carrying') + 1 = Cardinality(Carrying)
    BY <1>1, <2>1, <2>2 DEF MovedCounts, CarryPCs, ActivePCs
  <2>4. TypeOK'
    BY <2>1 DEF AcquireCheck, poolVars, writerVars, IInv, TypeOK, WorkerPCs
  <2>5. ChunkCount'
    BY <2>3 DEF AcquireCheck, writerVars, IInv, TypeOK, ChunkCount
  <2>. QED BY <1>2, <2>4, <2>5, IInvParts DEF AcquireCheck, poolVars, writerVars, IInv
<1>3. CASE ~ closed
  <2>1. pc' = [pc EXCEPT ![w] = "acq_try"] /\ failed' = failed
    BY <1>3 DEF AcquireCheck
  <2>2. MovedCounts(w, "acq_try")
    BY MoveCounts DEF IInv, TypeOK, WorkerPCs
  <2>3. /\ Cardinality(Carrying') = Cardinality(Carrying)
        /\ Cardinality(Active') = Cardinality(Active)
    BY <1>1, <2>1, <2>2 DEF MovedCounts, CarryPCs, ActivePCs
  <2>4. TypeOK'
    BY <2>1 DEF AcquireCheck, poolVars, writerVars, IInv, TypeOK, WorkerPCs
  <2>5. ChunkCount'
    BY <2>3 DEF AcquireCheck, writerVars, IInv, ChunkCount
  <2>6. HeldShape' = HeldShape
    BY <1>1, <2>1 DEF AcquireCheck, HeldShape, HoldPCs
  <2>. QED BY <2>3, <2>4, <2>5, <2>6, IInvParts DEF AcquireCheck, poolVars, writerVars, IInv
<1>. QED BY <1>2, <1>3

\* A worker whose pc and held move together keeps HeldShape.
LEMMA HeldStep ==
  ASSUME HeldShape, NEW w \in Workers, NEW x,
         pc' = [pc EXCEPT ![w] = x],
         held' = [held EXCEPT ![w] = IF x \in HoldPCs THEN "stream" ELSE "none"],
         pc \in [Workers -> WorkerPCs], held \in [Workers -> Streams]
  PROVE  HeldShape'
BY DEF HeldShape

\* Acquire takes a stream (or, after Close, the nil zero value) from the
\* pool's channel and goes on to WriteBatch.
LEMMA ReceiveStep ==
  ASSUME IInv, NEW w \in Workers, pc[w] \in {"acq_try", "acq_wait"},
         Receive(w), pc' = [pc EXCEPT ![w] = "write"],
         UNCHANGED <<closed, chanClosed, created, failed, writerVars, written, crashed>>
  PROVE  IInv'
<1>1. MovedCounts(w, "write")
  BY MoveCounts DEF IInv, TypeOK, WorkerPCs
<1>2. /\ Cardinality(Carrying') = Cardinality(Carrying)
      /\ Cardinality(Active') = Cardinality(Active) + 1
      /\ Cardinality(Active) \in Nat
  BY <1>1 DEF MovedCounts, CarryPCs, ActivePCs
<1>3. ChunkCount'
  BY <1>2 DEF writerVars, IInv, ChunkCount
<1>4. pc' \in [Workers -> WorkerPCs]
  BY DEF IInv, TypeOK, WorkerPCs
<1>5. CASE idle > 0 /\ idle' = idle - 1 /\ Hold(w, "stream")
  <2>1. idle' \in 0 .. MaxStreams
    <3>1. idle \in 0 .. MaxStreams
      BY DEF IInv, TypeOK
    <3>. QED BY <1>5, <3>1, MaxStreamsAssumption
  <2>2. held' \in [Workers -> Streams]
    BY <1>5 DEF Hold, IInv, TypeOK, Streams
  <2>3. TypeOK'
    BY <1>4, <2>1, <2>2 DEF writerVars, IInv, TypeOK
  <2>4. (~ closed => HeldShape)'
    BY <1>5, HeldStep DEF Hold, HoldPCs, IInv, TypeOK
  <2>5. (~ closed => created = idle + Cardinality(Active) /\ created <= MaxStreams)'
    BY <1>2, <1>5 DEF IInv, TypeOK
  <2>. QED BY <1>3, <2>3, <2>4, <2>5, IInvParts DEF writerVars, IInv
<1>6. CASE idle = 0 /\ chanClosed /\ Hold(w, "nil") /\ UNCHANGED idle
  <2>1. TypeOK'
    BY <1>4, <1>6 DEF Hold, writerVars, IInv, TypeOK, Streams
  <2>. QED BY <1>3, <1>6, <2>1, IInvParts DEF writerVars, IInv
<1>. QED BY <1>5, <1>6 DEF Receive

LEMMA AcquireTryStep ==
  ASSUME IInv, NEW w \in Workers, AcquireTry(w)
  PROVE  IInv'
<1>1. pc[w] = "acq_try" /\ UNCHANGED <<closed, chanClosed, created, failed, writerVars, written, crashed>>
  BY DEF AcquireTry
<1>2. CASE Receive(w) /\ pc' = [pc EXCEPT ![w] = "write"]
  BY <1>1, <1>2, ReceiveStep
<1>3. CASE idle = 0 /\ ~ chanClosed /\ pc' = [pc EXCEPT ![w] = "acq_create"]
           /\ UNCHANGED <<idle, held>>
  <2>1. MovedCounts(w, "acq_create")
    BY MoveCounts DEF IInv, TypeOK, WorkerPCs
  <2>2. /\ Cardinality(Carrying') = Cardinality(Carrying)
        /\ Cardinality(Active') = Cardinality(Active)
    BY <1>1, <1>3, <2>1 DEF MovedCounts, CarryPCs, ActivePCs
  <2>3. TypeOK'
    BY <1>1, <1>3 DEF writerVars, IInv, TypeOK, WorkerPCs
  <2>4. ChunkCount'
    BY <1>1, <2>2 DEF writerVars, IInv, ChunkCount
  <2>5. HeldShape' = HeldShape
    BY <1>1, <1>3 DEF HeldShape, HoldPCs
  <2>. QED BY <1>1, <1>3, <2>2, <2>3, <2>4, <2>5, IInvParts DEF writerVars, IInv
<1>. QED BY <1>2, <1>3 DEF AcquireTry

LEMMA AcquireCreateStep ==
  ASSUME IInv, NEW w \in Workers, AcquireCreate(w)
  PROVE  IInv'
<1>1. pc[w] = "acq_create" /\ UNCHANGED <<closed, chanClosed, idle, held, failed, writerVars, written, crashed>>
  BY DEF AcquireCreate
<1>0. closed' = closed /\ idle' = idle
  BY <1>1
<1>2. CASE created < MaxStreams
  <2>1. created' = created + 1 /\ pc' = [pc EXCEPT ![w] = "opening"]
    BY <1>2 DEF AcquireCreate
  <2>2. MovedCounts(w, "opening")
    BY MoveCounts DEF IInv, TypeOK, WorkerPCs
  <2>3. /\ Cardinality(Carrying') = Cardinality(Carrying)
        /\ Cardinality(Active') = Cardinality(Active) + 1
        /\ Cardinality(Active) \in Nat
    BY <1>1, <2>1, <2>2 DEF MovedCounts, CarryPCs, ActivePCs
  <2>4. TypeOK'
    BY <1>1, <2>1 DEF writerVars, IInv, TypeOK, WorkerPCs
  <2>5. ChunkCount'
    BY <1>1, <2>3 DEF writerVars, IInv, ChunkCount
  <2>6. HeldShape' = HeldShape
    BY <1>1, <2>1 DEF HeldShape, HoldPCs
  <2>7. (~ closed => created = idle + Cardinality(Active) /\ created <= MaxStreams)'
    BY <1>0, <1>2, <2>1, <2>3, MaxStreamsAssumption DEF IInv, TypeOK
  <2>. QED BY <1>1, <2>4, <2>5, <2>6, <2>7, IInvParts DEF writerVars, IInv
<1>3. CASE ~ (created < MaxStreams)
  <2>1. created' = created /\ pc' = [pc EXCEPT ![w] = "acq_wait"]
    BY <1>3 DEF AcquireCreate
  <2>2. MovedCounts(w, "acq_wait")
    BY MoveCounts DEF IInv, TypeOK, WorkerPCs
  <2>3. /\ Cardinality(Carrying') = Cardinality(Carrying)
        /\ Cardinality(Active') = Cardinality(Active)
    BY <1>1, <2>1, <2>2 DEF MovedCounts, CarryPCs, ActivePCs
  <2>4. TypeOK'
    BY <1>1, <2>1 DEF writerVars, IInv, TypeOK, WorkerPCs
  <2>5. ChunkCount'
    BY <1>1, <2>3 DEF writerVars, IInv, ChunkCount
  <2>6. HeldShape' = HeldShape
    BY <1>1, <2>1 DEF HeldShape, HoldPCs
  <2>. QED BY <1>1, <2>1, <2>3, <2>4, <2>5, <2>6, IInvParts DEF writerVars, IInv
<1>. QED BY <1>2, <1>3

LEMMA AcquireOpenStep ==
  ASSUME IInv, NEW w \in Workers, AcquireOpen(w)
  PROVE  IInv'
<1>1. pc[w] = "opening" /\ UNCHANGED <<closed, chanClosed, idle, writerVars, written, crashed>>
  BY DEF AcquireOpen
<1>2. CASE Hold(w, "stream") /\ pc' = [pc EXCEPT ![w] = "write"]
           /\ UNCHANGED <<created, failed>>
  <2>1. MovedCounts(w, "write")
    BY MoveCounts DEF IInv, TypeOK, WorkerPCs
  <2>2. /\ Cardinality(Carrying') = Cardinality(Carrying)
        /\ Cardinality(Active') = Cardinality(Active)
    BY <1>1, <1>2, <2>1 DEF MovedCounts, CarryPCs, ActivePCs
  <2>3. TypeOK'
    BY <1>1, <1>2 DEF Hold, writerVars, IInv, TypeOK, WorkerPCs, Streams
  <2>4. ChunkCount'
    BY <1>1, <2>2 DEF writerVars, IInv, ChunkCount
  <2>5. (~ closed => HeldShape)'
    BY <1>1, <1>2, HeldStep DEF Hold, HoldPCs, IInv, TypeOK
  <2>6. (~ closed => created = idle + Cardinality(Active) /\ created <= MaxStreams)'
    BY <1>1, <1>2, <2>2 DEF IInv
  <2>. QED BY <1>1, <2>3, <2>4, <2>5, <2>6, IInvParts DEF writerVars, IInv
<1>3. CASE OpenMayFail /\ created' = created - 1 /\ pc' = [pc EXCEPT ![w] = "report"]
           /\ failed' = [failed EXCEPT ![w] = TRUE] /\ UNCHANGED held
  <2>1. MovedCounts(w, "report")
    BY MoveCounts DEF IInv, TypeOK, WorkerPCs
  <2>2. /\ Cardinality(Carrying') + 1 = Cardinality(Carrying)
        /\ Cardinality(Active') + 1 = Cardinality(Active)
        /\ Cardinality(Carrying') \in Nat /\ Cardinality(Active') \in Nat
        /\ Cardinality(Active) \in Nat
    BY <1>1, <1>3, <2>1 DEF MovedCounts, CarryPCs, ActivePCs
  <2>3. TypeOK'
    BY <1>1, <1>3 DEF writerVars, IInv, TypeOK, WorkerPCs
  <2>4. ChunkCount'
    BY <1>1, <2>2 DEF writerVars, IInv, TypeOK, ChunkCount
  <2>5. (~ closed => HeldShape)'
    BY <1>1, <1>3 DEF HeldShape, HoldPCs, IInv
  <2>6. (~ closed => created = idle + Cardinality(Active) /\ created <= MaxStreams)'
    BY <1>1, <1>3, <2>2, MaxStreamsAssumption DEF IInv, TypeOK
  <2>. QED BY <1>1, <2>3, <2>4, <2>5, <2>6, IInvParts DEF writerVars, IInv
<1>. QED BY <1>2, <1>3 DEF AcquireOpen

LEMMA AcquireWaitStep ==
  ASSUME IInv, NEW w \in Workers, AcquireWait(w)
  PROVE  IInv'
<1>1. pc[w] = "acq_wait" /\ UNCHANGED <<closed, chanClosed, created, writerVars, written, crashed>>
  BY DEF AcquireWait
<1>2. CASE Receive(w) /\ pc' = [pc EXCEPT ![w] = "write"] /\ UNCHANGED failed
  BY <1>1, <1>2, ReceiveStep
<1>3. CASE ctxDone /\ pc' = [pc EXCEPT ![w] = "report"]
           /\ failed' = [failed EXCEPT ![w] = TRUE] /\ UNCHANGED <<idle, held>>
  <2>1. MovedCounts(w, "report")
    BY MoveCounts DEF IInv, TypeOK, WorkerPCs
  <2>2. /\ Cardinality(Carrying') + 1 = Cardinality(Carrying)
        /\ Cardinality(Active') = Cardinality(Active)
        /\ Cardinality(Carrying') \in Nat
    BY <1>1, <1>3, <2>1 DEF MovedCounts, CarryPCs, ActivePCs
  <2>3. TypeOK'
    BY <1>1, <1>3 DEF writerVars, IInv, TypeOK, WorkerPCs
  <2>4. ChunkCount'
    BY <1>1, <2>2 DEF writerVars, IInv, TypeOK, ChunkCount
  <2>5. HeldShape' = HeldShape
    BY <1>1, <1>3 DEF HeldShape, HoldPCs
  <2>. QED BY <1>1, <1>3, <2>2, <2>3, <2>4, <2>5, IInvParts DEF writerVars, IInv
<1>. QED BY <1>2, <1>3 DEF AcquireWait

LEMMA WriteStep ==
  ASSUME IInv, NEW w \in Workers, Write(w)
  PROVE  IInv'
<1>1. pc[w] = "write" /\ UNCHANGED <<poolVars, held, writerVars>>
  BY DEF Write
<1>2. CASE held[w] = "nil"
  <2>1. crashed' = "nil_stream" /\ UNCHANGED <<pc, failed, written>>
    BY <1>2 DEF Write
  <2>2. TypeOK'
    BY <1>1, <2>1 DEF poolVars, writerVars, IInv, TypeOK, Panics
  <2>3. Carrying' = Carrying /\ Active' = Active /\ HeldShape' = HeldShape
    BY <1>1, <2>1 DEF Carrying, Active, HeldShape
  <2>. QED BY <1>1, <2>1, <2>2, <2>3, IInvParts DEF poolVars, writerVars, IInv, ChunkCount
<1>3. CASE held[w] # "nil"
  <2>1. pc' = [pc EXCEPT ![w] = "release"] /\ crashed' = crashed
        /\ \/ written' = written + 1 /\ UNCHANGED failed
           \/ failed' = [failed EXCEPT ![w] = TRUE] /\ UNCHANGED written
    BY <1>3 DEF Write
  <2>2. MovedCounts(w, "release")
    BY MoveCounts DEF IInv, TypeOK, WorkerPCs
  <2>3. /\ Cardinality(Carrying') + 1 = Cardinality(Carrying)
        /\ Cardinality(Active') = Cardinality(Active)
        /\ Cardinality(Carrying') \in Nat
    BY <1>1, <2>1, <2>2 DEF MovedCounts, CarryPCs, ActivePCs
  <2>4. ChunkCount' /\ written' \in 0 .. NChunks
    BY <1>1, <2>1, <2>3, NChunksAssumption DEF writerVars, IInv, TypeOK, ChunkCount
  <2>5. TypeOK'
    BY <1>1, <2>1, <2>4 DEF poolVars, writerVars, IInv, TypeOK, WorkerPCs
  <2>6. HeldShape' = HeldShape
    BY <1>1, <2>1 DEF HeldShape, HoldPCs
  <2>. QED BY <1>1, <2>3, <2>4, <2>5, <2>6, IInvParts DEF poolVars, writerVars, IInv
<1>. QED BY <1>2, <1>3

\* Where a worker goes after Release neither carries a chunk nor holds a
\* stream.
LEMMA AfterReleaseType ==
  ASSUME NEW w \in Workers
  PROVE  /\ AfterRelease(w) \in WorkerPCs
         /\ AfterRelease(w) \notin CarryPCs \cup ActivePCs \cup HoldPCs
BY DEF AfterRelease, WorkerPCs, CarryPCs, ActivePCs, HoldPCs

LEMMA ReleaseCheckStep ==
  ASSUME IInv, NEW w \in Workers, ReleaseCheck(w)
  PROVE  IInv'
<1>1. pc[w] = "release" /\ UNCHANGED <<poolVars, failed, writerVars, written, crashed>>
  BY DEF ReleaseCheck
<1>2. CASE closed
  <2>1. pc' = [pc EXCEPT ![w] = AfterRelease(w)] /\ held' = [held EXCEPT ![w] = "none"]
    BY <1>2 DEF ReleaseCheck, Hold
  <2>2. MovedCounts(w, AfterRelease(w))
    BY MoveCounts, AfterReleaseType DEF IInv, TypeOK
  <2>3. Cardinality(Carrying') = Cardinality(Carrying)
    BY <1>1, <2>1, <2>2, AfterReleaseType DEF MovedCounts, CarryPCs
  <2>4. TypeOK'
    BY <1>1, <2>1, AfterReleaseType DEF poolVars, writerVars, IInv, TypeOK, Streams
  <2>5. ChunkCount'
    BY <1>1, <2>3 DEF writerVars, IInv, ChunkCount
  <2>. QED BY <1>1, <1>2, <2>4, <2>5, IInvParts DEF poolVars, writerVars, IInv
<1>3. CASE ~ closed
  <2>1. pc' = [pc EXCEPT ![w] = "rel_send"] /\ held' = held
    BY <1>3 DEF ReleaseCheck
  <2>2. MovedCounts(w, "rel_send")
    BY MoveCounts DEF IInv, TypeOK, WorkerPCs
  <2>3. /\ Cardinality(Carrying') = Cardinality(Carrying)
        /\ Cardinality(Active') = Cardinality(Active)
    BY <1>1, <2>1, <2>2 DEF MovedCounts, CarryPCs, ActivePCs
  <2>4. TypeOK'
    BY <1>1, <2>1 DEF poolVars, writerVars, IInv, TypeOK, WorkerPCs
  <2>5. ChunkCount'
    BY <1>1, <2>3 DEF writerVars, IInv, ChunkCount
  <2>6. HeldShape' = HeldShape
    BY <1>1, <2>1 DEF HeldShape, HoldPCs
  <2>. QED BY <1>1, <2>3, <2>4, <2>5, <2>6, IInvParts DEF poolVars, writerVars, IInv
<1>. QED BY <1>2, <1>3

LEMMA ReleaseSendStep ==
  ASSUME IInv, NEW w \in Workers, ReleaseSend(w)
  PROVE  IInv'
<1>1. pc[w] = "rel_send" /\ UNCHANGED <<closed, chanClosed, failed, writerVars, written>>
  BY DEF ReleaseSend
<1>2. CASE chanClosed
  <2>1. crashed' = "send_on_closed" /\ UNCHANGED <<pc, held, idle, created>>
    BY <1>2 DEF ReleaseSend
  <2>2. TypeOK'
    BY <1>1, <2>1 DEF writerVars, IInv, TypeOK, Panics
  <2>3. Carrying' = Carrying
    BY <2>1 DEF Carrying
  <2>. QED BY <1>1, <1>2, <2>2, <2>3, IInvParts DEF writerVars, IInv, ChunkCount
<1>3. CASE ~ chanClosed
  <2>1. /\ pc' = [pc EXCEPT ![w] = AfterRelease(w)]
        /\ held' = [held EXCEPT ![w] = "none"]
        /\ crashed' = crashed
        /\ \/ idle < MaxStreams /\ idle' = idle + 1 /\ created' = created
           \/ ~ (idle < MaxStreams) /\ created' = created - 1 /\ idle' = idle
    BY <1>3 DEF ReleaseSend, Hold
  <2>2. MovedCounts(w, AfterRelease(w))
    BY MoveCounts, AfterReleaseType DEF IInv, TypeOK
  <2>3. /\ Cardinality(Carrying') = Cardinality(Carrying)
        /\ Cardinality(Active') + 1 = Cardinality(Active)
        /\ Cardinality(Active) \in Nat /\ Cardinality(Active') \in Nat
    BY <1>1, <2>1, <2>2, AfterReleaseType DEF MovedCounts, CarryPCs, ActivePCs
  <2>4. TypeOK'
    <3>1. idle' \in 0 .. MaxStreams /\ created' \in Int
      BY <2>1, MaxStreamsAssumption DEF IInv, TypeOK
    <3>2. pc' \in [Workers -> WorkerPCs] /\ held' \in [Workers -> Streams]
      BY <2>1, AfterReleaseType DEF IInv, TypeOK, Streams
    <3>. QED BY <1>1, <2>1, <3>1, <3>2 DEF writerVars, IInv, TypeOK
  <2>5. ChunkCount'
    BY <1>1, <2>3 DEF writerVars, IInv, ChunkCount
  <2>6. (~ closed => HeldShape)'
    <3>1. held' = [held EXCEPT ![w] = IF AfterRelease(w) \in HoldPCs THEN "stream" ELSE "none"]
      BY <2>1, AfterReleaseType
    <3>. QED BY <1>1, <2>1, <3>1, HeldStep DEF IInv, TypeOK
  <2>7. (~ closed => created = idle + Cardinality(Active) /\ created <= MaxStreams)'
    BY <1>1, <2>1, <2>3, MaxStreamsAssumption DEF IInv, TypeOK
  <2>. QED BY <1>1, <2>1, <2>4, <2>5, <2>6, <2>7, IInvParts DEF writerVars, IInv
<1>. QED BY <1>2, <1>3

LEMMA ReportStep ==
  ASSUME IInv, NEW w \in Workers, Report(w)
  PROVE  IInv'
<1>1. /\ pc[w] = "report" /\ pc' = [pc EXCEPT ![w] = "loop"]
      /\ errQ' = IF errQ < ErrCap THEN errQ + 1 ELSE errQ
      /\ failed' = [failed EXCEPT ![w] = FALSE]
      /\ UNCHANGED <<poolVars, held, chunkQ, chunkClosed, spc, sent, written, cpc, ctxDone, crashed>>
  BY DEF Report, Goto
<1>2. MovedCounts(w, "loop")
  BY MoveCounts DEF IInv, TypeOK, WorkerPCs
<1>3. /\ Cardinality(Carrying') = Cardinality(Carrying)
      /\ Cardinality(Active') = Cardinality(Active)
  BY <1>1, <1>2 DEF MovedCounts, CarryPCs, ActivePCs
<1>4. TypeOK'
  BY <1>1, CapsNat DEF poolVars, IInv, TypeOK, WorkerPCs
<1>5. ChunkCount'
  BY <1>1, <1>3 DEF IInv, ChunkCount
<1>6. HeldShape' = HeldShape
  BY <1>1 DEF HeldShape, HoldPCs
<1>. QED BY <1>1, <1>3, <1>4, <1>5, <1>6, IInvParts DEF poolVars, IInv

\* The sender, the closer and cancellation leave the workers alone.
LEMMA WorkersFrame ==
  ASSUME pc' = pc, held' = held
  PROVE  Carrying' = Carrying /\ Active' = Active /\ HeldShape' = HeldShape
BY DEF Carrying, Active, HeldShape

LEMMA SendCheckStep ==
  ASSUME IInv, SendCheck
  PROVE  IInv'
<1>1. /\ spc = "send" /\ sent < NChunks
      /\ \/ errQ > 0 /\ errQ' = errQ - 1 /\ spc' = "failed"
         \/ errQ = 0 /\ spc' = "put" /\ errQ' = errQ
      /\ UNCHANGED <<poolVars, pc, held, failed, chunkQ, chunkClosed, sent,
                     written, cpc, ctxDone, crashed>>
  BY DEF SendCheck, IInv, TypeOK
<1>2. TypeOK'
  BY <1>1, CapsNat DEF poolVars, IInv, TypeOK, SenderPCs
<1>. QED BY <1>1, <1>2, WorkersFrame, IInvParts DEF poolVars, IInv, ChunkCount

LEMMA SendPutStep ==
  ASSUME IInv, SendPut
  PROVE  IInv'
<1>1. /\ spc = "put" /\ chunkQ < ChunkCap
      /\ chunkQ' = chunkQ + 1 /\ sent' = sent + 1 /\ spc' = "send"
      /\ UNCHANGED <<poolVars, pc, held, failed, chunkClosed, errQ, written,
                     cpc, ctxDone, crashed>>
  BY DEF SendPut
<1>2. sent < NChunks
  BY <1>1 DEF IInv
<1>3. TypeOK'
  BY <1>1, <1>2, CapsNat, NChunksAssumption DEF poolVars, IInv, TypeOK, SenderPCs
<1>4. Cardinality(Carrying) \in Nat
  BY CountsNat DEF IInv, TypeOK, Carrying
<1>5. ChunkCount'
  BY <1>1, <1>4, WorkersFrame DEF IInv, TypeOK, ChunkCount
<1>. QED BY <1>1, <1>3, <1>5, WorkersFrame, IInvParts DEF poolVars, IInv

LEMMA WaitCloseStep ==
  ASSUME IInv, WaitClose
  PROVE  IInv'
<1>1. /\ spc = "send" /\ chunkClosed' = TRUE /\ spc' = "waiting"
      /\ UNCHANGED <<poolVars, pc, held, failed, chunkQ, errQ, sent, written,
                     cpc, ctxDone, crashed>>
  BY DEF WaitClose
<1>2. TypeOK'
  BY <1>1 DEF poolVars, IInv, TypeOK, SenderPCs
<1>. QED BY <1>1, <1>2, WorkersFrame, IInvParts DEF poolVars, IInv, ChunkCount

LEMMA WaitJoinStep ==
  ASSUME IInv, WaitJoin
  PROVE  IInv'
<1>1. /\ spc = "waiting"
      /\ \/ errQ > 0 /\ errQ' = errQ - 1 /\ spc' = "failed"
         \/ errQ = 0 /\ spc' = "ok" /\ errQ' = errQ
      /\ UNCHANGED <<poolVars, pc, held, failed, chunkQ, chunkClosed, sent,
                     written, cpc, ctxDone, crashed>>
  BY DEF WaitJoin, IInv, TypeOK
<1>2. TypeOK'
  BY <1>1, CapsNat DEF poolVars, IInv, TypeOK, SenderPCs
<1>. QED BY <1>1, <1>2, WorkersFrame, IInvParts DEF poolVars, IInv, ChunkCount

LEMMA CloseSwapStep ==
  ASSUME IInv, CloseSwap
  PROVE  IInv'
<1>1. /\ closed' = TRUE /\ cpc' = "closing"
      /\ UNCHANGED <<chanClosed, idle, created, pc, held, failed, chunkQ,
                     chunkClosed, errQ, spc, sent, written, ctxDone, crashed>>
  BY DEF CloseSwap
<1>2. TypeOK'
  BY <1>1 DEF IInv, TypeOK, CloserPCs
<1>. QED BY <1>1, <1>2, WorkersFrame, IInvParts DEF IInv, ChunkCount

LEMMA CloseChannelStep ==
  ASSUME IInv, CloseChannel
  PROVE  IInv'
<1>1. /\ cpc = "closing" /\ chanClosed' = TRUE /\ cpc' = "draining"
      /\ UNCHANGED <<closed, idle, created, pc, held, failed, chunkQ,
                     chunkClosed, errQ, spc, sent, written, ctxDone, crashed>>
  BY DEF CloseChannel
<1>2. closed
  BY <1>1 DEF IInv
<1>3. TypeOK'
  BY <1>1 DEF IInv, TypeOK, CloserPCs
<1>. QED BY <1>1, <1>2, <1>3, WorkersFrame, IInvParts DEF IInv, ChunkCount

LEMMA CloseDrainStep ==
  ASSUME IInv, CloseDrain
  PROVE  IInv'
<1>1. /\ cpc = "draining"
      /\ \/ idle > 0 /\ idle' = idle - 1 /\ cpc' = cpc
         \/ idle = 0 /\ cpc' = "done" /\ idle' = idle
      /\ UNCHANGED <<closed, chanClosed, created, pc, held, failed, chunkQ,
                     chunkClosed, errQ, spc, sent, written, ctxDone, crashed>>
  BY DEF CloseDrain, IInv, TypeOK
<1>2. closed
  BY <1>1 DEF IInv
<1>3. TypeOK'
  BY <1>1, MaxStreamsAssumption DEF IInv, TypeOK, CloserPCs
<1>. QED BY <1>1, <1>2, <1>3, WorkersFrame, IInvParts DEF IInv, ChunkCount

LEMMA CancelStep ==
  ASSUME IInv, Cancel
  PROVE  IInv'
<1>1. /\ ctxDone' = TRUE
      /\ UNCHANGED <<poolVars, pc, held, failed, chunkQ, chunkClosed, errQ,
                     spc, sent, written, cpc, crashed>>
  BY DEF Cancel
<1>2. TypeOK'
  BY <1>1 DEF poolVars, IInv, TypeOK
<1>. QED BY <1>1, <1>2, WorkersFrame, IInvParts DEF poolVars, IInv, ChunkCount

LEMMA StepIInv == IInv /\ [Next]_vars => IInv'
<1> SUFFICES ASSUME IInv, [Next]_vars PROVE IInv'
  OBVIOUS
<1>1. ASSUME NEW w \in Workers, Worker(w) PROVE IInv'
  BY <1>1, WorkerTakeStep, WorkerExitStep, AcquireCheckStep, AcquireTryStep,
     AcquireCreateStep, AcquireOpenStep, AcquireWaitStep, WriteStep,
     ReleaseCheckStep, ReleaseSendStep, ReportStep DEF Worker
<1>2. CASE Sender
  BY <1>2, SendCheckStep, SendPutStep, WaitCloseStep, WaitJoinStep DEF Sender
<1>3. CASE Closer
  BY <1>3, CloseSwapStep, CloseChannelStep, CloseDrainStep DEF Closer
<1>4. CASE Cancel
  BY <1>4, CancelStep
<1>5. CASE UNCHANGED vars
  <2>1. UNCHANGED <<closed, chanClosed, idle, created, pc, held, failed, chunkQ,
                    chunkClosed, errQ, spc, sent, written, cpc, ctxDone, crashed>>
    BY <1>5 DEF vars
  <2>2. TypeOK'
    BY <2>1 DEF IInv, TypeOK
  <2>. QED BY <2>1, <2>2, WorkersFrame, IInvParts DEF IInv, ChunkCount
<1>. QED BY <1>1, <1>2, <1>3, <1>4, <1>5 DEF Next

\* While the pool is open, the streams it answers for are those Active
\* counts.
LEMMA InUseActive == IInv /\ ~ closed => InUse = Active
BY DEF IInv, HeldShape, InUse, Active, HoldPCs, ActivePCs

LEMMA IInvPoolAccounting == IInv => PoolAccounting
BY InUseActive DEF IInv, PoolAccounting

-----------------------------------------------------------------------------
(* Delivery.  Without cancellation, a Send that returns nil has had every  *)
(* chunk written.  Every chunk Send queued is still queued, carried, written *)
(* or held by a worker whose sendChunk failed (Failed); a failed worker     *)
(* reports to errChan before it takes another chunk, and an error in       *)
(* errChan stays there until Send or Wait returns it, so while Send runs     *)
(* either errChan is non-empty or the count is exact (Tally).  Wait's join *)
(* sees every worker at exit, which happens only once the chunk channel is *)
(* closed and empty (ExitDrained), so nothing is carried, failed or queued. *)

Failed == {w \in Workers : failed[w]}

Accounted == written + chunkQ + Cardinality(Carrying) + Cardinality(Failed)

FailedAt ==
    \A w \in Workers : /\ failed[w] => pc[w] \in {"release", "rel_send", "report"}
                       /\ pc[w] = "report" => failed[w]

Tally == spc \in {"send", "put", "waiting"} => errQ > 0 \/ Accounted = sent

SenderClosed == chunkClosed => spc \in {"waiting", "ok", "failed"}

ExitDrained == \A w \in Workers : pc[w] = "exit" => chunkQ = 0 /\ chunkClosed

AllSent == spc \in {"waiting", "ok"} => sent = NChunks

DInv ==
    /\ ~ ctxDone
    /\ FailedAt
    /\ Tally
    /\ SenderClosed
    /\ ExitDrained
    /\ AllSent
    /\ SuccessMeansDelivered

LEMMA FailedNat ==
  ASSUME failed \in [Workers -> BOOLEAN]
  PROVE  Cardinality(Failed) \in Nat
BY WorkersAssumption, FS_Subset, FS_CardinalityType DEF Failed

\* Setting w's failed flag to b changes Failed by w's membership only.
FlaggedCounts(w, b) ==
    failed' = [failed EXCEPT ![w] = b] =>
        /\ Cardinality(Failed) \in Nat /\ Cardinality(Failed') \in Nat
        /\ Cardinality(Failed') + (IF failed[w] THEN 1 ELSE 0)
             = Cardinality(Failed) + (IF b THEN 1 ELSE 0)

LEMMA FlagCounts ==
  ASSUME failed \in [Workers -> BOOLEAN]
  PROVE  \A w \in Workers, b \in BOOLEAN : FlaggedCounts(w, b)
<1> SUFFICES ASSUME NEW w \in Workers, NEW b \in BOOLEAN,
                    failed' = [failed EXCEPT ![w] = b]
             PROVE  FlaggedCounts(w, b)!2
  BY DEF FlaggedCounts
<1>1. Failed \in SUBSET Workers /\ Failed' \in SUBSET Workers
  BY DEF Failed
<1>2. Failed \ {w} = Failed' \ {w}
  BY DEF Failed
<1>3. (w \in Failed <=> failed[w]) /\ (w \in Failed' <=> b)
  BY DEF Failed
<1>. QED BY <1>1, <1>2, <1>3, WorkersAssumption, CardSwap

LEMMA ErrCapPositive == ErrCap \in Nat \ {0}
<1>1. IsFiniteSet(Workers) /\ Cardinality(Workers) \in Nat
  BY WorkersAssumption, FS_CardinalityType
<1>2. Cardinality(Workers) # 0
  BY <1>1, WorkersAssumption, FS_EmptySet
<1>. QED BY <1>1, <1>2 DEF ErrCap

LEMMA InitDInv == Init => DInv
<1> SUFFICES ASSUME Init PROVE DInv
  OBVIOUS
<1>1. Carrying = {} /\ Failed = {}
  BY DEF Init, Carrying, Failed, CarryPCs
<1>2. Accounted = 0
  BY <1>1, FS_EmptySet DEF Init, Accounted
<1>. QED BY <1>2 DEF Init, DInv, FailedAt, Tally, SenderClosed, ExitDrained,
                    AllSent, SuccessMeansDelivered

LEMMA DParts ==
  ASSUME (~ ctxDone)', FailedAt', Tally', SenderClosed', ExitDrained', AllSent',
         SuccessMeansDelivered'
  PROVE  DInv'
BY DEF DInv

\* A worker step leaves the sender's conjuncts alone.
LEMMA SenderFrame ==
  ASSUME DInv, UNCHANGED <<ctxDone, chunkClosed, spc, sent>>
  PROVE  (~ ctxDone)' /\ SenderClosed' /\ AllSent'
BY DEF DInv, SenderClosed, AllSent

\* Worker w moves to x with its failed flag set to b, and its chunk stays
\* accounted for: carried before and after, or carried and now failed, or
\* neither.
MovedAccount(w, x, b) ==
    /\ pc' = [pc EXCEPT ![w] = x]
    /\ failed' = [failed EXCEPT ![w] = b]
    /\ UNCHANGED <<chunkQ, chunkClosed, errQ, spc, sent, written, ctxDone>>
    /\ (b => x \in {"release", "rel_send", "report"})
    /\ (x = "report" => b)
    /\ (pc[w] \in CarryPCs \/ failed[w]) = (x \in CarryPCs \/ b)
    /\ x # "exit"

LEMMA MoveAccount ==
  ASSUME IInv, DInv, NEW w \in Workers, NEW x \in WorkerPCs, NEW b \in BOOLEAN,
         MovedAccount(w, x, b)
  PROVE  DInv'
<1>1. MovedCounts(w, x) /\ FlaggedCounts(w, b)
  BY MoveCounts, FlagCounts DEF IInv, TypeOK
<1>2. /\ pc[w] \in CarryPCs => ~ failed[w]
      /\ x \in CarryPCs => ~ b
  BY DEF DInv, FailedAt, CarryPCs, MovedAccount
<1>3. Accounted' = Accounted
  BY <1>1, <1>2 DEF MovedAccount, MovedCounts, FlaggedCounts, Accounted, IInv, TypeOK
<1>4. FailedAt'
  BY DEF MovedAccount, DInv, FailedAt, IInv, TypeOK
<1>5. Tally'
  BY <1>3 DEF MovedAccount, DInv, Tally
<1>6. ExitDrained'
  BY DEF MovedAccount, DInv, ExitDrained, IInv, TypeOK
<1>7. SuccessMeansDelivered'
  BY DEF MovedAccount, DInv, SuccessMeansDelivered
<1>. QED BY <1>4, <1>5, <1>6, <1>7, SenderFrame, DParts DEF MovedAccount

\* A worker step that keeps its failed flag.
LEMMA KeepAccount ==
  ASSUME IInv, DInv, NEW w \in Workers, NEW x \in WorkerPCs,
         pc' = [pc EXCEPT ![w] = x], failed' = failed,
         UNCHANGED <<chunkQ, chunkClosed, errQ, spc, sent, written, ctxDone>>,
         x \notin {"exit", "report"}, pc[w] # "report",
         pc[w] \in {"release", "rel_send"} => x \in {"release", "rel_send"},
         pc[w] \in CarryPCs <=> x \in CarryPCs
  PROVE  DInv'
<1>1. failed' = [failed EXCEPT ![w] = failed[w]] /\ failed[w] \in BOOLEAN
  BY DEF IInv, TypeOK
<1>2. failed[w] => x \in {"release", "rel_send", "report"}
  BY DEF DInv, FailedAt
<1>. QED BY <1>1, <1>2, MoveAccount DEF MovedAccount

\* A worker step that gives up on its chunk with an error.
LEMMA FailAccount ==
  ASSUME IInv, DInv, NEW w \in Workers, NEW x \in {"release", "report"},
         pc[w] \in CarryPCs,
         pc' = [pc EXCEPT ![w] = x], failed' = [failed EXCEPT ![w] = TRUE],
         UNCHANGED <<chunkQ, chunkClosed, errQ, spc, sent, written, ctxDone>>
  PROVE  DInv'
BY MoveAccount DEF MovedAccount, WorkerPCs, CarryPCs

\* Release returns: to report when sendChunk failed, else to the loop.
LEMMA ReleaseAccount ==
  ASSUME IInv, DInv, NEW w \in Workers, pc[w] \in {"release", "rel_send"},
         pc' = [pc EXCEPT ![w] = AfterRelease(w)], failed' = failed,
         UNCHANGED <<chunkQ, chunkClosed, errQ, spc, sent, written, ctxDone>>
  PROVE  DInv'
<1>1. failed' = [failed EXCEPT ![w] = failed[w]] /\ failed[w] \in BOOLEAN
  BY DEF IInv, TypeOK
<1>2. AfterRelease(w) \in WorkerPCs
  BY AfterReleaseType
<1>. QED BY <1>1, <1>2, MoveAccount DEF MovedAccount, AfterRelease, CarryPCs

LEMMA WorkerDStep ==
  ASSUME IInv, DInv, TypeOK', ~ CancelAllowed, NEW w \in Workers, Worker(w)
  PROVE  DInv'
<1>0. ~ ctxDone /\ pc \in [Workers -> WorkerPCs] /\ failed \in [Workers -> BOOLEAN]
  BY DEF DInv, IInv, TypeOK
<1>1. CASE WorkerTake(w)
  <2>1. /\ pc[w] = "loop" /\ pc' = [pc EXCEPT ![w] = "acquire"]
        /\ chunkQ > 0 /\ chunkQ' = chunkQ - 1
        /\ UNCHANGED <<failed, chunkClosed, errQ, spc, sent, written, ctxDone>>
    BY <1>1 DEF WorkerTake, Goto
  <2>2. MovedCounts(w, "acquire")
    BY <1>0, MoveCounts DEF WorkerPCs
  <2>3. Accounted' = Accounted
    BY <1>0, <2>1, <2>2, FailedNat DEF MovedCounts, CarryPCs, Accounted, Failed, IInv, TypeOK
  <2>4. \A v \in Workers : pc[v] # "exit"
    BY <2>1 DEF DInv, ExitDrained
  <2>. QED BY <1>0, <2>1, <2>3, <2>4, SenderFrame, DParts
           DEF DInv, FailedAt, Tally, ExitDrained, SuccessMeansDelivered
<1>2. CASE WorkerExit(w)
  <2>1. /\ pc[w] = "loop" /\ pc' = [pc EXCEPT ![w] = "exit"]
        /\ chunkQ = 0 /\ chunkClosed
        /\ UNCHANGED <<failed, chunkQ, chunkClosed, errQ, spc, sent, written, ctxDone>>
    BY <1>0, <1>2 DEF WorkerExit, Goto, writerVars
  <2>2. MovedCounts(w, "exit")
    BY <1>0, MoveCounts DEF WorkerPCs
  <2>3. Accounted' = Accounted
    BY <1>0, <2>1, <2>2 DEF MovedCounts, CarryPCs, Accounted, Failed
  <2>. QED BY <1>0, <2>1, <2>3, SenderFrame, DParts
           DEF DInv, FailedAt, Tally, ExitDrained, SuccessMeansDelivered
<1>3. CASE AcquireCheck(w)
  <2>1. pc[w] = "acquire" /\ UNCHANGED <<chunkQ, chunkClosed, errQ, spc, sent, written, ctxDone>>
    BY <1>3 DEF AcquireCheck, writerVars
  <2>2. CASE closed
    BY <1>3, <2>1, <2>2, FailAccount DEF AcquireCheck, CarryPCs
  <2>3. CASE ~ closed
    BY <1>3, <2>1, <2>3, KeepAccount DEF AcquireCheck, CarryPCs, WorkerPCs
  <2>. QED BY <2>2, <2>3
<1>4. CASE AcquireTry(w)
  <2>1. pc[w] = "acq_try" /\ UNCHANGED <<failed, chunkQ, chunkClosed, errQ, spc, sent, written, ctxDone>>
    BY <1>4 DEF AcquireTry, writerVars
  <2>. QED BY <1>4, <2>1, KeepAccount DEF AcquireTry, CarryPCs, WorkerPCs
<1>5. CASE AcquireCreate(w)
  <2>1. pc[w] = "acq_create" /\ UNCHANGED <<failed, chunkQ, chunkClosed, errQ, spc, sent, written, ctxDone>>
    BY <1>5 DEF AcquireCreate, writerVars
  <2>. QED BY <1>5, <2>1, KeepAccount DEF AcquireCreate, CarryPCs, WorkerPCs
<1>6. CASE AcquireOpen(w)
  <2>1. pc[w] = "opening" /\ UNCHANGED <<chunkQ, chunkClosed, errQ, spc, sent, written, ctxDone>>
    BY <1>6 DEF AcquireOpen, writerVars
  <2>2. CASE Hold(w, "stream") /\ pc' = [pc EXCEPT ![w] = "write"] /\ UNCHANGED <<created, failed>>
    BY <2>1, <2>2, KeepAccount DEF CarryPCs, WorkerPCs
  <2>3. CASE OpenMayFail /\ created' = created - 1 /\ pc' = [pc EXCEPT ![w] = "report"]
             /\ failed' = [failed EXCEPT ![w] = TRUE] /\ UNCHANGED held
    BY <2>1, <2>3, FailAccount DEF CarryPCs
  <2>. QED BY <1>6, <2>2, <2>3 DEF AcquireOpen
<1>7. CASE AcquireWait(w)
  <2>1. pc[w] = "acq_wait" /\ UNCHANGED <<chunkQ, chunkClosed, errQ, spc, sent, written, ctxDone>>
    BY <1>7 DEF AcquireWait, writerVars
  <2>2. Receive(w) /\ pc' = [pc EXCEPT ![w] = "write"] /\ UNCHANGED failed
    BY <1>0, <1>7 DEF AcquireWait
  <2>. QED BY <2>1, <2>2, KeepAccount DEF CarryPCs, WorkerPCs
<1>8. CASE Write(w)
  <2>1. pc[w] = "write" /\ UNCHANGED <<chunkQ, chunkClosed, errQ, spc, sent, ctxDone>>
    BY <1>8 DEF Write, writerVars
  <2>2. CASE held[w] = "nil"
    <3>1. UNCHANGED <<pc, failed, written>>
      BY <1>8, <2>2 DEF Write
    <3>2. Carrying' = Carrying /\ Failed' = Failed
      BY <3>1 DEF Carrying, Failed
    <3>. QED BY <2>1, <3>1, <3>2, SenderFrame, DParts
             DEF DInv, FailedAt, Tally, Accounted, ExitDrained, SuccessMeansDelivered
  <2>3. CASE held[w] # "nil" /\ written' = written + 1 /\ UNCHANGED failed
    <3>1. pc' = [pc EXCEPT ![w] = "release"]
      BY <1>8, <2>3 DEF Write
    <3>2. MovedCounts(w, "release")
      BY <1>0, MoveCounts DEF WorkerPCs
    <3>3. Accounted' = Accounted
      BY <1>0, <2>1, <2>3, <3>1, <3>2, FailedNat
         DEF MovedCounts, CarryPCs, Accounted, Failed, IInv, TypeOK
    <3>5. written' \in 0 .. NChunks /\ written \in 0 .. NChunks
      BY DEF TypeOK, IInv
    <3>4. spc # "ok"
      BY <2>3, <3>5, NChunksAssumption DEF DInv, SuccessMeansDelivered
    <3>6. FailedAt' /\ ExitDrained'
      BY <1>0, <2>1, <2>3, <3>1 DEF DInv, FailedAt, ExitDrained
    <3>7. Tally' /\ SuccessMeansDelivered'
      BY <2>1, <3>3, <3>4 DEF DInv, Tally, SuccessMeansDelivered
    <3>. QED BY <2>1, <3>6, <3>7, SenderFrame, DParts
  <2>4. CASE held[w] # "nil" /\ failed' = [failed EXCEPT ![w] = TRUE] /\ UNCHANGED written
    <3>1. pc' = [pc EXCEPT ![w] = "release"]
      BY <1>8, <2>4 DEF Write
    <3>. QED BY <2>1, <2>4, <3>1, FailAccount DEF CarryPCs
  <2>. QED BY <1>8, <2>2, <2>3, <2>4 DEF Write
<1>9. CASE ReleaseCheck(w)
  <2>1. pc[w] = "release" /\ UNCHANGED <<failed, chunkQ, chunkClosed, errQ, spc, sent, written, ctxDone>>
    BY <1>9 DEF ReleaseCheck, writerVars
  <2>2. CASE closed
    BY <1>9, <2>1, <2>2, ReleaseAccount DEF ReleaseCheck
  <2>3. CASE ~ closed
    BY <1>9, <2>1, <2>3, KeepAccount DEF ReleaseCheck, CarryPCs, WorkerPCs
  <2>. QED BY <2>2, <2>3
<1>10. CASE ReleaseSend(w)
  <2>1. pc[w] = "rel_send" /\ UNCHANGED <<failed, chunkQ, chunkClosed, errQ, spc, sent, written, ctxDone>>
    BY <1>10 DEF ReleaseSend, writerVars
  <2>2. CASE chanClosed
    <3>1. pc' = pc
      BY <1>10, <2>2 DEF ReleaseSend
    <3>2. Carrying' = Carrying /\ Failed' = Failed
      BY <2>1, <3>1 DEF Carrying, Failed
    <3>. QED BY <2>1, <3>1, <3>2, SenderFrame, DParts
             DEF DInv, FailedAt, Tally, Accounted, ExitDrained, SuccessMeansDelivered
  <2>3. CASE ~ chanClosed
    BY <1>10, <2>1, <2>3, ReleaseAccount DEF ReleaseSend
  <2>. QED BY <2>2, <2>3
<1>11. CASE Report(w)
  <2>1. /\ pc[w] = "report" /\ pc' = [pc EXCEPT ![w] = "loop"]
        /\ errQ' = IF errQ < ErrCap THEN errQ + 1 ELSE errQ
        /\ failed' = [failed EXCEPT ![w] = FALSE]
        /\ UNCHANGED <<chunkQ, chunkClosed, spc, sent, written, ctxDone>>
    BY <1>11 DEF Report, Goto
  <2>2. errQ' > 0
    BY <2>1, ErrCapPositive DEF IInv, TypeOK
  <2>3. FailedAt'
    BY <1>0, <2>1 DEF DInv, FailedAt
  <2>. QED BY <2>1, <2>2, <2>3, SenderFrame, DParts
           DEF DInv, Tally, ExitDrained, SuccessMeansDelivered
<1>. QED BY <1>1, <1>2, <1>3, <1>4, <1>5, <1>6, <1>7, <1>8, <1>9, <1>10, <1>11 DEF Worker

\* Steps that touch none of DInv's variables.
LEMMA DFrame ==
  ASSUME DInv,
         UNCHANGED <<pc, failed, chunkQ, chunkClosed, errQ, spc, sent, written, ctxDone>>
  PROVE  DInv'
<1>1. Carrying' = Carrying /\ Failed' = Failed
  BY DEF Carrying, Failed
<1>. QED BY <1>1 DEF DInv, FailedAt, Tally, Accounted, SenderClosed, ExitDrained,
                    AllSent, SuccessMeansDelivered

LEMMA SenderDStep ==
  ASSUME IInv, DInv, Sender
  PROVE  DInv'
<1>0. /\ Carrying \in SUBSET Workers /\ Failed \in SUBSET Workers
      /\ Cardinality(Carrying) \in Nat /\ Cardinality(Failed) \in Nat
  BY CountsNat, FailedNat DEF IInv, TypeOK, Carrying, Failed
<1>1. CASE SendCheck
  <2>1. /\ spc = "send" /\ ~ chunkClosed
        /\ \/ errQ > 0 /\ spc' = "failed"
           \/ errQ = 0 /\ spc' = "put" /\ errQ' = errQ
        /\ UNCHANGED <<pc, failed, chunkQ, chunkClosed, sent, written, ctxDone>>
    BY <1>1 DEF SendCheck, DInv, SenderClosed, IInv, TypeOK
  <2>2. Carrying' = Carrying /\ Failed' = Failed
    BY <2>1 DEF Carrying, Failed
  <2>. QED BY <2>1, <2>2, DParts
           DEF DInv, FailedAt, Tally, Accounted, SenderClosed, ExitDrained,
               AllSent, SuccessMeansDelivered
<1>2. CASE SendPut
  <2>1. /\ spc = "put" /\ ~ chunkClosed
        /\ chunkQ' = chunkQ + 1 /\ sent' = sent + 1 /\ spc' = "send"
        /\ UNCHANGED <<pc, failed, chunkClosed, errQ, written, ctxDone>>
    BY <1>2 DEF SendPut, DInv, SenderClosed
  <2>2. Carrying' = Carrying /\ Failed' = Failed
    BY <2>1 DEF Carrying, Failed
  <2>3. Tally'
    BY <1>0, <2>1, <2>2 DEF DInv, Tally, Accounted, IInv, TypeOK
  <2>4. ExitDrained'
    BY <2>1 DEF DInv, ExitDrained
  <2>. QED BY <2>1, <2>3, <2>4, DParts
           DEF DInv, FailedAt, SenderClosed, AllSent, SuccessMeansDelivered
<1>3. CASE WaitClose
  <2>1. /\ spc = "send" /\ sent = NChunks /\ chunkClosed' = TRUE /\ spc' = "waiting"
        /\ UNCHANGED <<pc, failed, chunkQ, errQ, sent, written, ctxDone>>
    BY <1>3 DEF WaitClose
  <2>2. Carrying' = Carrying /\ Failed' = Failed
    BY <2>1 DEF Carrying, Failed
  <2>. QED BY <2>1, <2>2, DParts
           DEF DInv, FailedAt, Tally, Accounted, SenderClosed, ExitDrained,
               AllSent, SuccessMeansDelivered
<1>4. CASE WaitJoin
  <2>1. /\ spc = "waiting" /\ \A w \in Workers : pc[w] = "exit"
        /\ \/ errQ > 0 /\ spc' = "failed"
           \/ errQ = 0 /\ spc' = "ok" /\ errQ' = errQ
        /\ UNCHANGED <<pc, failed, chunkQ, chunkClosed, sent, written, ctxDone>>
    BY <1>4 DEF WaitJoin, IInv, TypeOK
  <2>2. CASE errQ > 0
    BY <2>1, <2>2, DParts
       DEF DInv, FailedAt, Tally, SenderClosed, ExitDrained, AllSent,
           SuccessMeansDelivered, Carrying, Failed
  <2>3. CASE errQ = 0
    <3>1. Carrying = {} /\ Failed = {}
      BY <2>1 DEF Carrying, CarryPCs, Failed, DInv, FailedAt
    <3>2. chunkQ = 0
      BY <2>1, WorkersAssumption DEF DInv, ExitDrained
    <3>4. Cardinality(Carrying) = 0 /\ Cardinality(Failed) = 0
      BY <3>1, FS_EmptySet
    <3>5. Accounted = sent /\ sent = NChunks
      BY <2>1, <2>3 DEF DInv, Tally, AllSent
    <3>3. written = NChunks
      BY <3>2, <3>4, <3>5 DEF Accounted, IInv, TypeOK
    <3>. QED BY <2>1, <2>3, <3>3, DParts
             DEF DInv, FailedAt, Tally, SenderClosed, ExitDrained, AllSent,
                 SuccessMeansDelivered, Carrying, Failed
  <2>. QED BY <2>2, <2>3 DEF IInv, TypeOK
<1>. QED BY <1>1, <1>2, <1>3, <1>4 DEF Sender

LEMMA StepDInv ==
  ASSUME ~ CancelAllowed
  PROVE  IInv /\ DInv /\ [Next]_vars => DInv'
<1> SUFFICES ASSUME IInv, DInv, [Next]_vars PROVE DInv'
  OBVIOUS
<1>0. TypeOK'
  BY StepIInv DEF IInv
<1>1. ASSUME NEW w \in Workers, Worker(w) PROVE DInv'
  BY <1>0, <1>1, WorkerDStep
<1>2. CASE Sender
  BY <1>2, SenderDStep
<1>3. CASE Closer
  BY <1>3, DFrame DEF Closer, CloseSwap, CloseChannel, CloseDrain
<1>4. CASE Cancel
  BY <1>4 DEF Cancel
<1>5. CASE UNCHANGED vars
  BY <1>5, DFrame DEF vars
<1>. QED BY <1>1, <1>2, <1>3, <1>4, <1>5 DEF Next

-----------------------------------------------------------------------------
(* The theorems.                                                           *)

\* Every reachable state is well typed: in particular the chunk and error
\* channels never hold more than their capacities, Send never queues more
\* chunks than it was given, and no more chunks are written than were sent.
THEOREM TypeCorrect == Spec => []TypeOK
<1>1. Init => IInv
  BY InitIInv
<1>2. IInv /\ [Next]_vars => IInv'
  BY StepIInv
<1>3. IInv => TypeOK
  BY DEF IInv
<1>. QED BY <1>1, <1>2, <1>3, PTL DEF Spec

\* Whatever the interleaving of Acquire, Release and failed opens across
\* the workers, and whether or not the context is cancelled, while the pool
\* is open StreamPool.created equals the idle streams plus those held or
\* being opened, and never exceeds maxSize.
THEOREM Accounting == Spec => []PoolAccounting
<1>1. Init => IInv
  BY InitIInv
<1>2. IInv /\ [Next]_vars => IInv'
  BY StepIInv
<1>3. IInv => PoolAccounting
  BY IInvPoolAccounting
<1>. QED BY <1>1, <1>2, <1>3, PTL DEF Spec


\* When the caller's context is never cancelled, BulkSender.Send returns
\* without an error only after the workers have written every chunk it was
\* given: a failed open, a closed pool or a failed WriteBatch always reaches
\* errChan, and Wait's join sees it.  Under cancellation this is false
\* (run writer_cancel_loss).
THEOREM Delivered ==
  ASSUME ~ CancelAllowed
  PROVE  Spec => []SuccessMeansDelivered
<1>1. Init => IInv /\ DInv
  BY InitIInv, InitDInv
<1>2. IInv /\ DInv /\ [Next]_vars => IInv' /\ DInv'
  BY StepIInv, StepDInv
<1>3. IInv /\ DInv => SuccessMeansDelivered
  BY DEF DInv
<1>. QED BY <1>1, <1>2, <1>3, PTL DEF Spec

=============================================================================
