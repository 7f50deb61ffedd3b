--------------------------- MODULE ThreadpoolProofs ---------------------------
(***************************************************************************)
(* What is proved of Threadpool, for every number of pools and threads and *)
(* graphs of any length.                                                   *)
(*                                                                         *)
(* That no worker computes on a context that is gone rests on the barrier: *)
(* when the main thread leaves a graph every worker has left its last op.  *)
(* The inductive invariant therefore counts barriers: the threads of a     *)
(* pool in a graph have all passed equally many.                           *)
(***************************************************************************)
EXTENDS Threadpool, FiniteSetTheorems, TLAPS

Mem == {"none", "live", "freed"}
InGraph == {"head", "op", "barrier"}
Making == {"spawn", "join failed", "made", "not made"}

\* The position of the last barrier of a graph.
Last == 2 * Nodes + 1

PoolRec == [mem : Mem, size : Nat, stop : BOOLEAN, pause : BOOLEAN,
            arrived : Int, passed : BOOLEAN]
WorkerRec == [pc : {"none", "top", "asleep", "exited", "absent"} \cup InGraph,
              pos : Nat, saw : BOOLEAN, fresh : BOOLEAN]
MainRec == [call : {"none", "ctx_new", "attach", "compute", "ctx_free", "free_threadpool"},
            pc : {"host", "stop", "join", "pool gone", "free ctx"} \cup InGraph \cup Making,
            pool : Pools \cup {None}, n : Nat, pos : Nat, saw : BOOLEAN]

TypeOK ==
    /\ pool \in [Pools -> PoolRec]
    /\ worker \in [Pools -> [Workers -> WorkerRec]]
    /\ main \in MainRec
    /\ ctx \in [mem : Mem, n_threads : Nat]
    /\ {owned, attached, backend} \subseteq Pools \cup {None}
    /\ abandoned \in BOOLEAN /\ inherited \in BOOLEAN

\* A pool that graphs may run on.
Sound(p) == pool[p].mem = "live" /\ ~pool[p].stop

\* Where the main thread can be in which call.
CallInv ==
    /\ main.pc = "host" <=> main.call = "none"
    /\ main.pc \in InGraph <=> main.call = "compute"
    /\ main.pc \in InGraph => main.pool # None /\ main.pool = attached /\ ~abandoned
    /\ main.pc \in Making => main.call \in {"ctx_new", "attach"} /\ ~abandoned
    /\ main.call = "attach" => main.pc \in Making
    /\ main.pc = "free ctx" => main.call = "ctx_new"
    /\ main.call = "ctx_new" => main.pc \in Making \cup {"join", "free ctx"}
    /\ main.pc = "spawn" => main.pool # None /\ main.n \in 1 .. pool[main.pool].size - 1
    /\ main.pc \in {"join failed", "stop", "join"} => main.pool # None
    /\ main.pc \in Making /\ main.pool # None =>
           /\ main.pc # "join failed" => Sound(main.pool)
           /\ main.pool \notin {owned, attached, backend}
    /\ main.pc = "not made" => main.pool = None

\* Who holds which pool.
PointerInv ==
    /\ ctx.mem # "live" =>
           owned = None /\ attached = None /\ backend = None /\ main.call = "none"
    /\ main.call \in {"none", "compute", "attach"} =>
           /\ attached = owned
           /\ \A p \in {attached, backend} \ {None} : Sound(p)
    /\ main.call = "ctx_new" =>
           /\ owned = None /\ backend = None /\ ~abandoned
           /\ main.pc \in Making => attached = None
    /\ main.call \in {"ctx_free", "free_threadpool"} =>
           /\ attached = None /\ backend = None
           /\ main.pc # "pool gone" => main.pc \in {"stop", "join"} /\ main.pool = owned
    /\ main.pc = "pool gone" =>
           owned = None /\ main.call \in {"ctx_free", "free_threadpool"}

\* The count the context computes on, outside the calls that change it.
CountInv ==
    ctx.mem = "live" /\ main.call \in {"none", "attach", "compute"} =>
        ctx.n_threads = CountFor(attached)

\* Workers run in live pools only, and no more of them than the pool has.
WorkerInv ==
    \A p \in Pools :
        /\ pool[p].mem # "live" => Gone(p)
        /\ pool[p].mem = "none" => \A w \in Workers : worker[p][w] = NoWorker
        /\ \A w \in Workers : w >= pool[p].size =>
               worker[p][w].pc = "none" /\ ~worker[p][w].fresh
        /\ pool[p].size <= MaxThreads
        /\ pool[p].mem = "live" => pool[p].size > 0

\* A worker outside any graph; it may still have to leave the last barrier.
Resting(p, w) ==
    /\ ~worker[p][w].fresh
    /\ \/ worker[p][w].pc \in {"none", "top", "asleep", "exited", "absent"}
       \/ /\ worker[p][w].pc = "barrier" /\ worker[p][w].pos = Last
          /\ worker[p][w].saw # pool[p].passed

Rest(p) == pool[p].arrived = 0 /\ \A w \in Workers : Resting(p, w)

\* The threads of pool p: 0 is the main thread, when it computes.
Crew(p) == 0 .. pool[p].size - 1
Pc(p, t) == IF t = 0 THEN main.pc ELSE worker[p][t].pc
Pos(p, t) == IF t = 0 THEN main.pos ELSE worker[p][t].pos
Saw(p, t) == IF t = 0 THEN main.saw ELSE worker[p][t].saw
Fresh(p, t) == t # 0 /\ worker[p][t].fresh

\* Thread t waits for others at a barrier.
Waits(p, t) == Pc(p, t) = "barrier" /\ Saw(p, t) = pool[p].passed
Waiting(p) == {t \in Crew(p) : Waits(p, t)}

\* The barriers a thread at step pos of the graph has come to.
Barriers(pos) == IF pos >= 2 * Nodes THEN pos - 1 ELSE pos

\* The barriers thread t has passed in this graph.
Passed(p, t) == IF Fresh(p, t) THEN 0
                ELSE IF Waits(p, t) THEN Barriers(Pos(p, t)) - 1
                ELSE Barriers(Pos(p, t))

InPlace(p, t) ==
    /\ Pc(p, t) = "head" => Pos(p, t) <= 2 * Nodes
    /\ Pc(p, t) = "op" => Pos(p, t) < 2 * Nodes
    /\ Pc(p, t) = "barrier" => Pos(p, t) = Last \/ Pos(p, t) \in 1 .. 2 * Nodes - 1
    /\ Fresh(p, t) => Pc(p, t) \notin {"head", "op"} /\ ~Waits(p, t)
    /\ Fresh(p, t) /\ Pc(p, t) = "barrier" => Pos(p, t) = Last

\* All threads of the pool have passed equally many barriers, and the pool
\* has counted those that wait at the next one.
Together(p) ==
    /\ pool[p].arrived = Cardinality(Waiting(p))
    /\ \A t \in Crew(p) : InPlace(p, t) /\ Passed(p, t) = Passed(p, 0)

Computing(p) == main.pc \in InGraph /\ main.pool = p
Abandoned(p) == abandoned /\ p = owned

GraphInv ==
    \A p \in Pools : \/ pool[p].mem = "freed"
                     \/ Abandoned(p)
                     \/ Computing(p) /\ Together(p)
                     \/ ~Computing(p) /\ Rest(p)

PoolInv == TypeOK /\ CallInv /\ PointerInv /\ CountInv /\ WorkerInv /\ GraphInv

-----------------------------------------------------------------------------
(* The barrier. *)

LEMMA ThreadsFit ==
    /\ MaxThreads \in Nat /\ Workers \subseteq Nat \ {0}
    /\ \A n \in Threads : n <= MaxThreads /\ n \in Nat /\ n >= 1
<1>1. MaxThreads \in Threads /\ \A m \in Threads : m <= MaxThreads
  BY ThreadpoolAssumption DEF MaxThreads
<1> QED
  BY <1>1, ThreadpoolAssumption DEF Workers

LEMMA CrewFinite ==
    ASSUME TypeOK, NEW p \in Pools
    PROVE  /\ IsFiniteSet(Crew(p)) /\ Cardinality(Crew(p)) = pool[p].size
           /\ IsFiniteSet(Waiting(p)) /\ Cardinality(Waiting(p)) \in Nat
           /\ pool[p].size \in Nat
<1>1. pool[p].size \in Nat
  BY DEF TypeOK, PoolRec
<1>2. IsFiniteSet(Crew(p)) /\ Cardinality(Crew(p)) = pool[p].size
  <2> DEFINE n == pool[p].size
  <2>1. n \in Nat
    BY <1>1
  <2> HIDE DEF n
  <2>2. IsFiniteSet(0 .. n - 1)
    BY <2>1, FS_Interval
  <2>3. Cardinality(0 .. n - 1) = IF 0 > n - 1 THEN 0 ELSE n - 1 - 0 + 1
    BY <2>1, FS_Interval
  <2>4. Cardinality(0 .. n - 1) = n
    BY <2>1, <2>3
  <2> QED
    BY <2>2, <2>4 DEF n, Crew
<1>3. IsFiniteSet(Waiting(p)) /\ Cardinality(Waiting(p)) \in Nat
  BY <1>2, FS_Subset, FS_CardinalityType DEF Waiting
<1> QED
  BY <1>1, <1>2, <1>3

LEMMA ThreadType ==
    ASSUME TypeOK, NEW p \in Pools, pool[p].size <= MaxThreads, NEW t \in Crew(p)
    PROVE  /\ Pos(p, t) \in Nat /\ Saw(p, t) \in BOOLEAN /\ Fresh(p, t) \in BOOLEAN
           /\ t # 0 => t \in Workers
<1>1. t # 0 => t \in Workers
  <2>1. pool[p].size \in Nat
    BY DEF TypeOK, PoolRec
  <2> QED
    BY <2>1, ThreadsFit DEF Crew, Workers
<1>2. CASE t = 0
  BY <1>2 DEF TypeOK, MainRec, Pos, Saw, Fresh
<1>3. CASE t # 0
  <2>1. worker[p][t] \in WorkerRec
    BY <1>1, <1>3 DEF TypeOK
  <2> QED
    BY <1>1, <1>3, <2>1 DEF WorkerRec, Pos, Saw, Fresh
<1> QED
  BY <1>2, <1>3

\* A step of thread t that neither comes to a barrier nor changes how many it
\* has passed.
LEMMA MovesOn ==
    ASSUME NEW p, Together(p), NEW t \in Crew(p),
           /\ pool'[p].size = pool[p].size /\ pool'[p].arrived = pool[p].arrived
           /\ pool'[p].passed = pool[p].passed
           /\ ~Waits(p, t) /\ ~Waits(p, t)' /\ InPlace(p, t)'
           /\ Passed(p, t)' = Passed(p, t),
           \A u \in Crew(p) \ {t} :
               /\ Pc(p, u)' = Pc(p, u) /\ Pos(p, u)' = Pos(p, u)
               /\ Saw(p, u)' = Saw(p, u) /\ Fresh(p, u)' = Fresh(p, u),
           Passed(p, 0)' = Passed(p, 0)
    PROVE  Together(p)'
<1>1. Crew(p)' = Crew(p)
  BY DEF Crew
<1>2. ASSUME NEW u \in Crew(p), u # t
      PROVE  /\ Waits(p, u)' <=> Waits(p, u)
             /\ InPlace(p, u)' <=> InPlace(p, u)
             /\ Passed(p, u)' = Passed(p, u)
  <2>1. Waits(p, u)' <=> Waits(p, u)
    BY <1>2 DEF Waits
  <2> QED
    BY <1>2, <2>1 DEF InPlace, Passed
<1>3. Waiting(p)' = Waiting(p)
  BY <1>1, <1>2 DEF Waiting
<1>4. \A u \in Crew(p) : InPlace(p, u)' /\ Passed(p, u)' = Passed(p, 0)'
  BY <1>2 DEF Together
<1> QED
  BY <1>1, <1>3, <1>4 DEF Together

\* Thread t comes to the next barrier.
LEMMA ComesToBarrier ==
    ASSUME TypeOK, NEW p \in Pools, pool[p].size <= MaxThreads, Together(p),
           NEW t \in Crew(p),
           /\ ~Waits(p, t) /\ ~Fresh(p, t) /\ Arrive(p)
           /\ Pc(p, t)' = "barrier" /\ Saw(p, t)' = pool[p].passed /\ ~Fresh(p, t)'
           /\ InPlace(p, t)' /\ Barriers(Pos(p, t)') = Barriers(Pos(p, t)) + 1
           /\ Barriers(Pos(p, t)) \in Int,
           \A u \in Crew(p) \ {t} :
               /\ Pc(p, u)' = Pc(p, u) /\ Pos(p, u)' = Pos(p, u)
               /\ Saw(p, u)' = Saw(p, u) /\ Fresh(p, u)' = Fresh(p, u)
    PROVE  Together(p)'
<1>1. /\ pool'[p].size = pool[p].size /\ Crew(p)' = Crew(p)
      /\ pool[p].passed \in BOOLEAN /\ pool[p].size \in Nat
  <2>1. pool[p] \in PoolRec
    BY DEF TypeOK
  <2>2. pool'[p].size = pool[p].size
    BY <2>1 DEF Arrive, TypeOK, PoolRec
  <2> QED
    BY <2>1, <2>2 DEF PoolRec, Crew
<1>2. /\ IsFiniteSet(Crew(p)) /\ Cardinality(Crew(p)) = pool[p].size
      /\ IsFiniteSet(Waiting(p)) /\ Cardinality(Waiting(p)) \in Nat
      /\ t \in Crew(p) /\ t \notin Waiting(p) /\ Waiting(p) \subseteq Crew(p)
  BY CrewFinite DEF Waiting
<1>3. Passed(p, t) = Barriers(Pos(p, t))
  BY DEF Passed
<1>4. CASE pool[p].arrived # pool[p].size - 1
  <2>1. pool'[p].arrived = pool[p].arrived + 1 /\ pool'[p].passed = pool[p].passed
    BY <1>4 DEF Arrive, TypeOK, PoolRec
  <2>2. Waits(p, t)'
    BY <2>1 DEF Waits
  <2>3. ASSUME NEW u \in Crew(p), u # t
        PROVE  /\ Waits(p, u)' <=> Waits(p, u)
               /\ InPlace(p, u)' <=> InPlace(p, u)
               /\ Passed(p, u)' = Passed(p, u)
    <3>1. Waits(p, u)' <=> Waits(p, u)
      BY <2>1, <2>3 DEF Waits
    <3> QED
      BY <2>3, <3>1 DEF InPlace, Passed
  <2>4. Waiting(p)' = Waiting(p) \cup {t}
    BY <1>1, <1>2, <2>2, <2>3 DEF Waiting
  <2>5. Cardinality(Waiting(p)') = Cardinality(Waiting(p)) + 1
    BY <1>2, <2>4, FS_AddElement
  <2>6. Passed(p, t)' = Passed(p, t)
    <3>1. Passed(p, t)' = Barriers(Pos(p, t)') - 1
      BY <2>2 DEF Passed, Barriers
    <3> QED
      BY <1>3, <3>1
  <2>7. Passed(p, 0)' = Passed(p, 0)
    <3>1. 0 \in Crew(p)
      BY <1>1, <1>2 DEF Crew
    <3> QED
      BY <2>3, <2>6, <3>1
  <2>8. \A u \in Crew(p) : InPlace(p, u)' /\ Passed(p, u)' = Passed(p, 0)'
    BY <2>3, <2>6, <2>7 DEF Together
  <2> QED
    BY <1>1, <2>1, <2>5, <2>8 DEF Together
<1>5. CASE pool[p].arrived = pool[p].size - 1
  <2>1. pool'[p].arrived = 0 /\ pool'[p].passed = ~pool[p].passed
    BY <1>5 DEF Arrive, TypeOK, PoolRec
  <2>2. \A u \in Crew(p) : u # t => Waits(p, u)
    <3>1. Waiting(p) = Crew(p) \ {t}
      <4>1. /\ IsFiniteSet(Crew(p) \ {t}) /\ Cardinality(Crew(p) \ {t}) = Cardinality(Crew(p)) - 1
        BY <1>2, FS_RemoveElement
      <4>2. Waiting(p) \subseteq Crew(p) \ {t}
        BY <1>2
      <4>3. Cardinality(Waiting(p)) = Cardinality(Crew(p) \ {t})
        BY <1>2, <1>5, <4>1 DEF Together
      <4> QED
        BY <4>1, <4>2, <4>3, FS_Subset
    <3> QED
      BY <3>1 DEF Waiting
  <2>3. ~Waits(p, t)' /\ Passed(p, t)' = Passed(p, t) + 1
    <3>1. ~Waits(p, t)'
      BY <1>1, <2>1 DEF Waits
    <3>2. Passed(p, t)' = Barriers(Pos(p, t)')
      BY <3>1 DEF Passed, Barriers
    <3> QED
      BY <1>3, <3>1, <3>2
  <2>4. ASSUME NEW u \in Crew(p), u # t
        PROVE  ~Waits(p, u)' /\ InPlace(p, u)' /\ Passed(p, u)' = Passed(p, t)'
    <3>1. Waits(p, u) /\ ~Fresh(p, u) /\ InPlace(p, u) /\ Passed(p, u) = Passed(p, t)
      BY <2>2, <2>4 DEF Together, InPlace
    <3>2. ~Waits(p, u)'
      BY <1>1, <2>1, <2>4, <3>1 DEF Waits
    <3>3. InPlace(p, u)'
      BY <2>4, <3>1, <3>2 DEF InPlace
    <3>4. Passed(p, u) = Barriers(Pos(p, u)) - 1 /\ Passed(p, u)' = Barriers(Pos(p, u))
      BY <2>4, <3>1, <3>2 DEF Passed, Barriers
    <3>5. Barriers(Pos(p, u)) \in Int
      BY ThreadType, ThreadpoolAssumption DEF Barriers
    <3> QED
      BY <1>3, <2>3, <3>1, <3>2, <3>3, <3>4, <3>5
  <2>5. Waiting(p)' = {}
    BY <1>1, <2>3, <2>4 DEF Waiting
  <2>6. \A u \in Crew(p) : InPlace(p, u)' /\ Passed(p, u)' = Passed(p, t)'
    BY <2>4
  <2>7. 0 \in Crew(p)
    BY <1>1, <1>2 DEF Crew
  <2>8. pool'[p].arrived = Cardinality(Waiting(p)')
    BY <2>1, <2>5, FS_EmptySet
  <2> QED
    BY <1>1, <2>6, <2>7, <2>8 DEF Together
<1> QED
  BY <1>4, <1>5

\* When the main thread leaves the graph, every worker has left its last op.
LEMMA AllOut ==
    ASSUME TypeOK, NEW p \in Pools, pool[p].size <= MaxThreads, Together(p),
           main.pc = "barrier", main.pos = Last, main.saw # pool[p].passed,
           \A w \in Workers : w >= pool[p].size => worker[p][w].pc = "none" /\ ~worker[p][w].fresh
    PROVE  Rest(p)
<1>1. /\ Pos(p, 0) = Last /\ ~Waits(p, 0) /\ ~Fresh(p, 0)
  BY DEF Pos, Waits, Saw, Fresh, Pc
<1>2. Passed(p, 0) = 2 * Nodes
  BY <1>1, ThreadpoolAssumption DEF Passed, Barriers, Last
<1>3. ASSUME NEW t \in Crew(p)
      PROVE  /\ ~Waits(p, t) /\ ~Fresh(p, t) /\ Pc(p, t) \notin {"head", "op"}
             /\ Pc(p, t) = "barrier" => Pos(p, t) = Last
  <2>1. InPlace(p, t) /\ Passed(p, t) = 2 * Nodes
    BY <1>2 DEF Together
  <2>2. Pos(p, t) \in Nat /\ Nodes \in Nat \ {0}
    BY ThreadType, ThreadpoolAssumption
  <2>3. ~Fresh(p, t)
    BY <2>1, <2>2 DEF Passed
  <2>4. ~Waits(p, t)
    <3> SUFFICES ASSUME Waits(p, t) PROVE FALSE
      OBVIOUS
    <3>1. Barriers(Pos(p, t)) - 1 = 2 * Nodes
      BY <2>1, <2>3 DEF Passed
    <3>2. Pos(p, t) <= Last
      BY <2>1, <2>2 DEF InPlace, Waits, Last
    <3> QED
      BY <2>2, <3>1, <3>2 DEF Barriers, Last
  <2>5. Barriers(Pos(p, t)) = 2 * Nodes
    BY <2>1, <2>3, <2>4 DEF Passed
  <2>6. Pos(p, t) = Last
    BY <2>2, <2>5 DEF Barriers, Last
  <2> QED
    BY <2>1, <2>2, <2>3, <2>4, <2>6 DEF InPlace, Last
<1>4. pool[p].arrived = 0
  <2>1. Waiting(p) = {}
    BY <1>3 DEF Waiting
  <2> QED
    BY <2>1, FS_EmptySet DEF Together
<1>5. ASSUME NEW w \in Workers PROVE Resting(p, w)
  <2>1. CASE w >= pool[p].size
    BY <2>1 DEF Resting
  <2>2. CASE ~(w >= pool[p].size)
    <3>1. w \in Crew(p) /\ w # 0
      <4>1. w \in Nat \ {0} /\ pool[p].size \in Nat
        BY ThreadsFit DEF TypeOK, PoolRec
      <4> QED
        BY <2>2, <4>1 DEF Crew
    <3>2. worker[p][w].pc \in {"none", "top", "asleep", "exited", "absent"} \cup InGraph
      BY DEF TypeOK, WorkerRec
    <3> QED
      BY <1>3, <3>1, <3>2 DEF Resting, Waits, Fresh, Pc, Pos, Saw, InGraph
  <2> QED
    BY <2>1, <2>2
<1> QED
  BY <1>4, <1>5 DEF Rest

-----------------------------------------------------------------------------
(* The steps of the workers. *)

\* The calls and the pointers do not see what workers do.
LEMMA CallKept ==
    ASSUME TypeOK, CallInv, PointerInv, CountInv,
           UNCHANGED <<main, ctx, owned, attached, backend, abandoned>>,
           \A q \in Pools : /\ pool'[q].mem = pool[q].mem /\ pool'[q].size = pool[q].size
                            /\ pool'[q].stop = pool[q].stop
    PROVE  CallInv' /\ PointerInv' /\ CountInv'
<1>1. main.pool \in Pools \cup {None} /\ {owned, attached, backend} \subseteq Pools \cup {None}
  BY DEF TypeOK, MainRec
<1>2. main.pool # None => /\ pool'[main.pool].mem = pool[main.pool].mem
                          /\ pool'[main.pool].stop = pool[main.pool].stop
                          /\ pool'[main.pool].size = pool[main.pool].size
  BY <1>1
<1>3. CallInv'
  BY <1>2 DEF CallInv, Sound
<1>4. PointerInv'
  <2>1. \A q \in {attached, backend} \ {None} : Sound(q) => Sound(q)'
    BY <1>1 DEF Sound
  <2> QED
    BY <2>1 DEF PointerInv
<1>5. CountInv'
  BY <1>1 DEF CountInv, CountFor, None
<1> QED
  BY <1>3, <1>4, <1>5

\* What a step of one worker leaves as it was.
LEMMA WorkerFrame ==
    ASSUME PoolInv, NEW p \in Pools, NEW w \in Workers, NEW new \in WorkerRec,
           UNCHANGED <<main, ctx, pointers, abandoned, inherited>>,
           UNCHANGED pool \/ Arrive(p),
           worker' = [worker EXCEPT ![p][w] = new],
           worker[p][w].pc \notin {"none", "exited", "absent"}, new.pc # "none",
           Computing(p) /\ Together(p) => Together(p)',
           ~Computing(p) /\ Rest(p) => Rest(p)'
    PROVE  PoolInv'
<1>1. TypeOK'
  <2>1. pool' \in [Pools -> PoolRec]
    <3>1. pool[p] \in PoolRec
      BY DEF PoolInv, TypeOK
    <3>2. 0 \in Int /\ pool[p].arrived + 1 \in Int
      BY <3>1 DEF PoolRec
    <3>5. (~pool[p].passed) \in BOOLEAN
      OBVIOUS
    <3>3. [pool[p] EXCEPT !.arrived = 0, !.passed = ~@] \in PoolRec
      BY <3>1, <3>2, <3>5, Zenon DEF PoolRec
    <3>4. [pool[p] EXCEPT !.arrived = @ + 1] \in PoolRec
      BY <3>1, <3>2, Zenon DEF PoolRec
    <3> QED
      BY <3>1, <3>3, <3>4 DEF Arrive, PoolInv, TypeOK
  <2>2. worker' \in [Pools -> [Workers -> WorkerRec]]
    BY DEF PoolInv, TypeOK
  <2> QED
    BY <2>1, <2>2 DEF PoolInv, TypeOK, pointers
<1>2. ASSUME NEW q \in Pools
      PROVE  /\ pool'[q].mem = pool[q].mem /\ pool'[q].size = pool[q].size
             /\ pool'[q].stop = pool[q].stop
             /\ q # p => pool'[q] = pool[q]
  <2>1. pool[q] \in PoolRec
    BY DEF PoolInv, TypeOK
  <2> QED
    BY <2>1 DEF Arrive, PoolInv, TypeOK, PoolRec
<1>3. /\ main' = main /\ ctx' = ctx /\ owned' = owned /\ attached' = attached /\ backend' = backend
      /\ abandoned' = abandoned
  BY DEF pointers
<1>4. TypeOK /\ CallInv /\ PointerInv /\ CountInv
  BY DEF PoolInv
<1>5. CallInv' /\ PointerInv' /\ CountInv'
  BY <1>2, <1>3, <1>4, CallKept, Zenon
<1>8. /\ worker'[p][w] = new
      /\ \A q \in Pools, u \in Workers : q # p \/ u # w => worker'[q][u] = worker[q][u]
  BY DEF PoolInv, TypeOK
<1>9. pool[p].mem = "live"
  BY DEF PoolInv, WorkerInv, Gone, TypeOK, PoolRec
<1>10. WorkerInv'
  <2> SUFFICES ASSUME NEW q \in Pools
               PROVE  /\ pool'[q].mem # "live" => Gone(q)'
                      /\ pool'[q].mem = "none" => \A u \in Workers : worker'[q][u] = NoWorker
                      /\ \A u \in Workers : u >= pool'[q].size =>
                             worker'[q][u].pc = "none" /\ ~worker'[q][u].fresh
                      /\ pool'[q].size <= MaxThreads
                      /\ pool'[q].mem = "live" => pool'[q].size > 0
    BY DEF WorkerInv
  <2>1. /\ \A u \in Workers : u >= pool[q].size =>
               worker[q][u].pc = "none" /\ ~worker[q][u].fresh
        /\ pool[q].size <= MaxThreads
        /\ pool[q].mem = "live" => pool[q].size > 0
        /\ pool[q].mem = "none" => \A u \in Workers : worker[q][u] = NoWorker
        /\ pool[q].mem # "live" => Gone(q)
    BY DEF PoolInv, WorkerInv
  <2>2. \A u \in Workers : u >= pool'[q].size =>
             worker'[q][u].pc = "none" /\ ~worker'[q][u].fresh
    BY <1>2, <1>8, <2>1
  <2>3. CASE q # p
    <3>1. \A u \in Workers : worker'[q][u] = worker[q][u]
      BY <1>8, <2>3
    <3> QED
      BY <1>2, <2>1, <2>2, <3>1 DEF Gone
  <2>4. CASE q = p
    BY <1>2, <1>9, <2>1, <2>2, <2>4
  <2> QED
    BY <2>3, <2>4
<1>11. GraphInv'
  <2> SUFFICES ASSUME NEW q \in Pools
               PROVE  \/ pool'[q].mem = "freed" \/ Abandoned(q)'
                      \/ Computing(q)' /\ Together(q)'
                      \/ ~Computing(q)' /\ Rest(q)'
    BY DEF GraphInv
  <2>1. (Computing(q)' <=> Computing(q)) /\ (Abandoned(q)' <=> Abandoned(q))
    BY <1>3 DEF Computing, Abandoned
  <2>2. CASE q = p
    BY <1>2, <2>1, <2>2 DEF PoolInv, GraphInv
  <2>3. CASE q # p
    <3>1. pool'[q] = pool[q] /\ \A u \in Workers : worker'[q][u] = worker[q][u]
      BY <1>2, <1>8, <2>3
    <3>2. Rest(q) => Rest(q)'
      BY <3>1 DEF Rest, Resting
    <3>3. Together(q) => Together(q)'
      <4>1. Crew(q)' = Crew(q) /\ pool[q].size \in Nat /\ pool[q].size <= MaxThreads
        BY <3>1 DEF Crew, PoolInv, TypeOK, PoolRec, WorkerInv
      <4>2. \A t \in Crew(q) : t # 0 => t \in Workers
        BY <4>1, ThreadType DEF PoolInv
      <4>3. ASSUME NEW t \in Crew(q)
            PROVE  /\ Pc(q, t)' = Pc(q, t) /\ Pos(q, t)' = Pos(q, t)
                   /\ Saw(q, t)' = Saw(q, t) /\ Fresh(q, t)' = Fresh(q, t)
        BY <1>3, <3>1, <4>2 DEF Pc, Pos, Saw, Fresh
      <4>4. ASSUME NEW t \in Crew(q) PROVE Waits(q, t)' <=> Waits(q, t)
        BY <3>1, <4>3 DEF Waits
      <4>5. ASSUME NEW t \in Crew(q)
            PROVE  (InPlace(q, t)' <=> InPlace(q, t)) /\ Passed(q, t)' = Passed(q, t)
        BY <4>3, <4>4 DEF InPlace, Passed
      <4>6. Waiting(q)' = Waiting(q)
        BY <4>1, <4>4 DEF Waiting
      <4>7. ASSUME NEW t \in Crew(q) PROVE 0 \in Crew(q)
        BY <4>1 DEF Crew
      <4> QED
        BY <3>1, <4>1, <4>5, <4>6, <4>7 DEF Together
    <3> QED
      BY <1>2, <2>1, <3>2, <3>3 DEF PoolInv, GraphInv
  <2> QED
    BY <2>2, <2>3
<1> QED
  BY <1>1, <1>5, <1>10, <1>11 DEF PoolInv

\* Worker w of pool p becomes new, and nobody else moves.
Moves(p, w, new) ==
    /\ Pc(p, w) = worker[p][w].pc /\ Pos(p, w) = worker[p][w].pos
    /\ Saw(p, w) = worker[p][w].saw /\ (Fresh(p, w) <=> worker[p][w].fresh)
    /\ Pc(p, w)' = new.pc /\ Pos(p, w)' = new.pos
    /\ Saw(p, w)' = new.saw /\ (Fresh(p, w)' <=> new.fresh)
    /\ \A u \in Crew(p) \ {w} :
           /\ Pc(p, u)' = Pc(p, u) /\ Pos(p, u)' = Pos(p, u)
           /\ Saw(p, u)' = Saw(p, u) /\ Fresh(p, u)' = Fresh(p, u)
    /\ Pc(p, 0)' = Pc(p, 0) /\ Pos(p, 0)' = Pos(p, 0)
    /\ Saw(p, 0)' = Saw(p, 0) /\ ~Fresh(p, 0) /\ ~Fresh(p, 0)'

LEMMA OneThreadMoves ==
    ASSUME TypeOK, NEW p \in Pools, pool[p].size <= MaxThreads, NEW w \in Workers, NEW new,
           main' = main, worker' = [worker EXCEPT ![p][w] = new]
    PROVE  Moves(p, w, new)
<1>1. w # 0
  BY ThreadsFit
<1>2. worker'[p][w] = new /\ \A u \in Workers \ {w} : worker'[p][u] = worker[p][u]
  BY DEF TypeOK
<1>3. \A u \in Crew(p) : u # 0 => u \in Workers
  BY ThreadType
<1>4. ASSUME NEW u \in Crew(p) \ {w}
      PROVE  /\ Pc(p, u)' = Pc(p, u) /\ Pos(p, u)' = Pos(p, u)
             /\ Saw(p, u)' = Saw(p, u) /\ Fresh(p, u)' = Fresh(p, u)
  <2>1. u # 0 => worker'[p][u] = worker[p][u]
    BY <1>2, <1>3
  <2> QED
    BY <2>1 DEF Pc, Pos, Saw, Fresh
<1>5. /\ Pc(p, w) = worker[p][w].pc /\ Pos(p, w) = worker[p][w].pos
      /\ Saw(p, w) = worker[p][w].saw /\ (Fresh(p, w) <=> worker[p][w].fresh)
      /\ Pc(p, w)' = new.pc /\ Pos(p, w)' = new.pos
      /\ Saw(p, w)' = new.saw /\ (Fresh(p, w)' <=> new.fresh)
  BY <1>1, <1>2 DEF Pc, Pos, Saw, Fresh
<1>6. /\ Pc(p, 0)' = Pc(p, 0) /\ Pos(p, 0)' = Pos(p, 0)
      /\ Saw(p, 0)' = Saw(p, 0) /\ ~Fresh(p, 0) /\ ~Fresh(p, 0)'
  BY DEF Pc, Pos, Saw, Fresh
<1> QED
  BY <1>4, <1>5, <1>6, Zenon DEF Moves

\* Workers of every kind.
LEMMA NewWorker ==
    ASSUME NEW me \in WorkerRec, NEW pc \in {"top", "asleep", "exited"} \cup InGraph,
           NEW pos \in Nat, NEW saw \in BOOLEAN, NEW fresh \in BOOLEAN
    PROVE  /\ [me EXCEPT !.pc = pc] \in WorkerRec
           /\ [me EXCEPT !.pc = pc, !.pos = pos, !.saw = saw] \in WorkerRec
           /\ [me EXCEPT !.pos = pos, !.saw = saw, !.pc = pc] \in WorkerRec
           /\ [me EXCEPT !.pc = pc, !.pos = pos, !.fresh = fresh] \in WorkerRec
<1>1. pc \in {"none", "top", "asleep", "exited", "absent"} \cup InGraph
  OBVIOUS
<1>2. [me EXCEPT !.pc = pc] \in WorkerRec
  BY <1>1, Zenon DEF WorkerRec
<1>3. [me EXCEPT !.pc = pc, !.pos = pos, !.saw = saw] \in WorkerRec
  BY <1>1, Zenon DEF WorkerRec
<1>4. [me EXCEPT !.pos = pos, !.saw = saw, !.pc = pc] \in WorkerRec
  BY <1>1, Zenon DEF WorkerRec
<1>5. [me EXCEPT !.pc = pc, !.pos = pos, !.fresh = fresh] \in WorkerRec
  BY <1>1, Zenon DEF WorkerRec
<1> QED
  BY <1>2, <1>3, <1>4, <1>5

\* A step of a worker that comes to no barrier.
LEMMA WorkerMovesOn ==
    ASSUME PoolInv, NEW p \in Pools, NEW w \in Workers, NEW new \in WorkerRec,
           UNCHANGED <<main, ctx, pointers, abandoned, inherited, pool>>,
           worker' = [worker EXCEPT ![p][w] = new],
           worker[p][w].pc \notin {"none", "exited", "absent"}, new.pc # "none",
           Resting(p, w) => ~new.fresh /\ new.pc \in {"top", "asleep", "exited"},
           Together(p) /\ w \in Crew(p) =>
               /\ ~Waits(p, w) /\ (new.pc = "barrier" => new.saw # pool[p].passed)
               /\ InPlace(p, w)'
               /\ (IF new.fresh THEN 0 ELSE Barriers(new.pos)) = Passed(p, w)
    PROVE  PoolInv'
<1>1. /\ TypeOK /\ pool[p].size <= MaxThreads /\ w \in Nat /\ w # 0 /\ w \in Crew(p)
  <2>1. TypeOK /\ pool[p].size <= MaxThreads /\ ~(w >= pool[p].size)
    BY DEF PoolInv, WorkerInv
  <2>2. w \in Nat \ {0} /\ pool[p].size \in Nat
    BY <2>1, ThreadsFit DEF TypeOK, PoolRec
  <2> QED
    BY <2>1, <2>2 DEF Crew
<1>2. /\ Pc(p, w)' = new.pc /\ Pos(p, w)' = new.pos
      /\ Saw(p, w)' = new.saw /\ (Fresh(p, w)' <=> new.fresh)
      /\ \A u \in Crew(p) \ {w} :
              /\ Pc(p, u)' = Pc(p, u) /\ Pos(p, u)' = Pos(p, u)
              /\ Saw(p, u)' = Saw(p, u) /\ Fresh(p, u)' = Fresh(p, u)
      /\ Pc(p, 0)' = Pc(p, 0) /\ Pos(p, 0)' = Pos(p, 0)
      /\ Saw(p, 0)' = Saw(p, 0) /\ ~Fresh(p, 0) /\ ~Fresh(p, 0)'
  <2>1. Moves(p, w, new)
    BY <1>1, OneThreadMoves
  <2> QED
    BY <2>1, Zenon DEF Moves
<1>3. pool' = pool /\ main' = main
  OBVIOUS
<1>4. ASSUME Together(p) PROVE Together(p)'
  <2>1. /\ ~Waits(p, w) /\ ~Waits(p, w)' /\ InPlace(p, w)'
        /\ Passed(p, w)' = Passed(p, w)
    <3>1. ~Waits(p, w)'
      BY <1>1, <1>2, <1>3, <1>4 DEF Waits
    <3>2. Passed(p, w)' = IF new.fresh THEN 0 ELSE Barriers(new.pos)
      BY <1>2, <3>1 DEF Passed, Barriers
    <3> QED
      BY <1>1, <1>4, <3>1, <3>2
  <2>2. Passed(p, 0)' = Passed(p, 0)
    <3>1. Waits(p, 0)' <=> Waits(p, 0)
      BY <1>2, <1>3 DEF Waits
    <3> QED
      BY <1>2, <3>1 DEF Passed, Barriers
  <2> QED
    BY <1>1, <1>2, <1>3, <1>4, <2>1, <2>2, MovesOn
<1>5. ASSUME Rest(p) PROVE Rest(p)'
  <2>1. worker'[p][w] = new /\ \A u \in Workers \ {w} : worker'[p][u] = worker[p][u]
    BY <1>1 DEF TypeOK
  <2>2. Resting(p, w)'
    BY <1>5, <2>1 DEF Rest, Resting
  <2>3. \A u \in Workers \ {w} : Resting(p, u)'
    BY <1>3, <1>5, <2>1 DEF Rest, Resting
  <2> QED
    BY <1>3, <1>5, <2>2, <2>3 DEF Rest
<1> QED
  BY <1>3, <1>4, <1>5, WorkerFrame

\* A step of a worker that comes to the next barrier of the graph.
LEMMA WorkerArrives ==
    ASSUME PoolInv, NEW p \in Pools, NEW w \in Workers, NEW new \in WorkerRec,
           UNCHANGED <<main, ctx, pointers, abandoned, inherited>>, Arrive(p),
           worker' = [worker EXCEPT ![p][w] = new],
           worker[p][w].pc \in {"head", "op"},
           new.pc = "barrier" /\ new.saw = pool[p].passed,
           new.fresh = worker[p][w].fresh,
           InPlace(p, w) =>
               /\ Barriers(new.pos) = Barriers(worker[p][w].pos) + 1
               /\ new.pos = Last \/ new.pos \in 1 .. 2 * Nodes - 1
    PROVE  PoolInv'
<1>1. /\ TypeOK /\ pool[p].size <= MaxThreads /\ w \in Nat /\ w # 0 /\ w \in Crew(p)
  <2>1. TypeOK /\ pool[p].size <= MaxThreads /\ ~(w >= pool[p].size)
    BY DEF PoolInv, WorkerInv
  <2>2. w \in Nat \ {0} /\ pool[p].size \in Nat
    BY <2>1, ThreadsFit DEF TypeOK, PoolRec
  <2> QED
    BY <2>1, <2>2 DEF Crew
<1>2. /\ Pc(p, w) = worker[p][w].pc /\ Pos(p, w) = worker[p][w].pos
      /\ (Fresh(p, w) <=> worker[p][w].fresh)
      /\ Pc(p, w)' = new.pc /\ Pos(p, w)' = new.pos
      /\ Saw(p, w)' = new.saw /\ (Fresh(p, w)' <=> new.fresh)
      /\ \A u \in Crew(p) \ {w} :
              /\ Pc(p, u)' = Pc(p, u) /\ Pos(p, u)' = Pos(p, u)
              /\ Saw(p, u)' = Saw(p, u) /\ Fresh(p, u)' = Fresh(p, u)
  <2>1. Moves(p, w, new)
    BY <1>1, OneThreadMoves
  <2> QED
    BY <2>1, Zenon DEF Moves
<1>3. ASSUME Together(p) PROVE Together(p)'
  <2>1. InPlace(p, w)
    BY <1>1, <1>3 DEF Together
  <2>2. ~Waits(p, w) /\ ~Fresh(p, w) /\ ~Fresh(p, w)'
    BY <1>2, <2>1 DEF InPlace, Waits
  <2>3. Barriers(Pos(p, w)') = Barriers(Pos(p, w)) + 1
    BY <1>2, <2>1
  <2>4. InPlace(p, w)'
    <3>1. Pos(p, w)' = Last \/ Pos(p, w)' \in 1 .. 2 * Nodes - 1
      BY <1>2, <2>1
    <3> QED
      BY <1>2, <2>2, <3>1 DEF InPlace, Last
  <2>5. Barriers(Pos(p, w)) \in Int
    BY <1>1, ThreadType, ThreadpoolAssumption DEF Barriers
  <2> QED
    BY <1>1, <1>2, <1>3, <2>2, <2>3, <2>4, <2>5, ComesToBarrier
<1>4. ~Rest(p)
  BY DEF Rest, Resting
<1> QED
  BY <1>3, <1>4, WorkerFrame

LEMMA TopInv ==
    ASSUME PoolInv, NEW p \in Pools, NEW w \in Workers, Top(p, w)
    PROVE  PoolInv'
<1> DEFINE me == worker[p][w]
           new == CASE pool[p].pause -> [me EXCEPT !.pc = "asleep"]
                    [] ~pool[p].pause /\ pool[p].stop -> [me EXCEPT !.pc = "exited"]
                    [] ~pool[p].pause /\ ~pool[p].stop /\ me.fresh ->
                          [me EXCEPT !.pc = "head", !.pos = 0, !.fresh = FALSE]
                    [] OTHER -> [me EXCEPT !.pc = "asleep"]
<1>1. /\ me.pc = "top" /\ worker' = [worker EXCEPT ![p][w] = new]
      /\ UNCHANGED <<main, ctx, pointers, abandoned, inherited, pool>>
  BY DEF Top
<1>2. me \in WorkerRec /\ pool[p] \in PoolRec
  BY DEF PoolInv, TypeOK
<1>3. \/ new = [me EXCEPT !.pc = "asleep"]
      \/ new = [me EXCEPT !.pc = "exited"]
      \/ me.fresh /\ new = [me EXCEPT !.pc = "head", !.pos = 0, !.fresh = FALSE]
  BY <1>2 DEF PoolRec, WorkerRec
<1> HIDE DEF new
<1>7. new \in WorkerRec
  <2>1. {"asleep", "exited", "head"} \subseteq {"top", "asleep", "exited"} \cup InGraph
    BY DEF InGraph
  <2>2. 0 \in Nat /\ FALSE \in BOOLEAN /\ TRUE \in BOOLEAN
    OBVIOUS
  <2>3. /\ [me EXCEPT !.pc = "asleep"] \in WorkerRec /\ [me EXCEPT !.pc = "exited"] \in WorkerRec
        /\ [me EXCEPT !.pc = "head", !.pos = 0, !.fresh = FALSE] \in WorkerRec
    BY <1>2, <2>1, <2>2, NewWorker
  <2> QED
    BY <1>3, <2>3, Zenon
<1>4. \/ new.pc \in {"asleep", "exited"} /\ new.pos = me.pos /\ new.fresh = me.fresh
      \/ new.pc = "head" /\ new.pos = 0 /\ ~new.fresh /\ me.fresh
  BY <1>2, <1>3, <1>7 DEF WorkerRec
<1>5. Resting(p, w) => ~new.fresh /\ new.pc \in {"top", "asleep", "exited"}
  BY <1>4 DEF Resting
<1>6. ASSUME Together(p), w \in Crew(p)
      PROVE  /\ ~Waits(p, w) /\ (new.pc = "barrier" => new.saw # pool[p].passed)
             /\ InPlace(p, w)'
             /\ (IF new.fresh THEN 0 ELSE Barriers(new.pos)) = Passed(p, w)
  <2>1. TypeOK /\ pool[p].size <= MaxThreads /\ main' = main
    BY <1>1 DEF PoolInv, WorkerInv
  <2>2. /\ Pc(p, w) = me.pc /\ Pos(p, w) = me.pos /\ (Fresh(p, w) <=> me.fresh)
        /\ Pc(p, w)' = new.pc /\ Pos(p, w)' = new.pos /\ (Fresh(p, w)' <=> new.fresh)
    <3>1. Moves(p, w, new)
      BY <1>1, <2>1, OneThreadMoves
    <3> QED
      BY <3>1, Zenon DEF Moves
  <2>3. ~Waits(p, w) /\ ~Waits(p, w)'
    BY <1>1, <1>4, <2>2 DEF Waits
  <2>4. InPlace(p, w)'
    BY <1>4, <2>2, <2>3, ThreadpoolAssumption DEF InPlace
  <2>5. Barriers(0) = 0
    BY ThreadpoolAssumption DEF Barriers
  <2>6. (IF new.fresh THEN 0 ELSE Barriers(new.pos)) = Passed(p, w)
    BY <1>4, <2>2, <2>3, <2>5 DEF Passed
  <2> QED
    BY <1>4, <2>3, <2>4, <2>6
<1>8. new.pc # "none" /\ me.pc \notin {"none", "exited", "absent"}
  BY <1>1, <1>4
<1> QED
  BY <1>1, <1>5, <1>6, <1>7, <1>8, WorkerMovesOn

LEMMA HeadInv ==
    ASSUME PoolInv, NEW p \in Pools, NEW w \in Workers, Head(p, w)
    PROVE  PoolInv'
<1> DEFINE me == worker[p][w]
<1>1. /\ me.pc = "head" /\ UNCHANGED <<main, ctx, pointers, abandoned, inherited>>
      /\ me \in WorkerRec /\ pool[p] \in PoolRec /\ TypeOK /\ pool[p].size <= MaxThreads
      /\ main' = main
  BY DEF Head, PoolInv, TypeOK, WorkerInv
<1>2. CASE LeavesLoop(p, me.pos)
  <2> DEFINE new == [me EXCEPT !.pc = "barrier", !.pos = 2 * Nodes + 1, !.saw = pool[p].passed]
  <2>1. Arrive(p) /\ worker' = [worker EXCEPT ![p][w] = new]
    BY <1>2 DEF Head
  <2>2. /\ new \in WorkerRec /\ new.pc = "barrier" /\ new.saw = pool[p].passed
        /\ new.fresh = me.fresh /\ new.pos = Last
    <3>1. /\ 2 * Nodes + 1 \in Nat /\ pool[p].passed \in BOOLEAN
          /\ "barrier" \in {"top", "asleep", "exited"} \cup InGraph
      BY <1>1, ThreadpoolAssumption DEF PoolRec, InGraph
    <3>2. new \in WorkerRec
      BY <1>1, <3>1, NewWorker
    <3> QED
      BY <1>1, <3>2 DEF WorkerRec, Last
  <2> HIDE DEF new
  <2>5. me.pc \notin {"none", "exited", "absent"} /\ new.pc # "none"
    BY <1>1, <2>2
  <2>3. CASE ~pool[p].stop
    <3>1. me.pos = 2 * Nodes
      BY <1>2, <2>3 DEF LeavesLoop
    <3>2. Barriers(new.pos) = Barriers(me.pos) + 1
      BY <2>2, <3>1, ThreadpoolAssumption DEF Barriers, Last
    <3> QED
      BY <1>1, <2>1, <2>2, <3>2, WorkerArrives
  <2>4. CASE pool[p].stop
    \* A pool that is being freed is in no graph any more.
    <3>1. ~Computing(p)
      BY <2>4 DEF PoolInv, CallInv, PointerInv, Computing, Sound
    <3>2. ~Rest(p)
      BY <1>1 DEF Rest, Resting
    <3> QED
      BY <1>1, <2>1, <2>2, <2>5, <3>1, <3>2, WorkerFrame
  <2> QED
    BY <2>3, <2>4
<1>3. CASE ~LeavesLoop(p, me.pos)
  <2> DEFINE new == [me EXCEPT !.pc = "op"]
  <2>1. UNCHANGED pool /\ worker' = [worker EXCEPT ![p][w] = new]
    BY <1>1, <1>3 DEF Head, TypeOK
  <2>2. /\ new \in WorkerRec /\ new.pc = "op" /\ new.pos = me.pos /\ new.fresh = me.fresh
    <3>1. "op" \in {"top", "asleep", "exited"} \cup InGraph
      BY DEF InGraph
    <3>2. new \in WorkerRec
      BY <1>1, <3>1, NewWorker
    <3> QED
      BY <1>1, <3>2 DEF WorkerRec
  <2> HIDE DEF new
  <2>5. me.pc \notin {"none", "exited", "absent"} /\ new.pc # "none" /\ new.pc # "barrier"
    BY <1>1, <2>2
  <2>3. ~Resting(p, w)
    BY <1>1 DEF Resting
  <2>4. ASSUME Together(p), w \in Crew(p)
        PROVE  /\ ~Waits(p, w) /\ InPlace(p, w)'
               /\ (IF new.fresh THEN 0 ELSE Barriers(new.pos)) = Passed(p, w)
    <3>1. /\ Pc(p, w) = me.pc /\ Pos(p, w) = me.pos /\ (Fresh(p, w) <=> me.fresh)
          /\ Pc(p, w)' = new.pc /\ Pos(p, w)' = new.pos /\ (Fresh(p, w)' <=> new.fresh)
      <4>1. Moves(p, w, new)
        BY <1>1, <2>1, OneThreadMoves
      <4> QED
        BY <4>1, Zenon DEF Moves
    <3>2. InPlace(p, w)
      BY <2>4 DEF Together
    <3>3. me.pos <= 2 * Nodes /\ me.pos # 2 * Nodes /\ me.pos \in Nat
      BY <1>1, <1>3, <3>1, <3>2 DEF InPlace, LeavesLoop, WorkerRec
    <3>4. ~Waits(p, w) /\ ~Fresh(p, w)
      BY <1>1, <3>1, <3>2 DEF Waits, InPlace
    <3>5. InPlace(p, w)'
      BY <2>2, <3>1, <3>3, <3>4, ThreadpoolAssumption DEF InPlace
    <3>6. Passed(p, w) = Barriers(me.pos)
      BY <3>1, <3>4 DEF Passed
    <3> QED
      BY <2>2, <3>1, <3>4, <3>5, <3>6
  <2> QED
    BY <1>1, <2>1, <2>2, <2>3, <2>4, <2>5, WorkerMovesOn
<1> QED
  BY <1>2, <1>3

LEMMA OpInv ==
    ASSUME PoolInv, NEW p \in Pools, NEW w \in Workers, Op(p, w)
    PROVE  PoolInv'
<1> DEFINE me == worker[p][w]
           last == me.pos + 1 = 2 * Nodes
           new == [me EXCEPT !.pos = @ + 1, !.saw = pool[p].passed,
                             !.pc = IF last THEN "head" ELSE "barrier"]
<1>1. /\ me.pc = "op" /\ UNCHANGED <<main, ctx, pointers, abandoned, inherited>>
      /\ worker' = [worker EXCEPT ![p][w] = new]
      /\ me \in WorkerRec /\ pool[p] \in PoolRec /\ TypeOK /\ pool[p].size <= MaxThreads
      /\ me.pos \in Nat /\ main' = main
  BY DEF Op, PoolInv, TypeOK, WorkerInv, WorkerRec
<1>2. /\ new \in WorkerRec /\ new.saw = pool[p].passed /\ new.pos = me.pos + 1
      /\ new.fresh = me.fresh
      /\ new.pc = IF last THEN "head" ELSE "barrier"
  <2>1. /\ me.pos + 1 \in Nat /\ pool[p].passed \in BOOLEAN
        /\ (IF last THEN "head" ELSE "barrier") \in {"top", "asleep", "exited"} \cup InGraph
    BY <1>1 DEF PoolRec, InGraph
  <2> DEFINE pc == IF last THEN "head" ELSE "barrier"
  <2>2. pc \in {"top", "asleep", "exited"} \cup InGraph
    BY <2>1
  <2> HIDE DEF pc
  <2>3. [me EXCEPT !.pos = me.pos + 1, !.saw = pool[p].passed, !.pc = pc] \in WorkerRec
    BY <1>1, <2>1, <2>2, NewWorker
  <2>4. new = [me EXCEPT !.pos = me.pos + 1, !.saw = pool[p].passed, !.pc = pc]
    BY DEF pc
  <2> QED
    BY <1>1, <2>3, <2>4 DEF WorkerRec, pc
<1> HIDE DEF new
<1>5. me.pc \notin {"none", "exited", "absent"} /\ new.pc # "none"
  BY <1>1, <1>2
<1>3. CASE ~last
  <2>1. Arrive(p) /\ new.pc = "barrier"
    BY <1>2, <1>3 DEF Op
  <2>2. ASSUME InPlace(p, w)
        PROVE  /\ Barriers(new.pos) = Barriers(me.pos) + 1
               /\ new.pos \in 1 .. 2 * Nodes - 1
    <3>1. Pc(p, w) = me.pc /\ Pos(p, w) = me.pos
      BY ThreadsFit DEF Pc, Pos
    <3>2. me.pos < 2 * Nodes
      BY <1>1, <2>2, <3>1 DEF InPlace
    <3> QED
      BY <1>1, <1>2, <1>3, <3>2, ThreadpoolAssumption DEF Barriers
  <2> QED
    BY <1>1, <1>2, <2>1, <2>2, WorkerArrives
<1>4. CASE last
  <2>1. UNCHANGED pool /\ new.pc = "head"
    BY <1>2, <1>4 DEF Op
  <2>2. ~Resting(p, w)
    BY <1>1 DEF Resting
  <2>3. ASSUME Together(p), w \in Crew(p)
        PROVE  /\ ~Waits(p, w) /\ InPlace(p, w)'
               /\ (IF new.fresh THEN 0 ELSE Barriers(new.pos)) = Passed(p, w)
    <3>1. /\ Pc(p, w) = me.pc /\ Pos(p, w) = me.pos /\ (Fresh(p, w) <=> me.fresh)
          /\ Pc(p, w)' = new.pc /\ Pos(p, w)' = new.pos /\ (Fresh(p, w)' <=> new.fresh)
      <4>1. Moves(p, w, new)
        BY <1>1, OneThreadMoves
      <4> QED
        BY <4>1, Zenon DEF Moves
    <3>2. InPlace(p, w)
      BY <2>3 DEF Together
    <3>3. ~Waits(p, w) /\ ~Fresh(p, w)
      BY <1>1, <3>1, <3>2 DEF Waits, InPlace
    <3>4. InPlace(p, w)'
      BY <1>1, <1>2, <1>4, <2>1, <3>1, <3>3, ThreadpoolAssumption DEF InPlace
    <3>5. Barriers(new.pos) = Barriers(me.pos)
      BY <1>1, <1>2, <1>4, ThreadpoolAssumption DEF Barriers
    <3> QED
      BY <1>2, <3>1, <3>3, <3>4, <3>5 DEF Passed
  <2> QED
    BY <1>1, <1>2, <1>5, <2>1, <2>2, <2>3, WorkerMovesOn
<1> QED
  BY <1>3, <1>4

LEMMA BarrierInv ==
    ASSUME PoolInv, NEW p \in Pools, NEW w \in Workers, Barrier(p, w)
    PROVE  PoolInv'
<1> DEFINE me == worker[p][w]
           to == AfterBarrier(me.pos)
           new == [me EXCEPT !.pc = IF to = "out" THEN "top" ELSE to]
<1>1. /\ me.pc = "barrier" /\ MayLeave(p, me.saw)
      /\ UNCHANGED <<main, ctx, pointers, abandoned, inherited, pool>>
      /\ me \in WorkerRec /\ pool[p] \in PoolRec /\ TypeOK /\ pool[p].size <= MaxThreads
      /\ me.pos \in Nat /\ main' = main
  BY DEF Barrier, PoolInv, TypeOK, WorkerInv, WorkerRec
<1>2. worker' = [worker EXCEPT ![p][w] = new]
  BY <1>1 DEF Barrier, TypeOK
<1>3. /\ to \in {"out", "op", "head"}
      /\ to = "out" <=> me.pos > 2 * Nodes
  BY <1>1, ThreadpoolAssumption DEF AfterBarrier
<1> HIDE DEF to
<1>4. /\ new \in WorkerRec /\ new.pos = me.pos /\ new.fresh = me.fresh
      /\ new.pc = IF to = "out" THEN "top" ELSE to
  <2> DEFINE pc == IF to = "out" THEN "top" ELSE to
  <2>1. pc \in {"top", "asleep", "exited"} \cup InGraph
    BY <1>3 DEF InGraph
  <2> HIDE DEF pc
  <2>2. [me EXCEPT !.pc = pc] \in WorkerRec
    BY <1>1, <2>1, NewWorker
  <2>3. new = [me EXCEPT !.pc = pc]
    BY DEF pc
  <2> QED
    BY <1>1, <2>2, <2>3 DEF WorkerRec, pc
<1> HIDE DEF new
<1>5. Resting(p, w) => ~new.fresh /\ new.pc \in {"top", "asleep", "exited"}
  BY <1>1, <1>3, <1>4, ThreadpoolAssumption DEF Resting, Last
<1>6. CASE pool[p].stop
  <2>1. ~Computing(p)
    BY <1>6 DEF PoolInv, CallInv, PointerInv, Computing, Sound
  <2>2. Rest(p) => Rest(p)'
    <3> SUFFICES ASSUME Rest(p) PROVE Rest(p)'
      OBVIOUS
    <3>1. worker'[p][w] = new /\ \A u \in Workers \ {w} : worker'[p][u] = worker[p][u]
      BY <1>1, <1>2 DEF TypeOK
    <3>2. Resting(p, w)'
      BY <1>5, <3>1 DEF Rest, Resting
    <3>3. \A u \in Workers \ {w} : Resting(p, u)'
      BY <1>1, <3>1 DEF Rest, Resting
    <3> QED
      BY <1>1, <3>2, <3>3 DEF Rest
  <2>3. new.pc # "none"
    BY <1>3, <1>4
  <2> QED
    BY <1>1, <1>2, <1>4, <2>1, <2>2, <2>3, WorkerFrame
<1>7. CASE ~pool[p].stop
  <2>1. me.saw # pool[p].passed
    BY <1>1, <1>7 DEF MayLeave
  <2>2. ASSUME Together(p), w \in Crew(p)
        PROVE  /\ ~Waits(p, w) /\ InPlace(p, w)'
               /\ (IF new.fresh THEN 0 ELSE Barriers(new.pos)) = Passed(p, w)
    <3>1. /\ Pc(p, w) = me.pc /\ Pos(p, w) = me.pos /\ Saw(p, w) = me.saw
          /\ (Fresh(p, w) <=> me.fresh)
          /\ Pc(p, w)' = new.pc /\ Pos(p, w)' = new.pos /\ (Fresh(p, w)' <=> new.fresh)
      <4>1. Moves(p, w, new)
        BY <1>1, <1>2, OneThreadMoves
      <4> QED
        BY <4>1, Zenon DEF Moves
    <3>2. InPlace(p, w)
      BY <2>2 DEF Together
    <3>3. ~Waits(p, w) /\ ~Waits(p, w)'
      BY <1>3, <1>4, <2>1, <3>1 DEF Waits
    <3>4. me.fresh => new.pc = "top"
      BY <1>1, <1>3, <1>4, <3>1, <3>2, ThreadpoolAssumption DEF InPlace, Last
    <3>5. new.pc \in {"op", "head"} => me.pos < 2 * Nodes
      BY <1>1, <1>3, <1>4, <3>1, <3>2, ThreadpoolAssumption DEF InPlace, Last
    <3>6. InPlace(p, w)'
      BY <1>1, <1>3, <1>4, <3>1, <3>3, <3>4, <3>5, ThreadpoolAssumption DEF InPlace
    <3> QED
      BY <1>4, <3>1, <3>3, <3>6 DEF Passed
  <2>3. new.pc # "none" /\ new.pc # "barrier"
    BY <1>3, <1>4
  <2> QED
    BY <1>1, <1>2, <1>4, <1>5, <2>2, <2>3, WorkerMovesOn
<1> QED
  BY <1>6, <1>7

-----------------------------------------------------------------------------
(* Steps of the main thread outside graphs. *)

\* A step that leaves the barriers of the pools alone.
PoolsKept ==
    /\ pool' \in [Pools -> PoolRec]
    /\ \A q \in Pools : /\ pool'[q].size = pool[q].size /\ pool'[q].arrived = pool[q].arrived
                        /\ pool'[q].passed = pool[q].passed

\* A step after which some sleepers are awake, or workers are gone with the
\* instance they ran in.
WorkersKept ==
    /\ worker' \in [Pools -> [Workers -> WorkerRec]]
    /\ \A q \in Pools, w \in Workers :
          \/ worker'[q][w] = worker[q][w]
          \/ /\ worker[q][w].pc \notin {"none", "exited"}
             /\ worker'[q][w].fresh = worker[q][w].fresh
             /\ worker'[q][w].pc \in {"top", "absent"}

LEMMA NothingMoves ==
    ASSUME TypeOK, UNCHANGED <<pool, worker>>
    PROVE  PoolsKept /\ WorkersKept
BY DEF PoolsKept, WorkersKept, TypeOK

LEMMA WokenKeeps ==
    ASSUME TypeOK, NEW p \in Pools, worker' = [worker EXCEPT ![p] = Woken(p)]
    PROVE  WorkersKept
<1>1. \A w \in Workers : worker[p][w] \in WorkerRec
  BY DEF TypeOK
<1>2. ASSUME NEW w \in Workers
      PROVE  /\ Woken(p)[w] \in WorkerRec
             /\ \/ Woken(p)[w] = worker[p][w]
                \/ /\ worker[p][w].pc \notin {"none", "exited"}
                   /\ Woken(p)[w].fresh = worker[p][w].fresh
                   /\ Woken(p)[w].pc \in {"top", "absent"}
  <2>1. CASE worker[p][w].pc = "asleep"
    <3>1. Woken(p)[w] = [worker[p][w] EXCEPT !.pc = "top"]
      BY <2>1 DEF Woken
    <3>2. [worker[p][w] EXCEPT !.pc = "top"] \in WorkerRec
      BY <1>1, NewWorker
    <3>3. /\ [worker[p][w] EXCEPT !.pc = "top"].pc = "top"
          /\ [worker[p][w] EXCEPT !.pc = "top"].fresh = worker[p][w].fresh
      BY <1>1 DEF WorkerRec
    <3> QED
      BY <2>1, <3>1, <3>2, <3>3
  <2>2. CASE worker[p][w].pc # "asleep"
    BY <1>1, <2>2 DEF Woken
  <2> QED
    BY <2>1, <2>2
<1>3. Woken(p) \in [Workers -> WorkerRec]
  <2>1. Woken(p) = [w \in Workers |-> Woken(p)[w]]
    BY DEF Woken
  <2> QED
    BY <1>2, <2>1
<1>4. /\ worker'[p] = Woken(p) /\ \A q \in Pools : q # p => worker'[q] = worker[q]
      /\ worker' \in [Pools -> [Workers -> WorkerRec]]
  BY <1>3 DEF TypeOK
<1> QED
  BY <1>2, <1>4 DEF WorkersKept

LEMMA PausedKeeps ==
    ASSUME TypeOK, NEW p \in Pools, Paused(p)
    PROVE  /\ PoolsKept
           /\ \A q \in Pools : pool'[q].mem = pool[q].mem /\ pool'[q].stop = pool[q].stop
<1>1. \A q \in Pools : pool[q] \in PoolRec
  BY DEF TypeOK
<1>2. [pool[p] EXCEPT !.pause = TRUE] \in PoolRec
  BY <1>1, Zenon DEF PoolRec
<1>3. pool' = [pool EXCEPT ![p] = [pool[p] EXCEPT !.pause = TRUE]]
  BY DEF Paused
<1>4. /\ pool' \in [Pools -> PoolRec] /\ pool'[p] = [pool[p] EXCEPT !.pause = TRUE]
      /\ \A q \in Pools : q # p => pool'[q] = pool[q]
  BY <1>2, <1>3 DEF TypeOK
<1>5. /\ pool'[p].mem = pool[p].mem /\ pool'[p].stop = pool[p].stop
      /\ pool'[p].size = pool[p].size /\ pool'[p].arrived = pool[p].arrived
      /\ pool'[p].passed = pool[p].passed
  BY <1>1, <1>4 DEF PoolRec
<1> QED
  BY <1>4, <1>5 DEF PoolsKept

LEMMA StoppedKeeps ==
    ASSUME TypeOK, NEW p \in Pools, Stopped(p)
    PROVE  /\ PoolsKept /\ WorkersKept
           /\ \A q \in Pools : /\ pool'[q].mem = pool[q].mem
                               /\ q # p => pool'[q].stop = pool[q].stop
<1>1. \A q \in Pools : pool[q] \in PoolRec
  BY DEF TypeOK
<1>2. [pool[p] EXCEPT !.stop = TRUE, !.pause = FALSE] \in PoolRec
  BY <1>1, Zenon DEF PoolRec
<1>3. pool' = [pool EXCEPT ![p] = [pool[p] EXCEPT !.stop = TRUE, !.pause = FALSE]]
  BY DEF Stopped, TypeOK
<1>4. /\ pool' \in [Pools -> PoolRec]
      /\ pool'[p] = [pool[p] EXCEPT !.stop = TRUE, !.pause = FALSE]
      /\ \A q \in Pools : q # p => pool'[q] = pool[q]
  BY <1>2, <1>3 DEF TypeOK
<1>5. /\ pool'[p].mem = pool[p].mem
      /\ pool'[p].size = pool[p].size /\ pool'[p].arrived = pool[p].arrived
      /\ pool'[p].passed = pool[p].passed
  BY <1>1, <1>4 DEF PoolRec
<1>6. WorkersKept
  BY WokenKeeps DEF Stopped
<1> QED
  BY <1>4, <1>5, <1>6 DEF PoolsKept

LEMMA FreedKeeps ==
    ASSUME TypeOK, NEW p \in Pools, pool' = [pool EXCEPT ![p].mem = "freed"]
    PROVE  /\ PoolsKept /\ pool'[p].mem = "freed"
           /\ \A q \in Pools : /\ pool'[q].stop = pool[q].stop
                               /\ q # p => pool'[q].mem = pool[q].mem
<1>1. \A q \in Pools : pool[q] \in PoolRec
  BY DEF TypeOK
<1>2. [pool[p] EXCEPT !.mem = "freed"] \in PoolRec
  BY <1>1, Zenon DEF PoolRec, Mem
<1>3. pool' = [pool EXCEPT ![p] = [pool[p] EXCEPT !.mem = "freed"]]
  OBVIOUS
<1>4. /\ pool' \in [Pools -> PoolRec] /\ pool'[p] = [pool[p] EXCEPT !.mem = "freed"]
      /\ \A q \in Pools : q # p => pool'[q] = pool[q]
  BY <1>2, <1>3 DEF TypeOK
<1>5. /\ pool'[p].mem = "freed" /\ pool'[p].stop = pool[p].stop
      /\ pool'[p].size = pool[p].size /\ pool'[p].arrived = pool[p].arrived
      /\ pool'[p].passed = pool[p].passed
  BY <1>1, <1>4 DEF PoolRec
<1> QED
  BY <1>4, <1>5 DEF PoolsKept

LEMMA DetachKeeps ==
    ASSUME TypeOK, Detach
    PROVE  /\ PoolsKept /\ WorkersKept
           /\ \A q \in Pools : pool'[q].mem = pool[q].mem /\ pool'[q].stop = pool[q].stop
<1>1. CASE backend = None
  BY <1>1, NothingMoves DEF Detach
<1>2. CASE backend # None
  <2>1. backend \in Pools
    BY <1>2 DEF TypeOK
  <2>2. Paused(backend) /\ worker' = [worker EXCEPT ![backend] = Woken(backend)]
    BY <1>2 DEF Detach
  <2> QED
    BY <2>1, <2>2, PausedKeeps, WokenKeeps
<1> QED
  BY <1>1, <1>2

\* A step between graphs that moves the barrier of no pool keeps the pools at rest.
LEMMA QuietStep ==
    ASSUME PoolInv, TypeOK', CallInv', PointerInv', CountInv', PoolsKept, WorkersKept,
           main.pc \notin InGraph, main'.pc \notin InGraph,
           \A q \in Pools :
               /\ pool'[q].mem = pool[q].mem \/ (Gone(q) /\ pool'[q].mem = "freed")
               /\ Abandoned(q) => Abandoned(q)' \/ pool'[q].mem = "freed"
    PROVE  PoolInv'
<1>1. ASSUME NEW q \in Pools
      PROVE  /\ pool[q].mem # "live" => Gone(q)
             /\ pool[q].mem = "none" => \A w \in Workers : worker[q][w] = NoWorker
             /\ \A w \in Workers : w >= pool[q].size =>
                    worker[q][w].pc = "none" /\ ~worker[q][w].fresh
             /\ pool[q].size <= MaxThreads /\ pool'[q].size = pool[q].size
             /\ pool[q].mem = "live" => pool[q].size > 0
  BY DEF PoolInv, WorkerInv, PoolsKept
<1>2. ASSUME NEW q \in Pools, NEW w \in Workers, worker[q][w].pc \in {"none", "exited"}
      PROVE  worker'[q][w] = worker[q][w]
  BY <1>2 DEF WorkersKept
<1>3. WorkerInv'
  <2> SUFFICES ASSUME NEW q \in Pools
               PROVE  /\ pool'[q].mem # "live" => Gone(q)'
                      /\ pool'[q].mem = "none" => \A w \in Workers : worker'[q][w] = NoWorker
                      /\ \A w \in Workers : w >= pool'[q].size =>
                             worker'[q][w].pc = "none" /\ ~worker'[q][w].fresh
                      /\ pool'[q].size <= MaxThreads
                      /\ pool'[q].mem = "live" => pool'[q].size > 0
    BY DEF WorkerInv
  <2>1. Gone(q) => Gone(q)'
    BY <1>2 DEF Gone
  <2>2. NoWorker.pc = "none"
    BY DEF NoWorker
  <2> QED
    BY <1>1, <1>2, <2>1, <2>2
<1>4. GraphInv'
  <2> SUFFICES ASSUME NEW q \in Pools, pool'[q].mem # "freed", ~Abandoned(q)'
               PROVE  ~Computing(q)' /\ Rest(q)'
    BY DEF GraphInv
  <2>1. Rest(q)
    BY DEF PoolInv, GraphInv, Computing
  <2>2. pool'[q].arrived = pool[q].arrived /\ pool'[q].passed = pool[q].passed
    BY DEF PoolsKept
  <2>3. ASSUME NEW w \in Workers PROVE Resting(q, w)'
    BY <2>1, <2>2 DEF Rest, Resting, WorkersKept
  <2> QED
    BY <2>1, <2>2, <2>3 DEF Rest, Computing
<1> QED
  BY <1>3, <1>4 DEF PoolInv

-----------------------------------------------------------------------------
(* The main thread in a graph. *)

\* While it computes: on the context's pool, which nobody frees.
LEMMA WhereItComputes ==
    ASSUME PoolInv, main.pc \in InGraph
    PROVE  /\ main.pool \in Pools /\ main.pool = attached /\ main.pool = owned /\ ~abandoned
           /\ main.call = "compute" /\ pool[main.pool].mem = "live" /\ ~pool[main.pool].stop
           /\ Together(main.pool) /\ pool[main.pool].size <= MaxThreads
           /\ 0 \in Crew(main.pool) /\ main \in MainRec /\ pool[main.pool] \in PoolRec
<1>1. /\ main.pool # None /\ main.pool = attached /\ ~abandoned /\ main.call = "compute"
  BY DEF PoolInv, CallInv
<1>2. main.pool \in Pools /\ main \in MainRec /\ pool[main.pool] \in PoolRec
  BY <1>1 DEF PoolInv, TypeOK, MainRec
<1>3. attached = owned /\ Sound(main.pool)
  BY <1>1 DEF PoolInv, PointerInv
<1>4. Together(main.pool)
  BY <1>1, <1>2, <1>3 DEF PoolInv, GraphInv, Computing, Abandoned, Sound
<1>5. pool[main.pool].size <= MaxThreads
  BY <1>2 DEF PoolInv, WorkerInv
<1>6. pool[main.pool].size > 0
  <2>1. pool[main.pool].mem = "live"
    BY <1>3 DEF Sound
  <2> QED
    BY <1>2, <2>1 DEF PoolInv, WorkerInv
<1>7. pool[main.pool].size \in Nat
  BY <1>2 DEF PoolRec
<1> QED
  BY <1>1, <1>2, <1>3, <1>4, <1>5, <1>6, <1>7 DEF Sound, Crew

\* A step of the main thread inside a graph.
LEMMA MainFrame ==
    ASSUME PoolInv, main.pc \in InGraph, NEW pc \in InGraph, NEW pos \in Nat, NEW saw \in BOOLEAN,
           UNCHANGED <<worker, ctx, pointers, abandoned, inherited>>,
           UNCHANGED pool \/ Arrive(main.pool),
           main' = [main EXCEPT !.pc = pc, !.pos = pos, !.saw = saw],
           Together(main.pool)'
    PROVE  PoolInv'
<1> DEFINE p == main.pool
<1>1. /\ p \in Pools /\ main \in MainRec /\ pool[p] \in PoolRec /\ pool \in [Pools -> PoolRec]
      /\ TypeOK /\ CallInv /\ PointerInv /\ CountInv /\ WorkerInv /\ GraphInv
  BY WhereItComputes DEF PoolInv, TypeOK
<1>2. /\ main' \in MainRec
      /\ main'.pc = pc /\ main'.call = main.call /\ main'.pool = p
  <2>1. pc \in {"host", "stop", "join", "pool gone", "free ctx"} \cup InGraph \cup Making
    OBVIOUS
  <2>2. main' \in MainRec
    BY <1>1, <2>1, Zenon DEF MainRec
  <2> QED
    BY <1>1, <2>2 DEF MainRec
<1>3. pool' \in [Pools -> PoolRec]
  <2>1. 0 \in Int /\ pool[p].arrived + 1 \in Int
    BY <1>1 DEF PoolRec
  <2>2. (~pool[p].passed) \in BOOLEAN
    OBVIOUS
  <2>3. [pool[p] EXCEPT !.arrived = 0, !.passed = ~@] \in PoolRec
    BY <1>1, <2>1, <2>2, Zenon DEF PoolRec
  <2>4. [pool[p] EXCEPT !.arrived = @ + 1] \in PoolRec
    BY <1>1, <2>1, Zenon DEF PoolRec
  <2> QED
    BY <1>1, <2>3, <2>4 DEF Arrive
<1>4. ASSUME NEW q \in Pools
      PROVE  /\ pool'[q].mem = pool[q].mem /\ pool'[q].size = pool[q].size
             /\ pool'[q].stop = pool[q].stop
             /\ q # p => pool'[q] = pool[q]
  <2>1. pool[q] \in PoolRec
    BY <1>1
  <2> QED
    BY <1>1, <2>1 DEF Arrive, PoolRec
<1>5. /\ worker' = worker /\ ctx' = ctx /\ owned' = owned /\ attached' = attached
      /\ backend' = backend /\ abandoned' = abandoned /\ inherited' = inherited
  BY DEF pointers
<1> HIDE DEF p
<1>6. TypeOK'
  BY <1>1, <1>2, <1>3, <1>5 DEF TypeOK
<1>7. main.call = "compute" /\ p = attached /\ p # None /\ ~abandoned
  BY WhereItComputes, <1>1 DEF p, CallInv
<1>8. CallInv'
  <2>1. /\ main'.pc = pc /\ main'.call = "compute" /\ main'.pool = p /\ attached' = p /\ ~abandoned'
    BY <1>2, <1>5, <1>7
  <2>2. pc \in InGraph /\ pc \notin Making
        /\ pc \notin {"host", "stop", "join", "pool gone", "free ctx"}
    BY DEF InGraph, Making
  <2>3. "spawn" \in Making /\ "join failed" \in Making /\ "not made" \in Making
    BY DEF Making
  <2> QED
    BY <1>7, <2>1, <2>2, <2>3 DEF CallInv
<1>9. PointerInv'
  <2>1. \A q \in {attached, backend} \ {None} : q \in Pools /\ Sound(q)
    BY <1>1, <1>7 DEF PointerInv, TypeOK
  <2>2. \A q \in {attached, backend} \ {None} : Sound(q)'
    BY <1>4, <2>1 DEF Sound
  <2>3. ctx.mem = "live" /\ attached = owned
    BY <1>1, <1>7 DEF PointerInv
  <2>4. main'.call = "compute" /\ main'.pc # "pool gone"
    BY <1>2, <1>7 DEF InGraph
  <2> QED
    BY <1>5, <2>2, <2>3, <2>4 DEF PointerInv
<1>10. CountInv'
  <2>1. attached = p /\ CountFor(attached) = pool[p].size
    BY <1>7 DEF CountFor
  <2>2. CountFor(attached)' = pool[p].size
    BY <1>1, <1>4, <1>5, <1>7 DEF CountFor
  <2> QED
    BY <1>1, <1>2, <1>5, <1>7, <2>1, <2>2 DEF CountInv
<1>11. WorkerInv'
  BY <1>1, <1>4, <1>5 DEF WorkerInv, Gone
<1>12. GraphInv'
  <2> SUFFICES ASSUME NEW q \in Pools
               PROVE  \/ pool'[q].mem = "freed" \/ Abandoned(q)'
                      \/ Computing(q)' /\ Together(q)'
                      \/ ~Computing(q)' /\ Rest(q)'
    BY DEF GraphInv
  <2>1. CASE q = p
    BY <1>2, <2>1 DEF Computing, p
  <2>2. CASE q # p
    <3>1. ~Computing(q)' /\ ~Computing(q) /\ ~Abandoned(q)
      BY <1>2, <1>7, <2>2 DEF Computing, Abandoned, p
    <3>2. Rest(q) => Rest(q)'
      BY <1>4, <1>5, <2>2 DEF Rest, Resting
    <3> QED
      BY <1>1, <1>4, <3>1, <3>2 DEF GraphInv
  <2> QED
    BY <2>1, <2>2
<1> QED
  BY <1>6, <1>8, <1>9, <1>10, <1>11, <1>12 DEF PoolInv

\* The main thread becomes new, and no worker moves.
MainMoves(p, new) ==
    /\ Pc(p, 0)' = new.pc /\ Pos(p, 0)' = new.pos /\ Saw(p, 0)' = new.saw
    /\ Pc(p, 0) = main.pc /\ Pos(p, 0) = main.pos /\ Saw(p, 0) = main.saw
    /\ ~Fresh(p, 0) /\ ~Fresh(p, 0)'
    /\ \A u \in Crew(p) \ {0} :
           /\ Pc(p, u)' = Pc(p, u) /\ Pos(p, u)' = Pos(p, u)
           /\ Saw(p, u)' = Saw(p, u) /\ Fresh(p, u)' = Fresh(p, u)

LEMMA MainThreadMoves ==
    ASSUME NEW p, worker' = worker, NEW new, main' = new
    PROVE  MainMoves(p, new)
BY DEF MainMoves, Pc, Pos, Saw, Fresh

\* The main thread goes on without coming to a barrier.
LEMMA MainMovesOn ==
    ASSUME PoolInv, main.pc \in InGraph, NEW pc \in InGraph, NEW pos \in Nat, NEW saw \in BOOLEAN,
           UNCHANGED <<worker, ctx, pointers, abandoned, inherited, pool>>,
           main' = [main EXCEPT !.pc = pc, !.pos = pos, !.saw = saw],
           ~Waits(main.pool, 0), pc # "barrier", Barriers(pos) = Barriers(main.pos),
           pc = "head" => pos <= 2 * Nodes, pc = "op" => pos < 2 * Nodes
    PROVE  PoolInv'
<1> DEFINE p == main.pool
           new == [main EXCEPT !.pc = pc, !.pos = pos, !.saw = saw]
<1>1. /\ p \in Pools /\ main \in MainRec /\ Together(p) /\ 0 \in Crew(p)
      /\ worker' = worker /\ main' = new
  BY WhereItComputes
<1>2. new.pc = pc /\ new.pos = pos /\ main'.pool = p
  BY <1>1 DEF MainRec
<1> HIDE DEF new
<1>3. MainMoves(p, new)
  BY <1>1, MainThreadMoves
<1>4. ~Waits(p, 0) /\ Passed(p, 0) = Barriers(main.pos)
  BY <1>3 DEF MainMoves, Passed
<1>5. ~Waits(p, 0)'
  BY <1>2, <1>3 DEF MainMoves, Waits
<1>6. Passed(p, 0)' = Barriers(pos)
  BY <1>2, <1>3, <1>5 DEF MainMoves, Passed, Barriers
<1>7. InPlace(p, 0)'
  BY <1>2, <1>3, <1>5 DEF MainMoves, InPlace
<1>8. Together(p)'
  BY <1>1, <1>3, <1>4, <1>5, <1>6, <1>7, MovesOn DEF MainMoves
<1> QED
  BY <1>2, <1>8, MainFrame

\* The main thread comes to the next barrier.
LEMMA MainArrives ==
    ASSUME PoolInv, main.pc \in {"head", "op"}, NEW pos \in Nat,
           UNCHANGED <<worker, ctx, pointers, abandoned, inherited>>, Arrive(main.pool),
           main' = [main EXCEPT !.pc = "barrier", !.pos = pos, !.saw = pool[main.pool].passed],
           Barriers(pos) = Barriers(main.pos) + 1,
           pos = Last \/ pos \in 1 .. 2 * Nodes - 1
    PROVE  PoolInv'
<1> DEFINE p == main.pool
           new == [main EXCEPT !.pc = "barrier", !.pos = pos, !.saw = pool[main.pool].passed]
<1>1. /\ p \in Pools /\ main \in MainRec /\ Together(p) /\ 0 \in Crew(p) /\ TypeOK
      /\ pool[p].size <= MaxThreads /\ pool[p].passed \in BOOLEAN
      /\ worker' = worker /\ main' = new /\ main.pc \in InGraph
  BY WhereItComputes DEF PoolInv, InGraph, PoolRec
<1>2. /\ new.pc = "barrier" /\ new.pos = pos /\ new.saw = pool[p].passed /\ main'.pool = p
  BY <1>1 DEF MainRec
<1> HIDE DEF new
<1>3. MainMoves(p, new)
  BY <1>1, MainThreadMoves
<1>4. ~Waits(p, 0) /\ ~Fresh(p, 0) /\ ~Fresh(p, 0)'
  BY <1>3 DEF MainMoves, Waits
<1>5. InPlace(p, 0)'
  BY <1>2, <1>3 DEF MainMoves, InPlace, Last
<1>6. Barriers(main.pos) \in Int
  <2>1. main.pos \in Nat
    BY <1>1 DEF MainRec
  <2> QED
    BY <2>1, ThreadpoolAssumption DEF Barriers
<1>7. /\ Pc(p, 0)' = "barrier" /\ Saw(p, 0)' = pool[p].passed
      /\ Barriers(Pos(p, 0)') = Barriers(Pos(p, 0)) + 1 /\ Barriers(Pos(p, 0)) \in Int
  BY <1>2, <1>3, <1>6 DEF MainMoves
<1>8. Together(p)'
  BY <1>1, <1>3, <1>4, <1>5, <1>7, ComesToBarrier DEF MainMoves
<1>9. "barrier" \in InGraph
  BY DEF InGraph
<1> QED
  BY <1>1, <1>2, <1>8, <1>9, MainFrame

LEMMA MainHeadInv ==
    ASSUME PoolInv, MainHead
    PROVE  PoolInv'
<1> DEFINE p == main.pool
<1>1. /\ main.pc = "head" /\ main.pc \in InGraph
      /\ UNCHANGED <<worker, ctx, pointers, abandoned, inherited>>
  BY DEF MainHead, InGraph
<1>2. /\ p \in Pools /\ main \in MainRec /\ Together(p) /\ 0 \in Crew(p) /\ ~pool[p].stop
      /\ main.pos \in Nat /\ main.saw \in BOOLEAN
  BY <1>1, WhereItComputes DEF MainRec
<1>3. main.pos <= 2 * Nodes
  BY <1>1, <1>2 DEF Together, InPlace, Pc, Pos
<1>4. CASE LeavesLoop(p, main.pos)
  <2>1. main.pos = 2 * Nodes
    BY <1>2, <1>4 DEF LeavesLoop
  <2>2. /\ Last \in Nat /\ Barriers(Last) = Barriers(main.pos) + 1
    BY <2>1, ThreadpoolAssumption DEF Barriers, Last
  <2>3. /\ Arrive(p)
        /\ main' = [main EXCEPT !.pc = "barrier", !.pos = Last, !.saw = pool[main.pool].passed]
    BY <1>4 DEF MainHead, Last
  <2> QED
    BY <1>1, <2>2, <2>3, MainArrives
<1>5. CASE ~LeavesLoop(p, main.pos)
  <2>1. main' = [main EXCEPT !.pc = "op"] /\ UNCHANGED pool
    BY <1>5 DEF MainHead
  <2>2. main' = [main EXCEPT !.pc = "op", !.pos = main.pos, !.saw = main.saw]
    BY <1>2, <2>1 DEF MainRec
  <2>3. main.pos < 2 * Nodes
    BY <1>2, <1>3, <1>5, ThreadpoolAssumption DEF LeavesLoop
  <2>4. ~Waits(p, 0) /\ "op" \in InGraph
    BY <1>1 DEF Waits, Pc, InGraph
  <2> QED
    BY <1>1, <1>2, <2>1, <2>2, <2>3, <2>4, MainMovesOn
<1> QED
  BY <1>4, <1>5

LEMMA MainOpInv ==
    ASSUME PoolInv, MainOp
    PROVE  PoolInv'
<1> DEFINE p == main.pool
           last == main.pos + 1 = 2 * Nodes
<1>1. /\ main.pc = "op" /\ main.pc \in InGraph
      /\ UNCHANGED <<worker, ctx, pointers, abandoned, inherited>>
  BY DEF MainOp, InGraph
<1>2. /\ p \in Pools /\ main \in MainRec /\ Together(p) /\ 0 \in Crew(p)
      /\ main.pos \in Nat /\ main.pos + 1 \in Nat /\ pool[p].passed \in BOOLEAN
  <2>1. /\ p \in Pools /\ main \in MainRec /\ Together(p) /\ 0 \in Crew(p)
        /\ pool[p] \in PoolRec
    BY <1>1, WhereItComputes
  <2>2. main.pos \in Nat /\ pool[p].passed \in BOOLEAN
    BY <2>1 DEF MainRec, PoolRec
  <2> QED
    BY <2>1, <2>2
<1>3. main.pos < 2 * Nodes
  BY <1>1, <1>2 DEF Together, InPlace, Pc, Pos
<1>4. CASE last
  <2>1. /\ UNCHANGED pool
        /\ main' = [main EXCEPT !.pc = "head", !.pos = main.pos + 1, !.saw = pool[p].passed]
    BY <1>2, <1>4 DEF MainOp, MainRec
  <2>2. Barriers(main.pos + 1) = Barriers(main.pos)
    BY <1>2, <1>3, <1>4, ThreadpoolAssumption DEF Barriers
  <2>3. ~Waits(p, 0) /\ "head" \in InGraph
    BY <1>1 DEF Waits, Pc, InGraph
  <2>4. main.pos + 1 <= 2 * Nodes
    BY <1>2, <1>4
  <2> QED
    BY <1>1, <1>2, <2>1, <2>2, <2>3, <2>4, MainMovesOn
<1>5. CASE ~last
  <2>1. /\ Arrive(p)
        /\ main' = [main EXCEPT !.pc = "barrier", !.pos = main.pos + 1,
                                !.saw = pool[main.pool].passed]
    BY <1>2, <1>5 DEF MainOp, MainRec
  <2>2. Barriers(main.pos + 1) = Barriers(main.pos) + 1
    BY <1>2, <1>3, <1>5, ThreadpoolAssumption DEF Barriers
  <2>3. main.pos + 1 \in 1 .. 2 * Nodes - 1
    BY <1>2, <1>3, <1>5, ThreadpoolAssumption
  <2> QED
    BY <1>1, <1>2, <2>1, <2>2, <2>3, MainArrives
<1> QED
  BY <1>4, <1>5

\* The main thread leaves its graph: all workers have left their last op, or
\* the graph is abandoned.
LEMMA GraphEnds ==
    ASSUME PoolInv, main.pc \in InGraph, main' = AtHost,
           UNCHANGED <<pool, worker, ctx, pointers, inherited>>,
           \/ abandoned'
           \/ UNCHANGED abandoned /\ Rest(main.pool),
           abandoned' \in BOOLEAN
    PROVE  PoolInv'
<1>1. /\ main.call = "compute" /\ main.pool = owned /\ main.pool \in Pools
      /\ TypeOK /\ PointerInv /\ CountInv /\ WorkerInv /\ GraphInv /\ ~abandoned
  BY WhereItComputes DEF PoolInv
<1>2. /\ pool' = pool /\ worker' = worker /\ ctx' = ctx /\ owned' = owned
      /\ attached' = attached /\ backend' = backend /\ inherited' = inherited
  BY DEF pointers
<1>3. AtHost \in MainRec /\ AtHost.call = "none" /\ AtHost.pc = "host"
  BY DEF AtHost, MainRec
<1>4. TypeOK'
  BY <1>1, <1>2, <1>3 DEF TypeOK
<1>5. CallInv'
  BY <1>3 DEF CallInv, InGraph, Making
<1>6. PointerInv'
  BY <1>1, <1>2, <1>3 DEF PointerInv, Sound
<1>7. CountInv'
  BY <1>1, <1>2, <1>3 DEF CountInv, CountFor
<1>8. WorkerInv'
  BY <1>1, <1>2 DEF WorkerInv, Gone
<1>9. GraphInv'
  <2> SUFFICES ASSUME NEW q \in Pools
               PROVE  \/ pool'[q].mem = "freed" \/ Abandoned(q)'
                      \/ Computing(q)' /\ Together(q)'
                      \/ ~Computing(q)' /\ Rest(q)'
    BY DEF GraphInv
  <2>1. ~Computing(q)'
    BY <1>3 DEF Computing, InGraph
  <2>2. Rest(q) => Rest(q)'
    BY <1>2 DEF Rest, Resting
  <2>3. CASE q = main.pool
    BY <1>1, <1>2, <2>1, <2>2, <2>3 DEF Abandoned
  <2>4. CASE q # main.pool
    BY <1>1, <1>2, <2>1, <2>2, <2>4 DEF GraphInv, Computing, Abandoned
  <2> QED
    BY <2>3, <2>4
<1> QED
  BY <1>4, <1>5, <1>6, <1>7, <1>8, <1>9 DEF PoolInv

LEMMA MainBarrierInv ==
    ASSUME PoolInv, MainBarrier
    PROVE  PoolInv'
<1> DEFINE p == main.pool
           to == AfterBarrier(main.pos)
<1>1. /\ main.pc = "barrier" /\ main.pc \in InGraph /\ MayLeave(p, main.saw)
      /\ UNCHANGED <<pool, worker, ctx, pointers, abandoned, inherited>>
      /\ main' = IF to = "out" THEN AtHost ELSE [main EXCEPT !.pc = to]
  BY DEF MainBarrier, InGraph
<1>2. /\ p \in Pools /\ main \in MainRec /\ Together(p) /\ 0 \in Crew(p) /\ ~pool[p].stop
      /\ main.pos \in Nat /\ main.saw \in BOOLEAN /\ pool[p].size <= MaxThreads
  BY <1>1, WhereItComputes DEF MainRec
<1>3. main.saw # pool[p].passed /\ ~Waits(p, 0)
  BY <1>1, <1>2 DEF MayLeave, Waits, Saw
<1>4. main.pos = Last \/ main.pos \in 1 .. 2 * Nodes - 1
  BY <1>1, <1>2 DEF Together, InPlace, Pc, Pos
<1>5. CASE main.pos = Last
  <2>1. to = "out"
    BY <1>5, ThreadpoolAssumption DEF AfterBarrier, Last
  <2>2. \A w \in Workers : w >= pool[p].size => worker[p][w].pc = "none" /\ ~worker[p][w].fresh
    BY <1>2 DEF PoolInv, WorkerInv
  <2>3. Rest(p)
    BY <1>1, <1>2, <1>3, <1>5, <2>2, AllOut DEF PoolInv
  <2>4. abandoned' \in BOOLEAN /\ UNCHANGED abandoned
    BY <1>1 DEF PoolInv, TypeOK
  <2> QED
    BY <1>1, <2>1, <2>3, <2>4, GraphEnds
<1>6. CASE main.pos \in 1 .. 2 * Nodes - 1
  <2>1. to \in {"op", "head"} /\ main.pos < 2 * Nodes
    BY <1>6, ThreadpoolAssumption DEF AfterBarrier
  <2> HIDE DEF to
  <2>2. to \in InGraph /\ to # "barrier" /\ to # "out"
    BY <2>1 DEF InGraph
  <2>3. main' = [main EXCEPT !.pc = to, !.pos = main.pos, !.saw = main.saw]
    BY <1>1, <1>2, <2>2 DEF MainRec
  <2>4. main.pos <= 2 * Nodes
    BY <1>2, <2>1, ThreadpoolAssumption
  <2> QED
    BY <1>1, <1>2, <1>3, <2>1, <2>2, <2>3, <2>4, MainMovesOn
<1> QED
  BY <1>4, <1>5, <1>6

LEMMA TrapInv ==
    ASSUME PoolInv, Trap
    PROVE  PoolInv'
<1>1. main.pc \in InGraph /\ abandoned' = TRUE
  BY DEF Trap, InGraph
<1> QED
  BY <1>1, GraphEnds DEF Trap

-----------------------------------------------------------------------------
(* The calls. *)

Entered(call, pc, p) ==
    main' \in MainRec /\ main'.call = call /\ main'.pc = pc /\ main'.pool = p /\ main'.pos = 0

LEMMA EnterEnters ==
    ASSUME NEW call \in {"ctx_new", "attach", "compute", "ctx_free", "free_threadpool"},
           NEW pc \in {"stop", "pool gone"} \cup InGraph \cup Making,
           NEW p \in Pools \cup {None}, Enter(call, p, pc)
    PROVE  Entered(call, pc, p)
<1>1. /\ call \in {"none", "ctx_new", "attach", "compute", "ctx_free", "free_threadpool"}
      /\ pc \in {"host", "stop", "join", "pool gone", "free ctx"} \cup InGraph \cup Making
  OBVIOUS
<1>2. AtHost \in MainRec /\ AtHost.pos = 0
  BY DEF AtHost, MainRec
<1>3. main' = [AtHost EXCEPT !.call = call, !.pc = pc, !.pool = p]
  BY DEF Enter
<1>4. main' \in MainRec
  BY <1>1, <1>2, <1>3, Zenon DEF MainRec
<1> QED
  BY <1>2, <1>3, <1>4 DEF AtHost, Entered

LEMMA MakingEnters ==
    ASSUME NEW call \in {"ctx_new", "attach"}, NEW p \in Pools,
           main' = [AtHost EXCEPT !.call = call, !.pc = "spawn", !.pool = p, !.n = 1]
    PROVE  Entered(call, "spawn", p) /\ main'.n = 1
<1>1. /\ call \in {"none", "ctx_new", "attach", "compute", "ctx_free", "free_threadpool"}
      /\ "spawn" \in {"host", "stop", "join", "pool gone", "free ctx"} \cup InGraph \cup Making
      /\ p \in Pools \cup {None} /\ 1 \in Nat
  BY DEF Making
<1>2. AtHost \in MainRec /\ AtHost.pos = 0
  BY DEF AtHost, MainRec
<1>3. main' \in MainRec
  BY <1>1, <1>2, Zenon DEF MainRec
<1> QED
  BY <1>2, <1>3 DEF AtHost, Entered

\* What an idle main thread means.
LEMMA IdleMeans ==
    ASSUME PoolInv, Idle
    PROVE  /\ main.call = "none" /\ main.pc \notin InGraph /\ attached = owned
           /\ \A p \in {attached, backend} \ {None} : p \in Pools /\ Sound(p)
<1>1. main.call = "none" /\ main.pc \notin InGraph
  BY DEF PoolInv, CallInv, Idle, InGraph
<1> QED
  BY <1>1 DEF PoolInv, PointerInv, TypeOK

\* A new pool, in memory that was never used.
Born(p, n) ==
    /\ pool[p].mem = "none" /\ pool' \in [Pools -> PoolRec]
    /\ pool'[p].mem = "live" /\ pool'[p].size = n /\ ~pool'[p].stop /\ pool'[p].arrived = 0
    /\ \A q \in Pools : q # p => pool'[q] = pool[q]

LEMMA NewPoolIsBorn ==
    ASSUME PoolInv, NEW n \in Threads, NEW call \in {"ctx_new", "attach"}, NewPool(call, n)
    PROVE  \E p \in Pools :
              /\ Born(p, n)
              /\ main' = [AtHost EXCEPT !.call = call, !.pc = "spawn", !.pool = p, !.n = 1]
<1>1. PICK p \in Unused :
          /\ pool' = [pool EXCEPT ![p] = [NoPool EXCEPT !.mem = "live", !.size = n]]
          /\ main' = [AtHost EXCEPT !.call = call, !.pc = "spawn", !.pool = p, !.n = 1]
  BY DEF NewPool
<1>2. p \in Pools /\ pool[p].mem = "none" /\ n \in Nat /\ pool \in [Pools -> PoolRec]
  BY ThreadsFit DEF Unused, PoolInv, TypeOK
<1> DEFINE new == [NoPool EXCEPT !.mem = "live", !.size = n]
<1>3. NoPool \in PoolRec /\ "live" \in Mem
  BY DEF NoPool, PoolRec, Mem
<1>4. new \in PoolRec
  BY <1>2, <1>3, Zenon DEF PoolRec
<1>5. new.mem = "live" /\ new.size = n /\ ~new.stop /\ new.arrived = 0
  BY <1>3 DEF NoPool
<1> HIDE DEF new
<1>6. pool' = [pool EXCEPT ![p] = new]
  BY <1>1 DEF new
<1>7. /\ pool' \in [Pools -> PoolRec] /\ pool'[p] = new
      /\ \A q \in Pools : q # p => pool'[q] = pool[q]
  BY <1>2, <1>4, <1>6
<1>8. Born(p, n)
  BY <1>2, <1>5, <1>7 DEF Born
<1> QED
  BY <1>1, <1>2, <1>8

LEMMA BornIsQuiet ==
    ASSUME PoolInv, Idle, NEW n \in Threads, n > 1, NEW p \in Pools, Born(p, n),
           worker' = worker, main'.pc \notin InGraph,
           \A q \in Pools : ~Abandoned(q)
    PROVE  WorkerInv' /\ GraphInv'
<1>1. n \in Nat /\ n <= MaxThreads
  BY ThreadsFit
<1>2. \A w \in Workers : worker[p][w] = NoWorker
  BY DEF PoolInv, WorkerInv, Born
<1>3. NoWorker.pc = "none" /\ ~NoWorker.fresh
  BY DEF NoWorker
<1>4. WorkerInv'
  <2> SUFFICES ASSUME NEW q \in Pools
               PROVE  /\ pool'[q].mem # "live" => Gone(q)'
                      /\ pool'[q].mem = "none" => \A w \in Workers : worker'[q][w] = NoWorker
                      /\ \A w \in Workers : w >= pool'[q].size =>
                             worker'[q][w].pc = "none" /\ ~worker'[q][w].fresh
                      /\ pool'[q].size <= MaxThreads
                      /\ pool'[q].mem = "live" => pool'[q].size > 0
    BY DEF WorkerInv
  <2>1. CASE q = p
    BY <1>1, <1>2, <1>3, <2>1 DEF Born
  <2>2. CASE q # p
    BY <2>2 DEF Born, PoolInv, WorkerInv, Gone
  <2> QED
    BY <2>1, <2>2
<1>5. GraphInv'
  <2> SUFFICES ASSUME NEW q \in Pools, pool'[q].mem # "freed" PROVE ~Computing(q)' /\ Rest(q)'
    BY DEF GraphInv
  <2>1. CASE q = p
    BY <1>2, <1>3, <2>1 DEF Born, Rest, Resting, Computing
  <2>2. CASE q # p
    <3>1. pool'[q] = pool[q] /\ ~Computing(q)
      BY <2>2, IdleMeans DEF Born, Computing
    <3>2. Rest(q)
      BY <3>1 DEF PoolInv, GraphInv
    <3> QED
      BY <3>1, <3>2 DEF Rest, Resting, Computing
  <2> QED
    BY <2>1, <2>2
<1> QED
  BY <1>4, <1>5

LEMMA CtxNewInv ==
    ASSUME PoolInv, NEW n \in Threads, ctx_new(n)
    PROVE  PoolInv'
<1>1. /\ Idle /\ ctx.mem # "live" /\ worker' = worker /\ inherited' = inherited
      /\ owned' = owned /\ attached' = attached /\ backend' = backend
      /\ ctx' = [mem |-> "live", n_threads |-> n] /\ abandoned' = FALSE
  BY DEF ctx_new, pointers
<1>2. owned = None /\ attached = None /\ backend = None
  BY <1>1 DEF PoolInv, PointerInv
<1>3. n \in Nat /\ n >= 1 /\ TypeOK /\ None \notin Pools
  BY ThreadsFit, ThreadpoolAssumption DEF PoolInv, None
<1>4. ctx' \in [mem : Mem, n_threads : Nat] /\ ctx'.mem = "live"
  BY <1>1, <1>3 DEF Mem
<1>5. \A q \in Pools : ~Abandoned(q)
  BY <1>2, <1>3 DEF Abandoned
<1>6. CASE n > 1
  <2>1. NewPool("ctx_new", n)
    BY <1>6 DEF ctx_new
  <2>2. PICK p \in Pools :
            /\ Born(p, n)
            /\ main' = [AtHost EXCEPT !.call = "ctx_new", !.pc = "spawn", !.pool = p, !.n = 1]
    BY <2>1, NewPoolIsBorn
  <2>4. /\ main' \in MainRec /\ main'.call = "ctx_new" /\ main'.pc = "spawn" /\ main'.pool = p
        /\ main'.n = 1
    BY <2>2, MakingEnters DEF Entered
  <2>5. main'.pc \notin InGraph /\ main'.pc \in Making
    BY <2>4 DEF InGraph, Making
  <2>6. WorkerInv' /\ GraphInv'
    BY <1>1, <1>5, <1>6, <2>2, <2>5, BornIsQuiet
  <2>7. TypeOK'
    BY <1>1, <1>2, <1>3, <1>4, <2>2, <2>4 DEF TypeOK, Born
  <2>8. CallInv'
    <3>1. main'.n \in 1 .. pool'[main'.pool].size - 1 /\ Sound(p)' /\ main'.pool # None
      BY <1>3, <1>6, <2>2, <2>4 DEF Born, Sound
    <3> QED
      BY <1>1, <1>2, <2>4, <2>5, <3>1 DEF CallInv
  <2>9. PointerInv'
    BY <1>1, <1>2, <1>4, <2>4 DEF PointerInv
  <2>10. CountInv'
    BY <2>4 DEF CountInv
  <2> QED
    BY <2>6, <2>7, <2>8, <2>9, <2>10 DEF PoolInv
<1>7. CASE ~(n > 1)
  <2>1. Enter("ctx_new", None, "made") /\ UNCHANGED pool
    BY <1>7 DEF ctx_new
  <2>2. "made" \in {"stop", "pool gone"} \cup InGraph \cup Making
    BY DEF Making
  <2>3. /\ main' \in MainRec /\ main'.call = "ctx_new" /\ main'.pc = "made" /\ main'.pool = None
    <3>1. None \in Pools \cup {None}
      OBVIOUS
    <3> QED
      BY <2>1, <2>2, <3>1, EnterEnters DEF Entered
  <2>4. main'.pc \notin InGraph /\ main'.pc \in Making /\ main.pc \notin InGraph
    BY <1>1, <2>3 DEF InGraph, Making, Idle
  <2>5. PoolsKept /\ WorkersKept
    BY <1>1, <1>3, <2>1, NothingMoves
  <2>6. TypeOK'
    BY <1>1, <1>2, <1>3, <1>4, <2>1, <2>3 DEF TypeOK
  <2>7. CallInv'
    BY <1>1, <2>3, <2>4 DEF CallInv
  <2>8. PointerInv'
    BY <1>1, <1>2, <1>4, <2>3 DEF PointerInv
  <2>9. CountInv'
    BY <2>3 DEF CountInv
  <2> QED
    BY <1>5, <2>1, <2>4, <2>5, <2>6, <2>7, <2>8, <2>9, QuietStep
<1> QED
  BY <1>6, <1>7

LEMMA AttachInv ==
    ASSUME PoolInv, NEW n \in Threads, attach_threadpool(n)
    PROVE  PoolInv'
<1>1. /\ Idle /\ ctx.mem = "live" /\ worker' = worker /\ inherited' = inherited /\ ~abandoned
      /\ owned' = owned /\ attached' = attached /\ backend' = backend
      /\ ctx' = ctx /\ abandoned' = abandoned
  BY DEF attach_threadpool, pointers
<1>2. /\ main.call = "none" /\ attached = owned
      /\ \A p \in {attached, backend} \ {None} : p \in Pools /\ Sound(p)
  BY <1>1, IdleMeans
<1>3. n \in Nat /\ n >= 1 /\ TypeOK /\ None \notin Pools
  BY ThreadsFit, ThreadpoolAssumption DEF PoolInv, None
<1>4. ctx.n_threads = CountFor(attached)
  BY <1>1, <1>2 DEF PoolInv, CountInv
<1>5. \A q \in Pools : ~Abandoned(q)
  BY <1>1 DEF Abandoned
<1>6. CASE n > 1
  <2>1. NewPool("attach", n)
    BY <1>6 DEF attach_threadpool
  <2>2. PICK p \in Pools :
            /\ Born(p, n)
            /\ main' = [AtHost EXCEPT !.call = "attach", !.pc = "spawn", !.pool = p, !.n = 1]
    BY <2>1, NewPoolIsBorn
  <2>4. /\ main' \in MainRec /\ main'.call = "attach" /\ main'.pc = "spawn" /\ main'.pool = p
        /\ main'.n = 1
    BY <2>2, MakingEnters DEF Entered
  <2>5. main'.pc \notin InGraph /\ main'.pc \in Making
    BY <2>4 DEF InGraph, Making
  <2>6. WorkerInv' /\ GraphInv'
    BY <1>1, <1>5, <1>6, <2>2, <2>5, BornIsQuiet
  <2>7. TypeOK'
    BY <1>1, <1>3, <2>2, <2>4 DEF TypeOK, Born
  <2>11. /\ p \notin {owned, attached, backend}
         /\ \A q \in {attached, backend} \ {None} : pool'[q] = pool[q]
    BY <1>2, <1>3, <2>2 DEF Born, Sound
  <2>8. CallInv'
    <3>1. main'.n \in 1 .. pool'[main'.pool].size - 1 /\ Sound(p)' /\ main'.pool # None
      BY <1>3, <1>6, <2>2, <2>4 DEF Born, Sound
    <3> QED
      BY <1>1, <2>4, <2>5, <2>11, <3>1 DEF CallInv
  <2>9. PointerInv'
    BY <1>1, <1>2, <2>4, <2>11 DEF PointerInv, Sound
  <2>10. CountInv'
    <3>1. CountFor(attached)' = CountFor(attached)
      BY <1>1, <2>11 DEF CountFor
    <3> QED
      BY <1>1, <1>4, <3>1 DEF CountInv
  <2> QED
    BY <2>6, <2>7, <2>8, <2>9, <2>10 DEF PoolInv
<1>7. CASE ~(n > 1)
  <2>1. Enter("attach", None, "made") /\ UNCHANGED pool
    BY <1>7 DEF attach_threadpool
  <2>2. "made" \in {"stop", "pool gone"} \cup InGraph \cup Making
    BY DEF Making
  <2>3. /\ main' \in MainRec /\ main'.call = "attach" /\ main'.pc = "made" /\ main'.pool = None
    <3>1. None \in Pools \cup {None}
      OBVIOUS
    <3> QED
      BY <2>1, <2>2, <3>1, EnterEnters DEF Entered
  <2>4. main'.pc \notin InGraph /\ main'.pc \in Making /\ main.pc \notin InGraph
    BY <1>1, <2>3 DEF InGraph, Making, Idle
  <2>5. PoolsKept /\ WorkersKept
    BY <1>1, <1>3, <2>1, NothingMoves
  <2>6. TypeOK'
    BY <1>1, <1>3, <2>1, <2>3 DEF TypeOK
  <2>7. CallInv'
    BY <1>1, <2>3, <2>4 DEF CallInv
  <2>8. PointerInv'
    BY <1>1, <1>2, <2>1, <2>3 DEF PointerInv, Sound
  <2>9. CountInv'
    BY <1>1, <1>4, <2>1 DEF CountInv, CountFor
  <2> QED
    BY <1>5, <2>1, <2>4, <2>5, <2>6, <2>7, <2>8, <2>9, QuietStep
<1> QED
  BY <1>6, <1>7

\* The main thread goes on in its call.
GoesTo(pc) == /\ main' \in MainRec /\ main'.pc = pc /\ main'.call = main.call
              /\ main'.pool = main.pool /\ pc \notin InGraph

LEMMA MainGoes ==
    ASSUME TypeOK, NEW pc \in {"stop", "join", "pool gone", "free ctx"} \cup Making,
           main' = [main EXCEPT !.pc = pc]
    PROVE  GoesTo(pc)
<1>1. /\ pc \in {"host", "stop", "join", "pool gone", "free ctx"} \cup InGraph \cup Making
      /\ main \in MainRec /\ pc \notin InGraph
  BY DEF TypeOK, Making, InGraph
<1>2. main' \in MainRec
  BY <1>1, Zenon DEF MainRec
<1> QED
  BY <1>1, <1>2 DEF MainRec, GoesTo

LEMMA Returns ==
    ASSUME main' = AtHost
    PROVE  /\ main' \in MainRec /\ main'.call = "none" /\ main'.pc = "host"
           /\ main'.pc \notin InGraph /\ CallInv'
<1>1. AtHost \in MainRec /\ AtHost.call = "none" /\ AtHost.pc = "host"
  BY DEF AtHost, MainRec
<1>2. "host" \notin InGraph /\ "host" \notin Making
  BY DEF InGraph, Making
<1>3. CallInv'
  BY <1>1, <1>2 DEF CallInv, Making
<1> QED
  BY <1>1, <1>2, <1>3

LEMMA SpawnInv ==
    ASSUME PoolInv, Spawn
    PROVE  PoolInv'
<1> DEFINE p == main.pool
           n == main.n
<1>1. /\ main.pc = "spawn" /\ ctx' = ctx /\ owned' = owned /\ attached' = attached
      /\ backend' = backend /\ abandoned' = abandoned /\ inherited' = inherited
  BY DEF Spawn, pointers
<1>2. /\ TypeOK /\ CallInv /\ PointerInv /\ CountInv /\ WorkerInv /\ GraphInv
      /\ main.pc \in Making /\ main.pc \notin InGraph
  BY <1>1 DEF PoolInv, Making, InGraph
<1>3. /\ p \in Pools /\ main \in MainRec /\ pool[p] \in PoolRec /\ None \notin Pools
      /\ Sound(p) /\ p \notin {owned, attached, backend} /\ ~abandoned
      /\ main.call \in {"ctx_new", "attach"} /\ n \in 1 .. pool[p].size - 1 /\ n \in Nat
  <2>1. p # None /\ p \in Pools \cup {None} /\ main \in MainRec
    BY <1>1, <1>2 DEF CallInv, TypeOK, MainRec
  <2>2. n \in 1 .. pool[p].size - 1 /\ n \in Nat
    BY <1>1, <1>2, <2>1 DEF CallInv, MainRec
  <2>3. None \notin Pools
    BY ThreadpoolAssumption DEF None
  <2> QED
    BY <1>1, <1>2, <2>1, <2>2, <2>3 DEF CallInv, TypeOK
<1>4. \A q \in Pools : ~Abandoned(q)
  BY <1>3 DEF Abandoned
<1>5. CASE /\ worker' = [worker EXCEPT ![p][n].pc = "top"]
           /\ main' = [main EXCEPT !.n = @ + 1,
                                   !.pc = IF main.n + 1 = pool[p].size THEN "made" ELSE @]
           /\ UNCHANGED pool
  <2>1. /\ worker' = [worker EXCEPT ![p][n].pc = "top"]
        /\ main' = [main EXCEPT !.n = @ + 1,
                                !.pc = IF main.n + 1 = pool[p].size THEN "made" ELSE @]
        /\ pool' = pool
    BY <1>5
  <2>2. /\ main' \in MainRec /\ main'.pc \in {"spawn", "made"} /\ main'.call = main.call
        /\ main'.pool = p /\ main'.n = n + 1
        /\ main'.pc = "spawn" => n + 1 # pool[p].size
    <3> DEFINE pc == IF n + 1 = pool[p].size THEN "made" ELSE main.pc
    <3>1. /\ pc \in {"host", "stop", "join", "pool gone", "free ctx"} \cup InGraph \cup Making
          /\ pc \in {"spawn", "made"} /\ n + 1 \in Nat
          /\ pc = "spawn" => n + 1 # pool[p].size
      BY <1>1, <1>3 DEF Making
    <3> HIDE DEF pc
    <3>2. main' = [main EXCEPT !.n = n + 1, !.pc = pc]
      BY <2>1 DEF pc
    <3>3. main' \in MainRec
      BY <1>3, <3>1, <3>2, Zenon DEF MainRec
    <3> QED
      BY <1>3, <3>1, <3>2, <3>3 DEF MainRec
  <2>3. n \in Workers /\ n < pool[p].size
    BY <1>2, <1>3, ThreadsFit DEF Workers, WorkerInv, PoolRec
  <2>4. worker[p][n] \in WorkerRec /\ ~worker[p][n].fresh
    BY <1>2, <1>3, <1>4, <2>3 DEF TypeOK, GraphInv, Rest, Resting, Computing, Sound
  <2> DEFINE new == [worker[p][n] EXCEPT !.pc = "top"]
  <2>5. new \in WorkerRec /\ new.pc = "top" /\ ~new.fresh
    <3>1. new \in WorkerRec
      BY <2>4, NewWorker
    <3> QED
      BY <2>4, <3>1 DEF WorkerRec
  <2>6. worker' = [worker EXCEPT ![p][n] = new]
    BY <2>1
  <2> HIDE DEF new
  <2>7. /\ worker' \in [Pools -> [Workers -> WorkerRec]] /\ worker'[p][n] = new
        /\ \A q \in Pools, w \in Workers : q # p \/ w # n => worker'[q][w] = worker[q][w]
    BY <1>2, <1>3, <2>3, <2>5, <2>6 DEF TypeOK
  <2>8. TypeOK'
    BY <1>1, <1>2, <2>1, <2>2, <2>7 DEF TypeOK
  <2>9. CallInv'
    <3>1. main'.pc = "spawn" => main'.n \in 1 .. pool'[main'.pool].size - 1
      BY <1>3, <2>1, <2>2 DEF PoolRec
    <3>2. /\ main'.pc \notin InGraph /\ main'.pc \in Making /\ main'.pool = main.pool
          /\ main'.call \in {"ctx_new", "attach"}
          /\ main'.pc \notin {"host", "join failed", "stop", "join", "free ctx", "not made"}
      BY <1>3, <2>2 DEF InGraph, Making
    <3>3. Sound(p)'
      BY <1>3, <2>1 DEF Sound
    <3> QED
      BY <1>1, <1>3, <3>1, <3>2, <3>3 DEF CallInv
  <2>10. PointerInv'
    <3>1. main'.pc \in Making /\ main'.pc # "pool gone"
      BY <2>2 DEF Making
    <3> QED
      BY <1>1, <1>2, <1>3, <2>1, <2>2, <3>1 DEF PointerInv, Sound
  <2>11. CountInv'
    BY <1>1, <1>2, <1>3, <2>1, <2>2 DEF CountInv, CountFor
  <2>12. WorkerInv'
    <3> SUFFICES ASSUME NEW q \in Pools
                 PROVE  /\ pool'[q].mem # "live" => Gone(q)'
                        /\ pool'[q].mem = "none" => \A w \in Workers : worker'[q][w] = NoWorker
                        /\ \A w \in Workers : w >= pool'[q].size =>
                               worker'[q][w].pc = "none" /\ ~worker'[q][w].fresh
                        /\ pool'[q].size <= MaxThreads
                        /\ pool'[q].mem = "live" => pool'[q].size > 0
      BY DEF WorkerInv
    <3>1. CASE q # p
      BY <1>2, <2>1, <2>7, <3>1 DEF WorkerInv, Gone
    <3>2. CASE q = p
      <4>1. pool[q].mem = "live"
        BY <1>3, <3>2 DEF Sound
      <4>2. \A w \in Workers : w >= pool[q].size => w # n
        <5>1. pool[p].size \in Nat /\ \A w \in Workers : w \in Nat
          BY <1>3, ThreadsFit DEF PoolRec
        <5> QED
          BY <2>3, <3>2, <5>1
      <4> QED
        BY <1>2, <2>1, <2>7, <3>2, <4>1, <4>2 DEF WorkerInv
    <3> QED
      BY <3>1, <3>2
  <2>13. GraphInv'
    <3> SUFFICES ASSUME NEW q \in Pools, pool'[q].mem # "freed" PROVE ~Computing(q)' /\ Rest(q)'
      BY DEF GraphInv
    <3>1. Rest(q)
      BY <1>2, <1>4, <2>1 DEF GraphInv, Computing
    <3>2. ASSUME NEW w \in Workers PROVE Resting(q, w)'
      BY <2>1, <2>5, <2>7, <3>1 DEF Rest, Resting
    <3>3. ~Computing(q)'
      BY <2>2 DEF Computing, InGraph
    <3> QED
      BY <2>1, <3>1, <3>2, <3>3 DEF Rest
  <2> QED
    BY <2>8, <2>9, <2>10, <2>11, <2>12, <2>13 DEF PoolInv
<1>6. CASE Stopped(p) /\ main' = [main EXCEPT !.pc = "join failed"]
  <2>1. /\ PoolsKept /\ WorkersKept
        /\ \A q \in Pools : /\ pool'[q].mem = pool[q].mem
                            /\ q # p => pool'[q].stop = pool[q].stop
    BY <1>2, <1>3, <1>6, StoppedKeeps
  <2>2. GoesTo("join failed")
    <3>1. "join failed" \in {"stop", "join", "pool gone", "free ctx"} \cup Making
      BY DEF Making
    <3> QED
      BY <1>2, <1>6, <3>1, MainGoes
  <2>3. main'.pc \in Making /\ main'.pc \notin InGraph
    BY <2>2 DEF Making, GoesTo
  <2>4. TypeOK'
    BY <1>1, <1>2, <2>1, <2>2 DEF TypeOK, GoesTo, PoolsKept, WorkersKept
  <2>5. CallInv'
    BY <1>1, <1>3, <2>2, <2>3 DEF CallInv, GoesTo
  <2>6. \A q \in {attached, backend} \ {None} : q \in Pools /\ q # p
    BY <1>2, <1>3 DEF TypeOK
  <2>7. PointerInv'
    BY <1>1, <1>2, <1>3, <2>1, <2>2, <2>3, <2>6 DEF PointerInv, GoesTo, Sound
  <2>8. CountInv'
    BY <1>1, <1>2, <2>1, <2>2, <2>6 DEF CountInv, CountFor, GoesTo, PoolsKept
  <2> QED
    BY <1>2, <1>4, <2>1, <2>3, <2>4, <2>5, <2>7, <2>8, QuietStep
<1> QED
  BY <1>5, <1>6 DEF Spawn

LEMMA JoinFailedInv ==
    ASSUME PoolInv, JoinFailed
    PROVE  PoolInv'
<1> DEFINE p == main.pool
<1>1. /\ main.pc = "join failed" /\ Gone(p) /\ pool' = [pool EXCEPT ![p].mem = "freed"]
      /\ main' = [main EXCEPT !.pool = None, !.pc = "not made"] /\ worker' = worker
      /\ ctx' = ctx /\ owned' = owned /\ attached' = attached
      /\ backend' = backend /\ abandoned' = abandoned /\ inherited' = inherited
  BY DEF JoinFailed, pointers
<1>2. /\ TypeOK /\ CallInv /\ PointerInv /\ CountInv /\ WorkerInv /\ GraphInv
      /\ main.pc \in Making /\ main.pc \notin InGraph
  BY <1>1 DEF PoolInv, Making, InGraph
<1>3. /\ p \in Pools /\ p \notin {owned, attached, backend} /\ ~abandoned
      /\ main.call \in {"ctx_new", "attach"}
  <2>1. p # None /\ p \in Pools \cup {None}
    BY <1>1, <1>2 DEF CallInv, TypeOK, MainRec
  <2> QED
    BY <1>1, <1>2, <2>1 DEF CallInv
<1>4. /\ PoolsKept /\ pool'[p].mem = "freed"
      /\ \A q \in Pools : /\ pool'[q].stop = pool[q].stop
                          /\ q # p => pool'[q].mem = pool[q].mem
  BY <1>1, <1>2, <1>3, FreedKeeps
<1>5. WorkersKept
  BY <1>1, <1>2 DEF WorkersKept, TypeOK
<1>6. /\ main' \in MainRec /\ main'.pc = "not made" /\ main'.pool = None
      /\ main'.call = main.call
  <2>1. /\ main \in MainRec /\ None \in Pools \cup {None}
        /\ "not made" \in {"host", "stop", "join", "pool gone", "free ctx"} \cup InGraph \cup Making
    BY <1>2 DEF TypeOK, Making
  <2>2. main' \in MainRec
    BY <1>1, <2>1, Zenon DEF MainRec
  <2> QED
    BY <1>1, <2>1, <2>2 DEF MainRec
<1>7. main'.pc \in Making /\ main'.pc \notin InGraph
  BY <1>6 DEF Making, InGraph
<1>8. TypeOK'
  BY <1>1, <1>2, <1>4, <1>5, <1>6 DEF TypeOK, PoolsKept, WorkersKept
<1>9. CallInv'
  BY <1>1, <1>3, <1>6, <1>7 DEF CallInv
<1>10. \A q \in {attached, backend} \ {None} : q \in Pools /\ q # p
  BY <1>2, <1>3 DEF TypeOK
<1>11. PointerInv'
  <2>1. \A q \in {attached, backend} \ {None} : Sound(q) => Sound(q)'
    BY <1>4, <1>10 DEF Sound
  <2>2. main'.pc \in Making /\ main'.pc # "pool gone" /\ main'.call = main.call
    BY <1>6, <1>7
  <2> QED
    BY <1>1, <1>2, <1>3, <2>1, <2>2 DEF PointerInv
<1>12. CountInv'
  BY <1>1, <1>2, <1>4, <1>6, <1>10 DEF CountInv, CountFor, PoolsKept
<1>13. \A q \in Pools : /\ pool'[q].mem = pool[q].mem \/ (Gone(q) /\ pool'[q].mem = "freed")
                        /\ ~Abandoned(q)
  BY <1>1, <1>3, <1>4 DEF Abandoned
<1> QED
  BY <1>2, <1>4, <1>5, <1>7, <1>8, <1>9, <1>11, <1>12, <1>13, QuietStep

LEMMA NewDoneInv ==
    ASSUME PoolInv, NewDone
    PROVE  PoolInv'
<1> DEFINE p == main.pool
<1>1. /\ main.call = "ctx_new" /\ main.pc \in {"made", "not made"} /\ attached' = p
      /\ backend' = backend /\ abandoned' = abandoned /\ inherited' = inherited
  BY DEF NewDone
<1>2. /\ TypeOK /\ CallInv /\ PointerInv /\ CountInv /\ WorkerInv /\ GraphInv
      /\ main.pc \in Making /\ main.pc \notin InGraph
  BY <1>1 DEF PoolInv, Making, InGraph
<1>3. /\ p \in Pools \cup {None} /\ (p # None => p \in Pools /\ Sound(p))
      /\ owned = None /\ backend = None /\ ~abandoned /\ ctx.mem = "live"
  <2>1. p \in Pools \cup {None}
    BY <1>2 DEF TypeOK, MainRec
  <2> QED
    BY <1>1, <1>2, <2>1 DEF CallInv, PointerInv
<1>4. \A q \in Pools : ~Abandoned(q)
  BY <1>3 DEF Abandoned
<1>5. CASE /\ owned' = p /\ ctx' = [ctx EXCEPT !.n_threads = CountFor(p)]
           /\ main' = AtHost /\ UNCHANGED <<pool, worker>>
  <2>1. PoolsKept /\ WorkersKept
    BY <1>2, <1>5, NothingMoves
  <2>2. /\ main' \in MainRec /\ main'.call = "none" /\ main'.pc = "host"
        /\ main'.pc \notin InGraph /\ CallInv'
    BY <1>5, Returns
  <2>3. CountFor(p) \in Nat
    BY <1>2, <1>3 DEF CountFor, TypeOK, PoolRec
  <2>4. /\ ctx' \in [mem : Mem, n_threads : Nat] /\ ctx'.mem = "live"
        /\ ctx'.n_threads = CountFor(p)
    BY <1>2, <1>3, <1>5, <2>3 DEF TypeOK
  <2>5. TypeOK'
    BY <1>1, <1>2, <1>3, <1>5, <2>2, <2>4 DEF TypeOK
  <2>6. PointerInv'
    BY <1>1, <1>3, <1>5, <2>2, <2>4 DEF PointerInv, Sound
  <2>7. CountInv'
    BY <1>1, <1>5, <2>4 DEF CountInv, CountFor
  <2> QED
    BY <1>2, <1>4, <1>5, <2>1, <2>2, <2>5, <2>6, <2>7, QuietStep
<1>6. CASE /\ owned' = None /\ p = None /\ main' = [main EXCEPT !.pc = "free ctx"]
           /\ UNCHANGED <<pool, worker>> /\ UNCHANGED ctx
  <2>1. PoolsKept /\ WorkersKept
    BY <1>2, <1>6, NothingMoves
  <2>2. GoesTo("free ctx")
    BY <1>2, <1>6, MainGoes
  <2>3. main'.pc \notin InGraph /\ main'.pc \notin Making /\ main'.call = "ctx_new"
    BY <1>1, <2>2 DEF Making, GoesTo
  <2>4. TypeOK'
    BY <1>1, <1>2, <1>3, <1>6, <2>2 DEF TypeOK, GoesTo
  <2>5. CallInv'
    BY <1>1, <1>3, <2>2, <2>3 DEF CallInv, GoesTo
  <2>6. PointerInv'
    BY <1>1, <1>3, <1>6, <2>2, <2>3 DEF PointerInv, GoesTo
  <2>7. CountInv'
    BY <2>3 DEF CountInv
  <2> QED
    BY <1>2, <1>4, <1>6, <2>1, <2>3, <2>4, <2>5, <2>6, <2>7, QuietStep
<1>7. CASE /\ owned' = None /\ p # None /\ main' = [main EXCEPT !.pc = "join"]
           /\ Stopped(p) /\ UNCHANGED ctx
  <2>1. /\ PoolsKept /\ WorkersKept /\ \A q \in Pools : pool'[q].mem = pool[q].mem
    BY <1>2, <1>3, <1>7, StoppedKeeps
  <2>2. GoesTo("join")
    BY <1>2, <1>7, MainGoes
  <2>3. main'.pc \notin InGraph /\ main'.pc \notin Making /\ main'.call = "ctx_new"
    BY <1>1, <2>2 DEF Making, GoesTo
  <2>4. TypeOK'
    BY <1>1, <1>2, <1>3, <1>7, <2>1, <2>2 DEF TypeOK, GoesTo, PoolsKept, WorkersKept
  <2>5. CallInv'
    BY <1>1, <1>3, <1>7, <2>2, <2>3 DEF CallInv, GoesTo
  <2>6. PointerInv'
    BY <1>1, <1>3, <1>7, <2>2, <2>3 DEF PointerInv, GoesTo
  <2>7. CountInv'
    BY <2>3 DEF CountInv
  <2> QED
    BY <1>2, <1>4, <2>1, <2>3, <2>4, <2>5, <2>6, <2>7, QuietStep
<1> QED
  BY <1>5, <1>6, <1>7 DEF NewDone

LEMMA AttachDoneInv ==
    ASSUME PoolInv, AttachDone
    PROVE  PoolInv'
<1> DEFINE p == main.pool
<1>1. /\ main.call = "attach" /\ main.pc \in {"made", "not made"} /\ main' = AtHost
      /\ abandoned' = abandoned
  BY DEF AttachDone
<1>2. /\ TypeOK /\ CallInv /\ PointerInv /\ CountInv /\ WorkerInv /\ GraphInv
      /\ main.pc \in Making /\ main.pc \notin InGraph
  BY <1>1 DEF PoolInv, Making, InGraph
<1>3. /\ p \in Pools \cup {None} /\ (p # None => p \in Pools /\ Sound(p))
      /\ attached = owned /\ ~abandoned /\ ctx.mem = "live" /\ None \notin Pools
      /\ \A q \in {attached, backend} \ {None} : q \in Pools /\ Sound(q)
  <2>1. p \in Pools \cup {None} /\ {attached, backend} \subseteq Pools \cup {None}
    BY <1>2 DEF TypeOK, MainRec
  <2>2. None \notin Pools
    BY ThreadpoolAssumption DEF None
  <2> QED
    BY <1>1, <1>2, <2>1, <2>2 DEF CallInv, PointerInv
<1>4. \A q \in Pools : ~Abandoned(q)
  BY <1>3 DEF Abandoned
<1>5. /\ main' \in MainRec /\ main'.call = "none" /\ main'.pc = "host"
      /\ main'.pc \notin InGraph /\ CallInv'
  BY <1>1, Returns
<1>6. CASE UNCHANGED <<pool, worker, ctx, pointers, inherited>>
  <2>1. /\ PoolsKept /\ WorkersKept /\ ctx' = ctx /\ owned' = owned /\ attached' = attached
        /\ backend' = backend /\ pool' = pool /\ worker' = worker /\ inherited' = inherited
    BY <1>2, <1>6, NothingMoves DEF pointers
  <2>2. TypeOK'
    BY <1>1, <1>2, <1>5, <2>1 DEF TypeOK
  <2>3. PointerInv'
    BY <1>3, <1>5, <2>1 DEF PointerInv, Sound
  <2>4. CountInv'
    BY <1>1, <1>2, <2>1 DEF CountInv, CountFor
  <2> QED
    BY <1>2, <1>4, <1>5, <2>1, <2>2, <2>3, <2>4, QuietStep
<1>7. CASE /\ IF p # None
              THEN attached' = p /\ UNCHANGED <<backend, pool, worker>>
              ELSE Detach
           /\ owned' = p /\ ctx' = [ctx EXCEPT !.n_threads = CountFor(p)] /\ inherited' = FALSE
  <2>1. /\ PoolsKept /\ WorkersKept /\ attached' = p /\ backend' \in {backend, None}
        /\ \A q \in Pools : pool'[q].mem = pool[q].mem /\ pool'[q].stop = pool[q].stop
    <3>1. CASE p # None
      BY <1>2, <1>7, <3>1, NothingMoves
    <3>2. CASE p = None
      <4>1. Detach
        BY <1>7, <3>2
      <4>2. attached' = None /\ backend' = None
        BY <4>1 DEF Detach
      <4> QED
        BY <1>2, <3>2, <4>1, <4>2, DetachKeeps
    <3> QED
      BY <3>1, <3>2
  <2>2. CountFor(p) \in Nat
    BY <1>2, <1>3 DEF CountFor, TypeOK, PoolRec
  <2>3. /\ ctx' \in [mem : Mem, n_threads : Nat] /\ ctx'.mem = "live"
        /\ ctx'.n_threads = CountFor(p)
    BY <1>2, <1>3, <1>7, <2>2 DEF TypeOK
  <2>4. TypeOK'
    BY <1>1, <1>2, <1>3, <1>5, <1>7, <2>1, <2>3 DEF TypeOK, PoolsKept, WorkersKept
  <2>5. \A q \in {p, backend} \ {None} : Sound(q)'
    BY <1>3, <2>1 DEF Sound
  <2>6. PointerInv'
    <3>1. {attached', backend'} \subseteq {p, backend, None} /\ attached' = owned'
      BY <1>7, <2>1
    <3>2. \A q \in {attached', backend'} \ {None} : Sound(q)'
      BY <2>5, <3>1
    <3> QED
      BY <1>5, <2>3, <3>1, <3>2 DEF PointerInv
  <2>7. CountInv'
    BY <1>3, <2>1, <2>3 DEF CountInv, CountFor, PoolsKept
  <2> QED
    BY <1>2, <1>4, <1>5, <2>1, <2>4, <2>6, <2>7, QuietStep
<1> QED
  BY <1>6, <1>7 DEF AttachDone

LEMMA FreeInv ==
    ASSUME PoolInv, NEW call, free(call)
    PROVE  PoolInv'
<1> DEFINE where == IF owned = None THEN "pool gone" ELSE "stop"
<1>1. /\ Idle /\ ctx.mem = "live" /\ call \in {"ctx_free", "free_threadpool"} /\ Detach
      /\ Enter(call, owned, where) /\ ctx' = ctx /\ owned' = owned
      /\ abandoned' = abandoned /\ inherited' = inherited
  BY DEF free
<1>2. /\ TypeOK /\ WorkerInv /\ GraphInv
      /\ main.call = "none" /\ main.pc \notin InGraph
  BY <1>1, IdleMeans DEF PoolInv
<1>3. where \in {"stop", "pool gone"} \cup InGraph \cup Making /\ where \in {"stop", "pool gone"}
      /\ (where = "stop" => owned # None) /\ (where = "pool gone" => owned = None)
  OBVIOUS
<1> HIDE DEF where
<1>4. Entered(call, where, owned)
  <2>1. /\ call \in {"ctx_new", "attach", "compute", "ctx_free", "free_threadpool"}
        /\ owned \in Pools \cup {None}
    BY <1>1, <1>2 DEF TypeOK
  <2> QED
    BY <1>1, <1>3, <2>1, EnterEnters
<1>5. /\ PoolsKept /\ WorkersKept /\ attached' = None /\ backend' = None
      /\ \A q \in Pools : pool'[q].mem = pool[q].mem /\ pool'[q].stop = pool[q].stop
  BY <1>1, <1>2, DetachKeeps DEF Detach
<1>6. main'.pc \notin InGraph /\ main'.pc \notin Making
  BY <1>3, <1>4 DEF InGraph, Making, Entered
<1>7. TypeOK'
  BY <1>1, <1>2, <1>4, <1>5 DEF TypeOK, Entered, PoolsKept, WorkersKept
<1>8. CallInv'
  BY <1>1, <1>3, <1>4, <1>6 DEF CallInv, Entered
<1>9. PointerInv'
  BY <1>1, <1>3, <1>4, <1>5, <1>6 DEF PointerInv, Entered
<1>10. CountInv'
  BY <1>1, <1>4 DEF CountInv, Entered
<1>11. \A q \in Pools : Abandoned(q) => Abandoned(q)'
  BY <1>1 DEF Abandoned
<1> QED
  BY <1>2, <1>5, <1>6, <1>7, <1>8, <1>9, <1>10, <1>11, QuietStep

LEMMA StopInv ==
    ASSUME PoolInv, Stop
    PROVE  PoolInv'
<1> DEFINE p == main.pool
<1>1. /\ main.pc = "stop" /\ Stopped(p) /\ main' = [main EXCEPT !.pc = "join"]
      /\ ctx' = ctx /\ owned' = owned /\ attached' = attached
      /\ backend' = backend /\ abandoned' = abandoned /\ inherited' = inherited
  BY DEF Stop, pointers
<1>2. /\ TypeOK /\ CallInv /\ PointerInv /\ WorkerInv /\ GraphInv
      /\ main.pc \notin InGraph /\ main.pc \notin Making
  BY <1>1 DEF PoolInv, InGraph, Making
<1>3. /\ p \in Pools /\ p # None /\ main.call \in {"ctx_free", "free_threadpool"}
      /\ p = owned /\ attached = None /\ backend = None /\ ctx.mem = "live"
  <2>1. p # None /\ p \in Pools \cup {None}
    BY <1>1, <1>2 DEF CallInv, TypeOK, MainRec
  <2>2. main.call \in {"ctx_free", "free_threadpool"}
    BY <1>1, <1>2 DEF CallInv, TypeOK, MainRec
  <2> QED
    BY <1>1, <1>2, <2>1, <2>2 DEF PointerInv
<1>4. /\ PoolsKept /\ WorkersKept /\ \A q \in Pools : pool'[q].mem = pool[q].mem
  BY <1>1, <1>2, <1>3, StoppedKeeps
<1>5. GoesTo("join")
  BY <1>1, <1>2, MainGoes
<1>6. main'.pc \notin InGraph /\ main'.pc \notin Making
  BY <1>5 DEF Making, GoesTo
<1>7. TypeOK'
  BY <1>1, <1>2, <1>4, <1>5 DEF TypeOK, GoesTo, PoolsKept, WorkersKept
<1>8. CallInv'
  BY <1>3, <1>5, <1>6 DEF CallInv, GoesTo
<1>9. PointerInv'
  BY <1>1, <1>3, <1>5, <1>6 DEF PointerInv, GoesTo
<1>10. CountInv'
  BY <1>3, <1>5 DEF CountInv, GoesTo
<1>11. \A q \in Pools : Abandoned(q) => Abandoned(q)'
  BY <1>1 DEF Abandoned
<1> QED
  BY <1>2, <1>4, <1>6, <1>7, <1>8, <1>9, <1>10, <1>11, QuietStep

LEMMA JoinInv ==
    ASSUME PoolInv, Join
    PROVE  PoolInv'
<1> DEFINE p == main.pool
           where == IF main.call = "ctx_new" THEN "free ctx" ELSE "pool gone"
<1>1. /\ main.pc = "join" /\ Gone(p) /\ pool' = [pool EXCEPT ![p].mem = "freed"]
      /\ main' = [main EXCEPT !.pc = where] /\ worker' = worker
      /\ ctx' = ctx /\ owned' = None /\ attached' = attached
      /\ backend' = backend /\ abandoned' = abandoned /\ inherited' = inherited
  BY DEF Join, pointers
<1>2. /\ TypeOK /\ CallInv /\ PointerInv /\ WorkerInv /\ GraphInv
      /\ main.pc \notin InGraph /\ main.pc \notin Making
  BY <1>1 DEF PoolInv, InGraph, Making
<1>3. /\ p \in Pools /\ main.call \in {"ctx_new", "ctx_free", "free_threadpool"}
      /\ backend = None /\ ctx.mem = "live" /\ (main.call = "ctx_new" => ~abandoned)
      /\ (main.call # "ctx_new" => p = owned /\ attached = None)
  <2>1. p # None /\ p \in Pools \cup {None}
    BY <1>1, <1>2 DEF CallInv, TypeOK, MainRec
  <2>2. main.call \in {"ctx_new", "ctx_free", "free_threadpool"}
    BY <1>1, <1>2 DEF CallInv, TypeOK, MainRec
  <2> QED
    BY <1>1, <1>2, <2>1, <2>2 DEF PointerInv
<1>4. /\ PoolsKept /\ pool'[p].mem = "freed"
      /\ \A q \in Pools : q # p => pool'[q].mem = pool[q].mem
  BY <1>1, <1>2, <1>3, FreedKeeps
<1>5. WorkersKept
  BY <1>1, <1>2 DEF WorkersKept, TypeOK
<1>6. /\ where \in {"stop", "join", "pool gone", "free ctx"} \cup Making
      /\ where = "free ctx" <=> main.call = "ctx_new"
      /\ where = "pool gone" <=> main.call # "ctx_new"
  OBVIOUS
<1> HIDE DEF where
<1>7. GoesTo(where)
  BY <1>1, <1>2, <1>6, MainGoes
<1>8. main'.pc \notin InGraph /\ main'.pc \notin Making
  BY <1>6, <1>7 DEF Making, GoesTo
<1>9. TypeOK'
  BY <1>1, <1>2, <1>4, <1>5, <1>7 DEF TypeOK, GoesTo, PoolsKept, WorkersKept
<1>10. CallInv'
  BY <1>3, <1>6, <1>7, <1>8 DEF CallInv, GoesTo
<1>11. PointerInv'
  BY <1>1, <1>3, <1>6, <1>7, <1>8 DEF PointerInv, GoesTo
<1>12. CountInv'
  BY <1>3, <1>7 DEF CountInv, GoesTo
<1>13. \A q \in Pools : /\ pool'[q].mem = pool[q].mem \/ (Gone(q) /\ pool'[q].mem = "freed")
                        /\ Abandoned(q) => pool'[q].mem = "freed"
  BY <1>1, <1>3, <1>4 DEF Abandoned
<1> QED
  BY <1>2, <1>4, <1>5, <1>8, <1>9, <1>10, <1>11, <1>12, <1>13, QuietStep

LEMMA FreeDoneInv ==
    ASSUME PoolInv, FreeThreadpoolDone \/ FreeContext
    PROVE  PoolInv'
<1>1. /\ pool' = pool /\ worker' = worker /\ owned' = owned /\ backend' = backend
      /\ abandoned' = abandoned /\ inherited' = inherited /\ main' = AtHost
      /\ attached' \in {attached, None}
  BY DEF FreeThreadpoolDone, FreeContext, pointers
<1>2. TypeOK /\ CallInv /\ PointerInv /\ main.pc \in {"pool gone", "free ctx"}
  BY DEF PoolInv, FreeThreadpoolDone, FreeContext
<1>3. main.pc \notin InGraph
  BY <1>2 DEF InGraph
<1>4. owned = None /\ backend = None /\ attached' = None /\ ctx.mem = "live"
  <2>1. CASE main.pc = "pool gone"
    BY <1>1, <1>2, <2>1 DEF PointerInv, CallInv
  <2>2. CASE main.pc = "free ctx"
    <3>1. FreeContext
      BY <2>2 DEF FreeThreadpoolDone
    <3> QED
      BY <1>2, <2>2, <3>1 DEF PointerInv, CallInv, FreeContext
  <2> QED
    BY <1>2, <2>1, <2>2
<1>5. PoolsKept /\ WorkersKept
  BY <1>1, <1>2, NothingMoves
<1>6. /\ main' \in MainRec /\ main'.call = "none" /\ main'.pc = "host"
      /\ main'.pc \notin InGraph /\ CallInv'
  BY <1>1, Returns
<1>7. /\ ctx' \in [mem : Mem, n_threads : Nat]
      /\ ctx'.mem = "live" => ctx'.n_threads = 1
  <2>1. CASE FreeThreadpoolDone
    BY <1>2, <2>1 DEF FreeThreadpoolDone, TypeOK
  <2>2. CASE FreeContext
    <3>1. ctx' = [mem |-> "freed", n_threads |-> 0]
      BY <2>2 DEF FreeContext
    <3> QED
      BY <3>1 DEF Mem
  <2> QED
    BY <2>1, <2>2
<1>8. TypeOK'
  BY <1>1, <1>2, <1>4, <1>6, <1>7 DEF TypeOK
<1>9. PointerInv'
  BY <1>1, <1>4, <1>6 DEF PointerInv
<1>10. CountInv'
  BY <1>4, <1>7 DEF CountInv, CountFor
<1>11. \A q \in Pools : Abandoned(q) => Abandoned(q)'
  BY <1>1 DEF Abandoned
<1> QED
  BY <1>1, <1>3, <1>5, <1>6, <1>8, <1>9, <1>10, <1>11, QuietStep

LEMMA ForkInv ==
    ASSUME PoolInv, Fork
    PROVE  PoolInv'
<1>1. /\ Idle /\ pool' = pool /\ main' = main /\ ctx' = ctx /\ owned' = owned
      /\ attached' = attached /\ backend' = backend /\ abandoned' = abandoned
      /\ inherited' = (owned # None)
      /\ worker' = [p \in Pools |-> [w \in Workers |->
                         IF worker[p][w].pc \in {"none", "exited"} THEN worker[p][w]
                         ELSE [worker[p][w] EXCEPT !.pc = "absent"]]]
  BY DEF Fork, Usable, pointers
<1>2. TypeOK /\ CallInv /\ PointerInv /\ CountInv /\ main.pc \notin InGraph
  BY <1>1, IdleMeans DEF PoolInv
<1>3. ASSUME NEW q \in Pools, NEW w \in Workers
      PROVE  /\ worker'[q][w] \in WorkerRec
             /\ \/ worker'[q][w] = worker[q][w]
                \/ /\ worker[q][w].pc \notin {"none", "exited"}
                   /\ worker'[q][w].fresh = worker[q][w].fresh
                   /\ worker'[q][w].pc \in {"top", "absent"}
  <2>1. worker[q][w] \in WorkerRec
    BY <1>2 DEF TypeOK
  <2>2. CASE worker[q][w].pc \in {"none", "exited"}
    <3>1. worker'[q][w] = worker[q][w]
      BY <1>1, <2>2
    <3> QED
      BY <2>1, <3>1
  <2>3. CASE worker[q][w].pc \notin {"none", "exited"}
    <3> DEFINE new == [worker[q][w] EXCEPT !.pc = "absent"]
    <3>1. worker'[q][w] = new
      BY <1>1, <2>3
    <3>2. new \in WorkerRec
      BY <2>1, Zenon DEF WorkerRec
    <3>3. new.pc = "absent" /\ new.fresh = worker[q][w].fresh
      BY <2>1, <3>2 DEF WorkerRec
    <3> QED
      BY <2>3, <3>1, <3>2, <3>3
  <2> QED
    BY <2>2, <2>3
<1>4. WorkersKept
  <2>1. worker' = [p \in Pools |-> [w \in Workers |-> worker'[p][w]]]
    BY <1>1
  <2>2. worker' \in [Pools -> [Workers -> WorkerRec]]
    BY <1>3, <2>1
  <2> QED
    BY <1>3, <2>2 DEF WorkersKept
<1>5. PoolsKept
  BY <1>1, <1>2 DEF PoolsKept, TypeOK
<1>6. TypeOK'
  BY <1>1, <1>2, <1>4 DEF TypeOK, WorkersKept
<1>7. CallInv' /\ PointerInv' /\ CountInv'
  BY <1>1, <1>2, CallKept
<1>8. \A q \in Pools : Abandoned(q) => Abandoned(q)'
  BY <1>1 DEF Abandoned
<1> QED
  BY <1>1, <1>2, <1>4, <1>5, <1>6, <1>7, <1>8, QuietStep

\* The pool of a graph that starts: all its threads are before the first node.
LEMMA GraphStarts ==
    ASSUME TypeOK, NEW p \in Pools, pool[p].size <= MaxThreads, Rest(p),
           pool'[p].size = pool[p].size, pool'[p].arrived = pool[p].arrived,
           pool'[p].passed = pool[p].passed,
           main'.pc = "head", main'.pos = 0,
           \A w \in Workers : w < pool[p].size =>
               /\ worker'[p][w].fresh /\ worker'[p][w].pos = worker[p][w].pos
               /\ worker'[p][w].saw = worker[p][w].saw
               /\ worker'[p][w].pc \in {worker[p][w].pc, "top"}
    PROVE  Together(p)'
<1>1. Crew(p)' = Crew(p) /\ pool[p].size \in Nat
  BY DEF Crew, TypeOK, PoolRec
<1>2. ASSUME NEW t \in Crew(p)
      PROVE  ~Waits(p, t)' /\ InPlace(p, t)' /\ Passed(p, t)' = 0
  <2>1. CASE t = 0
    <3>1. Pc(p, t)' = "head" /\ Pos(p, t)' = 0 /\ ~Fresh(p, t)'
      BY <2>1 DEF Pc, Pos, Fresh
    <3>2. ~Waits(p, t)'
      BY <3>1 DEF Waits
    <3>3. Barriers(0) = 0 /\ 0 <= 2 * Nodes
      BY ThreadpoolAssumption DEF Barriers
    <3> QED
      BY <3>1, <3>2, <3>3 DEF InPlace, Passed, Barriers
  <2>2. CASE t # 0
    <3>1. t \in Workers /\ t < pool[p].size
      BY <1>1, <2>2, ThreadType DEF Crew
    <3>2. Resting(p, t)
      BY <3>1 DEF Rest
    <3>3. /\ Fresh(p, t)' /\ Pc(p, t)' = worker'[p][t].pc /\ Pos(p, t)' = worker[p][t].pos
          /\ Saw(p, t)' = worker[p][t].saw
      BY <2>2, <3>1 DEF Fresh, Pc, Pos, Saw
    <3>4. \/ Pc(p, t)' \in {"none", "top", "asleep", "exited", "absent"}
          \/ /\ Pc(p, t)' = "barrier" /\ Pos(p, t)' = Last /\ Saw(p, t)' # pool'[p].passed
      BY <3>1, <3>2, <3>3 DEF Resting
    <3>5. ~Waits(p, t)'
      BY <3>4 DEF Waits
    <3> QED
      BY <3>3, <3>4, <3>5 DEF InPlace, Passed
  <2> QED
    BY <2>1, <2>2
<1>3. Waiting(p)' = {}
  BY <1>1, <1>2 DEF Waiting
<1>4. pool'[p].arrived = Cardinality(Waiting(p)')
  BY <1>3, FS_EmptySet DEF Rest
<1>5. \A t \in Crew(p) : InPlace(p, t)' /\ Passed(p, t)' = Passed(p, 0)'
  <2>1. ASSUME NEW t \in Crew(p) PROVE 0 \in Crew(p)
    BY <1>1 DEF Crew
  <2> QED
    BY <1>2, <2>1
<1> QED
  BY <1>1, <1>4, <1>5 DEF Together

LEMMA ComputeInv ==
    ASSUME PoolInv, Compute
    PROVE  PoolInv'
<1> DEFINE a == attached
           old == IF backend = attached THEN None ELSE backend
<1>1. /\ Idle /\ ~abandoned /\ ctx.mem = "live" /\ backend' = a
      /\ pool' = [p \in Pools |->
              CASE p = old -> [pool[p] EXCEPT !.pause = TRUE]
                [] p = a -> [pool[p] EXCEPT !.pause = FALSE]
                [] OTHER -> pool[p]]
      /\ worker' = [p \in Pools |->
              CASE p = a -> [w \in Workers |-> IF w < pool[p].size
                                               THEN [Woken(p)[w] EXCEPT !.fresh = TRUE]
                                               ELSE worker[p][w]]
                [] p = backend /\ p # a -> Woken(p)
                [] OTHER -> worker[p]]
      /\ main' = IF a = None THEN AtHost
                 ELSE [AtHost EXCEPT !.call = "compute", !.pc = "head", !.pool = a]
      /\ ctx' = ctx /\ owned' = owned /\ attached' = a /\ abandoned' = abandoned
      /\ inherited' = inherited
  BY DEF Compute, Usable
<1>2. /\ TypeOK /\ WorkerInv /\ GraphInv /\ CountInv /\ main.call = "none"
      /\ main.pc \notin InGraph /\ attached = owned
      /\ \A p \in {attached, backend} \ {None} : p \in Pools /\ Sound(p)
  BY <1>1, IdleMeans DEF PoolInv
<1>3. None \notin Pools /\ a \in Pools \cup {None}
  BY <1>2, ThreadpoolAssumption DEF None, TypeOK
<1>4. \A q \in Pools : ~Abandoned(q)
  BY <1>1 DEF Abandoned
<1>5. ASSUME NEW q \in Pools
      PROVE  /\ pool'[q] \in PoolRec /\ pool'[q].mem = pool[q].mem
             /\ pool'[q].stop = pool[q].stop /\ pool'[q].size = pool[q].size
             /\ pool'[q].arrived = pool[q].arrived /\ pool'[q].passed = pool[q].passed
  <2>1. pool[q] \in PoolRec
    BY <1>2 DEF TypeOK
  <2>2. \/ pool'[q] = [pool[q] EXCEPT !.pause = TRUE]
        \/ pool'[q] = [pool[q] EXCEPT !.pause = FALSE]
        \/ pool'[q] = pool[q]
    BY <1>1
  <2>3. TRUE \in BOOLEAN /\ FALSE \in BOOLEAN
    OBVIOUS
  <2>4. pool'[q] \in PoolRec
    BY <2>1, <2>2, <2>3, Zenon DEF PoolRec
  <2> QED
    BY <2>1, <2>2, <2>4 DEF PoolRec
<1>6. PoolsKept
  <2>1. pool' = [q \in Pools |-> pool'[q]]
    BY <1>1
  <2>2. pool' \in [Pools -> PoolRec]
    BY <1>5, <2>1
  <2> QED
    BY <1>5, <2>2 DEF PoolsKept
<1>7. ASSUME NEW q \in Pools, NEW w \in Workers
      PROVE  /\ worker[q][w] \in WorkerRec /\ Woken(q)[w] \in WorkerRec
             /\ \/ Woken(q)[w] = worker[q][w]
                \/ worker[q][w].pc = "asleep" /\ Woken(q)[w] = [worker[q][w] EXCEPT !.pc = "top"]
  <2>1. worker[q][w] \in WorkerRec
    BY <1>2 DEF TypeOK
  <2>2. \/ Woken(q)[w] = worker[q][w]
        \/ worker[q][w].pc = "asleep" /\ Woken(q)[w] = [worker[q][w] EXCEPT !.pc = "top"]
    BY DEF Woken
  <2>3. [worker[q][w] EXCEPT !.pc = "top"] \in WorkerRec
    BY <2>1, NewWorker
  <2> QED
    BY <2>1, <2>2, <2>3
<1>8. ASSUME NEW q \in Pools, NEW w \in Workers, q # a
      PROVE  worker'[q][w] \in {worker[q][w], Woken(q)[w]}
  BY <1>1, <1>8
<1>9. ASSUME NEW w \in Workers, a # None
      PROVE  worker'[a][w] = IF w < pool[a].size THEN [Woken(a)[w] EXCEPT !.fresh = TRUE]
                             ELSE worker[a][w]
  BY <1>1, <1>3, <1>9
<1>10. worker' \in [Pools -> [Workers -> WorkerRec]]
  <2>1. ASSUME NEW q \in Pools, NEW w \in Workers PROVE worker'[q][w] \in WorkerRec
    <3>1. CASE q # a
      BY <1>7, <1>8, <3>1
    <3>2. CASE q = a
      <4>1. [Woken(q)[w] EXCEPT !.fresh = TRUE] \in WorkerRec
        <5>1. TRUE \in BOOLEAN /\ Woken(q)[w] \in WorkerRec
          BY <1>7
        <5> QED
          BY <5>1, Zenon DEF WorkerRec
      <4> QED
        BY <1>3, <1>7, <1>9, <3>2, <4>1
    <3> QED
      BY <3>1, <3>2
  <2>2. ASSUME NEW q \in Pools PROVE worker'[q] = [w \in Workers |-> worker'[q][w]]
    <3>1. worker[q] = [w \in Workers |-> worker[q][w]]
      BY <1>2 DEF TypeOK
    <3>2. Woken(q) = [w \in Workers |-> Woken(q)[w]]
      BY DEF Woken
    <3> QED
      BY <1>1, <3>1, <3>2
  <2>3. worker' = [q \in Pools |-> worker'[q]]
    BY <1>1
  <2> QED
    BY <2>1, <2>2, <2>3
<1>11. PointerInv' /\ CountInv' /\ CallInv' /\ main' \in MainRec /\ main'.pc \in {"host", "head"}
       /\ (main'.pc = "head" => a # None /\ main'.pool = a /\ main'.pos = 0)
       /\ (main'.pc = "host" <=> a = None)
  <2>1. \A p \in {attached', backend'} \ {None} : Sound(p)'
    BY <1>1, <1>2, <1>5 DEF Sound
  <2>2. CountFor(attached)' = CountFor(attached) /\ ctx'.n_threads = CountFor(attached)
    BY <1>1, <1>2, <1>3, <1>5 DEF CountInv, CountFor
  <2>3. CASE a = None
    <3>1. main' = AtHost
      BY <1>1, <2>3
    <3>2. main' \in MainRec /\ main'.call = "none" /\ main'.pc = "host" /\ CallInv'
      BY <3>1, Returns
    <3>3. PointerInv' /\ CountInv'
      BY <1>1, <1>2, <2>1, <2>2, <3>2 DEF PointerInv, CountInv
    <3> QED
      BY <2>3, <3>2, <3>3
  <2>4. CASE a # None
    <3>1. Enter("compute", a, "head")
      BY <1>1, <2>4 DEF Enter
    <3>2. "head" \in {"stop", "pool gone"} \cup InGraph \cup Making /\ "head" \in InGraph
      BY DEF InGraph
    <3>3. Entered("compute", "head", a)
      BY <1>3, <3>1, <3>2, EnterEnters
    <3>4. main'.pc \notin Making
      BY <3>3 DEF Entered, Making
    <3>5. PointerInv' /\ CountInv'
      BY <1>1, <1>2, <2>1, <2>2, <3>3 DEF PointerInv, CountInv, Entered
    <3>6. CallInv'
      BY <1>1, <2>4, <3>2, <3>3, <3>4 DEF CallInv, Entered
    <3> QED
      BY <2>4, <3>3, <3>5, <3>6 DEF Entered
  <2> QED
    BY <2>3, <2>4
<1>12. TypeOK'
  BY <1>1, <1>2, <1>6, <1>10, <1>11 DEF TypeOK, PoolsKept
<1>15. ASSUME NEW q \in Pools, NEW w \in Workers, q # a
       PROVE  \/ worker'[q][w] = worker[q][w]
              \/ /\ worker[q][w].pc \notin {"none", "exited"}
                 /\ worker'[q][w].fresh = worker[q][w].fresh /\ worker'[q][w].pc = "top"
  <2> DEFINE new == [worker[q][w] EXCEPT !.pc = "top"]
  <2>1. \/ worker'[q][w] = worker[q][w]
        \/ worker[q][w].pc = "asleep" /\ worker'[q][w] = new
    BY <1>7, <1>8, <1>15
  <2>2. new.pc = "top" /\ new.fresh = worker[q][w].fresh
    BY <1>7 DEF WorkerRec
  <2> HIDE DEF new
  <2> QED
    BY <2>1, <2>2
<1>13. CASE a = None
  <2>1. WorkersKept
    <3>1. \A q \in Pools : q # a
      BY <1>3, <1>13
    <3> QED
      BY <1>10, <1>15, <3>1 DEF WorkersKept
  <2>2. main'.pc \notin InGraph
    BY <1>11, <1>13 DEF InGraph
  <2> QED
    BY <1>2, <1>4, <1>5, <1>6, <1>11, <1>12, <2>1, <2>2, QuietStep
<1>14. CASE a # None
  <2>1. PICK b \in Pools : b = a
    BY <1>3, <1>14
  <2>2. b \in Pools /\ Sound(b) /\ pool[b].size <= MaxThreads /\ Rest(b)
    BY <1>2, <1>4, <1>14, <2>1 DEF WorkerInv, GraphInv, Computing, Sound
  <2>3. ASSUME NEW w \in Workers, w < pool[b].size
        PROVE  /\ worker'[b][w].fresh /\ worker'[b][w].pos = worker[b][w].pos
               /\ worker'[b][w].saw = worker[b][w].saw
               /\ worker'[b][w].pc \in {worker[b][w].pc, "top"}
    <3>1. worker'[b][w] = [Woken(b)[w] EXCEPT !.fresh = TRUE]
      BY <1>9, <2>1, <1>14, <2>3
    <3>2. /\ Woken(b)[w] \in WorkerRec /\ worker[b][w] \in WorkerRec
          /\ \/ Woken(b)[w] = worker[b][w]
             \/ Woken(b)[w] = [worker[b][w] EXCEPT !.pc = "top"]
      BY <1>7, <2>2
    <3> QED
      BY <3>1, <3>2 DEF WorkerRec
  <2>4. Together(b)'
    <3>1. main'.pc = "head" /\ main'.pos = 0
      BY <1>11, <2>1, <1>14
    <3>2. /\ pool'[b].size = pool[b].size /\ pool'[b].arrived = pool[b].arrived
          /\ pool'[b].passed = pool[b].passed
      BY <1>5, <2>2
    <3> QED
      BY <1>2, <2>2, <2>3, <3>1, <3>2, GraphStarts
  <2>5. WorkerInv'
    <3> SUFFICES ASSUME NEW q \in Pools
                 PROVE  /\ pool'[q].mem # "live" => Gone(q)'
                        /\ pool'[q].mem = "none" => \A w \in Workers : worker'[q][w] = NoWorker
                        /\ \A w \in Workers : w >= pool'[q].size =>
                               worker'[q][w].pc = "none" /\ ~worker'[q][w].fresh
                        /\ pool'[q].size <= MaxThreads
                        /\ pool'[q].mem = "live" => pool'[q].size > 0
      BY DEF WorkerInv
    <3>1. /\ pool[q].mem # "live" => Gone(q)
          /\ pool[q].mem = "none" => \A w \in Workers : worker[q][w] = NoWorker
          /\ \A w \in Workers : w >= pool[q].size =>
                 worker[q][w].pc = "none" /\ ~worker[q][w].fresh
          /\ pool[q].size <= MaxThreads
          /\ pool[q].mem = "live" => pool[q].size > 0
      BY <1>2 DEF WorkerInv
    <3>2. CASE q # b
      <4>1. \A w \in Workers : worker[q][w].pc \in {"none", "exited"} =>
                worker'[q][w] = worker[q][w]
        BY <1>15, <2>1, <3>2
      <4>2. Gone(q) => Gone(q)'
        BY <4>1 DEF Gone
      <4>3. NoWorker.pc = "none"
        BY DEF NoWorker
      <4> QED
        BY <1>5, <3>1, <4>1, <4>2, <4>3
    <3>3. CASE q = b
      <4>1. pool[q].mem = "live"
        BY <2>2, <3>3 DEF Sound
      <4>2. pool[q].size \in Nat /\ \A w \in Workers : w \in Nat
        BY <1>2, ThreadsFit DEF TypeOK, PoolRec
      <4>3. \A w \in Workers : w >= pool[q].size => worker'[q][w] = worker[q][w]
        <5>1. \A w \in Workers : w >= pool[b].size => ~(w < pool[b].size)
          BY <3>3, <4>2
        <5> QED
          BY <1>9, <2>1, <1>14, <3>3, <5>1
      <4> QED
        BY <1>5, <3>1, <4>1, <4>3
    <3> QED
      BY <3>2, <3>3
  <2>6. GraphInv'
    <3> SUFFICES ASSUME NEW q \in Pools
                 PROVE  \/ pool'[q].mem = "freed"
                        \/ Computing(q)' /\ Together(q)'
                        \/ ~Computing(q)' /\ Rest(q)'
      BY DEF GraphInv
    <3>1. CASE q = b
      <4>1. main'.pc \in InGraph /\ main'.pool = b
        BY <1>11, <2>1, <1>14 DEF InGraph
      <4> QED
        BY <2>4, <3>1, <4>1 DEF Computing
    <3>2. CASE q # b /\ pool'[q].mem # "freed"
      <4>1. Rest(q)
        BY <1>2, <1>4, <1>5, <3>2 DEF GraphInv, Computing
      <4>2. ASSUME NEW w \in Workers PROVE Resting(q, w)'
        BY <1>5, <1>15, <2>1, <3>2, <4>1 DEF Rest, Resting
      <4>3. ~Computing(q)'
        BY <1>11, <2>1, <1>14, <3>2 DEF Computing
      <4> QED
        BY <1>5, <4>1, <4>2, <4>3 DEF Rest
    <3> QED
      BY <3>1, <3>2
  <2> QED
    BY <1>11, <1>12, <2>5, <2>6 DEF PoolInv
<1> QED
  BY <1>13, <1>14

-----------------------------------------------------------------------------
(* The invariant. *)

LEMMA InitInv == Init => PoolInv
<1> SUFFICES ASSUME Init PROVE PoolInv
  OBVIOUS
<1>1. /\ NoPool \in PoolRec /\ NoPool.mem = "none" /\ NoPool.size = 0 /\ NoPool.arrived = 0
      /\ NoWorker \in WorkerRec /\ NoWorker.pc = "none" /\ ~NoWorker.fresh
      /\ AtHost \in MainRec /\ AtHost.call = "none" /\ AtHost.pc = "host"
  BY DEF NoPool, PoolRec, Mem, NoWorker, WorkerRec, AtHost, MainRec
<1>2. /\ pool = [p \in Pools |-> NoPool] /\ worker = [p \in Pools |-> [w \in Workers |-> NoWorker]]
      /\ main = AtHost /\ ctx = [mem |-> "none", n_threads |-> 0]
      /\ owned = None /\ attached = None /\ backend = None
      /\ abandoned = FALSE /\ inherited = FALSE
  BY DEF Init
<1>3. ctx \in [mem : Mem, n_threads : Nat] /\ ctx.mem = "none"
  BY <1>2 DEF Mem
<1>4. TypeOK
  BY <1>1, <1>2, <1>3 DEF TypeOK
<1>5. CallInv
  BY <1>1, <1>2 DEF CallInv, InGraph, Making
<1>6. PointerInv /\ CountInv
  BY <1>1, <1>2, <1>3 DEF PointerInv, CountInv
<1>7. WorkerInv
  BY <1>1, <1>2, ThreadsFit DEF WorkerInv, Gone
<1>8. GraphInv
  BY <1>1, <1>2 DEF GraphInv, Rest, Resting, Computing, InGraph
<1> QED
  BY <1>4, <1>5, <1>6, <1>7, <1>8 DEF PoolInv

LEMMA StutterInv ==
    ASSUME PoolInv, UNCHANGED vars
    PROVE  PoolInv'
<1>1. /\ pool' = pool /\ worker' = worker /\ main' = main /\ ctx' = ctx /\ owned' = owned
      /\ attached' = attached /\ backend' = backend /\ abandoned' = abandoned
      /\ inherited' = inherited
  BY DEF vars, pointers
<1>2. TypeOK' /\ WorkerInv'
  BY <1>1 DEF PoolInv, TypeOK, WorkerInv, Gone
<1>3. CallInv' /\ PointerInv' /\ CountInv'
  BY <1>1, CallKept DEF PoolInv
<1>4. GraphInv'
  BY <1>1 DEF PoolInv, GraphInv, Abandoned, Computing, Together, Rest, Resting, Waiting, Waits,
              InPlace, Passed, Crew, Pc, Pos, Saw, Fresh
<1> QED
  BY <1>2, <1>3, <1>4 DEF PoolInv

LEMMA NextInv ==
    ASSUME PoolInv, [Next]_vars
    PROVE  PoolInv'
<1>1. ASSUME NEW n \in Threads, ctx_new(n) \/ attach_threadpool(n) PROVE PoolInv'
  BY <1>1, CtxNewInv, AttachInv
<1>2. ASSUME NEW call, free(call) PROVE PoolInv'
  BY <1>2, FreeInv
<1>3. CASE Compute
  BY <1>3, ComputeInv
<1>4. CASE Fork
  BY <1>4, ForkInv
<1>5. CASE Host
  BY <1>1, <1>2, <1>3, <1>4, <1>5 DEF Host
<1>6. CASE MainStep
  BY <1>6, SpawnInv, JoinFailedInv, NewDoneInv, AttachDoneInv, MainHeadInv, MainOpInv,
     MainBarrierInv, StopInv, JoinInv, FreeDoneInv DEF MainStep
<1>7. CASE Trap
  BY <1>7, TrapInv
<1>8. ASSUME NEW p \in Pools, NEW w \in Workers, WorkerStep(p, w) PROVE PoolInv'
  BY <1>8, TopInv, HeadInv, OpInv, BarrierInv DEF WorkerStep
<1>9. CASE UNCHANGED vars
  BY <1>9, StutterInv
<1> QED
  BY <1>5, <1>6, <1>7, <1>8, <1>9 DEF Next

LEMMA PoolInvariant == Spec => []PoolInv
BY InitInv, NextInv, PTL DEF Spec

-----------------------------------------------------------------------------
(* Theorems *)

\* Neither the context nor the backend keeps a pool that is gone, no worker
\* runs in a freed pool, and none computes on a context that was freed: not
\* one that a trap left inside an op, however long the graph is and wherever
\* the other threads are (llama_ctx_free, llama_ctx_free_threadpool).
THEOREM FreedIsUnused == Spec => []NothingFreedIsUsed
<1>1. ASSUME PoolInv PROVE NothingFreedIsUsed
  <2>1. TypeOK /\ PointerInv /\ WorkerInv /\ GraphInv
    BY <1>1 DEF PoolInv
  <2>2. ASSUME ctx.mem = "live", Idle, NEW p \in {owned, attached, backend} \ {None}
        PROVE  pool[p].mem = "live"
    BY <1>1, <2>2, IdleMeans DEF Sound
  <2>3. ASSUME backend # None PROVE pool[backend].mem = "live"
    <3>1. main.call \in {"none", "compute", "attach"}
      BY <2>1, <2>3 DEF PointerInv, TypeOK, MainRec
    <3> QED
      BY <2>1, <2>3, <3>1 DEF PointerInv, Sound
  <2>4. ASSUME NEW p \in Pools, NEW w \in Workers,
               worker[p][w].pc \notin {"none", "exited", "absent"}
        PROVE  /\ pool[p].mem = "live"
               /\ worker[p][w].pc = "op" => ctx.mem = "live"
    <3>1. pool[p].mem = "live"
      BY <2>1, <2>4 DEF WorkerInv, Gone
    <3>2. ASSUME worker[p][w].pc = "op", ctx.mem # "live" PROVE FALSE
      <4>1. owned = None /\ main.call = "none"
        BY <2>1, <3>2 DEF PointerInv
      <4>2. ~Abandoned(p)
        BY <4>1, ThreadpoolAssumption DEF Abandoned, None
      <4>3. ~Computing(p)
        BY <1>1, <4>1 DEF PoolInv, CallInv, Computing
      <4>4. Rest(p)
        BY <2>1, <3>1, <4>2, <4>3 DEF GraphInv
      <4> QED
        BY <3>2, <4>4 DEF Rest, Resting
    <3> QED
      BY <3>1, <3>2
  <2> QED
    BY <2>2, <2>3, <2>4 DEF NothingFreedIsUsed
<1> QED
  BY <1>1, PoolInvariant, PTL

\* A context computes on as many threads as its pool has, and on one when it
\* has none, after every call that makes, replaces or frees the pool, failed
\* ones included.
THEOREM CountsAreThePools == Spec => []CountsMatchPool
<1>1. ASSUME PoolInv PROVE CountsMatchPool
  <2>1. ASSUME Idle, ctx.mem = "live"
        PROVE  ctx.n_threads = IF attached = None THEN 1 ELSE pool[attached].size
    BY <1>1, <2>1, IdleMeans DEF PoolInv, CountInv, CountFor
  <2> QED
    BY <2>1 DEF CountsMatchPool
<1> QED
  BY <1>1, PoolInvariant, PTL

\* Once a pool is being freed none of its workers starts another node of the
\* graph that the main thread abandoned (ggml_graph_compute_thread, patched).
THEOREM NoNodeAfterStop == Spec => AbandonedGraphEnds
<1> DEFINE Ends == \A p \in Pools, w \in Workers :
                      pool[p].stop /\ worker[p][w].pc = "head" => worker'[p][w].pc # "op"
<1>1. ASSUME TypeOK, [Next]_vars PROVE Ends
  <2> SUFFICES ASSUME NEW p \in Pools, NEW w \in Workers, pool[p].stop,
                      worker[p][w].pc = "head"
               PROVE  worker'[p][w].pc # "op"
    OBVIOUS
  <2> DEFINE Stays == worker'[p][w].pc \in {"head", "barrier", "absent", "top"}
  <2>1. worker[p][w] \in WorkerRec /\ worker \in [Pools -> [Workers -> WorkerRec]]
    BY <1>1 DEF TypeOK
  <2>2. ASSUME NEW q \in Pools, NEW u \in Workers, WorkerStep(q, u) PROVE Stays
    <3>1. CASE q = p /\ u = w
      <4>1. Head(p, w)
        BY <2>2, <3>1 DEF WorkerStep, Top, Op, Barrier
      <4>2. worker' = [worker EXCEPT ![p][w] =
                          [worker[p][w] EXCEPT !.pc = "barrier", !.pos = 2 * Nodes + 1,
                                               !.saw = pool[p].passed]]
        BY <4>1 DEF Head, LeavesLoop
      <4> QED
        BY <2>1, <4>2 DEF WorkerRec
    <3>2. CASE ~(q = p /\ u = w)
      <4>1. worker'[p][w] = worker[p][w]
        <5>1. \E new : worker' = [worker EXCEPT ![q][u] = new]
          BY <1>1, <2>2 DEF WorkerStep, Top, Head, Op, Barrier, TypeOK
        <5> QED
          BY <2>1, <3>2, <5>1
      <4> QED
        BY <4>1
    <3> QED
      BY <3>1, <3>2
  \* What else happens to workers wakes sleepers or leaves them behind.
  <2>3. ASSUME NEW q, worker' = [worker EXCEPT ![q] = Woken(q)] PROVE Stays
    BY <2>1, <2>3 DEF Woken
  <2>4. ASSUME worker' = worker PROVE Stays
    BY <2>4
  <2>5. CASE Host
    <3>1. CASE Compute
      <4>1. p # attached \/ worker'[p][w] = [Woken(p)[w] EXCEPT !.fresh = TRUE]
                         \/ worker'[p][w] = worker[p][w]
        BY <3>1 DEF Compute
      <4>2. p # attached => worker'[p][w] \in {worker[p][w], Woken(p)[w]}
        BY <3>1 DEF Compute
      <4>3. Woken(p)[w] = worker[p][w]
        BY DEF Woken
      <4> QED
        BY <2>1, <4>1, <4>2, <4>3 DEF WorkerRec
    <3>2. CASE Fork
      BY <2>1, <3>2 DEF Fork, WorkerRec
    <3>3. ASSUME NEW call, free(call) PROVE Stays
      BY <2>3, <2>4, <3>3 DEF free, Detach
    <3>4. ASSUME NEW n, ctx_new(n) \/ attach_threadpool(n) PROVE Stays
      BY <2>4, <3>4 DEF ctx_new, attach_threadpool
    <3> QED
      BY <2>5, <3>1, <3>2, <3>3, <3>4 DEF Host
  <2>6. CASE MainStep
    <3>1. CASE Spawn
      <4>1. CASE worker' = [worker EXCEPT ![main.pool][main.n].pc = "top"]
        BY <2>1, <4>1 DEF WorkerRec
      <4>2. CASE Stopped(main.pool)
        BY <2>3, <4>2 DEF Stopped
      <4> QED
        BY <3>1, <4>1, <4>2 DEF Spawn
    <3>2. CASE NewDone
      BY <2>3, <2>4, <3>2 DEF NewDone, Stopped
    <3>3. CASE AttachDone
      BY <2>3, <2>4, <3>3 DEF AttachDone, Detach
    <3>4. CASE Stop
      BY <2>3, <3>4 DEF Stop, Stopped
    <3>5. CASE JoinFailed \/ MainHead \/ MainOp \/ MainBarrier \/ Join \/ FreeThreadpoolDone
               \/ FreeContext
      BY <2>4, <3>5 DEF JoinFailed, MainHead, MainOp, MainBarrier, Join, FreeThreadpoolDone,
                        FreeContext
    <3> QED
      BY <2>6, <3>1, <3>2, <3>3, <3>4, <3>5 DEF MainStep
  <2>7. CASE Trap
    BY <2>4, <2>7 DEF Trap
  <2> QED
    BY <1>1, <2>2, <2>4, <2>5, <2>6, <2>7 DEF Next, vars
<1>2. PoolInv => TypeOK
  BY DEF PoolInv
<1>3. Spec => [][Ends]_vars
  BY <1>1, <1>2, PoolInvariant, PTL DEF Spec
<1> QED
  BY <1>3 DEF AbandonedGraphEnds
=============================================================================
