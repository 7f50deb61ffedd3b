----------------------------- MODULE Threadpool -----------------------------
(***************************************************************************)
(* The thread pool of a context: who holds a pointer to it, who works on   *)
(* whose memory, and how a pool is taken down when the main thread trapped *)
(* in the middle of a graph and left the workers at a barrier.             *)
(*                                                                         *)
(* The calls are those of llama_api.cc; the barrier, the loop over the     *)
(* nodes, the spawn and the detach are ggml's and llama.cpp's with the     *)
(* changes of patches/; the rest of ggml's pool is external.  What runs    *)
(* under the pool's mutex is one step.  poll is 0: a worker without work   *)
(* sleeps.                                                                 *)
(***************************************************************************)
EXTENDS Integers, FiniteSets

CONSTANTS Pools,    \* the pools an instance may create, one after the other
          Threads,  \* thread counts the host asks for
          Nodes     \* nodes of a graph; each has one barrier inside

ASSUME ThreadpoolAssumption ==
    /\ Pools \subseteq Nat \ {0}
    /\ Threads \subseteq Nat \ {0}
    /\ \E n \in Threads : \A m \in Threads : m <= n    \* counts are int32_t
    /\ Nodes \in Nat \ {0}

None == 0
MaxThreads == CHOOSE n \in Threads : \A m \in Threads : m <= n
Workers == 1 .. MaxThreads - 1

VARIABLES
    pool,       \* each pool: its memory, size, flags, and its barrier
    worker,     \* each worker of each pool: where it is
    main,       \* the main thread: the call it runs, and where it is
    ctx,        \* the context's memory and its thread count
    owned,      \* CtxState::threadpool
    attached,   \* llama_context's pool
    backend,    \* the CPU backend's pool
    abandoned,  \* the main thread trapped in a graph
    inherited   \* the pool's workers stayed behind in the snapshot builder

pointers == <<owned, attached, backend>>
vars == <<pool, worker, main, ctx, pointers, abandoned, inherited>>

NoPool == [mem |-> "none", size |-> 0, stop |-> FALSE, pause |-> FALSE,
           arrived |-> 0, passed |-> FALSE]
NoWorker == [pc |-> "none", pos |-> 0, saw |-> FALSE, fresh |-> FALSE]
AtHost == [call |-> "none", pc |-> "host", pool |-> None, n |-> 0, pos |-> 0, saw |-> FALSE]

Init ==
    /\ pool = [p \in Pools |-> NoPool]
    /\ worker = [p \in Pools |-> [w \in Workers |-> NoWorker]]
    /\ main = AtHost
    /\ ctx = [mem |-> "none", n_threads |-> 0]
    /\ owned = None /\ attached = None /\ backend = None
    /\ abandoned = FALSE /\ inherited = FALSE

-----------------------------------------------------------------------------
(* ggml's pool *)

\* ggml_cond_broadcast: whoever sleeps on the pool's condition wakes.
Woken(p) == [w \in Workers |->
                IF worker[p][w].pc = "asleep" THEN [worker[p][w] EXCEPT !.pc = "top"]
                ELSE worker[p][w]]

\* ggml_threadpool_pause
Paused(p) == pool' = [pool EXCEPT ![p].pause = TRUE]

\* Stop the pool's workers and wake them.
Stopped(p) == /\ pool' = [pool EXCEPT ![p].stop = TRUE, ![p].pause = FALSE]
              /\ worker' = [worker EXCEPT ![p] = Woken(p)]

Gone(p) == \A w \in Workers : worker[p][w].pc \in {"none", "exited"}

\* Mutant: a barrier holds its threads although the pool is being freed.
MayLeave_PassedOnly(p, saw) == pool[p].passed # saw

\* A thread at the barrier goes on when all have come, or the pool stops.
MayLeave(p, saw) == pool[p].passed # saw \/ pool[p].stop

\* A thread arrives at the barrier, the last one lets all pass.
Arrive(p) ==
    pool' = IF pool[p].arrived = pool[p].size - 1
            THEN [pool EXCEPT ![p].arrived = 0, ![p].passed = ~@]
            ELSE [pool EXCEPT ![p].arrived = @ + 1]

\* Where a thread goes from the barrier after step pos of a graph: into the
\* second phase of a node, to the next node, or out of the graph.
AfterBarrier(pos) == CASE pos > 2 * Nodes -> "out"
                       [] pos % 2 = 1 /\ pos < 2 * Nodes -> "op"
                       [] OTHER -> "head"

\* Mutant: a thread goes on to the next node although the pool is being freed.
LeavesLoop_NoStop(p, pos) == pos = 2 * Nodes

\* The loop over the nodes ends, or the pool is being freed.
LeavesLoop(p, pos) == pos = 2 * Nodes \/ pool[p].stop

\* A worker between two graphs.
Top(p, w) ==
    LET me == worker[p][w]
    IN  /\ me.pc = "top"
        /\ worker' = [worker EXCEPT ![p][w] =
              CASE pool[p].pause -> [me EXCEPT !.pc = "asleep"]
                [] ~pool[p].pause /\ pool[p].stop -> [me EXCEPT !.pc = "exited"]
                [] ~pool[p].pause /\ ~pool[p].stop /\ me.fresh ->
                      [me EXCEPT !.pc = "head", !.pos = 0, !.fresh = FALSE]
                [] OTHER -> [me EXCEPT !.pc = "asleep"]]
        /\ UNCHANGED <<pool, main, ctx, pointers, abandoned, inherited>>

\* The head of the loop over the nodes; out of it leads the last barrier.
Head(p, w) ==
    LET me == worker[p][w]
    IN  /\ me.pc = "head"
        /\ IF LeavesLoop(p, me.pos)
           THEN /\ Arrive(p)
                /\ worker' = [worker EXCEPT ![p][w] =
                      [me EXCEPT !.pc = "barrier", !.pos = 2 * Nodes + 1,
                                 !.saw = pool[p].passed]]
           ELSE /\ worker' = [worker EXCEPT ![p][w].pc = "op"]
                /\ UNCHANGED pool
        /\ UNCHANGED <<main, ctx, pointers, abandoned, inherited>>

\* One phase of a node, on the context's buffers, up to its barrier; no
\* barrier follows the last node.
Op(p, w) ==
    LET me == worker[p][w]
        last == me.pos + 1 = 2 * Nodes
    IN  /\ me.pc = "op"
        /\ worker' = [worker EXCEPT ![p][w] =
              [me EXCEPT !.pos = @ + 1, !.saw = pool[p].passed,
                         !.pc = IF last THEN "head" ELSE "barrier"]]
        /\ IF last THEN UNCHANGED pool ELSE Arrive(p)
        /\ UNCHANGED <<main, ctx, pointers, abandoned, inherited>>

Barrier(p, w) ==
    LET me == worker[p][w]
        to == AfterBarrier(me.pos)
    IN  /\ me.pc = "barrier"
        /\ MayLeave(p, me.saw)
        /\ worker' = [worker EXCEPT ![p][w].pc = IF to = "out" THEN "top" ELSE to]
        /\ UNCHANGED <<pool, main, ctx, pointers, abandoned, inherited>>

WorkerStep(p, w) == Top(p, w) \/ Head(p, w) \/ Op(p, w) \/ Barrier(p, w)

-----------------------------------------------------------------------------
(* The main thread *)

Idle == main.pc = "host"
Usable == Idle /\ ctx.mem = "live" /\ ~abandoned /\ ~inherited

Enter(call, p, where) == main' = [AtHost EXCEPT !.call = call, !.pc = where, !.pool = p]

\* The next pool's memory.
Unused == {p \in Pools : pool[p].mem = "none"}

\* ggml_threadpool_new: a pool of n threads whose workers are to be spawned.
NewPool(call, n) ==
    \E p \in Unused :
        /\ \A q \in Unused : p <= q
        /\ pool' = [pool EXCEPT ![p] = [NoPool EXCEPT !.mem = "live", !.size = n]]
        /\ main' = [AtHost EXCEPT !.call = call, !.pc = "spawn", !.pool = p, !.n = 1]

\* llama_ctx_new: the context first, then its pool.
ctx_new(n) ==
    /\ Idle /\ ctx.mem # "live"
    /\ IF n > 1 THEN NewPool("ctx_new", n)
                ELSE Enter("ctx_new", None, "made") /\ UNCHANGED pool
    /\ ctx' = [mem |-> "live", n_threads |-> n]
    /\ abandoned' = FALSE
    /\ UNCHANGED <<worker, pointers, inherited>>

\* llama_ctx_attach_threadpool: a new pool, or none.
attach_threadpool(n) ==
    /\ Idle /\ ctx.mem = "live" /\ ~abandoned
    /\ IF n > 1 THEN NewPool("attach", n)
                ELSE Enter("attach", None, "made") /\ UNCHANGED pool
    /\ UNCHANGED <<worker, ctx, pointers, abandoned, inherited>>

\* One worker is spawned and runs; or it is not, and the pool is taken down.
Spawn ==
    LET p == main.pool
    IN  /\ main.pc = "spawn"
        /\ \/ /\ worker' = [worker EXCEPT ![p][main.n].pc = "top"]
              /\ main' = [main EXCEPT !.n = @ + 1,
                                      !.pc = IF main.n + 1 = pool[p].size THEN "made" ELSE @]
              /\ UNCHANGED pool
           \/ /\ Stopped(p)
              /\ main' = [main EXCEPT !.pc = "join failed"]
        /\ UNCHANGED <<ctx, pointers, abandoned, inherited>>

\* The spawned workers are joined, and there is no pool.
JoinFailed ==
    /\ main.pc = "join failed"
    /\ Gone(main.pool)
    /\ pool' = [pool EXCEPT ![main.pool].mem = "freed"]
    /\ main' = [main EXCEPT !.pool = None, !.pc = "not made"]
    /\ UNCHANGED <<worker, ctx, pointers, abandoned, inherited>>

\* llama_detach_threadpool: neither the context nor the backend holds a pool.
\* Mutant: the backend keeps its pointer.
Detach_ContextOnly == /\ attached' = None
                      /\ UNCHANGED <<backend, pool, worker>>

Detach == /\ attached' = None
          /\ backend' = None
          /\ IF backend # None
             THEN Paused(backend) /\ worker' = [worker EXCEPT ![backend] = Woken(backend)]
             ELSE UNCHANGED <<pool, worker>>

\* Mutant: the context keeps the count it had before it got the pool.
CountFor_Kept(p) == ctx.n_threads

\* The threads a context with this pool computes on.
CountFor(p) == IF p = None THEN 1 ELSE pool[p].size

\* ctx_new ends: without a pool it computes on one thread.
NewDone ==
    /\ main.call = "ctx_new" /\ main.pc \in {"made", "not made"}
    /\ attached' = main.pool
    /\ \/ /\ owned' = main.pool
          /\ ctx' = [ctx EXCEPT !.n_threads = CountFor(main.pool)]
          /\ main' = AtHost
          /\ UNCHANGED <<pool, worker>>
       \/ \* new CtxState throws: ctx_new_unwind
          /\ owned' = None
          /\ IF main.pool = None
             THEN main' = [main EXCEPT !.pc = "free ctx"] /\ UNCHANGED <<pool, worker>>
             ELSE main' = [main EXCEPT !.pc = "join"] /\ Stopped(main.pool)
          /\ UNCHANGED ctx
    /\ UNCHANGED <<backend, abandoned, inherited>>

\* attach ends: the pool is the context's, the one before is abandoned.
AttachDone ==
    /\ main.call = "attach" /\ main.pc \in {"made", "not made"}
    /\ main' = AtHost
    /\ IF main.pc = "not made"
       THEN UNCHANGED <<pool, worker, ctx, pointers, inherited>>
       ELSE /\ IF main.pool # None
               THEN attached' = main.pool /\ UNCHANGED <<backend, pool, worker>>
               ELSE Detach
            /\ owned' = main.pool
            /\ ctx' = [ctx EXCEPT !.n_threads = CountFor(main.pool)]
            /\ inherited' = FALSE
    /\ UNCHANGED abandoned

-----------------------------------------------------------------------------
(* A graph *)

\* graph_compute gives the context's pool to the backend, which pauses the one
\* it had; then the pool is kicked off, for as many threads as it has
\* (CountsMatchPool).
Compute ==
    /\ Usable
    /\ backend' = attached
    /\ LET old == IF backend = attached THEN None ELSE backend
       IN  pool' = [p \in Pools |->
              CASE p = old -> [pool[p] EXCEPT !.pause = TRUE]
                [] p = attached -> [pool[p] EXCEPT !.pause = FALSE]
                [] OTHER -> pool[p]]
    /\ worker' = [p \in Pools |->
          CASE p = attached ->
                  [w \in Workers |-> IF w < pool[p].size
                                     THEN [Woken(p)[w] EXCEPT !.fresh = TRUE]
                                     ELSE worker[p][w]]
            [] p = backend /\ p # attached -> Woken(p)
            [] OTHER -> worker[p]]
    /\ main' = IF attached = None THEN AtHost
               ELSE [AtHost EXCEPT !.call = "compute", !.pc = "head", !.pool = attached]
    /\ UNCHANGED <<ctx, owned, attached, abandoned, inherited>>

MainHead ==
    /\ main.pc = "head"
    /\ IF LeavesLoop(main.pool, main.pos)
       THEN /\ Arrive(main.pool)
            /\ main' = [main EXCEPT !.pc = "barrier", !.pos = 2 * Nodes + 1,
                                    !.saw = pool[main.pool].passed]
       ELSE main' = [main EXCEPT !.pc = "op"] /\ UNCHANGED pool
    /\ UNCHANGED <<worker, ctx, pointers, abandoned, inherited>>

MainOp ==
    LET last == main.pos + 1 = 2 * Nodes
    IN  /\ main.pc = "op"
        /\ main' = [main EXCEPT !.pos = @ + 1, !.saw = pool[main.pool].passed,
                                !.pc = IF last THEN "head" ELSE "barrier"]
        /\ IF last THEN UNCHANGED pool ELSE Arrive(main.pool)
        /\ UNCHANGED <<worker, ctx, pointers, abandoned, inherited>>

MainBarrier ==
    LET to == AfterBarrier(main.pos)
    IN  /\ main.pc = "barrier"
        /\ MayLeave(main.pool, main.saw)
        /\ main' = IF to = "out" THEN AtHost ELSE [main EXCEPT !.pc = to]
        /\ UNCHANGED <<pool, worker, ctx, pointers, abandoned, inherited>>

\* An assertion, or the abort callback, traps in a node: the main thread is
\* back at the host, the workers are where they are.
Trap == /\ main.pc = "op"
        /\ main' = AtHost
        /\ abandoned' = TRUE
        /\ UNCHANGED <<pool, worker, ctx, pointers, inherited>>

-----------------------------------------------------------------------------
(* Taking the pool down *)

\* llama_ctx_free, llama_ctx_free_threadpool: detach.  A pool inherited from
\* a snapshot must be replaced first.
free(call) ==
    /\ Idle /\ ctx.mem = "live" /\ ~inherited
    /\ call \in {"ctx_free", "free_threadpool"}
    /\ Detach
    /\ Enter(call, owned, IF owned = None THEN "pool gone" ELSE "stop")
    /\ UNCHANGED <<ctx, owned, abandoned, inherited>>

\* ggml_threadpool_free
Stop == /\ main.pc = "stop"
        /\ Stopped(main.pool)
        /\ main' = [main EXCEPT !.pc = "join"]
        /\ UNCHANGED <<ctx, pointers, abandoned, inherited>>

Join == /\ main.pc = "join"
        /\ Gone(main.pool)
        /\ pool' = [pool EXCEPT ![main.pool].mem = "freed"]
        /\ owned' = None
        /\ main' = [main EXCEPT !.pc = IF main.call = "ctx_new" THEN "free ctx" ELSE "pool gone"]
        /\ UNCHANGED <<worker, ctx, attached, backend, abandoned, inherited>>

FreeThreadpoolDone ==
    /\ main.call = "free_threadpool" /\ main.pc = "pool gone"
    /\ ctx' = [ctx EXCEPT !.n_threads = 1]
    /\ main' = AtHost
    /\ UNCHANGED <<pool, worker, pointers, abandoned, inherited>>

\* llama_free: of a context whose pool is gone, or that was never handed out.
FreeContext ==
    /\ \/ main.call = "ctx_free" /\ main.pc = "pool gone"
       \/ main.pc = "free ctx"
    /\ ctx' = [mem |-> "freed", n_threads |-> 0]
    /\ attached' = None
    /\ main' = AtHost
    /\ UNCHANGED <<pool, worker, owned, backend, abandoned, inherited>>

\* The instance is captured between two calls and forked: workers do not come
\* along.
Fork == /\ Usable
        /\ worker' = [p \in Pools |-> [w \in Workers |->
                         IF worker[p][w].pc \in {"none", "exited"} THEN worker[p][w]
                         ELSE [worker[p][w] EXCEPT !.pc = "absent"]]]
        /\ inherited' = (owned # None)
        /\ UNCHANGED <<pool, main, ctx, pointers, abandoned>>

MainStep == Spawn \/ JoinFailed \/ NewDone \/ AttachDone \/ MainHead \/ MainOp
            \/ MainBarrier \/ Stop \/ Join \/ FreeThreadpoolDone \/ FreeContext

Host == \/ \E n \in Threads : ctx_new(n) \/ attach_threadpool(n)
        \/ \E call \in {"ctx_free", "free_threadpool"} : free(call)
        \/ Compute \/ Fork

Next == Host \/ MainStep \/ Trap \/ \E p \in Pools, w \in Workers : WorkerStep(p, w)

Spec == Init /\ [][Next]_vars

\* A call that began goes on, and every thread that exists is scheduled.
FairSpec == /\ Spec
            /\ WF_vars(MainStep)
            /\ \A p \in Pools, w \in Workers : WF_vars(WorkerStep(p, w))

-----------------------------------------------------------------------------
(* Properties *)

\* Nothing freed is used: neither the context nor the backend keeps a pool
\* that is gone (the backend pauses the one it has when it is given another),
\* no worker runs in a freed pool, and none computes on a context's buffers
\* after llama_free, not even one that a trap left inside an op.
NothingFreedIsUsed ==
    /\ ctx.mem = "live" /\ Idle =>
          \A p \in {owned, attached, backend} \ {None} : pool[p].mem = "live"
    /\ backend # None => pool[backend].mem = "live"
    /\ \A p \in Pools, w \in Workers :
          worker[p][w].pc \notin {"none", "exited", "absent"} =>
              /\ pool[p].mem = "live"
              /\ worker[p][w].pc = "op" => ctx.mem = "live"

\* A context computes on every thread of its pool, and on one without a pool:
\* no worker idles through its graphs, and ggml spawns no pool for each of them.
CountsMatchPool ==
    Idle /\ ctx.mem = "live" =>
        ctx.n_threads = IF attached = None THEN 1 ELSE pool[attached].size

\* Once a pool is being freed none of its workers starts another node of the
\* graph the main thread abandoned; one inside an op finishes that op.
AbandonedGraphEnds ==
    [][\A p \in Pools, w \in Workers :
          pool[p].stop /\ worker[p][w].pc = "head" => worker'[p][w].pc # "op"]_vars

\* Every call returns: a graph passes all its barriers and the join of a pool
\* ends, whatever the workers were doing when the main thread trapped.
CallsReturn == ~Idle ~> Idle
=============================================================================
