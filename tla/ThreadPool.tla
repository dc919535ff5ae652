----------------------------- MODULE ThreadPool -----------------------------
(***************************************************************************)
(* foundation::ThreadPool: a fixed set of workers and the thread that      *)
(* calls run(), which hands out the indices of one job through a shared    *)
(* counter and returns when every worker has entered and left that job.    *)
(*                                                                         *)
(* Steps are the accesses other threads can observe: each atomic           *)
(* operation, each critical section of the mutex, and the two halves of    *)
(* condition_variable::wait (evaluate the predicate, then block), because  *)
(* the destructor stores "stopping" without the mutex.                     *)
(*                                                                         *)
(* Specifications are named for the pool, so that a module about the       *)
(* components that use it can extend this one beside its own.              *)
(***************************************************************************)
EXTENDS Integers, FiniteSets

CONSTANTS
    Worker,    \* the threads of the pool
    Counts,    \* task counts run() is called with
    MaxRuns    \* bound of the model: calls of run()

ASSUME PoolConstants ==
    /\ IsFiniteSet(Worker) /\ Worker # {}
    /\ Counts \subseteq Nat \ {0}
    /\ MaxRuns \in Nat

VARIABLES
    epoch, count, next, active, entered,   \* the fields of ThreadPool::Impl
    stopping,
    holder,     \* the worker between evaluating its predicate and blocking
    caller,     \* where the calling thread is
    mine,       \* the index the caller holds
    pc,         \* where each worker is
    seen,       \* its seen_epoch
    limit,      \* its local_count
    task,       \* the index it holds
    ran         \* history: <<epoch, index>> of every function call made

shared   == <<epoch, count, next, active, entered, stopping, holder>>
mains    == <<caller, mine>>
locals   == <<pc, seen, limit, task>>
poolVars == <<shared, mains, locals, ran>>

None == "none"

PoolInit ==
    /\ epoch = 0 /\ count = 0 /\ next = 0 /\ active = 0 /\ entered = 0
    /\ stopping = FALSE /\ holder = None
    /\ caller = "idle" /\ mine = 0
    /\ pc = [w \in Worker |-> "check"]
    /\ seen = [w \in Worker |-> 0]
    /\ limit = [w \in Worker |-> 0]
    /\ task = [w \in Worker |-> 0]
    /\ ran = {}

Unlocked == holder = None

-----------------------------------------------------------------------------
(* The calling thread.                                                     *)

(* run(), first critical section.                                          *)
Post(n) ==
    /\ caller = "idle" /\ Unlocked
    /\ epoch < MaxRuns
    /\ epoch' = epoch + 1 /\ count' = n /\ next' = 0 /\ entered' = 0
    /\ caller' = "notify"
    /\ UNCHANGED <<active, stopping, holder, mine, locals, ran>>

(* notify_all reaches the workers that are blocked now, and no others.     *)
Awake == [w \in Worker |-> IF pc[w] = "blocked" THEN "check" ELSE pc[w]]

NotifyAll(from, to) ==
    /\ caller = from
    /\ pc' = Awake
    /\ caller' = to
    /\ UNCHANGED <<shared, mine, seen, limit, task, ran>>

NotifyJob  == NotifyAll("notify", "claim")

CallerClaim ==
    /\ caller = "claim"
    /\ next' = next + 1
    /\ IF next >= count
       THEN caller' = "join" /\ UNCHANGED mine
       ELSE caller' = "work" /\ mine' = next
    /\ UNCHANGED <<epoch, count, active, entered, stopping, holder, locals, ran>>

CallerWork ==
    /\ caller = "work"
    /\ ran' = ran \cup {<<epoch, mine>>}
    /\ caller' = "claim"
    /\ UNCHANGED <<shared, mine, locals>>

(* Mutant: only the workers that entered are waited for.                   *)
NoneActive == active = 0

(* Mutant: only entering is waited for.                                    *)
AllEntered == entered = Cardinality(Worker)

(* The predicate of job_finished.wait.                                     *)
AllLeft == entered = Cardinality(Worker) /\ active = 0

(* Both notifications of job_finished are sent under the mutex, so here    *)
(* evaluating the predicate and blocking are one step.                     *)
CallerJoin ==
    /\ caller = "join" /\ Unlocked
    /\ caller' = IF AllLeft THEN "idle" ELSE "waiting"
    /\ UNCHANGED <<shared, mine, locals, ran>>

(* ~Impl: the store, the notification, the joins.                          *)
Destroy ==
    /\ caller = "idle"
    /\ stopping' = TRUE
    /\ caller' = "notify_stop"
    /\ UNCHANGED <<epoch, count, next, active, entered, holder, mine, locals, ran>>

NotifyStop == NotifyAll("notify_stop", "joining")

JoinThreads ==
    /\ caller = "joining"
    /\ \A w \in Worker : pc[w] = "exited"
    /\ caller' = "gone"
    /\ UNCHANGED <<shared, mine, locals, ran>>

-----------------------------------------------------------------------------
(* A worker: worker_loop().                                                *)

(* It holds the mutex: it leaves, enters the job, or goes on to block.     *)
Check(w) ==
    /\ pc[w] = "check" /\ Unlocked
    /\ CASE stopping ->
              /\ pc' = [pc EXCEPT ![w] = "exited"]
              /\ UNCHANGED <<shared, seen, limit>>
         [] ~stopping /\ epoch # seen[w] ->
              /\ seen' = [seen EXCEPT ![w] = epoch]
              /\ limit' = [limit EXCEPT ![w] = count]
              /\ entered' = entered + 1 /\ active' = active + 1
              /\ pc' = [pc EXCEPT ![w] = "claim"]
              /\ UNCHANGED <<epoch, count, next, stopping, holder>>
         [] ~stopping /\ epoch = seen[w] ->
              /\ pc' = [pc EXCEPT ![w] = "blocking"]
              /\ holder' = w
              /\ UNCHANGED <<epoch, count, next, active, entered, stopping, seen, limit>>
    /\ UNCHANGED <<mains, task, ran>>

Block(w) ==
    /\ pc[w] = "blocking"
    /\ pc' = [pc EXCEPT ![w] = "blocked"]
    /\ holder' = None
    /\ UNCHANGED <<epoch, count, next, active, entered, stopping, mains, seen, limit,
                   task, ran>>

Claim(w) ==
    /\ pc[w] = "claim"
    /\ next' = next + 1
    /\ IF next >= limit[w]
       THEN pc' = [pc EXCEPT ![w] = "leave"] /\ UNCHANGED task
       ELSE pc' = [pc EXCEPT ![w] = "work"] /\ task' = [task EXCEPT ![w] = next]
    /\ UNCHANGED <<epoch, count, active, entered, stopping, holder, mains, seen, limit, ran>>

Work(w) ==
    /\ pc[w] = "work"
    /\ ran' = ran \cup {<<seen[w], task[w]>>}
    /\ pc' = [pc EXCEPT ![w] = "claim"]
    /\ UNCHANGED <<shared, mains, seen, limit, task>>

(* Mutant: the last worker to leave notifies nobody.                       *)
LeaveQuietly(w) ==
    /\ pc[w] = "leave"
    /\ active' = active - 1
    /\ pc' = [pc EXCEPT ![w] = "check"]
    /\ UNCHANGED <<epoch, count, next, entered, stopping, holder, mains, seen, limit, task,
                   ran>>

(* Mutant: active_workers is decremented again by the notifying worker.    *)
LeaveTwice(w) ==
    /\ pc[w] = "leave"
    /\ active' = active - (IF active = 1 THEN 2 ELSE 1)
    /\ pc' = [pc EXCEPT ![w] = IF active = 1 THEN "tell" ELSE "check"]
    /\ UNCHANGED <<epoch, count, next, entered, stopping, holder, mains, seen, limit, task,
                   ran>>

Leave(w) ==
    /\ pc[w] = "leave"
    /\ active' = active - 1
    /\ pc' = [pc EXCEPT ![w] = IF active = 1 THEN "tell" ELSE "check"]
    /\ UNCHANGED <<epoch, count, next, entered, stopping, holder, mains, seen, limit, task,
                   ran>>

(* notify_one: only the caller ever waits on job_finished.                 *)
Tell(w) ==
    /\ pc[w] = "tell" /\ Unlocked
    /\ pc' = [pc EXCEPT ![w] = "check"]
    /\ caller' = IF caller = "waiting" THEN "join" ELSE caller
    /\ UNCHANGED <<shared, mine, seen, limit, task, ran>>

(* Both waits may wake without a notification.                             *)
SpuriousWorker(w) ==
    /\ pc[w] = "blocked"
    /\ pc' = [pc EXCEPT ![w] = "check"]
    /\ UNCHANGED <<shared, mains, seen, limit, task, ran>>

SpuriousCaller ==
    /\ caller = "waiting"
    /\ caller' = "join"
    /\ UNCHANGED <<shared, mine, locals, ran>>

CallerStep ==
    NotifyJob \/ CallerClaim \/ CallerWork \/ CallerJoin \/ NotifyStop \/ JoinThreads

WorkerStep(w) == Check(w) \/ Block(w) \/ Claim(w) \/ Work(w) \/ Leave(w) \/ Tell(w)

PoolNext ==
    \/ \E n \in Counts : Post(n)
    \/ CallerStep
    \/ Destroy
    \/ \E w \in Worker : WorkerStep(w) \/ SpuriousWorker(w)
    \/ SpuriousCaller

PoolSpec == PoolInit /\ [][PoolNext]_poolVars

(* Every thread is scheduled, and one that asks for the mutex again and    *)
(* again gets it.  Nothing is assumed of spurious wakeups, nor of the      *)
(* owner calling run() again or destroying the pool.                       *)
FairPool ==
    /\ PoolSpec
    /\ WF_poolVars(CallerStep) /\ SF_poolVars(CallerJoin)
    /\ \A w \in Worker : /\ WF_poolVars(WorkerStep(w))
                         /\ SF_poolVars(Check(w)) /\ SF_poolVars(Tell(w))

-----------------------------------------------------------------------------
CallerAt == {"idle", "notify", "claim", "work", "join", "waiting",
             "notify_stop", "joining", "gone"}
WorkerAt == {"check", "blocking", "blocked", "claim", "work", "leave", "tell", "exited"}

(* Types of every field and local of the pool.                             *)
PoolTypeOK ==
    /\ epoch \in Nat /\ count \in Nat /\ next \in Nat /\ active \in Nat /\ entered \in Nat
    /\ stopping \in BOOLEAN /\ holder \in Worker \cup {None}
    /\ caller \in CallerAt /\ mine \in Nat
    /\ pc \in [Worker -> WorkerAt]
    /\ seen \in [Worker -> Nat] /\ limit \in [Worker -> Nat] /\ task \in [Worker -> Nat]
    /\ ran \subseteq Nat \X Nat

(* The workers inside a job, and those that have entered the newest.       *)
Inside  == {w \in Worker : pc[w] \in {"claim", "work", "leave"}}
Entered == {w \in Worker : seen[w] = epoch}

(* run() has returned, or was not called.                                  *)
AtRest == caller \in {"idle", "notify_stop", "joining", "gone"}

(* The two counters count: a worker inside has the newest job.             *)
CountInv ==
    /\ active = Cardinality(Inside)
    /\ epoch > 0 => entered = Cardinality(Entered)
    /\ \A w \in Worker : seen[w] <= epoch
    /\ \A w \in Inside : epoch > 0 /\ seen[w] = epoch /\ limit[w] = count
    /\ ~AtRest => epoch > 0

(* An index below the counter was called or is held, by one thread.        *)
IndexInv ==
    /\ \A r \in ran : r[1] <= epoch /\ (r[1] = epoch => r[2] < next)
    /\ caller = "work" => mine < next /\ mine < count /\ <<epoch, mine>> \notin ran
    /\ \A w \in Worker : pc[w] = "work" =>
          /\ task[w] < next /\ task[w] < count /\ <<epoch, task[w]>> \notin ran
          /\ caller = "work" => mine # task[w]
          /\ \A v \in Worker \ {w} : pc[v] = "work" => task[v] # task[w]
    /\ \A i \in 0..(count - 1) : i < next =>
          \/ <<epoch, i>> \in ran
          \/ caller = "work" /\ mine = i
          \/ \E w \in Worker : pc[w] = "work" /\ task[w] = i

(* Whoever stops taking indices has seen the counter at the end, and at    *)
(* rest every worker has been through the newest job.                      *)
EndInv ==
    /\ AtRest \/ caller \in {"join", "waiting"} => next >= count
    /\ AtRest => Inside = {} /\ Entered = Worker

PoolInv == PoolTypeOK /\ CountInv /\ IndexInv /\ EndInv

(* A thread about to call the function holds an index of the job that is   *)
(* running, which nobody has called it with and nobody else holds: every   *)
(* index runs at most once (run(), next_task.fetch_add).                   *)
EachIndexOnce ==
    /\ caller = "work" => mine < count /\ <<epoch, mine>> \notin ran
    /\ \A w \in Worker : pc[w] = "work" =>
          /\ seen[w] = epoch /\ task[w] < count /\ <<epoch, task[w]>> \notin ran
          /\ caller = "work" => mine # task[w]
          /\ \A v \in Worker \ {w} : pc[v] = "work" => task[v] # task[w]

(* When run() has returned, every index of its job was called and no       *)
(* worker can still touch the job: the function object and what it refers  *)
(* to may be destroyed, and next_task reset (run(), job_finished.wait).    *)
Barrier ==
    caller \in {"idle", "notify_stop", "joining", "gone"} =>
        /\ \A i \in 0..(count - 1) : <<epoch, i>> \in ran
        /\ \A w \in Worker : pc[w] \notin {"claim", "work", "leave"}

(* run() returns (the predicate of job_finished.wait and the notification  *)
(* of the last worker that leaves).                                        *)
RunReturns == (caller = "notify") ~> (caller = "idle")
=============================================================================
