-------------------------------- MODULE Manager --------------------------------
(***************************************************************************)
(* Connection identifiers and the routing that rests on them: the          *)
(* thread-local Manager of every event loop (core/manager.h,               *)
(* core/manager.cpp), Scheduler::schedule(hashkey, ...)                    *)
(* (core/scheduler.cpp) and Interface (core/interface.h).                  *)
(*                                                                         *)
(* No lock and no shared table keeps identifiers apart.  Each manager      *)
(* steps its own 32-bit seed by the number of workers, starting from its   *)
(* own residue, and a task for a connection finds the worker that owns it  *)
(* from the residue of the identifier alone.                               *)
(***************************************************************************)
EXTENDS Integers, FiniteSets

CONSTANTS
  Sizes,       \* numbers of workers the framework may be started with
  IdSpace,     \* number of values of a uint32_t seed
  MaxLive      \* bound: connections of one manager at a time

ASSUME ManagerAssumption ==
  /\ Sizes \subseteq Nat \ {0}
  /\ IdSpace \in Nat /\ \A s \in Sizes : s < IdSpace
  /\ MaxLive \in Nat

Ids == 0..(IdSpace - 1)

VARIABLES
  step,    \* Manager::_step, the number of workers 1 .. step; set before they start
  seed,    \* Manager::_seed
  conns,   \* the keys of Manager::_connections
  wrapped  \* history: managers whose seed has wrapped around

vars == <<step, seed, conns, wrapped>>

\* Managers are numbered like the workers that own them; 0 is the manager of
\* worker 0, where the connections of a server with shareThread live, or of an
\* application's own loop.  No task for an identifier is ever sent there.
Workers  == 1..step
Managers == 0..step

TypeOK ==
  /\ step \in Sizes
  /\ seed \in [Managers -> Ids]
  /\ conns \in [Managers -> SUBSET (Ids \ {0})]
  /\ wrapped \subseteq Managers

--------------------------------------------------------------------------------

FirstSeedZero(m) == 0

\* Worker::run calls Manager::get(id - 1); everyone else gets Manager::get(0).
FirstSeed(m) == (IF m = 0 THEN 0 ELSE m - 1) % step

Init ==
  /\ step \in Sizes
  /\ seed = [m \in Managers |-> FirstSeed(m)]
  /\ conns = [m \in Managers |-> {}]
  /\ wrapped = {}

SeedAfterByOne(m, k) == (seed[m] + k) % IdSpace

\* The k-th value the seed takes from now on, in 32-bit arithmetic.
SeedAfter(m, k) == (seed[m] + k * step) % IdSpace

\* The loop of getConnectionId goes on while it meets 0 or an identifier in use.
Skipped(m, k) == SeedAfter(m, k) = 0 \/ SeedAfter(m, k) \in conns[m]

\* getConnectionId stops at the k-th value.
StopsAt(m, k) == ~Skipped(m, k) /\ \A j \in 1..(k - 1) : Skipped(m, j)

\* The seed moves to that value.
Draw(m, k) ==
  /\ StopsAt(m, k)
  /\ seed' = [seed EXCEPT ![m] = SeedAfter(m, k)]
  /\ wrapped' = IF seed[m] + k * step < IdSpace THEN wrapped ELSE wrapped \cup {m}
  /\ UNCHANGED step

\* createTcpClient, createTcpConnection, createUdpClient, createUdpConnection:
\* a new identifier, then addConnection, whose test for a duplicate never fires
\* on an identifier that getConnectionId returned.
CreateConnection(m, k) ==
  /\ Cardinality(conns[m]) < MaxLive
  /\ Draw(m, k)
  /\ conns' = [conns EXCEPT ![m] = @ \cup {SeedAfter(m, k)}]

\* The same when the socket could not be set up: the identifier is lost.
CreateFails(m, k) ==
  /\ Draw(m, k)
  /\ UNCHANGED conns

\* onClose or onInitiativeClose on the owner's thread: removeConnection.
RemoveConnection(m, id) ==
  /\ id \in conns[m]
  /\ conns' = [conns EXCEPT ![m] = @ \ {id}]
  /\ UNCHANGED <<step, seed, wrapped>>

\* Scheduler::schedule(hashkey, task): the index of the worker.
Index(id) == (id % step) + 1

\* Interface(id).async_close() by a holder of the identifier: a Closer runs on
\* the worker the identifier hashes to and closes what it finds there, be it
\* the connection meant or another worker's of that number.
AsyncClose(id) ==
  /\ id \in conns[Index(id)]
  /\ conns' = [conns EXCEPT ![Index(id)] = @ \ {id}]
  /\ UNCHANGED <<step, seed, wrapped>>

Next ==
  \/ \E m \in Managers, k \in 1..IdSpace : CreateConnection(m, k) \/ CreateFails(m, k)
  \/ \E m \in Managers, id \in Ids : RemoveConnection(m, id)
  \/ \E id \in UNION {conns[m] : m \in Managers} : AsyncClose(id)

Spec == Init /\ [][Next]_vars

--------------------------------------------------------------------------------
(* Properties *)

\* The identifiers a manager draws have the residue its seed started with:
\* for ever if the number of workers divides 2^32, and otherwise until the
\* seed has wrapped around.
Steady(m) == m \notin wrapped \/ IdSpace % step = 0

\* A task scheduled with the identifier of a worker's open connection runs on
\* that worker (Manager::getConnectionId against Scheduler::schedule); one for
\* a connection that lives in manager 0, outside the workers, is sent to the
\* first worker.
RoutesHome ==
  \A m \in Managers : Steady(m) =>
     \A id \in conns[m] : Index(id) = (IF m = 0 THEN 1 ELSE m)

\* Event loops never use the same identifier at the same time although they
\* share nothing, but for the first worker and manager 0, whose seeds start at
\* the same value.
IdsUnique ==
  \A m, n \in Managers : m < n /\ Steady(m) /\ Steady(n) =>
     (m = 0 /\ n = 1) \/ conns[m] \cap conns[n] = {}

\* "async_close closes the connection asynchronously", says the interface of
\* its identifiers (interface.h:17-30): the worker that runs the task would
\* have to be the one that owns the connection, for connections of a server
\* with shareThread too.
EveryCloseReachesItsOwner ==
  \A m \in Managers : Steady(m) => \A id \in conns[m] : id \in conns[Index(id)]
================================================================================
