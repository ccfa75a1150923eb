---------------------------- MODULE WaitsForGraph ----------------------------
(***************************************************************************)
(* The mongodb-waitsfor-graph and mongodb-show-locks commands of          *)
(* mongo_lock.py (mongodb_waitsfor_graph, mongodb_show_locks) run against  *)
(* a stopped process (module Subject).  While no command runs the process  *)
(* moves; a command sees it frozen and runs                                *)
(*   StartPass   get_threads_info: the LWP -> Thread dict, and a fresh     *)
(*               Graph() or, for mongodb-show-locks, graph=None,           *)
(*   LocksFor    one iteration of get_locks' loop: find_mutex_holder and   *)
(*               find_lock_manager_holders for one thread,                 *)
(*   Finish      remove_nodes_without_edge, is_empty, detect_cycle and     *)
(*               to_graph (FinishShow: mongodb_show_locks returns),        *)
(*   Resume      the user lets the process run and may invoke again.       *)
(* Exceptions: gdb.error is caught per thread by get_locks (the thread is  *)
(* skipped); any other exception (KeyError, AttributeError) escapes the    *)
(* command and ends the pass with no output ("crash").                     *)
(***************************************************************************)
EXTENDS Subject, GraphOps, FiniteSets

CONSTANTS
    ThreadOrder,     \* gdb.selected_inferior().threads(), in order
    InfoMayFail,     \* get_threads_info may leave a thread out
    GdbErrorPoints   \* where a gdb.error may hit one thread's inspection:
                     \* a subset of {"mutex", "locker"}

ASSUME ToSet(ThreadOrder) = Threads /\ Len(ThreadOrder) = Cardinality(Threads)
ASSUME InfoMayFail \in BOOLEAN /\ GdbErrorPoints \subseteq {"mutex", "locker"}

VARIABLES
    pc,           \* "idle", "locks" (in get_locks) or "done"
    thread_dict,  \* the LWP ids get_threads_info put in thread_dict
    todo,         \* the threads get_locks has still to visit
    wgraph,       \* the Graph being built
    lost,         \* threads whose inspection was skipped (history)
    outcome       \* what the pass printed

pvars == <<pc, thread_dict, todo, wgraph, lost, outcome>>
vars == <<svars, pvars>>

None == [kind |-> "none"]

\* The graph argument of get_locks when mongodb-show-locks calls it.
NoGraph == [order |-> <<>>, entry |-> <<>>, none |-> TRUE]

\* `if graph: graph.add_edge(from, to)`.
AddEdgeIfGraph(g, from, to) == IF g = NoGraph THEN g ELSE AddEdge(g, from, to)

(* Thread(thread_id, lwpid, name) and Lock(addr, resource).  A thread's   *)
(* key prints its thread_id (a pthread_t, an address); a placeholder       *)
(* Thread(lwpid, lwpid, "[unknown]") prints a small LWP number instead.    *)
(* The two never print alike, so the ids are tagged apart.                 *)
ThreadId(t) == <<"pthread", t>>
ThreadNode(t) ==
    [key |-> <<"Thread", ThreadId(t)>>,
     str |-> <<"Thread (LWP)", ThreadId(t), t>>]
PlaceholderNode(lwp) ==
    [key |-> <<"Thread", <<"lwp", lwp>>>>,
     str |-> <<"Thread (LWP)", <<"lwp", lwp>>, lwp>>]
LockNode(addr, resource) ==
    [key |-> <<"Lock", addr>>, str |-> <<"Lock (resource)", addr, resource>>]

\* find_thread: the Thread of thread_dict with that thread id, or None.
FindThread(holder) == IF holder \in thread_dict THEN ThreadNode(holder) ELSE None

PInit ==
    /\ pc = "idle"
    /\ thread_dict = {}
    /\ todo = <<>>
    /\ wgraph = EmptyGraph
    /\ lost = {}
    /\ outcome = None

Init == SInit /\ PInit

\* The process runs between passes.
ProcessStep == pc = "idle" /\ SNext /\ UNCHANGED pvars

\* Mutant: thread_dict keyed by gdb's thread number, not by the LWP id.
StartPassByThreadNum(graph) ==
    /\ pc = "idle"
    /\ \E d \in IF InfoMayFail THEN SUBSET Threads ELSE {Threads} :
          /\ thread_dict' = {<<"num", t>> : t \in d}
          /\ lost' = Threads \ d
    /\ todo' = ThreadOrder
    /\ wgraph' = graph
    /\ outcome' = None
    /\ pc' = "locks"
    /\ UNCHANGED svars

\* get_threads_info, then get_locks is called with `graph`: a fresh Graph()
\* (mongodb_waitsfor_graph) or None (mongodb_show_locks).  A thread whose
\* thread id cannot be read is left out of the dict.
StartPass(graph) ==
    /\ pc = "idle"
    /\ \E d \in IF InfoMayFail THEN SUBSET Threads ELSE {Threads} :
          /\ thread_dict' = d
          /\ lost' = Threads \ d
    /\ todo' = ThreadOrder
    /\ wgraph' = graph
    /\ outcome' = None
    /\ pc' = "locks"
    /\ UNCHANGED svars

(* Each inspection step maps a graph to a result [crash, g]: crash is TRUE *)
(* when the step raised an exception other than gdb.error.                 *)
Ok(g) == [crash |-> FALSE, g |-> g]
Crash == [crash |-> TRUE, g |-> EmptyGraph]

\* Mutant: the holder is always the LWP placeholder, even when known.
FindMutexHolderAlwaysPlaceholder(g, t) ==
    IF tpc[t].at # "mlock" THEN Ok(g)
    ELSE IF t \notin thread_dict THEN Crash
    ELSE Ok(AddEdgeIfGraph(AddEdgeIfGraph(g, ThreadNode(t), LockNode(tpc[t].m, "Mutex")),
                    LockNode(tpc[t].m, "Mutex"), PlaceholderNode(mowner[tpc[t].m])))

\* Mutant: no placeholder, thread_dict[owner] raises KeyError when absent.
FindMutexHolderNoPlaceholder(g, t) ==
    IF tpc[t].at # "mlock" THEN Ok(g)
    ELSE IF t \notin thread_dict \/ mowner[tpc[t].m] \notin thread_dict THEN Crash
    ELSE Ok(AddEdgeIfGraph(AddEdgeIfGraph(g, ThreadNode(t), LockNode(tpc[t].m, "Mutex")),
                    LockNode(tpc[t].m, "Mutex"), ThreadNode(mowner[tpc[t].m])))

(* find_mutex_holder for thread t: no-op unless t is inside                 *)
(* std::mutex::lock().  The holder is read from __owner; when it is not in *)
(* thread_dict a placeholder stands in; thread_dict[waiter] raises KeyError *)
(* when the waiter itself is missing.                                      *)
FindMutexHolder(g, t) ==
    IF tpc[t].at # "mlock" THEN Ok(g)
    ELSE LET m      == tpc[t].m
             owner  == mowner[m]
             holder == IF owner \in thread_dict THEN ThreadNode(owner)
                       ELSE PlaceholderNode(owner)
         IN  IF t \notin thread_dict THEN Crash
             ELSE Ok(AddEdgeIfGraph(AddEdgeIfGraph(g, ThreadNode(t), LockNode(m, "Mutex")),
                             LockNode(m, "Mutex"), holder))

\* Mutant: the walk stops after the first request of the grantedList.
AddGrantedEdgesFirstOnly(g, waiter, lock, reqs) ==
    IF reqs = <<>> THEN Ok(g)
    ELSE IF FindThread(Head(reqs).thread) = None /\ g # NoGraph THEN Crash
    ELSE Ok(AddEdgeIfGraph(AddEdgeIfGraph(g, waiter, lock), lock,
                           FindThread(Head(reqs).thread)))

(* find_lock_manager_holders for thread t: no-op unless t is inside a      *)
(* LockerImpl<> method; then for each request of r's grantedList, in       *)
(* order, edges waiter -> lock -> holder.  find_thread returns None for a  *)
(* holder missing from thread_dict: with a graph, None.key() raises        *)
(* AttributeError; without one the line printed names None.                *)
RECURSIVE AddGrantedEdges(_, _, _, _)
AddGrantedEdges(g, waiter, lock, reqs) ==
    IF reqs = <<>> THEN Ok(g)
    ELSE IF FindThread(Head(reqs).thread) = None /\ g # NoGraph THEN Crash
    ELSE AddGrantedEdges(AddEdgeIfGraph(AddEdgeIfGraph(g, waiter, lock), lock,
                                        FindThread(Head(reqs).thread)),
                         waiter, lock, Tail(reqs))

FindLockManagerHolders(g, t) ==
    IF tpc[t].at # "locker" THEN Ok(g)
    ELSE IF t \notin thread_dict THEN Crash
    ELSE AddGrantedEdges(g, ThreadNode(t), LockNode(tpc[t].r, "MongoDB lock"),
                         granted[tpc[t].r])

\* The inspection of thread t by one iteration of get_locks, with a
\* gdb.error at `err` cutting it short.
Inspect(t, err) ==
    LET r1 == IF err = "mutex" THEN Ok(wgraph) ELSE FindMutexHolder(wgraph, t)
    IN  IF err # "none" \/ r1.crash THEN r1 ELSE FindLockManagerHolders(r1.g, t)

\* One iteration of get_locks: a gdb.error skips the rest of this thread;
\* any other exception ends the command.
LocksFor ==
    /\ pc = "locks" /\ todo # <<>>
    /\ LET t == Head(todo) IN
       \E err \in {"none"} \cup GdbErrorPoints :
          IF Inspect(t, err).crash
          THEN /\ outcome' = [kind |-> "crash"]
               /\ pc' = "done"
               /\ UNCHANGED <<wgraph, todo, lost>>
          ELSE /\ wgraph' = Inspect(t, err).g
               /\ todo' = Tail(todo)
               /\ lost' = IF err = "none" THEN lost ELSE lost \cup {t}
               /\ UNCHANGED <<pc, outcome>>
    /\ UNCHANGED <<svars, thread_dict>>

\* mongodb_show_locks returns once get_locks has printed its lines.
FinishShow ==
    /\ pc = "locks" /\ todo = <<>> /\ wgraph = NoGraph
    /\ outcome' = [kind |-> "shown"]
    /\ pc' = "done"
    /\ UNCHANGED <<svars, thread_dict, todo, wgraph, lost>>

\* The rest of mongodb_waitsfor_graph after get_locks.
Finish ==
    /\ pc = "locks" /\ todo = <<>> /\ wgraph # NoGraph
    /\ LET g == RemoveNodesWithoutEdge(wgraph)
           cycle_nodes == DetectCycle(g)
       IN  /\ wgraph' = g
           /\ outcome' =
                IF IsEmpty(g) THEN [kind |-> "empty"]
                ELSE [kind    |-> "report",
                      cycle   |-> cycle_nodes,
                      graph   |-> ToGraph(g, cycle_nodes,
                                          IF cycle_nodes # <<>> THEN "cycle"
                                          ELSE "no cycle")]
    /\ pc' = "done"
    /\ UNCHANGED <<svars, thread_dict, todo, lost>>

\* The command returns; the user may continue the process and run it again.
Resume ==
    /\ pc = "done"
    /\ pc' = "idle"
    /\ UNCHANGED <<svars, thread_dict, todo, wgraph, lost, outcome>>

Next ==
    \/ ProcessStep
    \/ StartPass(EmptyGraph) \/ StartPass(NoGraph)
    \/ LocksFor \/ Finish \/ FinishShow \/ Resume

Spec == Init /\ [][Next]_vars

-----------------------------------------------------------------------------
Outcomes == {"none", "empty", "report", "crash", "shown"}

TypeOK ==
    /\ mholder \in [Mutexes -> Threads \cup {NoThread}]
    /\ mowner \in [Mutexes -> Threads \cup {0}]
    /\ \A r \in Resources :
          /\ ToSet(granted[r]) \subseteq [thread : Threads, mode : Modes]
          /\ Len(granted[r]) = Cardinality(Holders(r))
    /\ tpc \in [Threads -> Where]
    /\ pc \in {"idle", "locks", "done"}
    /\ thread_dict \subseteq Threads /\ lost \subseteq Threads
    /\ ToSet(todo) \subseteq Threads
    /\ outcome.kind \in Outcomes

\* The threads named on the cycle a report prints.
CycleThreads ==
    {outcome.cycle[i][3] :
        i \in {j \in DOMAIN outcome.cycle : outcome.cycle[j][1] = "Thread (LWP)"}}

Reported == pc = "done" /\ outcome.kind = "report"

\* When get_threads_info found every thread and no gdb.error cut an
\* inspection short, a mongodb-waitsfor-graph pass over a process in which
\* some threads are deadlocked on mutexes or MongoDB locks reports a cycle.
DeadlockReported ==
    pc = "done" /\ wgraph # NoGraph /\ lost = {} /\ Deadlocked # {} =>
        Reported /\ outcome.cycle # <<>>

\* When get_threads_info found every thread, neither command ends in an
\* exception, whatever gdb.errors hit single threads and whatever instant
\* the process was stopped at (a mutex's __owner may then be 0).
NoCrashWhenAllEnumerated ==
    pc = "done" /\ thread_dict = Threads => outcome.kind # "crash"

\* Spec, glossary: a cycle in the waits-for graph is evidence of a deadlock
\* among the threads on it.  Every thread on a reported cycle is deadlocked
\* in the process that was inspected.
ReportedCycleIsDeadlock ==
    Reported /\ outcome.cycle # <<>> => CycleThreads \subseteq Deadlocked

\* Spec 7: every pass ends with a report, an empty-graph notice or an
\* explicit abort notice, never with an exception that loses the output.
PassNeverCrashes ==
    pc = "done" => outcome.kind # "crash"

-----------------------------------------------------------------------------
(***************************************************************************)
(* Refinement: every pass of either command is a run of the abstract       *)
(* command of module WaitsForReport.  Graph keys become the abstract       *)
(* vertices, a report's graph its set of edges and the printed cycle of    *)
(* str() values the keys they were printed from.                           *)
(***************************************************************************)
AbsKey(k) ==
    CASE k[1] = "Lock" /\ k[2] \in Mutexes -> <<"mutex", k[2]>>
      [] k[1] = "Lock"                     -> <<"resource", k[2]>>
      [] k[2][1] = "pthread"               -> <<"thread", k[2][2]>>
      [] OTHER                             -> <<"lwp", k[2][2]>>

KeyOfStr(s) == CHOOSE k \in DOMAIN wgraph.entry : wgraph.entry[k].node.str = s

AbsOutcome ==
    IF outcome.kind = "report"
    THEN [kind  |-> "report",
          edges |-> {<<AbsKey(e[1]), AbsKey(e[2])>> : e \in EdgeSet(wgraph)},
          cycle |-> [i \in DOMAIN outcome.cycle |-> AbsKey(KeyOfStr(outcome.cycle[i]))]]
    ELSE [kind |-> outcome.kind, edges |-> {}, cycle |-> <<>>]

AR == INSTANCE WaitsForReport
        WITH Commands   <- {"waitsfor", "show"},
             apc        <- IF pc = "locks" THEN "busy" ELSE pc,
             acmd       <- IF wgraph = NoGraph THEN "show" ELSE "waitsfor",
             enumerated <- thread_dict,
             skipped    <- IF pc = "locks" THEN Threads \ thread_dict ELSE lost,
             aoutcome   <- AbsOutcome

\* Whatever the process was doing when it stopped, a command ends with what
\* its abstract counterpart allows: a crash only when get_threads_info
\* missed a thread; for mongodb-waitsfor-graph, a graph holding every
\* waits-for fact of each thread that get_locks inspected without a
\* gdb.error and no edge that is not such a fact, with a cycle printed
\* exactly when those edges form one.
\* (The safety part of AR!ASpec.)
DetectorRefined == AR!ASafe


=============================================================================
