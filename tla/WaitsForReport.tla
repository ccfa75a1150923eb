---------------------------- MODULE WaitsForReport ----------------------------
(***************************************************************************)
(* What one run of mongodb-waitsfor-graph or mongodb-show-locks promises,  *)
(* stated without the Graph class: while the process (module Subject) is   *)
(* stopped, the command enumerates some threads and then ends, at once,    *)
(* with one outcome:                                                       *)
(*   - an exception ("crash"), only if some thread was not enumerated;     *)
(*   - for mongodb-show-locks, the printed lines ("shown");                *)
(*   - for mongodb-waitsfor-graph, the waits-for facts of the stopped      *)
(*     process: every fact of each thread inspected without a gdb.error    *)
(*     and no fact that is not one, drawn as a graph with a cycle named    *)
(*     exactly when the facts form one, or "empty" when there are none.    *)
(* A fact is what introspection reads from a thread's frames: a thread in  *)
(* std::mutex::lock() waits on the mutex and the mutex is held by its      *)
(* __owner; a thread in a LockerImpl<> method waits on the resource, which *)
(* is held by every thread of its grantedList.                             *)
(***************************************************************************)
EXTENDS Subject, FiniteSets

CONSTANT Commands   \* {"waitsfor", "show"}

VARIABLES
    apc,         \* "idle", "busy" (a command runs) or "done"
    acmd,        \* the command that runs or ran last
    enumerated,  \* the threads the command found
    skipped,     \* the threads whose inspection did not complete
    aoutcome     \* [kind, edges, cycle]

avars == <<svars, apc, acmd, enumerated, skipped, aoutcome>>

Gr == INSTANCE Graphs

\* Vertices of the waits-for relation.
ThreadV(t) == <<"thread", t>>
LwpV(n) == <<"lwp", n>>
MutexV(m) == <<"mutex", m>>
ResourceV(r) == <<"resource", r>>

\* The holder of mutex m as the command names it: the enumerated thread
\* whose LWP is in __owner, or that LWP alone.
MutexHolderV(m, D) ==
    IF mowner[m] \in D THEN ThreadV(mowner[m]) ELSE LwpV(mowner[m])

\* The facts thread t contributes.
Facts(t, D) ==
    LET w == tpc[t] IN
    CASE w.at = "mlock" ->
            {<<ThreadV(t), MutexV(w.m)>>, <<MutexV(w.m), MutexHolderV(w.m, D)>>}
      [] w.at = "locker" /\ Holders(w.r) # {} ->
            {<<ThreadV(t), ResourceV(w.r)>>}
              \cup {<<ResourceV(w.r), ThreadV(h)>> : h \in Holders(w.r)}
      [] OTHER -> {}

AsGraph(E) == [node |-> {e[1] : e \in E} \cup {e[2] : e \in E}, edge |-> E]

\* c names, each vertex once, a cycle of the edges E.
IsCycleOf(E, c) ==
    /\ c # <<>>
    /\ \A i, j \in DOMAIN c : c[i] = c[j] => i = j
    /\ \A i \in DOMAIN c : <<c[i], c[(i % Len(c)) + 1]>> \in E

NoOutcome == [kind |-> "none", edges |-> {}, cycle |-> <<>>]

\* The outcomes o a command c may end with, having enumerated D and
\* inspected every thread not in K to the end.
Allowed(o, c, D, K) ==
    LET Lo == UNION {Facts(t, D) : t \in Threads \ K}
        Hi == UNION {Facts(t, D) : t \in Threads}
    IN  \/ o.kind = "crash" /\ D # Threads
        \/ c = "show" /\ o = [NoOutcome EXCEPT !.kind = "shown"]
        \/ c = "waitsfor" /\ o = [NoOutcome EXCEPT !.kind = "empty"] /\ Lo = {}
        \/ /\ c = "waitsfor" /\ o.kind = "report"
           /\ o.edges # {} /\ Lo \subseteq o.edges /\ o.edges \subseteq Hi
           /\ IF Gr!HasCycle(AsGraph(o.edges)) THEN IsCycleOf(o.edges, o.cycle)
              ELSE o.cycle = <<>>

AInit ==
    /\ SInit
    /\ apc = "idle" /\ acmd = "waitsfor"
    /\ enumerated = {} /\ skipped = {}
    /\ aoutcome = NoOutcome

AProcess ==
    /\ apc = "idle" /\ SNext
    /\ UNCHANGED <<apc, acmd, enumerated, skipped, aoutcome>>

Begin ==
    /\ apc = "idle"
    /\ \E c \in Commands, D \in SUBSET Threads :
          /\ acmd' = c /\ enumerated' = D /\ skipped' = Threads \ D
    /\ apc' = "busy"
    /\ aoutcome' = NoOutcome
    /\ UNCHANGED svars

End ==
    /\ apc = "busy"
    /\ \E K \in SUBSET Threads :
          /\ skipped \subseteq K /\ skipped' = K
          /\ Allowed(aoutcome', acmd, enumerated, K)
    /\ apc' = "done"
    /\ UNCHANGED <<svars, acmd, enumerated>>

AResume ==
    /\ apc = "done" /\ apc' = "idle"
    /\ UNCHANGED <<svars, acmd, enumerated, skipped, aoutcome>>

ANext == AProcess \/ Begin \/ End \/ AResume

ASafe == AInit /\ [][ANext]_avars

\* A command, once begun, ends.
ASpec == ASafe /\ WF_avars(End)
=============================================================================
