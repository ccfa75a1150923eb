------------------------------- MODULE Subject -------------------------------
(***************************************************************************)
(* The process that mongo_lock.py inspects: threads taking and releasing   *)
(* std::mutex objects (glibc pthread mutexes) and MongoDB lock-manager     *)
(* resources.  This code is not part of the repository; it is modelled     *)
(* from the spec's account of the facts introspection reads from it:       *)
(*   - a thread inside std::mutex::lock() and the mutex's __owner field    *)
(*     (an LWP id, 0 when unset);                                          *)
(*   - a thread inside a mongo::LockerImpl<> method, the resource it is    *)
(*     working on and the grantedList of that resource.                    *)
(* The steps are fine enough to reach every state a stopped process can    *)
(* be in: glibc takes the lock word before it stores __owner and clears    *)
(* __owner before it releases the word, and a thread stays inside lock()   *)
(* for a moment after it has acquired.                                     *)
(***************************************************************************)
EXTENDS Naturals, Sequences, SequencesExt

CONSTANTS
    Threads,    \* LWP ids of the threads of the process
    Mutexes,    \* addresses of std::mutex objects
    Resources,  \* MongoDB lock heads (resource ids)
    Modes,      \* lock modes, a subset of {"S", "X"}
    NoThread    \* the lock word of a free mutex

VARIABLES
    mholder,    \* mholder[m]: the thread holding m's lock word, or NoThread
    mowner,     \* mowner[m]: m's __owner field, a thread or 0
    granted,    \* granted[r]: r's grantedList, <<[thread, mode], ...>>
    tpc         \* tpc[t]: where thread t is (see Where below)

svars == <<mholder, mowner, granted, tpc>>

\* Where a thread can be: running elsewhere, inside std::mutex::lock()
\* (waiting for the word, holding it before __owner is set, or holding it
\* with __owner set and not yet returned), inside pthread_mutex_unlock
\* after clearing __owner, or inside a LockerImpl<> method (waiting for a
\* grant, granted and returning, or releasing).
Running == [at |-> "run"]
Where ==
    {Running}
    \cup [at : {"mlock"}, m : Mutexes, step : {"wait", "acq", "own"}]
    \cup [at : {"munlock"}, m : Mutexes]
    \cup [at : {"locker"}, r : Resources, mode : Modes,
          step : {"wait", "ret", "unlock"}]

Holders(r) == {granted[r][i].thread : i \in 1..Len(granted[r])}
ModeOf(r, t) == granted[r][SelectInSeq(granted[r], LAMBDA q : q.thread = t)].mode

\* A request of t for r in mode md conflicts with no grant of another thread.
Compatible(r, md, t) ==
    \A u \in Holders(r) \ {t} : md = "S" /\ ModeOf(r, u) = "S"

SInit ==
    /\ mholder = [m \in Mutexes |-> NoThread]
    /\ mowner  = [m \in Mutexes |-> 0]
    /\ granted = [r \in Resources |-> <<>>]
    /\ tpc     = [t \in Threads |-> Running]

Go(t, w) == tpc' = [tpc EXCEPT ![t] = w]

MutexLock(t, m) ==
    /\ tpc[t] = Running /\ mholder[m] # t
    /\ Go(t, [at |-> "mlock", m |-> m, step |-> "wait"])
    /\ UNCHANGED <<mholder, mowner, granted>>

MutexAcquire(t, m) ==
    /\ tpc[t] = [at |-> "mlock", m |-> m, step |-> "wait"]
    /\ mholder[m] = NoThread
    /\ mholder' = [mholder EXCEPT ![m] = t]
    /\ Go(t, [at |-> "mlock", m |-> m, step |-> "acq"])
    /\ UNCHANGED <<mowner, granted>>

MutexSetOwner(t, m) ==
    /\ tpc[t] = [at |-> "mlock", m |-> m, step |-> "acq"]
    /\ mowner' = [mowner EXCEPT ![m] = t]
    /\ Go(t, [at |-> "mlock", m |-> m, step |-> "own"])
    /\ UNCHANGED <<mholder, granted>>

MutexReturn(t, m) ==
    /\ tpc[t] = [at |-> "mlock", m |-> m, step |-> "own"]
    /\ Go(t, Running)
    /\ UNCHANGED <<mholder, mowner, granted>>

MutexUnlock(t, m) ==
    /\ tpc[t] = Running /\ mholder[m] = t
    /\ mowner' = [mowner EXCEPT ![m] = 0]
    /\ Go(t, [at |-> "munlock", m |-> m])
    /\ UNCHANGED <<mholder, granted>>

MutexRelease(t, m) ==
    /\ tpc[t] = [at |-> "munlock", m |-> m]
    /\ mholder' = [mholder EXCEPT ![m] = NoThread]
    /\ Go(t, Running)
    /\ UNCHANGED <<mowner, granted>>

Grant(r, t, md) == granted' = [granted EXCEPT ![r] = Append(@, [thread |-> t, mode |-> md])]

\* LockerImpl::lock: granted at once when compatible, else it waits.
LockBegin(t, r, md) ==
    /\ tpc[t] = Running /\ t \notin Holders(r)
    /\ IF Compatible(r, md, t)
         THEN Grant(r, t, md) /\ Go(t, [at |-> "locker", r |-> r, mode |-> md, step |-> "ret"])
         ELSE UNCHANGED granted /\ Go(t, [at |-> "locker", r |-> r, mode |-> md, step |-> "wait"])
    /\ UNCHANGED <<mholder, mowner>>

LockGranted(t, r, md) ==
    /\ tpc[t] = [at |-> "locker", r |-> r, mode |-> md, step |-> "wait"]
    /\ Compatible(r, md, t)
    /\ Grant(r, t, md)
    /\ Go(t, [at |-> "locker", r |-> r, mode |-> md, step |-> "ret"])
    /\ UNCHANGED <<mholder, mowner>>

LockReturn(t, r, md) ==
    /\ tpc[t] = [at |-> "locker", r |-> r, mode |-> md, step |-> "ret"]
    /\ Go(t, Running)
    /\ UNCHANGED <<mholder, mowner, granted>>

UnlockBegin(t, r) ==
    /\ tpc[t] = Running /\ t \in Holders(r)
    /\ Go(t, [at |-> "locker", r |-> r, mode |-> ModeOf(r, t), step |-> "unlock"])
    /\ UNCHANGED <<mholder, mowner, granted>>

UnlockEnd(t, r, md) ==
    /\ tpc[t] = [at |-> "locker", r |-> r, mode |-> md, step |-> "unlock"]
    /\ granted' = [granted EXCEPT ![r] = SelectSeq(@, LAMBDA q : q.thread # t)]
    /\ Go(t, Running)
    /\ UNCHANGED <<mholder, mowner>>

SNext ==
    \E t \in Threads :
        \/ \E m \in Mutexes :
              \/ MutexLock(t, m) \/ MutexAcquire(t, m) \/ MutexSetOwner(t, m)
              \/ MutexReturn(t, m) \/ MutexUnlock(t, m) \/ MutexRelease(t, m)
        \/ \E r \in Resources :
              \/ UnlockBegin(t, r)
              \/ \E md \in Modes :
                    \/ LockBegin(t, r, md) \/ LockGranted(t, r, md)
                    \/ LockReturn(t, r, md) \/ UnlockEnd(t, r, md)

-----------------------------------------------------------------------------
(* The ground truth the detector is meant to report. *)

\* The threads t is blocked on: the holder of the word of the mutex it waits
\* for, or every other holder of a grant its request conflicts with.
BlockedOn(t) ==
    CASE tpc[t].at = "mlock" /\ tpc[t].step = "wait" ->
            {mholder[tpc[t].m]} \cap Threads
      [] tpc[t].at = "locker" /\ tpc[t].step = "wait" ->
            {u \in Holders(tpc[t].r) \ {t} :
                ~(tpc[t].mode = "S" /\ ModeOf(tpc[t].r, u) = "S")}
      [] OTHER -> {}

\* The threads on a cycle of the blocked-on relation: none of them can
\* ever move again.
RECURSIVE BlockedClosure(_, _)
BlockedClosure(frontier, seen) ==
    LET succ == UNION {BlockedOn(t) : t \in frontier} \ seen
    IN  IF succ = {} THEN seen ELSE BlockedClosure(succ, seen \cup succ)

Deadlocked == {t \in Threads : t \in BlockedClosure({t}, {})}
=============================================================================
