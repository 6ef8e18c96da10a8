---------------------------- MODULE SharedMutex -----------------------------
(***************************************************************************)
(* boost::shared_mutex as Aside::accessMutex and SessionManager::mutex use *)
(* it: any number of ReadLocks or one WriteLock, released by the           *)
(* destructors.  A writer that has to wait keeps new readers out until the *)
(* mutex is free again; which thread is then woken first is left open.     *)
(***************************************************************************)
VARIABLES
  readers,   \* threads that hold a ReadLock
  writers,   \* threads that hold a WriteLock
  blocked    \* a waiting writer keeps new readers out

mutexVars == <<readers, writers, blocked>>

HeldAmong(T) == readers \subseteq T /\ writers \subseteq T /\ blocked \in BOOLEAN

MutexInit == readers = {} /\ writers = {} /\ blocked = FALSE

Free == readers = {} /\ writers = {}

LockShared(t) ==
  /\ writers = {} /\ ~ blocked
  /\ readers' = readers \cup {t}
  /\ UNCHANGED <<writers, blocked>>

\* The last reader to leave lets everybody try again.
UnlockShared(t) ==
  /\ readers' = readers \ {t}
  /\ blocked' = (blocked /\ readers \ {t} # {})
  /\ UNCHANGED writers

Lock(t) ==
  /\ Free
  /\ writers' = {t}
  /\ UNCHANGED <<readers, blocked>>

\* A thread in lock() finds the mutex held and goes to sleep.
AwaitLock ==
  /\ ~ Free /\ ~ blocked
  /\ blocked' = TRUE
  /\ UNCHANGED <<readers, writers>>

Unlock(t) ==
  /\ writers' = writers \ {t}
  /\ blocked' = FALSE
  /\ UNCHANGED readers

\* At most one writer, no reader beside it, and nobody kept out of a free mutex.
Exclusion ==
  /\ \A t, u \in writers : t = u
  /\ writers # {} => readers = {}
  /\ Free => ~ blocked
=============================================================================
