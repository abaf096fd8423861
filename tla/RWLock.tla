------------------------------- MODULE RWLock -------------------------------
(***************************************************************************)
(* One reader-writer lock of project2 (class rwlock) and the threads that  *)
(* use it.  Every call is made, and returns, with the global mutex gM      *)
(* held; a call that has to wait releases gM, yields and takes it again    *)
(* before it looks at the list once more.  A thread holds no other record  *)
(* lock here; the module Database adds those.                              *)
(***************************************************************************)
EXTENDS WaitingList, GlobalMutex, TLC

VARIABLES waiting,  \* the list of class rwlock
          isReader  \* the mode of each thread's current request

rwVars == <<waiting, gM, pc, isReader>>

(***************************************************************************)
(* "outside"  the thread has no element in the list                        *)
(* "call"     wants gM, to request the lock     "entry"  has it            *)
(* "spin"     yielded, wants gM back            "check"  has it            *)
(* "inside"   the lock is granted, gM released                             *)
(* "exit"     wants gM, to release the lock     "leave"  has it            *)
(***************************************************************************)
RWStages == {"outside", "call", "entry", "spin", "check", "inside", "exit", "leave"}
RWOwnsMutex == {"entry", "check", "leave"}
Granted == {"inside", "exit", "leave"}

RWInit ==
  /\ waiting = <<>>
  /\ gM = Nobody
  /\ pc = [t \in Threads |-> "outside"]
  /\ isReader = [t \in Threads |-> FALSE]

\* A thread decides to read or to write the record.
Choose(t) ==
  /\ pc[t] = "outside"
  /\ \E r \in BOOLEAN : isReader' = [isReader EXCEPT ![t] = r]
  /\ Goto(t, "call")
  /\ UNCHANGED <<waiting, gM>>

\* globalMutex->lock() before a call, and gM->lock() in the waiting loops.
RWLockGlobal(t) ==
  /\ gM = Nobody
  /\ \/ pc[t] = "call" /\ Goto(t, "entry")
     \/ pc[t] = "spin" /\ Goto(t, "check")
     \/ pc[t] = "exit" /\ Goto(t, "leave")
  /\ gM' = t
  /\ UNCHANGED <<waiting, isReader>>

\* Append the request of t; wait for it unless it is granted at once.
RWRequest(t, granted) ==
  /\ waiting' = Enter(waiting, t, isReader[t], granted)
  /\ Goto(t, IF granted THEN "inside" ELSE "spin")
  /\ gM' = Nobody
  /\ UNCHANGED isReader

\* A reader granted whatever stands before it (mutant of readLock).
readLockAnyTail(t) ==
  /\ pc[t] = "entry" /\ isReader[t]
  /\ RWRequest(t, waiting = <<>> \/ Last(waiting).isRead)

readLock(t) ==
  /\ pc[t] = "entry" /\ isReader[t]
  /\ RWRequest(t, Shareable(waiting))

writeLock(t) ==
  /\ pc[t] = "entry" /\ ~isReader[t]
  /\ RWRequest(t, Exclusive(waiting))

\* One turn of a waiting loop, from gM->lock() to the break or to gM->unlock().
Turn(t, mayGo) ==
  /\ waiting' = IF mayGo THEN Grant(waiting, t) ELSE waiting
  /\ Goto(t, IF mayGo THEN "inside" ELSE "spin")
  /\ gM' = Nobody
  /\ UNCHANGED isReader

\* A waiting reader that only looks for the head of the list (mutant).
readSpinHeadOnly(t) ==
  /\ pc[t] = "check" /\ isReader[t]
  /\ Turn(t, PositionOf(waiting, t) = 1)

\* A waiting reader that looks at its neighbour's kind only (mutant).
readSpinAnyReader(t) ==
  /\ pc[t] = "check" /\ isReader[t]
  /\ LET n == PositionOf(waiting, t)
     IN  Turn(t, n = 1 \/ waiting[n - 1].isRead)

readSpin(t) ==
  /\ pc[t] = "check" /\ isReader[t]
  /\ Turn(t, ReaderMayGo(waiting, t))

writeSpin(t) ==
  /\ pc[t] = "check" /\ ~isReader[t]
  /\ Turn(t, WriterMayGo(waiting, t))

\* The thread has finished with the record and wants to release the lock.
Finish(t) ==
  /\ pc[t] = "inside"
  /\ Goto(t, "exit")
  /\ UNCHANGED <<waiting, gM, isReader>>

\* readUnlock and writeUnlock, which are the same function.
unlock(t) ==
  /\ pc[t] = "leave"
  /\ waiting' = Leave(waiting, t)
  /\ Goto(t, "outside")
  /\ gM' = Nobody
  /\ isReader' = [isReader EXCEPT ![t] = FALSE]

RWStep(t) ==
  readLock(t) \/ writeLock(t) \/ readSpin(t) \/ writeSpin(t) \/ unlock(t)

RWNext == \E t \in Threads : Choose(t) \/ RWLockGlobal(t) \/ RWStep(t) \/ Finish(t)

RWSpec == RWInit /\ [][RWNext]_rwVars

(***************************************************************************)
(* Fairness.  A thread that owns gM runs on to the unlock.  gM is a        *)
(* std::mutex taken and released again and again by the threads that spin, *)
(* so a thread that wants it finds it free over and over without ever      *)
(* keeping it free: strong fairness says that the yield() of the others    *)
(* gives it a turn.                                                        *)
(***************************************************************************)
Scheduling == \A t \in Threads : WF_rwVars(RWStep(t)) /\ SF_rwVars(RWLockGlobal(t))

\* The holders of the lock may keep it for ever.
SpinSpec == RWSpec /\ Scheduling

\* The holders of the lock give it back.
HoldersLeave == \A t \in Threads : WF_rwVars(Finish(t))

-----------------------------------------------------------------------------
RWTypeOK ==
  /\ waiting \in Seq(infoLock(Threads))
  /\ gM \in Threads \cup {Nobody}
  /\ pc \in [Threads -> RWStages]
  /\ isReader \in [Threads -> BOOLEAN]

\* The list describes the threads: one element for every thread between its
\* request and its release, with its mode, marked when it has been granted; and
\* the marked elements are at the front, one writer or readers alone
\* (rwlock.cpp:7-30,35-48,54-57).
ListDescribesThreads ==
  /\ OneEach(waiting)
  /\ GrantedFirst(waiting)
  /\ \A t \in Threads : t \in Tids(waiting) <=> pc[t] \in {"spin", "check"} \cup Granted
  /\ \A n \in DOMAIN waiting :
       /\ waiting[n].isRead <=> isReader[waiting[n].tid]
       /\ waiting[n].isLocked <=> pc[waiting[n].tid] \in Granted

\* The lock itself (rwlock.cpp:6-50): a thread that was granted the lock for
\* writing is alone, whatever mix of requests came and went before.
MutualExclusion ==
  \A t, u \in Threads :
    t # u /\ pc[t] \in Granted /\ pc[u] \in Granted => isReader[t] /\ isReader[u]

\* A step that lets t in while u is before it.
GrantsInTurn ==
  \A t, u \in Threads :
    /\ t # u
    /\ pc[t] \notin Granted /\ pc'[t] \in Granted
    /\ u \in Tids(waiting)
    /\ t \in Tids(waiting) => PositionOf(waiting, u) < PositionOf(waiting, t)
    => isReader[t] /\ isReader[u] /\ pc[u] \in Granted

\* Nobody is let in ahead of an earlier request, unless both are readers and
\* the earlier one is in as well: a writer is not overtaken by the readers that
\* come after it (rwlock.cpp:7,20,42).
FirstComeFirstServed == [][GrantsInTurn]_rwVars

\* Every request is granted in the end when holders give the lock back: no
\* request is lost in the list and no writer starves (rwlock.cpp:14-29,42-48).
EveryRequestServed ==
  HoldersLeave => \A t \in Threads : (pc[t] = "spin") ~> (pc[t] = "inside")

\* Readers behind readers are let in although nobody leaves: each wakes up when
\* the element before it has been granted (rwlock.cpp:20-24).
ReadersJoin ==
  \A t \in Threads :
    (/\ pc[t] = "spin"
     /\ \A m \in 1 .. PositionOf(waiting, t) : waiting[m].isRead)
      ~> (pc[t] = "inside")

\* The inductive invariant: the list stays a list of requests only because it describes
\* the threads, each of which finds its own element when it looks for it (rwlock.cpp:6-65).
RWInv == RWTypeOK /\ ListDescribesThreads
=============================================================================
