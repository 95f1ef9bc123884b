---------------------------- MODULE SockpushProofs ---------------------------
(***************************************************************************)
(* Theorems about Sockpush.tla, for every number of lines and every        *)
(* backoff: IndInv is inductive, and type correctness, the safety          *)
(* properties and the implementation of Mailbox.tla follow from it.        *)
(***************************************************************************)
EXTENDS Sockpush, TLAPS

-----------------------------------------------------------------------------
(* IndInv is inductive.                                                    *)

(* The object, its locks and its lines are in order before sp_open().      *)
LEMMA IndInvInit == Init => IndInv
<1> SUFFICES ASSUME Init PROVE IndInv
  OBVIOUS
<1> USE DEF Init
<1>1. /\ readline_inactive \in BOOLEAN /\ readdone_inactive \in BOOLEAN
      /\ cancel \in BOOLEAN /\ rdr \in BOOLEAN
  OBVIOUS
<1>2. TypeOK
  BY <1>1 DEF TypeOK, IoStates, ClStates, SP_MAX_READERS
<1>3. MutexInv /\ LineInv
  BY DEF MutexInv, LineInv, IoHolding
<1>4. ReaderInv /\ HandshakeInv /\ LifeInv
  BY DEF ReaderInv, InRead, HandshakeInv, Announced, LifeInv
<1> QED
  BY <1>2, <1>3, <1>4 DEF IndInv

(* The daemon coming, going and sending disturbs nothing in the object.    *)
LEMMA IndInvPeer == IndInv /\ Peer => IndInv'
<1> SUFFICES ASSUME IndInv, Peer PROVE IndInv'
  OBVIOUS
<1> USE DEF IndInv, TypeOK, MutexInv, LineInv, ReaderInv,
        HandshakeInv, Announced, LifeInv, InRead, IoHolding, IoStates,
        ClStates, SP_MAX_READERS, peerVars, objVars, lineVars, condVars,
        syncVars, rdrVars
<1>1. CASE PeerUp
  BY <1>1 DEF PeerUp, PeerFrame
<1>2. CASE PeerDown
  BY <1>2 DEF PeerDown, PeerFrame
<1>3. CASE PeerSend
  BY <1>3 DEF PeerSend, PeerFrame
<1> QED
  BY <1>1, <1>2, <1>3
     DEF Peer

(* sp_iothread(): publishing happens between the lock and the unlock, and a *)
(* reader that was announced a line keeps the thread parked.               *)
LEMMA IndInvIo == IndInv /\ (IoStep \/ IoCancelled) => IndInv'
<1> SUFFICES ASSUME IndInv, (IoStep \/ IoCancelled) PROVE IndInv'
  OBVIOUS
<1> USE DEF IndInv, TypeOK, MutexInv, LineInv, ReaderInv,
        HandshakeInv, Announced, LifeInv, InRead, IoHolding, IoStates,
        ClStates, SP_MAX_READERS, peerVars, objVars, lineVars, condVars,
        syncVars, rdrVars
<1>1. CASE IoStart
  BY <1>1 DEF IoStart, IoFrame, Alive
<1>2. CASE IoConnect
  BY <1>2 DEF IoConnect, IoFrame, Alive
<1>3. CASE IoSleep
  BY <1>3 DEF IoSleep, IoFrame, Alive
<1>4. CASE IoReadLine
  BY <1>4 DEF IoReadLine, IoFrame, Alive
<1>5. CASE IoReadEnd
  BY <1>5 DEF IoReadEnd, IoFrame, Alive
<1>6. CASE IoReconnect
  BY <1>6 DEF IoReconnect, IoFrame, Alive
<1>7. CASE IoLockUser
  BY <1>7 DEF IoLockUser, IoFrame, Alive
<1>8. CASE IoBumpId
  BY <1>8 DEF IoBumpId, IoFrame, Alive
<1>9. CASE IoFill
  BY <1>9 DEF IoFill, IoFrame, Alive
<1>10. CASE IoBroadcast
  BY <1>10 DEF IoBroadcast, IoFrame, Alive
<1>11. CASE IoArmDone
  BY <1>11 DEF IoArmDone, IoFrame, Alive
<1>12. CASE IoDoneWake
  BY <1>12 DEF IoDoneWake, DoneReleased, IoFrame, Alive
<1>13. CASE IoUnlock
  BY <1>13 DEF IoUnlock, IoFrame, Alive
<1>14. CASE IoCancelled
  BY <1>14 DEF IoCancelled, CancelPoints, IoFrame, Alive
<1> QED
  BY <1>1, <1>2, <1>3, <1>4, <1>5, <1>6, <1>7, <1>8,
     <1>9, <1>10, <1>11, <1>12, <1>13, <1>14
     DEF IoStep

(* Entering an sp_*() function.                                            *)
LEMMA IndInvCall == IndInv /\ ClientCall => IndInv'
<1> SUFFICES ASSUME IndInv, ClientCall PROVE IndInv'
  OBVIOUS
<1> USE DEF IndInv, TypeOK, MutexInv, LineInv, ReaderInv,
        HandshakeInv, Announced, LifeInv, InRead, IoHolding, IoStates,
        ClStates, SP_MAX_READERS, peerVars, objVars, lineVars, condVars,
        syncVars, rdrVars
<1>1. CASE SpOpen
  BY <1>1 DEF SpOpen, Return
<1>2. CASE ReaderCreateCall
  BY <1>2 DEF ReaderCreateCall, Return, ClFrame
<1>3. CASE ReaderDestroyCall
  BY <1>3 DEF ReaderDestroyCall, Call, Enter, ClFrame
<1>4. CASE ReaderPurgeCall
  BY <1>4 DEF ReaderPurgeCall, Call, Enter, ClFrame
<1>5. CASE ReadCall
  BY <1>5 DEF ReadCall, Call, Enter, ClFrame
<1>6. CASE WriteCall
  BY <1>6 DEF WriteCall, Call, Enter, ClFrame
<1>7. CASE CloseCall
  BY <1>7 DEF CloseCall, CloseEnter
<1> QED
  BY <1>1, <1>2, <1>3, <1>4, <1>5, <1>6, <1>7
     DEF ClientCall

(* The steps inside sp_reader_*(), sp_read(), sub_write() and sp_close().  *)
LEMMA IndInvClient == IndInv /\ ClientStep => IndInv'
<1> SUFFICES ASSUME IndInv, ClientStep PROVE IndInv'
  OBVIOUS
<1> USE DEF IndInv, TypeOK, MutexInv, LineInv, ReaderInv,
        HandshakeInv, Announced, LifeInv, InRead, IoHolding, IoStates,
        ClStates, SP_MAX_READERS, peerVars, objVars, lineVars, condVars,
        syncVars, rdrVars
<1>1. CASE ReaderCreate
  <2>1. rdr' \in BOOLEAN
    BY <1>1 DEF ReaderCreate
  <2>2. TypeOK' /\ MutexInv' /\ LineInv' /\ HandshakeInv' /\ LifeInv'
    BY <1>1, <2>1 DEF ReaderCreate, Return, ClFrame
  <2>3. ReaderInv'
    BY <1>1 DEF ReaderCreate, Return, ClFrame
  <2> QED
    BY <2>2, <2>3
<1>2. CASE ReaderDestroy
  <2>1. rdr' \in BOOLEAN /\ readers = 1
    BY <1>2 DEF ReaderDestroy
  <2>2. TypeOK' /\ MutexInv' /\ LineInv' /\ HandshakeInv' /\ LifeInv'
    BY <1>2, <2>1 DEF ReaderDestroy, Return, ClFrame
  <2>3. ReaderInv'
    BY <1>2, <2>1 DEF ReaderDestroy, Return, ClFrame
  <2> QED
    BY <2>2, <2>3
<1>3. CASE ReaderPurge
  BY <1>3 DEF ReaderPurge, Return, ClFrame
<1>4. CASE ReadPeek
  <2>1. delivered' \in Seq(Nat)
    BY <1>4 DEF ReadPeek, LoadRead
  <2>2. last_read' \in {last_read, read_id}
    BY <1>4 DEF ReadPeek, LoadRead
  <2>3. /\ cl' \in {"wait", "idle"} /\ rc' \in {0, 1}
        /\ user_mutex = "free"
    BY <1>4 DEF ReadPeek, TryLockUser, Return
  <2>4. TypeOK' /\ MutexInv' /\ LineInv'
    BY <1>4, <2>1, <2>2, <2>3 DEF ReadPeek, ClFrame
  <2>5. ReaderInv' /\ HandshakeInv' /\ LifeInv'
    BY <1>4, <2>2, <2>3 DEF ReadPeek, ClFrame
  <2> QED
    BY <2>4, <2>5
<1>5. CASE ReadBusy
  BY <1>5 DEF ReadBusy, TryLockUser, ClFrame
<1>6. CASE ReadWait
  BY <1>6 DEF ReadWait, ArmLine, ClFrame
<1>7. CASE ReadWoken
  BY <1>7 DEF ReadWoken, ReadAwake, ClFrame
<1>8. CASE ReadTimeout
  BY <1>8 DEF ReadTimeout, ReadAwake, ClFrame
<1>9. CASE ReadLoad
  <2>1. io \in {"armDone", "doneWait"} /\ delivered' \in Seq(Nat)
    BY <1>9 DEF ReadLoad, LoadRead
  <2> QED
    BY <1>9, <2>1 DEF ReadLoad, LoadRead, ClFrame
<1>10. CASE ReadLeave
  BY <1>10 DEF ReadLeave, FewerWaiting, ClFrame
<1>11. CASE ReadSignal
  <2>1. TypeOK'
    BY <1>11 DEF ReadSignal, SignalDone, ClFrame
  <2>2. MutexInv' /\ LineInv'
    BY <1>11 DEF ReadSignal, SignalDone, ClFrame
  <2>3. ReaderInv' /\ LifeInv'
    BY <1>11 DEF ReadSignal, SignalDone, ClFrame
  <2>4. HandshakeInv'
    BY <1>11 DEF ReadSignal, SignalDone, ClFrame
  <2> QED
    BY <2>1, <2>2, <2>3, <2>4
<1>12. CASE WriteData
  BY <1>12 DEF WriteData, Return, ClFrame
<1>13. CASE WriteTerm
  BY <1>13 DEF WriteTerm, Return, ClFrame
<1>14. CASE WriteSigpipe
  BY <1>14 DEF WriteSigpipe, ClFrame
<1>15. CASE CloseJoined
  BY <1>15 DEF CloseJoined, IoJoined
<1> QED
  BY <1>1, <1>2, <1>3, <1>4, <1>5, <1>6, <1>7, <1>8,
     <1>9, <1>10, <1>11, <1>12, <1>13, <1>14, <1>15
     DEF ClientStep

(* Every step of the program preserves IndInv.                             *)
LEMMA IndInvNext == IndInv /\ [Next]_vars => IndInv'
<1> SUFFICES ASSUME IndInv, [Next]_vars PROVE IndInv'
  OBVIOUS
<1>1. CASE UNCHANGED vars
  BY <1>1 DEF vars, IndInv, TypeOK, MutexInv, LineInv, ReaderInv,
        HandshakeInv, Announced, LifeInv, InRead, IoHolding, IoStates,
        ClStates, SP_MAX_READERS, peerVars, objVars, lineVars, condVars,
        syncVars, rdrVars
<1>2. CASE Exited
  BY <1>1, <1>2 DEF Exited
<1> QED
  BY <1>1, <1>2, IndInvPeer, IndInvIo, IndInvCall, IndInvClient DEF Next

(* The two threads, the lines and the locks are in one of the situations   *)
(* IndInv lists, in every reachable state of sockpush.                     *)
THEOREM SockpushInvariant == Spec => []IndInv
  BY IndInvInit, IndInvNext, PTL DEF Spec

-----------------------------------------------------------------------------
(* Safety.                                                                 *)

(* Every field of sp_item_t keeps its type; in particular the counters     *)
(* readers and waiting_readers neither go below zero nor above the one     *)
(* slot of the reader array.                                               *)
THEOREM TypeCorrect == Spec => []TypeOK
<1>1. IndInv => TypeOK
  BY DEF IndInv
<1> QED
  BY <1>1, SockpushInvariant, PTL

(* The I/O thread, cancelled by sp_close() at whatever cancellation point, *)
(* never takes user_mutex with it.                                         *)
THEOREM LockLeftFree == Spec => []NoOrphanLock
<1>1. IndInv => NoOrphanLock
  BY DEF IndInv, MutexInv, IoHolding, NoOrphanLock
<1> QED
  BY <1>1, SockpushInvariant, PTL

(* The woken reader of sp_read() copies read_buf without user_mutex; the   *)
(* I/O thread, parked on readdone_cond, leaves line and id alone.          *)
THEOREM CopyUndisturbed == Spec => BufferStable
<1>1. IndInv /\ [Next]_vars =>
        [cl = "load" => UNCHANGED <<read_id, read_buf>>]_vars
  <2> SUFFICES ASSUME IndInv, Next, cl = "load"
               PROVE  UNCHANGED <<read_id, read_buf>>
    OBVIOUS
  <2>1. io \in {"armDone", "doneWait"}
    BY DEF IndInv, HandshakeInv, Announced
  <2>2. CASE Peer
    BY <2>2 DEF Peer, PeerUp, PeerDown, PeerSend, PeerFrame, lineVars
  <2>3. CASE IoStep \/ IoCancelled
    BY <2>1, <2>3
    DEF IoStep, IoStart, IoConnect, IoSleep, IoReadLine, IoReadEnd,
        IoReconnect, IoLockUser, IoBumpId, IoFill, IoBroadcast, IoArmDone,
        IoDoneWake, IoUnlock, IoCancelled, lineVars
  <2>4. CASE ClientCall
    BY <2>4
    DEF ClientCall, SpOpen, ReaderCreateCall, ReaderDestroyCall,
        ReaderPurgeCall, ReadCall, WriteCall, CloseCall, CloseEnter, Call,
        Enter
  <2>5. CASE ClientStep
    BY <2>5
    DEF ClientStep, ReaderCreate, ReaderDestroy, ReaderPurge, ReadPeek,
        ReadBusy, ReadWait, ReadWoken, ReadTimeout, ReadAwake, ReadLoad,
        ReadLeave, ReadSignal, WriteData, WriteTerm, WriteSigpipe,
        CloseJoined, ClFrame, lineVars
  <2>6. CASE Exited
    BY <2>6 DEF Exited, vars, lineVars
  <2> QED
    BY <2>2, <2>3, <2>4, <2>5, <2>6 DEF Next
<1> QED
  BY <1>1, SockpushInvariant, PTL DEF Spec, BufferStable

-----------------------------------------------------------------------------
(* Sockpush implements Mailbox.                                            *)

(* While user_mutex is free, or a woken reader copies, the line in         *)
(* read_buf is the one that read_id numbers: read_id started at 1.         *)
LEMMA LineMatchesId ==
  ASSUME IndInv, user_mutex = "free" \/ cl = "load"
  PROVE  IF read_id = 0 THEN read_buf = 0 ELSE read_buf = read_id - 1
<1>1. io \notin {"bump", "fill"}
  BY DEF IndInv, MutexInv, HandshakeInv, Announced, IoHolding
<1> QED
  BY <1>1 DEF IndInv, TypeOK, LineInv

(* A step of the program publishes a line, takes or skips the newest one,  *)
(* or leaves the mailbox as it is.                                         *)
LEMMA StepIsMailStep == IndInv /\ [Next]_vars => [Mail!Next]_(Mail!mailVars)
<1> SUFFICES ASSUME IndInv, [Next]_vars
             PROVE  Mail!Next \/ UNCHANGED <<read_buf, last_read, delivered>>
  BY DEF Mail!mailVars
<1> USE DEF lineVars, rdrVars
<1>1. CASE Peer
  BY <1>1 DEF Peer, PeerUp, PeerDown, PeerSend, PeerFrame
<1>2. CASE IoFill
  <2>1. Mail!Publish
    BY <1>2 DEF IndInv, TypeOK, LineInv, IoFill, IoFrame, Mail!Publish
  <2> QED
    BY <2>1 DEF Mail!Next
<1>3. CASE IoStart
  BY <1>3 DEF IndInv, LineInv, IoStart, IoFrame
<1>4. CASE (IoStep \/ IoCancelled) /\ ~IoFill /\ ~IoStart
  BY <1>4
  DEF IoStep, IoConnect, IoSleep, IoReadLine, IoReadEnd, IoReconnect,
      IoLockUser, IoBumpId, IoBroadcast, IoArmDone, IoDoneWake, IoUnlock,
      IoCancelled, IoFrame
<1>5. CASE ClientCall
  BY <1>5
  DEF ClientCall, SpOpen, ReaderCreateCall, ReaderDestroyCall,
      ReaderPurgeCall, ReadCall, WriteCall, CloseCall, CloseEnter, Call,
      Enter, ClFrame
<1>6. CASE ReaderCreate \/ ReaderPurge
  <2>1. CASE last_read' = read_id
    <3>1. UNCHANGED <<read_buf, delivered>> /\ user_mutex = "free"
      BY <1>6 DEF ReaderCreate, ReaderPurge, ClFrame
    <3>2. Mail!Skip
      BY <2>1, <3>1, LineMatchesId DEF IndInv, TypeOK, Mail!Skip
    <3> QED
      BY <3>2 DEF Mail!Next
  <2>2. CASE last_read' # read_id
    BY <1>6, <2>2 DEF ReaderCreate, ReaderPurge, ClFrame
  <2> QED
    BY <2>1, <2>2
<1>7. CASE (ReadPeek /\ last_read # read_id) \/ ReadLoad
  <2>1. /\ IF read_id = 0 THEN read_buf = 0 ELSE read_buf = read_id - 1
        /\ UNCHANGED read_buf
    BY <1>7, LineMatchesId DEF ReadPeek, TryLockUser, ReadLoad, ClFrame
  <2>2. LoadRead
    BY <1>7 DEF ReadPeek, ReadLoad
  <2>3. CASE read_buf = 0
    <3>1. Mail!Skip
      BY <2>1, <2>2, <2>3 DEF IndInv, TypeOK, LoadRead, Mail!Skip
    <3> QED
      BY <3>1 DEF Mail!Next
  <2>4. CASE read_buf # 0
    <3>1. last_read < read_id
      BY <1>7 DEF IndInv, TypeOK, ReaderInv, HandshakeInv, Announced,
                  ReadPeek, ReadLoad
    <3>2. Mail!Take
      <4>1. last_read \in Nat /\ read_id \in Nat
        BY DEF IndInv, TypeOK
      <4>2. last_read' = read_id /\ delivered' = Append(delivered, read_buf)
        BY <2>2, <2>4 DEF LoadRead
      <4> QED
        BY <2>1, <2>4, <3>1, <4>1, <4>2 DEF Mail!Take
    <3> QED
      BY <3>2 DEF Mail!Next
  <2> QED
    BY <2>3, <2>4
<1>8. CASE /\ ClientStep
           /\ ~ReaderCreate /\ ~ReaderPurge
           /\ ~((ReadPeek /\ last_read # read_id) \/ ReadLoad)
  BY <1>8
  DEF ClientStep, ReaderDestroy, ReadPeek, ReadBusy, ReadWait, ReadWoken,
      ReadTimeout, ReadAwake, ReadLoad, ReadLeave, ReadSignal, WriteData,
      WriteTerm, WriteSigpipe, CloseJoined, ClFrame
<1>9. CASE Exited \/ UNCHANGED vars
  BY <1>9 DEF Exited, vars
<1> QED
  BY <1>1, <1>2, <1>3, <1>4, <1>5, <1>6, <1>7, <1>8, <1>9
     DEF Next, IoStep

(* Through two threads, a trylock that may fail, a timed wait that may     *)
(* time out at any moment and a copy without user_mutex, sp_read() still   *)
(* behaves as the one-place mailbox of Mailbox.tla.                        *)
THEOREM ImplementsMailbox == Spec => MailSpec
<1>1. Init => Mail!Init
  BY DEF Init, Mail!Init
<1> QED
  BY <1>1, StepIsMailStep, SockpushInvariant, PTL
     DEF Spec, MailSpec, Mail!Spec

(* sp_read() never hands out the same line twice nor an older line after a *)
(* younger one, in spite of what the @todo notes of sockpush.c suspect.    *)
THEOREM LinesReadOnce == Spec => []NoRepeat
  BY ImplementsMailbox, Mail!MailboxNoRepeat, PTL DEF MailSpec, NoRepeat
=============================================================================
