------------------------------- MODULE Sockpush ------------------------------
(***************************************************************************)
(* The sockpush layer (main/sockpush.c): one socket, the I/O thread that   *)
(* owns its receiving side, and the client thread (main) that calls the    *)
(* sp_*() functions.                                                       *)
(*                                                                         *)
(* An action is the code between two points at which the other thread can  *)
(* interfere.  A critical section that nobody can observe half-way is one  *)
(* action guarded by its mutex being free; that is why readdone_mutex,     *)
(* whose critical sections are all of that kind, needs no variable.        *)
(* A thread blocked in pthread_cond_[timed]wait() has released the mutex   *)
(* and leaves the wait when the predicate of the enclosing loop is false   *)
(* (it is always made false together with the signal) or, for sp_read(),   *)
(* when the time is over; a spurious wakeup just repeats the loop.         *)
(*                                                                         *)
(* A line is its position in the daemon's output: 1, 2, 3, ...             *)
(* read_id is an unsigned int in the code; MaxLines stays below its range. *)
(***************************************************************************)
EXTENDS Integers, Sequences

CONSTANTS
  MaxLines,     \* bound: how many lines the daemon sends in a run
  MaxBackoff    \* max_backoff of sp_iothread()

ASSUME SockpushAssumption ==
  /\ MaxLines \in Nat
  /\ MaxBackoff \in Nat \ {0}

VARIABLES
  \* the daemon and the socket (external)
  peer,         \* is a daemon listening on the socket path?
  sent,         \* number of lines the daemon has sent
  \* sp_item_t
  handle,       \* life of the object: "none", "open", "freed"
  fd_sock,      \* "unconnected", "connected", "hangup", "badfd"
  read_id,
  read_buf,     \* the line in read_buf; 0 stands for read_size = 0
  user_mutex,   \* who holds it: "free", "io", "client"
  readline_mutex,
  readline_inactive,
  readdone_inactive,
  readers,
  waiting_readers,
  \* the I/O thread
  io,           \* where it is in sp_iothread()
  recvd,        \* number of lines it has taken off the socket
  backoff,
  cancel,       \* pthread_cancel() has been called on it
  \* the client thread
  cl,           \* where it is in a call; "idle" between two calls
  rc,           \* result of its latest call: > 0 a line or bytes, 0, < 0 error
  rdr,          \* does the client hold a reader?
  last_read,    \* of that reader
  delivered     \* history: the lines sp_read() has handed out

peerVars == <<peer, sent>>
objVars  == <<handle, fd_sock, cancel>>
lineVars == <<read_id, read_buf, recvd>>
condVars == <<readline_inactive, readdone_inactive>>
syncVars == <<user_mutex, readline_mutex, condVars, readers, waiting_readers>>
rdrVars  == <<rdr, last_read, delivered>>
vars == <<peerVars, objVars, lineVars, syncVars, io, backoff, cl, rc, rdrVars>>

SP_MAX_READERS == 1

IoStates == {"none", "start", "connect", "sleep", "read", "lockUser", "bump",
             "fill", "lockLine", "armDone", "doneWait", "unlock", "close",
             "dead"}

ClStates == {"idle", "create", "destroy", "purge", "write", "writeTerm",
             "try", "wait", "lineWait", "load", "leave", "signal",
             "join", "closed", "killed"}

(* Where the I/O thread owns user_mutex. *)
IoHolding == {"bump", "fill", "lockLine", "armDone", "doneWait", "unlock"}

(* Mutations of CancelPoints: cancellation held off while reading, and     *)
(* asynchronous cancellation.                                              *)
CancelPoints_NotInRead == {"connect", "sleep", "close", "doneWait"}
CancelPoints_Async == IoStates \ {"none", "dead"}

(* The functions at which a pending cancellation takes effect:             *)
(* connect(), sleep(), read(), close() and pthread_cond_wait().            *)
CancelPoints == {"connect", "sleep", "read", "close", "doneWait"}

Alive == cl # "killed"

(* calloc() zeroes the object before the I/O thread sets its fields. *)
Init ==
  /\ peer \in {"up", "down"} /\ sent = 0
  /\ handle = "none" /\ fd_sock = "badfd"
  /\ read_id = 0 /\ read_buf = 0 /\ recvd = 0
  /\ user_mutex = "free" /\ readline_mutex = "free"
  /\ readline_inactive = FALSE /\ readdone_inactive = FALSE
  /\ readers = 0 /\ waiting_readers = 0
  /\ io = "none" /\ backoff = 1 /\ cancel = FALSE
  /\ cl = "idle" /\ rc = 0
  /\ rdr = FALSE /\ last_read = 0 /\ delivered = <<>>

-----------------------------------------------------------------------------
(* The daemon.                                                             *)

PeerFrame == UNCHANGED <<handle, cancel, lineVars, syncVars, io, backoff,
                         cl, rc, rdrVars>>

PeerUp ==
  /\ peer = "down"
  /\ peer' = "up"
  /\ UNCHANGED <<sent, fd_sock>>
  /\ PeerFrame

(* The daemon goes away; what it already sent can still be read. *)
PeerDown ==
  /\ peer = "up"
  /\ peer' = "down"
  /\ fd_sock' = IF fd_sock = "connected" THEN "hangup" ELSE fd_sock
  /\ UNCHANGED sent
  /\ PeerFrame

PeerSend ==
  /\ fd_sock = "connected"
  /\ sent < MaxLines
  /\ sent' = sent + 1
  /\ UNCHANGED <<peer, fd_sock>>
  /\ PeerFrame

Peer == PeerUp \/ PeerDown \/ PeerSend

-----------------------------------------------------------------------------
(* The I/O thread: sp_iothread().                                          *)

(* A step of the I/O thread leaves the daemon, the client and the reader   *)
(* accounts alone.                                                         *)
IoFrame ==
  /\ Alive
  /\ UNCHANGED <<peerVars, handle, cancel, readline_mutex, readers,
                 waiting_readers, cl, rc, rdrVars>>

(* The reference variables are set without any mutex. *)
IoStart ==
  /\ io = "start"
  /\ readline_inactive' = TRUE
  /\ read_buf' = 0
  /\ read_id' = 1
  /\ io' = "connect"
  /\ UNCHANGED <<fd_sock, recvd, user_mutex, readdone_inactive, backoff>>
  /\ IoFrame

IoConnect ==
  /\ io = "connect"
  /\ IF fd_sock = "unconnected" /\ peer = "up"
     THEN fd_sock' = "connected" /\ backoff' = 1 /\ io' = "read"
     ELSE io' = "sleep" /\ UNCHANGED <<fd_sock, backoff>>
  /\ UNCHANGED <<lineVars, user_mutex, condVars>>
  /\ IoFrame

IoSleep ==
  /\ io = "sleep"
  /\ backoff' = IF backoff < MaxBackoff THEN backoff * 2 ELSE backoff
  /\ io' = "connect"
  /\ UNCHANGED <<fd_sock, lineVars, user_mutex, condVars>>
  /\ IoFrame

(* The inner loop up to the end of a line. *)
IoReadLine ==
  /\ io = "read"
  /\ recvd < sent
  /\ recvd' = recvd + 1
  /\ io' = "lockUser"
  /\ UNCHANGED <<fd_sock, read_id, read_buf, user_mutex, condVars, backoff>>
  /\ IoFrame

(* read() reports end of file; an unfinished line is forgotten. *)
IoReadEnd ==
  /\ io = "read"
  /\ recvd = sent
  /\ fd_sock = "hangup"
  /\ io' = "close"
  /\ UNCHANGED <<fd_sock, lineVars, user_mutex, condVars, backoff>>
  /\ IoFrame

(* The descriptor is closed and the outer loop goes back to connect(). *)
IoReconnect ==
  /\ io = "close"
  /\ fd_sock' = "badfd"
  /\ io' = "connect"
  /\ UNCHANGED <<lineVars, user_mutex, condVars, backoff>>
  /\ IoFrame

(* Mutation of IoLockUser: the thread publishes without the lock. *)
IoLockUser_Unlocked ==
  /\ io = "lockUser"
  /\ io' = "bump"
  /\ UNCHANGED <<fd_sock, lineVars, user_mutex, condVars, backoff>>
  /\ IoFrame

IoLockUser ==
  /\ io = "lockUser"
  /\ user_mutex = "free"
  /\ user_mutex' = "io"
  /\ io' = "bump"
  /\ UNCHANGED <<fd_sock, lineVars, condVars, backoff>>
  /\ IoFrame

IoBumpId ==
  /\ io = "bump"
  /\ read_id' = read_id + 1
  /\ io' = "fill"
  /\ UNCHANGED <<fd_sock, read_buf, recvd, user_mutex, condVars, backoff>>
  /\ IoFrame

(* read_size and the line; then the subscribers, of which there are none   *)
(* because sp_subscribe() registers nothing; then the test for readers.    *)
IoFill ==
  /\ io = "fill"
  /\ read_buf' = recvd
  /\ io' = IF readers > 0 THEN "lockLine" ELSE "unlock"
  /\ UNCHANGED <<fd_sock, read_id, recvd, user_mutex, condVars, backoff>>
  /\ IoFrame

IoBroadcast ==
  /\ io = "lockLine"
  /\ readline_mutex = "free"
  /\ IF waiting_readers <= 0
     THEN io' = "unlock" /\ UNCHANGED readline_inactive
     ELSE io' = "armDone" /\ readline_inactive' = FALSE
  /\ UNCHANGED <<fd_sock, lineVars, user_mutex, readdone_inactive, backoff>>
  /\ IoFrame

(* readdone_inactive is raised only here, after the broadcast. *)
IoArmDone ==
  /\ io = "armDone"
  /\ readdone_inactive' = TRUE
  /\ io' = "doneWait"
  /\ UNCHANGED <<fd_sock, lineVars, user_mutex, readline_inactive, backoff>>
  /\ IoFrame

(* Mutation of DoneReleased: no loop around the condition variable. *)
DoneReleased_AnyWakeup == TRUE

DoneReleased == ~readdone_inactive

IoDoneWake ==
  /\ io = "doneWait"
  /\ DoneReleased
  /\ io' = "unlock"
  /\ UNCHANGED <<fd_sock, lineVars, user_mutex, condVars, backoff>>
  /\ IoFrame

IoUnlock ==
  /\ io = "unlock"
  /\ user_mutex' = "free"
  /\ io' = "read"
  /\ UNCHANGED <<fd_sock, lineVars, condVars, backoff>>
  /\ IoFrame

(* Deferred cancellation; mutexes the thread holds stay locked. *)
IoCancelled ==
  /\ cancel
  /\ io \in CancelPoints
  /\ io' = "dead"
  /\ UNCHANGED <<fd_sock, lineVars, user_mutex, condVars, backoff>>
  /\ IoFrame

IoStep == \/ IoStart \/ IoConnect \/ IoSleep \/ IoReadLine \/ IoReadEnd
          \/ IoReconnect \/ IoLockUser \/ IoBumpId \/ IoFill \/ IoBroadcast
          \/ IoArmDone \/ IoDoneWake \/ IoUnlock

-----------------------------------------------------------------------------
(* The client: a call to an sp_*() function starts in "idle" and ends with *)
(* Return.                                                                 *)

Return(result) == cl' = "idle" /\ rc' = result

(* A step inside a call leaves the socket, the lines and the I/O thread    *)
(* alone.                                                                  *)
ClFrame == UNCHANGED <<peerVars, objVars, lineVars, io, backoff>>

(* sp_open(), all resources granted.  A failing socket() goes unnoticed    *)
(* because new_sp is compared where new_sp->fd_sock was meant.             *)
SpOpen ==
  /\ cl = "idle" /\ handle = "none"
  /\ handle' = "open"
  /\ fd_sock' \in {"unconnected", "badfd"}
  /\ io' = "start"
  /\ Return(0)
  /\ UNCHANGED <<peerVars, lineVars, syncVars, backoff, cancel, rdrVars>>

(* The number of readers is tested before user_mutex is taken. *)
ReaderCreateCall ==
  /\ cl = "idle" /\ handle = "open"
  /\ IF readers < SP_MAX_READERS
     THEN cl' = "create" /\ UNCHANGED rc
     ELSE Return(0)
  /\ UNCHANGED <<syncVars, rdrVars>>
  /\ ClFrame

(* talloc_size() may fail: then there is no reader. *)
ReaderCreate ==
  /\ cl = "create"
  /\ user_mutex = "free"
  /\ \/ /\ rdr' = TRUE
        /\ last_read' = read_id
        /\ readers' = readers + 1
        /\ Return(1)
     \/ /\ Return(0)
        /\ UNCHANGED <<rdr, last_read, readers>>
  /\ UNCHANGED <<user_mutex, readline_mutex, condVars, waiting_readers,
                 delivered>>
  /\ ClFrame

(* The entry of a call; Call adds what the caller has to see to: a live    *)
(* handle, and a reader if asked.                                          *)
Enter(place) ==
  /\ cl = "idle"
  /\ cl' = place
  /\ UNCHANGED <<rc, syncVars, rdrVars>>
  /\ ClFrame

Call(place, needed) == handle = "open" /\ needed /\ Enter(place)

ReadCall == Call("try", rdr)
ReaderPurgeCall == Call("purge", rdr)
ReaderDestroyCall == Call("destroy", rdr)
WriteCall == Call("write", TRUE)

ReaderDestroy ==
  /\ cl = "destroy"
  /\ user_mutex = "free"
  /\ readers' = readers - 1
  /\ rdr' = FALSE
  /\ Return(0)
  /\ UNCHANGED <<user_mutex, readline_mutex, condVars, waiting_readers,
                 last_read, delivered>>
  /\ ClFrame

ReaderPurge ==
  /\ cl = "purge"
  /\ user_mutex = "free"
  /\ last_read' = read_id
  /\ Return(0)
  /\ UNCHANGED <<syncVars, rdr, delivered>>
  /\ ClFrame

(* pthread_mutex_trylock() on user_mutex; its mutation ignores the result. *)
TryLockUser_Ignored == TRUE

TryLockUser == user_mutex = "free"

(* sub_loadread(): copies read_size bytes, which are none before the first *)
(* line.                                                                   *)
LoadRead ==
  /\ last_read' = read_id
  /\ delivered' = IF read_buf = 0 THEN delivered
                                  ELSE Append(delivered, read_buf)

(* 1st step of sp_read(), pthread_mutex_trylock() succeeding. *)
ReadPeek ==
  /\ cl = "try"
  /\ TryLockUser
  /\ IF last_read # read_id
     THEN /\ LoadRead
          /\ IF read_buf = 0 THEN cl' = "wait" /\ rc' = 0 ELSE Return(1)
     ELSE /\ cl' = "wait" /\ rc' = 0
          /\ UNCHANGED <<last_read, delivered>>
  /\ UNCHANGED <<syncVars, rdr>>
  /\ ClFrame

(* 1st step of sp_read(), pthread_mutex_trylock() failing. *)
ReadBusy ==
  /\ cl = "try"
  /\ ~TryLockUser
  /\ cl' = "wait" /\ rc' = 0
  /\ UNCHANGED <<syncVars, rdrVars>>
  /\ ClFrame

(* Mutation of ArmLine: the flag keeps what the last broadcast left. *)
ArmLine_Missing == UNCHANGED readline_inactive

ArmLine == readline_inactive' = TRUE

ReadWait ==
  /\ cl = "wait"
  /\ readline_mutex = "free"
  /\ waiting_readers' = waiting_readers + 1
  /\ ArmLine
  /\ cl' = "lineWait"
  /\ UNCHANGED <<rc, user_mutex, readline_mutex, readdone_inactive, readers,
                 rdrVars>>
  /\ ClFrame

(* pthread_cond_timedwait() comes back with readline_mutex: place is the   *)
(* load when wait_test = 0 and the line after it when wait_test # 0.       *)
ReadAwake(place) ==
  /\ cl = "lineWait"
  /\ readline_mutex = "free"
  /\ readline_mutex' = "client"
  /\ cl' = place
  /\ UNCHANGED <<rc, user_mutex, condVars, readers, waiting_readers, rdrVars>>
  /\ ClFrame

ReadWoken == ~readline_inactive /\ ReadAwake("load")

(* Mutation of ReadTimeout: pthread_cond_wait() instead of the timed wait. *)
ReadTimeout_Untimed == FALSE

ReadTimeout == ReadAwake("leave")

(* The load of a woken reader: user_mutex is not taken, and last_read is   *)
(* not compared with read_id.                                              *)
ReadLoad ==
  /\ cl = "load"
  /\ LoadRead
  /\ rc' = IF read_buf = 0 THEN 0 ELSE 1
  /\ cl' = "leave"
  /\ UNCHANGED <<syncVars, rdr>>
  /\ ClFrame

(* Mutation of FewerWaiting: the decrement is forgotten. *)
FewerWaiting_Missing == waiting_readers

FewerWaiting == IF waiting_readers # 0 THEN waiting_readers - 1 ELSE 0

ReadLeave ==
  /\ cl = "leave"
  /\ waiting_readers' = FewerWaiting
  /\ readline_mutex' = "free"
  /\ cl' = IF FewerWaiting = 0 THEN "signal" ELSE "idle"
  /\ UNCHANGED <<rc, user_mutex, condVars, readers, rdrVars>>
  /\ ClFrame

(* Mutation of SignalDone: a reader that timed out gives no signal. *)
SignalDone_OnlyWithLine ==
  readdone_inactive' = IF rc > 0 THEN FALSE ELSE readdone_inactive

SignalDone == readdone_inactive' = FALSE

ReadSignal ==
  /\ cl = "signal"
  /\ SignalDone
  /\ cl' = "idle"
  /\ UNCHANGED <<rc, user_mutex, readline_mutex, readline_inactive, readers,
                 waiting_readers, rdrVars>>
  /\ ClFrame

(* sub_write() up to the first write(); terminate says whether a second    *)
(* write() follows, for the newline a command lacks.                       *)
WriteData ==
  /\ cl = "write"
  /\ user_mutex = "free"
  /\ \/ /\ fd_sock \in {"unconnected", "badfd"}
        /\ Return(-2)
        /\ UNCHANGED user_mutex
     \/ /\ fd_sock = "connected"
        /\ \E terminate \in BOOLEAN :
             IF terminate
             THEN cl' = "writeTerm" /\ user_mutex' = "client" /\ UNCHANGED rc
             ELSE Return(1) /\ UNCHANGED user_mutex
  /\ UNCHANGED <<readline_mutex, condVars, readers, waiting_readers, rdrVars>>
  /\ ClFrame

WriteTerm ==
  /\ cl = "writeTerm"
  /\ fd_sock # "hangup"
  /\ user_mutex' = "free"
  /\ Return(IF fd_sock = "connected" THEN 1 ELSE -1)
  /\ UNCHANGED <<readline_mutex, condVars, readers, waiting_readers, rdrVars>>
  /\ ClFrame

(* Writing to a socket whose other end is closed raises SIGPIPE, for which *)
(* the program installs no handler: the process ends.                      *)
WriteSigpipe ==
  /\ \/ cl = "write" /\ user_mutex = "free"
     \/ cl = "writeTerm"
  /\ fd_sock = "hangup"
  /\ cl' = "killed"
  /\ UNCHANGED <<rc, syncVars, rdrVars>>
  /\ ClFrame

(* sp_close() up to pthread_join(); the caller has given its reader back. *)
CloseEnter ==
  /\ cl = "idle"
  /\ cancel' = TRUE
  /\ cl' = "join"
  /\ UNCHANGED <<peerVars, handle, fd_sock, lineVars, io, backoff, rc,
                 syncVars, rdrVars>>

CloseCall == handle = "open" /\ ~rdr /\ CloseEnter

(* pthread_join(); its mutation does not wait for the thread. *)
IoJoined_NotAwaited == TRUE

IoJoined == io = "dead"

CloseJoined ==
  /\ cl = "join"
  /\ IoJoined
  /\ user_mutex' = "free"
  /\ readline_mutex' = "free"
  /\ fd_sock' = "badfd"
  /\ handle' = "freed"
  /\ cl' = "closed" /\ rc' = 0
  /\ UNCHANGED <<peerVars, cancel, lineVars, io, backoff, condVars, readers,
                 waiting_readers, rdrVars>>

ClientCall == \/ SpOpen \/ ReaderCreateCall \/ ReaderDestroyCall
              \/ ReaderPurgeCall \/ ReadCall \/ WriteCall \/ CloseCall

(* What the client does inside a call. *)
ClientStep == \/ ReaderCreate \/ ReaderDestroy \/ ReaderPurge
              \/ ReadPeek \/ ReadBusy \/ ReadWait \/ ReadWoken
              \/ ReadTimeout \/ ReadLoad \/ ReadLeave \/ ReadSignal
              \/ WriteData \/ WriteTerm \/ WriteSigpipe \/ CloseJoined

(* The process is over. *)
Exited == cl \in {"closed", "killed"} /\ UNCHANGED vars

-----------------------------------------------------------------------------

Next == Peer \/ IoStep \/ IoCancelled \/ ClientCall \/ ClientStep \/ Exited

Spec == Init /\ [][Next]_vars

(* Both threads keep running, a pending cancellation is delivered, and a   *)
(* timed wait ends; the daemon and the client owe nothing.                 *)
Fairness == /\ WF_vars(IoStep)
            /\ WF_vars(IoCancelled)
            /\ WF_vars(ClientStep)

FairSpec == Spec /\ Fairness

-----------------------------------------------------------------------------
(* Properties.                                                             *)

(* The fields of sp_item_t keep their types; the size_t counters of        *)
(* readers stay between zero and the one slot there is.                    *)
TypeOK ==
  /\ peer \in {"up", "down"} /\ sent \in Nat
  /\ handle \in {"none", "open", "freed"}
  /\ fd_sock \in {"unconnected", "connected", "hangup", "badfd"}
  /\ read_id \in Nat /\ read_buf \in Nat /\ recvd \in Nat
  /\ user_mutex \in {"free", "io", "client"}
  /\ readline_mutex \in {"free", "client"}
  /\ readline_inactive \in BOOLEAN /\ readdone_inactive \in BOOLEAN
  /\ readers \in 0..SP_MAX_READERS /\ waiting_readers \in 0..SP_MAX_READERS
  /\ io \in IoStates /\ backoff \in Nat /\ cancel \in BOOLEAN
  /\ cl \in ClStates /\ rc \in -2..1
  /\ rdr \in BOOLEAN /\ last_read \in Nat /\ delivered \in Seq(Nat)

(* sp_read() behaves as a one-place mailbox: the line it hands out is the  *)
(* newest one, whole, and not one that this client has had or skipped.     *)
Mail == INSTANCE Mailbox WITH
  newest <- read_buf,
  seen <- IF last_read = 0 THEN 0 ELSE last_read - 1

MailSpec == Mail!Spec

(* No line is handed out twice by sp_read(), nor after a younger one: the  *)
(* two @todo notes in sockpush.c (lines 453 and 625) suspect otherwise.    *)
NoRepeat == Mail!NoRepeat

(* While a woken reader copies read_buf, which it does without user_mutex, *)
(* the I/O thread changes neither the line nor its id.                     *)
BufferStable == [][cl = "load" => UNCHANGED <<read_id, read_buf>>]_vars

(* The I/O thread is cancelled with deferred type "to prevent deadlock in  *)
(* odd cases" (sockpush.c:564), and one of its cancellation points is the  *)
(* wait for readdone_cond with user_mutex held; still it never ends with   *)
(* user_mutex locked, because sp_close() comes after the last reader.      *)
NoOrphanLock == io = "dead" => user_mutex # "io"

InRead == cl \in {"try", "wait", "lineWait", "load", "leave", "signal"}

(* sp_read() always returns, whatever the I/O thread is doing. *)
ReadReturns == InRead ~> ~InRead

(* An I/O thread that waits for a reader to finish is released by the next *)
(* sp_read(), even when the signal meant for it was given too early.       *)
ReadReleasesIo == (cl = "try" /\ io = "doneWait") ~> (io # "doneWait")

(* sp_close() always gets its I/O thread back and finishes, wherever that  *)
(* thread was when it was cancelled.                                       *)
CloseCompletes == (cl = "join") ~> (cl = "closed")

-----------------------------------------------------------------------------
(* What the source comments say and the code does not do.                  *)

(* "Connect to the socket" (sockpush.c:575) is where RECONNECT leads: if a *)
(* daemon is back for good, the connection comes back.                     *)
Reconnects ==
  <>[](peer = "up")
    => ((io = "close") ~> (fd_sock = "connected" \/ cancel \/ ~Alive))

-----------------------------------------------------------------------------
(* The inductive invariant behind the safety properties.                   *)

(* user_mutex: held by the I/O thread from the lock to the unlock around a *)
(* publication; held by the client between the two write()s.               *)
MutexInv ==
  /\ io \in IoHolding => user_mutex = "io"
  /\ user_mutex = "io" => io \in IoHolding
  /\ cl = "writeTerm" => user_mutex = "client"
  /\ user_mutex = "client" => cl \in {"writeTerm", "killed"}
  /\ readline_mutex = "client" <=> cl \in {"load", "leave"}

(* The line in read_buf, its id, and the lines taken off the socket move   *)
(* in lock step; "fill" is the only place with id and line out of step.    *)
LineInv ==
  /\ io \in {"none", "start"} => read_id = 0 /\ read_buf = 0 /\ recvd = 0
  /\ io \notin {"none", "start"} =>
       /\ read_id = IF io \in {"lockUser", "bump"} THEN recvd ELSE recvd + 1
       /\ read_buf = IF io \in {"lockUser", "bump", "fill"}
                     THEN recvd - 1 ELSE recvd
  /\ io \in {"lockUser", "bump", "fill"} => recvd > 0

(* The reader never runs ahead of the I/O thread, and during a publication *)
(* up to the broadcast it has not had the new line.  The handshake begins  *)
(* with a reader, which cannot be destroyed while user_mutex is held.      *)
ReaderInv ==
  /\ last_read <= read_id
  /\ io \in {"fill", "lockLine"} => last_read < read_id
  /\ io \in {"lockLine", "armDone", "doneWait"} => rdr
  /\ rdr => readers = 1
  /\ ~rdr => readers = 0
  /\ waiting_readers = IF cl \in {"lineWait", "load", "leave"} THEN 1 ELSE 0
  /\ cl = "create" => ~rdr
  /\ InRead \/ cl \in {"purge", "destroy"} => rdr

(* A reader that has been announced a line, or is copying it, finds the    *)
(* I/O thread parked between its broadcast and the readdone signal.        *)
Announced == (cl = "lineWait" /\ ~readline_inactive) \/ cl = "load"

HandshakeInv ==
  Announced => /\ io \in {"armDone", "doneWait"}
               /\ io = "doneWait" => readdone_inactive
               /\ last_read < read_id

(* sp_close() is the last call: nothing else runs once it has cancelled.   *)
LifeInv ==
  /\ handle = "none" <=> io = "none"
  /\ handle = "none" => cl = "idle"
  /\ cancel <=> cl \in {"join", "closed"}
  /\ io = "dead" => cancel
  /\ handle = "freed" <=> cl = "closed"
  /\ cancel => ~rdr
  /\ handle = "freed" => io = "dead"

(* Threads, lines and locks are always in one of the situations above.     *)
IndInv == /\ TypeOK /\ MutexInv /\ LineInv /\ ReaderInv
          /\ HandshakeInv /\ LifeInv
=============================================================================
