---------------------------- MODULE OttercatProofs ---------------------------
(***************************************************************************)
(* Theorems about Ottercat.tla, for every number of lines, commands and    *)
(* sends: the program is a client that keeps sockpush's rules, so that the *)
(* results about Sockpush.tla are results about the program.               *)
(***************************************************************************)
EXTENDS Ottercat, TLAPS

(* The theorems about Sockpush.tla, for the variables of the program. *)
SPP == INSTANCE SockpushProofs

(* The inductive invariant behind SockpushSpec: at each place of the main  *)
(* thread, whether the handle is open, whether it holds the reader, and    *)
(* where it may be in sockpush.  While InTable, argtable[] is allocated.   *)

InTable == {"gather", "parse", "socket", "stdin", "config", "run", "bail",
            "crashed"}
BeforeOpen == InTable \cup {"declare", "open"}
WithoutReader == {"settle", "dterm", "stream", "create", "deinit", "close"}
WithReader == {"clock", "send", "read", "destroy"}

CallInv ==
  /\ pc \in BeforeOpen => handle = "none" /\ cl = "idle" /\ ~rdr
  /\ pc \in WithoutReader => handle = "open" /\ cl = "idle" /\ ~rdr
  /\ pc \in WithReader => handle = "open" /\ cl = "idle" /\ rdr
  /\ pc = "created" =>
       handle = "open" /\ (cl = "idle" \/ (cl = "create" /\ ~rdr))
  /\ pc = "sent" =>
       /\ handle = "open" /\ rdr
       /\ cl \in {"idle", "write", "writeTerm", "killed"}
  /\ pc = "got" => handle = "open" /\ rdr /\ (cl = "idle" \/ SP!InRead)
  /\ pc = "line" =>
       /\ handle = "open"
       /\ IF cl = "destroy" THEN rdr ELSE cl = "idle" /\ ~rdr
  /\ pc = "closing" => cl = "join"
  /\ pc \in {"finish", "exited"} => handle # "open" /\ cl \in {"idle", "closed"}

USE DEF InTable, BeforeOpen, WithoutReader, WithReader

(* A step of main() outside sockpush, a call or its return keeps CallInv. *)
LEMMA CallInvStartUp == CallInv /\ StartUp => CallInv'
<1> SUFFICES ASSUME CallInv, StartUp PROVE CallInv'
  OBVIOUS
<1> USE DEF CallInv, Go, Local, sockVars, SP!InRead
<1>1. CASE Declare \/ Gather \/ Parse \/ TakeSocket
  BY <1>1 DEF Declare, Gather, Parse, TakeSocket
<1>2. CASE TakeStdin \/ Configure \/ FreeTable
  BY <1>2 DEF TakeStdin, Configure, FreeTable
<1>3. CASE OpenAcquire \/ OpenNoSocket \/ OpenFails
  <2>1. /\ UNCHANGED <<handle, cl, rdr>>
        /\ pc = "open" /\ pc' \in {"open", "finish"}
    BY <1>3 DEF OpenAcquire, OpenNoSocket, OpenFails
  <2> QED
    BY <2>1
<1>4. CASE OpenThread
  BY <1>4 DEF OpenThread, SP!SpOpen, SP!Return, SP!rdrVars
<1>5. CASE Settle \/ DtermInit
  BY <1>5 DEF Settle, DtermInit
<1> QED
  BY <1>1, <1>2, <1>3, <1>4, <1>5 DEF StartUp

(* The handler creates its reader before it reads and destroys it behind   *)
(* the label TERM, where every path through it ends.                       *)
LEMMA CallInvCommand == CallInv /\ Command => CallInv'
<1> SUFFICES ASSUME CallInv, Command PROVE CallInv'
  OBVIOUS
<1> USE DEF CallInv, Go, Local, sockVars, SP!InRead
<1>1. CASE NextLine \/ StreamEnd
  BY <1>1 DEF NextLine, StreamEnd
<1>2. CASE CreateReader
  BY <1>2 DEF CreateReader, Calling, SP!ReaderCreateCall, SP!Return,
              SP!ClFrame, SP!objVars, SP!rdrVars
<1>3. CASE CreateReturns
  BY <1>3 DEF CreateReturns
<1>4. CASE SetRef \/ SendReturns
  BY <1>4 DEF SetRef, SendReturns, Term
<1>5. CASE SendCmd
  BY <1>5 DEF SendCmd, SP!Enter, SP!ClFrame, SP!objVars, SP!rdrVars
<1>6. CASE ReadNext \/ EndReader
  BY <1>6 DEF ReadNext, EndReader, Calling, SP!Enter, SP!ClFrame,
              SP!objVars, SP!rdrVars
<1>7. CASE ReadReturns
  BY <1>7 DEF ReadReturns, Term
<1>8. CASE LineDone
  BY <1>8 DEF LineDone
<1> QED
  BY <1>1, <1>2, <1>3, <1>4, <1>5, <1>6, <1>7, <1>8 DEF Command

LEMMA CallInvRest ==
  CallInv /\ (ShutDown \/ InCall \/ IoThread \/ IoCancelled \/ Daemon) => CallInv'
<1> SUFFICES ASSUME CallInv,
                    ShutDown \/ InCall \/ IoThread \/ IoCancelled \/ Daemon
             PROVE  CallInv'
  OBVIOUS
<1> USE DEF CallInv, SP!InRead
<1>1. CASE ShutDown
  BY <1>1 DEF ShutDown, DtermDeinit, CloseCall, CloseReturns, Finish, Go,
              Local, sockVars, SP!CloseEnter, SP!CloseJoined, SP!rdrVars
<1>2. CASE InCall
  <2> USE <1>2 DEF InCall, SP!ClFrame, SP!objVars, SP!rdrVars
  <2>1. CASE SP!ReaderCreate
    BY <2>1 DEF SP!ReaderCreate, SP!Return
  <2>2. CASE SP!ReaderDestroy \/ SP!ReaderPurge
    BY <2>2 DEF SP!ReaderDestroy, SP!ReaderPurge, SP!Return
  <2>3. CASE SP!ReadPeek \/ SP!ReadBusy \/ SP!ReadWait
    BY <2>3 DEF SP!ReadPeek, SP!ReadBusy, SP!ReadWait, SP!Return
  <2>4. CASE SP!ReadWoken \/ SP!ReadTimeout \/ SP!ReadLoad
    BY <2>4 DEF SP!ReadWoken, SP!ReadTimeout, SP!ReadAwake, SP!ReadLoad
  <2>5. CASE SP!ReadLeave \/ SP!ReadSignal
    BY <2>5 DEF SP!ReadLeave, SP!ReadSignal
  <2>6. CASE SP!WriteData \/ SP!WriteTerm \/ SP!WriteSigpipe
    BY <2>6 DEF SP!WriteData, SP!WriteTerm, SP!WriteSigpipe, SP!Return
  <2>7. CASE SP!CloseJoined
    BY <2>7 DEF SP!CloseJoined
  <2> QED
    BY <2>1, <2>2, <2>3, <2>4, <2>5, <2>6, <2>7 DEF SP!ClientStep
<1>3. CASE IoThread \/ IoCancelled
  <2>1. UNCHANGED <<handle, cl, rdr>>
    BY <1>3
    DEF IoThread, IoCancelled, SP!IoStep, SP!IoStart, SP!IoConnect,
        SP!IoSleep, SP!IoReadLine, SP!IoReadEnd, SP!IoReconnect,
        SP!IoLockUser, SP!IoBumpId, SP!IoFill, SP!IoBroadcast, SP!IoArmDone,
        SP!IoDoneWake, SP!IoUnlock, SP!IoCancelled, SP!IoFrame, SP!rdrVars
  <2> QED
    BY <1>3, <2>1 DEF IoThread, IoCancelled
<1>4. CASE Daemon
  BY <1>4 DEF Daemon, SP!Peer, SP!PeerUp, SP!PeerDown, SP!PeerSend,
              SP!PeerFrame, SP!rdrVars
<1> QED
  BY <1>1, <1>2, <1>3, <1>4

(* At every place of the main thread the handle and the reader are as      *)
(* sockpush's rules ask for, on the error paths of main.c, dterm.c and     *)
(* cmd_devmgr.c too.                                                       *)
THEOREM CallsInOrder == Spec => []CallInv
<1>1. Init => CallInv
  BY DEF Init, SP!Init, CallInv
<1>2. CallInv /\ [Next]_vars => CallInv'
  <2> SUFFICES ASSUME CallInv, [Next]_vars PROVE CallInv'
    OBVIOUS
  <2>1. CASE UNCHANGED vars
    BY <2>1 DEF vars, sockVars, CallInv, SP!InRead
  <2> QED
    BY <2>1, CallInvStartUp, CallInvCommand, CallInvRest
       DEF Next, MainThread
<1> QED
  BY <1>1, <1>2, PTL DEF Spec

(* A step of the program is a step of sockpush or leaves sockpush alone. *)
LEMMA StepIsSockpushStep == CallInv /\ [Next]_vars => [SP!Next]_(SP!vars)
<1> SUFFICES ASSUME CallInv, [Next]_vars PROVE SP!Next \/ UNCHANGED SP!vars
  OBVIOUS
<1>1. ASSUME UNCHANGED sockVars PROVE UNCHANGED SP!vars
  BY <1>1 DEF sockVars, SP!vars, SP!peerVars, SP!objVars, SP!lineVars,
              SP!syncVars, SP!condVars, SP!rdrVars
<1>2. CASE UNCHANGED vars
  BY <1>1, <1>2 DEF vars
<1>3. CASE StartUp
  <2>1. CASE OpenThread
    BY <2>1 DEF OpenThread, SP!Next, SP!ClientCall
  <2>2. CASE ~OpenThread
    BY <1>1, <1>3, <2>2
    DEF StartUp, Declare, Gather, Parse, TakeSocket, TakeStdin, Configure,
        FreeTable, OpenAcquire, OpenNoSocket, OpenFails, Settle, DtermInit,
        Local
  <2> QED
    BY <2>1, <2>2
<1>4. CASE Command
  <2>1. CASE CreateReader
    BY <2>1 DEF CreateReader, Calling, SP!Next, SP!ClientCall
  <2>2. CASE ReadNext
    BY <2>2 DEF ReadNext, Calling, Go, CallInv, SP!Next, SP!ClientCall,
                SP!ReadCall, SP!Call
  <2>3. CASE EndReader
    BY <2>3 DEF EndReader, Calling, Go, CallInv, SP!Next, SP!ClientCall,
                SP!ReaderDestroyCall, SP!Call
  <2>4. CASE SendCmd
    BY <1>1, <2>4 DEF SendCmd, Go, Local, CallInv, SP!Next, SP!ClientCall,
                      SP!WriteCall, SP!Call
  <2>5. CASE ~CreateReader /\ ~ReadNext /\ ~EndReader /\ ~SendCmd
    BY <1>1, <1>4, <2>5
    DEF Command, NextLine, StreamEnd, CreateReturns, SetRef, SendReturns,
        ReadReturns, LineDone, Local
  <2> QED
    BY <2>1, <2>2, <2>3, <2>4, <2>5
<1>5. CASE ShutDown
  <2>1. CASE CloseCall
    BY <2>1 DEF CloseCall, Go, CallInv, SP!Next, SP!ClientCall, SP!CloseCall
  <2>2. CASE CloseReturns
    BY <2>2 DEF CloseReturns, SP!Next, SP!ClientStep
  <2>3. CASE DtermDeinit \/ Finish
    BY <1>1, <2>3 DEF DtermDeinit, Finish, Local
  <2> QED
    BY <1>5, <2>1, <2>2, <2>3 DEF ShutDown
<1>6. CASE InCall \/ IoThread \/ IoCancelled \/ Daemon
  BY <1>6 DEF InCall, IoThread, IoCancelled, Daemon, SP!Next
<1> QED
  BY <1>2, <1>3, <1>4, <1>5, <1>6 DEF Next, MainThread

(* The program implements Sockpush.tla: whatever is proved there of every  *)
(* client that keeps the rules holds of ottercat.                          *)
THEOREM ProgramKeepsRules == Spec => SockpushSpec
<1>1. Init => SP!Init
  BY DEF Init
<1> QED
  BY <1>1, StepIsSockpushStep, CallsInOrder, PTL
     DEF Spec, SockpushSpec, SP!Spec

(* Sockpush.tla and the module of its proofs have the same behaviours:     *)
(* definition by definition, a step of one is a step of the other.         *)
LEMMA SameSteps == SP!Spec => SPP!Spec
<1>1. SP!Init => SPP!Init
  BY DEF SP!Init, SPP!Init
<1>2. [SP!Next]_(SP!vars) => [SPP!Next]_(SPP!vars)
  BY DEF
     SP!peerVars, SP!objVars, SP!rdrVars, SP!lineVars, SP!condVars,
     SP!syncVars, SP!vars, SP!SP_MAX_READERS, SP!CancelPoints, SP!Alive, SP!PeerFrame,
     SP!PeerUp, SP!PeerDown, SP!PeerSend, SP!Peer, SP!IoFrame, SP!IoStart,
     SP!IoConnect, SP!IoSleep, SP!IoReadLine, SP!IoReadEnd, SP!IoReconnect,
     SP!IoLockUser, SP!IoBumpId, SP!IoFill, SP!IoBroadcast, SP!IoArmDone,
     SP!DoneReleased, SP!IoDoneWake, SP!IoUnlock, SP!IoCancelled, SP!IoStep,
     SP!Return, SP!ClFrame, SP!SpOpen, SP!ReaderCreateCall, SP!ReaderCreate,
     SP!Enter, SP!Call, SP!ReadCall, SP!ReaderPurgeCall,
     SP!ReaderDestroyCall, SP!WriteCall, SP!ReaderDestroy, SP!ReaderPurge,
     SP!TryLockUser, SP!LoadRead, SP!ReadPeek, SP!ReadBusy, SP!ArmLine,
     SP!ReadWait, SP!ReadAwake, SP!ReadWoken, SP!ReadTimeout, SP!ReadLoad,
     SP!FewerWaiting, SP!ReadLeave, SP!SignalDone, SP!ReadSignal,
     SP!WriteData, SP!WriteTerm, SP!WriteSigpipe, SP!CloseEnter,
     SP!CloseCall, SP!IoJoined, SP!CloseJoined, SP!ClientCall,
     SP!ClientStep, SP!Exited, SP!Next,
     SPP!peerVars, SPP!objVars, SPP!rdrVars, SPP!lineVars, SPP!condVars,
     SPP!syncVars, SPP!vars, SPP!SP_MAX_READERS, SPP!CancelPoints, SPP!Alive, SPP!PeerFrame,
     SPP!PeerUp, SPP!PeerDown, SPP!PeerSend, SPP!Peer, SPP!IoFrame,
     SPP!IoStart, SPP!IoConnect, SPP!IoSleep, SPP!IoReadLine, SPP!IoReadEnd,
     SPP!IoReconnect, SPP!IoLockUser, SPP!IoBumpId, SPP!IoFill,
     SPP!IoBroadcast, SPP!IoArmDone, SPP!DoneReleased, SPP!IoDoneWake,
     SPP!IoUnlock, SPP!IoCancelled, SPP!IoStep, SPP!Return, SPP!ClFrame,
     SPP!SpOpen, SPP!ReaderCreateCall, SPP!ReaderCreate, SPP!Enter,
     SPP!Call, SPP!ReadCall, SPP!ReaderPurgeCall, SPP!ReaderDestroyCall,
     SPP!WriteCall, SPP!ReaderDestroy, SPP!ReaderPurge, SPP!TryLockUser,
     SPP!LoadRead, SPP!ReadPeek, SPP!ReadBusy, SPP!ArmLine, SPP!ReadWait,
     SPP!ReadAwake, SPP!ReadWoken, SPP!ReadTimeout, SPP!ReadLoad,
     SPP!FewerWaiting, SPP!ReadLeave, SPP!SignalDone, SPP!ReadSignal,
     SPP!WriteData, SPP!WriteTerm, SPP!WriteSigpipe, SPP!CloseEnter,
     SPP!CloseCall, SPP!IoJoined, SPP!CloseJoined, SPP!ClientCall,
     SPP!ClientStep, SPP!Exited, SPP!Next
<1> QED
  BY <1>1, <1>2, PTL DEF SP!Spec, SPP!Spec

(* What is proved of sockpush and any client holds of ottercat: no line of *)
(* the daemon is read twice or after a younger one, the I/O thread never   *)
(* ends with user_mutex, a line stays as it is while the main thread       *)
(* copies it, and the main thread sees sockpush as a mailbox.              *)
THEOREM ProgramInherits ==
  Spec => /\ [](SPP!NoRepeat /\ SPP!NoOrphanLock)
          /\ SPP!BufferStable
          /\ SPP!MailSpec
<1>1. SPP!SockpushAssumption
  BY OttercatAssumption DEF SPP!SockpushAssumption
<1>2. SPP!Spec => [](SPP!NoRepeat)
  BY <1>1, SPP!LinesReadOnce
<1>3. SPP!Spec => [](SPP!NoOrphanLock)
  BY <1>1, SPP!LockLeftFree
<1>4. SPP!Spec => SPP!BufferStable
  BY <1>1, SPP!CopyUndisturbed
<1>5. SPP!Spec => SPP!MailSpec
  BY <1>1, SPP!ImplementsMailbox
<1> QED
  BY <1>2, <1>3, <1>4, <1>5, ProgramKeepsRules, SameSteps, PTL DEF SockpushSpec

-----------------------------------------------------------------------------
(* What the main thread holds, and what it has read.                       *)

(* A line of the stream is being processed; dterm is in use; sp_open() has *)
(* succeeded and sp_close() has not returned.                              *)
InLine == {"create", "created", "clock", "send", "sent", "read", "got",
           "destroy", "line"}
InDterm == InLine \cup {"stream", "deinit"}
WhileOpen == InDterm \cup {"settle", "dterm", "close", "closing"}
InOpen == BeforeOpen \cup WhileOpen

(* A resource of sp_open() is held from its step on. *)
FromStep(r, n) == res[r] = IF opened >= n THEN 1 ELSE 0

(* How often each resource is held at each place of the main thread. *)
HeldInv ==
  /\ res \in [Resources -> 0..1] /\ opened \in 0..9
  /\ pc \in BeforeOpen \ {"open"} => opened = 0
  /\ pc = "open" => opened < 9
  /\ pc \in WhileOpen => opened = 9
  /\ pc \in InOpen =>
       /\ FromStep("object", 1) /\ (opened < 3 => res["fd"] = 0)
       /\ FromStep("user_mutex", 4) /\ FromStep("readline_mutex", 5)
       /\ FromStep("readline_cond", 6) /\ FromStep("readdone_mutex", 7)
       /\ FromStep("readdone_cond", 8) /\ FromStep("thread", 9)
  /\ pc \notin InOpen => \A r \in SpResources : res[r] = 0
  /\ res["pctx"] = IF pc \in InDterm THEN 1 ELSE 0
  /\ res["tctx"] = IF pc \in InLine THEN 1 ELSE 0
  /\ res["hooks"] = IF pc \in InLine THEN 1 ELSE 0
  /\ res["argtable"] = IF pc \in InTable THEN 1 ELSE 0
  /\ pc = "declare" => \A r \in Unlisted : res[r] = 0
  /\ pc \in {"declare", "gather", "stdin", "exited"} => res["cmdstr"] = 0
  /\ pc \in {"declare", "gather", "parse", "socket", "exited"} =>
       res["socket_val"] = 0

Seen == IF last_read = 0 THEN 0 ELSE last_read - 1

Fresh == delivered # <<>> /\ delivered[Len(delivered)] > mark

(* The reader has skipped what was there when it was created, so a line    *)
(* that it gets is a later one.                                            *)
FreshInv ==
  /\ rdr => mark <= Seen
  /\ pc = "got" /\ cl \in {"wait", "lineWait", "load"} => rc = 0
  /\ pc = "got" /\ cl \in {"leave", "signal", "idle"} /\ rc > 0 => Fresh
  /\ pc = "destroy" /\ cmdrc >= 0 => Fresh

(* Sockpush's inductive invariant holds of the program. *)
LEMMA ProgramIndInv == Spec => [](SPP!IndInv)
<1>1. SPP!SockpushAssumption
  BY OttercatAssumption DEF SPP!SockpushAssumption
<1>2. SPP!Spec => [](SPP!IndInv)
  BY <1>1, SPP!SockpushInvariant
<1> QED
  BY <1>2, ProgramKeepsRules, SameSteps, PTL DEF SockpushSpec

LEMMA ResourceNames ==
  /\ SpResources = {"object", "fd", "user_mutex", "readline_mutex",
                    "readline_cond", "readdone_mutex", "readdone_cond",
                    "thread"}
  /\ Unlisted = {"timeout", "retries"}
  /\ Resources = {"object", "fd", "user_mutex", "readline_mutex",
                  "readline_cond", "readdone_mutex", "readdone_cond",
                  "thread", "timeout", "retries", "argtable", "cmdstr",
                  "socket_val", "pctx", "tctx", "hooks"}
<1>1. /\ DOMAIN OpenSteps = 1..9
      /\ OpenSteps[1] = "object" /\ OpenSteps[2] = "path"
      /\ OpenSteps[3] = "fd" /\ OpenSteps[4] = "user_mutex"
      /\ OpenSteps[5] = "readline_mutex" /\ OpenSteps[6] = "readline_cond"
      /\ OpenSteps[7] = "readdone_mutex" /\ OpenSteps[8] = "readdone_cond"
      /\ OpenSteps[9] = "thread"
  BY DEF OpenSteps
<1>2. \A i \in 1..9 : i \in {1, 2, 3, 4, 5, 6, 7, 8, 9}
  OBVIOUS
<1>3. SpResources = {"object", "fd", "user_mutex", "readline_mutex",
                    "readline_cond", "readdone_mutex", "readdone_cond",
                    "thread"}
  BY <1>1, <1>2 DEF SpResources
<1>4. Unlisted = {"timeout", "retries"}
  BY DEF Unlisted, Options, ArgTable
<1> QED
  BY <1>3, <1>4 DEF Resources

(* The step of sp_open() that follows the first opened ones. *)
LEMMA OpeningNames ==
  /\ opened = 0 => Opening = "object"
  /\ opened = 1 => Opening = "path"
  /\ opened = 2 => Opening = "fd"
  /\ opened = 3 => Opening = "user_mutex"
  /\ opened = 4 => Opening = "readline_mutex"
  /\ opened = 5 => Opening = "readline_cond"
  /\ opened = 6 => Opening = "readdone_mutex"
  /\ opened = 7 => Opening = "readdone_cond"
  /\ opened = 8 => Opening = "thread"
BY DEF Opening, OpenSteps

(* What a step acquires is held behind it, and nothing else changes. *)
LEMMA Acquired ==
  ASSUME res \in [Resources -> 0..1], NEW r \in Resources, res[r] = 0,
         Acquire(r)
  PROVE  /\ res' \in [Resources -> 0..1]
         /\ res'[r] = 1
         /\ \A s \in Resources \ {r} : res'[s] = res[s]
BY DEF Acquire

(* What is held once, or forgives a second release, is not held behind a   *)
(* release, and nothing else changes.                                      *)
LEMMA Released ==
  ASSUME res \in [Resources -> 0..1], NEW S \in SUBSET Resources,
         \A r \in S \ Forgiving : res[r] = 1, Release(S)
  PROVE  /\ res' \in [Resources -> 0..1]
         /\ \A r \in S : res'[r] = 0
         /\ \A r \in Resources \ S : res'[r] = res[r]
<1>1. \A r \in Resources :
        res'[r] = IF r \notin S THEN res[r]
                  ELSE IF r \in Forgiving THEN 0 ELSE res[r] - 1
  BY DEF Release
<1>2. \A r \in Resources : res[r] \in 0..1
  OBVIOUS
<1>3. \A r \in S : res'[r] = 0
  BY <1>1
<1>4. \A r \in Resources \ S : res'[r] = res[r]
  BY <1>1
<1>5. \A r \in Resources : res'[r] \in 0..1
  BY <1>2, <1>3, <1>4
<1>6. res' = [r \in Resources |-> res'[r]]
  BY DEF Release
<1> QED
  BY <1>3, <1>4, <1>5, <1>6

(* The clean-up of sp_open() releases what the steps before the failed one *)
(* have acquired.                                                          *)
LEMMA CleanupMatches ==
  /\ Cleanup(OpenError["object"]) = {}
  /\ Cleanup(OpenError["path"]) = {"object"}
  /\ Cleanup(OpenError["user_mutex"]) = {"object", "fd"}
  /\ Cleanup(OpenError["readline_mutex"]) = {"object", "fd", "user_mutex"}
  /\ Cleanup(OpenError["readline_cond"]) =
       {"object", "fd", "user_mutex", "readline_mutex"}
  /\ Cleanup(OpenError["readdone_mutex"]) =
       {"object", "fd", "user_mutex", "readline_mutex", "readline_cond"}
  /\ Cleanup(OpenError["readdone_cond"]) =
       {"object", "fd", "user_mutex", "readline_mutex", "readline_cond",
        "readdone_mutex"}
  /\ Cleanup(OpenError["thread"]) =
       {"object", "fd", "user_mutex", "readline_mutex", "readline_cond",
        "readdone_mutex", "readdone_cond"}
<1>1. /\ OpenError["object"] = -2 /\ OpenError["path"] = -3
      /\ OpenError["user_mutex"] = -5 /\ OpenError["readline_mutex"] = -7
      /\ OpenError["readline_cond"] = -8 /\ OpenError["readdone_mutex"] = -9
      /\ OpenError["readdone_cond"] = -10 /\ OpenError["thread"] = -11
  BY DEF OpenError
<1>2. /\ DOMAIN CleanupCase =
           {"object", "fd", "user_mutex", "readline_mutex", "readline_cond",
            "readdone_mutex", "readdone_cond"}
      /\ CleanupCase["object"] = -3 /\ CleanupCase["fd"] = -5
      /\ CleanupCase["user_mutex"] = -6 /\ CleanupCase["readline_mutex"] = -8
      /\ CleanupCase["readline_cond"] = -9
      /\ CleanupCase["readdone_mutex"] = -10
      /\ CleanupCase["readdone_cond"] = -11
  BY DEF CleanupCase
<1>3. /\ Cleanup(-2) = {}
      /\ Cleanup(-3) = {"object"}
      /\ Cleanup(-5) = {"object", "fd"}
      /\ Cleanup(-7) = {"object", "fd", "user_mutex"}
  BY <1>2 DEF Cleanup
<1>4. /\ Cleanup(-8) = {"object", "fd", "user_mutex", "readline_mutex"}
      /\ Cleanup(-9) = {"object", "fd", "user_mutex", "readline_mutex",
                        "readline_cond"}
  BY <1>2 DEF Cleanup
<1>5. /\ Cleanup(-10) = {"object", "fd", "user_mutex", "readline_mutex",
                         "readline_cond", "readdone_mutex"}
      /\ Cleanup(-11) = {"object", "fd", "user_mutex", "readline_mutex",
                         "readline_cond", "readdone_mutex", "readdone_cond"}
  BY <1>2 DEF Cleanup
<1> QED
  BY <1>1, <1>3, <1>4, <1>5

USE DEF InLine, InDterm, WhileOpen, InOpen, FromStep

(* The objects of the options are taken at the start; what main() takes    *)
(* later it keeps.                                                         *)
LEMMA HeldInvMain ==
  HeldInv /\ (Declare \/ Gather \/ Parse \/ TakeSocket \/ TakeStdin
                \/ Configure \/ FreeTable) => HeldInv'
<1> SUFFICES ASSUME HeldInv,
                    Declare \/ Gather \/ Parse \/ TakeSocket \/ TakeStdin
                      \/ Configure \/ FreeTable
             PROVE  HeldInv'
  OBVIOUS
<1> USE ResourceNames DEF Go
<1>1. ASSUME UNCHANGED openVars, pc \in InTable, pc' \in InTable,
             pc' # "gather",
             pc' = "parse" => pc = "gather",
             pc' = "socket" => pc = "parse",
             pc' = "stdin" => pc = "stdin"
      PROVE  HeldInv'
  BY <1>1 DEF HeldInv, openVars
<1>2. ASSUME NEW r \in {"cmdstr", "socket_val"}, res[r] = 0, Acquire(r),
             opened' = opened, pc \in InTable, pc' \in InTable,
             pc' \notin {"gather", "socket"},
             pc' = "stdin" => r = "socket_val" /\ res["cmdstr"] = 0,
             pc' = "parse" => r = "cmdstr" /\ pc = "gather"
      PROVE  HeldInv'
  <2>1. /\ res' \in [Resources -> 0..1] /\ res'[r] = 1
        /\ \A s \in Resources \ {r} : res'[s] = res[s]
    BY <1>2, Acquired DEF HeldInv
  <2> QED
    BY <1>2, <2>1 DEF HeldInv
<1>3. CASE Gather
  BY <1>1, <1>2, <1>3 DEF Gather, HeldInv, openVars
<1>4. CASE TakeSocket
  <2>1. res["cmdstr"] \in 0..1
    BY DEF HeldInv
  <2> QED
    BY <1>1, <1>2, <1>4, <2>1 DEF TakeSocket, HeldInv, openVars
<1>5. CASE TakeStdin
  BY <1>1, <1>2, <1>5 DEF TakeStdin, HeldInv, openVars
<1>6. CASE Parse \/ Configure
  BY <1>1, <1>6 DEF Parse, Configure
<1>7. CASE Declare
  <2>1. pc = "declare" /\ pc' = "gather" /\ opened' = opened
    BY <1>7 DEF Declare
  <2>2. \A r \in Unlisted \cup {"argtable"} : res[r] = 0
    BY <2>1 DEF HeldInv
  <2>3. PICK S \in SUBSET Unlisted :
          res' = [r \in Resources |->
                    res[r] + IF r \in S \cup {"argtable"} THEN 1 ELSE 0]
    BY <1>7 DEF Declare
  <2>4. \A r \in Resources : res[r] \in 0..1
    BY DEF HeldInv
  <2>5. /\ \A r \in Resources \ (S \cup {"argtable"}) : res'[r] = res[r]
        /\ \A r \in S \cup {"argtable"} : res'[r] = 1
    BY <2>2, <2>3, <2>4
  <2>6. res' \in [Resources -> 0..1]
    <3>1. \A r \in Resources : res'[r] \in 0..1
      BY <2>4, <2>5
    <3> QED
      BY <2>3, <3>1
  <2> QED
    BY <2>1, <2>3, <2>5, <2>6 DEF HeldInv
<1>8. CASE FreeTable
  <2>1. /\ (pc = "run" /\ pc' = "open") \/ (pc = "bail" /\ pc' = "finish")
        /\ opened' = opened /\ Release({"argtable"})
    BY <1>8 DEF FreeTable
  <2>2. /\ res' \in [Resources -> 0..1] /\ res'["argtable"] = 0
        /\ \A s \in Resources \ {"argtable"} : res'[s] = res[s]
    <3>1. \A r \in {"argtable"} \ Forgiving : res[r] = 1
      BY <2>1 DEF HeldInv
    <3>2. {"argtable"} \in SUBSET Resources
      OBVIOUS
    <3> QED
      BY <2>1, <3>1, <3>2, Released DEF HeldInv
  <2> QED
    BY <2>1, <2>2 DEF HeldInv
<1> QED
  BY <1>3, <1>4, <1>5, <1>6, <1>7, <1>8

(* Each step of sp_open() adds its resource; a failing one takes back what *)
(* the steps before it have added.                                         *)
LEMMA HeldInvOpen ==
  HeldInv /\ (OpenAcquire \/ OpenNoSocket \/ OpenFails \/ OpenThread) => HeldInv'
<1> SUFFICES ASSUME HeldInv,
                    OpenAcquire \/ OpenNoSocket \/ OpenFails \/ OpenThread
             PROVE  HeldInv'
  OBVIOUS
<1> USE ResourceNames DEF Go
<1>1. opened \in {0, 1, 2, 3, 4, 5, 6, 7, 8} /\ pc = "open"
  <2>1. pc = "open"
    BY DEF OpenAcquire, OpenNoSocket, OpenFails, OpenThread
  <2>2. opened \in 0..9 /\ opened < 9
    BY <2>1 DEF HeldInv
  <2> QED
    BY <2>1, <2>2
<1>2. CASE OpenAcquire
  <2>1. /\ opened # 8 /\ opened' = opened + 1 /\ pc' = "open"
    BY <1>2, <1>1, OpeningNames DEF OpenAcquire
  <2>2. CASE opened = 1
    <3>1. UNCHANGED res
      BY <1>2, <2>2, OpeningNames DEF OpenAcquire
    <3> QED
      BY <1>1, <2>1, <2>2, <3>1 DEF HeldInv
  <2>3. CASE opened # 1
    <3>1. Acquire(Opening) /\ Opening \in Resources /\ res[Opening] = 0
      BY <1>1, <1>2, <2>1, <2>3, OpeningNames DEF OpenAcquire, HeldInv
    <3>2. /\ res' \in [Resources -> 0..1] /\ res'[Opening] = 1
          /\ \A s \in Resources \ {Opening} : res'[s] = res[s]
      BY <3>1, Acquired DEF HeldInv
    <3> QED
      BY <1>1, <2>1, <2>3, <3>2, OpeningNames DEF HeldInv
  <2> QED
    BY <2>2, <2>3
<1>3. CASE OpenNoSocket
  <2>1. opened = 2 /\ opened' = 3 /\ pc' = "open" /\ UNCHANGED res
    BY <1>1, <1>3, OpeningNames DEF OpenNoSocket
  <2> QED
    BY <1>1, <2>1 DEF HeldInv
<1>4. CASE OpenFails
  <2> DEFINE S == Cleanup(OpenError[Opening])
  <2>1. /\ opened # 2 /\ opened' = opened /\ pc' = "finish" /\ Release(S)
    BY <1>1, <1>4, OpeningNames DEF OpenFails
  <2>2. /\ opened = 0 => S = {}
        /\ opened = 1 => S = {"object"}
        /\ opened = 3 => S = {"object", "fd"}
        /\ opened = 4 => S = {"object", "fd", "user_mutex"}
        /\ opened = 5 => S = {"object", "fd", "user_mutex", "readline_mutex"}
        /\ opened = 6 => S = {"object", "fd", "user_mutex", "readline_mutex",
                              "readline_cond"}
        /\ opened = 7 => S = {"object", "fd", "user_mutex", "readline_mutex",
                              "readline_cond", "readdone_mutex"}
        /\ opened = 8 => S = {"object", "fd", "user_mutex", "readline_mutex",
                              "readline_cond", "readdone_mutex",
                              "readdone_cond"}
    BY OpeningNames, CleanupMatches
  <2> HIDE DEF S
  <2>3. /\ S \in SUBSET Resources
        /\ \A r \in S \ Forgiving : res[r] = 1
    BY <1>1, <2>1, <2>2 DEF HeldInv, Forgiving
  <2>4. /\ res' \in [Resources -> 0..1]
        /\ \A r \in S : res'[r] = 0
        /\ \A r \in Resources \ S : res'[r] = res[r]
    BY <2>1, <2>3, Released DEF HeldInv
  <2>5. \A r \in SpResources \ S : res[r] = 0
    BY <1>1, <2>1, <2>2 DEF HeldInv
  <2>6. \A r \in SpResources : res'[r] = 0
    BY <2>4, <2>5
  <2>7. /\ res'["pctx"] = res["pctx"] /\ res'["tctx"] = res["tctx"]
        /\ res'["hooks"] = res["hooks"]
        /\ res'["argtable"] = res["argtable"]
    BY <1>1, <2>1, <2>2, <2>4
  <2> QED
    BY <1>1, <2>1, <2>4, <2>6, <2>7 DEF HeldInv
<1>5. CASE OpenThread
  <2>1. opened = 8 /\ opened' = 9 /\ pc' = "settle" /\ Acquire("thread")
    BY <1>1, <1>5, OpeningNames DEF OpenThread
  <2>2. /\ res' \in [Resources -> 0..1] /\ res'["thread"] = 1
        /\ \A s \in Resources \ {"thread"} : res'[s] = res[s]
    BY <1>1, <2>1, Acquired DEF HeldInv
  <2> QED
    BY <1>1, <2>1, <2>2 DEF HeldInv
<1> QED
  BY <1>2, <1>3, <1>4, <1>5

(* dterm holds its context, and each command line its pool and its hooks. *)
LEMMA HeldInvCommand ==
  HeldInv /\ (Settle \/ DtermInit \/ Command \/ DtermDeinit \/ CloseCall)
    => HeldInv'
<1> SUFFICES ASSUME HeldInv,
                    Settle \/ DtermInit \/ Command \/ DtermDeinit \/ CloseCall
             PROVE  HeldInv'
  OBVIOUS
<1> USE ResourceNames DEF Go
<1>1. ASSUME UNCHANGED openVars, pc \in WhileOpen, pc' \in WhileOpen,
             pc \in InLine <=> pc' \in InLine,
             pc \in InDterm <=> pc' \in InDterm
      PROVE  HeldInv'
  BY <1>1 DEF HeldInv, openVars
<1>2. CASE Settle \/ StreamEnd \/ CloseCall
  <2>1. CASE StreamEnd
    BY <1>1, <2>1 DEF StreamEnd
  <2> QED
    BY <1>1, <1>2, <2>1 DEF Settle, CloseCall
<1>3. CASE CreateReader \/ CreateReturns \/ SetRef \/ SendCmd \/ SendReturns
             \/ ReadNext \/ ReadReturns \/ EndReader
  <2>1. UNCHANGED openVars /\ pc \in InLine /\ pc' \in InLine
    BY <1>3 DEF CreateReader, Calling, CreateReturns, SetRef, SendCmd,
                SendReturns, ReadNext, ReadReturns, EndReader, Term
  <2> QED
    BY <1>1, <2>1
<1>4. CASE DtermInit
  <2>1. CASE Acquire("pctx")
    <3>1. /\ res' \in [Resources -> 0..1] /\ res'["pctx"] = 1
          /\ \A s \in Resources \ {"pctx"} : res'[s] = res[s]
      BY <1>4, <2>1, Acquired DEF DtermInit, HeldInv
    <3>2. pc = "dterm" /\ pc' \in {"stream", "close"} /\ opened' = opened
      BY <1>4 DEF DtermInit
    <3>3. pc' = "stream"
      <4>1. pc' = "close" => res' = res
        BY <1>4 DEF DtermInit
      <4> QED
        BY <3>1, <3>2, <4>1 DEF HeldInv
    <3> QED
      BY <3>1, <3>2, <3>3 DEF HeldInv
  <2>2. CASE ~Acquire("pctx")
    BY <1>1, <1>4, <2>2 DEF DtermInit, openVars
  <2> QED
    BY <2>1, <2>2
<1>5. CASE NextLine
  <2>1. /\ pc = "stream" /\ pc' \in {"create", "line"} /\ opened' = opened
        /\ res' = [res EXCEPT !["tctx"] = @ + 1, !["hooks"] = @ + 1]
    BY <1>5 DEF NextLine
  <2>2. res["tctx"] = 0 /\ res["hooks"] = 0
    BY <2>1 DEF HeldInv
  <2>3. /\ res' \in [Resources -> 0..1]
        /\ res'["tctx"] = 1 /\ res'["hooks"] = 1
        /\ \A s \in Resources \ {"tctx", "hooks"} : res'[s] = res[s]
    BY <2>1, <2>2 DEF HeldInv
  <2> QED
    BY <2>1, <2>3 DEF HeldInv
<1>6. CASE LineDone
  <2>1. /\ pc = "line" /\ pc' \in {"deinit", "stream"} /\ opened' = opened
        /\ Release({"tctx", "hooks"})
    BY <1>6 DEF LineDone
  <2>2. /\ res' \in [Resources -> 0..1]
        /\ res'["tctx"] = 0 /\ res'["hooks"] = 0
        /\ \A s \in Resources \ {"tctx", "hooks"} : res'[s] = res[s]
    <3>1. \A r \in {"tctx", "hooks"} : res[r] = 1
      BY <2>1 DEF HeldInv
    <3>2. {"tctx", "hooks"} \in SUBSET Resources
      OBVIOUS
    <3> QED
      BY <2>1, <3>1, <3>2, Released DEF HeldInv
  <2> QED
    BY <2>1, <2>2 DEF HeldInv
<1>7. CASE DtermDeinit
  <2>1. /\ pc = "deinit" /\ pc' = "close" /\ opened' = opened
        /\ Release({"pctx"})
    BY <1>7 DEF DtermDeinit
  <2>2. /\ res' \in [Resources -> 0..1] /\ res'["pctx"] = 0
        /\ \A s \in Resources \ {"pctx"} : res'[s] = res[s]
    <3>1. \A r \in {"pctx"} : res[r] = 1
      BY <2>1 DEF HeldInv
    <3>2. {"pctx"} \in SUBSET Resources
      OBVIOUS
    <3> QED
      BY <2>1, <3>1, <3>2, Released DEF HeldInv
  <2> QED
    BY <2>1, <2>2 DEF HeldInv
<1> QED
  BY <1>2, <1>3, <1>4, <1>5, <1>6, <1>7 DEF Command

(* sp_close() gives back all that sp_open() took, main() the two strings;  *)
(* the other threads touch the descriptor only.                            *)
LEMMA HeldInvRest ==
  HeldInv /\ (CloseReturns \/ Finish \/ InCall \/ IoThread \/ IoCancelled
                \/ Daemon) => HeldInv'
<1> SUFFICES ASSUME HeldInv,
                    CloseReturns \/ Finish \/ InCall \/ IoThread
                      \/ IoCancelled \/ Daemon
             PROVE  HeldInv'
  OBVIOUS
<1> USE ResourceNames DEF Go
<1>1. CASE UNCHANGED <<pc, openVars>>
  BY <1>1 DEF HeldInv, openVars
<1>2. CASE CloseReturns
  <2>1. /\ pc = "closing" /\ pc' = "finish" /\ opened' = opened
        /\ Release(SpResources)
    BY <1>2 DEF CloseReturns, Closed
  <2>2. /\ res' \in [Resources -> 0..1]
        /\ \A r \in SpResources : res'[r] = 0
        /\ \A r \in Resources \ SpResources : res'[r] = res[r]
    <3>1. \A r \in SpResources \ Forgiving : res[r] = 1
      BY <2>1 DEF HeldInv, Forgiving
    <3>2. SpResources \in SUBSET Resources
      OBVIOUS
    <3> QED
      BY <2>1, <3>1, <3>2, Released DEF HeldInv
  <2> QED
    BY <2>1, <2>2 DEF HeldInv
<1>3. CASE Finish
  <2>1. /\ pc = "finish" /\ pc' = "exited" /\ opened' = opened
        /\ Release({"socket_val", "cmdstr"})
    BY <1>3 DEF Finish
  <2>2. /\ res' \in [Resources -> 0..1]
        /\ res'["socket_val"] = 0 /\ res'["cmdstr"] = 0
        /\ \A s \in Resources \ {"socket_val", "cmdstr"} : res'[s] = res[s]
    <3>1. \A r \in {"socket_val", "cmdstr"} \ Forgiving : res[r] = 1
      BY DEF Forgiving
    <3>2. {"socket_val", "cmdstr"} \in SUBSET Resources
      OBVIOUS
    <3> QED
      BY <2>1, <3>1, <3>2, Released DEF HeldInv
  <2> QED
    BY <2>1, <2>2 DEF HeldInv
<1>4. CASE IoThread /\ io = "close"
  <2>1. UNCHANGED <<pc, opened>> /\ Release({"fd"})
    BY <1>4 DEF IoThread
  <2>2. /\ res' \in [Resources -> 0..1] /\ res'["fd"] = 0
        /\ \A s \in Resources \ {"fd"} : res'[s] = res[s]
    <3>1. \A r \in {"fd"} \ Forgiving : res[r] = 1
      BY DEF Forgiving
    <3>2. {"fd"} \in SUBSET Resources
      OBVIOUS
    <3> QED
      BY <2>1, <3>1, <3>2, Released DEF HeldInv
  <2> QED
    BY <2>1, <2>2 DEF HeldInv
<1> QED
  BY <1>1, <1>2, <1>3, <1>4 DEF InCall, IoThread, IoCancelled, Daemon, openVars

(* At every place of the main thread exactly the resources of HeldInv are  *)
(* held, whichever start-up step failed.                                   *)
THEOREM ResourcesHeld == Spec => []HeldInv
<1>1. Init => HeldInv
  <2> SUFFICES ASSUME Init PROVE HeldInv
    OBVIOUS
  <2>1. pc = "declare" /\ opened = 0 /\ \A r \in Resources : res[r] = 0
    BY DEF Init
  <2>2. res \in [Resources -> 0..1]
    BY DEF Init
  <2> QED
    BY <2>1, <2>2, ResourceNames DEF HeldInv
<1>2. HeldInv /\ [Next]_vars => HeldInv'
  <2> SUFFICES ASSUME HeldInv, [Next]_vars PROVE HeldInv'
    OBVIOUS
  <2>1. CASE UNCHANGED vars
    BY <2>1 DEF vars, openVars, HeldInv
  <2> QED
    BY <2>1, HeldInvMain, HeldInvOpen, HeldInvCommand, HeldInvRest
       DEF Next, MainThread, StartUp, ShutDown
<1> QED
  BY <1>1, <1>2, PTL DEF Spec

(* Whichever step of the start-up fails and however the commands end, main *)
(* releases no resource twice and returns with none of them but the        *)
(* objects of the two options that argtable[] does not list, which the     *)
(* code never frees.                                                       *)
THEOREM AllReleased == Spec => []Balanced
<1>1. HeldInv => Balanced
  <2> SUFFICES ASSUME HeldInv PROVE Balanced
    OBVIOUS
  <2>1. \A r \in Resources : res[r] \in 0..1
    BY DEF HeldInv
  <2>2. pc = "exited" => \A r \in Resources \ Unlisted : res[r] = 0
    BY ResourceNames DEF HeldInv
  <2> QED
    BY <2>1, <2>2 DEF Balanced
<1> QED
  BY <1>1, ResourcesHeld, PTL

(* Each handler of main.c, dterm.c and cmd_devmgr.c leaves values of the   *)
(* types that TypeOK gives.                                                *)
LEMMA TypeOKStep ==
  TypeOK /\ HeldInv' /\ SPP!TypeOK /\ [Next]_vars => TypeOK'
<1> SUFFICES ASSUME TypeOK, HeldInv', SPP!TypeOK, [Next]_vars PROVE TypeOK'
  OBVIOUS
<1>1. res' \in [Resources -> Int] /\ opened' \in 0..Len(OpenSteps)
  <2>1. Len(OpenSteps) = 9
    BY DEF OpenSteps
  <2>2. res' \in [Resources -> 0..1] /\ opened' \in 0..9
    BY DEF HeldInv
  <2> QED
    BY <2>1, <2>2
<1> USE DEF Next, MainThread, StartUp, Command, ShutDown, Declare, Gather,
            Parse, Report, TakeSocket, TakeStdin, Configure, FreeTable,
            OpenAcquire, OpenNoSocket, OpenFails, OpenThread, Settle, DtermInit, NextLine, StreamEnd,
            CreateReader, Calling, CreateReturns, SetRef, SendCmd,
            SendReturns, ReadNext, ReadReturns, EndReader, Term, LineDone,
            DtermDeinit, CloseCall, CloseReturns, Finish, InCall, IoThread,
            IoCancelled, Daemon, vars
<1>2. mark' \in Nat
  BY DEF TypeOK, SPP!TypeOK, Local
<1>3. pc' \in {"declare", "gather", "parse", "socket", "stdin", "config",
              "run", "bail", "crashed", "open", "settle", "dterm", "stream",
              "create", "created", "clock", "send", "sent", "read", "got",
              "destroy", "line", "deinit", "close", "closing", "finish",
              "exited"}
  <2>1. CASE StartUp
    BY <2>1 DEF Go
  <2>2. CASE Command
    BY <2>2 DEF Go
  <2>3. CASE ShutDown
    BY <2>3 DEF Go
  <2>4. CASE UNCHANGED pc
    BY <2>4 DEF TypeOK
  <2> QED
    BY <2>1, <2>2, <2>3, <2>4
<1>4. given' \subseteq Words
  BY DEF TypeOK, mainVars
<1>5. cliopt' \in [{"timeout", "tries"} -> {"unset", "default", "given"}]
  <2>1. CASE Configure
    BY <2>1 DEF cliopt_init, cliopt_settimeout, cliopt_settries, Value
  <2>2. CASE ~Configure
    <3>1. cliopt' = cliopt
      BY <2>2 DEF mainVars
    <3> QED
      BY <3>1 DEF TypeOK
  <2> QED
    BY <2>1, <2>2
<1>6. exitcode' \in {-2, 0, 1}
  BY DEF TypeOK, mainVars
<1>7. said' \in {"nothing", "memory", "help", "version", "usage", "no socket",
                "command failed"}
  BY DEF TypeOK, mainVars
<1>8. cmd' \in Nat /\ kind' \in {"plain", "empty", "badjson"} /\ sends' \in Nat
  <2>1. CASE NextLine \/ SendCmd
    <3>1. /\ cmd' = cmd \/ cmd' = cmd + 1
          /\ sends' = 0 \/ sends' = sends + 1
          /\ kind' \in {"plain", "empty", "badjson"} \/ kind' = kind
      BY <2>1
    <3>2. /\ cmd \in Nat /\ sends \in Nat
          /\ kind \in {"plain", "empty", "badjson"}
      BY DEF TypeOK
    <3>3. cmd' \in Nat /\ sends' \in Nat
      BY ONLY <3>1, <3>2
    <3> QED
      BY ONLY <3>1, <3>2, <3>3
  <2>2. CASE ~NextLine /\ ~SendCmd
    <3>1. cmd' = cmd /\ kind' = kind /\ sends' = sends
      BY <2>2 DEF cmdVars
    <3> QED
      BY <3>1 DEF TypeOK
  <2> QED
    BY <2>1, <2>2
<1>9. cmdrc' \in {-257, -6, -5, -4, -3, -1, 0}
  BY DEF TypeOK, cmdVars, Outcomes
<1> QED
  BY <1>1, <1>2, <1>3, <1>4, <1>5, <1>6, <1>7, <1>8, <1>9 DEF TypeOK

(* The program's own variables keep their types; exitcode and cmdrc never  *)
(* hold a value that main.c and dterm.c do not know.                       *)
THEOREM ProgramTypes == Spec => []TypeOK
<1>1. Init => TypeOK
  BY DEF Init, TypeOK, OpenSteps
<1>2. SPP!IndInv => SPP!TypeOK
  BY DEF SPP!IndInv
<1> QED
  BY <1>1, <1>2, TypeOKStep, ResourcesHeld, ProgramIndInv, PTL DEF Spec

(* The I/O thread, from pthread_create() to its end, has the object and    *)
(* every mutex and condition variable that it uses.                        *)
THEOREM ThreadKeepsObject == Spec => []ThreadHasObject
<1>1. TypeOK /\ HeldInv /\ CallInv /\ SPP!IndInv => ThreadHasObject
  <2> SUFFICES ASSUME TypeOK, HeldInv, CallInv, SPP!IndInv,
                      io \notin {"none", "dead"}
               PROVE  \A r \in SpResources \ {"fd"} : res[r] = 1
    BY DEF ThreadHasObject
  <2>1. handle = "open"
    BY DEF SPP!IndInv, SPP!LifeInv, SPP!TypeOK
  <2>2. pc \notin BeforeOpen \cup {"finish", "exited"}
    BY <2>1 DEF CallInv
  <2>3. opened = 9 /\ pc \in InOpen
    BY <2>2 DEF HeldInv, TypeOK
  <2> QED
    BY <2>3, ResourceNames DEF HeldInv
<1> QED
  BY <1>1, ProgramTypes, ResourcesHeld, CallsInOrder, ProgramIndInv, PTL

LEMMA LastOfAppend ==
  ASSUME NEW s \in Seq(Nat), NEW x \in Nat
  PROVE  /\ Append(s, x) # <<>>
         /\ Append(s, x)[Len(Append(s, x))] = x
OBVIOUS

(* What is read when last_read and read_id differ, with no publication     *)
(* half-way, was published after the reader was created.                   *)
LEMMA LoadIsFresh ==
  ASSUME SPP!IndInv, FreshInv, TypeOK, rdr, last_read # read_id,
         io \notin {"bump", "fill"}, SP!LoadRead, mark' = mark, read_buf # 0
  PROVE  Fresh'
<1>1. /\ last_read \in Nat /\ read_id \in Nat /\ read_buf \in Nat
      /\ recvd \in Nat /\ delivered \in Seq(Nat) /\ mark \in Nat
  BY DEF SPP!IndInv, SPP!TypeOK, TypeOK
<1>2. last_read < read_id /\ mark <= Seen
  BY <1>1 DEF SPP!IndInv, SPP!ReaderInv, FreshInv
<1>3. read_id = read_buf + 1
  BY <1>1 DEF SPP!IndInv, SPP!LineInv
<1>4. mark < read_buf
  BY <1>1, <1>2, <1>3 DEF Seen
<1>5. delivered' = Append(delivered, read_buf)
  BY DEF SP!LoadRead
<1> QED
  BY <1>1, <1>4, <1>5, LastOfAppend DEF Fresh

(* A step inside a call into sockpush. *)
LEMMA FreshInvInCall ==
  FreshInv /\ TypeOK /\ CallInv /\ SPP!IndInv /\ InCall => FreshInv'
<1> SUFFICES ASSUME FreshInv, TypeOK, CallInv, SPP!IndInv, InCall
             PROVE  FreshInv'
  OBVIOUS
<1>1. pc' = pc /\ cmdrc' = cmdrc /\ (cl # "create" => mark' = mark)
  BY DEF InCall, cmdVars
<1>2. pc # "destroy" /\ cl # "idle"
  BY DEF InCall, CallInv, SP!ClientStep, SP!ReaderCreate, SP!ReaderDestroy,
         SP!ReaderPurge, SP!ReadPeek, SP!ReadBusy, SP!ReadWait, SP!ReadWoken,
         SP!ReadTimeout, SP!ReadAwake, SP!ReadLoad, SP!ReadLeave,
         SP!ReadSignal, SP!WriteData, SP!WriteTerm, SP!WriteSigpipe,
         SP!CloseJoined
<1>3. pc = "got" => rdr /\ SP!InRead
  BY <1>2 DEF CallInv
<1> USE <1>1, <1>2, <1>3 DEF SP!InRead, SP!rdrVars
<1>4. CASE SP!ReaderCreate
  <2>1. cl = "create" /\ mark' = read_buf /\ pc # "got" /\ ~rdr
    BY <1>4 DEF InCall, SP!ReaderCreate, SPP!IndInv, SPP!ReaderInv
  <2>2. rdr' => mark' <= Seen'
    <3>1. CASE ~rdr'
      BY <3>1
    <3>2. CASE rdr'
      <4>1. last_read' = read_id /\ user_mutex = "free"
        BY <1>4, <2>1, <3>2 DEF SP!ReaderCreate
      <4>2. read_id \in Nat /\ read_buf \in Nat /\ recvd \in Nat
        BY DEF SPP!IndInv, SPP!TypeOK
      <4>3. io \notin {"bump", "fill"}
        BY <4>1 DEF SPP!IndInv, SPP!MutexInv, SPP!IoHolding
      <4>4. read_buf <= IF read_id = 0 THEN 0 ELSE read_id - 1
        BY <4>2, <4>3 DEF SPP!IndInv, SPP!LineInv
      <4> QED
        BY <2>1, <4>1, <4>4 DEF Seen
    <3> QED
      BY <3>1, <3>2
  <2> QED
    BY <2>1, <2>2 DEF FreshInv
<1>5. CASE SP!ReaderDestroy
  BY <1>5 DEF SP!ReaderDestroy, FreshInv
<1>6. CASE SP!ReaderPurge
  <2>1. cl = "purge"
    BY <1>6 DEF SP!ReaderPurge
  <2>2. cl # "purge"
    BY DEF CallInv, TypeOK
  <2> QED
    BY <2>1, <2>2
<1>7. CASE SP!ReadPeek
  <2>1. /\ cl = "try" /\ user_mutex = "free" /\ rdr' = rdr /\ mark' = mark
    BY <1>7 DEF SP!ReadPeek, SP!TryLockUser
  <2>2. io \notin {"bump", "fill"}
    BY <2>1 DEF SPP!IndInv, SPP!MutexInv, SPP!IoHolding
  <2>3. rdr
    BY <2>1 DEF SPP!IndInv, SPP!ReaderInv, SPP!InRead
  <2>4. CASE last_read = read_id
    <3>1. UNCHANGED <<last_read, delivered>> /\ cl' = "wait" /\ rc' = 0
      BY <1>7, <2>4 DEF SP!ReadPeek
    <3> QED
      BY <2>1, <3>1 DEF FreshInv, Seen, Fresh
  <2>5. CASE last_read # read_id
    <3>1. SP!LoadRead /\ last_read' = read_id
      BY <1>7, <2>5 DEF SP!ReadPeek, SP!LoadRead
    <3>2. mark' <= Seen'
      <4>1. /\ last_read \in Nat /\ read_id \in Nat /\ mark \in Nat
            /\ last_read <= read_id /\ mark <= Seen
        BY <2>3 DEF SPP!IndInv, SPP!TypeOK, SPP!ReaderInv, TypeOK, FreshInv
      <4> QED
        BY <2>1, <3>1, <4>1 DEF Seen
    <3>3. CASE read_buf = 0
      <4>1. cl' = "wait" /\ rc' = 0
        BY <1>7, <2>5, <3>3 DEF SP!ReadPeek
      <4> QED
        BY <3>2, <4>1 DEF FreshInv
    <3>4. CASE read_buf # 0
      <4>1. cl' = "idle"
        BY <1>7, <2>5, <3>4 DEF SP!ReadPeek, SP!Return
      <4>2. Fresh'
        BY <2>1, <2>2, <2>3, <2>5, <3>1, <3>4, LoadIsFresh
      <4> QED
        BY <3>2, <4>1, <4>2 DEF FreshInv
    <3> QED
      BY <3>3, <3>4
  <2> QED
    BY <2>4, <2>5
<1>8. CASE SP!ReadBusy \/ SP!ReadWait \/ SP!ReadWoken \/ SP!ReadTimeout
  <2>1. /\ UNCHANGED <<rdr, last_read, delivered, mark>>
        /\ cl' \in {"wait", "lineWait", "load", "leave"}
        /\ rc' = 0 \/ (rc' = rc /\ cl \in {"wait", "lineWait"})
        /\ cl \in {"try", "wait", "lineWait"}
    BY <1>8 DEF SP!ReadBusy, SP!ReadWait, SP!ReadWoken, SP!ReadTimeout,
                SP!ReadAwake
  <2> QED
    BY <2>1 DEF FreshInv, Seen
<1>9. CASE SP!ReadLoad
  <2>1. /\ cl = "load" /\ rdr' = rdr /\ mark' = mark /\ SP!LoadRead
        /\ cl' = "leave" /\ last_read' = read_id
        /\ rc' = IF read_buf = 0 THEN 0 ELSE 1
    BY <1>9 DEF SP!ReadLoad, SP!LoadRead
  <2>2. rdr
    BY <2>1 DEF SPP!IndInv, SPP!ReaderInv, SPP!InRead
  <2>3. /\ io \in {"armDone", "doneWait"} /\ last_read < read_id
        /\ last_read \in Nat /\ read_id \in Nat /\ mark \in Nat
    BY <2>1 DEF SPP!IndInv, SPP!HandshakeInv, SPP!Announced, SPP!TypeOK, TypeOK
  <2>4. mark' <= Seen'
    <3>1. mark <= Seen
      BY <2>2 DEF FreshInv
    <3> QED
      BY <2>1, <2>3, <3>1 DEF Seen
  <2>5. read_buf # 0 => Fresh'
    BY <2>1, <2>2, <2>3, LoadIsFresh
  <2> QED
    BY <2>1, <2>4, <2>5 DEF FreshInv
<1>10. CASE SP!ReadLeave \/ SP!ReadSignal
  <2>1. /\ UNCHANGED <<rdr, last_read, delivered, mark, rc>>
        /\ cl \in {"leave", "signal"} /\ cl' \in {"signal", "idle"}
    BY <1>10 DEF SP!ReadLeave, SP!ReadSignal
  <2> QED
    BY <2>1 DEF FreshInv, Seen, Fresh
<1>11. CASE SP!WriteData \/ SP!WriteTerm \/ SP!WriteSigpipe
  <2>1. /\ UNCHANGED <<rdr, last_read, delivered, mark>>
        /\ cl \in {"write", "writeTerm"}
    BY <1>11 DEF SP!WriteData, SP!WriteTerm, SP!WriteSigpipe
  <2> QED
    BY <2>1 DEF FreshInv, Seen
<1>12. CASE SP!CloseJoined
  <2>1. UNCHANGED <<rdr, last_read, mark>> /\ cl = "join"
    BY <1>12 DEF SP!CloseJoined
  <2> QED
    BY <2>1 DEF FreshInv, Seen
<1> QED
  BY <1>4, <1>5, <1>6, <1>7, <1>8, <1>9, <1>10, <1>11, <1>12
     DEF InCall, SP!ClientStep

(* A step of the main thread outside sockpush, a call, or a step of        *)
(* another thread: what the reader has had stays the same.                 *)
LEMMA FreshInvRest ==
  FreshInv /\ CallInv /\ [Next]_vars /\ ~InCall => FreshInv'
<1> SUFFICES ASSUME FreshInv, CallInv, [Next]_vars, ~InCall PROVE FreshInv'
  OBVIOUS
<1>1. UNCHANGED <<rdr, last_read, delivered, mark>>
  <2>1. CASE UNCHANGED sockVars
    <3>1. mark' = mark
      BY DEF Next, MainThread, StartUp, Command, ShutDown, Declare, Gather,
             Parse, TakeSocket, TakeStdin, Configure, FreeTable, OpenAcquire, OpenNoSocket,
             OpenFails, OpenThread, Settle, DtermInit, NextLine, StreamEnd,
             CreateReader, Calling, CreateReturns, SetRef, SendCmd,
             SendReturns, ReadNext, ReadReturns, EndReader, LineDone,
             DtermDeinit, CloseCall, CloseReturns, Finish, IoThread,
             IoCancelled, Daemon, Local, vars
    <3> QED
      BY <2>1, <3>1 DEF sockVars
  <2>2. CASE OpenThread \/ CloseCall \/ CloseReturns
    BY <2>2 DEF OpenThread, SP!SpOpen, CloseCall, SP!CloseEnter,
                CloseReturns, SP!CloseJoined, SP!rdrVars
  <2>3. CASE CreateReader \/ SendCmd \/ ReadNext \/ EndReader
    BY <2>3 DEF CreateReader, Calling, SendCmd, ReadNext, EndReader,
                SP!ReaderCreateCall, SP!Enter, SP!rdrVars, Local, sockVars
  <2>4. CASE IoThread \/ IoCancelled
    BY <2>4
    DEF IoThread, IoCancelled, SP!IoStep, SP!IoStart, SP!IoConnect,
        SP!IoSleep, SP!IoReadLine, SP!IoReadEnd, SP!IoReconnect,
        SP!IoLockUser, SP!IoBumpId, SP!IoFill, SP!IoBroadcast, SP!IoArmDone,
        SP!IoDoneWake, SP!IoUnlock, SP!IoCancelled, SP!IoFrame, SP!rdrVars
  <2>5. CASE Daemon
    BY <2>5 DEF Daemon, SP!Peer, SP!PeerUp, SP!PeerDown, SP!PeerSend,
                SP!PeerFrame, SP!rdrVars
  <2> QED
    BY <2>1, <2>2, <2>3, <2>4, <2>5
    DEF Next, MainThread, StartUp, Command, ShutDown, Declare, Gather, Parse,
        TakeSocket, TakeStdin, Configure, FreeTable, OpenAcquire, OpenNoSocket,
        OpenFails, Settle, DtermInit, NextLine, StreamEnd, CreateReturns,
        SetRef, SendReturns, ReadReturns, LineDone, DtermDeinit, Finish,
        Local, vars
<1>2. /\ rdr' => mark' <= Seen'
      /\ Fresh' <=> Fresh
  BY <1>1 DEF FreshInv, Seen, Fresh
<1>3. CASE UNCHANGED <<pc, cl, rc, cmdrc>>
  BY <1>2, <1>3 DEF FreshInv
<1>4. CASE ReadReturns
  <2>1. pc = "got" /\ cl = "idle" /\ pc' # "got"
    BY <1>4 DEF ReadReturns, Local, CallInv, SP!InRead, Term
  <2>2. pc' = "destroy" /\ cmdrc' >= 0 => rc > 0
    BY <1>4 DEF ReadReturns, Term
  <2> QED
    BY <1>2, <2>1, <2>2 DEF FreshInv
<1>5. CASE ReadNext
  <2>1. pc' = "got" /\ cl' = "try"
    BY <1>5 DEF ReadNext, Calling, Go, SP!Enter
  <2> QED
    BY <1>2, <2>1 DEF FreshInv
<1>6. CASE SetRef \/ SendReturns
  <2>1. pc' # "got" /\ (pc' = "destroy" => cmdrc' \in {-5, -6})
    BY <1>6 DEF SetRef, SendReturns, Term
  <2> QED
    BY <1>2, <2>1 DEF FreshInv
<1>7. CASE StartUp \/ ShutDown \/ NextLine \/ StreamEnd \/ CreateReader
             \/ CreateReturns \/ SendCmd \/ EndReader \/ LineDone
  <2>1. pc' \notin {"got", "destroy"}
    BY <1>7
    DEF StartUp, ShutDown, Declare, Gather, Parse, TakeSocket, TakeStdin,
        Configure, FreeTable, OpenAcquire, OpenNoSocket, OpenFails, OpenThread, Settle,
        DtermInit, NextLine, StreamEnd, CreateReader, Calling, CreateReturns,
        SendCmd, EndReader, LineDone, DtermDeinit, CloseCall, CloseReturns,
        Finish, Go
  <2> QED
    BY <1>2, <2>1 DEF FreshInv
<1>8. CASE IoThread \/ IoCancelled \/ Daemon
  <2>1. UNCHANGED <<cl, rc>>
    BY <1>8
    DEF IoThread, IoCancelled, SP!IoStep, SP!IoStart, SP!IoConnect,
        SP!IoSleep, SP!IoReadLine, SP!IoReadEnd, SP!IoReconnect,
        SP!IoLockUser, SP!IoBumpId, SP!IoFill, SP!IoBroadcast, SP!IoArmDone,
        SP!IoDoneWake, SP!IoUnlock, SP!IoCancelled, SP!IoFrame,
        Daemon, SP!Peer, SP!PeerUp, SP!PeerDown, SP!PeerSend, SP!PeerFrame
  <2> QED
    BY <1>3, <1>8, <2>1 DEF IoThread, IoCancelled, Daemon, cmdVars
<1>9. CASE UNCHANGED vars
  BY <1>3, <1>9 DEF vars, sockVars, cmdVars
<1> QED
  BY <1>4, <1>5, <1>6, <1>7, <1>8, <1>9 DEF Next, MainThread, Command

(* A command that ends well took a line that was put into read_buf after   *)
(* its reader was created: no line that an earlier command left there, and *)
(* none at all when the connection failed or was lost, can pass for an     *)
(* answer.  A line that was on its way before the command began can.       *)
THEOREM NotLeftOver == Spec => []NoLeftOverAnswer
<1>1. Init => FreshInv
  BY DEF Init, SP!Init, FreshInv
<1>2. FreshInv /\ TypeOK /\ CallInv /\ SPP!IndInv /\ [Next]_vars => FreshInv'
  BY FreshInvInCall, FreshInvRest
<1>3. FreshInv => NoLeftOverAnswer
  BY DEF FreshInv, Fresh, NoLeftOverAnswer
<1> QED
  BY <1>1, <1>2, <1>3, ProgramTypes, CallsInOrder, ProgramIndInv, PTL DEF Spec
=============================================================================
