------------------------------- MODULE Ottercat ------------------------------
(***************************************************************************)
(* The whole program: main() and ottercat_main() (main/main.c) with the    *)
(* option store (main/cliopt.c), sp_open() with its clean-up and           *)
(* sp_close() (main/sockpush.c), dterm (main/dterm.c) and the command      *)
(* handler (main/cmd_devmgr.c), composed with Sockpush.tla: the client of  *)
(* sockpush here is the real one, and the I/O thread runs beside it.       *)
(*                                                                         *)
(* pc is where the main thread is.  A call into sockpush takes pc to the   *)
(* place behind the call; inside the call Sockpush's cl says where it is.  *)
(* What a line of the daemon makes the handler do is CmdDevmgr's subject:  *)
(* here every outcome is possible.  So is running out of time.             *)
(***************************************************************************)
EXTENDS Integers, Sequences

CONSTANTS
  MaxLines, MaxBackoff,   \* as in Sockpush
  MaxCmds,                \* bound: command lines in the stream
  MaxSends                \* how often global_timeout lets a command be sent

ASSUME OttercatAssumption ==
  /\ MaxLines \in Nat
  /\ MaxBackoff \in Nat \ {0}
  /\ MaxCmds \in Nat
  /\ MaxSends \in Nat \ {0}

VARIABLES
  \* Sockpush
  peer, sent, handle, fd_sock, read_id, read_buf, user_mutex, readline_mutex,
  readline_inactive, readdone_inactive, readers, waiting_readers, io, recvd,
  backoff, cancel, cl, rc, rdr, last_read, delivered,
  \* main() and ottercat_main()
  pc,
  given,        \* options on the command line
  cliopt,       \* where timeout and tries come from
  exitcode,
  said,         \* what the user was told last on stdout or stderr
  res,          \* how often each resource is held
  opened,       \* steps of sp_open() done
  \* dterm and cmd_devmgr
  cmd,          \* number of the command line being processed
  kind,         \* what it is: "plain", "empty", "badjson"
  sends, cmdrc,
  mark          \* history: the line in read_buf when the reader was created

sockVars == <<peer, sent, handle, fd_sock, cancel, read_id, read_buf, recvd,
              user_mutex, readline_mutex, readline_inactive,
              readdone_inactive, readers, waiting_readers, io, backoff, cl,
              rc, rdr, last_read, delivered>>
mainVars == <<given, cliopt, exitcode, said>>
openVars == <<res, opened>>
cmdVars  == <<cmd, kind, sends, cmdrc>>
vars == <<sockVars, pc, mainVars, openVars, cmdVars, mark>>

SP == INSTANCE Sockpush

(* What sp_open() does, in its order. *)
OpenSteps == <<"object", "path", "fd", "user_mutex", "readline_mutex",
               "readline_cond", "readdone_mutex", "readdone_cond", "thread">>

(* The options main() declares, verbose and debug, which only concern       *)
(* output, left out; a command line may also hold another one.             *)
Options == {"help", "version", "timeout", "retries", "socket"}
Words == Options \cup {"other"}

(* argtable[]: timeout and retries are declared but not listed. *)
ArgTable == {"help", "version", "socket"}
Unlisted == Options \ ArgTable

(* What the program acquires and has to release.  "argtable" stands for    *)
(* the objects of the options that argtable[] lists; the others have one   *)
(* each of their own.                                                      *)
SpResources == {OpenSteps[i] : i \in DOMAIN OpenSteps} \ {"path"}
Resources ==
  SpResources \cup Unlisted \cup
    {"argtable", "cmdstr", "socket_val", "pctx", "tctx", "hooks"}

Init ==
  /\ SP!Init
  /\ pc = "declare"
  /\ given \in SUBSET Words
  /\ cliopt = [timeout |-> "unset", tries |-> "unset"]
  /\ exitcode = 0 /\ said = "nothing"
  /\ res = [r \in Resources |-> 0] /\ opened = 0
  /\ cmd = 0 /\ kind = "plain" /\ sends = 0 /\ cmdrc = 0 /\ mark = 0

Go(from, to) == pc = from /\ pc' = to

(* The main thread between two calls into sockpush. *)
Local == cl \in {"idle", "closed"} /\ UNCHANGED <<sockVars, mark>>

Acquire(r) == res' = [res EXCEPT ![r] = @ + 1]

(* free(NULL) and close() of a closed descriptor do nothing. *)
Forgiving == {"fd", "cmdstr", "socket_val"}

Release(S) ==
  res' = [r \in Resources |->
            IF r \notin S THEN res[r]
            ELSE IF r \in Forgiving THEN 0 ELSE res[r] - 1]

-----------------------------------------------------------------------------
(* main().                                                                 *)

(* An object for every option; memory may be lacking for any of them. *)
Declare ==
  /\ Go("declare", "gather")
  /\ \E S \in SUBSET Unlisted :
       res' = [r \in Resources |->
                 res[r] + IF r \in S \cup {"argtable"} THEN 1 ELSE 0]
  /\ UNCHANGED <<mainVars, opened, cmdVars>>
  /\ Local

(* The words behind "--" are put together, if there are any. *)
Gather ==
  /\ \/ Go("gather", "parse") /\ UNCHANGED res
     \/ Go("gather", "parse") /\ Acquire("cmdstr")
     \/ Go("gather", "bail") /\ UNCHANGED res
  /\ UNCHANGED <<mainVars, opened, cmdVars>>
  /\ Local

(* A bad end: what the user is told and the exit code. *)
Report(words, code) == said' = words /\ exitcode' = code

(* arg_parse() counts what argtable[] does not list, and a missing socket. *)
Refused == ~(given \subseteq ArgTable) \/ "socket" \notin given

(* An object of the table may be lacking, which arg_nullcheck() finds; one *)
(* of an option that is not listed is read without a test.                 *)
Parse ==
  /\ \/ Go("parse", "bail") /\ Report("memory", 1)
     \/ /\ "help" \in given
        /\ Go("parse", "bail") /\ Report("help", 0)
     \/ /\ "help" \notin given /\ "version" \in given
        /\ Go("parse", "bail") /\ Report("version", 0)
     \/ /\ given \cap {"help", "version"} = {} /\ Refused
        /\ Go("parse", "bail") /\ Report("usage", 1)
     \/ /\ given \cap {"help", "version"} = {} /\ ~Refused
        /\ Go("parse", IF \A o \in Unlisted : res[o] = 1 THEN "socket"
                                                         ELSE "crashed")
        /\ UNCHANGED <<said, exitcode>>
  /\ UNCHANGED <<given, cliopt, openVars, cmdVars>>
  /\ Local

(* FILL_STRINGARG; without memory the program ends without a word. *)
TakeSocket ==
  /\ \/ /\ Go("socket", IF res["cmdstr"] = 1 THEN "config" ELSE "stdin")
        /\ Acquire("socket_val")
     \/ Go("socket", "bail") /\ UNCHANGED res
  /\ UNCHANGED <<mainVars, opened, cmdVars>>
  /\ Local

(* The command string comes from stdin: a line, or nothing. *)
TakeStdin ==
  /\ \/ Go("stdin", "config") /\ Acquire("cmdstr")
     \/ Go("stdin", "bail") /\ Acquire("cmdstr")
     \/ Go("stdin", "bail") /\ UNCHANGED res
  /\ UNCHANGED <<mainVars, opened, cmdVars>>
  /\ Local

(* The option store; timeout_val and tries_val are given or the default. *)
cliopt_init == [timeout |-> "default", tries |-> "default"]
cliopt_settimeout(o, val) == [o EXCEPT !.timeout = val]
cliopt_settries(o, val) == [o EXCEPT !.tries = val]

Value(option) == IF option \in given THEN "given" ELSE "default"

Configure ==
  /\ Go("config", "run")
  /\ cliopt' = cliopt_settries(
                 cliopt_settimeout(cliopt_init, Value("timeout")),
                 Value("retries"))
  /\ UNCHANGED <<given, exitcode, said, openVars, cmdVars>>
  /\ Local

(* main_FINISH: arg_freetable() takes the objects that argtable[] lists;   *)
(* then ottercat_main() runs or, with bailout still set, does not.         *)
FreeTable ==
  /\ Go("run", "open") \/ Go("bail", "finish")
  /\ Release({"argtable"})
  /\ UNCHANGED <<mainVars, opened, cmdVars>>
  /\ Local

(* The strings are freed, whether ottercat_main() has run or not. *)
Finish ==
  /\ Go("finish", "exited")
  /\ Release({"socket_val", "cmdstr"})
  /\ UNCHANGED <<mainVars, opened, cmdVars>>
  /\ Local

-----------------------------------------------------------------------------
(* ottercat_main(): start-up and the end.                                  *)

Opening == OpenSteps[opened + 1]

OpenAcquire ==
  /\ Go("open", "open")
  /\ Opening # "thread"
  /\ IF Opening = "path" THEN UNCHANGED res ELSE Acquire(Opening)
  /\ opened' = opened + 1
  /\ UNCHANGED <<mainVars, cmdVars>>
  /\ Local

(* socket() fails and nobody looks. *)
OpenNoSocket ==
  /\ Go("open", "open")
  /\ Opening = "fd"
  /\ opened' = opened + 1
  /\ UNCHANGED <<mainVars, res, cmdVars>>
  /\ Local

(* rc of the step that failed. *)
OpenError ==
  [object |-> -2, path |-> -3, user_mutex |-> -5, readline_mutex |-> -7,
   readline_cond |-> -8, readdone_mutex |-> -9, readdone_cond |-> -10,
   thread |-> -11]

(* The case of the clean-up switch at which each resource is released. *)
CleanupCase ==
  [readdone_cond |-> -11, readdone_mutex |-> -10, readline_cond |-> -9,
   readline_mutex |-> -8, user_mutex |-> -6, fd |-> -5, object |-> -3]

(* Mutation of Cleanup: every case has a break. *)
Cleanup_NoFallThrough(err) ==
  {r \in DOMAIN CleanupCase : err = CleanupCase[r]}

(* The cases fall through; rc = -2 does not get there. *)
Cleanup(err) == {r \in DOMAIN CleanupCase : err <= CleanupCase[r]}

(* sp_open() fails and has cleaned up; ottercat_main() gives up. *)
OpenFails ==
  /\ Go("open", "finish") /\ Report("no socket", -2)
  /\ Opening # "fd"
  /\ Release(Cleanup(OpenError[Opening]))
  /\ UNCHANGED <<given, cliopt, opened, cmdVars>>
  /\ Local

(* pthread_create(): the I/O thread starts, sp_open() returns 0. *)
OpenThread ==
  /\ Go("open", "settle")
  /\ Opening = "thread"
  /\ SP!SpOpen
  /\ fd_sock' = IF res["fd"] = 1 THEN "unconnected" ELSE "badfd"
  /\ Acquire("thread")
  /\ opened' = opened + 1
  /\ UNCHANGED <<mainVars, cmdVars, mark>>

(* usleep(5000): whatever the other threads do meanwhile. *)
Settle ==
  /\ Go("settle", "dterm")
  /\ UNCHANGED <<mainVars, openVars, cmdVars>>
  /\ Local

(* dterm_init(); without memory the socket is closed again. *)
DtermInit ==
  /\ \/ Go("dterm", "stream") /\ Acquire("pctx") /\ UNCHANGED exitcode
     \/ Go("dterm", "close") /\ exitcode' = -2 /\ UNCHANGED res
  /\ UNCHANGED <<given, cliopt, said, opened, cmdVars>>
  /\ Local

DtermDeinit ==
  /\ Go("deinit", "close")
  /\ Release({"pctx"})
  /\ UNCHANGED <<mainVars, opened, cmdVars>>
  /\ Local

CloseCall ==
  /\ Go("close", "closing")
  /\ SP!CloseEnter
  /\ UNCHANGED <<mainVars, openVars, cmdVars, mark>>

(* What sp_close() releases once the thread is joined. *)
Closed == SpResources

CloseReturns ==
  /\ Go("closing", "finish")
  /\ SP!CloseJoined
  /\ Release(Closed)
  /\ UNCHANGED <<mainVars, opened, cmdVars, mark>>

-----------------------------------------------------------------------------
(* dterm_cmdstream() and cmd_devmgr().                                     *)

(* The next line of the stream gets its memory pool, to which the hooks of *)
(* the JSON and option parsers are set; JSON without string type and data  *)
(* is dropped and leaves cmdrc as it was: anything.                        *)
NextLine ==
  /\ cmd < MaxCmds
  /\ cmd' = cmd + 1
  /\ sends' = 0
  /\ res' = [res EXCEPT !["tctx"] = @ + 1, !["hooks"] = @ + 1]
  /\ \/ /\ kind' \in {"plain", "empty"}
        /\ Go("stream", "create")
        /\ UNCHANGED cmdrc
     \/ /\ kind' = "badjson"
        /\ Go("stream", "line")
        /\ cmdrc' \in {-1, 0}
  /\ UNCHANGED <<mainVars, opened>>
  /\ Local

StreamEnd ==
  /\ Go("stream", "deinit")
  /\ UNCHANGED <<mainVars, openVars, cmdVars>>
  /\ Local

(* A call into sockpush; that it keeps sockpush's rules is to be shown. *)
Calling(from, call, to) ==
  /\ Go(from, to)
  /\ call
  /\ UNCHANGED <<mainVars, openVars, cmdVars, mark>>

CreateReader == Calling("create", SP!ReaderCreateCall, "created")
ReadNext     == Calling("read", SP!Enter("try"), "got")

(* Mutation of EndReader: the handler leaves without giving its reader up. *)
EndReader_Skipped ==
  /\ Go("destroy", "line")
  /\ UNCHANGED <<mainVars, openVars, cmdVars>>
  /\ Local

EndReader == Calling("destroy", SP!Enter("destroy"), "line")

(* The handler ends with result, and gives its reader back at TERM. *)
Term(result) == pc' = "destroy" /\ cmdrc' = result

CreateReturns ==
  /\ pc = "created"
  /\ \/ rdr /\ pc' = "clock" /\ UNCHANGED cmdrc
     \/ ~rdr /\ pc' = "line" /\ cmdrc' = -3
  /\ UNCHANGED <<mainVars, openVars, cmd, kind, sends>>
  /\ Local

(* clock_gettime() may fail. *)
SetRef ==
  /\ pc = "clock"
  /\ \/ pc' = "send" /\ UNCHANGED cmdrc
     \/ Term(-5)
  /\ UNCHANGED <<mainVars, openVars, cmd, kind, sends>>
  /\ Local

(* sp_sendcmd(), which does nothing with an empty command. *)
SendCmd ==
  /\ sends' = sends + 1
  /\ \/ /\ kind = "plain"
        /\ Go("send", "sent")
        /\ SP!Enter("write")
        /\ UNCHANGED mark
     \/ /\ kind = "empty"
        /\ Go("send", "read")
        /\ Local
  /\ UNCHANGED <<mainVars, openVars, cmd, kind, cmdrc>>

SendReturns ==
  /\ pc = "sent"
  /\ IF rc < 0 THEN Term(-6) ELSE pc' = "read" /\ UNCHANGED cmdrc
  /\ UNCHANGED <<mainVars, openVars, cmd, kind, sends>>
  /\ Local

(* Mutation of Outcomes: the daemon's error is passed on unnegated. *)
Outcomes_Unsigned == {0, 257, -1}

(* cmdrc behind a line: answered (0 for any size), refused (-257 for any   *)
(* err of the daemon), or passed over when the time ran out.               *)
Outcomes == {0, -257, -1}

(* sp_read() had a line: it answers the command, refuses it, is passed     *)
(* over or is a bad frame, or the time is over.  It had none: the command  *)
(* is sent again, or the time is over.                                     *)
ReadReturns ==
  /\ pc = "got"
  /\ \/ rc > 0 /\ \E result \in Outcomes : Term(result)
     \/ rc > 0 /\ pc' = "read" /\ UNCHANGED cmdrc
     \/ \E result \in {-4, -5} : Term(result)
     \/ sends < MaxSends /\ pc' = "send" /\ UNCHANGED cmdrc
  /\ UNCHANGED <<mainVars, openVars, cmd, kind, sends>>
  /\ Local

(* The hooks are put back and the memory pool goes; a failure is reported  *)
(* and ends the stream.                                                    *)
LineDone ==
  /\ pc = "line"
  /\ Release({"tctx", "hooks"})
  /\ IF cmdrc < 0
     THEN pc' = "deinit" /\ said' = "command failed"
     ELSE pc' = "stream" /\ UNCHANGED said
  /\ UNCHANGED <<given, cliopt, exitcode, opened, cmdVars>>
  /\ Local

-----------------------------------------------------------------------------

(* The main thread inside a call into sockpush. *)
InCall ==
  /\ pc # "closing"
  /\ SP!ClientStep
  /\ mark' = IF cl = "create" THEN read_buf ELSE mark
  /\ UNCHANGED <<pc, mainVars, openVars, cmdVars>>

(* The I/O thread; RECONNECT closes the descriptor. *)
IoThread ==
  /\ SP!IoStep
  /\ IF io = "close" THEN Release({"fd"}) ELSE UNCHANGED res
  /\ UNCHANGED <<pc, mainVars, opened, cmdVars, mark>>

IoCancelled ==
  /\ SP!IoCancelled
  /\ UNCHANGED <<pc, mainVars, openVars, cmdVars, mark>>

Daemon == SP!Peer /\ UNCHANGED <<pc, mainVars, openVars, cmdVars, mark>>

StartUp == \/ Declare \/ Gather \/ Parse \/ TakeSocket \/ TakeStdin
           \/ Configure \/ FreeTable \/ OpenAcquire \/ OpenNoSocket \/ OpenFails \/ OpenThread
           \/ Settle \/ DtermInit
Command == \/ NextLine \/ StreamEnd \/ CreateReader \/ CreateReturns \/ SetRef
           \/ SendCmd \/ SendReturns \/ ReadNext \/ ReadReturns \/ EndReader
           \/ LineDone
ShutDown == DtermDeinit \/ CloseCall \/ CloseReturns \/ Finish

MainThread == StartUp \/ Command \/ ShutDown \/ InCall

(* The process is over: main() has returned, SIGPIPE was raised, or the    *)
(* lacking object of an unlisted option was read.                          *)
Ended == pc \in {"exited", "crashed"} \/ cl = "killed"

Next == \/ MainThread \/ IoThread \/ IoCancelled \/ Daemon
        \/ Ended /\ UNCHANGED vars

Spec == Init /\ [][Next]_vars

(* Both threads keep running and a pending cancellation is delivered; the  *)
(* daemon owes nothing.                                                    *)
FairSpec == /\ Spec
            /\ WF_vars(MainThread)
            /\ WF_vars(IoThread)
            /\ WF_vars(IoCancelled)

-----------------------------------------------------------------------------
(* Properties.                                                             *)

(* The main thread's variables keep their types; exit codes and results    *)
(* are the ones main.c and dterm.c know.                                   *)
TypeOK ==
  /\ pc \in {"declare", "gather", "parse", "socket", "stdin", "config", "run",
             "bail", "crashed", "open", "settle", "dterm", "stream", "create",
             "created", "clock", "send", "sent", "read", "got", "destroy",
             "line", "deinit", "close", "closing", "finish", "exited"}
  /\ given \subseteq Words
  /\ cliopt \in [{"timeout", "tries"} -> {"unset", "default", "given"}]
  /\ exitcode \in {-2, 0, 1}
  /\ said \in {"nothing", "memory", "help", "version", "usage", "no socket",
               "command failed"}
  /\ res \in [Resources -> Int] /\ opened \in 0..Len(OpenSteps)
  /\ cmd \in Nat /\ kind \in {"plain", "empty", "badjson"} /\ sends \in Nat
  /\ cmdrc \in {-257, -6, -5, -4, -3, -1, 0}
  /\ mark \in Nat

(* The program keeps the rules under which sockpush is shown correct: it   *)
(* reads with a reader only, uses an open handle only, and closes when it  *)
(* has given its reader back, on every error path.  So what Sockpush.tla   *)
(* promises of any such client holds of this program.                      *)
SockpushSpec == SP!Spec

(* Whichever step of the start-up fails and however the commands end, no   *)
(* resource is released twice, and when main() returns all are released    *)
(* but the objects of timeout and retries: arg_freetable() (main.c:415) is *)
(* given the table, in which they are not listed, and nothing else frees   *)
(* them.                                                                   *)
Balanced ==
  /\ \A r \in Resources : res[r] \in 0..1
  /\ pc = "exited" => \A r \in Resources \ Unlisted : res[r] = 0

(* The I/O thread never outlives the mutexes, condition variables and      *)
(* memory it works with.                                                   *)
ThreadHasObject ==
  io \notin {"none", "dead"} => \A r \in SpResources \ {"fd"} : res[r] = 1

(* A command that ends well took a line that the I/O thread put into       *)
(* read_buf after the command had its reader: never without a connection,  *)
(* and never the line that an earlier command left there.  When the daemon *)
(* sent the line is not said: one that was under way before the command    *)
(* passes too (CmdDevmgr!AckAnswersCommand).                               *)
NoLeftOverAnswer ==
  /\ pc = "got" /\ cl = "idle" /\ rc > 0 =>
       delivered # <<>> /\ delivered[Len(delivered)] > mark
  /\ pc = "destroy" /\ cmdrc >= 0 =>
       delivered # <<>> /\ delivered[Len(delivered)] > mark

(* The I/O thread waits, with user_mutex, for a reader that has already    *)
(* signalled, and the main thread waits for user_mutex.                    *)
SignalLost == io = "doneWait" /\ readdone_inactive /\ cl \in {"write", "destroy"}

(* The program ends, whatever the daemon does or fails to do; only a       *)
(* readdone signal that came too early can hang it.                        *)
EndsUnlessSignalLost == <>Ended \/ <>[]SignalLost

-----------------------------------------------------------------------------
(* What the source says and the code does not do.                          *)

(* "There's a timeout enforced" (cmd_devmgr.c:239): the program ends. *)
ProgramEnds == <>Ended
=============================================================================
