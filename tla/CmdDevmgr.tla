------------------------------- MODULE CmdDevmgr -----------------------------
(***************************************************************************)
(* The request/response protocol with the daemon: sub_devmgr_socket()      *)
(* (main/cmd_devmgr.c) run for one command line after another by the loop  *)
(* of dterm_cmdstream() (main/dterm.c).                                    *)
(*                                                                         *)
(* sp_read() is used through what Mailbox.tla promises: it hands out a     *)
(* line of the daemon, possibly passing over older ones that were          *)
(* overwritten, or nothing when read_timeout is over.  Time is counted in  *)
(* ticks and passes only inside sp_read().                                 *)
(*                                                                         *)
(* The daemon (external) answers every command it receives with an ack,    *)
(* which opens a session when its sid is not 0, and a session with rxstat  *)
(* lines; other lines may come at any time.                                *)
(***************************************************************************)
EXTENDS Integers, Sequences, FiniteSets

CONSTANTS
  ReadTimeout,       \* cliopt_gettimeout(), in ticks
  Tries,             \* cliopt_gettries(): 1 + the retries asked for
  MaxCmds,           \* bound: command lines in the stream
  MaxNoise,          \* bound: lines of the daemon that answer nothing
  MaxCorrupt,        \* bound: rxstat lines with a bad qual or frame
  MaxFrames          \* bound: rxstat lines of one session

ASSUME CmdDevmgrAssumption ==
  /\ ReadTimeout \in Nat \ {0}
  /\ Tries \in Nat \ {0}
  /\ MaxCmds \in Nat /\ MaxNoise \in Nat /\ MaxCorrupt \in Nat
  /\ MaxFrames \in Nat \ {0}

VARIABLES
  \* sub_devmgr_socket() and the loop around it
  phase,             \* "idle", "clock", "send", "read", "term", "stopped"
  cmd,               \* number of the command line being processed
  reader,            \* does the handler hold the sockpush reader?
  state, cmd_sid, rc,
  elapsed,           \* time since ref
  global_timeout,
  \* the daemon and the socket (external)
  inbox,             \* commands the daemon has not answered yet
  sessions,          \* open sessions
  wire,              \* lines on their way to the reader
  noise, corrupt,    \* how much of the daemon's bounds is used up
  \* history
  attempts,          \* commands sent, all in all
  sends,             \* how often the present command was sent
  badFrames,         \* how many bad frames it was answered with
  accepted           \* commands whose answers were accepted for this one

devVars == <<phase, cmd, reader, state, cmd_sid, rc, elapsed, global_timeout>>
daemonVars == <<inbox, sessions, noise, corrupt>>
sentVars == <<attempts, sends>>
answerVars == <<badFrames, accepted>>
vars == <<devVars, daemonVars, wire, sentVars, answerVars>>

GlobalTimeout == ReadTimeout * Tries + (ReadTimeout \div 2)

(* A line of the daemon; "of" is the command it answers (0: none).         *)
Line(type, of, err, sid, len) ==
  [type |-> type, of |-> of, err |-> err, sid |-> sid, len |-> len]

Init ==
  /\ phase = "idle" /\ cmd = 0 /\ reader = FALSE
  /\ state = 0 /\ cmd_sid = -1 /\ rc = 0
  /\ elapsed = 0 /\ global_timeout = GlobalTimeout
  /\ inbox = <<>> /\ sessions = {} /\ wire = <<>>
  /\ noise = 0 /\ corrupt = 0
  /\ attempts = 0 /\ sends = 0 /\ badFrames = 0 /\ accepted = {}

-----------------------------------------------------------------------------
(* The daemon; what it does after the last command is of no interest.      *)

StreamDone == phase = "stopped" \/ (phase = "idle" /\ cmd = MaxCmds)

(* The oldest command is answered: refused (err = -1, also what the parser *)
(* makes of a missing err field), done without a session (sid = 0), or   *)
(* taken over the air under a fresh sid.                                   *)
DaemonAck ==
  /\ inbox # <<>>
  /\ LET c == Head(inbox) IN
     \/ /\ \E err \in {-1, 0} :
             wire' = Append(wire, Line("ack", c.of, err, 0, 0))
        /\ UNCHANGED sessions
     \/ /\ wire' = Append(wire, Line("ack", c.of, 0, c.sid, 0))
        /\ sessions' = sessions \cup {[of |-> c.of, sid |-> c.sid, frames |-> 0]}
  /\ inbox' = Tail(inbox)
  /\ UNCHANGED <<devVars, noise, corrupt, sentVars, answerVars>>

(* A session yields an rxstat; len = -1 stands for one that is corrupted   *)
(* or has no frame string.                                                 *)
DaemonRxstat ==
  /\ \E s \in sessions :
       \E len \in {-1, 1} :
         /\ len = -1 => corrupt < MaxCorrupt
         /\ corrupt' = IF len = -1 THEN corrupt + 1 ELSE corrupt
         /\ wire' = Append(wire, Line("rxstat", s.of, 0, s.sid, len))
         /\ sessions' = (sessions \ {s}) \cup
              (IF s.frames + 1 = MaxFrames THEN {}
                                           ELSE {[s EXCEPT !.frames = @ + 1]})
  /\ UNCHANGED <<devVars, inbox, noise, sentVars, answerVars>>

(* A msg line (or something that is not JSON, which the handler treats     *)
(* alike), or an rxstat of somebody else.                                  *)
DaemonNoise ==
  /\ noise < MaxNoise
  /\ noise' = noise + 1
  /\ \E type \in {"msg", "rxstat"} :
       wire' = Append(wire, Line(type, 0, 0, -2, 1))
  /\ UNCHANGED <<devVars, inbox, sessions, corrupt, sentVars, answerVars>>

Daemon == DaemonAck \/ DaemonRxstat \/ DaemonNoise

-----------------------------------------------------------------------------
(* sub_devmgr_socket().                                                    *)

DevFrame == UNCHANGED daemonVars

(* The next command line; sp_reader_create() gives no reader when memory   *)
(* or the reader slot is lacking, and otherwise skips what has arrived.    *)
StartCmd ==
  /\ phase = "idle" /\ cmd < MaxCmds
  /\ cmd' = cmd + 1
  /\ accepted' = {} /\ sends' = 0 /\ badFrames' = 0
  /\ elapsed' = 0 /\ global_timeout' = GlobalTimeout
  /\ \/ /\ ~reader
        /\ reader' = TRUE
        /\ \E n \in 0..Len(wire) : wire' = SubSeq(wire, n + 1, Len(wire))
        /\ phase' = "clock"
        /\ UNCHANGED rc
     \/ /\ rc' = -3
        /\ phase' = "stopped"
        /\ UNCHANGED <<reader, wire>>
  /\ UNCHANGED <<state, cmd_sid, attempts>>
  /\ DevFrame

(* The timeout reference. *)
StartClock ==
  /\ phase = "clock"
  /\ \/ phase' = "send" /\ UNCHANGED rc
     \/ phase' = "term" /\ rc' = -5
  /\ UNCHANGED <<cmd, reader, state, cmd_sid, elapsed, global_timeout, wire,
                 sentVars, answerVars>>
  /\ DevFrame

(* sp_sendcmd(): rc < 0, or the daemon gets the command; an empty line is  *)
(* "sent" without a write().                                               *)
SendCmd ==
  /\ phase = "send"
  /\ \/ /\ attempts' = attempts + 1 /\ sends' = sends + 1
        /\ \/ inbox' = Append(inbox, [of |-> cmd, sid |-> attempts + 1])
           \/ UNCHANGED inbox
        /\ state' = 0 /\ cmd_sid' = -1
        /\ phase' = "read"
        /\ UNCHANGED rc
     \/ /\ rc' = -6
        /\ phase' = "term"
        /\ UNCHANGED <<sentVars, inbox, state, cmd_sid>>
  /\ UNCHANGED <<cmd, reader, elapsed, global_timeout, sessions, wire, noise,
                 corrupt, answerVars>>

(* Mutation of IsFrame: an rxstat of any session will do. *)
IsFrame_AnySession(m) == state = 1 /\ m.type = "rxstat"

(* State 1 looks for an rxstat with the saved sid. *)
IsFrame(m) == state = 1 /\ m.type = "rxstat" /\ m.sid = cmd_sid

(* Mutation of AckError: the sign of err is kept. *)
AckError_NoAbs(err) == -256 - err

(* The result for an ack with a non-zero err. *)
AckError(err) == -256 - (IF err < 0 THEN -err ELSE err)

(* What the switch over state makes of a line: the new state and cmd_sid,  *)
(* rc, and whether it leaves by goto TERM.                                 *)
Verdict(m) ==
  LET ignored == [state |-> state, sid |-> cmd_sid, rc |-> -1, leave |-> FALSE]
      isAck    == state = 0 /\ m.type = "ack"
  IN CASE isAck /\ m.err # 0 ->
            [ignored EXCEPT !.rc = AckError(m.err), !.leave = TRUE]
       [] isAck /\ m.err = 0 /\ m.sid = 0 ->
            [ignored EXCEPT !.sid = 0, !.rc = 0, !.leave = TRUE]
       [] isAck /\ m.err = 0 /\ m.sid # 0 ->
            [ignored EXCEPT !.state = 1, !.sid = m.sid]
       [] IsFrame(m) ->
            [ignored EXCEPT !.state = 2, !.rc = IF m.len < 0 THEN -4 ELSE m.len]
       [] OTHER -> ignored

Accepts(m) == Verdict(m).state # state \/ Verdict(m).leave

(* The time since ref is subtracted anew every time the loop comes by.     *)
Retract(spent) == global_timeout - spent

(* Mutation of LoopTail: the clock is looked at after a timeout only, not  *)
(* after a line that is passed over.                                       *)
LoopTail_Timeouts(result, leave, dt) ==
  /\ elapsed' = elapsed + dt
  /\ rc' = result
  /\ IF leave \/ result >= 0 THEN phase' = "term" /\ UNCHANGED global_timeout
     ELSE IF result = -4
     THEN /\ global_timeout' = Retract(elapsed')
          /\ phase' = IF global_timeout' <= 0 THEN "term" ELSE "send"
     ELSE phase' = "read" /\ UNCHANGED global_timeout

(* The tail of the loop, after a line or a timeout that cost dt ticks and  *)
(* left result; clock_gettime() may fail.                                  *)
LoopTail(result, leave, dt) ==
  LET spent == elapsed + dt IN
  /\ elapsed' = spent
  /\ \/ /\ leave \/ result >= 0
        /\ rc' = result
        /\ phase' = "term"
        /\ UNCHANGED global_timeout
     \/ /\ ~leave /\ result < 0
        /\ rc' = result
        /\ global_timeout' = Retract(spent)
        /\ phase' = IF global_timeout' <= 0 THEN "term"
                    ELSE IF result = -4 THEN "send" ELSE "read"
     \/ /\ ~leave /\ result < 0
        /\ rc' = -5
        /\ phase' = "term"
        /\ UNCHANGED global_timeout

(* sp_read() hands out a line, passing over older ones. *)
ReadLine ==
  /\ phase = "read"
  /\ \E i \in 1..Len(wire), dt \in 0..ReadTimeout :
       LET m == wire[i]
           v == Verdict(m) IN
       /\ wire' = SubSeq(wire, i + 1, Len(wire))
       /\ state' = v.state
       /\ cmd_sid' = v.sid
       /\ accepted' = IF Accepts(m) THEN accepted \cup {m.of} ELSE accepted
       /\ badFrames' = IF v.rc = -4 THEN badFrames + 1 ELSE badFrames
       /\ LoopTail(v.rc, v.leave, dt)
  /\ UNCHANGED <<cmd, reader, sentVars>>
  /\ DevFrame

(* Mutation of ReadNothing: a wait that timed out is begun again. *)
ReadNothing_Retried == phase = "read" /\ UNCHANGED vars

(* sp_read() comes back empty-handed after read_timeout. *)
ReadNothing ==
  /\ phase = "read"
  /\ LoopTail(-4, FALSE, ReadTimeout)
  /\ UNCHANGED <<cmd, reader, state, cmd_sid, wire, sentVars, answerVars>>
  /\ DevFrame

(* Mutation of ReleaseReader: the error paths jump past the label TERM. *)
ReleaseReader_OnSuccess == IF rc < 0 THEN UNCHANGED reader ELSE reader' = FALSE

ReleaseReader == reader' = FALSE

(* The label TERM, and the test of cmdrc in dterm_cmdstream(). *)
EndCmd ==
  /\ phase = "term"
  /\ ReleaseReader
  /\ phase' = IF rc < 0 THEN "stopped" ELSE "idle"
  /\ UNCHANGED <<cmd, state, cmd_sid, rc, elapsed, global_timeout, wire,
                 sentVars, answerVars>>
  /\ DevFrame

Devmgr == \/ StartCmd \/ StartClock \/ SendCmd \/ ReadLine \/ ReadNothing
          \/ EndCmd

Exited == StreamDone /\ UNCHANGED vars

-----------------------------------------------------------------------------

Next == Devmgr \/ (~StreamDone /\ Daemon) \/ Exited

Spec == Init /\ [][Next]_vars

(* The program keeps running; the daemon may stay silent. *)
FairSpec == Spec /\ WF_vars(Devmgr)

-----------------------------------------------------------------------------
(* Properties.                                                             *)

Lines == [type : {"ack", "rxstat", "msg"}, of : Nat,
          err : {-1, 0}, sid : Int, len : -1..1]
Commands == [of : Nat, sid : Nat]
Sessions == [of : Nat, sid : Nat, frames : Nat]

(* The locals of sub_devmgr_socket() keep their types, and rc is one of    *)
(* the results its callers know: a length, 0, -1 to -6, or below -256.     *)
TypeOK ==
  /\ phase \in {"idle", "clock", "send", "read", "term", "stopped"}
  /\ cmd \in Nat /\ reader \in BOOLEAN
  /\ state \in 0..2 /\ cmd_sid \in Int
  /\ rc \in {-257, -6, -5, -4, -3, -1, 0, 1}
  /\ elapsed \in Nat /\ global_timeout \in Int
  /\ inbox \in Seq(Commands) /\ wire \in Seq(Lines)
  /\ sessions \subseteq Sessions
  /\ noise \in Nat /\ corrupt \in Nat
  /\ attempts \in Nat /\ sends \in Nat /\ badFrames \in Nat
  /\ accepted \subseteq Nat

(* "There's a timeout enforced" (cmd_devmgr.c:239): whatever the daemon    *)
(* sends or keeps back, and however often the command is sent again, one   *)
(* command takes less than global_timeout plus a last sp_read().           *)
DeadlineMet == elapsed < GlobalTimeout + ReadTimeout

(* sockpush has one reader slot: however a command ended, the handler has  *)
(* given it back before the next command or sp_close().                    *)
ReaderReleased == phase \in {"idle", "stopped"} => ~reader

(* As long as no command had to be sent a second time, a command accepts   *)
(* answers to itself only, and if it succeeds it has accepted one.  Acks   *)
(* carry no sid to compare, so this rests on the order of the lines.       *)
OwnAnswers ==
  attempts <= cmd =>
    /\ accepted \subseteq {cmd}
    /\ phase = "idle" /\ cmd > 0 => accepted = {cmd}

(* sub_devmgr_socket() always returns to dterm_cmdstream(), also from a    *)
(* daemon that never answers.                                              *)
Returns == (phase \notin {"idle", "stopped"}) ~> (phase \in {"idle", "stopped"})

-----------------------------------------------------------------------------
(* What the documentation says and the code does not do.                   *)

(* Acks "indicate a receipt or error of the command that was just sent"    *)
(* (cmd_devmgr.c:20): the answers a command accepts are answers to it.     *)
AckAnswersCommand == accepted \subseteq {cmd}

(* "Integer number of request retries: default 0" (main.c:269): apart from *)
(* what a bad frame repeats, a command is sent once and then as often      *)
(* again as retries says.  But the half read_timeout on top of             *)
(* global_timeout (cmd_devmgr.c:210) leaves time for one send more, and    *)
(* the time since ref is subtracted anew in every round (339), so that     *)
(* more tries give fewer sends than they should.                           *)
RetriesAsAsked == sends <= Tries + badFrames
=============================================================================
