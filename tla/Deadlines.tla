------------------------------- MODULE Deadlines ------------------------------
(***************************************************************************)
(* The two clocks a command is timed with.  sp_read() (main/sockpush.c)    *)
(* makes a deadline of the wall clock, CLOCK_REALTIME, which somebody may  *)
(* set; sub_devmgr_socket() (main/cmd_devmgr.c) measures a command with    *)
(* CLOCK_MONOTONIC and takes the time off global_timeout.  CmdDevmgr.tla   *)
(* counts time in ticks; here it is a struct timespec and the conversions  *)
(* are the code's.                                                         *)
(*                                                                         *)
(* mono and real are the clocks in nanoseconds; a second has MsPerSec      *)
(* milliseconds of NsPerMs nanoseconds, 1000 and 1000000 in the code.      *)
(* Time passes while sp_read() waits and while a command is sent.  What a  *)
(* line of the daemon says is CmdDevmgr's subject: here it ends the        *)
(* command, is passed over, or makes the handler send again.               *)
(***************************************************************************)
EXTENDS Integers

CONSTANTS
  MsPerSec, NsPerMs,
  ReadTimeout,       \* read_timeout, in milliseconds
  Tries,
  SendTime,          \* bound: nanoseconds a sp_sendcmd() takes
  MaxLines,          \* bound: lines the daemon sends
  MaxSteps, MaxStep  \* bound: how often and how far the wall clock is set

ASSUME DeadlinesAssumption ==
  /\ MsPerSec \in Nat \ {0} /\ NsPerMs \in Nat \ {0}
  /\ ReadTimeout \in Nat \ {0} /\ Tries \in Nat \ {0}
  /\ SendTime \in Nat \ {0} /\ MaxLines \in Nat
  /\ MaxSteps \in Nat /\ MaxStep \in Nat

VARIABLES
  phase,             \* "clock", "send", "read", "wait", "tail", "done"
  mono, real,        \* the clocks (external)
  ref, ts,           \* the timespecs of the handler and of sp_read()
  rc,                \* what the round of the loop came to
  global_timeout,
  lines, steps,      \* how much of the bounds is used up
  \* history
  began, readAt,     \* mono when ref was taken and when sp_read() was called
  forward, back      \* how far the wall clock was set during this sp_read()

clockVars == <<mono, real>>
devVars == <<ref, global_timeout, began>>
readVars == <<ts, readAt, forward, back>>
boundVars == <<lines, steps>>
vars == <<phase, clockVars, devVars, readVars, rc, boundVars>>

Sec == MsPerSec * NsPerMs

(* clock_gettime(): a clock as a struct timespec, and back. *)
Timespec(n) == [sec |-> n \div Sec, nsec |-> n % Sec]
Total(t) == t.sec * Sec + t.nsec

GlobalTimeout == ReadTimeout * Tries + (ReadTimeout \div 2)

(* Both clocks start somewhere in a second, the wall clock late enough to  *)
(* be set back.                                                            *)
Init ==
  /\ phase = "clock"
  /\ mono \in 0..(Sec - 1)
  /\ real \in {MaxSteps * MaxStep + n : n \in 0..(Sec - 1)}
  /\ ref = Timespec(0) /\ ts = Timespec(0)
  /\ rc = 0 /\ global_timeout = GlobalTimeout
  /\ lines = 0 /\ steps = 0
  /\ began = 0 /\ readAt = 0 /\ forward = 0 /\ back = 0

-----------------------------------------------------------------------------
(* The wall clock is set, forwards or back. *)
SetClock ==
  /\ phase # "done" /\ steps < MaxSteps
  /\ steps' = steps + 1
  /\ \E d \in 1..MaxStep :
       \/ /\ real' = real + d
          /\ forward' = forward + d
          /\ UNCHANGED back
       \/ /\ real' = real - d
          /\ back' = back + d
          /\ UNCHANGED forward
  /\ UNCHANGED <<phase, mono, devVars, ts, readAt, rc, lines>>

-----------------------------------------------------------------------------
(* sub_devmgr_socket() up to the first sp_sendcmd(). *)
SetRef ==
  /\ phase = "clock"
  /\ \/ phase' = "send" /\ ref' = Timespec(mono) /\ began' = mono /\ UNCHANGED rc
     \/ phase' = "done" /\ rc' = -5 /\ UNCHANGED <<ref, began>>
  /\ UNCHANGED <<clockVars, global_timeout, readVars, boundVars>>

(* sp_sendcmd() takes its time, and may fail. *)
Send ==
  /\ phase = "send"
  /\ \/ phase' = "read" /\ UNCHANGED rc
     \/ phase' = "done" /\ rc' = -6
  /\ \E d \in 1..SendTime : mono' = mono + d /\ real' = real + d
  /\ UNCHANGED <<devVars, readVars, boundVars>>

(* Mutation of Carried: the second is not carried. *)
Carried_Never(t) == t

(* The carry of the nanoseconds, only when they are more than a second. *)
Carried(t) == IF t.nsec > Sec THEN [sec |-> t.sec + 1, nsec |-> t.nsec - Sec]
                              ELSE t

(* Mutation of Deadline: the whole seconds of read_timeout are dropped. *)
Deadline_NoSeconds(cur) ==
  Carried([sec  |-> cur.sec,
           nsec |-> (ReadTimeout % MsPerSec) * NsPerMs + cur.nsec])

(* The deadline read_timeout from cur. *)
Deadline(cur) ==
  Carried([sec  |-> (ReadTimeout \div MsPerSec) + cur.sec,
           nsec |-> (ReadTimeout % MsPerSec) * NsPerMs + cur.nsec])

(* sp_read() up to its wait. *)
ReadCall ==
  /\ phase = "read"
  /\ phase' = "wait"
  /\ ts' = Deadline(Timespec(real))
  /\ readAt' = mono /\ forward' = 0 /\ back' = 0
  /\ UNCHANGED <<clockVars, devVars, rc, boundVars>>

(* pthread_cond_timedwait() gives up: the wall clock has reached ts, or it *)
(* does not take ts for a time (EINVAL).                                   *)
Due == ts.nsec >= Sec \/ real >= Total(ts)

(* Time passes in the wait. *)
Tick ==
  /\ phase = "wait" /\ ~Due
  /\ mono' = mono + 1 /\ real' = real + 1
  /\ UNCHANGED <<phase, devVars, readVars, rc, boundVars>>

(* sp_read() comes back with nothing, or with a line of the daemon. *)
ReadNothing ==
  /\ phase = "wait" /\ Due
  /\ phase' = "tail" /\ rc' = -4
  /\ UNCHANGED <<clockVars, devVars, readVars, boundVars>>

ReadLine ==
  /\ phase = "wait" /\ lines < MaxLines
  /\ lines' = lines + 1
  /\ \/ phase' = "done" /\ rc' = 0
     \/ phase' = "tail" /\ rc' \in {-1, -4}
  /\ UNCHANGED <<clockVars, devVars, readVars, steps>>

-----------------------------------------------------------------------------
(* The tail of the loop of sub_devmgr_socket(). *)

(* Mutation of diff_timespec: no borrow. *)
diff_timespec_NoBorrow(start, end) ==
  [sec |-> end.sec - start.sec,
   nsec |-> IF end.nsec < start.nsec THEN Sec + end.nsec - start.nsec
                                     ELSE end.nsec - start.nsec]

diff_timespec(start, end) ==
  IF end.nsec < start.nsec
  THEN [sec |-> end.sec - 1 - start.sec, nsec |-> Sec + end.nsec - start.nsec]
  ELSE [sec |-> end.sec - start.sec, nsec |-> end.nsec - start.nsec]

(* A difference in milliseconds. *)
Millis(t) == t.sec * MsPerSec + (t.nsec \div NsPerMs)

(* Mutation of Retract: the difference is taken and not subtracted. *)
Retract_Never(spent) == global_timeout

(* What is left of global_timeout. *)
Retract(spent) == global_timeout - spent

(* Mutation of LoopTail: a read that came back with nothing is repeated    *)
(* without a look at the clock.                                            *)
LoopTail_Unchecked ==
  /\ phase = "tail"
  /\ phase' = IF rc = -4 THEN "wait" ELSE "read"
  /\ UNCHANGED <<clockVars, devVars, readVars, rc, boundVars>>

LoopTail ==
  /\ phase = "tail"
  /\ \/ /\ global_timeout' = Retract(Millis(diff_timespec(ref, Timespec(mono))))
        /\ phase' = IF global_timeout' <= 0 THEN "done"
                    ELSE IF rc = -4 THEN "send" ELSE "read"
        /\ UNCHANGED rc
     \/ phase' = "done" /\ rc' = -5 /\ UNCHANGED global_timeout
  /\ UNCHANGED <<clockVars, ref, began, readVars, boundVars>>

-----------------------------------------------------------------------------

Handler == SetRef \/ Send \/ ReadCall \/ Tick \/ ReadNothing \/ ReadLine \/ LoopTail

Done == phase = "done" /\ UNCHANGED vars

Next == Handler \/ SetClock \/ Done

Spec == Init /\ [][Next]_vars

(* The thread keeps running and time keeps passing; nobody has to set the  *)
(* clock, and no line has to come.                                         *)
FairSpec == Spec /\ WF_vars(Handler)

-----------------------------------------------------------------------------
(* Properties.                                                             *)

(* The clocks and timespecs are numbers; only the deadline may have a      *)
(* whole second in its nanoseconds, and never more.                        *)
TypeOK ==
  /\ phase \in {"clock", "send", "read", "wait", "tail", "done"}
  /\ mono \in Nat /\ real \in Nat
  /\ ref \in [sec : Nat, nsec : 0..(Sec - 1)]
  /\ ts \in [sec : Nat, nsec : 0..Sec]
  /\ rc \in {-6, -5, -4, -1, 0} /\ global_timeout \in Int
  /\ lines \in 0..MaxLines /\ steps \in 0..MaxSteps
  /\ began \in Nat /\ readAt \in Nat /\ forward \in Nat /\ back \in Nat

Running == phase \in {"send", "read", "wait", "tail"}

(* Wherever in a second a command begins and ends, what the handler takes  *)
(* off global_timeout is the time since ref in whole milliseconds.         *)
ElapsedExact ==
  Running => Millis(diff_timespec(ref, Timespec(mono))) = (mono - began) \div NsPerMs

ReadNs == ReadTimeout * NsPerMs
GlobalNs == GlobalTimeout * NsPerMs

(* A wait that comes back with nothing has waited for read_timeout, no     *)
(* less and no more, except by as much as the wall clock was set meanwhile *)
(* and except for a deadline with a whole second in its nanoseconds, which *)
(* ends the wait at once.                                                  *)
WaitExact ==
  /\ phase \in {"wait", "tail"} => mono - readAt <= ReadNs + back
  /\ phase = "wait" /\ Due /\ ts.nsec < Sec => mono - readAt >= ReadNs - forward

(* However the lines come and whatever is done to the wall clock, a        *)
(* command is over within global_timeout, a last send and a last           *)
(* read_timeout, and what the clock was set back during that read.         *)
CommandDeadline ==
  Running => mono - began < GlobalNs + SendTime + ReadNs + back

(* The command comes to an end: a deadline that makes the wait return at   *)
(* once does not keep the handler sending.                                 *)
Returns == <>(phase = "done")
===============================================================================
