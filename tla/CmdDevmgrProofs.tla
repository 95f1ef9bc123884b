--------------------------- MODULE CmdDevmgrProofs ---------------------------
(***************************************************************************)
(* Theorems about CmdDevmgr.tla, for every timeout, every number of tries  *)
(* and every daemon.                                                       *)
(***************************************************************************)
EXTENDS CmdDevmgr, SequenceTheorems, TLAPS

(* The inductive form of DeadlineMet: as long as the loop goes on, what is *)
(* left of global_timeout is positive and no more than the time is.        *)
DeadlineInv ==
  /\ elapsed \in Nat /\ global_timeout \in Int
  /\ phase \in {"clock", "send", "read"} =>
       /\ 0 < global_timeout
       /\ global_timeout <= GlobalTimeout - elapsed
  /\ DeadlineMet

(* How often a command is sent, which is not what main.c:269 says          *)
(* (RetriesAsAsked): the time since ref is subtracted in every round, so n *)
(* sends without an answer use up 1 + 2 + ... + (n - 1) times read_timeout:*)
(* two sends at most where one was asked for, four where six were.  Only a *)
(* bad frame gives a command another send.                                 *)
SendsBounded == (sends - badFrames) * (sends - badFrames - 1) <= 2 * Tries

(* The inductive form of SendsBounded, where Unanswered is how often       *)
(* sp_read() has come back with nothing.                                   *)
Unanswered == IF phase = "read" THEN sends - badFrames - 1 ELSE sends - badFrames

SendsInv ==
  /\ sends \in Nat /\ badFrames \in Nat /\ badFrames <= sends
  /\ phase \in {"clock", "send", "read"} =>
       /\ Unanswered \in Nat
       /\ ReadTimeout * Unanswered <= elapsed
       /\ 2 * global_timeout
            <= 2 * GlobalTimeout - ReadTimeout * (Unanswered * (Unanswered + 1))
  /\ SendsBounded

-----------------------------------------------------------------------------
(* cliopt_gettimeout() and cliopt_gettries() give a positive deadline.     *)
LEMMA GlobalTimeoutPositive == GlobalTimeout \in Nat \ {0}
<1> DEFINE T == ReadTimeout * Tries
<1>1. T \in Nat \ {0}
  BY CmdDevmgrAssumption
<1>2. ReadTimeout \div 2 \in Nat
  BY CmdDevmgrAssumption
<1> HIDE DEF T
<1>3. T + (ReadTimeout \div 2) \in Nat \ {0}
  BY <1>1, <1>2
<1> QED
  BY <1>3 DEF GlobalTimeout, T

(* The tail of the loop of sub_devmgr_socket(): if global_timeout is not   *)
(* used up, the time since ref is less than the whole of it.               *)
LEMMA LoopTailKeepsDeadline ==
  ASSUME DeadlineInv, phase = "read",
         NEW result, NEW leave, NEW dt \in 0..ReadTimeout,
         LoopTail(result, leave, dt)
  PROVE  DeadlineInv'
<1> USE CmdDevmgrAssumption, GlobalTimeoutPositive
<1>1. /\ elapsed' = elapsed + dt /\ elapsed \in Nat /\ elapsed' \in Nat
      /\ elapsed < GlobalTimeout /\ global_timeout <= GlobalTimeout
      /\ global_timeout \in Int
  BY DEF DeadlineInv, LoopTail
<1>2. DeadlineMet'
  BY <1>1 DEF DeadlineMet
<1>3. CASE phase' = "term" /\ UNCHANGED global_timeout
  BY <1>1, <1>2, <1>3 DEF DeadlineInv
<1>4. CASE /\ global_timeout' = global_timeout - elapsed'
           /\ phase' = IF global_timeout' <= 0 THEN "term"
                       ELSE IF result = -4 THEN "send" ELSE "read"
  BY <1>1, <1>2, <1>4 DEF DeadlineInv
<1> QED
  BY <1>1, <1>3, <1>4 DEF LoopTail, Retract

(* While the handler's loop goes on, what is left of global_timeout is     *)
(* positive and no more than what is left of the time.                     *)
THEOREM DeadlineInvHolds == Spec => []DeadlineInv
<1> USE CmdDevmgrAssumption, GlobalTimeoutPositive
<1>1. Init => DeadlineInv
  BY DEF Init, DeadlineInv, DeadlineMet
<1>2. DeadlineInv /\ [Next]_vars => DeadlineInv'
  <2> SUFFICES ASSUME DeadlineInv, [Next]_vars PROVE DeadlineInv'
    OBVIOUS
  <2>1. CASE StartCmd
    BY <2>1 DEF StartCmd, DeadlineInv, DeadlineMet
  <2>2. CASE StartClock
    BY <2>2 DEF StartClock, DeadlineInv, DeadlineMet
  <2>3. CASE SendCmd
    BY <2>3 DEF SendCmd, DeadlineInv, DeadlineMet
  <2>4. CASE ReadLine
    BY <2>4, LoopTailKeepsDeadline DEF ReadLine
  <2>5. CASE ReadNothing
    <3>1. ReadTimeout \in 0..ReadTimeout
      OBVIOUS
    <3> QED
      BY <2>5, <3>1, LoopTailKeepsDeadline, Zenon DEF ReadNothing
  <2>6. CASE EndCmd
    BY <2>6 DEF EndCmd, DeadlineInv, DeadlineMet
  <2>7. CASE Daemon
    BY <2>7 DEF Daemon, DaemonAck, DaemonRxstat, DaemonNoise, devVars,
                DeadlineInv, DeadlineMet
  <2>8. CASE Exited \/ UNCHANGED vars
    BY <2>8 DEF Exited, vars, devVars, DeadlineInv, DeadlineMet
  <2> QED
    BY <2>1, <2>2, <2>3, <2>4, <2>5, <2>6, <2>7, <2>8 DEF Next, Devmgr
<1> QED
  BY <1>1, <1>2, PTL DEF Spec

(* Whatever the daemon sends or keeps back, and however often the command  *)
(* is sent again, sub_devmgr_socket() spends less than global_timeout plus *)
(* one read_timeout on a command.                                          *)
THEOREM DeadlineHolds == Spec => []DeadlineMet
<1>1. DeadlineInv => DeadlineMet
  BY DEF DeadlineInv
<1> QED
  BY <1>1, DeadlineInvHolds, PTL

(* A round without an answer takes the time since ref, which has grown by  *)
(* a read_timeout, off what is left.                                       *)
LEMMA Triangle ==
  ASSUME NEW r \in Nat, NEW t \in Nat
  PROVE  /\ r * (t + 1) = r * t + r
         /\ r * ((t + 1) * (t + 2)) = r * (t * (t + 1)) + 2 * (r * (t + 1))
<1>1. (t + 1) * (t + 2) = t * (t + 1) + 2 * (t + 1)
  OBVIOUS
<1> DEFINE a == t * (t + 1)
           b == t + 1
<1>2. a \in Nat /\ b \in Nat
  OBVIOUS
<1> HIDE DEF a, b
<1>3. r * (a + 2 * b) = r * a + 2 * (r * b)
  BY <1>2
<1> QED
  BY <1>1, <1>3 DEF a, b

(* As long as time is left, the sends are few. *)
LEMMA TimeLeftBoundsSends ==
  ASSUME NEW n \in Nat, NEW left \in Int, 0 < left,
         2 * left <= 2 * GlobalTimeout - ReadTimeout * n
  PROVE  n <= 2 * Tries
<1> USE CmdDevmgrAssumption, GlobalTimeoutPositive
<1>1. 2 * (ReadTimeout \div 2) <= ReadTimeout /\ ReadTimeout \div 2 \in Nat
  OBVIOUS
<1>2. 2 * GlobalTimeout <= ReadTimeout * (2 * Tries) + ReadTimeout
  <2> DEFINE T == ReadTimeout * Tries
  <2>1. T \in Nat /\ ReadTimeout * (2 * Tries) = 2 * T
    OBVIOUS
  <2> HIDE DEF T
  <2>2. 2 * (T + ReadTimeout \div 2) <= 2 * T + ReadTimeout
    BY <1>1, <2>1
  <2> QED
    BY <2>1, <2>2 DEF GlobalTimeout, T
<1>3. ReadTimeout * n < ReadTimeout * (2 * Tries) + ReadTimeout
  BY <1>2
<1>4. SUFFICES ASSUME n >= 2 * Tries + 1 PROVE FALSE
  OBVIOUS
<1>5. ReadTimeout * n >= ReadTimeout * (2 * Tries + 1)
  BY <1>4
<1>6. ReadTimeout * (2 * Tries + 1) = ReadTimeout * (2 * Tries) + ReadTimeout
  OBVIOUS
<1> QED
  BY <1>3, <1>5, <1>6

(* The tail of the loop: a bad frame costs a send and no time, a read that *)
(* came back with nothing costs a send and read_timeout, another line      *)
(* costs no send.                                                          *)
LEMMA LoopTailKeepsSends ==
  ASSUME SendsInv, DeadlineInv, phase = "read",
         NEW result, NEW leave, NEW dt \in 0..ReadTimeout,
         LoopTail(result, leave, dt), sends' = sends,
         \/ result = -4 /\ badFrames' = badFrames + 1
         \/ result = -4 /\ badFrames' = badFrames /\ dt = ReadTimeout
         \/ result # -4 /\ badFrames' = badFrames
  PROVE  SendsInv'
<1> USE CmdDevmgrAssumption, GlobalTimeoutPositive
<1> DEFINE k == sends - badFrames
           t == k - 1
<1>1. /\ t \in Nat /\ k = t + 1 /\ sends \in Nat /\ badFrames \in Nat
      /\ ReadTimeout * t <= elapsed
      /\ 2 * global_timeout <= 2 * GlobalTimeout - ReadTimeout * (t * (t + 1))
      /\ k * (k - 1) <= 2 * Tries
      /\ badFrames < sends
  BY DEF SendsInv, Unanswered, SendsBounded
<1>2. /\ elapsed' = elapsed + dt /\ elapsed \in Nat /\ elapsed' \in Nat
      /\ global_timeout \in Int
      /\ phase' \in {"term", "send", "read"}
      /\ phase' # "term" =>
           /\ global_timeout' = global_timeout - elapsed'
           /\ phase' = IF result = -4 THEN "send" ELSE "read"
  BY DEF DeadlineInv, LoopTail, Retract
<1>3. /\ sends' \in Nat /\ badFrames' \in Nat /\ badFrames' <= sends'
      /\ sends' - badFrames' \in {t, k}
  BY <1>1
<1>4. SendsBounded'
  <2>1. t * (t - 1) <= (t + 1) * t
    BY <1>1
  <2>2. t * (t - 1) <= 2 * Tries
    BY <1>1, <2>1
  <2> QED
    BY <1>1, <1>3, <2>2 DEF SendsBounded
<1>5. CASE phase' = "term"
  BY <1>3, <1>4, <1>5 DEF SendsInv
<1>6. CASE phase' # "term" /\ Unanswered' = t
  <2>1. ReadTimeout * t <= elapsed'
    BY <1>1, <1>2
  <2>2. 2 * global_timeout' <= 2 * GlobalTimeout - ReadTimeout * (t * (t + 1))
    <3> DEFINE m == ReadTimeout * (t * (t + 1))
    <3>1. m \in Int
      BY <1>1
    <3> HIDE DEF m, t
    <3>2. 2 * global_timeout' <= 2 * GlobalTimeout - m
      BY <1>1, <1>2, <1>6, <3>1 DEF m
    <3> QED
      BY <3>2 DEF m
  <2> QED
    BY <1>1, <1>3, <1>4, <1>6, <2>1, <2>2 DEF SendsInv
<1>7. CASE phase' # "term" /\ Unanswered' = t + 1 /\ dt = ReadTimeout
  <2> DEFINE a == ReadTimeout * t
             b == ReadTimeout * (t * (t + 1))
  <2>1. /\ a \in Int /\ b \in Int
        /\ ReadTimeout * (t + 1) = a + ReadTimeout
        /\ ReadTimeout * ((t + 1) * (t + 2)) = b + 2 * (a + ReadTimeout)
    BY <1>1, Triangle
  <2>2. a <= elapsed /\ 2 * global_timeout <= 2 * GlobalTimeout - b
    BY <1>1
  <2> HIDE DEF a, b
  <2>3. a + ReadTimeout <= elapsed'
    BY <1>2, <1>7, <2>1, <2>2
  <2>4. 2 * global_timeout' <= 2 * GlobalTimeout - (b + 2 * (a + ReadTimeout))
    BY <1>2, <1>7, <2>1, <2>2, <2>3
  <2>5. Unanswered' \in Nat /\ Unanswered' + 1 = t + 2
    BY <1>1, <1>7
  <2> QED
    BY <1>3, <1>4, <1>7, <2>1, <2>3, <2>4, <2>5 DEF SendsInv
<1> QED
  BY <1>1, <1>2, <1>5, <1>6, <1>7 DEF Unanswered

(* What bounds the sends of a command in place of the retries asked for:   *)
(* n sends without an answer cost 1 + 2 + ... + (n - 1) times read_timeout *)
(* of global_timeout, so n (n - 1) <= 2 * tries; bad frames are not        *)
(* counted.                                                                *)
THEOREM SendsAreBounded == Spec => []SendsBounded
<1> USE CmdDevmgrAssumption, GlobalTimeoutPositive
<1>1. Init => SendsInv
  BY DEF Init, SendsInv, SendsBounded, Unanswered
<1>2. SendsInv /\ DeadlineInv /\ [Next]_vars => SendsInv'
  <2> SUFFICES ASSUME SendsInv, DeadlineInv, [Next]_vars PROVE SendsInv'
    OBVIOUS
  <2>1. CASE StartCmd
    BY <2>1 DEF StartCmd, SendsInv, SendsBounded, Unanswered
  <2>2. CASE StartClock
    BY <2>2 DEF StartClock, sentVars, answerVars, SendsInv, SendsBounded, Unanswered
  <2>3. CASE SendCmd
    <3>1. CASE phase' = "read"
      <4> DEFINE k == sends - badFrames
      <4>1. /\ k \in Nat /\ 0 < global_timeout /\ global_timeout \in Int
            /\ 2 * global_timeout <= 2 * GlobalTimeout - ReadTimeout * (k * (k + 1))
            /\ ReadTimeout * k <= elapsed
            /\ sends' = sends + 1 /\ badFrames' = badFrames
            /\ sends \in Nat /\ badFrames \in Nat /\ badFrames <= sends
            /\ elapsed' = elapsed /\ global_timeout' = global_timeout
        BY <2>3, <3>1 DEF SendCmd, SendsInv, DeadlineInv, Unanswered, answerVars
      <4>2. k * (k + 1) <= 2 * Tries
        BY <4>1, TimeLeftBoundsSends
      <4>3. SendsBounded'
        <5>1. sends' - badFrames' = k + 1 /\ sends' - badFrames' - 1 = k
          BY <4>1
        <5> QED
          BY <4>1, <4>2, <5>1 DEF SendsBounded
      <4>4. Unanswered' = k
        BY <3>1, <4>1 DEF Unanswered
      <4> QED
        BY <3>1, <4>1, <4>3, <4>4 DEF SendsInv
    <3>2. CASE phase' = "term"
      BY <2>3, <3>2 DEF SendCmd, sentVars, answerVars, SendsInv, SendsBounded
    <3> QED
      BY <2>3, <3>1, <3>2 DEF SendCmd
  <2>4. CASE ReadLine
    <3>1. PICK i \in 1..Len(wire), dt \in 0..ReadTimeout :
            /\ badFrames' = IF Verdict(wire[i]).rc = -4 THEN badFrames + 1
                                                       ELSE badFrames
            /\ LoopTail(Verdict(wire[i]).rc, Verdict(wire[i]).leave, dt)
      BY <2>4 DEF ReadLine
    <3>2. phase = "read" /\ sends' = sends
      BY <2>4 DEF ReadLine, sentVars
    <3> QED
      BY <3>1, <3>2, LoopTailKeepsSends
  <2>5. CASE ReadNothing
    <3>1. ReadTimeout \in 0..ReadTimeout
      OBVIOUS
    <3>2. sends' = sends /\ badFrames' = badFrames
      BY <2>5 DEF ReadNothing, sentVars, answerVars
    <3> QED
      BY <2>5, <3>1, <3>2, LoopTailKeepsSends, Zenon DEF ReadNothing
  <2>6. CASE EndCmd
    BY <2>6 DEF EndCmd, sentVars, answerVars, SendsInv, SendsBounded
  <2>7. CASE Daemon
    BY <2>7 DEF Daemon, DaemonAck, DaemonRxstat, DaemonNoise, devVars,
                sentVars, answerVars, SendsInv, SendsBounded, Unanswered
  <2>8. CASE Exited \/ UNCHANGED vars
    BY <2>8 DEF Exited, vars, devVars, sentVars, answerVars, SendsInv,
                SendsBounded, Unanswered
  <2> QED
    BY <2>1, <2>2, <2>3, <2>4, <2>5, <2>6, <2>7, <2>8 DEF Next, Devmgr
<1>3. SendsInv => SendsBounded
  BY DEF SendsInv
<1> QED
  BY <1>1, <1>2, <1>3, DeadlineInvHolds, PTL DEF Spec

(* On every path out of sub_devmgr_socket(), errors included, the only     *)
(* reader slot of sockpush is free again for the next command.             *)
THEOREM ReaderAlwaysReleased == Spec => []ReaderReleased
<1>1. Init => ReaderReleased
  BY DEF Init, ReaderReleased
<1>2. ReaderReleased /\ [Next]_vars => ReaderReleased'
  <2> SUFFICES ASSUME ReaderReleased, [Next]_vars PROVE ReaderReleased'
    OBVIOUS
  <2> USE DEF ReaderReleased
  <2>1. CASE StartCmd
    BY <2>1 DEF StartCmd
  <2>2. CASE StartClock \/ SendCmd
    BY <2>2 DEF StartClock, SendCmd
  <2>3. CASE ReadLine \/ ReadNothing
    <3>1. phase' \in {"send", "read", "term"}
      BY <2>3 DEF ReadLine, ReadNothing, LoopTail
    <3> QED
      BY <3>1
  <2>4. CASE EndCmd
    BY <2>4 DEF EndCmd, ReleaseReader
  <2>5. CASE Daemon
    BY <2>5 DEF Daemon, DaemonAck, DaemonRxstat, DaemonNoise, devVars
  <2>6. CASE Exited \/ UNCHANGED vars
    BY <2>6 DEF Exited, vars, devVars
  <2> QED
    BY <2>1, <2>2, <2>3, <2>4, <2>5, <2>6 DEF Next, Devmgr
<1> QED
  BY <1>1, <1>2, PTL DEF Spec

-----------------------------------------------------------------------------
(* Whose answers a command accepts.                                        *)

Earlier == IF cmd = 0 THEN 0 ELSE cmd - 1

(* No command so far was sent a second time. *)
Once == attempts = Earlier + sends /\ sends <= 1

(* Every command before this one was sent at least once, for it succeeded. *)
CountInv ==
  /\ attempts >= Earlier + sends
  /\ phase = "idle" => cmd = 0 \/ sends >= 1
  /\ phase # "idle" => cmd > 0
  /\ cmd = 0 => sends = 0
  /\ phase = "clock" => sends = 0
  /\ phase = "read" => sends >= 1
  /\ phase = "term" /\ rc >= 0 => sends >= 1
  /\ sends = 0 => accepted = {}

IsAck(m) == m.type = "ack"

(* At most one ack is under way, to the present command, which has then    *)
(* accepted nothing yet; every session has the number of its command.      *)
PendingInv ==
  /\ Len(inbox) <= 1
  /\ \A i \in 1..Len(inbox) : inbox[i].of = cmd /\ inbox[i].sid = cmd
  /\ \A s \in sessions : s.of = s.sid
  /\ \A i \in 1..Len(wire) : IsAck(wire[i]) =>
       /\ inbox = <<>> /\ wire[i].of = cmd /\ wire[i].sid \in {0, cmd}
       /\ \A j \in 1..Len(wire) : IsAck(wire[j]) => i = j
  /\ \A i \in 1..Len(wire) : wire[i].type = "rxstat" =>
       wire[i].of = wire[i].sid \/ wire[i].sid < 0
  /\ inbox # <<>> \/ (\E i \in 1..Len(wire) : IsAck(wire[i])) =>
       sends = 1 /\ accepted = {} /\ phase \notin {"idle", "clock"}

(* What the handler has accepted, at each place where it may be. *)
AcceptedInv ==
  /\ accepted \subseteq {cmd}
  /\ phase = "read" => \/ state = 0 /\ accepted = {}
                       \/ state = 1 /\ accepted = {cmd} /\ cmd_sid = cmd
  /\ phase = "term" /\ rc >= 0 => accepted = {cmd}
  /\ phase = "idle" /\ cmd > 0 => accepted = {cmd}

(* The inductive form of OwnAnswers. *)
OwnInv == CountInv /\ (Once => PendingInv /\ AcceptedInv)

-----------------------------------------------------------------------------
(* Types.                                                                  *)

(* What sp_reader_create() or sp_read() leaves of the lines. *)
LEMMA Suffix ==
  ASSUME NEW S, NEW s \in Seq(S), NEW n \in 0..Len(s)
  PROVE  /\ SubSeq(s, n + 1, Len(s)) \in Seq(S)
         /\ Len(SubSeq(s, n + 1, Len(s))) = Len(s) - n
         /\ \A i \in 1..(Len(s) - n) : SubSeq(s, n + 1, Len(s))[i] = s[n + i]
  OBVIOUS

(* The switch over state gives a state, a sid and a result of its kind. *)
LEMMA VerdictTyped ==
  ASSUME TypeOK, NEW m \in Lines
  PROVE  /\ Verdict(m).state \in 0..2 /\ Verdict(m).sid \in Int
         /\ Verdict(m).rc \in {-257, -4, -1, 0, 1}
<1>1. AckError(-1) = -257
  BY DEF AckError
<1>2. /\ m.err \in {-1, 0} /\ m.sid \in Int /\ m.len \in -1..1
      /\ state \in 0..2 /\ cmd_sid \in Int
  BY DEF Lines, TypeOK
<1> QED
  BY <1>1, <1>2 DEF Verdict, IsFrame

(* The tail of the loop keeps the types of what it sets. *)
LEMMA LoopTailTyped ==
  ASSUME TypeOK, NEW result \in {-257, -4, -1, 0, 1}, NEW leave,
         NEW dt \in Nat, LoopTail(result, leave, dt)
  PROVE  /\ elapsed' \in Nat /\ global_timeout' \in Int
         /\ rc' \in {-257, -5, -4, -1, 0, 1}
         /\ phase' \in {"term", "send", "read"}
  BY DEF LoopTail, Retract, TypeOK

(* A line of the daemon, put behind the others. *)
LEMMA LineTyped ==
  ASSUME TypeOK, NEW type \in {"ack", "rxstat", "msg"}, NEW of \in Nat,
         NEW err \in {-1, 0}, NEW sid \in Int, NEW len \in -1..1
  PROVE  Append(wire, Line(type, of, err, sid, len)) \in Seq(Lines)
<1>1. Line(type, of, err, sid, len) \in Lines
  BY DEF Line, Lines
<1> QED
  BY <1>1 DEF TypeOK

(* The variables of sub_devmgr_socket() keep their types, whatever the     *)
(* daemon does; rc is one of the results that the callers know.            *)
THEOREM TypeCorrect == Spec => []TypeOK
<1> USE CmdDevmgrAssumption, GlobalTimeoutPositive
<1>1. Init => TypeOK
  <2> SUFFICES ASSUME Init PROVE TypeOK
    OBVIOUS
  <2>1. inbox \in Seq(Commands) /\ wire \in Seq(Lines)
    BY DEF Init
  <2>2. reader \in BOOLEAN
    BY DEF Init
  <2> QED
    BY <2>1, <2>2 DEF Init, TypeOK
<1>2. TypeOK /\ [Next]_vars => TypeOK'
  <2> SUFFICES ASSUME TypeOK, [Next]_vars PROVE TypeOK'
    OBVIOUS
  <2>1. CASE StartCmd
    <3>1. wire' \in Seq(Lines)
      BY <2>1, Suffix DEF StartCmd, TypeOK
    <3>2. reader' \in BOOLEAN
      BY <2>1 DEF StartCmd, TypeOK
    <3> QED
      BY <2>1, <3>1, <3>2 DEF StartCmd, DevFrame, daemonVars, TypeOK
  <2>2. CASE StartClock
    BY <2>2 DEF StartClock, DevFrame, daemonVars, sentVars, answerVars, TypeOK
  <2>3. CASE SendCmd
    <3>1. inbox' \in Seq(Commands)
      <4>1. [of |-> cmd, sid |-> attempts + 1] \in Commands
        BY DEF TypeOK, Commands
      <4> QED
        <5>1. inbox' = inbox \/ inbox' = Append(inbox, [of |-> cmd, sid |-> attempts + 1])
          BY <2>3 DEF SendCmd
        <5> QED
          BY <4>1, <5>1 DEF TypeOK
    <3>2. /\ attempts' \in Nat /\ sends' \in Nat /\ state' \in 0..2
          /\ cmd_sid' \in Int /\ phase' \in {"read", "term"}
          /\ rc' \in {-257, -6, -5, -4, -3, -1, 0, 1}
      BY <2>3 DEF SendCmd, sentVars, TypeOK
    <3> QED
      BY <2>3, <3>1, <3>2 DEF SendCmd, answerVars, TypeOK
  <2>4. CASE ReadLine
    <3>1. PICK i \in 1..Len(wire), dt \in 0..ReadTimeout :
            /\ wire' = SubSeq(wire, i + 1, Len(wire))
            /\ state' = Verdict(wire[i]).state
            /\ cmd_sid' = Verdict(wire[i]).sid
            /\ accepted' = IF Accepts(wire[i]) THEN accepted \cup {wire[i].of}
                                               ELSE accepted
            /\ badFrames' \in {badFrames, badFrames + 1}
            /\ LoopTail(Verdict(wire[i]).rc, Verdict(wire[i]).leave, dt)
      BY <2>4 DEF ReadLine
    <3>2. wire[i] \in Lines
      BY DEF TypeOK
    <3>3. wire' \in Seq(Lines)
      BY <3>1, Suffix DEF TypeOK
    <3>4. state' \in 0..2 /\ cmd_sid' \in Int
      BY <3>1, <3>2, VerdictTyped
    <3>5. /\ elapsed' \in Nat /\ global_timeout' \in Int
          /\ rc' \in {-257, -5, -4, -1, 0, 1}
          /\ phase' \in {"term", "send", "read"}
      BY <3>1, <3>2, VerdictTyped, LoopTailTyped
    <3>6. accepted' \subseteq Nat /\ badFrames' \in Nat
      <4>1. wire[i].of \in Nat
        BY <3>2 DEF Lines
      <4> QED
        <5>1. accepted \subseteq Nat /\ badFrames \in Nat
          BY DEF TypeOK
        <5>2. accepted' \subseteq accepted \cup {wire[i].of}
          BY <3>1
        <5>3. badFrames' \in Nat
          BY <3>1, <5>1
        <5> QED
          BY <4>1, <5>1, <5>2, <5>3
    <3>7. UNCHANGED <<cmd, reader, attempts, sends, inbox, sessions, noise, corrupt>>
      BY <2>4 DEF ReadLine, sentVars, DevFrame, daemonVars
    <3> QED
      BY <3>3, <3>4, <3>5, <3>6, <3>7 DEF TypeOK
  <2>5. CASE ReadNothing
    <3>1. /\ elapsed' \in Nat /\ global_timeout' \in Int
          /\ rc' \in {-257, -5, -4, -1, 0, 1}
          /\ phase' \in {"term", "send", "read"}
      BY <2>5, LoopTailTyped DEF ReadNothing
    <3> QED
      BY <2>5, <3>1 DEF ReadNothing, DevFrame, daemonVars, sentVars,
                        answerVars, TypeOK
  <2>6. CASE EndCmd
    BY <2>6 DEF EndCmd, ReleaseReader, DevFrame, daemonVars, sentVars,
                answerVars, TypeOK
  <2>7. CASE DaemonAck
    <3> DEFINE c == Head(inbox)
    <3>1. c \in Commands /\ Tail(inbox) \in Seq(Commands)
      BY <2>7 DEF DaemonAck, TypeOK
    <3>4. c.of \in Nat /\ c.sid \in Nat
      BY <3>1 DEF Commands
    <3>2. wire' \in Seq(Lines)
      <4>1. \/ \E err \in {-1, 0} : wire' = Append(wire, Line("ack", c.of, err, 0, 0))
            \/ wire' = Append(wire, Line("ack", c.of, 0, c.sid, 0))
        BY <2>7 DEF DaemonAck
      <4> HIDE DEF c
      <4>2. ASSUME NEW err \in {-1, 0}
            PROVE  Append(wire, Line("ack", c.of, err, 0, 0)) \in Seq(Lines)
        BY <3>4, LineTyped
      <4>3. Append(wire, Line("ack", c.of, 0, c.sid, 0)) \in Seq(Lines)
        BY <3>4, LineTyped
      <4> QED
        BY ONLY <4>1, <4>2, <4>3
    <3>3. sessions' \subseteq Sessions
      BY <2>7, <3>4 DEF DaemonAck, TypeOK, Sessions
    <3> QED
      BY <2>7, <3>1, <3>2, <3>3
         DEF DaemonAck, devVars, sentVars, answerVars, TypeOK
  <2>8. CASE DaemonRxstat
    <3>1. PICK s \in sessions, len \in {-1, 1} :
            /\ corrupt' = IF len = -1 THEN corrupt + 1 ELSE corrupt
            /\ wire' = Append(wire, Line("rxstat", s.of, 0, s.sid, len))
            /\ sessions' = (sessions \ {s}) \cup
                 (IF s.frames + 1 = MaxFrames THEN {}
                                              ELSE {[s EXCEPT !.frames = @ + 1]})
      BY <2>8 DEF DaemonRxstat
    <3>2. s \in Sessions /\ s.of \in Nat /\ s.sid \in Nat
      BY DEF TypeOK, Sessions
    <3>3. wire' \in Seq(Lines)
      BY <3>1, <3>2, LineTyped
    <3>4. sessions' \subseteq Sessions
      <4>1. [s EXCEPT !.frames = @ + 1] \in Sessions
        BY <3>2 DEF Sessions
      <4> QED
        BY <3>1, <4>1 DEF TypeOK
    <3> QED
      <4>1. corrupt' \in Nat
        <5>1. corrupt \in Nat
          BY DEF TypeOK
        <5>2. corrupt' = corrupt \/ corrupt' = corrupt + 1
          BY <3>1
        <5> QED
          BY <5>1, <5>2
      <4>2. UNCHANGED <<devVars, inbox, noise, sentVars, answerVars>>
        BY <2>8 DEF DaemonRxstat
      <4> QED
        BY <3>3, <3>4, <4>1, <4>2
           DEF devVars, sentVars, answerVars, TypeOK
  <2>9. CASE DaemonNoise
    <3>1. wire' \in Seq(Lines)
      BY <2>9, LineTyped DEF DaemonNoise
    <3> QED
      BY <2>9, <3>1 DEF DaemonNoise, devVars, sentVars, answerVars, TypeOK
  <2>10. CASE Exited \/ UNCHANGED vars
    <3>1. UNCHANGED vars
      BY <2>10 DEF Exited
    <3>2. UNCHANGED <<phase, cmd, reader, state, cmd_sid, rc, elapsed,
                      global_timeout, inbox, sessions, noise, corrupt, wire,
                      attempts, sends, badFrames, accepted>>
      BY <3>1 DEF vars, devVars, daemonVars, sentVars, answerVars
    <3> QED
      BY <3>2, Zenon DEF TypeOK
  <2> QED
    BY <2>1, <2>2, <2>3, <2>4, <2>5, <2>6, <2>7, <2>8, <2>9, <2>10
       DEF Next, Devmgr, Daemon
<1> QED
  BY <1>1, <1>2, PTL DEF Spec

-----------------------------------------------------------------------------

(* Only a line that is accepted, or that ends the command well, changes    *)
(* what the handler knows; an ack is accepted in state 0 only, a frame in  *)
(* state 1 with the saved sid only.                                        *)
LEMMA VerdictCases ==
  ASSUME TypeOK, NEW m \in Lines, state \in {0, 1}
  PROVE  \/ /\ ~Accepts(m)
            /\ Verdict(m).state = state /\ Verdict(m).sid = cmd_sid
            /\ Verdict(m).rc = -1 /\ ~Verdict(m).leave
         \/ /\ Accepts(m) /\ state = 0 /\ IsAck(m)
            /\ \/ Verdict(m).leave
               \/ /\ m.sid # 0 /\ Verdict(m).state = 1 /\ Verdict(m).sid = m.sid
                  /\ Verdict(m).rc = -1
         \/ /\ Accepts(m) /\ state = 1 /\ m.type = "rxstat" /\ m.sid = cmd_sid
            /\ Verdict(m).rc \in {-4, 0, 1}
<1>1. m.len \in -1..1 /\ m.err \in {-1, 0} /\ m.sid \in Int
  BY DEF Lines
<1>2. CASE state = 0 /\ m.type = "ack"
  <2>1. CASE m.err # 0
    BY <1>1, <1>2, <2>1 DEF Verdict, Accepts, IsAck, IsFrame
  <2>2. CASE m.err = 0 /\ m.sid = 0
    BY <1>1, <1>2, <2>2 DEF Verdict, Accepts, IsAck, IsFrame
  <2>3. CASE m.err = 0 /\ m.sid # 0
    <3>1. Verdict(m) = [state |-> 1, sid |-> m.sid, rc |-> -1, leave |-> FALSE]
      BY <1>1, <1>2, <2>3 DEF Verdict, IsFrame
    <3> QED
      BY <1>2, <2>3, <3>1 DEF Accepts, IsAck
  <2> QED
    BY <2>1, <2>2, <2>3
<1>3. CASE IsFrame(m)
  <2>1. /\ Verdict(m).state = 2
        /\ Verdict(m).rc = IF m.len < 0 THEN -4 ELSE m.len
    BY <1>3 DEF Verdict, IsFrame
  <2> QED
    BY <1>1, <1>3, <2>1 DEF IsFrame, Accepts
<1>4. CASE ~(state = 0 /\ m.type = "ack") /\ ~IsFrame(m)
  BY <1>4 DEF Verdict, Accepts
<1> QED
  BY <1>2, <1>3, <1>4

(* Where the tail of the loop leads. *)
LEMMA LoopTailLeads ==
  ASSUME NEW result \in {-257, -4, -1, 0, 1}, NEW leave, NEW dt,
         LoopTail(result, leave, dt)
  PROVE  /\ phase' \in {"term", "send", "read"}
         /\ phase' = "read" => ~leave /\ result \notin {-4, 0, 1}
         /\ phase' = "send" => ~leave /\ result = -4
         /\ rc' >= 0 => result >= 0 /\ phase' = "term"
         /\ phase' = "term" /\ rc' >= 0 => leave \/ result >= 0
  BY DEF LoopTail

(* Every command that ended well was sent. *)
LEMMA CountInvStep == CountInv /\ TypeOK /\ [Next]_vars => CountInv'
<1> SUFFICES ASSUME CountInv, TypeOK, [Next]_vars PROVE CountInv'
  OBVIOUS
<1>0. cmd \in Nat /\ attempts \in Nat /\ sends \in Nat /\ rc \in Int
  BY DEF TypeOK
<1> USE <1>0 DEF CountInv, Earlier
<1>1. CASE StartCmd
  BY <1>1 DEF StartCmd
<1>2. CASE StartClock
  BY <1>2 DEF StartClock, sentVars, answerVars
<1>3. CASE SendCmd
  BY <1>3 DEF SendCmd, sentVars, answerVars
<1>4. CASE ReadLine \/ ReadNothing
  <2>1. /\ phase = "read" /\ phase' \in {"term", "send", "read"}
        /\ UNCHANGED <<cmd, attempts, sends>>
    BY <1>4 DEF ReadLine, ReadNothing, LoopTail, sentVars
  <2> QED
    BY <2>1
<1>5. CASE EndCmd
  BY <1>5 DEF EndCmd, sentVars, answerVars
<1>6. CASE Daemon
  BY <1>6 DEF Daemon, DaemonAck, DaemonRxstat, DaemonNoise, devVars,
              sentVars, answerVars
<1>7. CASE Exited \/ UNCHANGED vars
  BY <1>7 DEF Exited, vars, devVars, sentVars, answerVars
<1> QED
  BY <1>1, <1>2, <1>3, <1>4, <1>5, <1>6, <1>7 DEF Next, Devmgr

(* The daemon answers in order: its ack stays the only one, and its        *)
(* sessions are numbered as their commands.                                *)
LEMMA PendingInvDaemon ==
  ASSUME TypeOK, CountInv, PendingInv, Daemon
  PROVE  PendingInv'
<1>0. UNCHANGED <<phase, cmd, sends, accepted>>
  BY DEF Daemon, DaemonAck, DaemonRxstat, DaemonNoise, devVars, sentVars,
         answerVars
<1>1. /\ inbox \in Seq(Commands) /\ wire \in Seq(Lines)
      /\ Len(wire) \in Nat /\ Len(inbox) \in Nat
  BY DEF TypeOK
<1>2. ASSUME NEW m, wire' = Append(wire, m)
      PROVE  /\ Len(wire') = Len(wire) + 1
             /\ \A i \in 1..Len(wire) : wire'[i] = wire[i]
             /\ wire'[Len(wire) + 1] = m
  BY <1>1, <1>2
<1>3. CASE DaemonAck
  <2> DEFINE c == Head(inbox)
  <2>1. /\ inbox # <<>> /\ Len(inbox) = 1 /\ c = inbox[1]
        /\ c.of = cmd /\ c.sid = cmd
    <3>1. inbox # <<>>
      BY <1>3 DEF DaemonAck
    <3>4. Len(inbox) <= 1
      BY DEF PendingInv
    <3>2. Len(inbox) = 1
      <4>1. Len(inbox) \in Nat \ {0}
        BY <1>1, <3>1, EmptySeq, Zenon
      <4>2. \A n \in Nat \ {0} : n <= 1 => n = 1
        OBVIOUS
      <4> QED
        BY <3>4, <4>1, <4>2, Zenon
    <3>3. c = inbox[1]
      BY <1>1, <3>1
    <3> QED
      BY <3>1, <3>2, <3>3 DEF PendingInv
  <2>2. inbox' = <<>>
    BY <1>1, <1>3, <2>1 DEF DaemonAck
  <2>3. \A i \in 1..Len(wire) : ~IsAck(wire[i])
    BY <2>1 DEF PendingInv
  <2>4. \A s \in sessions' : s.of = s.sid
    BY <1>3, <2>1 DEF DaemonAck, PendingInv
  <2>5. PICK err \in {-1, 0}, sid \in {0, cmd} :
          wire' = Append(wire, Line("ack", cmd, err, sid, 0))
    BY <1>3, <2>1 DEF DaemonAck
  <2> DEFINE m == Line("ack", cmd, err, sid, 0)
  <2>6. /\ Len(wire') = Len(wire) + 1
        /\ \A i \in 1..Len(wire) : wire'[i] = wire[i]
        /\ wire'[Len(wire) + 1] = m
    BY <1>2, <2>5
  <2>7. m.type = "ack" /\ m.of = cmd /\ m.sid \in {0, cmd}
    BY DEF Line
  <2>8. sends = 1 /\ accepted = {} /\ phase \notin {"idle", "clock"}
    BY <2>1 DEF PendingInv
  <2> HIDE DEF m
  <2>9. \A i \in 1..Len(wire') : IsAck(wire'[i]) =>
          i = Len(wire) + 1 /\ wire'[i].of = cmd /\ wire'[i].sid \in {0, cmd}
    BY <1>1, <2>3, <2>6, <2>7
  <2>10. \A i \in 1..Len(wire') : wire'[i].type = "rxstat" =>
           wire'[i].of = wire'[i].sid \/ wire'[i].sid < 0
    BY <1>1, <2>6, <2>7 DEF PendingInv
  <2> QED
    BY <1>0, <2>2, <2>4, <2>8, <2>9, <2>10 DEF PendingInv
<1>4. CASE DaemonRxstat \/ DaemonNoise
  <2>1. PICK m : /\ wire' = Append(wire, m) /\ m.type \in {"rxstat", "msg"}
                 /\ m.of = m.sid \/ m.sid < 0
    <3>1. CASE DaemonRxstat
      BY <3>1 DEF DaemonRxstat, PendingInv, Line
    <3>2. CASE DaemonNoise
      BY <3>2 DEF DaemonNoise, Line
    <3> QED
      BY <1>4, <3>1, <3>2
  <2>2. /\ Len(wire') = Len(wire) + 1
        /\ \A i \in 1..Len(wire) : wire'[i] = wire[i]
        /\ wire'[Len(wire) + 1] = m
    BY <1>2, <2>1
  <2>3. \A i \in 1..Len(wire') : IsAck(wire'[i]) =>
          i \in 1..Len(wire) /\ IsAck(wire[i])
    BY <1>1, <2>1, <2>2 DEF IsAck
  <2>4. inbox' = inbox
    BY <1>4 DEF DaemonRxstat, DaemonNoise
  <2>5. \A s \in sessions' : s.of = s.sid
    <3>1. CASE DaemonRxstat
      <4>1. PICK s \in sessions :
              sessions' \subseteq sessions \cup {[s EXCEPT !.frames = @ + 1]}
        BY <3>1 DEF DaemonRxstat
      <4>2. s \in Sessions /\ s.of = s.sid
        BY DEF TypeOK, PendingInv
      <4>3. [s EXCEPT !.frames = @ + 1].of = s.of /\ [s EXCEPT !.frames = @ + 1].sid = s.sid
        BY <4>2 DEF Sessions
      <4> QED
        BY <4>1, <4>2, <4>3 DEF PendingInv
    <3>2. CASE DaemonNoise
      BY <3>2 DEF DaemonNoise, PendingInv
    <3> QED
      BY <1>4, <3>1, <3>2
  <2>6. \A i \in 1..Len(wire') : wire'[i].type = "rxstat" =>
          wire'[i].of = wire'[i].sid \/ wire'[i].sid < 0
    BY <1>1, <2>1, <2>2 DEF PendingInv
  <2>7. \A i \in 1..Len(wire') : IsAck(wire'[i]) =>
          /\ inbox' = <<>> /\ wire'[i].of = cmd' /\ wire'[i].sid \in {0, cmd'}
          /\ \A j \in 1..Len(wire') : IsAck(wire'[j]) => i = j
    BY <1>0, <2>2, <2>3, <2>4 DEF PendingInv
  <2>8. inbox' # <<>> \/ (\E i \in 1..Len(wire') : IsAck(wire'[i])) =>
          sends' = 1 /\ accepted' = {} /\ phase' \notin {"idle", "clock"}
    BY <1>0, <2>2, <2>3, <2>4 DEF PendingInv
  <2> QED
    BY <1>0, <2>4, <2>5, <2>6, <2>7, <2>8 DEF PendingInv
<1> QED
  BY <1>3, <1>4 DEF Daemon

(* Dropping lines from the front leaves the rest in order. *)
LEMMA PendingInvSuffix ==
  ASSUME TypeOK, PendingInv, NEW n \in 0..Len(wire),
         wire' = SubSeq(wire, n + 1, Len(wire)),
         UNCHANGED <<inbox, sessions, cmd>>,
         inbox' # <<>> \/ (\E i \in 1..Len(wire') : IsAck(wire'[i])) =>
           sends' = 1 /\ accepted' = {} /\ phase' \notin {"idle", "clock"}
  PROVE  PendingInv'
<1>1. /\ Len(wire) \in Nat /\ Len(wire') = Len(wire) - n
      /\ \A i \in 1..Len(wire') : n + i \in 1..Len(wire) /\ wire'[i] = wire[n + i]
  BY Suffix DEF TypeOK
<1>2. \A i \in 1..Len(wire') : IsAck(wire'[i]) =>
        /\ inbox' = <<>> /\ wire'[i].of = cmd' /\ wire'[i].sid \in {0, cmd'}
        /\ \A j \in 1..Len(wire') : IsAck(wire'[j]) => i = j
  <2> SUFFICES ASSUME NEW i \in 1..Len(wire'), IsAck(wire'[i])
               PROVE  /\ inbox' = <<>> /\ wire'[i].of = cmd'
                      /\ wire'[i].sid \in {0, cmd'}
                      /\ \A j \in 1..Len(wire') : IsAck(wire'[j]) => i = j
    OBVIOUS
  <2>1. n + i \in 1..Len(wire) /\ IsAck(wire[n + i]) /\ wire'[i] = wire[n + i]
    BY <1>1
  <2>2. /\ inbox = <<>> /\ wire[n + i].of = cmd /\ wire[n + i].sid \in {0, cmd}
        /\ \A j \in 1..Len(wire) : IsAck(wire[j]) => n + i = j
    BY <2>1 DEF PendingInv
  <2>3. ASSUME NEW j \in 1..Len(wire'), IsAck(wire'[j]) PROVE i = j
    <3>1. n + i = n + j
      BY <1>1, <2>2, <2>3
    <3> QED
      BY <1>1, <3>1
  <2> QED
    BY <2>1, <2>2, <2>3
<1>3. \A i \in 1..Len(wire') : wire'[i].type = "rxstat" =>
        wire'[i].of = wire'[i].sid \/ wire'[i].sid < 0
  BY <1>1 DEF PendingInv
<1> QED
  BY <1>2, <1>3 DEF PendingInv

(* sp_read() has handed out a line: an ack is the only one there was, and  *)
(* a frame that is accepted is one of this command's session.              *)
LEMMA OwnInvReadLine ==
  ASSUME TypeOK, OwnInv, Once, ReadLine
  PROVE  PendingInv' /\ AcceptedInv'
<1>1. PICK i \in 1..Len(wire), dt \in 0..ReadTimeout :
        /\ wire' = SubSeq(wire, i + 1, Len(wire))
        /\ state' = Verdict(wire[i]).state
        /\ cmd_sid' = Verdict(wire[i]).sid
        /\ accepted' = IF Accepts(wire[i]) THEN accepted \cup {wire[i].of}
                                           ELSE accepted
        /\ LoopTail(Verdict(wire[i]).rc, Verdict(wire[i]).leave, dt)
  BY DEF ReadLine
<1> DEFINE m == wire[i]
           v == Verdict(m)
<1>2. /\ phase = "read" /\ UNCHANGED <<cmd, sends, inbox, sessions>>
      /\ sends = 1 /\ cmd \in Nat /\ cmd > 0 /\ PendingInv /\ AcceptedInv
  BY DEF ReadLine, sentVars, DevFrame, daemonVars, OwnInv, Once, CountInv, TypeOK
<1>3. m \in Lines
  BY DEF TypeOK
<1>4. \/ state = 0 /\ accepted = {}
      \/ state = 1 /\ accepted = {cmd} /\ cmd_sid = cmd
  BY <1>2 DEF AcceptedInv
<1>5. /\ phase' \in {"term", "send", "read"}
      /\ phase' = "read" => ~v.leave /\ v.rc \notin {-4, 0, 1}
      /\ phase' = "term" /\ rc' >= 0 => v.leave \/ v.rc >= 0
  BY <1>1, <1>3, VerdictTyped, LoopTailLeads
<1>6. i \in 0..Len(wire) /\ Len(wire) \in Nat
  BY DEF TypeOK
<1>7. ASSUME accepted' = {} \/ \A j \in 1..Len(wire) : ~(IsAck(wire[j]) /\ j # i),
             accepted' = {} \/ inbox = <<>>
      PROVE  PendingInv'
  <2>1. \A j \in 1..Len(wire') : i + j \in 1..Len(wire) /\ i + j # i /\ wire'[j] = wire[i + j]
    <3>1. wire \in Seq(Lines) /\ wire' = SubSeq(wire, i + 1, Len(wire))
      BY <1>1 DEF TypeOK
    <3>2. /\ Len(wire') = Len(wire) - i
          /\ \A j \in 1..(Len(wire) - i) : wire'[j] = wire[i + j]
      BY <1>6, <3>1, Suffix
    <3> QED
      BY <1>6, <3>2
  <2>2. inbox' # <<>> \/ (\E j \in 1..Len(wire') : IsAck(wire'[j])) => accepted' = {}
    BY <1>2, <1>7, <2>1
  <2> QED
    BY <1>1, <1>2, <1>5, <1>6, <2>2, PendingInvSuffix
<1>8. CASE /\ ~Accepts(m) /\ v.state = state /\ v.sid = cmd_sid
           /\ v.rc = -1 /\ ~v.leave
  <2>1. /\ accepted' = accepted /\ state' = state /\ cmd_sid' = cmd_sid
        /\ ~(phase' = "term" /\ rc' >= 0)
    BY <1>1, <1>5, <1>8
  <2>2. AcceptedInv'
    BY <1>2, <1>4, <1>5, <2>1 DEF AcceptedInv
  <2>3. accepted # {} => inbox = <<>> /\ \A j \in 1..Len(wire) : ~IsAck(wire[j])
    BY <1>2 DEF PendingInv
  <2>4. PendingInv'
    BY <1>7, <2>1, <2>3
  <2> QED
    BY <2>2, <2>4
<1>9. CASE /\ Accepts(m) /\ state = 0 /\ IsAck(m)
           /\ \/ v.leave
              \/ m.sid # 0 /\ v.state = 1 /\ v.sid = m.sid /\ v.rc = -1
  <2>1. /\ inbox = <<>> /\ m.of = cmd /\ m.sid \in {0, cmd}
        /\ \A j \in 1..Len(wire) : IsAck(wire[j]) => i = j
    BY <1>2, <1>9 DEF PendingInv
  <2>2. accepted' = {cmd}
    BY <1>1, <1>4, <1>9, <2>1
  <2>3. phase' = "read" => state' = 1 /\ cmd_sid' = cmd
    BY <1>1, <1>5, <1>9, <2>1
  <2>4. AcceptedInv'
    BY <1>2, <1>5, <2>2, <2>3 DEF AcceptedInv
  <2>5. PendingInv'
    BY <1>7, <2>1
  <2> QED
    BY <2>4, <2>5
<1>10. CASE /\ Accepts(m) /\ state = 1 /\ m.type = "rxstat" /\ m.sid = cmd_sid
            /\ v.rc \in {-4, 0, 1}
  <2>1. accepted = {cmd} /\ m.of = cmd
    BY <1>2, <1>4, <1>10 DEF PendingInv
  <2>2. accepted' = {cmd} /\ phase' # "read"
    BY <1>1, <1>5, <1>10, <2>1
  <2>3. inbox = <<>> /\ \A j \in 1..Len(wire) : ~IsAck(wire[j])
    BY <1>2, <2>1 DEF PendingInv
  <2>4. AcceptedInv'
    BY <1>2, <1>5, <2>2 DEF AcceptedInv
  <2>5. PendingInv'
    BY <1>7, <2>3
  <2> QED
    BY <2>4, <2>5
<1> HIDE DEF m, v
<1> QED
  BY <1>3, <1>4, <1>8, <1>9, <1>10, VerdictCases DEF m, v

(* As long as no command was sent twice, the answers under way are those   *)
(* to the present command, and no other one is accepted.                   *)
LEMMA OwnInvStep == TypeOK /\ OwnInv /\ [Next]_vars => OwnInv'
<1> SUFFICES ASSUME TypeOK, OwnInv, [Next]_vars, Once'
             PROVE  PendingInv' /\ AcceptedInv'
  BY CountInvStep DEF OwnInv
<1>0. /\ cmd \in Nat /\ attempts \in Nat /\ sends \in Nat /\ rc \in Int
      /\ wire \in Seq(Lines) /\ inbox \in Seq(Commands) /\ CountInv
      /\ Len(wire) \in Nat
  BY DEF TypeOK, OwnInv
<1>1. CASE StartCmd
  <2>1. /\ phase = "idle" /\ cmd' = cmd + 1 /\ accepted' = {} /\ sends' = 0
        /\ attempts' = attempts /\ phase' \in {"clock", "stopped"}
        /\ UNCHANGED <<inbox, sessions>>
        /\ wire' = wire \/ \E n \in 0..Len(wire) : wire' = SubSeq(wire, n + 1, Len(wire))
    BY <1>1 DEF StartCmd, DevFrame, daemonVars
  <2>2. Once
    BY <1>0, <2>1 DEF Once, CountInv, Earlier
  <2>3. PendingInv /\ inbox = <<>> /\ \A i \in 1..Len(wire) : ~IsAck(wire[i])
    BY <2>1, <2>2 DEF OwnInv, PendingInv
  <2>4. PICK n \in 0..Len(wire) :
          /\ Len(wire') = Len(wire) - n
          /\ \A i \in 1..(Len(wire) - n) : wire'[i] = wire[n + i]
    <3>1. CASE wire' = wire
      <4>1. 0 \in 0..Len(wire) /\ \A i \in 1..Len(wire) : 0 + i = i
        BY <1>0
      <4> QED
        BY <1>0, <3>1, <4>1
    <3>2. CASE wire' # wire
      BY <1>0, <2>1, <3>2, Suffix
    <3> QED
      BY <3>1, <3>2
  <2>5. \A i \in 1..Len(wire') : n + i \in 1..Len(wire) /\ wire'[i] = wire[n + i]
    BY <1>0, <2>4
  <2>6. \A i \in 1..Len(wire') : ~IsAck(wire'[i])
    BY <2>3, <2>5
  <2>7. \A i \in 1..Len(wire') : wire'[i].type = "rxstat" =>
          wire'[i].of = wire'[i].sid \/ wire'[i].sid < 0
    BY <2>3, <2>5 DEF PendingInv
  <2>8. inbox' = <<>> /\ Len(inbox') = 0
    BY <2>1, <2>3
  <2>9. PendingInv'
    BY <2>1, <2>3, <2>6, <2>7, <2>8 DEF PendingInv
  <2> QED
    BY <2>1, <2>9 DEF AcceptedInv
<1>2. CASE StartClock
  <2>1. Once
    BY <1>2 DEF StartClock, sentVars, Once, Earlier
  <2> QED
    BY <1>2, <2>1 DEF StartClock, OwnInv, PendingInv, AcceptedInv, sentVars,
                      answerVars, DevFrame, daemonVars
<1>3. CASE SendCmd
  <2>1. CASE sends' = sends + 1
    <3>1. /\ sends = 0 /\ accepted = {} /\ cmd > 0 /\ attempts + 1 = cmd /\ Once
      BY <1>0, <1>3, <2>1
         DEF SendCmd, sentVars, answerVars, Once, CountInv, Earlier
    <3>2. PendingInv /\ inbox = <<>> /\ \A i \in 1..Len(wire) : ~IsAck(wire[i])
      BY <3>1 DEF OwnInv, PendingInv
    <3>3. /\ phase' = "read" /\ state' = 0
          /\ UNCHANGED <<cmd, wire, sessions, accepted>>
          /\ inbox' \in {<<>>, <<[of |-> cmd, sid |-> cmd]>>}
      <4>1. Append(<<>>, [of |-> cmd, sid |-> attempts + 1]) = <<[of |-> cmd, sid |-> cmd]>>
        BY <3>1
      <4>2. inbox' = inbox \/ inbox' = Append(inbox, [of |-> cmd, sid |-> attempts + 1])
        BY <1>3 DEF SendCmd
      <4> QED
        BY <1>0, <1>3, <2>1, <3>2, <4>1, <4>2 DEF SendCmd, sentVars, answerVars
    <3>4. /\ Len(inbox') <= 1
          /\ \A i \in 1..Len(inbox') : inbox'[i].of = cmd /\ inbox'[i].sid = cmd
      <4>1. CASE inbox' = <<>>
        BY <4>1
      <4>2. CASE inbox' = <<[of |-> cmd, sid |-> cmd]>>
        BY <4>2
      <4> QED
        BY <3>3, <4>1, <4>2
    <3>5. PendingInv'
      BY <2>1, <3>1, <3>2, <3>3, <3>4 DEF PendingInv
    <3> QED
      BY <3>1, <3>3, <3>5 DEF AcceptedInv
  <2>2. CASE ~(sends' = sends + 1)
    <3>1. /\ phase = "send" /\ phase' = "term" /\ rc' = -6
          /\ UNCHANGED <<cmd, attempts, sends, inbox, sessions, wire, accepted>>
      BY <1>3, <2>2 DEF SendCmd, sentVars, answerVars
    <3>2. Once
      BY <3>1 DEF Once, Earlier
    <3> QED
      BY <3>1, <3>2 DEF OwnInv, PendingInv, AcceptedInv
  <2> QED
    BY <2>1, <2>2
<1>4. CASE ReadLine
  <2>1. Once
    BY <1>4 DEF ReadLine, sentVars, Once, Earlier
  <2> QED
    BY <1>4, <2>1, OwnInvReadLine
<1>5. CASE ReadNothing
  <2>1. /\ phase = "read" /\ phase' \in {"term", "send"} /\ rc' \in {-5, -4}
        /\ UNCHANGED <<cmd, attempts, sends, inbox, sessions, wire, accepted>>
    BY <1>5 DEF ReadNothing, LoopTail, sentVars, answerVars, DevFrame, daemonVars
  <2>2. Once
    BY <2>1 DEF Once, Earlier
  <2> QED
    BY <2>1, <2>2 DEF OwnInv, PendingInv, AcceptedInv
<1>6. CASE EndCmd
  <2>1. /\ phase = "term" /\ phase' = IF rc < 0 THEN "stopped" ELSE "idle"
        /\ UNCHANGED <<cmd, attempts, sends, inbox, sessions, wire, accepted, rc>>
    BY <1>6 DEF EndCmd, sentVars, answerVars, DevFrame, daemonVars
  <2>2. Once
    BY <2>1 DEF Once, Earlier
  <2>3. rc >= 0 => accepted = {cmd}
    BY <2>1, <2>2 DEF OwnInv, AcceptedInv
  <2> QED
    BY <1>0, <2>1, <2>2, <2>3 DEF OwnInv, PendingInv, AcceptedInv
<1>7. CASE Daemon
  <2>1. UNCHANGED <<phase, cmd, state, cmd_sid, rc, attempts, sends, accepted>>
    BY <1>7 DEF Daemon, DaemonAck, DaemonRxstat, DaemonNoise, devVars,
                sentVars, answerVars
  <2>2. Once
    BY <2>1 DEF Once, Earlier
  <2>3. PendingInv'
    BY <1>0, <1>7, <2>2, PendingInvDaemon DEF OwnInv
  <2> QED
    BY <2>1, <2>2, <2>3 DEF OwnInv, AcceptedInv
<1>8. CASE Exited \/ UNCHANGED vars
  <2>1. UNCHANGED vars
    BY <1>8 DEF Exited
  <2> QED
    BY <2>1 DEF vars, devVars, daemonVars, sentVars, answerVars, Once, Earlier,
                OwnInv, PendingInv, AcceptedInv
<1> QED
  BY <1>1, <1>2, <1>3, <1>4, <1>5, <1>6, <1>7, <1>8 DEF Next, Devmgr

(* Although an ack carries nothing that is compared with the command, a    *)
(* command accepts answers to itself only, and succeeds with one only, for *)
(* as long as none had to be sent again.                                   *)
THEOREM AnswersAreOwn == Spec => []OwnAnswers
<1>1. Init => OwnInv
  BY DEF Init, OwnInv, CountInv, Once, Earlier, PendingInv, AcceptedInv
<1>2. TypeOK /\ OwnInv => OwnAnswers
  <2> SUFFICES ASSUME TypeOK, OwnInv, attempts <= cmd
               PROVE  /\ accepted \subseteq {cmd}
                      /\ phase = "idle" /\ cmd > 0 => accepted = {cmd}
    BY DEF OwnAnswers
  <2>1. cmd \in Nat /\ attempts \in Nat /\ sends \in Nat
    BY DEF TypeOK
  <2>2. CASE sends = 0
    BY <2>1, <2>2 DEF OwnInv, CountInv
  <2>3. CASE sends # 0
    <3>1. Once
      BY <2>1, <2>3 DEF OwnInv, CountInv, Once, Earlier
    <3> QED
      BY <3>1 DEF OwnInv, AcceptedInv
  <2> QED
    BY <2>2, <2>3
<1> QED
  BY <1>1, <1>2, OwnInvStep, TypeCorrect, PTL DEF Spec
=============================================================================
