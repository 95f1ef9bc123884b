---------------------------- MODULE DeadlinesProofs --------------------------
(***************************************************************************)
(* Theorems about Deadlines.tla, for every length of a second, every       *)
(* timeout and every setting of the wall clock: the arithmetic of the      *)
(* timespecs is exact and a command's time is bounded.                     *)
(***************************************************************************)
EXTENDS Deadlines, TLAPS

(* The inductive form of the three: where the time has gone at each place  *)
(* of the handler, and how the wall clock stands to the deadline.          *)
TimeInv ==
  /\ mono \in Int /\ real \in Int /\ began \in Int /\ readAt \in Int
  /\ forward \in Nat /\ back \in Nat /\ global_timeout \in Int
  /\ phase = "clock" => global_timeout = GlobalTimeout
  /\ Running =>
       /\ ref = Timespec(began) /\ began <= mono
       /\ global_timeout <= GlobalTimeout
  /\ phase = "send" => mono - began < GlobalNs
  /\ phase = "read" => mono - began < GlobalNs + SendTime
  /\ phase \in {"wait", "tail"} =>
       /\ readAt - began < GlobalNs + SendTime
       /\ mono - readAt <= ReadNs + back
  /\ phase = "wait" =>
       /\ Total(ts) \in Int /\ ts.nsec \in Int
       /\ real - forward + back = Total(ts) - ReadNs + (mono - readAt)

-----------------------------------------------------------------------------
(* Division with remainder, the one way to do it. *)
LEMMA DivMod ==
  ASSUME NEW n \in Int, NEW s \in Nat \ {0}
  PROVE  /\ n \div s \in Int /\ n % s \in 0..(s - 1)
         /\ n = (n \div s) * s + (n % s)
  OBVIOUS

(* A number that is so many times s, and a rest, divides so often. *)
LEMMA DivUnique ==
  ASSUME NEW s \in Nat \ {0}, NEW q \in Int, NEW r \in 0..(s - 1)
  PROVE  (q * s + r) \div s = q
<1> DEFINE n == q * s + r
           p == n \div s
<1>1. n \in Int /\ p \in Int /\ n % s \in 0..(s - 1) /\ n = p * s + (n % s)
  BY DivMod
<1>2. (p - q) * s = r - (n % s)
  BY <1>1
<1>3. -s < (p - q) * s /\ (p - q) * s < s
  BY <1>1, <1>2
<1>4. CASE p - q >= 1
  <2>1. (p - q) * s >= s
    BY <1>1, <1>4
  <2> QED
    BY <1>1, <1>3, <2>1
<1>5. CASE p - q <= -1
  <2>1. (p - q) * s <= -s
    BY <1>1, <1>5
  <2> QED
    BY <1>1, <1>3, <2>1
<1> QED
  BY <1>1, <1>4, <1>5

(* A length of time is no negative number of milliseconds. *)
LEMMA DivNonneg ==
  ASSUME NEW n \in Nat, NEW s \in Nat \ {0}
  PROVE  n \div s >= 0
<1> DEFINE q == n \div s
<1>1. q \in Int /\ n < q * s + s
  BY DivMod
<1>2. SUFFICES ASSUME q <= -1 PROVE FALSE
  BY <1>1
<1> HIDE DEF q
<1>3. q * s <= -s
  BY <1>1, <1>2
<1> QED
  BY <1>1, <1>3

(* A second is some nanoseconds long. *)
LEMMA SecPositive == Sec \in Nat \ {0}
  BY DeadlinesAssumption DEF Sec

(* A clock and its struct timespec are the same time. *)
LEMMA TimespecExact ==
  ASSUME NEW n \in Int
  PROVE  /\ Timespec(n) \in [sec : Int, nsec : 0..(Sec - 1)]
         /\ Total(Timespec(n)) = n
  BY SecPositive, DivMod DEF Timespec, Total

(* diff_timespec(): with or without the borrow, the difference of two      *)
(* times, in the normal form of a struct timespec.                         *)
LEMMA DiffExact ==
  ASSUME NEW a \in [sec : Int, nsec : 0..(Sec - 1)],
         NEW b \in [sec : Int, nsec : 0..(Sec - 1)]
  PROVE  /\ diff_timespec(a, b) \in [sec : Int, nsec : 0..(Sec - 1)]
         /\ Total(diff_timespec(a, b)) = Total(b) - Total(a)
<1> USE SecPositive
<1>1. CASE b.nsec < a.nsec
  <2>1. (b.sec - 1 - a.sec) * Sec = b.sec * Sec - Sec - a.sec * Sec
    OBVIOUS
  <2> QED
    BY <1>1, <2>1 DEF diff_timespec, Total
<1>2. CASE ~(b.nsec < a.nsec)
  <2>1. (b.sec - a.sec) * Sec = b.sec * Sec - a.sec * Sec
    OBVIOUS
  <2> QED
    BY <1>2, <2>1 DEF diff_timespec, Total
<1> QED
  BY <1>1, <1>2

(* The conversion to milliseconds rounds down. *)
LEMMA MillisExact ==
  ASSUME NEW t \in [sec : Int, nsec : 0..(Sec - 1)]
  PROVE  Millis(t) \in Int /\ Millis(t) = Total(t) \div NsPerMs
<1> USE DeadlinesAssumption
<1> DEFINE x == t.sec * MsPerSec
           q == t.nsec \div NsPerMs
           r == t.nsec % NsPerMs
<1>1. x \in Int /\ t.sec \in Int /\ t.nsec \in Int
  BY SecPositive
<1>2. q \in Int /\ r \in 0..(NsPerMs - 1) /\ t.nsec = q * NsPerMs + r
  BY <1>1, DivMod
<1>3. t.sec * Sec = x * NsPerMs
  BY <1>1 DEF Sec
<1> HIDE DEF x, q, r
<1>4. (x + q) * NsPerMs = x * NsPerMs + q * NsPerMs
  BY <1>1, <1>2
<1>5. Total(t) = (x + q) * NsPerMs + r
  BY <1>1, <1>2, <1>3, <1>4 DEF Total
<1>6. Total(t) \div NsPerMs = x + q
  BY <1>1, <1>2, <1>5, DivUnique
<1>7. Millis(t) = x + q
  BY DEF Millis, x, q
<1> QED
  BY <1>1, <1>2, <1>6, <1>7

(* The deadline of sp_read() is read_timeout after cur, carried or not. *)
LEMMA DeadlineExact ==
  ASSUME NEW cur \in [sec : Int, nsec : 0..(Sec - 1)]
  PROVE  /\ Total(Deadline(cur)) = Total(cur) + ReadNs
         /\ Total(cur) \in Int /\ Deadline(cur).nsec \in Int
<1> USE DeadlinesAssumption, SecPositive
<1> DEFINE d == ReadTimeout \div MsPerSec
           m == ReadTimeout % MsPerSec
           s == d + cur.sec
           n == m * NsPerMs + cur.nsec
<1>1. /\ d \in Int /\ m \in Int /\ cur.sec \in Int /\ cur.nsec \in Int
      /\ ReadTimeout = d * MsPerSec + m
  BY DivMod
<1> HIDE DEF d, m
<1>2. s \in Int /\ n \in Int
  BY <1>1
<1>3. ReadNs = d * Sec + m * NsPerMs
  BY <1>1 DEF ReadNs, Sec
<1>4. s * Sec = d * Sec + cur.sec * Sec
  BY <1>1
<1>5. s * Sec + n = Total(cur) + ReadNs
  BY <1>1, <1>3, <1>4 DEF Total
<1>6. /\ Total(Carried([sec |-> s, nsec |-> n])) = s * Sec + n
      /\ Carried([sec |-> s, nsec |-> n]).nsec \in Int
  <2> HIDE DEF s, n
  <2>1. (s + 1) * Sec = s * Sec + Sec
    BY <1>2
  <2> QED
    BY <1>2, <2>1 DEF Carried, Total
<1>7. Deadline(cur) = Carried([sec |-> s, nsec |-> n])
  BY DEF Deadline, d, m
<1>8. Total(cur) \in Int
  BY <1>1 DEF Total
<1> QED
  BY <1>5, <1>6, <1>7, <1>8

(* The timeouts are positive. *)
LEMMA BoundsTyped ==
  /\ ReadNs \in Nat \ {0} /\ GlobalTimeout \in Nat \ {0}
  /\ GlobalNs \in Nat \ {0}
<1> USE DeadlinesAssumption
<1>1. ReadNs \in Nat \ {0}
  BY DEF ReadNs
<1>2. GlobalTimeout \in Nat \ {0}
  <2>1. ReadTimeout * Tries \in Nat \ {0}
    OBVIOUS
  <2>2. ReadTimeout \div 2 \in Nat
    OBVIOUS
  <2> QED
    BY <2>1, <2>2 DEF GlobalTimeout
<1>3. GlobalNs \in Nat \ {0}
  BY <1>2 DEF GlobalNs
<1> QED
  BY <1>1, <1>2, <1>3

(* What the handler takes off is the time since ref. *)
LEMMA ElapsedMillis ==
  ASSUME NEW a \in Int, NEW b \in Int
  PROVE  /\ Millis(diff_timespec(Timespec(a), Timespec(b))) \in Int
         /\ Millis(diff_timespec(Timespec(a), Timespec(b))) = (b - a) \div NsPerMs
  BY TimespecExact, DiffExact, MillisExact

(* As long as global_timeout is not used up, the time since ref is less    *)
(* than the whole of it, the rounding included.                            *)
LEMMA TimeLeft ==
  ASSUME NEW e \in Int, e \div NsPerMs < GlobalTimeout
  PROVE  e < GlobalNs
<1> USE DeadlinesAssumption, BoundsTyped
<1> DEFINE q == e \div NsPerMs
<1>1. q \in Int /\ e < q * NsPerMs + NsPerMs
  BY DivMod
<1> HIDE DEF q
<1>2. q + 1 <= GlobalTimeout
  BY <1>1 DEF q
<1>3. (q + 1) * NsPerMs = q * NsPerMs + NsPerMs
  BY <1>1
<1>4. (q + 1) * NsPerMs <= GlobalTimeout * NsPerMs
  BY <1>1, <1>2
<1> QED
  BY <1>1, <1>3, <1>4 DEF GlobalNs

(* Where the time has gone, at every place of the handler. *)
THEOREM TimeAccounted == Spec => []TimeInv
<1> USE DeadlinesAssumption, BoundsTyped, SecPositive
<1>1. Init => TimeInv
  BY DEF Init, TimeInv, Running
<1>2. TimeInv /\ [Next]_vars => TimeInv'
  <2> SUFFICES ASSUME TimeInv, [Next]_vars PROVE TimeInv'
    OBVIOUS
  <2> USE DEF TimeInv, Running
  <2>1. CASE SetClock
    <3>1. PICK d \in 1..MaxStep :
            \/ real' = real + d /\ forward' = forward + d /\ back' = back
            \/ real' = real - d /\ back' = back + d /\ forward' = forward
      BY <2>1 DEF SetClock
    <3>2. UNCHANGED <<phase, mono, ref, global_timeout, began, ts, readAt>>
      BY <2>1 DEF SetClock, devVars
    <3>3. Total(ts)' = Total(ts)
      BY <3>2 DEF Total
    <3> QED
      BY <3>1, <3>2, <3>3
  <2>2. CASE SetRef
    BY <2>2 DEF SetRef, clockVars, readVars
  <2>3. CASE Send
    BY <2>3 DEF Send, devVars, readVars
  <2>4. CASE ReadCall
    <3>1. Total(ts') = real + ReadNs /\ ts'.nsec \in Int
      BY <2>4, TimespecExact, DeadlineExact DEF ReadCall
    <3>2. Total(ts)' = real + ReadNs
      BY <3>1 DEF Total
    <3> QED
      BY <2>4, <3>1, <3>2 DEF ReadCall, clockVars, devVars
  <2>5. CASE Tick
    <3>1. /\ phase = "wait" /\ real < Total(ts)
          /\ mono' = mono + 1 /\ real' = real + 1
          /\ UNCHANGED <<phase, ref, global_timeout, began, ts, readAt, forward, back>>
      BY <2>5 DEF Tick, Due, devVars, readVars
    <3>2. Total(ts)' = Total(ts)
      BY <3>1 DEF Total
    <3> QED
      BY <3>1, <3>2
  <2>6. CASE ReadNothing \/ ReadLine
    BY <2>6 DEF ReadNothing, ReadLine, clockVars, devVars, readVars
  <2>7. CASE LoopTail
    <3> DEFINE ms == Millis(diff_timespec(ref, Timespec(mono)))
    <3>1. /\ phase = "tail" /\ phase' \in {"send", "read", "done"}
          /\ UNCHANGED <<mono, real, ref, began, ts, readAt, forward, back>>
          /\ \/ phase' = "done" /\ UNCHANGED global_timeout
             \/ /\ global_timeout' = global_timeout - ms
                /\ phase' # "done" => ~(global_timeout' <= 0)
      BY <2>7 DEF LoopTail, Retract, clockVars, readVars
    <3>2. ms \in Int /\ ms = (mono - began) \div NsPerMs
      BY <3>1, ElapsedMillis
    <3>3. ms >= 0
      BY <3>1, <3>2, DivNonneg
    <3> HIDE DEF ms
    <3>4. ASSUME phase' # "done" PROVE mono - began < GlobalNs
      <4>1. ms < GlobalTimeout
        BY <3>1, <3>2, <3>4
      <4> QED
        BY <3>2, <4>1, TimeLeft
    <3> QED
      BY <3>1, <3>2, <3>3, <3>4
  <2>8. CASE Done \/ UNCHANGED vars
    <3>1. UNCHANGED vars
      BY <2>8 DEF Done
    <3>2. Total(ts)' = Total(ts)
      BY <3>1 DEF vars, readVars, Total
    <3> QED
      BY <3>1, <3>2 DEF vars, clockVars, devVars, readVars
  <2> QED
    BY <2>1, <2>2, <2>3, <2>4, <2>5, <2>6, <2>7, <2>8 DEF Next, Handler
<1> QED
  BY <1>1, <1>2, PTL DEF Spec

(* A command is over within global_timeout, a send and a read_timeout, and *)
(* what the wall clock was set back during the last read.                  *)
THEOREM CommandDeadlineHolds == Spec => []CommandDeadline
<1>1. TimeInv => CommandDeadline
  BY DeadlinesAssumption, BoundsTyped DEF TimeInv, CommandDeadline, Running
<1> QED
  BY <1>1, TimeAccounted, PTL

(* An sp_read() that comes back with nothing has waited for read_timeout,  *)
(* but for the settings of the wall clock and the uncarried second.        *)
THEOREM WaitIsExact == Spec => []WaitExact
<1>1. TimeInv => WaitExact
  BY DeadlinesAssumption, BoundsTyped, SecPositive DEF TimeInv, WaitExact, Due
<1> QED
  BY <1>1, TimeAccounted, PTL

(* The milliseconds taken off global_timeout are those since ref. *)
THEOREM ElapsedIsExact == Spec => []ElapsedExact
<1>1. TimeInv => ElapsedExact
  BY ElapsedMillis DEF TimeInv, ElapsedExact
<1> QED
  BY <1>1, TimeAccounted, PTL

-----------------------------------------------------------------------------
(* Types.                                                                  *)

(* The wall clock stays late enough for the settings that may still come. *)
ClockInv == TypeOK /\ real >= (MaxSteps - steps) * MaxStep

(* A clock gives a struct timespec in normal form, *)
LEMMA TimespecTyped ==
  ASSUME NEW n \in Nat
  PROVE  Timespec(n) \in [sec : Nat, nsec : 0..(Sec - 1)]
<1>1. n \div Sec \in Int /\ n \div Sec >= 0 /\ n % Sec \in 0..(Sec - 1)
  <2>1. n \div Sec \in Int /\ n % Sec \in 0..(Sec - 1)
    BY SecPositive, DivMod
  <2>2. n \div Sec >= 0
    BY SecPositive, DivNonneg
  <2> QED
    BY <2>1, <2>2
<1>2. n \div Sec \in Nat
  BY <1>1
<1> QED
  BY <1>1, <1>2 DEF Timespec

(* and sp_read() makes of it a deadline whose nanoseconds are at most a    *)
(* whole second.                                                           *)
LEMMA DeadlineTyped ==
  ASSUME NEW cur \in [sec : Nat, nsec : 0..(Sec - 1)]
  PROVE  Deadline(cur) \in [sec : Nat, nsec : 0..Sec]
<1> USE DeadlinesAssumption, SecPositive
<1> DEFINE d == ReadTimeout \div MsPerSec
           m == ReadTimeout % MsPerSec
           s == d + cur.sec
           n == m * NsPerMs + cur.nsec
<1>1. d \in Int /\ d >= 0 /\ m \in 0..(MsPerSec - 1)
  <2>1. d \in Int /\ m \in 0..(MsPerSec - 1)
    BY DivMod
  <2>2. d >= 0
    BY DivNonneg
  <2> QED
    BY <2>1, <2>2
<1>2. cur.sec \in Nat /\ cur.nsec \in 0..(Sec - 1)
  OBVIOUS
<1> HIDE DEF d, m
<1>3. m * NsPerMs \in Nat /\ m * NsPerMs <= Sec
  <2>1. m * NsPerMs <= MsPerSec * NsPerMs
    BY <1>1
  <2>2. m * NsPerMs \in Nat
    BY <1>1
  <2> QED
    BY <2>1, <2>2 DEF Sec
<1>4. s \in Nat /\ n \in 0..(2 * Sec - 1)
  BY <1>1, <1>2, <1>3
<1>5. Carried([sec |-> s, nsec |-> n]) \in [sec : Nat, nsec : 0..Sec]
  <2> HIDE DEF s, n
  <2> QED
    BY <1>4 DEF Carried
<1>6. Deadline(cur) = Carried([sec |-> s, nsec |-> n])
  BY DEF Deadline, d, m
<1> QED
  BY <1>5, <1>6

(* The clocks, timespecs and counts keep their types: the deadline has at  *)
(* most a whole second in its nanoseconds, and only the deadline.          *)
THEOREM TimeTypes == Spec => []TypeOK
<1> USE DeadlinesAssumption, SecPositive
<1>1. Init => ClockInv
  <2> SUFFICES ASSUME Init PROVE ClockInv
    OBVIOUS
  <2>1. Timespec(0) \in [sec : Nat, nsec : 0..(Sec - 1)]
    BY TimespecTyped
  <2>2. Timespec(0) \in [sec : Nat, nsec : 0..Sec]
    BY <2>1
  <2>3. MaxSteps * MaxStep \in Nat
    OBVIOUS
  <2>4. real \in Nat /\ real >= (MaxSteps - steps) * MaxStep
    BY <2>3 DEF Init
  <2>5. ref \in [sec : Nat, nsec : 0..(Sec - 1)] /\ ts \in [sec : Nat, nsec : 0..Sec]
    BY <2>1, <2>2 DEF Init
  <2>6. global_timeout \in Int
    BY BoundsTyped DEF Init
  <2> QED
    BY <2>4, <2>5, <2>6 DEF Init, ClockInv, TypeOK
<1>2. TimeInv /\ ClockInv /\ [Next]_vars => ClockInv'
  <2> SUFFICES ASSUME TimeInv, ClockInv, [Next]_vars PROVE ClockInv'
    OBVIOUS
  <2> DEFINE rest == (MaxSteps - steps) * MaxStep
  <2>1. CASE SetClock
    <3>1. PICK d \in 1..MaxStep :
            \/ real' = real + d /\ forward' = forward + d /\ back' = back
            \/ real' = real - d /\ back' = back + d /\ forward' = forward
      BY <2>1 DEF SetClock
    <3>2. /\ UNCHANGED <<phase, mono, ref, global_timeout, began, ts, readAt, rc, lines>>
          /\ steps' = steps + 1 /\ steps < MaxSteps
      BY <2>1 DEF SetClock, devVars
    <3>3. /\ steps \in 0..MaxSteps /\ real \in Nat /\ real >= rest
          /\ forward \in Nat /\ back \in Nat
      BY DEF ClockInv, TypeOK
    <3>4. rest = (MaxSteps - (steps + 1)) * MaxStep + MaxStep
      BY <3>3
    <3>5. (MaxSteps - (steps + 1)) * MaxStep \in Nat
      BY <3>2, <3>3
    <3> HIDE DEF rest
    <3>6. real' \in Nat /\ real' >= (MaxSteps - (steps + 1)) * MaxStep
      BY <3>1, <3>3, <3>4, <3>5
    <3>7. forward' \in Nat /\ back' \in Nat /\ steps' \in 0..MaxSteps
      BY <3>1, <3>2, <3>3
    <3>8. real' >= (MaxSteps - steps') * MaxStep
      BY <3>2, <3>6
    <3> QED
      BY <3>2, <3>6, <3>7, <3>8 DEF ClockInv, TypeOK
  <2>2. CASE SetRef
    <3>1. ref' \in [sec : Nat, nsec : 0..(Sec - 1)]
      BY <2>2, TimespecTyped DEF SetRef, ClockInv, TypeOK
    <3> QED
      BY <2>2, <3>1 DEF SetRef, clockVars, readVars, boundVars, ClockInv, TypeOK
  <2>3. CASE Send \/ Tick
    <3>1. PICK d \in Nat : mono' = mono + d /\ real' = real + d
      BY <2>3 DEF Send, Tick
    <3>2. /\ UNCHANGED <<ref, global_timeout, began, ts, readAt, forward, back,
                         lines, steps>>
          /\ phase' \in {"read", "wait", "done"} /\ rc' \in {rc, -6}
      BY <2>3 DEF Send, Tick, devVars, readVars, boundVars
    <3>3. mono \in Nat /\ real \in Nat /\ real >= rest
      BY DEF ClockInv, TypeOK
    <3>4. rest \in Int
      BY DEF ClockInv, TypeOK
    <3> HIDE DEF rest
    <3>5. mono' \in Nat /\ real' \in Nat /\ real' >= rest
      BY <3>1, <3>3, <3>4
    <3> QED
      BY <3>2, <3>5 DEF rest, ClockInv, TypeOK
  <2>4. CASE ReadCall
    <3>1. ts' \in [sec : Nat, nsec : 0..Sec]
      BY <2>4, TimespecTyped, DeadlineTyped DEF ReadCall, ClockInv, TypeOK
    <3> QED
      BY <2>4, <3>1 DEF ReadCall, clockVars, devVars, boundVars, ClockInv, TypeOK
  <2>5. CASE ReadNothing \/ ReadLine
    BY <2>5 DEF ReadNothing, ReadLine, clockVars, devVars, readVars, boundVars,
                ClockInv, TypeOK
  <2>6. CASE LoopTail
    <3>1. global_timeout' \in Int
      <4>1. /\ phase = "tail"
            /\ \/ global_timeout' = global_timeout
               \/ global_timeout' =
                    global_timeout - Millis(diff_timespec(ref, Timespec(mono)))
        BY <2>6 DEF LoopTail, Retract
      <4>2. Millis(diff_timespec(ref, Timespec(mono))) \in Int
        BY <4>1, ElapsedMillis DEF TimeInv, Running
      <4> QED
        BY <4>1, <4>2 DEF ClockInv, TypeOK
    <3>2. /\ UNCHANGED <<mono, real, ref, began, ts, readAt, forward, back, lines, steps>>
          /\ phase' \in {"done", "send", "read"} /\ (rc' = rc \/ rc' = -5)
      BY <2>6 DEF LoopTail, clockVars, readVars, boundVars
    <3> QED
      BY <3>1, <3>2 DEF ClockInv, TypeOK
  <2>7. CASE Done \/ UNCHANGED vars
    BY <2>7 DEF Done, vars, clockVars, devVars, readVars, boundVars, ClockInv, TypeOK
  <2> QED
    BY <2>1, <2>2, <2>3, <2>4, <2>5, <2>6, <2>7 DEF Next, Handler
<1>3. ClockInv => TypeOK
  BY DEF ClockInv
<1> QED
  BY <1>1, <1>2, <1>3, TimeAccounted, PTL DEF Spec
==============================================================================
