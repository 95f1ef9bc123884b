----------------------------- MODULE BuffersProofs ---------------------------
(***************************************************************************)
(* Theorems about Buffers.tla, for buffers of every size and lines of      *)
(* every length.                                                           *)
(***************************************************************************)
EXTENDS Buffers, TLAPS

(* The inductive forms.                                                    *)

(* The cursor is where the bytes of the line read so far, modulo Size, say *)
(* it is, and the places before it hold the last of them.                  *)
LineInv ==
  /\ cursor \in 0..(Size - 1) /\ pos \in Int /\ start \in Int
  /\ \E k \in Int : pos - start = k * Size + cursor
  /\ DOMAIN readbuf = 0..(Size - 1)
  /\ \A i \in 0..(cursor - 1) : readbuf[i] = pos - cursor + i
  /\ read_size \in Int
  /\ LinePublished

(* How much of protocol_buf is used at each stage, and that a command from *)
(* stdin is no longer than its buffer.                                     *)
AnswerInv ==
  /\ args \in Seq(Nat) /\ copied \in Nat
  /\ cap \in Nat /\ cmdstr_size \in Nat
  /\ hdr_sz \in Nat /\ bufmax = Size - hdr_sz
  /\ stage = "count" => cmdstr_size = 0 /\ (args = <<>> => cap = 0)
  /\ stage = "copy" => args # <<>>
  /\ stage \in {"stdin", "json"} => (args = <<>> => cmdstr_size <= Size)
  /\ stage \in {"count", "copy", "stdin", "json"} =>
       hdr_sz = 0 /\ high = 0 /\ bytesout = 0
  /\ stage = "recv" =>
       /\ high = hdr_sz + 1 /\ bytesout = 0
       /\ args = <<>> => hdr_sz <= Size - 2
  /\ AnswerInBounds

-----------------------------------------------------------------------------
(* There is a place for the terminator and more. *)
LEMMA SizeBounds == Size \in Nat /\ Size >= 3 /\ HdrIn \in Nat /\ HdrOut \in Nat \ {0}
  BY BuffersAssumption

(* What is left over when full buffers are taken off a line. *)
LEMMA ModUnique ==
  ASSUME NEW s \in Nat \ {0}, NEW q \in Int, NEW r \in 0..(s - 1)
  PROVE  (q * s + r) % s = r
<1> DEFINE n == q * s + r
           p == n \div s
<1>1. /\ n \in Int /\ p \in Int /\ (n % s) \in 0..(s - 1)
      /\ n = p * s + (n % s)
  OBVIOUS
<1>2. (p - q) * s = r - (n % s)
  BY <1>1
<1>3. -s < (p - q) * s /\ (p - q) * s < s
  BY <1>1, <1>2
<1>4. p = q
  <2>1. ASSUME p - q >= 1 PROVE FALSE
    <3>1. (p - q) * s >= s
      BY <1>1, <2>1
    <3> QED
      BY <1>1, <1>3, <3>1
  <2>2. ASSUME p - q <= -1 PROVE FALSE
    <3>1. (p - q) * s <= -s
      BY <1>1, <2>2
    <3> QED
      BY <1>1, <1>3, <3>1
  <2> QED
    BY <1>1, <2>1, <2>2
<1> QED
  BY <1>1, <1>2, <1>4

(* The cursor never leaves readbuf, which holds the end of the line. *)
THEOREM LineAccounted == Spec => []LineInv
<1> USE SizeBounds
<1>1. Init => LineInv
  <2> SUFFICES ASSUME Init PROVE LineInv
    OBVIOUS
  <2>1. 0 \in Int /\ pos - start = 0 * Size + cursor
    BY DEF Init
  <2>2. \E k \in Int : pos - start = k * Size + cursor
    BY <2>1
  <2> QED
    BY <2>2 DEF Init, LineInv, LinePublished
<1>2. LineInv /\ [Next]_vars => LineInv'
  <2> SUFFICES ASSUME LineInv, [Next]_vars PROVE LineInv'
    OBVIOUS
  <2>1. PICK k \in Int : pos - start = k * Size + cursor
    BY DEF LineInv
  <2>2. CASE RecvChar
    <3>1. /\ readbuf' = [readbuf EXCEPT ![cursor] = pos]
          /\ cursor' = IF cursor + 1 >= Size THEN 0 ELSE cursor + 1
          /\ pos' = pos + 1
          /\ UNCHANGED <<linebuf, read_size, start, published>>
      BY <2>2 DEF RecvChar, Wrapped
    <3>2. cursor' \in 0..(Size - 1) /\ pos' \in Int /\ start' \in Int
      BY <3>1 DEF LineInv
    <3>3. \E j \in Int : pos' - start' = j * Size + cursor'
      <4>1. (k + 1) * Size = k * Size + Size /\ k * Size \in Int
        OBVIOUS
      <4>2. CASE cursor + 1 >= Size
        <5>1. pos' - start' = (k + 1) * Size + cursor'
          BY <2>1, <3>1, <4>1, <4>2 DEF LineInv
        <5>2. k + 1 \in Int
          OBVIOUS
        <5> QED
          BY <5>1, <5>2, Zenon
      <4>3. CASE ~(cursor + 1 >= Size)
        <5>1. pos' - start' = k * Size + cursor'
          BY <2>1, <3>1, <4>1, <4>3 DEF LineInv
        <5> QED
          BY <5>1
      <4> QED
        BY <4>2, <4>3
    <3>4. \A i \in 0..(cursor' - 1) : readbuf'[i] = pos' - cursor' + i
      BY <3>1 DEF LineInv
    <3>5. DOMAIN readbuf' = 0..(Size - 1) /\ read_size' \in Int
      BY <3>1 DEF LineInv
    <3>6. LinePublished'
      BY <3>1 DEF LineInv, LinePublished
    <3> QED
      BY <3>2, <3>3, <3>4, <3>5, <3>6 DEF LineInv
  <2>3. CASE RecvEnd
    <3>1. /\ readbuf' = [readbuf EXCEPT ![cursor] = 0]
          /\ read_size' = cursor + 1
          /\ linebuf' = [i \in 0..(Size - 1) |->
                           IF i <= cursor THEN readbuf'[i] ELSE linebuf[i]]
          /\ published' = [first |-> start, len |-> pos - start]
          /\ cursor' = 0 /\ pos' = pos + 1 /\ start' = pos + 1
      BY <2>3 DEF RecvEnd
    <3>2. /\ cursor \in 0..(Size - 1) /\ pos \in Int /\ start \in Int
          /\ DOMAIN readbuf = 0..(Size - 1)
          /\ \A i \in 0..(cursor - 1) : readbuf[i] = pos - cursor + i
      BY DEF LineInv
    <3>3. (pos - start) % Size = cursor
      BY <2>1, <3>2, ModUnique
    <3>4. linebuf'[cursor] = 0
      BY <3>1, <3>2
    <3>5. \A i \in 0..(cursor - 1) : linebuf'[i] = pos - cursor + i
      BY <3>1, <3>2
    <3>6. LinePublished'
      BY <3>1, <3>2, <3>3, <3>4, <3>5 DEF LinePublished
    <3>7. \E j \in Int : pos' - start' = j * Size + cursor'
      <4>1. 0 \in Int /\ pos' - start' = 0 * Size + cursor'
        BY <3>1, <3>2
      <4> QED
        BY <4>1
    <3> QED
      BY <3>1, <3>2, <3>6, <3>7 DEF LineInv
  <2>4. CASE UNCHANGED sockVars
    BY <2>4 DEF sockVars, LineInv, LinePublished
  <2>5. RecvChar \/ RecvEnd \/ UNCHANGED sockVars
    BY DEF Next, CountArg, Allocate, CopyArg, CopyDone, ReadByte, ReadStop,
           Plain, Json, RecvLost, Answer, NoRoom, Done, vars
  <2> QED
    BY <2>2, <2>3, <2>4, <2>5
<1> QED
  BY <1>1, <1>2, PTL DEF Spec

(* Whatever the length of the lines before it and its own, a line is       *)
(* published with its terminator and without a byte of another one.        *)
THEOREM LinesPublishedWell == Spec => []LinePublished
<1>1. LineInv => LinePublished
  BY DEF LineInv
<1> QED
  BY <1>1, LineAccounted, PTL

(* What each stage has written of protocol_buf is accounted for. *)
THEOREM AnswerAccounted == Spec => []AnswerInv
<1> USE SizeBounds, BuffersAssumption
<1>1. Init => AnswerInv
  BY DEF Init, AnswerInv, AnswerInBounds
<1>2. AnswerInv /\ [Next]_vars => AnswerInv'
  <2> SUFFICES ASSUME AnswerInv, [Next]_vars PROVE AnswerInv'
    OBVIOUS
  <2> USE DEF AnswerInv, AnswerInBounds
  <2>1. CASE CountArg
    <3>1. PICK n \in 0..MaxArg : args' = Append(args, n) /\ cap' = cap + n + 1
      BY <2>1 DEF CountArg, Room
    <3>2. args' # <<>> /\ args' \in Seq(Nat)
      BY <3>1
    <3> QED
      BY <2>1, <3>1, <3>2 DEF CountArg, outVars
  <2>2. CASE Allocate
    BY <2>2 DEF Allocate, outVars
  <2>3. CASE CopyArg \/ CopyDone
    <3>1. ASSUME CopyArg PROVE cmdstr_size' \in Nat /\ copied' \in Nat
      <4>1. args[copied + 1] \in Nat
        BY <3>1 DEF CopyArg
      <4> QED
        BY <3>1, <4>1 DEF CopyArg
    <3>2. /\ stage = "copy" /\ stage' \in {"copy", "json"}
          /\ UNCHANGED <<args, cap, hdr_sz, bufmax, bytesout, high>>
          /\ cmdstr_size' \in Nat /\ copied' \in Nat
      BY <2>3, <3>1 DEF CopyArg, CopyDone, cmdVars, outVars
    <3> QED
      BY <3>2
  <2>4. CASE ReadByte \/ ReadStop
    BY <2>4 DEF ReadByte, ReadStop, cmdVars, outVars
  <2>5. CASE Plain
    <3>1. /\ stage = "json" /\ stage' = "recv" /\ high' = 1
          /\ UNCHANGED <<cap, cmdstr_size, args, copied, hdr_sz, bufmax, bytesout>>
      BY <2>5 DEF Plain, cmdVars
    <3>2. hdr_sz = 0 /\ bytesout = 0 /\ high' = hdr_sz + 1 /\ 0 <= Size - 2
      BY <3>1
    <3> QED
      BY <3>1, <3>2
  <2>9. CASE Json
    <3>1. PICK n \in 0..(cmdstr_size - HdrIn) :
            hdr_sz' = n + HdrOut /\ bufmax' = Size - hdr_sz' /\ high' = hdr_sz' + 1
      BY <2>9 DEF Json, Header
    <3>2. /\ stage = "json" /\ stage' = "recv"
          /\ UNCHANGED <<cap, cmdstr_size, args, copied, bytesout>>
      BY <2>9 DEF Json, cmdVars
    <3>3. /\ hdr_sz' \in Nat
          /\ args = <<>> => hdr_sz' <= Size - 2
      BY <3>1, <3>2
    <3>4. AnswerInBounds'
      BY <3>1, <3>2, <3>3
    <3> QED
      BY <3>1, <3>2, <3>3, <3>4
  <2>6. CASE RecvChar \/ RecvEnd \/ RecvLost
    BY <2>6 DEF RecvChar, RecvEnd, RecvLost, cmdVars, outVars
  <2>7. CASE Answer
    BY <2>7 DEF Answer, FrameLen, cmdVars
  <2>10. CASE NoRoom
    BY <2>10 DEF NoRoom, cmdVars, outVars
  <2>8. CASE Done \/ UNCHANGED vars
    BY <2>8 DEF Done, vars, cmdVars, outVars
  <2> QED
    BY <2>1, <2>2, <2>3, <2>4, <2>5, <2>6, <2>7, <2>8, <2>9, <2>10 DEF Next
<1> QED
  BY <1>1, <1>2, PTL DEF Spec

(* The answer stays within protocol_buf, and its copy has a length, for    *)
(* every command from stdin and every other one whose header fits.         *)
THEOREM AnswersInBounds == Spec => []AnswerInBounds
<1>1. AnswerInv => AnswerInBounds
  BY DEF AnswerInv
<1> QED
  BY <1>1, AnswerAccounted, PTL

-----------------------------------------------------------------------------
(* The command string.                                                     *)

(* sum[i] is what the first i words take up in the command string. *)
Sums(sum, words) ==
  /\ sum[0] = 0
  /\ \A i \in 1..Len(words) : sum[i] = sum[i - 1] + words[i] + 1
  /\ \A i \in 0..Len(words) : sum[i] <= sum[Len(words)]

(* The first pass over the arguments has counted them all, the second has  *)
(* copied some of them; a line of stdin has a buffer of its own size.      *)
CommandInv ==
  /\ args \in Seq(0..MaxArg) /\ Len(args) <= MaxArgs /\ copied \in 0..Len(args)
  /\ mem \in [0..Top -> Bytes] /\ given \in Seq(Bytes)
  /\ cap \in 0..(Top - 1) /\ cmdstr_size \in 0..(Top - 1)
  /\ stage \in {"count", "copy"} =>
       \E sum \in [0..Len(args) -> 0..Top] :
         Sums(sum, args) /\ cap = sum[Len(args)] /\ cmdstr_size = sum[copied]
  /\ stage = "count" => copied = 0 /\ cap <= Len(args) * (MaxArg + 1)
  /\ stage = "stdin" => cap = Size
  /\ CommandKept

LEMMA TopBounds ==
  /\ MaxArgs \in Nat /\ MaxArg \in Nat /\ MaxArgs * (MaxArg + 1) \in Nat
  /\ Top \in Nat /\ Top = Size + MaxArgs * (MaxArg + 1) + 1
<1>1. MaxArgs \in Nat /\ MaxArg + 1 \in Nat /\ Size \in Nat
  BY BuffersAssumption
<1>2. MaxArgs * (MaxArg + 1) \in Nat
  BY <1>1
<1> QED
  BY <1>1, <1>2, BuffersAssumption DEF Top

(* The first pass: one more argument is one more sum. *)
LEMMA CountKeepsCommand == CommandInv /\ CountArg => CommandInv'
<1> SUFFICES ASSUME CommandInv, CountArg PROVE CommandInv'
  OBVIOUS
<1> USE SizeBounds, TopBounds
<1> DEFINE L == Len(args)
<1>1. PICK n \in 0..MaxArg : args' = Append(args, n) /\ cap' = cap + n + 1
  BY DEF CountArg, Room, CommandInv
<1>2. /\ stage = "count" /\ stage' = "count" /\ L < MaxArgs
      /\ UNCHANGED <<copied, mem, cmdstr_size, given>>
  BY DEF CountArg
<1>3. PICK sum \in [0..L -> 0..Top] :
        Sums(sum, args) /\ cap = sum[L] /\ cmdstr_size = sum[copied]
  BY <1>2 DEF CommandInv
<1>4. /\ L \in Nat /\ copied = 0 /\ cap \in Nat /\ cap <= L * (MaxArg + 1)
      /\ args \in Seq(0..MaxArg)
  BY <1>2 DEF CommandInv
<1>5. /\ args' \in Seq(0..MaxArg) /\ Len(args') = L + 1
      /\ \A i \in 1..L : args'[i] = args[i]
      /\ args'[L + 1] = n
  BY <1>1, <1>4
<1> HIDE DEF L
<1>6. cap' <= (L + 1) * (MaxArg + 1) /\ (L + 1) * (MaxArg + 1) <= MaxArgs * (MaxArg + 1)
  <2>1. L * (MaxArg + 1) \in Nat /\ (L + 1) * (MaxArg + 1) = L * (MaxArg + 1) + MaxArg + 1
    BY <1>4
  <2>2. (L + 1) * (MaxArg + 1) <= MaxArgs * (MaxArg + 1)
    BY <1>2, <1>4
  <2> QED
    BY <1>1, <1>4, <2>1, <2>2
<1>7. cap' \in 0..(Top - 1)
  <2>1. (L + 1) * (MaxArg + 1) \in Nat /\ cap' \in Nat
    BY <1>1, <1>4
  <2> QED
    BY <1>6, <2>1
<1> DEFINE next == [i \in 0..(L + 1) |-> IF i = L + 1 THEN cap' ELSE sum[i]]
<1>8. next \in [0..(L + 1) -> 0..Top]
  BY <1>3, <1>4, <1>7
<1>9. /\ next[L + 1] = cap' /\ \A i \in 0..L : next[i] = sum[i]
  BY <1>4
<1> HIDE DEF next
<1>10. /\ sum[0] = 0 /\ \A i \in 1..L : sum[i] = sum[i - 1] + args[i] + 1
       /\ \A i \in 0..L : sum[i] <= cap /\ sum[i] \in Nat
  BY <1>3 DEF Sums, L
<1>11. /\ next[0] = 0
       /\ \A i \in 1..(L + 1) : next[i] = next[i - 1] + args'[i] + 1
       /\ \A i \in 0..(L + 1) : next[i] <= next[L + 1]
  <2>1. next[0] = 0
    BY <1>4, <1>9, <1>10
  <2>2. ASSUME NEW i \in 1..(L + 1) PROVE next[i] = next[i - 1] + args'[i] + 1
    <3>1. CASE i = L + 1
      BY <1>1, <1>3, <1>4, <1>5, <1>9, <3>1
    <3>2. CASE i # L + 1
      <4>1. i \in 1..L /\ i \in 0..L /\ i - 1 \in 0..L
        BY <1>4, <3>2
      <4> QED
        BY <1>5, <1>9, <1>10, <4>1
    <3> QED
      BY <3>1, <3>2
  <2>3. ASSUME NEW i \in 0..(L + 1) PROVE next[i] <= next[L + 1]
    <3>1. CASE i = L + 1
      BY <1>1, <1>4, <1>9, <3>1
    <3>2. CASE i # L + 1
      <4>1. i \in 0..L
        BY <1>4, <3>2
      <4> QED
        BY <1>1, <1>4, <1>9, <1>10, <4>1
    <3> QED
      BY <3>1, <3>2
  <2> QED
    BY <2>1, <2>2, <2>3
<1>12. Sums(next, args')
  BY <1>5, <1>11 DEF Sums
<1>13. \E s \in [0..Len(args') -> 0..Top] :
         Sums(s, args') /\ cap' = s[Len(args')] /\ cmdstr_size' = s[copied']
  <2>1. next \in [0..Len(args') -> 0..Top]
    BY <1>5, <1>8
  <2>2. cap' = next[Len(args')]
    BY <1>5, <1>9
  <2>3. cmdstr_size' = next[copied']
    BY <1>2, <1>3, <1>4, <1>9
  <2> QED
    BY <1>12, <2>1, <2>2, <2>3
<1>14. CommandKept'
  BY <1>2 DEF CommandInv, CommandKept
<1>15. /\ Len(args') <= MaxArgs /\ copied' \in 0..Len(args')
       /\ cap' <= Len(args') * (MaxArg + 1)
  BY <1>2, <1>4, <1>5, <1>6
<1>16. /\ mem' \in [0..Top -> Bytes] /\ given' \in Seq(Bytes)
       /\ cmdstr_size' \in 0..(Top - 1)
  BY <1>2 DEF CommandInv
<1> QED
  BY <1>2, <1>4, <1>5, <1>7, <1>13, <1>14, <1>15, <1>16 DEF CommandInv

LEMMA Joined ==
  ASSUME NEW S, NEW s \in Seq(S), NEW t \in Seq(S)
  PROVE  /\ s \o t \in Seq(S) /\ Len(s \o t) = Len(s) + Len(t)
         /\ \A i \in 1..Len(s) : (s \o t)[i] = s[i]
         /\ \A i \in 1..Len(t) : (s \o t)[Len(s) + i] = t[i]
<1>1. s \o t \in Seq(S) /\ Len(s \o t) = Len(s) + Len(t)
  OBVIOUS
<1>2. \A i \in 1..Len(s) : (s \o t)[i] = s[i]
  OBVIOUS
<1>3. \A i \in 1..Len(t) : (s \o t)[Len(s) + i] = t[i]
  OBVIOUS
<1> QED
  BY <1>1, <1>2, <1>3

(* The second pass: an argument fits where the first pass counted it, and  *)
(* is written behind what is there.                                        *)
LEMMA CopyKeepsCommand == CommandInv /\ CopyArg => CommandInv'
<1> SUFFICES ASSUME CommandInv, CopyArg PROVE CommandInv'
  OBVIOUS
<1> USE SizeBounds, TopBounds
<1> DEFINE n == args[copied + 1]
           word == [i \in 1..(n + 1) |-> IF i <= n THEN "char" ELSE "sp"]
<1>1. /\ stage = "copy" /\ stage' = "copy" /\ copied < Len(args)
      /\ copied' = copied + 1 /\ UNCHANGED <<args, cap>>
      /\ cmdstr_size' = cmdstr_size + n + 1
      /\ given' = given \o word
      /\ mem' = [i \in 0..Top |->
                  IF i - cmdstr_size \in 0..n THEN word[i - cmdstr_size + 1]
                                              ELSE mem[i]]
  BY DEF CopyArg
<1>2. /\ args \in Seq(0..MaxArg) /\ copied \in 0..Len(args)
      /\ Len(args) \in Nat /\ Len(args) <= MaxArgs
      /\ mem \in [0..Top -> Bytes] /\ given \in Seq(Bytes)
      /\ cap \in 0..(Top - 1) /\ cmdstr_size \in Nat
      /\ cmdstr_size = Len(given)
      /\ \A i \in 1..Len(given) : mem[i - 1] = given[i]
  BY DEF CommandInv, CommandKept
<1>3. n \in Nat
  BY <1>1, <1>2
<1>4. word \in Seq(Bytes) /\ Len(word) = n + 1 /\ DOMAIN word = 1..(n + 1)
  BY <1>3 DEF Bytes
<1>5. PICK sum \in [0..Len(args) -> 0..Top] :
        Sums(sum, args) /\ cap = sum[Len(args)] /\ cmdstr_size = sum[copied]
  BY <1>1 DEF CommandInv
<1>6. /\ copied + 1 \in 1..Len(args) /\ copied + 1 \in 0..Len(args)
      /\ (copied + 1) - 1 = copied
  BY <1>1, <1>2
<1>7. sum[copied + 1] = cmdstr_size + n + 1 /\ sum[copied + 1] <= cap
  BY <1>5, <1>6 DEF Sums
<1> HIDE DEF n, word
<1>8. cmdstr_size' <= cap /\ cmdstr_size' \in 0..(Top - 1)
  BY <1>1, <1>2, <1>3, <1>7
<1>9. /\ given' \in Seq(Bytes) /\ Len(given') = cmdstr_size + n + 1
      /\ \A i \in 1..Len(given) : given'[i] = given[i]
      /\ \A i \in 1..(n + 1) : given'[cmdstr_size + i] = word[i]
  <2>1. /\ given \o word \in Seq(Bytes)
        /\ Len(given \o word) = Len(given) + Len(word)
        /\ \A i \in 1..Len(given) : (given \o word)[i] = given[i]
        /\ \A i \in 1..Len(word) : (given \o word)[Len(given) + i] = word[i]
    <3>1. given \in Seq(Bytes) /\ word \in Seq(Bytes)
      BY <1>2, <1>4
    <3> QED
      BY <3>1, Joined
  <2>2. given' = given \o word /\ Len(given) = cmdstr_size /\ Len(word) = n + 1
    BY <1>1, <1>2, <1>4
  <2>3. Len(given') = cmdstr_size + n + 1
    BY <1>2, <1>3, <2>1, <2>2
  <2> QED
    BY <2>1, <2>2, <2>3
<1>10. mem' \in [0..Top -> Bytes]
  <2>1. ASSUME NEW i \in 0..Top, i - cmdstr_size \in 0..n
        PROVE  word[i - cmdstr_size + 1] \in Bytes
    <3>1. i - cmdstr_size + 1 \in 1..(n + 1)
      BY <1>2, <1>3, <2>1
    <3> QED
      BY <1>4, <3>1
  <2> QED
    BY <1>1, <1>2, <2>1
<1>11. ASSUME NEW i \in 1..(cmdstr_size + n + 1) PROVE mem'[i - 1] = given'[i]
  <2>1. i - 1 \in 0..Top
    BY <1>1, <1>2, <1>3, <1>8
  <2>2. CASE i <= cmdstr_size
    <3>1. i \in 1..Len(given) /\ ~(i - 1 - cmdstr_size \in 0..n)
      BY <1>2, <1>3, <2>2
    <3> QED
      BY <1>1, <1>2, <1>9, <2>1, <3>1
  <2>3. CASE ~(i <= cmdstr_size)
    <3>1. /\ i - 1 - cmdstr_size \in 0..n
          /\ i - 1 - cmdstr_size + 1 \in 1..(n + 1)
          /\ cmdstr_size + (i - 1 - cmdstr_size + 1) = i
      BY <1>2, <1>3, <2>3
    <3>2. mem'[i - 1] = word[i - 1 - cmdstr_size + 1]
      BY <1>1, <2>1, <3>1
    <3> QED
      BY <1>9, <3>1, <3>2
  <2> QED
    BY <2>2, <2>3
<1>12. CommandKept'
  BY <1>1, <1>8, <1>9, <1>11 DEF CommandKept
<1>13. \E s \in [0..Len(args') -> 0..Top] :
         Sums(s, args') /\ cap' = s[Len(args')] /\ cmdstr_size' = s[copied']
  BY <1>1, <1>5, <1>7
<1>14. copied' \in 0..Len(args')
  BY <1>1, <1>6
<1> QED
  BY <1>1, <1>2, <1>8, <1>9, <1>10, <1>12, <1>13, <1>14 DEF CommandInv

(* sub_readline(): a byte has a place as long as the buffer is not full. *)
LEMMA ReadKeepsCommand == CommandInv /\ ReadByte => CommandInv'
<1> SUFFICES ASSUME CommandInv, ReadByte PROVE CommandInv'
  OBVIOUS
<1> USE SizeBounds, TopBounds
<1>1. PICK b \in {"char", "nl", "nul"} :
        /\ mem' = [mem EXCEPT ![cmdstr_size] = b]
        /\ given' = Append(given, b)
  BY DEF ReadByte
<1>2. /\ stage = "stdin" /\ stage' \in {"stdin", "json"} /\ cmdstr_size < Size
      /\ cmdstr_size' = cmdstr_size + 1 /\ UNCHANGED <<args, copied, cap>>
  BY DEF ReadByte
<1>3. /\ mem \in [0..Top -> Bytes] /\ given \in Seq(Bytes) /\ b \in Bytes
      /\ cmdstr_size \in Nat /\ cmdstr_size = Len(given) /\ cap = Size
      /\ \A i \in 1..Len(given) : mem[i - 1] = given[i]
  BY <1>2 DEF CommandInv, CommandKept, Bytes
<1>4. /\ given' \in Seq(Bytes) /\ Len(given') = cmdstr_size + 1
      /\ \A i \in 1..Len(given) : given'[i] = given[i]
      /\ given'[cmdstr_size + 1] = b
  BY <1>1, <1>3
<1>5. cmdstr_size \in 0..Top /\ cmdstr_size' \in 0..(Top - 1) /\ cmdstr_size' <= cap'
  <2>1. /\ Size \in Nat /\ Top \in Nat /\ Size <= Top - 1
        /\ cmdstr_size \in Nat /\ cmdstr_size + 1 <= Size
    BY <1>2, <1>3
  <2>2. cap' = Size /\ cmdstr_size' = cmdstr_size + 1
    BY <1>2, <1>3
  <2>3. cmdstr_size \in 0..Top /\ cmdstr_size + 1 \in 0..(Top - 1)
    BY ONLY <2>1
  <2> QED
    BY ONLY <2>1, <2>2, <2>3
<1>6. mem' \in [0..Top -> Bytes]
  BY <1>1, <1>3
<1>7. ASSUME NEW i \in 1..(cmdstr_size + 1) PROVE mem'[i - 1] = given'[i]
  <2>1. CASE i = cmdstr_size + 1
    <3>1. i - 1 = cmdstr_size
      BY <1>3, <2>1
    <3> QED
      BY <1>1, <1>3, <1>4, <1>5, <2>1, <3>1
  <2>2. CASE i # cmdstr_size + 1
    <3>1. i \in 1..Len(given) /\ i - 1 \in 0..Top /\ i - 1 # cmdstr_size
      BY <1>3, <1>5, <2>2
    <3> QED
      BY <1>1, <1>3, <1>4, <3>1
  <2> QED
    BY <2>1, <2>2
<1>8. CommandKept'
  BY <1>2, <1>4, <1>5, <1>7 DEF CommandKept
<1> QED
  BY <1>2, <1>3, <1>4, <1>5, <1>6, <1>8 DEF CommandInv

(* The two passes over the arguments agree, and a line of stdin stays in   *)
(* its buffer.                                                             *)
THEOREM CommandAccounted == Spec => []CommandInv
<1> USE SizeBounds, TopBounds
<1>1. Init => CommandInv
  <2> SUFFICES ASSUME Init PROVE CommandInv
    OBVIOUS
  <2>1. args = <<>> /\ Len(args) = 0 /\ given = <<>> /\ Len(given) = 0
    BY DEF Init
  <2>2. mem \in [0..Top -> Bytes]
    BY DEF Init, Bytes
  <2>3. /\ stage = "count" /\ copied = 0 /\ cap = 0 /\ cmdstr_size = 0
    BY DEF Init
  <2>4. \E sum \in [0..Len(args) -> 0..Top] :
          Sums(sum, args) /\ cap = sum[Len(args)] /\ cmdstr_size = sum[copied]
    <3> DEFINE sum == [i \in 0..0 |-> 0]
    <3>1. sum \in [0..Len(args) -> 0..Top] /\ sum[0] = 0
      BY <2>1
    <3>2. Sums(sum, args)
      BY <2>1 DEF Sums
    <3> QED
      BY <2>1, <2>3, <3>1, <3>2
  <2>5. CommandKept
    BY <2>1, <2>3 DEF CommandKept
  <2>6. args \in Seq(0..MaxArg) /\ given \in Seq(Bytes)
    BY <2>1
  <2>7. /\ Len(args) <= MaxArgs /\ copied \in 0..Len(args)
        /\ cap <= Len(args) * (MaxArg + 1)
        /\ cap \in 0..(Top - 1) /\ cmdstr_size \in 0..(Top - 1)
    BY <2>1, <2>3
  <2> QED
    BY <2>2, <2>3, <2>4, <2>5, <2>6, <2>7 DEF CommandInv
<1>2. CommandInv /\ [Next]_vars => CommandInv'
  <2> SUFFICES ASSUME CommandInv, [Next]_vars PROVE CommandInv'
    OBVIOUS
  <2>1. CASE Allocate
    <3>1. CASE stage' = "copy"
      <4>1. stage = "count" /\ UNCHANGED cmdVars
        BY <2>1, <3>1 DEF Allocate, cmdVars
      <4>2. cmdstr_size <= cap
        <5>1. PICK sum \in [0..Len(args) -> 0..Top] :
                Sums(sum, args) /\ cap = sum[Len(args)] /\ cmdstr_size = sum[copied]
          BY <4>1 DEF CommandInv
        <5> QED
          BY <5>1 DEF Sums, CommandInv
      <4>3. CommandKept'
        BY <3>1, <4>1, <4>2 DEF CommandInv, CommandKept, cmdVars
      <4> QED
        BY <3>1, <4>1, <4>3 DEF CommandInv, cmdVars
    <3>2. CASE stage' # "copy"
      <4>1. /\ stage = "count" /\ stage' = "stdin" /\ cap = 0 /\ cap' = Size
            /\ UNCHANGED <<args, copied, mem, cmdstr_size, given>>
        BY <2>1, <3>2 DEF Allocate
      <4>2. cmdstr_size = 0
        <5>1. PICK sum \in [0..Len(args) -> 0..Top] :
                Sums(sum, args) /\ cap = sum[Len(args)] /\ cmdstr_size = sum[copied]
          BY <4>1 DEF CommandInv
        <5>2. copied = 0 /\ sum[0] = 0
          BY <4>1, <5>1 DEF CommandInv, Sums
        <5> QED
          BY <5>1, <5>2
      <4>3. CommandKept'
        BY <4>1, <4>2 DEF CommandInv, CommandKept
      <4>4. cap' \in 0..(Top - 1)
        BY <4>1
      <4> QED
        BY <4>1, <4>3, <4>4 DEF CommandInv
    <3> QED
      BY <3>1, <3>2
  <2>2. CASE /\ UNCHANGED cmdVars
             /\ stage' = stage \/ stage' \in {"json", "recv", "done", "crashed"}
             /\ stage = "count" => stage' = "count"
    <3>1. CommandKept'
      BY <2>2 DEF CommandInv, CommandKept, cmdVars
    <3> QED
      BY <2>2, <3>1 DEF CommandInv, cmdVars
  <2>3. CASE CopyDone \/ ReadStop \/ Plain \/ Json \/ RecvChar \/ RecvEnd
               \/ RecvLost \/ Answer \/ NoRoom \/ Done \/ UNCHANGED vars
    BY <2>2, <2>3 DEF CopyDone, ReadStop, Plain, Json, RecvChar, RecvEnd,
                      RecvLost, Answer, NoRoom, Done, vars
  <2> QED
    BY <2>1, <2>3, CountKeepsCommand, CopyKeepsCommand, ReadKeepsCommand
       DEF Next
<1> QED
  BY <1>1, <1>2, PTL DEF Spec

(* The command string holds every byte that the user gave, in order, and   *)
(* is never longer than what main() allocated for it.                      *)
THEOREM CommandsKept == Spec => []CommandKept
<1>1. CommandInv => CommandKept
  BY DEF CommandInv
<1> QED
  BY <1>1, CommandAccounted, PTL

(* Offsets stay in their buffers and lengths are numbers. *)
LEMMA TypeOKStep ==
  TypeOK /\ LineInv /\ AnswerInv /\ CommandInv' /\ [Next]_vars => TypeOK'
<1> SUFFICES ASSUME TypeOK, LineInv, AnswerInv, CommandInv', [Next]_vars
             PROVE  TypeOK'
  OBVIOUS
<1> USE SizeBounds, TopBounds
<1>1. /\ args' \in Seq(0..MaxArg) /\ copied' \in 0..Len(args')
      /\ mem' \in [0..Top -> Bytes] /\ given' \in Seq(Bytes)
      /\ cap' \in 0..Top /\ cmdstr_size' \in 0..Top
  <2>1. /\ args' \in Seq(0..MaxArg) /\ copied' \in 0..Len(args')
        /\ mem' \in [0..Top -> Bytes] /\ given' \in Seq(Bytes)
        /\ cap' \in 0..(Top - 1) /\ cmdstr_size' \in 0..(Top - 1)
    BY DEF CommandInv
  <2> QED
    BY <2>1
<1>2. stage' \in {"count", "copy", "stdin", "json", "recv", "done", "crashed"}
  BY DEF TypeOK, Next, CountArg, Allocate, CopyArg, CopyDone, ReadByte,
         ReadStop, Plain, Json, RecvChar, RecvEnd, RecvLost, Answer, NoRoom,
         Done, vars
<1>3. /\ readbuf' \in [0..(Size - 1) -> Int] /\ linebuf' \in [0..(Size - 1) -> Int]
      /\ cursor' \in 0..(Size - 1) /\ read_size' \in 0..Size
      /\ pos' \in Nat /\ start' \in Nat
      /\ published' \in [first : Nat, len : Int]
  <2>1. CASE RecvChar
    BY <2>1 DEF RecvChar, Wrapped, TypeOK
  <2>2. CASE RecvEnd
    <3>1. readbuf' \in [0..(Size - 1) -> Int]
      BY <2>2 DEF RecvEnd, TypeOK
    <3>2. linebuf' \in [0..(Size - 1) -> Int]
      BY <2>2, <3>1 DEF RecvEnd, TypeOK
    <3>3. published' \in [first : Nat, len : Int]
      BY <2>2 DEF RecvEnd, TypeOK
    <3>4. cursor' = 0 /\ read_size' \in 0..Size /\ pos' \in Nat /\ start' \in Nat
      BY <2>2 DEF RecvEnd, TypeOK
    <3> QED
      BY <3>1, <3>2, <3>3, <3>4
  <2>3. CASE UNCHANGED sockVars
    BY <2>3 DEF sockVars, TypeOK
  <2>4. RecvChar \/ RecvEnd \/ UNCHANGED sockVars
    BY DEF Next, CountArg, Allocate, CopyArg, CopyDone, ReadByte, ReadStop,
           Plain, Json, RecvLost, Answer, NoRoom, Done, vars
  <2> QED
    BY <2>1, <2>2, <2>3, <2>4
<1>4. hdr_sz' \in Nat /\ bufmax' \in Int /\ bytesout' \in Int /\ high' \in Nat
  <2>1. CASE Plain \/ Json
    <3>1. /\ \/ hdr_sz' = hdr_sz /\ bufmax' = bufmax /\ high' = 1
             \/ \E n \in 0..(cmdstr_size - HdrIn) :
                  /\ hdr_sz' = n + HdrOut /\ bufmax' = Size - (n + HdrOut)
                  /\ high' = n + HdrOut + 1
          /\ bytesout' = bytesout
      BY <2>1 DEF Plain, Json, Header
    <3>2. hdr_sz \in Nat /\ bufmax \in Int /\ bytesout \in Int
      BY DEF TypeOK
    <3>3. HdrOut \in Nat /\ Size \in Nat
      BY BuffersAssumption
    <3>4. ASSUME NEW n \in 0..(cmdstr_size - HdrIn)
          PROVE  n + HdrOut \in Nat /\ n + HdrOut + 1 \in Nat
                 /\ Size - (n + HdrOut) \in Int
      BY ONLY <3>3, <3>4
    <3> QED
      BY ONLY <3>1, <3>2, <3>4
  <2>2. CASE Answer
    <3>1. PICK n \in 0..(read_size - 1) :
            LET r == FrameLen(n, bufmax)
                rest == bufmax - r IN
            IF hdr_sz > 0 /\ r > 0
            THEN /\ bytesout' = hdr_sz + r + (IF rest < 2 THEN rest ELSE 2)
                 /\ high' = hdr_sz + r + (IF rest < 1 THEN 1 ELSE rest)
            ELSE bytesout' = r /\ high' = hdr_sz + r + 1
      BY <2>2 DEF Answer
    <3>2. /\ hdr_sz \in Nat /\ bufmax \in Int /\ bufmax > 0 /\ n \in Nat
          /\ hdr_sz' = hdr_sz /\ bufmax' = bufmax
      BY <2>2 DEF Answer, TypeOK
    <3>3. FrameLen(n, bufmax) \in 0..(bufmax - 1)
      BY <3>2 DEF FrameLen
    <3> QED
      BY <3>1, <3>2, <3>3
  <2>3. CASE UNCHANGED outVars
    BY <2>3 DEF outVars, TypeOK
  <2>4. Plain \/ Json \/ Answer \/ UNCHANGED outVars
    BY DEF Next, CountArg, Allocate, CopyArg, CopyDone, ReadByte, ReadStop,
           RecvChar, RecvEnd, RecvLost, NoRoom, Done, vars
  <2> QED
    BY <2>1, <2>2, <2>3, <2>4
<1> QED
  BY <1>1, <1>2, <1>3, <1>4 DEF TypeOK

(* Every offset and every length stays in its range, for buffers of every  *)
(* size.                                                                   *)
THEOREM BufferTypes == Spec => []TypeOK
<1> USE SizeBounds, TopBounds
<1>1. Init /\ CommandInv => TypeOK
  <2> SUFFICES ASSUME Init, CommandInv PROVE TypeOK
    OBVIOUS
  <2>1. /\ args \in Seq(0..MaxArg) /\ copied \in 0..Len(args)
        /\ mem \in [0..Top -> Bytes] /\ given \in Seq(Bytes)
        /\ cap \in 0..(Top - 1) /\ cmdstr_size \in 0..(Top - 1)
    BY DEF CommandInv
  <2>2. /\ readbuf \in [0..(Size - 1) -> Int] /\ linebuf \in [0..(Size - 1) -> Int]
        /\ cursor \in 0..(Size - 1) /\ read_size \in 0..Size
    BY DEF Init
  <2>3. published \in [first : Nat, len : Int]
    BY DEF Init
  <2>4. cap \in 0..Top /\ cmdstr_size \in 0..Top
    BY <2>1
  <2>5. /\ stage = "count" /\ pos \in Nat /\ start \in Nat
        /\ hdr_sz \in Nat /\ bufmax \in Int /\ bytesout \in Int /\ high \in Nat
    BY DEF Init
  <2> QED
    BY <2>1, <2>2, <2>3, <2>4, <2>5 DEF TypeOK
<1> QED
  BY <1>1, TypeOKStep, LineAccounted, AnswerAccounted, CommandAccounted, PTL
     DEF Spec
==============================================================================
