------------------------------- MODULE Mailbox -------------------------------
(***************************************************************************)
(* What the sockpush layer promises a synchronous reader, with threads,    *)
(* mutexes and condition variables abstracted away: a one-place mailbox    *)
(* that always holds the newest line of the socket.                        *)
(*                                                                         *)
(* Lines are numbered 1, 2, 3, ... in the order the daemon sent them.      *)
(* Sockpush.tla is shown to implement this specification.                  *)
(***************************************************************************)
EXTENDS Naturals, Sequences, TLAPS

VARIABLES
  newest,     \* number of the line in the mailbox, 0 when none arrived yet
  seen,       \* newest line the reader has taken or deliberately skipped
  delivered   \* history: the lines sp_read() has handed out, oldest first

mailVars == <<newest, seen, delivered>>

Init ==
  /\ newest = 0
  /\ seen = 0
  /\ delivered = <<>>

(* A new line replaces the old one, whether or not it was taken. *)
Publish ==
  /\ newest' = newest + 1
  /\ UNCHANGED <<seen, delivered>>

(* The reader takes the line in the mailbox, if it has not had it before. *)
Take ==
  /\ seen < newest
  /\ seen' = newest
  /\ delivered' = Append(delivered, newest)
  /\ UNCHANGED newest

(* A reader is created or purged: it gives up the line in the mailbox. *)
Skip ==
  /\ seen' = newest
  /\ UNCHANGED <<newest, delivered>>

Next == Publish \/ Take \/ Skip

Spec == Init /\ [][Next]_mailVars

-----------------------------------------------------------------------------

(* Lines are natural numbers.                                              *)
MailTypeOK ==
  /\ newest \in Nat
  /\ seen \in Nat
  /\ delivered \in Seq(Nat)

(* No line is handed out twice and none after a younger one.               *)
NoRepeat ==
  \A i, j \in 1..Len(delivered) : i < j => delivered[i] < delivered[j]

(* The strengthening of NoRepeat that every step preserves.                *)
MailInv ==
  /\ MailTypeOK
  /\ seen <= newest
  /\ \A i \in 1..Len(delivered) : delivered[i] <= seen
  /\ NoRepeat

-----------------------------------------------------------------------------

(* A mailbox never hands out a line twice, nor an old one after a younger  *)
(* one: the abstract form of what sp_read() owes its caller.               *)
THEOREM MailboxNoRepeat == Spec => []NoRepeat
<1>1. Init => MailInv
  BY DEF Init, MailInv, MailTypeOK, NoRepeat
<1>2. MailInv /\ [Next]_mailVars => MailInv'
  <2> SUFFICES ASSUME MailInv, [Next]_mailVars PROVE MailInv'
    OBVIOUS
  <2>1. CASE Publish
    BY <2>1 DEF MailInv, MailTypeOK, NoRepeat, Publish
  <2>2. CASE Take
    <3>1. /\ Len(delivered') = Len(delivered) + 1
          /\ \A i \in 1..Len(delivered) : delivered'[i] = delivered[i]
          /\ delivered'[Len(delivered) + 1] = newest
          /\ delivered' \in Seq(Nat)
      BY <2>2 DEF MailInv, MailTypeOK, Take
    <3>2. \A i \in 1..Len(delivered) : delivered[i] \in Nat
      BY DEF MailInv, MailTypeOK
    <3>3. \A i \in 1..Len(delivered') : delivered'[i] <= seen'
      BY <2>2, <3>1, <3>2 DEF MailInv, MailTypeOK, Take
    <3>4. NoRepeat'
      <4> SUFFICES ASSUME NEW i \in 1..Len(delivered'),
                          NEW j \in 1..Len(delivered'),
                          i < j
                   PROVE  delivered'[i] < delivered'[j]
        BY DEF NoRepeat
      <4>1. i \in 1..Len(delivered) /\ Len(delivered) \in Nat
        BY <3>1 DEF MailInv, MailTypeOK
      <4>2. CASE j \in 1..Len(delivered)
        BY <3>1, <4>1, <4>2 DEF MailInv, NoRepeat
      <4>3. CASE j = Len(delivered) + 1
        BY <2>2, <3>1, <3>2, <4>1, <4>3 DEF MailInv, MailTypeOK, Take
      <4> QED
        BY <3>1, <4>1, <4>2, <4>3
    <3> QED
      BY <2>2, <3>1, <3>3, <3>4 DEF MailInv, MailTypeOK, Take
  <2>3. CASE Skip
    <3>1. \A i \in 1..Len(delivered) : delivered[i] \in Nat
      BY DEF MailInv, MailTypeOK
    <3> QED
      BY <2>3, <3>1 DEF MailInv, MailTypeOK, NoRepeat, Skip
  <2>4. CASE UNCHANGED mailVars
    BY <2>4 DEF MailInv, MailTypeOK, NoRepeat, mailVars
  <2> QED
    BY <2>1, <2>2, <2>3, <2>4 DEF Next
<1>3. MailInv => NoRepeat
  BY DEF MailInv
<1> QED
  BY <1>1, <1>2, <1>3, PTL DEF Spec
=============================================================================
