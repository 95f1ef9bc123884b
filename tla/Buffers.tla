-------------------------------- MODULE Buffers -------------------------------
(***************************************************************************)
(* The fixed buffers a command and its answer pass through: the command    *)
(* string of main() (main/main.c), put together from the arguments or read *)
(* by sub_readline(); readbuf and linebuf of sp_iothread() and the copy    *)
(* sp_read() makes (main/sockpush.c); protocol_buf, in which               *)
(* sub_proc_lineinput() (main/dterm.c) puts a JSON answer together around  *)
(* the frame that sub_devmgr_socket() (main/cmd_devmgr.c) copies.          *)
(*                                                                         *)
(* Offsets count from 0.  A byte of the command string is "char", "sp",    *)
(* "nl", "nul" or, where nothing was written, "junk" or "nul".  A byte of  *)
(* the daemon is its number in the stream, so that old bytes can be told   *)
(* from new ones; 0 is the terminator, -1 what was there before.           *)
(***************************************************************************)
EXTENDS Integers, Sequences

CONSTANTS
  Size,              \* of every buffer but an inline command: 1024
  HdrIn,             \* bytes of a JSON command beside type and data: 21
  HdrOut,            \* bytes of the header of the answer beside type: 19
  MaxArgs, MaxArg,   \* bound: arguments behind "--" and their length
  MaxBytes           \* bound: bytes the daemon sends

ASSUME BuffersAssumption ==
  /\ Size \in Nat /\ HdrIn \in Nat /\ HdrOut \in Nat \ {0}
  /\ HdrOut + 2 <= HdrIn /\ HdrIn <= Size
  /\ MaxArgs \in Nat /\ MaxArg \in Nat /\ MaxBytes \in Nat

VARIABLES
  stage,             \* "count", "copy", "stdin", "json", "recv", "done",
                     \* "crashed"
  \* main(): the command string
  args,              \* lengths of the arguments
  copied,            \* how many of them have been copied
  mem, cap,          \* memory from cmdstr_val on, and how much is allocated
  cmdstr_size,
  given,             \* history: the bytes of the command as the user gave it
  \* sp_iothread()
  readbuf, cursor, linebuf, read_size,
  pos, start,        \* the next byte's number, and that of the line's first
  published,         \* history: [first, len] of the line in linebuf
  \* sub_proc_lineinput()
  hdr_sz, bufmax, bytesout,
  high               \* history: how far protocol_buf was written

cmdVars == <<args, copied, mem, cap, cmdstr_size, given>>
sockVars == <<readbuf, cursor, linebuf, read_size, pos, start, published>>
outVars == <<hdr_sz, bufmax, bytesout, high>>
vars == <<stage, cmdVars, sockVars, outVars>>

(* Memory that is looked at: what can be allocated, and a bit behind it. *)
Top == Size + MaxArgs * (MaxArg + 1) + 1

Init ==
  /\ stage = "count"
  /\ args = <<>> /\ copied = 0
  /\ \E z \in 0..Top : mem = [i \in 0..Top |-> IF i \in {z, Top} THEN "nul" ELSE "junk"]
  /\ cap = 0 /\ cmdstr_size = 0 /\ given = <<>>
  /\ readbuf = [i \in 0..(Size - 1) |-> -1] /\ cursor = 0
  /\ linebuf = [i \in 0..(Size - 1) |-> -1] /\ read_size = 0
  /\ pos = 1 /\ start = 1 /\ published = [first |-> 1, len |-> -1]
  /\ hdr_sz = 0 /\ bufmax = Size /\ bytesout = 0 /\ high = 0

-----------------------------------------------------------------------------
(* main(): the arguments behind "--".                                      *)

(* Mutation of Room: no place for the blank. *)
Room_NoBlank(n) == n

(* What an argument of length n needs. *)
Room(n) == n + 1

CountArg ==
  /\ stage = "count" /\ Len(args) < MaxArgs
  /\ \E n \in 0..MaxArg :
       /\ args' = Append(args, n)
       /\ cap' = cap + Room(n)
  /\ UNCHANGED <<stage, copied, mem, cmdstr_size, given, sockVars, outVars>>

(* malloc() of what was counted, or of Size for stdin. *)
Allocate ==
  /\ stage = "count"
  /\ \/ cap > 0 /\ stage' = "copy" /\ UNCHANGED cap
     \/ cap = 0 /\ stage' = "stdin" /\ cap' = Size
  /\ UNCHANGED <<args, copied, mem, cmdstr_size, given, sockVars, outVars>>

(* stpcpy(), whose terminator the blank replaces. *)
CopyArg ==
  /\ stage = "copy" /\ copied < Len(args)
  /\ LET n == args[copied + 1]
         word == [i \in 1..(n + 1) |-> IF i <= n THEN "char" ELSE "sp"] IN
     /\ mem' = [i \in 0..Top |->
                  IF i - cmdstr_size \in 0..n THEN word[i - cmdstr_size + 1]
                                              ELSE mem[i]]
     /\ cmdstr_size' = cmdstr_size + n + 1
     /\ given' = given \o word
  /\ copied' = copied + 1
  /\ UNCHANGED <<stage, args, cap, sockVars, outVars>>

CopyDone ==
  /\ stage = "copy" /\ copied = Len(args)
  /\ stage' = "json"
  /\ UNCHANGED <<cmdVars, sockVars, outVars>>

-----------------------------------------------------------------------------
(* sub_readline(): a byte at a time up to a line end or a full buffer.     *)

ReadByte ==
  /\ stage = "stdin" /\ cmdstr_size < Size
  /\ \E b \in {"char", "nl", "nul"} :
       /\ mem' = [mem EXCEPT ![cmdstr_size] = b]
       /\ given' = Append(given, b)
       /\ stage' = IF b \in {"nl", "nul"} THEN "json" ELSE "stdin"
  /\ cmdstr_size' = cmdstr_size + 1
  /\ UNCHANGED <<args, copied, cap, sockVars, outVars>>

(* The buffer is full, the input is at its end (nothing to do if it was    *)
(* empty), or read() fails.                                                *)
ReadStop ==
  /\ stage = "stdin"
  /\ \/ stage' = IF cmdstr_size > 0 THEN "json" ELSE "done"
     \/ cmdstr_size < Size /\ stage' = "done"
  /\ UNCHANGED <<cmdVars, sockVars, outVars>>

-----------------------------------------------------------------------------
(* sub_proc_lineinput() up to cmd_devmgr().                                *)

(* A plain command. *)
Plain ==
  /\ stage = "json"
  /\ stage' = "recv"
  /\ high' = 1
  /\ UNCHANGED <<cmdVars, sockVars, hdr_sz, bufmax, bytesout>>

(* snprintf()'s result for a type of n bytes, cut off or not. *)
Header(n) == n + HdrOut

(* A JSON command with a type of n bytes: the header, and the terminator   *)
(* behind it.                                                              *)
Json ==
  /\ stage = "json"
  /\ \E n \in 0..(cmdstr_size - HdrIn) :
       /\ hdr_sz' = Header(n)
       /\ bufmax' = Size - Header(n)
       /\ high' = Header(n) + 1
  /\ stage' = "recv"
  /\ UNCHANGED <<cmdVars, sockVars, bytesout>>

-----------------------------------------------------------------------------
(* sp_iothread(): the line buffers.                                        *)

(* Mutation of Wrapped: one place too late. *)
Wrapped_Late(n) == IF n > Size THEN 0 ELSE n

(* Mutation of Wrapped: the cursor stays on the last place. *)
Wrapped_Stuck(n) == IF n >= Size THEN Size - 1 ELSE n

(* A cursor past the end starts again. *)
Wrapped(n) == IF n >= Size THEN 0 ELSE n

RecvChar ==
  /\ stage = "recv" /\ pos <= MaxBytes
  /\ readbuf' = [readbuf EXCEPT ![cursor] = pos]
  /\ cursor' = Wrapped(cursor + 1)
  /\ pos' = pos + 1
  /\ UNCHANGED <<stage, cmdVars, linebuf, read_size, start, published, outVars>>

(* The end of a line is replaced by the terminator, and the line copied    *)
(* into linebuf.                                                           *)
RecvEnd ==
  /\ stage = "recv" /\ pos <= MaxBytes
  /\ readbuf' = [readbuf EXCEPT ![cursor] = 0]
  /\ read_size' = cursor + 1
  /\ linebuf' = [i \in 0..(Size - 1) |->
                   IF i <= cursor THEN readbuf'[i] ELSE linebuf[i]]
  /\ published' = [first |-> start, len |-> pos - start]
  /\ cursor' = 0 /\ pos' = pos + 1 /\ start' = pos + 1
  /\ UNCHANGED <<stage, cmdVars, outVars>>

(* The connection is lost. *)
RecvLost ==
  /\ stage = "recv"
  /\ stage' = "done"
  /\ UNCHANGED <<cmdVars, sockVars, outVars>>

-----------------------------------------------------------------------------
(* The answer, in protocol_buf.                                            *)

(* Mutation of FrameLen: cut off one byte too late. *)
FrameLen_OneMore(n, max) == IF n > max THEN max ELSE n

(* rc: the length of the frame, cut off. *)
FrameLen(n, max) == IF n > max - 1 THEN max - 1 ELSE n

(* sub_loadread() with dout, the frame of n bytes in it, and "}\n" behind  *)
(* it, for which stpncpy() fills the rest.  With no place left at all      *)
(* (bufmax = 0) nothing is copied, rc is -1, and the handler reads on.     *)
Answer ==
  /\ stage = "recv" /\ read_size > 0 /\ bufmax > 0
  /\ \E n \in 0..(read_size - 1) :
       LET rc == FrameLen(n, bufmax)
           rest == bufmax - rc IN
       IF hdr_sz > 0 /\ rc > 0
       THEN /\ bytesout' = hdr_sz + rc + (IF rest < 2 THEN rest ELSE 2)
            /\ high' = hdr_sz + rc + (IF rest < 1 THEN 1 ELSE rest)
       ELSE /\ bytesout' = rc
            /\ high' = hdr_sz + rc + 1
  /\ stage' = "done"
  /\ UNCHANGED <<cmdVars, sockVars, hdr_sz, bufmax>>

(* The header is longer than protocol_buf: rc + 1, the length of the copy, *)
(* is bufmax, a negative number, which memcpy() takes for a huge one.      *)
NoRoom ==
  /\ stage = "recv" /\ read_size > 0 /\ bufmax < 0
  /\ stage' = "crashed"
  /\ UNCHANGED <<cmdVars, sockVars, outVars>>

-----------------------------------------------------------------------------

Done == stage \in {"done", "crashed"} /\ UNCHANGED vars

Next == \/ CountArg \/ Allocate \/ CopyArg \/ CopyDone \/ ReadByte \/ ReadStop
        \/ Plain \/ Json \/ RecvChar \/ RecvEnd \/ RecvLost \/ Answer \/ NoRoom
        \/ Done

Spec == Init /\ [][Next]_vars

-----------------------------------------------------------------------------
(* Properties.                                                             *)

Bytes == {"char", "sp", "nl", "nul", "junk"}

(* Offsets and lengths are numbers in their ranges. *)
TypeOK ==
  /\ stage \in {"count", "copy", "stdin", "json", "recv", "done", "crashed"}
  /\ args \in Seq(0..MaxArg) /\ copied \in 0..Len(args)
  /\ mem \in [0..Top -> Bytes] /\ given \in Seq(Bytes)
  /\ cap \in 0..Top /\ cmdstr_size \in 0..Top
  /\ readbuf \in [0..(Size - 1) -> Int] /\ linebuf \in [0..(Size - 1) -> Int]
  /\ cursor \in 0..(Size - 1) /\ read_size \in 0..Size
  /\ pos \in Nat /\ start \in Nat
  /\ published \in [first : Nat, len : Int]
  /\ hdr_sz \in Nat /\ bufmax \in Int /\ bytesout \in Int /\ high \in Nat

(* The command string stays within what was allocated for it, whatever the *)
(* arguments and the input, and holds every byte of the command in order:  *)
(* the second pass over the arguments fills exactly what the first         *)
(* counted.                                                                *)
CommandKept ==
  /\ stage # "count" => cmdstr_size <= cap
  /\ cmdstr_size = Len(given)
  /\ \A i \in 1..Len(given) : mem[i - 1] = given[i]

(* A line of the daemon is published, and read, with its terminator, and   *)
(* nothing of an earlier line shows in it.  One of less than Size bytes is *)
(* whole; of a longer one there is what follows its last full buffer.      *)
LinePublished ==
  published.len >= 0 =>
    /\ read_size - 1 = published.len % Size
    /\ linebuf[read_size - 1] = 0
    /\ \A i \in 0..(read_size - 2) :
         linebuf[i] = published.first + published.len - (read_size - 1) + i

(* The answer and its header stay within protocol_buf, and the frame has a *)
(* place to go to, however long type and frame are, if the command came    *)
(* from stdin or its header fits: a command that sub_readline() took is    *)
(* shorter than the buffer by enough.  An inline command has no such       *)
(* limit: with a long enough type dterm.c:220 leaves protocol_buf, and     *)
(* NoRoom can happen.                                                      *)
AnswerInBounds ==
  (args = <<>> \/ hdr_sz < Size) =>
    high <= Size /\ bytesout <= Size /\ stage # "crashed"

-----------------------------------------------------------------------------
(* What the documentation says and the code does not do.                   *)

(* The string dterm_cmdstream() takes: up to the first terminator. *)
Taken == CHOOSE i \in 0..Top : mem[i] = "nul" /\ \A j \in 0..(i - 1) : mem[j] # "nul"

(* An inline cmd is the "Command string to cat onto daemon socket."        *)
(* (main.c:343): what is processed ends where it does.                     *)
CommandAsGiven == stage = "json" /\ args # <<>> => Taken <= Len(given)
===============================================================================
