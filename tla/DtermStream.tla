----------------------------- MODULE DtermStream -----------------------------
(***************************************************************************)
(* The command stream of dterm (main/dterm.c): dterm_cmdstream() cuts a    *)
(* string in place into lines and hands each to sub_proc_lineinput().      *)
(*                                                                         *)
(* A character is "cmd" (any other one), "sp", "nl", "cr", or one of two   *)
(* that make the line a JSON object and stand for its syntax: "json" for   *)
(* one with a string type and a string data, the rest of the line,         *)
(* "badjson" for one without.  "nul" ends the string.  Positions count from  *)
(* 1; the buffer is the string and its terminator.  What a command does to *)
(* the daemon is CmdDevmgr's subject; here it succeeds or fails.           *)
(***************************************************************************)
EXTENDS Integers, Sequences

CONSTANT MaxLen      \* bound: length of the command stream

ASSUME DtermStreamAssumption == MaxLen \in Nat

VARIABLES
  text,              \* the stream as it was given (constant)
  buf,               \* the stream as it has been changed
  streamcursor, stream_sz, linelen,
  phase,             \* "init", "loop", "line", "next", "done"
  cmdrc, rc,
  executed,          \* history: the lines that went to cmd_devmgr(), but
  empty              \* of the empty ones only that there was one

history == <<executed, empty>>
vars == <<text, buf, streamcursor, stream_sz, linelen, phase, cmdrc, rc,
          history>>

Chars == {"cmd", "sp", "nl", "cr", "json", "badjson"}

Space == {"sp", "nl", "cr"}

Strings == UNION {[1..n -> Chars] : n \in 0..MaxLen}

Init ==
  /\ text \in Strings
  /\ buf = Append(text, "nul")
  /\ streamcursor = 1 /\ stream_sz = Len(text) /\ linelen = 0
  /\ phase = "init"
  /\ cmdrc \in {-1, 0} /\ rc = 0
  /\ executed = <<>> /\ empty = FALSE

(* Mutation of Sanitized: carriage returns are left. *)
Sanitized_Not(b) == b

(* sub_str_sanitize(). *)
Sanitized(b) == [i \in DOMAIN b |-> IF b[i] = "cr" THEN "nl" ELSE b[i]]

(* Mutation of Sanitize: the loop over the string does not advance. *)
Sanitize_Stuck == phase = "init" /\ UNCHANGED vars

Sanitize ==
  /\ phase = "init"
  /\ buf' = Sanitized(buf)
  /\ phase' = "loop"
  /\ UNCHANGED <<text, streamcursor, stream_sz, linelen, cmdrc, rc, history>>

(* Mutation of Ink: only blanks are burnt, not line breaks. *)
Ink_Blanks == (Chars \cup {"nul"}) \ {"sp"}

(* Where burning whitespace stops, and where sub_str_mark() does. *)
Ink == (Chars \cup {"nul"}) \ Space
LineEnd == {"nul", "nl"}

(* The first position of the buffer from p on with a character of kinds. *)
FirstFrom(p, kinds) ==
  CHOOSE i \in p..Len(buf) :
    buf[i] \in kinds /\ \A j \in p..(i - 1) : buf[j] \notin kinds

(* Mutation of Burned: the cursor moves and the count does not. *)
Burned_CountKept(p) == stream_sz

(* stream_sz once the whitespace up to p is burnt. *)
Burned(p) == stream_sz - (p - streamcursor)

(* Mutation of MarkLength: the pointers are subtracted the wrong way. *)
MarkLength_Swapped(p, q) == p - q

(* The result of sub_str_mark(). *)
MarkLength(p, q) == q - p

(* Burn whitespace, then sub_str_mark(): its limit stream_sz is where the  *)
(* terminator is.                                                          *)
NextLine ==
  /\ phase = "loop" /\ stream_sz > 0
  /\ LET p == FirstFrom(streamcursor, Ink)
         q == FirstFrom(p, LineEnd) IN
     /\ streamcursor' = p
     /\ stream_sz' = Burned(p)
     /\ linelen' = MarkLength(p, q)
     /\ buf' = [buf EXCEPT ![q] = "nul"]
  /\ phase' = "line"
  /\ UNCHANGED <<text, cmdrc, rc, history>>

(* bytesin: how much cmd_devmgr() is told to send. *)
BytesIn == linelen

(* How long the string is that it sends it from: the line, or data. *)
CommandLen == IF buf[streamcursor] = "json" THEN linelen - 1 ELSE linelen

LineDone(failed) ==
  /\ phase' = "next"
  /\ IF linelen = 0
     THEN empty' = TRUE /\ UNCHANGED executed
     ELSE /\ executed' = Append(executed,
               [from |-> streamcursor, len |-> BytesIn, string |-> CommandLen,
                failed |-> failed])
          /\ UNCHANGED empty
  /\ UNCHANGED <<text, buf, streamcursor, stream_sz, linelen, rc>>

(* sub_proc_lineinput(): a plain or JSON command, or an empty line, goes   *)
(* to cmd_devmgr(), which fails or not.                                    *)
ProcCommand ==
  /\ phase = "line"
  /\ buf[streamcursor] # "badjson"
  /\ \/ cmdrc' = -1 /\ LineDone(TRUE)
     \/ cmdrc' = 0 /\ LineDone(FALSE)

(* sub_proc_lineinput(): a JSON object without the strings is dropped and  *)
(* cmdrc, an uninitialised variable of the loop's body, is not set.        *)
ProcBadJson ==
  /\ phase = "line"
  /\ buf[streamcursor] = "badjson"
  /\ cmdrc' \in {-1, 0}
  /\ phase' = "next"
  /\ UNCHANGED <<text, buf, streamcursor, stream_sz, linelen, rc, history>>

(* What a line takes up: itself and its terminator. *)
Consumed == linelen + 1

(* Mutation of Failed: success is taken for failure. *)
Failed_NotNegative == cmdrc > 0

Failed == cmdrc < 0

(* Stop at an error, or go on behind the terminator. *)
AfterLine ==
  /\ phase = "next"
  /\ \/ /\ Failed
        /\ rc' = -4
        /\ phase' = "done"
        /\ UNCHANGED <<streamcursor, stream_sz>>
     \/ /\ ~Failed
        /\ stream_sz' = stream_sz - Consumed
        /\ streamcursor' = streamcursor + Consumed
        /\ phase' = "loop"
        /\ UNCHANGED rc
  /\ UNCHANGED <<text, buf, linelen, cmdrc, history>>

StreamEnd ==
  /\ phase = "loop" /\ stream_sz <= 0
  /\ phase' = "done"
  /\ UNCHANGED <<text, buf, streamcursor, stream_sz, linelen, cmdrc, rc,
                 history>>

Stream == \/ Sanitize \/ NextLine \/ ProcCommand \/ ProcBadJson
          \/ AfterLine \/ StreamEnd

Exited == phase = "done" /\ UNCHANGED vars

Next == Stream \/ Exited

Spec == Init /\ [][Next]_vars

(* The loop keeps running: every command returns (see CmdDevmgr). *)
FairSpec == Spec /\ WF_vars(Stream)

-----------------------------------------------------------------------------
(* Properties.                                                             *)

Executed == [from : Nat, len : Nat, string : Nat, failed : BOOLEAN]

(* The locals of dterm_cmdstream() keep their types; lengths are never     *)
(* negative, and the string always has its terminator's place.             *)
TypeOK ==
  /\ buf \in Seq(Chars \cup {"nul"}) /\ Len(buf) >= 1
  /\ streamcursor \in Nat \ {0} /\ stream_sz \in Int /\ linelen \in Nat
  /\ phase \in {"init", "loop", "line", "next", "done"}
  /\ cmdrc \in {-1, 0} /\ rc \in {-4, 0}
  /\ executed \in Seq(Executed) /\ empty \in BOOLEAN

(* streamcursor and stream_sz are counted apart but never drift apart: the *)
(* loop never looks past the terminator of the string, and the last        *)
(* advance leaves the cursor at most one behind it.                        *)
CursorInBounds ==
  /\ stream_sz = Len(buf) - streamcursor
  /\ phase \in {"line", "next"} => streamcursor + linelen <= Len(buf)
  /\ streamcursor <= Len(buf) + 1

Break == {"nl", "cr"}

(* Where a line starts in the given text: at its first visible character.  *)
Starts ==
  {p \in DOMAIN text :
     /\ text[p] \notin Space
     /\ \A q \in 1..(p - 1) :
          text[q] \notin Space => \E r \in q..p : text[r] \in Break}

(* Where a command starts: a line that is a JSON object without the strings*)
(* is none (dterm.c:206).                                                  *)
Commands == {p \in Starts : text[p] # "badjson"}

LengthAt(p) ==
  CHOOSE n \in 0..(Len(text) - p + 1) :
    /\ p + n = Len(text) + 1 \/ text[p + n] \in Break
    /\ \A k \in p..(p + n - 1) : text[k] \notin Break

Froms == {executed[i].from : i \in DOMAIN executed}

(* What goes to cmd_devmgr(), apart from an empty command, are the         *)
(* non-blank lines of the stream ("Run the command on each line",          *)
(* dterm.c:286) but for the JSON objects without the strings, which are    *)
(* dropped: each once, in order, from its first visible character to its   *)
(* end, and no other is left out; all of them if the stream ends without   *)
(* an error.                                                               *)
LinesInOrder ==
  /\ \A i \in DOMAIN executed :
       /\ executed[i].from \in Commands
       /\ executed[i].len = LengthAt(executed[i].from)
       /\ i > 1 => executed[i - 1].from < executed[i].from
       /\ \A s \in Commands : s < executed[i].from => s \in Froms
  /\ phase = "done" /\ rc = 0 => Froms = Commands

(* "Burn whitespace ahead of command" (dterm.c:294): a blank line between  *)
(* commands runs nothing.  Only whitespace at the end of the stream runs   *)
(* an empty command, behind all the others.                                *)
EmptyOnlyAtEnd == empty => text[Len(text)] \in Space /\ Froms = Commands

(* "Exit the command sequence on first detection of error" (dterm.c:315):  *)
(* behind a command that failed nothing is run, not even the empty command *)
(* of trailing whitespace, and the caller is told.                         *)
StopsAtFailure ==
  \A i \in DOMAIN executed : executed[i].failed =>
    /\ i = Len(executed) /\ ~empty
    /\ phase = "done" => rc = -4

(* dterm_cmdstream() comes to an end on every stream.                      *)
Ends == <>(phase = "done")

-----------------------------------------------------------------------------
(* What the source comments say and the code does not do.                  *)

(* "we only truly care about the data object, which must be a string"      *)
(* (dterm.c:208): what is sent for a command is within its string.         *)
SentIsData == \A i \in DOMAIN executed : executed[i].len <= executed[i].string
=============================================================================
