-------------------------- MODULE DtermStreamProofs --------------------------
(***************************************************************************)
(* Theorems about DtermStream.tla, for streams of every length.            *)
(***************************************************************************)
EXTENDS DtermStream, TLAPS, WellFoundedInduction

(* The inductive form: in addition, the string keeps its terminator.       *)
StreamInv ==
  /\ TypeOK
  /\ buf[Len(buf)] = "nul"
  /\ CursorInBounds

-----------------------------------------------------------------------------
(* A nonempty set of positions has a least one. *)
LEMMA LeastPosition ==
  ASSUME NEW T \in SUBSET Nat, T # {}
  PROVE  \E x \in T : \A y \in T : x <= y
<1>1. PICK x \in T : \A y \in T : ~(<<y, x>> \in OpToRel(<, Nat))
  BY WFMin, NatLessThanWellFounded
<1>2. \A y \in T : ~(y < x)
  BY <1>1 DEF OpToRel
<1> QED
  BY <1>2

(* Burning whitespace and sub_str_mark() both stop where they should, at   *)
(* the latest at the terminator.                                           *)
LEMMA ScanStops ==
  ASSUME StreamInv, NEW p \in 1..Len(buf), NEW kinds, "nul" \in kinds
  PROVE  LET x == FirstFrom(p, kinds) IN
         /\ x \in p..Len(buf) /\ buf[x] \in kinds
         /\ \A j \in p..(x - 1) : buf[j] \notin kinds
<1> DEFINE T == {i \in p..Len(buf) : buf[i] \in kinds}
<1>1. T \in SUBSET Nat /\ Len(buf) \in Nat
  BY DEF StreamInv, TypeOK
<1>2. Len(buf) \in T
  BY <1>1 DEF StreamInv
<1>3. PICK x \in T : \A y \in T : x <= y
  BY <1>1, <1>2, LeastPosition
<1>4. /\ x \in p..Len(buf) /\ buf[x] \in kinds
      /\ \A j \in p..(x - 1) : buf[j] \notin kinds
  BY <1>1, <1>3
<1> QED
  BY <1>4 DEF FirstFrom

(* sub_str_sanitize() changes no position and leaves the terminator.       *)
LEMMA SanitizedKeeps ==
  ASSUME StreamInv
  PROVE  /\ Sanitized(buf) \in Seq(Chars \cup {"nul"})
         /\ Len(Sanitized(buf)) = Len(buf)
         /\ Sanitized(buf)[Len(buf)] = "nul"
<1>1. /\ DOMAIN buf = 1..Len(buf) /\ Len(buf) \in Nat /\ Len(buf) >= 1
      /\ \A i \in 1..Len(buf) : buf[i] \in Chars \cup {"nul"}
  BY DEF StreamInv, TypeOK
<1>2. Sanitized(buf) \in [1..Len(buf) -> Chars \cup {"nul"}]
  BY <1>1 DEF Sanitized, Chars
<1>3. Sanitized(buf)[Len(buf)] = "nul"
  BY <1>1 DEF Sanitized, StreamInv
<1> QED
  BY <1>1, <1>2, <1>3

(* The string keeps its terminator, and the cursor stays within it. *)
THEOREM StreamInvariant == Spec => []StreamInv
<1>1. Init => StreamInv
  <2> SUFFICES ASSUME Init PROVE StreamInv
    OBVIOUS
  <2>1. PICK n \in 0..MaxLen : text \in [1..n -> Chars]
    BY DEF Init, Strings
  <2>2. text \in Seq(Chars) /\ Len(text) \in Nat
    BY <2>1, DtermStreamAssumption
  <2>3. /\ buf \in Seq(Chars \cup {"nul"}) /\ Len(buf) = Len(text) + 1
        /\ buf[Len(buf)] = "nul"
    <3>1. text \in Seq(Chars \cup {"nul"}) /\ "nul" \in Chars \cup {"nul"}
      BY <2>2
    <3>2. buf = Append(text, "nul")
      BY DEF Init
    <3> QED
      BY <3>1, <3>2
  <2>4. executed \in Seq(Executed) /\ empty \in BOOLEAN
    <3>1. executed \in Seq(Executed)
      BY DEF Init
    <3>2. empty \in BOOLEAN
      BY DEF Init
    <3> QED
      BY <3>1, <3>2
  <2>5. TypeOK
    BY <2>2, <2>3, <2>4 DEF Init, TypeOK
  <2> QED
    BY <2>2, <2>3, <2>5 DEF Init, StreamInv, CursorInBounds
<1>2. StreamInv /\ [Next]_vars => StreamInv'
  <2> SUFFICES ASSUME StreamInv, [Next]_vars PROVE StreamInv'
    OBVIOUS
  <2>1. CASE Sanitize
    BY <2>1, SanitizedKeeps
    DEF Sanitize, StreamInv, TypeOK, CursorInBounds, history
  <2>2. CASE NextLine
    <3> DEFINE p == FirstFrom(streamcursor, Ink)
               q == FirstFrom(p, LineEnd)
    <3>1. streamcursor \in 1..Len(buf) /\ Len(buf) \in Nat
      BY <2>2 DEF NextLine, StreamInv, TypeOK, CursorInBounds
    <3>2. p \in streamcursor..Len(buf)
      BY <3>1, ScanStops DEF Ink, Space
    <3>3. p \in 1..Len(buf) /\ q \in p..Len(buf)
      BY <3>1, <3>2, ScanStops DEF LineEnd
    <3>4. /\ streamcursor' = p /\ linelen' = q - p
          /\ stream_sz' = stream_sz - (p - streamcursor)
          /\ buf' = [buf EXCEPT ![q] = "nul"]
          /\ phase' = "line" /\ UNCHANGED <<cmdrc, rc, executed, empty>>
      BY <2>2 DEF NextLine, Burned, MarkLength, history
    <3> HIDE DEF p, q
    <3>5. /\ buf' \in Seq(Chars \cup {"nul"}) /\ Len(buf') = Len(buf)
          /\ buf'[Len(buf)] = "nul"
      <4>1. buf \in [1..Len(buf) -> Chars \cup {"nul"}]
            /\ buf[Len(buf)] = "nul" /\ Len(buf) >= 1
        BY DEF StreamInv, TypeOK
      <4>2. buf' \in [1..Len(buf) -> Chars \cup {"nul"}]
            /\ buf'[Len(buf)] = "nul"
        BY <3>1, <3>3, <3>4, <4>1
      <4> QED
        BY <3>1, <4>2
    <3>6. CursorInBounds'
      BY <3>1, <3>2, <3>3, <3>4, <3>5 DEF StreamInv, TypeOK, CursorInBounds
    <3>7. TypeOK'
      BY <3>1, <3>2, <3>3, <3>4, <3>5 DEF StreamInv, TypeOK
    <3> QED
      BY <3>5, <3>6, <3>7 DEF StreamInv
  <2>3. CASE ProcCommand
    <3>1. executed' \in Seq(Executed) /\ empty' \in BOOLEAN
      <4>1. ASSUME linelen = 0 PROVE executed' \in Seq(Executed)
        BY <2>3, <4>1 DEF ProcCommand, LineDone, StreamInv, TypeOK
      <4>2. ASSUME linelen # 0 PROVE executed' \in Seq(Executed)
        <5>1. PICK e \in Executed : executed' = Append(executed, e)
          <6>1. CommandLen \in Nat /\ BytesIn \in Nat /\ streamcursor \in Nat
            BY <4>2 DEF CommandLen, BytesIn, StreamInv, TypeOK
          <6> DEFINE e(f) == [from |-> streamcursor, len |-> BytesIn,
                              string |-> CommandLen, failed |-> f]
          <6>2. e(TRUE) \in Executed /\ e(FALSE) \in Executed
            BY <6>1 DEF Executed
          <6>3. executed' \in {Append(executed, e(TRUE)), Append(executed, e(FALSE))}
            BY <2>3, <4>2 DEF ProcCommand, LineDone
          <6> QED
            BY <6>2, <6>3
        <5> QED
          BY <5>1 DEF StreamInv, TypeOK
      <4>3. executed' \in Seq(Executed)
        BY <4>1, <4>2
      <4>4. empty' \in BOOLEAN
        <5>1. empty' = TRUE \/ empty' = empty
          BY <2>3 DEF ProcCommand, LineDone
        <5> QED
          BY <5>1 DEF StreamInv, TypeOK
      <4> QED
        BY <4>3, <4>4
    <3>2. phase = "line" /\ phase' = "next" /\ cmdrc' \in {-1, 0}
      BY <2>3 DEF ProcCommand, LineDone
    <3>3. UNCHANGED <<text, buf, streamcursor, stream_sz, linelen, rc>>
      BY <2>3 DEF ProcCommand, LineDone
    <3> QED
      BY <3>1, <3>2, <3>3 DEF StreamInv, TypeOK, CursorInBounds
  <2>7. CASE ProcBadJson
    BY <2>7 DEF ProcBadJson, StreamInv, TypeOK, CursorInBounds, history
  <2>4. CASE AfterLine
    BY <2>4 DEF AfterLine, Consumed, StreamInv, TypeOK, CursorInBounds, history
  <2>5. CASE StreamEnd
    BY <2>5 DEF StreamEnd, StreamInv, TypeOK, CursorInBounds, history
  <2>6. CASE Exited \/ UNCHANGED vars
    BY <2>6 DEF Exited, vars, StreamInv, TypeOK, CursorInBounds, history
  <2> QED
    BY <2>1, <2>2, <2>3, <2>4, <2>5, <2>6, <2>7 DEF Next, Stream
<1> QED
  BY <1>1, <1>2, PTL DEF Spec

(* The locals of dterm_cmdstream() keep their types. *)
THEOREM StreamTypes == Spec => []TypeOK
<1>1. StreamInv => TypeOK
  BY DEF StreamInv
<1> QED
  BY <1>1, StreamInvariant, PTL

(* The loop of dterm_cmdstream(), its cursor and its count of what is left *)
(* never leave the string, whatever the stream holds.                      *)
THEOREM CursorStaysInBounds == Spec => []CursorInBounds
<1>1. StreamInv => CursorInBounds
  BY DEF StreamInv
<1> QED
  BY <1>1, StreamInvariant, PTL

-----------------------------------------------------------------------------
(* What the loop runs.                                                     *)

(* From position p on, the buffer is the sanitized text. *)
Untouched(p) ==
  \A i \in p..Len(text) :
    buf[i] = IF text[i] = "cr" THEN "nl" ELSE text[i]

(* Behind every visible character before p there is a line break before p. *)
LineStart(p) ==
  \A q \in 1..(p - 1) :
    text[q] \notin Space => \E r \in q..(p - 1) : text[r] \in Break

(* n characters from p on are the rest of the line at p. *)
RestOfLine(p, n) ==
  /\ n \in 0..(Len(text) - p + 1)
  /\ p + n = Len(text) + 1 \/ text[p + n] \in Break
  /\ \A k \in p..(p + n - 1) : text[k] \notin Break

CommandsBefore(p) == {s \in Commands : s < p}

(* Where the cursor is: at a line that is still as it was given, or, with  *)
(* nothing but whitespace left, behind the text.                           *)
PlaceInv ==
  /\ text \in Seq(Chars) /\ Len(buf) = Len(text) + 1
  /\ phase = "init" =>
       streamcursor = 1 /\ \A i \in 1..Len(text) : buf[i] = text[i]
  /\ phase = "loop" =>
       /\ Untouched(streamcursor)
       /\ streamcursor <= Len(text) => LineStart(streamcursor)
  /\ phase \in {"line", "next"} =>
       /\ Untouched(streamcursor + linelen + 1)
       /\ IF linelen = 0
          THEN /\ streamcursor = Len(text) + 1 /\ Len(text) > 0
               /\ text[Len(text)] \in Space
          ELSE streamcursor \in Starts /\ RestOfLine(streamcursor, linelen)
  /\ phase = "line" /\ linelen # 0 => buf[streamcursor] = text[streamcursor]

(* What has been run: the commands that start before the cursor. *)
ProgressInv ==
  /\ phase \in {"init", "loop", "line"} => Froms = CommandsBefore(streamcursor)
  /\ phase = "next" => Froms = CommandsBefore(streamcursor + 1)
  /\ phase = "done" /\ rc = 0 => Froms = Commands
  /\ phase \in {"init", "line"} => ~empty
  /\ empty => /\ text[Len(text)] \in Space /\ Froms = Commands
              /\ phase \in {"loop", "next"} => streamcursor > Len(text)

(* The commands that have been run, in their order. *)
RunInv ==
  \A i \in DOMAIN executed :
    /\ executed[i].from \in Commands
    /\ RestOfLine(executed[i].from, executed[i].len)
    /\ i > 1 => executed[i - 1].from < executed[i].from
    /\ \A s \in Commands : s < executed[i].from => s \in Froms

(* A failure is the last thing that happened. *)
FailInv ==
  \A i \in DOMAIN executed : executed[i].failed =>
    /\ i = Len(executed) /\ ~empty
    /\ phase \in {"next", "done"}
    /\ phase = "next" => cmdrc = -1
    /\ phase = "done" => rc = -4

(* Sanitizing turns line breaks into line ends and nothing else. *)
LEMMA CharKinds ==
  ASSUME NEW c \in Chars, NEW s, s = IF c = "cr" THEN "nl" ELSE c
  PROVE  /\ s \in Ink <=> c \notin Space
         /\ s \in LineEnd <=> c \in Break
BY DEF Chars, Ink, Space, LineEnd, Break

(* NextLine finds the next line of the text, from its first visible        *)
(* character to its end, or only whitespace up to the end of the text.     *)
LEMMA NextLineFinds ==
  ASSUME StreamInv, PlaceInv, NextLine
  PROVE  /\ streamcursor \in 1..Len(text) /\ Len(text) \in Nat
         /\ streamcursor' \in streamcursor..(Len(text) + 1) /\ linelen' \in Nat
         /\ \A i \in streamcursor..(streamcursor' - 1) : text[i] \in Space
         /\ IF linelen' = 0
            THEN streamcursor' = Len(text) + 1
            ELSE /\ streamcursor' <= Len(text)
                 /\ text[streamcursor'] \notin Space
                 /\ RestOfLine(streamcursor', linelen')
                 /\ buf'[streamcursor'] = text[streamcursor']
         /\ \A i \in (streamcursor' + linelen' + 1)..Len(text) : buf'[i] = buf[i]
<1> DEFINE p == FirstFrom(streamcursor, Ink)
           q == FirstFrom(p, LineEnd)
           L == Len(text)
<1>1. L \in Nat /\ Len(buf) = L + 1 /\ Untouched(streamcursor)
  BY DEF PlaceInv, NextLine
<1>2. streamcursor \in 1..L
  BY <1>1 DEF NextLine, StreamInv, TypeOK, CursorInBounds
<1>3. streamcursor \in 1..Len(buf)
  BY <1>1, <1>2
<1>4. /\ p \in streamcursor..(L + 1) /\ buf[p] \in Ink
      /\ \A j \in streamcursor..(p - 1) : buf[j] \notin Ink
  BY <1>1, <1>3, ScanStops DEF Ink, Space
<1>5. p \in 1..Len(buf)
  BY <1>1, <1>2, <1>4
<1>6. /\ q \in p..(L + 1) /\ buf[q] \in LineEnd
      /\ \A j \in p..(q - 1) : buf[j] \notin LineEnd
  BY <1>1, <1>5, ScanStops DEF LineEnd
<1>7. /\ streamcursor' = p /\ linelen' = q - p
      /\ buf' = [buf EXCEPT ![q] = "nul"]
  BY DEF NextLine, MarkLength
<1> HIDE DEF p, q, L
<1>8. \A i \in streamcursor..L : /\ buf[i] \in Ink <=> text[i] \notin Space
                                 /\ buf[i] \in LineEnd <=> text[i] \in Break
  <2> TAKE i \in streamcursor..L
  <2>1. text[i] \in Chars
    BY <1>1, <1>2 DEF L, PlaceInv
  <2>2. buf[i] = IF text[i] = "cr" THEN "nl" ELSE text[i]
    BY <1>1 DEF L, Untouched
  <2> QED
    BY <2>1, <2>2, CharKinds
<1>9. \A i \in streamcursor..(p - 1) : text[i] \in Space
  <2> TAKE i \in streamcursor..(p - 1)
  <2>1. i \in streamcursor..L
    BY <1>1, <1>2, <1>4
  <2> QED
    BY <1>4, <1>8, <2>1
<1>10. CASE p = L + 1
  <2>1. q = p
    BY <1>1, <1>6, <1>10
  <2> QED
    BY <1>1, <1>2, <1>4, <1>6, <1>7, <1>9, <1>10, <2>1 DEF L
<1>11. CASE p # L + 1
  <2>1. p \in streamcursor..L
    BY <1>1, <1>2, <1>4, <1>11
  <2>2. text[p] \notin Space
    BY <1>4, <1>8, <2>1
  <2>3. q # p
    BY <1>6, <1>8, <2>1, <2>2 DEF Break, Space
  <2>4. q - p \in Nat \ {0} /\ q - p \in 0..(L - p + 1)
    BY <1>1, <1>2, <1>6, <2>1, <2>3
  <2>5. p + (q - p) = q
    BY <1>2, <1>6, <2>1
  <2>6. q = L + 1 \/ text[q] \in Break
    <3>1. q = L + 1 \/ q \in streamcursor..L
      BY <1>1, <1>2, <1>6, <2>1
    <3> QED
      BY <1>6, <1>8, <3>1
  <2>7. \A k \in p..(q - 1) : text[k] \notin Break
    <3> TAKE k \in p..(q - 1)
    <3>1. k \in streamcursor..L
      BY <1>1, <1>2, <1>6, <2>1
    <3> QED
      BY <1>6, <1>8, <3>1
  <2>8. RestOfLine(p, q - p)
    <3>1. \A k \in p..(p + (q - p) - 1) : text[k] \notin Break
      BY <1>2, <1>6, <2>1, <2>7
    <3>2. p + (q - p) = L + 1 \/ text[p + (q - p)] \in Break
      BY ONLY <2>5, <2>6
    <3> QED
      BY <2>4, <3>1, <3>2, Zenon DEF RestOfLine, L
  <2>9. \A i \in (q + 1)..L : buf'[i] = buf[i]
    <3>1. buf \in Seq(Chars \cup {"nul"})
      BY DEF StreamInv, TypeOK
    <3> QED
      BY <1>1, <1>2, <1>6, <1>7, <2>1, <3>1
  <2>10. /\ RestOfLine(streamcursor', linelen')
         /\ streamcursor' + linelen' + 1 = q + 1
    BY <1>7, <2>5, <2>8
  <2>11. buf'[p] = text[p]
    <3>1. buf[p] = text[p]
      BY <1>1, <2>1, <2>2 DEF L, Untouched, Space
    <3>2. buf \in Seq(Chars \cup {"nul"})
      BY DEF StreamInv, TypeOK
    <3> QED
      BY <1>5, <1>7, <2>3, <3>1, <3>2
  <2> QED
    BY <1>1, <1>2, <1>4, <1>7, <1>9, <2>1, <2>2, <2>4, <2>9, <2>10, <2>11 DEF L
<1> QED
  BY <1>10, <1>11

LEMMA PlaceInvStep == StreamInv /\ PlaceInv /\ [Next]_vars => PlaceInv'
<1> SUFFICES ASSUME StreamInv, PlaceInv, [Next]_vars PROVE PlaceInv'
  OBVIOUS
<1>1. text' = text /\ text \in Seq(Chars) /\ Len(text) \in Nat
  BY DEF PlaceInv, Next, Stream, Sanitize, NextLine, ProcCommand,
         ProcBadJson, LineDone, AfterLine, StreamEnd, Exited, vars
<1>2. CASE Sanitize
  <2>1. /\ phase = "init" /\ phase' = "loop" /\ buf' = Sanitized(buf)
        /\ streamcursor = 1 /\ streamcursor' = 1
        /\ \A i \in 1..Len(text) : buf[i] = text[i]
    BY <1>2 DEF Sanitize, PlaceInv
  <2>2. Len(buf') = Len(text) + 1
    BY <2>1, SanitizedKeeps DEF PlaceInv
  <2>3. \A i \in 1..Len(text) : buf'[i] = IF text[i] = "cr" THEN "nl" ELSE text[i]
    <3>1. DOMAIN buf = 1..(Len(text) + 1)
      BY DEF PlaceInv, StreamInv, TypeOK
    <3> QED
      BY <1>1, <2>1, <3>1 DEF Sanitized
  <2>4. Untouched(streamcursor)' /\ LineStart(streamcursor)'
    BY <1>1, <2>1, <2>3 DEF Untouched, LineStart
  <2> QED
    BY <1>1, <2>1, <2>2, <2>4 DEF PlaceInv
<1>3. CASE NextLine
  <2> DEFINE c == streamcursor
  <2>1. /\ phase = "loop" /\ phase' = "line" /\ Untouched(c)
        /\ c \in 1..Len(text) /\ LineStart(c)
    BY <1>3, NextLineFinds DEF NextLine, PlaceInv
  <2>2. PICK p \in c..(Len(text) + 1), n \in Nat :
          streamcursor' = p /\ linelen' = n
    BY <1>3, NextLineFinds
  <2>3. /\ \A i \in c..(p - 1) : text[i] \in Space
        /\ IF n = 0 THEN p = Len(text) + 1
           ELSE /\ p <= Len(text) /\ text[p] \notin Space
                /\ RestOfLine(p, n) /\ buf'[p] = text[p]
        /\ \A i \in (p + n + 1)..Len(text) : buf'[i] = buf[i]
    BY <1>3, <2>2, NextLineFinds
  <2> HIDE DEF c
  <2>4. \A i \in (p + n + 1)..Len(text) :
          buf'[i] = IF text[i] = "cr" THEN "nl" ELSE text[i]
    <3> TAKE i \in (p + n + 1)..Len(text)
    <3>1. i \in c..Len(text)
      BY <1>1, <2>1, <2>2
    <3> QED
      BY <2>1, <2>3, <3>1 DEF Untouched
  <2>5. Untouched(streamcursor + linelen + 1)'
    BY <1>1, <2>2, <2>4 DEF Untouched
  <2>6. Len(buf') = Len(text) + 1
    <3>1. buf' = [buf EXCEPT ![FirstFrom(streamcursor', LineEnd)] = "nul"]
      BY <1>3 DEF NextLine
    <3>2. buf \in Seq(Chars \cup {"nul"}) /\ Len(buf) = Len(text) + 1
      BY DEF StreamInv, TypeOK, PlaceInv
    <3> QED
      BY <3>1, <3>2
  <2>7. CASE n = 0
    <3>1. p = Len(text) + 1 /\ text[Len(text)] \in Space /\ Len(text) > 0
      BY <1>1, <2>1, <2>2, <2>3, <2>7
    <3> QED
      BY <1>1, <2>1, <2>2, <2>5, <2>6, <2>7, <3>1 DEF PlaceInv
  <2>8. CASE n # 0
    <3>1. p \in 1..Len(text) /\ text[p] \notin Space /\ RestOfLine(p, n)
      BY <1>1, <2>1, <2>2, <2>3, <2>8
    <3>2. ASSUME NEW q \in 1..(p - 1), text[q] \notin Space
          PROVE  \E r \in q..p : text[r] \in Break
      <4>1. q \in 1..(c - 1)
        BY <2>1, <2>2, <2>3, <3>2
      <4>2. PICK r \in q..(c - 1) : text[r] \in Break
        BY <2>1, <3>2, <4>1 DEF LineStart
      <4> QED
        BY <2>1, <2>2, <4>1, <4>2
    <3>3. p \in Starts
      <4>1. DOMAIN text = 1..Len(text)
        BY <1>1
      <4> QED
        BY <3>1, <3>2, <4>1 DEF Starts
    <3>4. (streamcursor \in Starts)'
      BY <1>1, <2>2, <3>3 DEF Starts
    <3>5. RestOfLine(streamcursor, linelen)'
      BY <1>1, <2>2, <3>1 DEF RestOfLine
    <3>6. buf'[streamcursor'] = text'[streamcursor']
      BY <1>1, <2>2, <2>3, <2>8
    <3> QED
      BY <1>1, <2>1, <2>2, <2>5, <2>6, <2>8, <3>4, <3>5, <3>6 DEF PlaceInv
  <2> QED
    BY <2>7, <2>8
<1>4. CASE ProcCommand \/ ProcBadJson
  <2>1. /\ UNCHANGED <<text, buf, streamcursor, linelen>>
        /\ phase = "line" /\ phase' = "next"
    BY <1>4 DEF ProcCommand, ProcBadJson, LineDone
  <2>2. /\ Untouched(streamcursor + linelen + 1)'
             <=> Untouched(streamcursor + linelen + 1)
        /\ Starts' = Starts
        /\ RestOfLine(streamcursor, linelen)' <=> RestOfLine(streamcursor, linelen)
    BY <2>1 DEF Untouched, Starts, RestOfLine
  <2> QED
    BY <2>1, <2>2 DEF PlaceInv
<1>5. CASE AfterLine
  <2>1. phase = "next" /\ UNCHANGED <<text, buf, linelen>>
    BY <1>5 DEF AfterLine
  <2>2. CASE phase' = "done"
    BY <2>1, <2>2 DEF PlaceInv
  <2>3. CASE phase' # "done"
    <3>3. streamcursor \in Nat \ {0} /\ linelen \in Nat
      BY DEF StreamInv, TypeOK
    <3>1. phase' = "loop" /\ streamcursor' = streamcursor + linelen + 1
      BY <1>5, <2>3, <3>3 DEF AfterLine, Consumed
    <3>2. Untouched(streamcursor)'
      BY <2>1, <3>1 DEF PlaceInv, Untouched
    <3>4. ASSUME streamcursor' <= Len(text) PROVE LineStart(streamcursor)'
      <4>1. linelen # 0 /\ streamcursor + linelen < Len(text) + 1
        BY <1>1, <2>1, <3>1, <3>3, <3>4 DEF PlaceInv
      <4>2. text[streamcursor + linelen] \in Break
        BY <1>1, <2>1, <3>3, <4>1 DEF PlaceInv, RestOfLine
      <4>3. ASSUME NEW q \in 1..(streamcursor' - 1)
            PROVE  \E r \in q..(streamcursor' - 1) : text'[r] \in Break
        <5>1. streamcursor + linelen \in q..(streamcursor' - 1)
          BY <3>1, <3>3
        <5> QED
          BY <1>1, <4>2, <5>1
      <4> QED
        BY <4>3 DEF LineStart
    <3> QED
      BY <2>1, <3>1, <3>2, <3>4 DEF PlaceInv
  <2> QED
    BY <2>2, <2>3
<1>6. CASE StreamEnd
  BY <1>6 DEF StreamEnd, PlaceInv
<1>7. CASE Exited \/ UNCHANGED vars
  <2>1. UNCHANGED <<text, buf, streamcursor, linelen, phase>>
    BY <1>7 DEF Exited, vars
  <2>2. /\ Untouched(streamcursor)' <=> Untouched(streamcursor)
        /\ LineStart(streamcursor)' <=> LineStart(streamcursor)
        /\ Untouched(streamcursor + linelen + 1)'
             <=> Untouched(streamcursor + linelen + 1)
        /\ Starts' = Starts
        /\ RestOfLine(streamcursor, linelen)' <=> RestOfLine(streamcursor, linelen)
    BY <2>1 DEF Untouched, LineStart, Starts, RestOfLine
  <2> QED
    BY <2>1, <2>2 DEF PlaceInv
<1> QED
  BY <1>2, <1>3, <1>4, <1>5, <1>6, <1>7 DEF Next, Stream

(* Between the first character of a line and its end no command starts.    *)
LEMMA NoStartWithin ==
  ASSUME text \in Seq(Chars), NEW p \in Starts, NEW n, RestOfLine(p, n)
  PROVE  CommandsBefore(p + n + 1) = CommandsBefore(p + 1)
<1>1. p \in 1..Len(text) /\ n \in Nat /\ text[p] \notin Space
  BY DEF Starts, RestOfLine
<1>2. ASSUME NEW s \in Starts, p < s PROVE ~(s < p + n + 1)
  <2>1. s \in 1..Len(text) /\ text[s] \notin Space
    BY DEF Starts
  <2>2. PICK r \in p..s : text[r] \in Break
    <3>1. p \in 1..(s - 1)
      BY <1>1, <1>2, <2>1
    <3> QED
      BY <1>1, <3>1 DEF Starts
  <2>3. r # s
    BY <2>1, <2>2 DEF Break, Space
  <2>4. r \notin p..(p + n - 1)
    BY <2>2 DEF RestOfLine
  <2> QED
    BY <1>1, <1>2, <2>1, <2>2, <2>3, <2>4
<1>3. \A s \in Starts : s \in Nat
  BY DEF Starts
<1>4. \A s \in Starts : s < p + n + 1 <=> s < p + 1
  BY <1>1, <1>2, <1>3
<1> QED
  BY <1>4 DEF CommandsBefore, Commands

(* A line that is run is one more in Froms. *)
LEMMA FromsAfter ==
  ASSUME executed \in Seq(Executed), NEW e \in Executed,
         executed' = Append(executed, e)
  PROVE  Froms' = Froms \cup {e.from}
<1>1. /\ DOMAIN executed = 1..Len(executed) /\ Len(executed) \in Nat
      /\ DOMAIN executed' = 1..(Len(executed) + 1)
      /\ \A i \in 1..Len(executed) : executed'[i] = executed[i]
      /\ executed'[Len(executed) + 1] = e
  OBVIOUS
<1>2. Froms' \subseteq Froms \cup {e.from}
  <2> SUFFICES ASSUME NEW i \in DOMAIN executed'
               PROVE  executed'[i].from \in Froms \cup {e.from}
    BY DEF Froms
  <2>1. CASE i = Len(executed) + 1
    BY <1>1, <2>1
  <2>2. CASE i # Len(executed) + 1
    <3>1. i \in DOMAIN executed /\ executed'[i] = executed[i]
      BY <1>1, <2>2
    <3> QED
      BY <3>1 DEF Froms
  <2> QED
    BY <2>1, <2>2
<1>3. Froms \subseteq Froms'
  <2> SUFFICES ASSUME NEW i \in DOMAIN executed
               PROVE  executed[i].from \in Froms'
    BY DEF Froms
  <2>1. i \in DOMAIN executed' /\ executed'[i] = executed[i]
    BY <1>1
  <2> QED
    BY <2>1 DEF Froms
<1>4. e.from \in Froms'
  <2>1. Len(executed) + 1 \in DOMAIN executed'
    BY <1>1
  <2> QED
    BY <1>1, <2>1 DEF Froms
<1> QED
  BY <1>2, <1>3, <1>4

(* A line that is run appends its record; an empty one only raises empty. *)
LEMMA LineRun ==
  ASSUME StreamInv, ProcCommand
  PROVE  /\ phase = "line" /\ phase' = "next"
         /\ UNCHANGED <<text, buf, streamcursor, stream_sz, linelen, rc>>
         /\ linelen = 0 => executed' = executed /\ empty' = TRUE
         /\ linelen # 0 =>
              /\ empty' = empty
              /\ \E e \in Executed :
                   /\ executed' = Append(executed, e)
                   /\ e.from = streamcursor /\ e.len = linelen
                   /\ e.failed => cmdrc' = -1
<1>1. /\ phase = "line" /\ phase' = "next"
      /\ UNCHANGED <<text, buf, streamcursor, stream_sz, linelen, rc>>
  BY DEF ProcCommand, LineDone
<1>2. linelen = 0 => executed' = executed /\ empty' = TRUE
  BY DEF ProcCommand, LineDone
<1>3. linelen # 0 => empty' = empty
  BY DEF ProcCommand, LineDone
<1>4. ASSUME linelen # 0
      PROVE  \E e \in Executed :
                   /\ executed' = Append(executed, e)
                   /\ e.from = streamcursor /\ e.len = linelen
                   /\ e.failed => cmdrc' = -1
  <2>1. CommandLen \in Nat /\ BytesIn = linelen /\ linelen \in Nat /\ streamcursor \in Nat
    BY <1>4 DEF CommandLen, BytesIn, StreamInv, TypeOK
  <2> DEFINE e(f) == [from |-> streamcursor, len |-> linelen,
                      string |-> CommandLen, failed |-> f]
  <2>2. e(TRUE) \in Executed /\ e(FALSE) \in Executed
    BY <2>1 DEF Executed
  <2>3. /\ e(TRUE).from = streamcursor /\ e(TRUE).len = linelen
        /\ e(FALSE).from = streamcursor /\ e(FALSE).len = linelen
        /\ ~e(FALSE).failed
    OBVIOUS
  <2>4. \/ executed' = Append(executed, e(TRUE)) /\ cmdrc' = -1
        \/ executed' = Append(executed, e(FALSE))
    BY <1>4, <2>1 DEF ProcCommand, LineDone
  <2> HIDE DEF e
  <2> QED
    BY <2>2, <2>3, <2>4
<1> QED
  BY <1>1, <1>2, <1>3, <1>4

(* Which lines are run and which are dropped is told from the first        *)
(* character, which is still as it was given.                              *)
LEMMA RunOrDropped ==
  ASSUME StreamInv, PlaceInv, phase = "line"
  PROVE  /\ buf[streamcursor] = "badjson" => linelen # 0
         /\ linelen # 0 =>
              /\ streamcursor \in Starts
              /\ streamcursor \in Commands <=> buf[streamcursor] # "badjson"
<1>1. linelen = 0 => buf[streamcursor] = "nul"
  BY DEF StreamInv, PlaceInv
<1>2. linelen # 0 =>
        streamcursor \in Starts /\ buf[streamcursor] = text[streamcursor]
  BY DEF PlaceInv
<1> QED
  BY <1>1, <1>2 DEF Commands

LEMMA ProgressInvStep ==
  StreamInv /\ PlaceInv /\ ProgressInv /\ [Next]_vars => ProgressInv'
<1> SUFFICES ASSUME StreamInv, PlaceInv, ProgressInv, [Next]_vars
             PROVE  ProgressInv'
  OBVIOUS
<1>1. text' = text /\ text \in Seq(Chars) /\ Len(text) \in Nat
  BY DEF PlaceInv, Next, Stream, Sanitize, NextLine, ProcCommand,
         ProcBadJson, LineDone, AfterLine, StreamEnd, Exited, vars
<1>2. /\ Starts' = Starts /\ Commands' = Commands
      /\ \A s \in Commands : s \in Starts /\ s \in 1..Len(text)
      /\ streamcursor \in Nat /\ linelen \in Nat
  BY <1>1 DEF Starts, Commands, StreamInv, TypeOK
<1>4. CASE Sanitize
  <2>1. /\ phase = "init" /\ phase' = "loop"
        /\ UNCHANGED <<streamcursor, executed, empty>>
    BY <1>4 DEF Sanitize, history
  <2>2. Froms' = Froms /\ CommandsBefore(streamcursor)' = CommandsBefore(streamcursor)
    BY <1>2, <2>1 DEF Froms, CommandsBefore
  <2> QED
    BY <1>1, <2>1, <2>2 DEF ProgressInv
<1>5. CASE NextLine
  <2>1. /\ phase = "loop" /\ phase' = "line" /\ executed' = executed /\ empty' = empty
    BY <1>5 DEF NextLine, history
  <2>2. PICK p \in streamcursor..(Len(text) + 1) : streamcursor' = p
    BY <1>5, NextLineFinds
  <2>3. /\ \A i \in streamcursor..(p - 1) : text[i] \in Space
        /\ streamcursor \in 1..Len(text)
    BY <1>5, <2>2, NextLineFinds
  <2>4. \A s \in Commands : s < p => s < streamcursor
    <3> SUFFICES ASSUME NEW s \in Commands, s < p, streamcursor <= s PROVE FALSE
      BY <1>2
    <3>1. s \in streamcursor..(p - 1)
      BY <1>1, <1>2, <2>2
    <3> QED
      BY <1>2, <2>3, <3>1 DEF Starts
  <2>5. CommandsBefore(streamcursor)' = CommandsBefore(streamcursor)
    <3>1. CommandsBefore(p) = CommandsBefore(streamcursor)
      BY <1>1, <1>2, <2>2, <2>4 DEF CommandsBefore
    <3> QED
      BY <1>2, <2>2, <3>1 DEF CommandsBefore
  <2>6. Froms' = Froms /\ ~empty
    BY <1>1, <2>1, <2>3 DEF Froms, ProgressInv
  <2> QED
    BY <2>1, <2>5, <2>6 DEF ProgressInv
<1>6. CASE ProcCommand
  <2>1. /\ phase = "line" /\ phase' = "next" /\ streamcursor' = streamcursor
        /\ Froms = CommandsBefore(streamcursor) /\ ~empty
    BY <1>6, LineRun DEF ProgressInv
  <2>2. CommandsBefore(streamcursor + 1)' = CommandsBefore(streamcursor + 1)
    BY <1>2, <2>1 DEF CommandsBefore
  <2>3. CASE linelen = 0
    <3>1. executed' = executed /\ empty' = TRUE
      BY <1>6, <2>3, LineRun
    <3>2. streamcursor = Len(text) + 1 /\ text[Len(text)] \in Space
      BY <2>1, <2>3 DEF PlaceInv
    <3>3. /\ CommandsBefore(streamcursor) = Commands
          /\ CommandsBefore(streamcursor + 1) = Commands
      BY <1>1, <1>2, <3>2 DEF CommandsBefore
    <3>4. Froms' = Commands
      BY <2>1, <3>1, <3>3 DEF Froms
    <3>5. streamcursor' > Len(text')
      BY <1>1, <2>1, <3>2
    <3> QED
      BY <1>1, <1>2, <2>1, <2>2, <3>2, <3>3, <3>4, <3>5 DEF ProgressInv
  <2>4. CASE linelen # 0
    <3>1. PICK e \in Executed : /\ executed' = Append(executed, e)
                                /\ e.from = streamcursor
      BY <1>6, <2>4, LineRun
    <3>2. Froms' = Froms \cup {streamcursor}
      BY <3>1, FromsAfter DEF StreamInv, TypeOK
    <3>3. streamcursor \in Commands
      BY <1>6, <2>1, <2>4, RunOrDropped DEF ProcCommand
    <3>4. Froms' = CommandsBefore(streamcursor + 1)
      <4>1. \A s \in Commands : s < streamcursor + 1 <=> s < streamcursor \/ s = streamcursor
        BY <1>2
      <4> QED
        BY <2>1, <3>2, <3>3, <4>1 DEF CommandsBefore
    <3>5. empty' = empty
      BY <1>6, <2>4, LineRun
    <3> QED
      BY <2>1, <2>2, <3>4, <3>5 DEF ProgressInv
  <2> QED
    BY <2>3, <2>4
<1>3. CASE ProcBadJson
  <2>1. /\ phase = "line" /\ phase' = "next"
        /\ UNCHANGED <<streamcursor, executed, empty>>
        /\ Froms = CommandsBefore(streamcursor) /\ ~empty
    BY <1>3 DEF ProcBadJson, history, ProgressInv
  <2>2. streamcursor \notin Commands
    BY <1>3, <2>1, RunOrDropped DEF ProcBadJson
  <2>3. \A s \in Commands : s < streamcursor + 1 <=> s < streamcursor
    BY <1>2, <2>2
  <2>4. CommandsBefore(streamcursor + 1) = CommandsBefore(streamcursor)
    BY <2>3 DEF CommandsBefore
  <2>5. Froms' = CommandsBefore(streamcursor + 1)'
    <3>1. Froms' = Froms
      BY <2>1 DEF Froms
    <3> QED
      BY <1>2, <2>1, <2>4, <3>1 DEF CommandsBefore
  <2> QED
    BY <2>1, <2>5 DEF ProgressInv
<1>7. CASE AfterLine
  <2>1. /\ phase = "next" /\ UNCHANGED <<executed, empty>>
        /\ Froms' = Froms /\ Froms = CommandsBefore(streamcursor + 1)
    BY <1>7 DEF AfterLine, history, Froms, ProgressInv
  <2>2. CASE Failed
    <3>1. phase' = "done" /\ rc' = -4
      BY <1>7, <2>2 DEF AfterLine
    <3> QED
      BY <1>1, <1>2, <2>1, <3>1 DEF ProgressInv
  <2>3. CASE ~Failed
    <3>1. phase' = "loop" /\ streamcursor' = streamcursor + linelen + 1
      BY <1>2, <1>7, <2>3 DEF AfterLine, Consumed
    <3>2. CommandsBefore(streamcursor + linelen + 1) = CommandsBefore(streamcursor + 1)
      <4>1. CASE linelen = 0
        BY <1>2, <4>1
      <4>2. CASE linelen # 0
        BY <1>1, <2>1, <4>2, NoStartWithin DEF PlaceInv
      <4> QED
        BY <4>1, <4>2
    <3>3. CommandsBefore(streamcursor)' = CommandsBefore(streamcursor + linelen + 1)
      BY <1>2, <3>1 DEF CommandsBefore
    <3>4. empty => streamcursor' > Len(text')
      BY <1>1, <1>2, <2>1, <3>1 DEF ProgressInv
    <3> QED
      BY <1>1, <1>2, <2>1, <3>1, <3>2, <3>3, <3>4 DEF ProgressInv
  <2> QED
    BY <2>2, <2>3
<1>8. CASE StreamEnd
  <2>1. /\ phase = "loop" /\ phase' = "done" /\ UNCHANGED <<executed, empty>>
        /\ stream_sz <= 0
    BY <1>8 DEF StreamEnd, history
  <2>2. streamcursor >= Len(text) + 1
    BY <1>1, <1>2, <2>1 DEF StreamInv, CursorInBounds, PlaceInv
  <2>3. CommandsBefore(streamcursor) = Commands
    BY <1>1, <1>2, <2>2 DEF CommandsBefore
  <2>4. Froms' = Commands
    BY <2>1, <2>3 DEF Froms, ProgressInv
  <2> QED
    BY <1>1, <1>2, <2>1, <2>4 DEF ProgressInv
<1>9. CASE Exited \/ UNCHANGED vars
  <2>1. UNCHANGED <<streamcursor, phase, rc, executed, empty>>
    BY <1>9 DEF Exited, vars, history
  <2>2. /\ Froms' = Froms
        /\ CommandsBefore(streamcursor)' = CommandsBefore(streamcursor)
        /\ CommandsBefore(streamcursor + 1)' = CommandsBefore(streamcursor + 1)
    BY <1>2, <2>1 DEF Froms, CommandsBefore
  <2> QED
    BY <1>1, <1>2, <2>1, <2>2 DEF ProgressInv
<1> QED
  BY <1>3, <1>4, <1>5, <1>6, <1>7, <1>8, <1>9 DEF Next, Stream

LEMMA RunInvStep ==
  StreamInv /\ PlaceInv /\ ProgressInv /\ RunInv /\ [Next]_vars => RunInv'
<1> SUFFICES ASSUME StreamInv, PlaceInv, ProgressInv, RunInv, [Next]_vars
             PROVE  RunInv'
  OBVIOUS
<1>1. text' = text
  BY DEF PlaceInv, Next, Stream, Sanitize, NextLine, ProcCommand,
         ProcBadJson, LineDone, AfterLine, StreamEnd, Exited, vars
<1>2. Commands' = Commands
  BY <1>1 DEF Starts, Commands
<1>3. CASE executed' = executed
  <2>1. Froms' = Froms
    BY <1>3 DEF Froms
  <2>2. ASSUME NEW i \in DOMAIN executed'
        PROVE  RestOfLine(executed[i].from, executed[i].len)'
    BY <1>1, <1>3 DEF RunInv, RestOfLine
  <2> QED
    BY <1>2, <1>3, <2>1, <2>2 DEF RunInv
<1>4. CASE executed' # executed
  <2>1. ProcCommand /\ linelen # 0
    BY <1>4, LineRun
    DEF Next, Stream, Sanitize, NextLine, ProcBadJson, AfterLine, StreamEnd,
        Exited, vars, history
  <2>2. PICK e \in Executed :
          /\ executed' = Append(executed, e)
          /\ e.from = streamcursor /\ e.len = linelen
    BY <2>1, LineRun
  <2>3. phase = "line"
    BY <2>1, LineRun
  <2>4. /\ streamcursor \in Commands /\ RestOfLine(streamcursor, linelen)
        /\ Froms = CommandsBefore(streamcursor)
    BY <2>1, <2>3, RunOrDropped DEF ProcCommand, PlaceInv, ProgressInv
  <2>5. Froms' = Froms \cup {streamcursor}
    BY <2>2, FromsAfter DEF StreamInv, TypeOK
  <2>6. /\ DOMAIN executed = 1..Len(executed) /\ Len(executed) \in Nat
        /\ DOMAIN executed' = 1..(Len(executed) + 1)
        /\ \A i \in 1..Len(executed) : executed'[i] = executed[i]
        /\ executed'[Len(executed) + 1] = e
    BY <2>2 DEF StreamInv, TypeOK
  <2> SUFFICES ASSUME NEW i \in 1..(Len(executed) + 1)
               PROVE  /\ executed'[i].from \in Commands
                      /\ RestOfLine(executed'[i].from, executed'[i].len)
                      /\ i > 1 => executed'[i - 1].from < executed'[i].from
                      /\ \A s \in Commands :
                           s < executed'[i].from => s \in Froms'
    BY <1>1, <1>2, <2>6 DEF RunInv, RestOfLine
  <2>7. CASE i = Len(executed) + 1
    <3>1. executed'[i].from = streamcursor /\ executed'[i].len = linelen
      BY <2>2, <2>6, <2>7
    <3>2. \A s \in Commands : s < executed'[i].from => s \in Froms'
      BY <2>4, <2>5, <3>1 DEF CommandsBefore
    <3>3. i > 1 => executed'[i - 1].from < executed'[i].from
      <4> HAVE i > 1
      <4>1. i - 1 \in 1..Len(executed)
        BY <2>6, <2>7
      <4>2. executed'[i - 1].from \in Froms
        BY <2>6, <4>1 DEF Froms
      <4> QED
        BY <2>4, <3>1, <4>2 DEF CommandsBefore
    <3> QED
      BY <2>4, <3>1, <3>2, <3>3
  <2>8. CASE i # Len(executed) + 1
    <3>1. i \in DOMAIN executed /\ executed'[i] = executed[i]
      BY <2>6, <2>8
    <3>2. i > 1 => executed'[i - 1] = executed[i - 1]
      BY <2>6, <2>8
    <3> QED
      BY <2>5, <3>1, <3>2 DEF RunInv
  <2> QED
    BY <2>7, <2>8
<1> QED
  BY <1>3, <1>4

LEMMA FailInvStep ==
  StreamInv /\ ProgressInv /\ FailInv /\ [Next]_vars => FailInv'
<1> SUFFICES ASSUME StreamInv, ProgressInv, FailInv, [Next]_vars PROVE FailInv'
  OBVIOUS
<1>1. CASE ProcCommand
  <2>1. phase = "line" /\ phase' = "next" /\ ~empty
    BY <1>1, LineRun DEF ProgressInv
  <2>2. \A i \in DOMAIN executed : ~executed[i].failed
    BY <2>1 DEF FailInv
  <2>3. CASE linelen = 0
    <3>1. executed' = executed
      BY <1>1, <2>3, LineRun
    <3> QED
      BY <2>2, <3>1 DEF FailInv
  <2>4. CASE linelen # 0
    <3>1. PICK e \in Executed : executed' = Append(executed, e)
                                /\ (e.failed => cmdrc' = -1)
      BY <1>1, <2>4, LineRun
    <3>2. /\ DOMAIN executed = 1..Len(executed) /\ Len(executed) \in Nat
          /\ DOMAIN executed' = 1..(Len(executed) + 1)
          /\ Len(executed') = Len(executed) + 1
          /\ \A i \in 1..Len(executed) : executed'[i] = executed[i]
          /\ executed'[Len(executed) + 1] = e
      BY <3>1 DEF StreamInv, TypeOK
    <3>3. ~empty'
      BY <1>1, <2>1, <2>4, LineRun
    <3> SUFFICES ASSUME NEW i \in 1..(Len(executed) + 1), executed'[i].failed
                 PROVE  i = Len(executed') /\ cmdrc' = -1
      BY <2>1, <3>2, <3>3 DEF FailInv
    <3>4. i = Len(executed) + 1
      BY <2>2, <3>2
    <3> QED
      BY <3>1, <3>2, <3>4
  <2> QED
    BY <2>3, <2>4
<1>2. CASE AfterLine
  <2>1. /\ phase = "next" /\ UNCHANGED <<executed, empty, cmdrc>>
        /\ phase' = "loop" => ~(cmdrc < 0)
        /\ phase' # "loop" => phase' = "done" /\ rc' = -4
    BY <1>2 DEF AfterLine, Failed, history
  <2>2. CASE phase' = "loop"
    <3>1. \A i \in DOMAIN executed : ~executed[i].failed
      BY <2>1, <2>2 DEF FailInv
    <3> QED
      BY <2>1, <3>1 DEF FailInv
  <2>3. CASE phase' # "loop"
    BY <2>1, <2>3 DEF FailInv
  <2> QED
    BY <2>2, <2>3
<1>5. CASE ProcBadJson
  <2>1. /\ phase = "line" /\ executed' = executed
    BY <1>5 DEF ProcBadJson, history
  <2> QED
    BY <2>1 DEF FailInv
<1>3. CASE Sanitize \/ NextLine \/ StreamEnd
  <2>1. phase \in {"init", "loop"} /\ executed' = executed
    BY <1>3 DEF Sanitize, NextLine, StreamEnd, history
  <2> QED
    BY <2>1 DEF FailInv
<1>4. CASE Exited \/ UNCHANGED vars
  <2>1. UNCHANGED <<phase, executed, empty, cmdrc, rc>>
    BY <1>4 DEF Exited, vars, history
  <2> QED
    BY <2>1 DEF FailInv
<1> QED
  BY <1>1, <1>2, <1>3, <1>4, <1>5 DEF Next, Stream

(* The text, the cursor and the commands run so far stay in step. *)
THEOREM StreamProgress ==
  Spec => [](PlaceInv /\ ProgressInv /\ RunInv /\ FailInv)
<1>1. Init => PlaceInv /\ ProgressInv /\ RunInv /\ FailInv
  <2> SUFFICES ASSUME Init PROVE PlaceInv /\ ProgressInv /\ RunInv /\ FailInv
    OBVIOUS
  <2>1. PICK n \in 0..MaxLen : text \in [1..n -> Chars]
    BY DEF Init, Strings
  <2>2. text \in Seq(Chars) /\ Len(text) \in Nat
    BY <2>1, DtermStreamAssumption
  <2>3. /\ Len(buf) = Len(text) + 1
        /\ \A i \in 1..Len(text) : buf[i] = text[i]
    <3>1. text \in Seq(Chars \cup {"nul"}) /\ "nul" \in Chars \cup {"nul"}
      BY <2>2
    <3>2. buf = Append(text, "nul")
      BY DEF Init
    <3> QED
      BY <3>1, <3>2
  <2>4. PlaceInv
    BY <2>2, <2>3 DEF Init, PlaceInv
  <2>5. DOMAIN executed = {} /\ ~empty /\ phase = "init" /\ streamcursor = 1
    BY DEF Init
  <2>6. Froms = {} /\ CommandsBefore(streamcursor) = {}
    <3>1. \A s \in Commands : ~(s < 1)
      BY <2>2 DEF Starts, Commands
    <3> QED
      BY <2>5, <3>1 DEF Froms, CommandsBefore
  <2> QED
    BY <2>4, <2>5, <2>6 DEF ProgressInv, RunInv, FailInv
<1> QED
  BY <1>1, PlaceInvStep, ProgressInvStep, RunInvStep, FailInvStep,
     StreamInvariant, PTL DEF Spec

(* The end of a line is determined by its beginning. *)
LEMMA LengthIsUnique ==
  ASSUME text \in Seq(Chars), NEW p \in Starts, NEW n, RestOfLine(p, n)
  PROVE  n = LengthAt(p)
<1>1. p \in 1..Len(text) /\ Len(text) \in Nat
  BY DEF Starts
<1>2. ASSUME NEW m, NEW k, RestOfLine(p, m), RestOfLine(p, k), m < k PROVE FALSE
  <2>1. m \in Nat /\ k \in Nat /\ p + k <= Len(text) + 1
    BY <1>1, <1>2 DEF RestOfLine
  <2>2. text[p + m] \in Break
    BY <1>1, <1>2, <2>1 DEF RestOfLine
  <2>3. p + m \in p..(p + k - 1)
    BY <1>1, <1>2, <2>1
  <2> QED
    BY <1>2, <2>2, <2>3 DEF RestOfLine
<1>3. n \in 0..(Len(text) - p + 1)
  BY DEF RestOfLine
<1>4. RestOfLine(p, LengthAt(p))
  BY <1>3 DEF RestOfLine, LengthAt
<1>5. n \in Int /\ LengthAt(p) \in Int
  BY <1>1, <1>3, <1>4 DEF RestOfLine
<1>6. ~(n < LengthAt(p)) /\ ~(LengthAt(p) < n)
  BY <1>2, <1>4
<1> QED
  BY <1>5, <1>6

(* What goes to cmd_devmgr() are the non-blank lines of the stream that    *)
(* are not dropped as JSON without the strings: each once, in order, whole *)
(* and without a gap, and all of them when the stream ends without an      *)
(* error.                                                                  *)
THEOREM LinesRunInOrder == Spec => []LinesInOrder
<1>1. PlaceInv /\ ProgressInv /\ RunInv => LinesInOrder
  <2> SUFFICES ASSUME PlaceInv, ProgressInv, RunInv PROVE LinesInOrder
    OBVIOUS
  <2>1. ASSUME NEW i \in DOMAIN executed
        PROVE  executed[i].len = LengthAt(executed[i].from)
    BY LengthIsUnique DEF PlaceInv, RunInv, Commands
  <2> QED
    BY <2>1 DEF LinesInOrder, ProgressInv, RunInv
<1> QED
  BY <1>1, StreamProgress, PTL

(* An empty command is run only for whitespace at the end of the stream,   *)
(* when every command has been run.                                        *)
THEOREM EmptyRunsLast == Spec => []EmptyOnlyAtEnd
<1>1. ProgressInv => EmptyOnlyAtEnd
  BY DEF ProgressInv, EmptyOnlyAtEnd
<1> QED
  BY <1>1, StreamProgress, PTL

(* Behind a command that failed nothing is run, and the caller is told. *)
THEOREM FailureEndsStream == Spec => []StopsAtFailure
<1>1. FailInv => StopsAtFailure
  BY DEF FailInv, StopsAtFailure
<1> QED
  BY <1>1, StreamProgress, PTL
=============================================================================
