---------------------------------- MODULE Logs ----------------------------------
(***************************************************************************)
(* One log file of logstore.rs.  The daemon and qddnsctl append to it        *)
(* without a lock: writeln! makes a write of its own for every part of a     *)
(* line, so that appends interleave and a writer that is killed or meets a   *)
(* full disk leaves part of a line.  The file is kept as its lines, the last  *)
(* of which may lack its end; of a line, three parts at most are kept, and of *)
(* the lines those read_logs looks at.                                       *)
(***************************************************************************)
EXTENDS Naturals, Sequences

CONSTANTS
    Daemon, Other,  \* the writers: the daemon, and qddnsctl, one after the other
    Limit           \* lines read_logs returns

ASSUME LogsAssumption ==
    /\ Daemon # Other
    /\ Limit \in Nat \ {0}

Writer == {Daemon, Other}
Entry == 0 .. Limit + 1  \* 0, or the number of an append that is whole so far

\* An append writes the timestamp; level, scope and message; the end of the line.
\* A message of several lines ends lines of its own.

VARIABLES
    lines,   \* the lines
    partial, \* the last one lacks its end
    at,      \* writes of the append of each writer so far; 0 if there is none
    entry,   \* its number
    folded,  \* whether its message has one line
    whole,   \* history: the last appends made from the start of a line, with no
             \* other write between theirs, and a message of one line
    alone    \* history: so far, such an append is under way

vars == <<lines, partial, at, entry, folded, whole, alone>>

Part == [kind : {"time", "text"}, entry : Entry]
Line == {l \in Seq(Part) : Len(l) <= 3}

TypeOK ==
    /\ lines \in Seq(Line) /\ Len(lines) <= Limit
    /\ partial \in BOOLEAN
    /\ at \in [Writer -> 0 .. 2]
    /\ entry \in [Writer -> Entry]
    /\ folded \in [Writer -> BOOLEAN]
    /\ whole \in Seq(Entry) /\ Len(whole) <= Limit
    /\ alone \in BOOLEAN

\* There is no file yet.
Init ==
    /\ lines = <<>> /\ partial = FALSE
    /\ at = [w \in Writer |-> 0]
    /\ entry = [w \in Writer |-> 0]
    /\ folded = [w \in Writer |-> TRUE]
    /\ whole = <<>> /\ alone = FALSE

-----------------------------------------------------------------------------
(* The file *)

LastOf(s, n) == IF Len(s) <= n THEN s ELSE SubSeq(s, Len(s) - n + 1, Len(s))

\* Faulty variant: the file is truncated when it is opened.
ExtendedAnew(part) ==
    IF ~partial THEN <<<<part>>>>
    ELSE [lines EXCEPT ![Len(lines)] = IF Len(@) < 3 THEN Append(@, part) ELSE @]

\* A part of a line is written: at the end of the last line, or as a new one.
Extended(part) ==
    IF ~partial THEN LastOf(Append(lines, <<part>>), Limit)
    ELSE [lines EXCEPT ![Len(lines)] = IF Len(@) < 3 THEN Append(@, part) ELSE @]

\* A line must begin with a number.  Two timestamps are still one, of twenty
\* digits; three do not fit into a u64.
Parses(line) ==
    /\ line # <<>> /\ line[1].kind = "time"
    /\ Len(line) = 3 => line[2].kind = "text" \/ line[3].kind = "text"

\* read_logs answers the last lines, one without an end included, or an error.
Readable == \A i \in DOMAIN lines : Parses(lines[i])

-----------------------------------------------------------------------------
(* append_log *)

\* Other writers: no append of theirs is under way.
Undisturbed(w) == \A v \in Writer \ {w} : at[v] = 0

NextNumber == IF whole = <<>> THEN 1 ELSE (whole[Len(whole)] % (Limit + 1)) + 1

\* Faulty variant: the timestamp is not written first.
BeginWithText(w) ==
    /\ at[w] = 0
    /\ at' = [at EXCEPT ![w] = 1]
    /\ folded' \in {[folded EXCEPT ![w] = f] : f \in BOOLEAN}
    /\ alone' = FALSE /\ whole' = <<>>
    /\ lines' = Extended([kind |-> "text", entry |-> 0])
    /\ partial' = TRUE
    /\ UNCHANGED entry

\* The directory is made, the file is opened, and the timestamp is written.
Begin(w) ==
    /\ at[w] = 0
    /\ at' = [at EXCEPT ![w] = 1]
    /\ \E f \in BOOLEAN :
          /\ folded' = [folded EXCEPT ![w] = f]
          /\ alone' = (f /\ ~partial /\ Undisturbed(w))
    /\ whole' = IF alone' THEN whole ELSE <<>>
    /\ entry' = [entry EXCEPT ![w] = IF alone' THEN NextNumber ELSE 0]
    /\ lines' = Extended([kind |-> "time", entry |-> entry'[w]])
    /\ partial' = TRUE

\* Level, scope and message.  What follows a line break in the message is text
\* at the start of a line.
WriteText(w) ==
    /\ at[w] = 1
    /\ at' = [at EXCEPT ![w] = 2]
    /\ LET part == [kind |-> "text", entry |-> entry[w]] IN
       lines' = IF folded[w] THEN Extended(part)
                ELSE LastOf(Append(Extended(part), <<part>>), Limit)
    /\ partial' = TRUE
    /\ UNCHANGED <<entry, folded, whole, alone>>

\* Faulty variant: the writer does not notice that the entry is complete.
EndLineAgain(w) ==
    /\ at[w] = 2
    /\ at' = [at EXCEPT ![w] = 3]
    /\ lines' = IF partial THEN lines ELSE LastOf(Append(lines, <<>>), Limit)
    /\ partial' = FALSE
    /\ alone' = FALSE
    /\ whole' = IF alone THEN LastOf(Append(whole, entry[w]), Limit) ELSE <<>>
    /\ UNCHANGED <<entry, folded>>

\* Where another append has just ended the line, this makes an empty one.
EndLine(w) ==
    /\ at[w] = 2
    /\ at' = [at EXCEPT ![w] = 0]
    /\ lines' = IF partial THEN lines ELSE LastOf(Append(lines, <<>>), Limit)
    /\ partial' = FALSE
    /\ alone' = FALSE
    /\ whole' = IF alone THEN LastOf(Append(whole, entry[w]), Limit) ELSE <<>>
    /\ UNCHANGED <<entry, folded>>

\* The writer is killed, or a write fails and append_log answers the error.
Break(w) ==
    /\ at[w] # 0
    /\ at' = [at EXCEPT ![w] = 0]
    /\ alone' = FALSE
    /\ whole' = <<>>
    /\ UNCHANGED <<lines, partial, entry, folded>>

Write(w) == Begin(w) \/ WriteText(w) \/ EndLine(w)
Next == \E w \in Writer : Write(w) \/ Break(w)

\* The daemon goes on checking its rules and logs every result.
Fairness == WF_vars(Write(Daemon))

SafeSpec == Init /\ [][Next]_vars
Spec == SafeSpec /\ Fairness

-----------------------------------------------------------------------------
(* Properties *)

\* The line an append makes that nobody disturbs.
WholeLine(n) == <<[kind |-> "time", entry |-> n], [kind |-> "text", entry |-> n]>>

\* Fragments cost no entry that was appended after them: the appends of whole, the
\* last ones that nobody disturbed, stand in their order as the last lines of the
\* file, each a whole line, whatever fragments stand before them.  While a fragment
\* is among the last Limit lines read_logs may still answer an error; once there are
\* Limit such appends there is none left, and they are what it answers.
TailIntact ==
    ~partial =>
        /\ Len(lines) >= Len(whole)
        /\ \A i \in DOMAIN whole :
              lines[Len(lines) - Len(whole) + i] = WholeLine(whole[i])
        /\ Len(whole) = Limit => Readable

\* A log that cannot be read heals: once only the daemon writes, is not killed
\* in the middle of a line, and has messages of one line, it becomes readable
\* and stays so.
Quiet == at[Other] = 0 /\ folded[Daemon]
Heals == <>[][Quiet /\ Quiet' /\ ~Break(Daemon)]_vars => <>[]Readable

\* What is appended can be read back (the test append_and_read_logs_roundtrip):
\* no append makes a log unreadable.
StaysReadable == [][Readable => Readable']_vars
=============================================================================
