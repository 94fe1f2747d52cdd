------------------------------- MODULE LogsProofs ------------------------------
(***************************************************************************)
(* Proofs about Logs: type correctness, and that the last appends nobody     *)
(* disturbed are read back whole and in their order.                         *)
(***************************************************************************)
EXTENDS Logs, SequenceTheorems, TLAPS

-----------------------------------------------------------------------------
(* The end of a sequence *)

\* LastOf keeps the last n elements in their order.
LEMMA LastOfIs ==
    ASSUME NEW S, NEW s \in Seq(S), NEW n \in Nat \ {0}
    PROVE  /\ LastOf(s, n) \in Seq(S)
           /\ Len(LastOf(s, n)) = IF Len(s) <= n THEN Len(s) ELSE n
           /\ \A i \in 1 .. Len(LastOf(s, n)) :
                 LastOf(s, n)[i] = s[Len(s) - Len(LastOf(s, n)) + i]
  <1> DEFINE k == Len(s)
             m == k - n + 1
  <1>1. k \in Nat
    OBVIOUS
  <1>2. CASE k <= n
    BY <1>1, <1>2 DEF LastOf
  <1>3. CASE ~(k <= n)
    <2>1. LastOf(s, n) = SubSeq(s, m, k)
      BY <1>3 DEF LastOf
    <2>2. m \in 1 .. k + 1 /\ k \in m - 1 .. k /\ k - m + 1 = n
      BY <1>1, <1>3
    <2>3. /\ SubSeq(s, m, k) \in Seq(S)
          /\ Len(SubSeq(s, m, k)) = n
          /\ \A i \in 1 .. n : SubSeq(s, m, k)[i] = s[m + i - 1]
      BY <1>1, <1>3, <2>2, SubSeqProperties
    <2>4. \A i \in 1 .. n : m + i - 1 = k - n + i
      BY <1>1
    <2> QED
      BY <1>3, <2>1, <2>3, <2>4
  <1> QED
    BY <1>2, <1>3

\* t is s with e after it, without the first element if there are more than n.
Slid(s, e, t, n) ==
    /\ Len(t) = IF Len(s) < n THEN Len(s) + 1 ELSE n
    /\ t[Len(t)] = e
    /\ \A i \in 1 .. Len(t) - 1 : t[i] = s[Len(s) + 1 - Len(t) + i]

LEMMA TwoParts ==
    ASSUME NEW S, NEW x \in S, NEW y \in S
    PROVE  Len(<<x>>) = 1 /\ Append(<<x>>, y) = <<x, y>>
  <1>1. <<x>> \in Seq(S) /\ Len(<<x>>) = 1 /\ <<x>>[1] = x
    OBVIOUS
  <1>2. <<x, y>> \in Seq(S) /\ Len(<<x, y>>) = 2 /\ <<x, y>>[1] = x /\ <<x, y>>[2] = y
    OBVIOUS
  <1>3. /\ Append(<<x>>, y) \in Seq(S) /\ Len(Append(<<x>>, y)) = 2
        /\ Append(<<x>>, y)[1] = x /\ Append(<<x>>, y)[2] = y
    BY <1>1, AppendProperties
  <1>4. \A i \in 1 .. 2 : Append(<<x>>, y)[i] = <<x, y>>[i]
    BY <1>2, <1>3
  <1> QED
    BY <1>1, <1>2, <1>3, <1>4, SeqEqual

\* After one more element, the last n.
LEMMA LastOfAppend ==
    ASSUME NEW S, NEW s \in Seq(S), NEW e \in S, NEW n \in Nat \ {0}, Len(s) <= n,
           NEW t, t = LastOf(Append(s, e), n)
    PROVE  t \in Seq(S) /\ Len(t) <= n /\ Slid(s, e, t, n)
  <1> DEFINE a == Append(s, e)
  <1>1. a \in Seq(S) /\ Len(a) = Len(s) + 1 /\ Len(s) \in Nat /\ a[Len(s) + 1] = e
        /\ \A i \in 1 .. Len(s) : a[i] = s[i]
    OBVIOUS
  <1>2. t \in Seq(S) /\ Len(t) = IF Len(a) <= n THEN Len(a) ELSE n
    BY <1>1, LastOfIs
  <1>3. \A i \in 1 .. Len(t) : t[i] = a[Len(a) - Len(t) + i]
    <2>1. t = LastOf(a, n)
      OBVIOUS
    <2>2. \A i \in 1 .. Len(LastOf(a, n)) : LastOf(a, n)[i] = a[Len(a) - Len(LastOf(a, n)) + i]
      BY <1>1, LastOfIs
    <2> HIDE DEF a
    <2> QED
      BY ONLY <2>1, <2>2, Zenon
  <1> HIDE DEF a
  <1>4. Len(t) = IF Len(s) < n THEN Len(s) + 1 ELSE n
    BY <1>1, <1>2
  <1>5. t[Len(t)] = e
    <2>1. Len(t) \in 1 .. Len(t) /\ Len(a) - Len(t) + Len(t) = Len(s) + 1
      BY <1>1, <1>4
    <2> QED
      BY <1>1, <1>3, <2>1
  <1>6. ASSUME NEW i \in 1 .. Len(t) - 1
        PROVE  t[i] = s[Len(s) + 1 - Len(t) + i]
    <2> DEFINE j == Len(s) + 1 - Len(t) + i
    <2>1. i \in 1 .. Len(t) /\ j \in 1 .. Len(s)
      BY <1>1, <1>4
    <2>2. Len(a) - Len(t) + i = j
      BY <1>1
    <2>3. t[i] = a[j]
      BY <1>3, <2>1, <2>2
    <2> HIDE DEF j
    <2>4. t[i] = s[j]
      BY <1>1, <2>1, <2>3
    <2> QED
      BY <2>4 DEF j
  <1>7. Slid(s, e, t, n)
    BY ONLY <1>4, <1>5, <1>6, Zenon DEF Slid
  <1>8. Len(t) <= n
    BY <1>1, <1>4
  <1> QED
    BY <1>2, <1>7, <1>8

-----------------------------------------------------------------------------
(* Type correctness *)

Time(n) == [kind |-> "time", entry |-> n]
Text(n) == [kind |-> "text", entry |-> n]

\* The parts of a line are lines, and one more may be appended.
LEMMA LineType ==
    /\ \A p \in Part : <<p>> \in Line
    /\ \A l \in Line, p \in Part : Len(l) < 3 => Append(l, p) \in Line
    /\ <<>> \in Line
    /\ \A n \in Entry : Time(n) \in Part /\ Text(n) \in Part
  <1>1. ASSUME NEW p \in Part
        PROVE  <<p>> \in Line
    <2>1. <<p>> \in Seq(Part) /\ Len(<<p>>) = 1
      OBVIOUS
    <2> QED
      BY <2>1 DEF Line
  <1>2. ASSUME NEW l \in Line, NEW p \in Part, Len(l) < 3
        PROVE  Append(l, p) \in Line
    <2>1. l \in Seq(Part) /\ Len(l) \in Nat
      BY DEF Line
    <2>2. Append(l, p) \in Seq(Part) /\ Len(Append(l, p)) = Len(l) + 1
      BY <2>1
    <2> QED
      BY <1>2, <2>1, <2>2 DEF Line
  <1>3. <<>> \in Line
    <2>1. <<>> \in Seq(Part) /\ Len(<<>>) = 0
      OBVIOUS
    <2> QED
      BY <2>1 DEF Line
  <1>4. \A n \in Entry : Time(n) \in Part /\ Text(n) \in Part
    BY DEF Part, Time, Text
  <1> QED
    BY <1>1, <1>2, <1>3, <1>4

\* The file with one more line, and with a part more.
LEMMA ExtendedType ==
    ASSUME TypeOK, NEW part \in Part
    PROVE  Extended(part) \in Seq(Line) /\ Len(Extended(part)) <= Limit
  <1>1. lines \in Seq(Line) /\ Len(lines) <= Limit /\ Len(lines) \in Nat
    BY DEF TypeOK
  <1>2. CASE ~partial
    <2>1. LastOf(Append(lines, <<part>>), Limit) \in Seq(Line)
          /\ Len(LastOf(Append(lines, <<part>>), Limit)) <= Limit
      BY <1>1, LineType, LastOfAppend, LogsAssumption
    <2> QED
      BY <1>2, <2>1 DEF Extended
  <1>3. CASE partial
    <2> DEFINE l == lines[Len(lines)]
               m == IF Len(l) < 3 THEN Append(l, part) ELSE l
    <2>1. Extended(part) = [lines EXCEPT ![Len(lines)] = m]
      BY <1>3 DEF Extended
    <2>2. Len(lines) # 0 => m \in Line
      <3>1. Len(lines) # 0 => l \in Line
        BY <1>1
      <3> HIDE DEF l
      <3> QED
        BY <3>1, LineType
    <2> HIDE DEF m
    <2>3. \A i \in 1 .. Len(lines) : lines[i] \in Line
      BY <1>1
    <2>4. [lines EXCEPT ![Len(lines)] = m] \in Seq(Line)
          /\ Len([lines EXCEPT ![Len(lines)] = m]) = Len(lines)
      <3>1. CASE Len(lines) = 0
        <4>1. lines = <<>>
          BY <1>1, <3>1
        <4>2. [lines EXCEPT ![Len(lines)] = m] = lines
          BY <1>1, <3>1, <4>1
        <4> QED
          BY <1>1, <4>2
      <3>2. CASE Len(lines) # 0
        BY <1>1, <2>2, <3>2, ExceptSeq
      <3> QED
        BY <3>1, <3>2
    <2> QED
      BY <1>1, <2>1, <2>4
  <1> QED
    BY <1>2, <1>3

\* A line more.
LEMMA NewLineType ==
    ASSUME NEW s \in Seq(Line), Len(s) <= Limit, NEW l \in Line
    PROVE  LastOf(Append(s, l), Limit) \in Seq(Line) /\ Len(LastOf(Append(s, l), Limit)) <= Limit
  BY LastOfAppend, LogsAssumption

\* The numbers of appends.
LEMMA NumberType ==
    ASSUME TypeOK
    PROVE  NextNumber \in Entry /\ 0 \in Entry
  <1>1. Limit \in Nat /\ Limit # 0
    BY LogsAssumption
  <1>2. \A n \in Nat : (n % (Limit + 1)) + 1 \in 1 .. Limit + 1
    BY <1>1
  <1>3. CASE whole = <<>>
    BY <1>1, <1>3 DEF NextNumber, Entry
  <1>4. CASE whole # <<>>
    <2>1. whole[Len(whole)] \in Entry
      BY <1>4 DEF TypeOK
    <2>2. whole[Len(whole)] \in Nat
      BY <1>1, <2>1 DEF Entry
    <2> DEFINE x == whole[Len(whole)]
    <2>3. NextNumber = (x % (Limit + 1)) + 1
      BY <1>4 DEF NextNumber
    <2> HIDE DEF x
    <2>4. NextNumber \in 1 .. Limit + 1
      BY <1>2, <2>2, <2>3 DEF x
    <2> QED
      BY <1>1, <2>4 DEF Entry
  <1> QED
    BY <1>1, <1>3, <1>4 DEF Entry

LEMMA TypeStep == TypeOK /\ [Next]_vars => TypeOK'
  <1> SUFFICES ASSUME TypeOK, [Next]_vars PROVE TypeOK'
    OBVIOUS
  <1>1. /\ lines \in Seq(Line) /\ Len(lines) <= Limit /\ partial \in BOOLEAN
        /\ at \in [Writer -> 0 .. 2] /\ entry \in [Writer -> Entry]
        /\ folded \in [Writer -> BOOLEAN] /\ whole \in Seq(Entry) /\ Len(whole) <= Limit
        /\ alone \in BOOLEAN
    BY DEF TypeOK
  <1>2. <<>> \in Seq(Entry) /\ Len(<<>>) <= Limit
    BY LogsAssumption
  <1>3. ASSUME NEW w \in Writer, Begin(w)
        PROVE  TypeOK'
    <2>1. at' \in [Writer -> 0 .. 2]
      BY <1>1, <1>3 DEF Begin
    <2>2. folded' \in [Writer -> BOOLEAN] /\ alone' \in BOOLEAN
      BY <1>1, <1>3 DEF Begin
    <2>3. entry' \in [Writer -> Entry] /\ entry'[w] \in Entry
      BY <1>1, <1>3, NumberType DEF Begin
    <2>4. whole' \in Seq(Entry) /\ Len(whole') <= Limit
      BY <1>1, <1>2, <1>3 DEF Begin
    <2>5. lines' = Extended(Time(entry'[w])) /\ partial' = TRUE
      BY <1>3 DEF Begin, Time
    <2>6. lines' \in Seq(Line) /\ Len(lines') <= Limit
      BY <2>3, <2>5, LineType, ExtendedType
    <2> QED
      BY <2>1, <2>2, <2>3, <2>4, <2>5, <2>6 DEF TypeOK
  <1>4. ASSUME NEW w \in Writer, WriteText(w)
        PROVE  TypeOK'
    <2> DEFINE part == Text(entry[w])
    <2>1. at' \in [Writer -> 0 .. 2]
      BY <1>1, <1>4 DEF WriteText
    <2>2. part \in Part /\ <<part>> \in Line
      BY <1>1, LineType
    <2>3. lines' = IF folded[w] THEN Extended(part)
                   ELSE LastOf(Append(Extended(part), <<part>>), Limit)
      BY <1>4 DEF WriteText, Text
    <2> HIDE DEF part
    <2>4. lines' \in Seq(Line) /\ Len(lines') <= Limit
      BY <2>2, <2>3, ExtendedType, NewLineType
    <2> QED
      BY <1>1, <1>4, <2>1, <2>4 DEF WriteText, TypeOK
  <1>5. ASSUME NEW w \in Writer, EndLine(w)
        PROVE  TypeOK'
    <2>1. at' \in [Writer -> 0 .. 2]
      BY <1>1, <1>5 DEF EndLine
    <2>2. lines' \in Seq(Line) /\ Len(lines') <= Limit
      BY <1>1, <1>5, LineType, NewLineType DEF EndLine
    <2>3. whole' \in Seq(Entry) /\ Len(whole') <= Limit
      BY <1>1, <1>2, <1>5, LastOfAppend, LogsAssumption DEF EndLine
    <2> QED
      BY <1>1, <1>5, <2>1, <2>2, <2>3 DEF EndLine, TypeOK
  <1>6. ASSUME NEW w \in Writer, Break(w)
        PROVE  TypeOK'
    <2>1. at' \in [Writer -> 0 .. 2]
      BY <1>1, <1>6 DEF Break
    <2> QED
      BY <1>1, <1>2, <1>6, <2>1 DEF Break, TypeOK
  <1>7. CASE UNCHANGED vars
    BY <1>7 DEF vars, TypeOK
  <1> QED
    BY <1>3, <1>4, <1>5, <1>6, <1>7 DEF Next, Write

LEMMA TypeInit == Init => TypeOK
  <1> SUFFICES ASSUME Init PROVE TypeOK
    OBVIOUS
  <1>1. Len(<<>>) <= Limit /\ 0 \in Entry
    BY LogsAssumption DEF Entry
  <1>2. at \in [Writer -> 0 .. 2] /\ entry \in [Writer -> Entry] /\ folded \in [Writer -> BOOLEAN]
    BY <1>1 DEF Init
  <1>3. lines \in Seq(Line) /\ Len(lines) <= Limit /\ whole \in Seq(Entry) /\ Len(whole) <= Limit
    BY <1>1 DEF Init
  <1> QED
    BY <1>2, <1>3 DEF Init, TypeOK

\* Type correctness of Logs: no more lines are kept than read_logs returns.
THEOREM LogsTypeCorrect == SafeSpec => []TypeOK
  BY TypeInit, TypeStep, PTL DEF SafeSpec

-----------------------------------------------------------------------------
(* The last appends *)

\* The line of an append that nobody has disturbed so far counts for one.
Started == IF alone THEN 1 ELSE 0

\* The place in the file of the i-th append in whole; not positive if its line
\* is no longer kept.
PlaceOf(i) == Len(lines) - Started - Len(whole) + i

\* What such an append has written is the last line.
Alone ==
    alone =>
        /\ partial
        /\ Len(lines) # 0
        /\ \E w \in Writer :
              /\ at[w] \in {1, 2}
              /\ folded[w]
              /\ \A v \in Writer \ {w} : at[v] = 0
              /\ lines[Len(lines)] = IF at[w] = 1 THEN <<Time(entry[w])>> ELSE WholeLine(entry[w])

\* While another append is under way the history is empty.
Forgotten == ~alone => whole = <<>> \/ \A w \in Writer : at[w] = 0

\* The lines of the appends in whole stand one after the other at the end, before
\* that of the one under way.
InPlace == \A i \in 1 .. Len(whole) : PlaceOf(i) >= 1 => lines[PlaceOf(i)] = WholeLine(whole[i])

\* Lines go only when the file is full.
Kept == Len(lines) = Limit \/ Len(whole) + Started <= Len(lines)

TailInv == Alone /\ Forgotten /\ InPlace /\ Kept

LEMMA WholeLineIs == \A n : WholeLine(n) = <<Time(n), Text(n)>>
  BY DEF WholeLine, Time, Text

\* The line of an undisturbed append begins with a number.
LEMMA WholeLineParses == \A n \in Entry : Parses(WholeLine(n))
  <1> SUFFICES ASSUME NEW n \in Entry PROVE Parses(WholeLine(n))
    OBVIOUS
  <1> DEFINE l == WholeLine(n)
  <1>1. Time(n) \in Part /\ Text(n) \in Part
    BY LineType
  <1>2. l = <<Time(n), Text(n)>>
    BY WholeLineIs
  <1> HIDE DEF l
  <1>3. Len(l) = 2 /\ l[1] = Time(n) /\ l # <<>>
    BY <1>1, <1>2
  <1>4. l[1].kind = "time"
    BY <1>3 DEF Time
  <1>5. Parses(l)
    BY <1>3, <1>4 DEF Parses
  <1> QED
    BY <1>5 DEF l

LEMMA TailHolds == TypeOK /\ TailInv => TailIntact
  <1> SUFFICES ASSUME TypeOK, TailInv, ~partial
               PROVE  /\ Len(lines) >= Len(whole)
                      /\ \A i \in DOMAIN whole :
                            lines[Len(lines) - Len(whole) + i] = WholeLine(whole[i])
                      /\ Len(whole) = Limit => Readable
    BY DEF TailIntact
  <1>1. /\ Len(lines) \in Nat /\ Len(lines) <= Limit /\ Limit \in Nat
        /\ Len(whole) \in Nat /\ Len(whole) <= Limit
    BY LogsAssumption DEF TypeOK
  <1>0. DOMAIN whole = 1 .. Len(whole) /\ DOMAIN lines = 1 .. Len(lines)
    BY DEF TypeOK
  <1>2. Started = 0
    BY DEF TailInv, Alone, Started
  <1>3. Len(lines) >= Len(whole)
    <2>1. Len(lines) = Limit \/ Len(whole) + Started <= Len(lines)
      BY DEF TailInv, Kept
    <2> DEFINE n == Len(lines)
               k == Len(whole)
    <2>2. n \in Nat /\ k \in Nat /\ k <= Limit /\ (n = Limit \/ k + 0 <= n)
      BY <1>1, <1>2, <2>1
    <2> HIDE DEF n, k
    <2>3. n >= k
      BY <1>1, <2>2
    <2> QED
      BY <2>3 DEF n, k
  <1>4. ASSUME NEW i \in 1 .. Len(whole)
        PROVE  lines[Len(lines) - Len(whole) + i] = WholeLine(whole[i])
    <2>1. PlaceOf(i) = Len(lines) - Len(whole) + i
      BY <1>1, <1>2 DEF PlaceOf
    <2>2. PlaceOf(i) >= 1
      BY <1>1, <1>3, <2>1
    <2>3. lines[PlaceOf(i)] = WholeLine(whole[i])
      BY <2>2 DEF TailInv, InPlace
    <2> QED
      BY <2>1, <2>3
  <1>5. ASSUME Len(whole) = Limit, NEW i \in 1 .. Len(lines)
        PROVE  Parses(lines[i])
    <2>0. Len(lines) = Len(whole)
      <3> DEFINE n == Len(lines)
                 k == Len(whole)
      <3>1. n \in Nat /\ n <= Limit /\ k = Limit /\ n >= k
        BY <1>1, <1>3, <1>5
      <3> HIDE DEF n, k
      <3>2. n = k
        BY <1>1, <3>1
      <3> QED
        BY <3>2 DEF n, k
    <2>1. Len(lines) - Len(whole) + i = i /\ i \in 1 .. Len(whole)
      BY <1>1, <2>0
    <2>2. lines[i] = WholeLine(whole[i])
      BY <1>4, <2>1
    <2>3. whole[i] \in Entry
      BY <2>1 DEF TypeOK
    <2> QED
      BY <2>2, <2>3, WholeLineParses
  <1> QED
    BY <1>0, <1>3, <1>4, <1>5 DEF Readable

\* An append without a trace in the history.
LEMMA Emptied ==
    ASSUME TypeOK', ~alone', whole' = <<>>
    PROVE  TailInv'
  BY DEF TailInv, Alone, Forgotten, InPlace, Kept, Started, TypeOK

\* The first write of an undisturbed append begins a line.
LEMMA TailBegin ==
    ASSUME TypeOK, TypeOK', TailInv, NEW w \in Writer, Begin(w), alone'
    PROVE  TailInv'
  <1> DEFINE e == entry'[w]
             L == Len(lines)
             M == Len(lines')
             k == Len(whole)
  <1>1. /\ lines \in Seq(Line) /\ L \in Nat /\ L <= Limit /\ Limit \in Nat \ {0}
        /\ whole \in Seq(Entry) /\ k \in Nat /\ e \in Entry
    BY LogsAssumption DEF TypeOK
  <1>2. ~partial /\ folded'[w] /\ Undisturbed(w) /\ at' = [at EXCEPT ![w] = 1] /\ whole' = whole
        /\ partial' = TRUE
    BY DEF Begin, TypeOK
  <1>3. at'[w] = 1 /\ \A v \in Writer \ {w} : at'[v] = 0
    BY <1>2 DEF Undisturbed, TypeOK
  <1>4. ~alone
    BY <1>2 DEF TailInv, Alone
  <1>5. Started = 0 /\ Started' = 1
    BY <1>4 DEF Started
  <1>6. lines' = LastOf(Append(lines, <<Time(e)>>), Limit)
    BY <1>2 DEF Begin, Extended, Time
  <1>7. <<Time(e)>> \in Line
    BY <1>1, LineType
  <1>8. /\ M = IF L < Limit THEN L + 1 ELSE Limit
        /\ lines'[M] = <<Time(e)>>
        /\ \A i \in 1 .. M - 1 : lines'[i] = lines[L + 1 - M + i]
    <2>1. lines \in Seq(Line) /\ <<Time(e)>> \in Line /\ Limit \in Nat \ {0} /\ Len(lines) <= Limit
      BY <1>1, <1>7
    <2>2. Slid(lines, <<Time(e)>>, lines', Limit)
      BY <1>6, <2>1, LastOfAppend
    <2> QED
      BY <2>2 DEF Slid
  <1>9. Alone'
    <2>1. M # 0
      BY <1>1, <1>8
    <2> QED
      BY <1>2, <1>3, <1>8, <2>1 DEF Alone
  <1>10. ASSUME NEW i \in 1 .. k, PlaceOf(i)' >= 1
         PROVE  lines'[PlaceOf(i)'] = WholeLine(whole[i])
    <2> DEFINE j == M - 1 - k + i
    <2>1. PlaceOf(i)' = j /\ j \in Int
      BY <1>1, <1>2, <1>5, <1>8 DEF PlaceOf
    <2>2. j \in 1 .. M - 1
      BY <1>1, <1>8, <1>10, <2>1
    <2>3. PlaceOf(i) = L + 1 - M + j /\ PlaceOf(i) >= 1
      <3>1. PlaceOf(i) = L - k + i /\ i \in Int /\ M \in Int
        BY <1>1, <1>5, <1>8 DEF PlaceOf
      <3>2. PlaceOf(i) = L + 1 - M + j
        BY <1>1, <3>1
      <3>3. L + 1 - M >= 0 /\ j >= 1
        BY <1>1, <1>8, <2>2
      <3> HIDE DEF j
      <3> QED
        BY <1>1, <2>1, <3>1, <3>2, <3>3
    <2> HIDE DEF j
    <2>4. lines'[j] = lines[PlaceOf(i)]
      BY <1>8, <2>2, <2>3
    <2> QED
      BY <2>1, <2>3, <2>4 DEF TailInv, InPlace
  <1>11. InPlace'
    BY <1>2, <1>10 DEF InPlace, WholeLine, Time, Text
  <1>12. Kept'
    BY <1>1, <1>2, <1>5, <1>8 DEF TailInv, Kept
  <1>13. Forgotten'
    BY DEF Forgotten
  <1> QED
    BY <1>9, <1>11, <1>12, <1>13 DEF TailInv

\* The second one completes it.
LEMMA TailText ==
    ASSUME TypeOK, TypeOK', TailInv, NEW w \in Writer, WriteText(w), alone
    PROVE  TailInv'
  <1> DEFINE L == Len(lines)
             k == Len(whole)
  <1>1. /\ lines \in Seq(Line) /\ L \in Nat /\ L <= Limit /\ Limit \in Nat \ {0}
        /\ whole \in Seq(Entry) /\ k \in Nat /\ L # 0 /\ partial
    BY LogsAssumption DEF TypeOK, TailInv, Alone
  <1>2. /\ at[w] = 1 /\ folded[w] /\ lines[L] = <<Time(entry[w])>>
        /\ \A v \in Writer \ {w} : at[v] = 0
    <2>1. PICK u \in Writer : /\ at[u] \in {1, 2} /\ folded[u] /\ \A v \in Writer \ {u} : at[v] = 0
                              /\ lines[Len(lines)] = IF at[u] = 1 THEN <<Time(entry[u])>>
                                                                  ELSE WholeLine(entry[u])
      BY DEF TailInv, Alone
    <2>2. at[w] = 1
      BY DEF WriteText
    <2>3. u = w
      BY <2>1, <2>2
    <2> QED
      BY <2>1, <2>2, <2>3
  <1>3. /\ at' = [at EXCEPT ![w] = 2] /\ partial' = TRUE /\ entry' = entry /\ folded' = folded
        /\ whole' = whole /\ alone' = alone
        /\ lines' = Extended(Text(entry[w]))
    BY <1>2 DEF WriteText, Text
  <1>4. at'[w] = 2 /\ \A v \in Writer \ {w} : at'[v] = 0
    BY <1>2, <1>3 DEF TypeOK
  <1>5. lines' = [lines EXCEPT ![L] = WholeLine(entry[w])]
    <2>1. Len(lines[L]) = 1 /\ Append(lines[L], Text(entry[w])) = WholeLine(entry[w])
      <3>1. entry[w] \in Entry
        BY DEF TypeOK
      <3> QED
        BY <1>2, <3>1, LineType, TwoParts, WholeLineIs
    <2> HIDE DEF L
    <2>2. lines' = [lines EXCEPT ![L] = Append(lines[L], Text(entry[w]))]
      BY <1>1, <1>3, <2>1 DEF Extended, L
    <2> QED
      BY <2>1, <2>2 DEF L
  <1>6. Len(lines') = L /\ lines'[L] = WholeLine(entry[w])
        /\ \A i \in 1 .. L - 1 : lines'[i] = lines[i]
    BY <1>1, <1>5
  <1>7. Started = 1 /\ Started' = 1
    BY <1>3 DEF Started
  <1>8. Alone'
    <2>1. lines'[Len(lines')] = WholeLine(entry[w]) /\ Len(lines') # 0
      BY <1>1, <1>6
    <2>2. lines'[Len(lines')] = WholeLine(entry'[w])
      BY <1>3, <2>1
    <2> DEFINE U(v) == /\ at[v] \in {1, 2}
                       /\ folded[v]
                       /\ \A x \in Writer \ {v} : at[x] = 0
                       /\ lines[Len(lines)] = IF at[v] = 1 THEN <<Time(entry[v])>>
                                                             ELSE WholeLine(entry[v])
    <2>3. U(w)'
      BY <1>2, <1>3, <1>4, <2>2 DEF WholeLine, Time, Text
    <2>4. \E v \in Writer : U(v)'
      BY <2>3
    <2> QED
      BY <1>3, <2>1, <2>4 DEF Alone
  <1>9. ASSUME NEW i \in 1 .. k, PlaceOf(i)' >= 1
        PROVE  lines'[PlaceOf(i)'] = WholeLine(whole[i])
    <2>1. PlaceOf(i)' = PlaceOf(i) /\ PlaceOf(i) \in 1 .. L - 1
      BY <1>1, <1>3, <1>6, <1>7, <1>9 DEF PlaceOf
    <2> QED
      BY <1>6, <2>1 DEF TailInv, InPlace
  <1>10. InPlace'
    BY <1>3, <1>9 DEF InPlace, WholeLine, Time, Text
  <1>11. Kept'
    BY <1>3, <1>6, <1>7 DEF TailInv, Kept
  <1>12. Forgotten'
    BY <1>3 DEF Forgotten
  <1> QED
    BY <1>8, <1>10, <1>11, <1>12 DEF TailInv

\* The third one ends the line, and the append is the last in the history.
LEMMA TailEnd ==
    ASSUME TypeOK, TypeOK', TailInv, NEW w \in Writer, EndLine(w), alone
    PROVE  TailInv'
  <1> DEFINE L == Len(lines)
             k == Len(whole)
             m == Len(whole')
             e == entry[w]
  <1>1. /\ lines \in Seq(Line) /\ L \in Nat /\ L <= Limit /\ Limit \in Nat \ {0}
        /\ whole \in Seq(Entry) /\ k \in Nat /\ k <= Limit /\ L # 0 /\ partial /\ e \in Entry
    BY LogsAssumption DEF TypeOK, TailInv, Alone
  <1>2. /\ at[w] = 2 /\ lines[L] = WholeLine(e)
        /\ \A v \in Writer \ {w} : at[v] = 0
    <2>1. PICK u \in Writer : /\ at[u] \in {1, 2} /\ folded[u] /\ \A v \in Writer \ {u} : at[v] = 0
                              /\ lines[Len(lines)] = IF at[u] = 1 THEN <<Time(entry[u])>>
                                                                  ELSE WholeLine(entry[u])
      BY DEF TailInv, Alone
    <2>2. at[w] = 2
      BY DEF EndLine
    <2>3. u = w
      BY <2>1, <2>2
    <2> QED
      BY <2>1, <2>2, <2>3
  <1>3. /\ at' = [at EXCEPT ![w] = 0] /\ lines' = lines /\ alone' = FALSE
        /\ whole' = LastOf(Append(whole, e), Limit)
    BY <1>1 DEF EndLine
  <1>4. \A v \in Writer : at'[v] = 0
    BY <1>2, <1>3 DEF TypeOK
  <1>5. Started = 1 /\ Started' = 0
    BY <1>3 DEF Started
  <1>6. /\ m = IF k < Limit THEN k + 1 ELSE Limit
        /\ whole'[m] = e
        /\ \A i \in 1 .. m - 1 : whole'[i] = whole[k + 1 - m + i]
    <2>1. whole \in Seq(Entry) /\ e \in Entry /\ Limit \in Nat \ {0} /\ Len(whole) <= Limit
      BY <1>1
    <2>2. Slid(whole, e, whole', Limit)
      BY <1>3, <2>1, LastOfAppend
    <2> QED
      BY <2>2 DEF Slid
  <1>7. ASSUME NEW i \in 1 .. m, PlaceOf(i)' >= 1
        PROVE  lines[PlaceOf(i)'] = WholeLine(whole'[i])
    <2>1. PlaceOf(i)' = L - m + i
      BY <1>1, <1>3, <1>5, <1>6 DEF PlaceOf
    <2>2. CASE i = m
      BY <1>1, <1>2, <1>6, <2>1, <2>2
    <2>3. CASE i # m
      <3> DEFINE j == k + 1 - m + i
      <3>1. i \in 1 .. m - 1 /\ j \in 1 .. k
        <4>1. k \in Nat /\ m \in Nat /\ m <= k + 1
          BY <1>1, <1>6
        <4> HIDE DEF k, m
        <4> QED
          BY <4>1, <2>3
      <3>2. PlaceOf(j) = PlaceOf(i)'
        BY <1>1, <1>5, <1>6, <2>1 DEF PlaceOf
      <3> HIDE DEF j
      <3>3. lines[PlaceOf(j)] = WholeLine(whole[j])
        BY <1>7, <3>1, <3>2 DEF TailInv, InPlace
      <3>4. whole'[i] = whole[j]
        BY <1>6, <3>1 DEF j
      <3> QED
        BY <3>2, <3>3, <3>4
    <2> QED
      BY <2>2, <2>3
  <1>8. InPlace'
    BY <1>3, <1>7 DEF InPlace, WholeLine, Time, Text
  <1>9. Kept'
    BY <1>1, <1>3, <1>5, <1>6 DEF TailInv, Kept
  <1>10. Alone' /\ Forgotten'
    BY <1>3, <1>4 DEF Alone, Forgotten
  <1> QED
    BY <1>8, <1>9, <1>10 DEF TailInv

LEMMA TailStep == TypeOK /\ TailInv /\ [Next]_vars => TailInv'
  <1> SUFFICES ASSUME TypeOK, TailInv, [Next]_vars PROVE TailInv'
    OBVIOUS
  <1>1. TypeOK'
    BY TypeStep
  <1>2. ASSUME NEW w \in Writer, Begin(w)
        PROVE  TailInv'
    <2>1. ~alone' => whole' = <<>>
      BY <1>2 DEF Begin
    <2> QED
      BY <1>1, <1>2, <2>1, Emptied, TailBegin
  <1>3. ASSUME NEW w \in Writer, at[w] # 0, ~alone
        PROVE  whole = <<>>
    BY <1>3 DEF TailInv, Forgotten
  <1>4. ASSUME NEW w \in Writer, WriteText(w)
        PROVE  TailInv'
    <2>1. CASE alone
      BY <1>1, <1>4, <2>1, TailText
    <2>2. CASE ~alone
      <3>1. whole' = <<>> /\ ~alone'
        BY <1>3, <1>4, <2>2 DEF WriteText
      <3> QED
        BY <1>1, <3>1, Emptied
    <2> QED
      BY <2>1, <2>2
  <1>5. ASSUME NEW w \in Writer, EndLine(w)
        PROVE  TailInv'
    <2>1. CASE alone
      BY <1>1, <1>5, <2>1, TailEnd
    <2>2. CASE ~alone
      <3>1. whole' = <<>> /\ ~alone'
        BY <1>5, <2>2 DEF EndLine
      <3> QED
        BY <1>1, <3>1, Emptied
    <2> QED
      BY <2>1, <2>2
  <1>6. ASSUME NEW w \in Writer, Break(w)
        PROVE  TailInv'
    <2>1. whole' = <<>> /\ ~alone'
      BY <1>6 DEF Break
    <2> QED
      BY <1>1, <2>1, Emptied
  <1>7. CASE UNCHANGED vars
    BY <1>7 DEF vars, TailInv, Alone, Forgotten, InPlace, Kept, PlaceOf, Started, WholeLine, Time, Text
  <1> QED
    BY <1>2, <1>4, <1>5, <1>6, <1>7 DEF Next, Write

LEMMA TailInit == Init => TailInv
  BY DEF Init, TailInv, Alone, Forgotten, InPlace, Kept, Started

\* TailIntact: the last appends that nobody disturbed are the last lines of the file,
\* whole and in their order, whatever fragments stand before them, and are what
\* read_logs answers once there are as many as it reads, for any number of those.
THEOREM UndisturbedIsIntact == SafeSpec => []TailIntact
  BY TypeInit, TypeStep, TailInit, TailStep, TailHolds, PTL DEF SafeSpec

=============================================================================
