--------------------------- MODULE LogReaderProofs ---------------------------
(* The safety properties of LogReader, for any number of units, rotations and *)
(* truncations, any parsers and any limit of empty reads.                     *)
(*                                                                            *)
(* OwedIsAhead needs to know that the reader has no file while it looks for   *)
(* one, and that nothing is owed outside the buffer from the empty read after *)
(* which it reopens until it has positioned itself in the file it has opened  *)
(* (Opening).                                                                 *)
(*                                                                            *)
(* InOrderOnce needs the order of the units (InOrder): what the parser has    *)
(* taken comes before what is in the buffer, that before what lies ahead in   *)
(* the open file, and that before what is written next.  A file the reader    *)
(* has not yet positioned itself in may hold units of any age: it seeks to    *)
(* the end of it before it reads.                                             *)
EXTENDS LogReader, WellFoundedInduction, TLAPS

Increasing(s) == \A i, j \in DOMAIN s : i < j => s[i] < s[j]

LogTypes ==
    /\ disk \in Seq(Seq(Nat)) /\ live \in 0..Len(disk) /\ writer \in 1..Len(disk)
    /\ written \in Nat /\ file \in 0..Len(disk) /\ offset \in Nat
    /\ buffer \in Seq(Nat) /\ last \in Nat

Opening ==
    /\ pc \in {"new", "find", "open"} => file = NoFile
    /\ pc = "seek" => file # NoFile
    /\ pc \in {"reopen", "seek"} => owed \subseteq Range(buffer)

\* The units of a file are in the order of writing.
FileInOrder(s, n) == Increasing(s) /\ \A k \in DOMAIN s : s[k] <= n

BufferInOrder ==
    /\ Increasing(buffer) /\ last <= written
    /\ \A i \in DOMAIN buffer : last < buffer[i] /\ buffer[i] <= written

AheadInOrder ==
    file # NoFile /\ pc # "seek" =>
        \A k \in offset + 1..Len(disk[file]) :
            /\ last < disk[file][k]
            /\ \A i \in DOMAIN buffer : buffer[i] < disk[file][k]

InOrder ==
    /\ \A f \in 1..Len(disk) : FileInOrder(disk[f], written)
    /\ BufferInOrder /\ AheadInOrder

LogInv == LogTypes /\ Opening /\ OwedIsAhead /\ InOrder

-----------------------------------------------------------------------------
(* Sequences                                                                  *)

LEMMA SeqFacts ==
    ASSUME NEW S, NEW s \in Seq(S)
    PROVE  /\ Len(s) \in Nat /\ DOMAIN s = 1..Len(s)
           /\ \A i \in 1..Len(s) : s[i] \in S
           /\ s = <<>> <=> Len(s) = 0
OBVIOUS

LEMMA SliceFacts ==
    ASSUME NEW s \in Seq(Nat), NEW n \in 0..Len(s), NEW m \in 0..n
    PROVE  /\ SubSeq(s, m + 1, n) \in Seq(Nat) /\ Len(SubSeq(s, m + 1, n)) = n - m
           /\ \A i \in 1..(n - m) : SubSeq(s, m + 1, n)[i] = s[i + m]
OBVIOUS

LEMMA RestFacts ==
    ASSUME NEW s \in Seq(Nat), NEW n \in 0..Len(s)
    PROVE  /\ SubSeq(s, n + 1, Len(s)) \in Seq(Nat)
           /\ DOMAIN SubSeq(s, n + 1, Len(s)) = 1..(Len(s) - n)
           /\ \A i \in 1..(Len(s) - n) : SubSeq(s, n + 1, Len(s))[i] = s[i + n]
OBVIOUS

LEMMA PrefixFacts ==
    ASSUME NEW S, NEW s \in Seq(S), NEW n \in 0..Len(s)
    PROVE  /\ SubSeq(s, 1, n) \in Seq(S) /\ Len(SubSeq(s, 1, n)) = n
           /\ \A i \in 1..n : SubSeq(s, 1, n)[i] = s[i]
OBVIOUS

LEMMA ConcatFacts ==
    ASSUME NEW S, NEW s \in Seq(S), NEW t \in Seq(S)
    PROVE  /\ s \o t \in Seq(S) /\ Len(s \o t) = Len(s) + Len(t)
           /\ DOMAIN (s \o t) = 1..(Len(s) + Len(t))
           /\ \A i \in 1..Len(s) : (s \o t)[i] = s[i]
           /\ \A i \in 1..Len(t) : (s \o t)[Len(s) + i] = t[i]
OBVIOUS

-----------------------------------------------------------------------------
(* What is owed and lies ahead                                                *)

LEMMA FileFacts ==
    ASSUME LogTypes, NEW f \in 1..Len(disk)
    PROVE  /\ disk[f] \in Seq(Nat) /\ Len(disk[f]) \in Nat /\ DOMAIN disk[f] = 1..Len(disk[f])
           /\ \A k \in 1..Len(disk[f]) : disk[f][k] \in Nat
<1>1. disk[f] \in Seq(Nat)
  BY SeqFacts, Zenon DEF LogTypes
<1> QED BY <1>1, SeqFacts, Zenon

\* A file that is open is one of those on the disk.
LEMMA OpenFacts ==
    ASSUME LogTypes, file # NoFile
    PROVE  file \in 1..Len(disk)
BY SeqFacts DEF LogTypes, NoFile

Holds(unit) == file # NoFile /\ \E k \in 1..Len(disk[file]) : k > offset /\ disk[file][k] = unit

OwedHeld == pc # "stopped" => \A unit \in owed : unit \in Range(buffer) \/ Holds(unit)

LEMMA OwedLemma ==
    ASSUME LogTypes
    PROVE  OwedIsAhead <=> OwedHeld
<1>1. CASE file = NoFile
  <2>1. offset + 1..Len(Contents(file)) = {}
    BY <1>1 DEF Contents, LogTypes
  <2> QED BY <1>1, <2>1, Zenon DEF OwedIsAhead, OwedHeld, Holds
<1>2. CASE file # NoFile
  <2>1. Len(disk[file]) \in Nat /\ offset \in Nat
    BY <1>2, OpenFacts, FileFacts, Zenon DEF LogTypes
  <2>2. \A k : k \in offset + 1..Len(disk[file]) <=> k \in 1..Len(disk[file]) /\ k > offset
    BY <2>1
  <2> QED BY <1>2, <2>2, Zenon DEF OwedIsAhead, OwedHeld, Holds, Contents
<1> QED BY <1>1, <1>2, Zenon

\* With nothing ahead of the reader, all that is owed is in the buffer.
LEMMA NothingAhead ==
    ASSUME LogInv, pc # "stopped",
           file = NoFile \/ pc = "seek" \/ offset >= Len(disk[file])
    PROVE  owed \subseteq Range(buffer)
<1>1. OwedHeld
  BY OwedLemma, Zenon DEF LogInv
<1>2. ASSUME NEW unit, file = NoFile \/ offset >= Len(disk[file]), Holds(unit)
      PROVE  FALSE
  <2>1. file # NoFile /\ \E k \in 1..Len(disk[file]) : k > offset
    BY <1>2, Zenon DEF Holds
  <2>2. Len(disk[file]) \in Nat /\ offset \in Nat
    BY <2>1, OpenFacts, FileFacts, Zenon DEF LogTypes, LogInv
  <2> QED BY <1>2, <2>1, <2>2
<1> QED BY <1>1, <1>2, Zenon DEF OwedHeld, LogInv, Opening

\* The reader changes its file or its position, and nothing is taken.
LEMMA ReaderMoves ==
    ASSUME LogInv, UNCHANGED <<disk, live, writer, written, buffer, owed, last>>,
           file' \in 0..Len(disk), offset' \in Nat, Opening',
           \/ UNCHANGED <<file, offset>> /\ pc # "seek" /\ pc # "stopped"
           \/ /\ owed \subseteq Range(buffer) \/ pc' = "stopped"
              /\ file' = NoFile \/ pc' = "seek" \/ offset' = Len(disk[file'])
    PROVE  LogInv'
<1>1. LogTypes'
  BY Zenon DEF LogInv, LogTypes
<1>2. OwedHeld'
  <2>1. OwedHeld
    BY OwedLemma, Zenon DEF LogInv
  <2> QED BY <2>1, Zenon DEF OwedHeld, Holds
<1>3. AheadInOrder'
  <2>1. CASE UNCHANGED <<file, offset>> /\ pc # "seek"
    BY <2>1, Zenon DEF LogInv, InOrder, AheadInOrder
  <2>2. CASE file' = NoFile \/ pc' = "seek" \/ offset' = Len(disk[file'])
    <3> SUFFICES ASSUME file' # NoFile, pc' # "seek" PROVE AheadInOrder'
      BY Zenon DEF AheadInOrder
    <3>1. Len(disk'[file']) \in Nat
      BY <1>1, OpenFacts, FileFacts DEF LogTypes, NoFile
    <3>2. offset' + 1..Len(disk'[file']) = {}
      BY <2>2, <3>1
    <3> QED BY <3>2, Zenon DEF AheadInOrder
  <2> QED BY <2>1, <2>2, Zenon
<1>4. BufferInOrder' /\ \A f \in 1..Len(disk') : FileInOrder(disk'[f], written')
  BY Zenon DEF LogInv, InOrder, BufferInOrder
<1>5. OwedIsAhead'
  BY <1>1, <1>2, OwedLemma, PTL
<1> QED BY <1>1, <1>3, <1>4, <1>5, Zenon DEF LogInv, InOrder

-----------------------------------------------------------------------------
(* The parser takes the beginning of the buffer                               *)

LEMMA TakesEffect ==
    ASSUME LogTypes, NEW n \in 1..Len(buffer), NEW piece \in Seq(Nat), Len(piece) = n,
           \A i \in 1..n : piece[i] = buffer[i], Takes(piece)
    PROVE  /\ buffer' \in Seq(Nat) /\ DOMAIN buffer' = 1..(Len(buffer) - n)
           /\ \A i \in 1..(Len(buffer) - n) : buffer'[i] = buffer[i + n]
           /\ last' = buffer[n] /\ last' \in Nat /\ pc' \in {"idle", "read"}
           /\ owed' \subseteq owed
           /\ \A unit \in owed' : unit \in Range(buffer) => unit \in Range(buffer')
<1>1. /\ Len(buffer) \in Nat /\ DOMAIN buffer = 1..Len(buffer) /\ DOMAIN piece = 1..n
      /\ \A i \in 1..Len(buffer) : buffer[i] \in Nat
  BY SeqFacts, Zenon DEF LogTypes
<1>2. n \in 0..Len(buffer) /\ Len(buffer) \in 0..Len(buffer)
  BY <1>1
<1>3. buffer' = SubSeq(buffer, n + 1, Len(buffer))
  BY Zenon DEF Takes
<1>4. /\ buffer' \in Seq(Nat) /\ DOMAIN buffer' = 1..(Len(buffer) - n)
      /\ \A i \in 1..(Len(buffer) - n) : buffer'[i] = buffer[i + n]
  <2>1. buffer \in Seq(Nat)
    BY Zenon DEF LogTypes
  <2> QED BY <1>2, <1>3, <2>1, RestFacts, Zenon
<1>5. last' = buffer[n] /\ last' \in Nat /\ pc' \in {"idle", "read"}
  BY <1>1 DEF Takes
<1>6. owed' = owed \ Range(piece)
  BY Zenon DEF Takes
<1>7. ASSUME NEW unit, unit \notin Range(piece), unit \in Range(buffer)
      PROVE  unit \in Range(buffer')
  <2>1. PICK k \in 1..Len(buffer) : buffer[k] = unit
    BY <1>1, <1>7, Zenon DEF Range
  <2>2. k \notin 1..n
    BY <1>1, <1>7, <2>1, Zenon DEF Range
  <2>3. k - n \in 1..(Len(buffer) - n) /\ (k - n) + n = k
    BY <1>1, <2>2
  <2> QED BY <1>4, <2>1, <2>3, Zenon DEF Range
<1> QED BY <1>4, <1>5, <1>6, <1>7, Zenon

\* What is left in the buffer comes after what is taken.
LEMMA TakesOrder ==
    ASSUME LogInv, NEW n \in 1..Len(buffer), written' = written, last' = buffer[n],
           DOMAIN buffer' = 1..(Len(buffer) - n),
           \A i \in 1..(Len(buffer) - n) : buffer'[i] = buffer[i + n]
    PROVE  BufferInOrder' /\ last' > last
<1>1. /\ Len(buffer) \in Nat /\ DOMAIN buffer = 1..Len(buffer) /\ last \in Nat /\ written \in Nat
      /\ \A i \in 1..Len(buffer) : buffer[i] \in Nat
  BY SeqFacts, Zenon DEF LogInv, LogTypes
<1>2. /\ \A i, j \in 1..Len(buffer) : i < j => buffer[i] < buffer[j]
      /\ \A i \in 1..Len(buffer) : last < buffer[i] /\ buffer[i] <= written
  BY <1>1, Zenon DEF LogInv, InOrder, BufferInOrder, Increasing
<1>3. ASSUME NEW i \in 1..(Len(buffer) - n)
      PROVE  i + n \in 1..Len(buffer) /\ n < i + n
  BY <1>1
<1>4. last' > last /\ last' <= written'
  BY <1>1, <1>2
<1>5. \A i \in DOMAIN buffer' : last' < buffer'[i] /\ buffer'[i] <= written'
  BY <1>2, <1>3, Zenon
<1>6. ASSUME NEW i \in DOMAIN buffer', NEW j \in DOMAIN buffer', i < j
      PROVE  buffer'[i] < buffer'[j]
  <2>1. i + n < j + n
    BY <1>1, <1>6
  <2> QED BY <1>2, <1>3, <2>1, Zenon
<1> QED BY <1>4, <1>5, <1>6, Zenon DEF BufferInOrder, Increasing

LEMMA TakesStep ==
    ASSUME LogInv, pc # "stopped", UNCHANGED <<disk, live, writer, written, file>>,
           NEW n \in 1..Len(buffer), NEW piece \in Seq(Nat), Len(piece) = n,
           \A i \in 1..n : piece[i] = buffer[i], Takes(piece),
           \/ offset' = offset /\ pc # "seek"
           \/ file # NoFile /\ offset' = Len(disk[file]) /\ owed \subseteq Range(buffer)
    PROVE  LogInv'
<1>1. LogTypes
  BY Zenon DEF LogInv
<1>2. /\ buffer' \in Seq(Nat) /\ DOMAIN buffer' = 1..(Len(buffer) - n)
      /\ \A i \in 1..(Len(buffer) - n) : buffer'[i] = buffer[i + n]
      /\ last' = buffer[n] /\ last' \in Nat /\ pc' \in {"idle", "read"}
      /\ owed' \subseteq owed
      /\ \A unit \in owed' : unit \in Range(buffer) => unit \in Range(buffer')
  BY <1>1, TakesEffect, Zenon
<1>3. BufferInOrder' /\ last' > last
  BY <1>2, TakesOrder, Zenon
<1>4. file # NoFile => Len(disk[file]) \in Nat
  BY <1>1, OpenFacts, FileFacts, Zenon
<1>5. LogTypes'
  BY <1>1, <1>2, <1>4, Zenon DEF LogTypes
<1>6. Opening'
  BY <1>2 DEF Opening
<1>7. OwedHeld'
  <2>1. OwedHeld
    BY <1>1, OwedLemma, Zenon DEF LogInv
  <2> QED BY <1>2, <2>1, Zenon DEF OwedHeld, Holds
<1>8. AheadInOrder'
  <2>1. CASE offset' = offset /\ pc # "seek"
    <3> SUFFICES ASSUME file # NoFile, NEW k \in offset + 1..Len(disk[file])
                 PROVE  /\ last' < disk[file][k]
                        /\ \A i \in DOMAIN buffer' : buffer'[i] < disk[file][k]
      BY <2>1, Zenon DEF AheadInOrder
    <3>1. Len(buffer) \in Nat /\ DOMAIN buffer = 1..Len(buffer)
      BY <1>1, SeqFacts, Zenon DEF LogTypes
    <3>2. \A i \in 1..Len(buffer) : buffer[i] < disk[file][k]
      BY <2>1, <3>1, Zenon DEF LogInv, InOrder, AheadInOrder
    <3>3. \A i \in 1..(Len(buffer) - n) : i + n \in 1..Len(buffer)
      BY <3>1
    <3> QED BY <1>2, <3>2, <3>3, Zenon
  <2>2. CASE file # NoFile /\ offset' = Len(disk[file])
    <3>1. offset' + 1..Len(disk[file]) = {}
      BY <1>4, <2>2
    <3> QED BY <3>1, Zenon DEF AheadInOrder
  <2> QED BY <2>1, <2>2, Zenon
<1>9. \A f \in 1..Len(disk') : FileInOrder(disk'[f], written')
  BY Zenon DEF LogInv, InOrder
<1>10. OwedIsAhead'
  BY <1>5, <1>7, OwedLemma, PTL
<1> QED BY <1>3, <1>5, <1>6, <1>8, <1>9, <1>10, Zenon DEF LogInv, InOrder

LEMMA EndOfFileStep ==
    ASSUME LogInv, pc # "stopped", UNCHANGED <<disk, live, writer, written, file>>,
           file # NoFile, owed \subseteq Range(buffer), EndOfFile,
           offset' = Len(disk[file]) \/ (offset' = offset /\ pc # "seek")
    PROVE  LogInv'
<1>1. LogTypes
  BY Zenon DEF LogInv
<1>2. CASE buffer = <<>>
  <2>1. pc' = "idle" /\ UNCHANGED <<buffer, owed, last>>
    BY <1>2, Zenon DEF EndOfFile
  <2>2. Opening'
    BY <2>1 DEF Opening
  <2>3. offset' \in Nat /\ file' \in 0..Len(disk)
    BY <1>1, OpenFacts, FileFacts, Zenon DEF LogTypes
  <2> QED BY <2>1, <2>2, <2>3, ReaderMoves, Zenon
<1>3. CASE buffer # <<>>
  <2>1. Takes(buffer)
    BY <1>3, Zenon DEF EndOfFile
  <2>2. buffer \in Seq(Nat) /\ Len(buffer) \in 1..Len(buffer)
    BY <1>1, <1>3, SeqFacts DEF LogTypes
  <2> QED BY <2>1, <2>2, TakesStep, Zenon
<1> QED BY <1>2, <1>3, Zenon

-----------------------------------------------------------------------------
(* The application and the rotation of its log                                *)

Units(n, c) == [k \in 1..c |-> n + k]
Grown(s, n, c) == s \o Units(n, c)

LEMMA UnitsFacts ==
    ASSUME NEW s \in Seq(Nat), NEW n \in Nat, NEW c \in Nat
    PROVE  /\ Grown(s, n, c) \in Seq(Nat) /\ Len(Grown(s, n, c)) = Len(s) + c
           /\ \A k \in 1..Len(s) : Grown(s, n, c)[k] = s[k]
           /\ \A k \in 1..c : Grown(s, n, c)[Len(s) + k] = n + k
<1> DEFINE u == Units(n, c)
           t == s \o u
<1>1. u \in Seq(Nat) /\ Len(u) = c /\ \A k \in 1..c : u[k] = n + k
  <2>1. u \in [1..c -> Nat] /\ \A k \in 1..c : u[k] = n + k
    BY DEF Units
  <2> HIDE DEF u
  <2>2. u \in Seq(Nat) /\ Len(u) = c
    BY <2>1
  <2> QED BY <2>1, <2>2, Zenon
<1> HIDE DEF u
<1>2. /\ t \in Seq(Nat) /\ Len(t) = Len(s) + Len(u)
      /\ \A k \in 1..Len(s) : t[k] = s[k]
      /\ \A k \in 1..Len(u) : t[Len(s) + k] = u[k]
  <2>1. u \in Seq(Nat)
    BY <1>1, Zenon
  <2> QED BY <2>1
<1>3. Grown(s, n, c) = t
  BY DEF Grown, u
<1> HIDE DEF t
<1> QED BY <1>1, <1>2, <1>3, Zenon

LEMMA Arithmetic ==
    /\ \A m, n, c \in Nat : m <= n => m <= n + c
    /\ \A n, c \in Nat : \A k \in 1..n : ~ (k > n)
    /\ \A n, c \in Nat : \A k \in 1..(n + c) :
          k \in 1..n \/ (k - n \in 1..c /\ k > n)
OBVIOUS

\* New units go behind the ones of the file, and are later than they.
LEMMA Appended ==
    ASSUME NEW s \in Seq(Nat), NEW n \in Nat, NEW c \in Nat, FileInOrder(s, n),
           NEW t \in Seq(Nat), Len(t) = Len(s) + c,
           \A i \in 1..Len(s) : t[i] = s[i],
           \A i \in 1..c : t[Len(s) + i] = n + i
    PROVE  /\ FileInOrder(t, n + c)
           /\ \A k \in 1..Len(t) : k > Len(s) => t[k] > n
           /\ \A unit \in Range(Units(n, c)) :
                \E k \in 1..Len(t) : k > Len(s) /\ t[k] = unit
<1>1. /\ Len(s) \in Nat /\ DOMAIN s = 1..Len(s) /\ \A i \in 1..Len(s) : s[i] \in Nat
  BY SeqFacts, Zenon
<1>2. DOMAIN Units(n, c) = 1..c /\ \A i \in 1..c : Units(n, c)[i] = n + i
  BY Zenon DEF Units
<1>3. Len(t) = Len(s) + c /\ DOMAIN t = 1..(Len(s) + c)
  BY SeqFacts, Zenon
<1>4. \A k \in 1..(Len(s) + c) : k \in 1..Len(s) \/ (k - Len(s) \in 1..c /\ k > Len(s))
  BY <1>1, Arithmetic, Zenon
<1>5. \A k \in 1..(Len(s) + c) : k > Len(s) => t[k] = n + (k - Len(s))
  <2> TAKE k \in 1..(Len(s) + c)
  <2> HAVE k > Len(s)
  <2>1. k - Len(s) \in 1..c /\ Len(s) + (k - Len(s)) = k
    BY <1>1
  <2> QED BY <1>3, <2>1, Zenon
<1>6. /\ \A i, j \in 1..Len(s) : i < j => s[i] < s[j]
      /\ \A i \in 1..Len(s) : s[i] <= n
  BY <1>1, Zenon DEF FileInOrder, Increasing
<1>7. ASSUME NEW k \in 1..(Len(s) + c)
      PROVE  t[k] <= n + c /\ (k > Len(s) => t[k] > n)
  <2>1. CASE k \in 1..Len(s)
    <3>1. t[k] = s[k] /\ s[k] <= n /\ s[k] \in Nat /\ Len(s) \in Nat
      BY <1>1, <1>3, <1>6, <2>1, Zenon
    <3> QED BY <2>1, <3>1, Arithmetic, Zenon
  <2>2. CASE k > Len(s)
    <3>1. t[k] = n + (k - Len(s)) /\ Len(s) \in Nat
      BY <1>1, <1>5, <2>2, Zenon
    <3> QED BY <2>2, <3>1
  <2> QED BY <1>4, <2>1, <2>2, Zenon
<1>8. ASSUME NEW i \in 1..(Len(s) + c), NEW j \in 1..(Len(s) + c), i < j
      PROVE  t[i] < t[j]
  <2>1. CASE j \in 1..Len(s)
    <3>1. i \in 1..Len(s)
      BY <1>8, <2>1
    <3> QED BY <1>3, <1>6, <1>8, <2>1, <3>1, Zenon
  <2>2. CASE i \in 1..Len(s) /\ j > Len(s)
    <3>1. t[i] = s[i] /\ s[i] <= n /\ s[i] \in Nat /\ t[j] = n + (j - Len(s))
      BY <1>1, <1>3, <1>5, <1>6, <2>2, Zenon
    <3> QED BY <1>1, <2>2, <3>1
  <2>3. CASE i > Len(s) /\ j > Len(s)
    <3>1. t[i] = n + (i - Len(s)) /\ t[j] = n + (j - Len(s))
      BY <1>5, <2>3, Zenon
    <3> QED BY <1>1, <1>8, <3>1
  <2> QED BY <1>4, <2>1, <2>2, <2>3, Zenon
<1>9. ASSUME NEW unit \in Range(Units(n, c))
      PROVE  \E k \in 1..Len(t) : k > Len(s) /\ t[k] = unit
  <2>1. PICK i \in 1..c : n + i = unit
    BY <1>2, <1>9, Zenon DEF Range
  <2>2. Len(s) + i \in 1..(Len(s) + c) /\ Len(s) + i > Len(s)
    BY <1>1
  <2> QED BY <1>3, <2>1, <2>2, Zenon
<1> QED BY <1>3, <1>7, <1>8, <1>9, Zenon DEF FileInOrder, Increasing

\* The log changes, the reader does not.
LEMMA LogMoves ==
    ASSUME LogInv, UNCHANGED <<pc, file, offset, buffer, last>>,
           disk' \in Seq(Seq(Nat)), Len(disk') >= Len(disk),
           live' \in 0..Len(disk'), writer' \in 1..Len(disk'),
           written' \in Nat, written' >= written,
           \A f \in 1..Len(disk') : FileInOrder(disk'[f], written'),
           pc \in {"reopen", "seek"} => owed' \subseteq owed, OwedHeld', AheadInOrder'
    PROVE  LogInv'
<1>1. LogTypes'
  <2>1. Len(disk) \in Nat /\ Len(disk') \in Nat
    BY SeqFacts, Zenon DEF LogInv, LogTypes
  <2>2. file' \in 0..Len(disk')
    BY <2>1 DEF LogInv, LogTypes
  <2> QED BY <2>2, Zenon DEF LogInv, LogTypes
<1>2. OwedIsAhead'
  BY <1>1, OwedLemma, PTL
<1>3. Opening'
  BY Zenon DEF LogInv, Opening
<1>4. BufferInOrder'
  <2>1. /\ \A i \in DOMAIN buffer : buffer[i] \in Nat
        /\ last \in Nat /\ written \in Nat
    BY SeqFacts, Zenon DEF LogInv, LogTypes
  <2>2. \A m \in Nat : m <= written => m <= written'
    BY <2>1
  <2> QED BY <2>1, <2>2, Zenon DEF LogInv, InOrder, BufferInOrder
<1> QED BY <1>1, <1>2, <1>3, <1>4, Zenon DEF LogInv, InOrder

LEMMA WritesStep ==
    ASSUME LogInv, NEW count \in Nat, Writes(count)
    PROVE  LogInv'
<1> DEFINE s == disk[writer]
           t == Grown(s, written, count)
<1>1. LogTypes /\ InOrder /\ OwedHeld
  BY OwedLemma, Zenon DEF LogInv
<1>2. /\ disk \in Seq(Seq(Nat)) /\ writer \in 1..Len(disk) /\ written \in Nat
      /\ Len(disk) \in Nat /\ DOMAIN disk = 1..Len(disk) /\ s \in Seq(Nat)
      /\ Len(s) \in Nat /\ offset \in Nat /\ last \in Nat
      /\ \A i \in DOMAIN buffer : buffer[i] \in Nat
  BY <1>1, SeqFacts, FileFacts, Zenon DEF LogTypes
<1>3. /\ disk' = [disk EXCEPT ![writer] = t] /\ written' = written + count
      /\ owed' = IF Watching(writer) THEN owed \cup Range(Units(written, count)) ELSE owed
      /\ UNCHANGED <<live, writer, pc, file, offset, buffer, last>>
  BY DEF Writes, Units, Grown, readerVars
<1>4. FileInOrder(s, written)
  BY <1>1, <1>2, Zenon DEF InOrder
<1>5. /\ t \in Seq(Nat) /\ Len(t) = Len(s) + count /\ FileInOrder(t, written')
      /\ \A k \in 1..Len(s) : t[k] = s[k]
      /\ \A k \in 1..Len(t) : k > Len(s) => t[k] > written
      /\ \A unit \in Range(Units(written, count)) :
            \E k \in 1..Len(t) : k > Len(s) /\ t[k] = unit
  <2>1. s \in Seq(Nat) /\ written \in Nat
    BY <1>2, Zenon
  <2>3. /\ t \in Seq(Nat) /\ Len(t) = Len(s) + count
        /\ \A k \in 1..Len(s) : t[k] = s[k]
        /\ \A k \in 1..count : t[Len(s) + k] = written + k
    <3> HIDE DEF s
    <3> QED BY <2>1, UnitsFacts, Zenon
  <2> HIDE DEF s, t
  <2>4. /\ FileInOrder(t, written + count)
        /\ \A k \in 1..Len(t) : k > Len(s) => t[k] > written
        /\ \A unit \in Range(Units(written, count)) :
              \E k \in 1..Len(t) : k > Len(s) /\ t[k] = unit
    BY <1>4, <2>1, <2>3, Appended, Zenon
  <2> QED BY <1>3, <2>3, <2>4, Zenon
<1> HIDE DEF t
<1>6. /\ disk' \in Seq(Seq(Nat)) /\ Len(disk') = Len(disk)
      /\ disk'[writer] = t /\ \A f \in 1..Len(disk) : f # writer => disk'[f] = disk[f]
  BY <1>2, <1>3, <1>5
<1>7. written' \in Nat /\ written' >= written
  BY <1>2, <1>3
<1>8. ASSUME NEW f \in 1..Len(disk')
      PROVE  FileInOrder(disk'[f], written')
  <2>1. CASE f = writer
    BY <1>5, <1>6, <2>1, Zenon
  <2>2. CASE f # writer
    <3>1. /\ disk'[f] = disk[f] /\ FileInOrder(disk[f], written)
          /\ \A k \in DOMAIN disk[f] : disk[f][k] \in Nat
      BY <1>1, <1>6, <2>2, FileFacts, Zenon DEF InOrder
    <3>2. \A m \in Nat : m <= written => m <= written'
      BY <1>2, <1>7
    <3> QED BY <3>1, <3>2, Zenon DEF FileInOrder
  <2> QED BY <2>1, <2>2, Zenon
<1>9. Len(s) <= Len(t) /\ \A k \in 1..Len(s) : k \in 1..Len(t)
  BY <1>2, <1>5
<1>10. OwedHeld'
  <2> SUFFICES ASSUME pc # "stopped", NEW unit \in owed', unit \notin Range(buffer)
               PROVE  Holds(unit)'
    BY <1>3, Zenon DEF OwedHeld
  <2>1. CASE unit \in owed
    <3>1. file # NoFile /\ \E k \in 1..Len(disk[file]) : k > offset /\ disk[file][k] = unit
      BY <1>1, <2>1, Zenon DEF OwedHeld, Holds
    <3>2. CASE file = writer
      <4>1. PICK k \in 1..Len(s) : k > offset /\ s[k] = unit
        BY <3>1, <3>2, Zenon
      <4>2. k \in 1..Len(t) /\ t[k] = unit
        BY <1>5, <1>9, <4>1, Zenon
      <4>3. disk'[file'] = t /\ file' # NoFile /\ offset' = offset
        BY <1>3, <1>6, <3>1, <3>2, Zenon
      <4> QED BY <4>1, <4>2, <4>3, Zenon DEF Holds
    <3>3. CASE file # writer
      <4>1. file \in 1..Len(disk)
        BY <1>1, <3>1, OpenFacts, Zenon
      <4> QED BY <1>3, <1>6, <3>1, <3>3, <4>1, Zenon DEF Holds
    <3> QED BY <3>2, <3>3, Zenon
  <2>2. CASE unit \notin owed
    <3>1. Watching(writer) /\ unit \in Range(Units(written, count))
      BY <1>3, <2>2, Zenon
    <3>2. PICK k \in 1..Len(t) : k > Len(s) /\ t[k] = unit
      BY <1>5, <3>1, Zenon
    <3>3. file = writer /\ offset <= Len(s)
      BY <3>1, Zenon DEF Watching
    <3>4. /\ offset \in Nat /\ Len(s) \in Nat /\ Len(t) \in Nat
          /\ Len(disk) \in Nat /\ writer \in 1..Len(disk)
      BY <1>2, <1>5, SeqFacts, Zenon
    <3>5. k > offset /\ file # NoFile
      BY <3>2, <3>3, <3>4 DEF NoFile
    <3> QED BY <1>3, <1>6, <3>2, <3>3, <3>5, Zenon DEF Holds
  <2> QED BY <2>1, <2>2, Zenon
<1>11. AheadInOrder'
  <2> SUFFICES ASSUME file # NoFile, pc # "seek", NEW k \in offset + 1..Len(disk'[file])
               PROVE  /\ last < disk'[file][k]
                      /\ \A i \in DOMAIN buffer : buffer[i] < disk'[file][k]
    BY <1>3, Zenon DEF AheadInOrder
  <2>1. ASSUME k \in 1..Len(disk[file]), disk'[file][k] = disk[file][k]
        PROVE  /\ last < disk'[file][k]
               /\ \A i \in DOMAIN buffer : buffer[i] < disk'[file][k]
    <3>1. k \in offset + 1..Len(disk[file])
      BY <1>2, <2>1
    <3> QED BY <1>1, <2>1, <3>1, Zenon DEF InOrder, AheadInOrder
  <2>2. CASE file # writer
    <3>1. file \in 1..Len(disk)
      BY <1>1, OpenFacts, Zenon
    <3>2. disk'[file] = disk[file] /\ Len(disk[file]) \in Nat
      BY <1>1, <1>6, <2>2, <3>1, FileFacts, Zenon
    <3>3. k \in 1..Len(disk[file])
      BY <1>2, <3>2
    <3> QED BY <2>1, <3>2, <3>3, Zenon
  <2>3. CASE file = writer
    <3>1. k \in 1..Len(t) /\ Len(t) \in Nat
      <4>1. disk'[file] = t /\ Len(t) \in Nat /\ offset \in Nat
        BY <1>2, <1>5, <1>6, <2>3, SeqFacts, Zenon
      <4> QED BY <4>1
    <3>2. CASE k \in 1..Len(s)
      BY <1>5, <1>6, <2>1, <2>3, <3>2, Zenon
    <3>3. CASE k > Len(s)
      <4>1. disk'[file][k] = t[k] /\ t[k] > written /\ t[k] \in Nat
        BY <1>5, <1>6, <2>3, <3>1, <3>3, SeqFacts, Zenon
      <4>2. last <= written /\ \A i \in DOMAIN buffer : buffer[i] <= written
        BY <1>1, Zenon DEF InOrder, BufferInOrder
      <4>3. \A m \in Nat : m <= written => m < t[k]
        BY <1>2, <4>1
      <4> QED BY <1>2, <4>1, <4>2, <4>3, Zenon
    <3>4. k \in 1..Len(s) \/ k > Len(s)
      BY <1>2, <3>1
    <3> QED BY <3>2, <3>3, <3>4, Zenon
  <2> QED BY <2>2, <2>3, Zenon
<1>12. pc \in {"reopen", "seek"} => owed' \subseteq owed
  BY <1>3, Zenon DEF Watching
<1>13. /\ Len(disk') >= Len(disk) /\ live' \in 0..Len(disk') /\ writer' \in 1..Len(disk')
  <2>1. Len(disk) >= Len(disk)
    BY <1>2
  <2> QED BY <1>1, <1>3, <1>6, <2>1, Zenon DEF LogTypes
<1> QED BY <1>3, <1>6, <1>7, <1>8, <1>10, <1>11, <1>12, <1>13, LogMoves, Zenon

LEMMA EmptyInOrder ==
    ASSUME NEW n
    PROVE  /\ <<>> \in Seq(Nat) /\ Len(<<>>) = 0 /\ DOMAIN <<>> = {}
           /\ FileInOrder(<<>>, n)
<1>1. <<>> \in Seq(Nat) /\ Len(<<>>) = 0 /\ DOMAIN <<>> = {}
  OBVIOUS
<1> QED BY <1>1, Zenon DEF FileInOrder, Increasing

\* Files are added or emptied; nothing is owed of what an emptied one has held.
LEMMA FilesKept ==
    ASSUME LogInv, UNCHANGED <<pc, file, offset, buffer, last, written>>,
           disk' \in Seq(Seq(Nat)), Len(disk') >= Len(disk),
           live' \in 0..Len(disk'), writer' \in 1..Len(disk'), owed' \subseteq owed,
           \A f \in 1..Len(disk') : disk'[f] = <<>> \/ (f \in 1..Len(disk) /\ disk'[f] = disk[f]),
           \A f \in 1..Len(disk), unit \in owed' :
                disk'[f] = disk[f] \/ unit \in Range(buffer) \/ unit \notin Range(disk[f])
    PROVE  LogInv'
<1>1. LogTypes /\ InOrder /\ OwedHeld
  BY OwedLemma, Zenon DEF LogInv
<1>2. Len(disk) \in Nat /\ Len(disk') \in Nat /\ written \in Nat /\ offset \in Nat
  BY <1>1, SeqFacts, Zenon DEF LogTypes
<1>3. \A f \in 1..Len(disk') : FileInOrder(disk'[f], written')
  BY <1>1, EmptyInOrder, Zenon DEF InOrder
<1>4. file # NoFile => file \in 1..Len(disk) /\ file \in 1..Len(disk')
  <2>1. file # NoFile => file \in 1..Len(disk)
    BY <1>1, OpenFacts, Zenon
  <2> QED BY <1>2, <2>1
<1>5. OwedHeld'
  <2> SUFFICES ASSUME pc # "stopped", NEW unit \in owed', unit \notin Range(buffer)
               PROVE  Holds(unit)'
    BY Zenon DEF OwedHeld
  <2>1. file # NoFile /\ \E k \in 1..Len(disk[file]) : k > offset /\ disk[file][k] = unit
    BY <1>1, Zenon DEF OwedHeld, Holds
  <2>2. unit \in Range(disk[file])
    <3>1. DOMAIN disk[file] = 1..Len(disk[file])
      BY <1>1, <1>4, <2>1, FileFacts, Zenon
    <3> QED BY <2>1, <3>1, Zenon DEF Range
  <2>3. disk'[file] = disk[file]
    BY <1>4, <2>1, <2>2, Zenon
  <2> QED BY <2>1, <2>3, Zenon DEF Holds
<1>6. AheadInOrder'
  <2> SUFFICES ASSUME file # NoFile, pc # "seek"
               PROVE  \A k \in offset + 1..Len(disk'[file]) :
                        /\ last < disk'[file][k]
                        /\ \A i \in DOMAIN buffer : buffer[i] < disk'[file][k]
    BY Zenon DEF AheadInOrder
  <2>1. CASE disk'[file] = disk[file]
    BY <1>1, <2>1, Zenon DEF InOrder, AheadInOrder
  <2>2. CASE disk'[file] = <<>>
    <3>1. Len(disk'[file]) = 0
      BY <2>2, EmptyInOrder, Zenon
    <3>2. offset + 1..Len(disk'[file]) = {}
      BY <1>2, <3>1
    <3> QED BY <3>2, Zenon
  <2> QED BY <1>4, <2>1, <2>2, Zenon
<1>7. written' \in Nat /\ written' >= written
  BY <1>2
<1> QED BY <1>3, <1>5, <1>6, <1>7, LogMoves, Zenon

LEMMA LogStep ==
    ASSUME LogInv, Write \/ Rotate \/ Create \/ Switch \/ Truncate
    PROVE  LogInv'
<1>1. /\ disk \in Seq(Seq(Nat)) /\ Len(disk) \in Nat /\ DOMAIN disk = 1..Len(disk)
      /\ live \in 0..Len(disk) /\ writer \in 1..Len(disk)
  BY SeqFacts, Zenon DEF LogInv, LogTypes
<1>2. Len(disk) >= Len(disk)
  BY <1>1
<1>3. CASE Write
  <2>1. PICK count \in Nat : Writes(count)
    BY <1>3 DEF Write
  <2> QED BY <2>1, WritesStep, Zenon
<1>4. CASE Rotate \/ Switch
  <2>1. UNCHANGED <<disk, owed, pc, file, offset, buffer, last, written>>
    BY <1>4 DEF Rotate, Switch, readerVars
  <2>2. live' \in 0..Len(disk') /\ writer' \in 1..Len(disk')
    BY <1>1, <1>4 DEF Rotate, Switch, NoFile
  <2> QED BY <1>1, <1>2, <2>1, <2>2, FilesKept, Zenon
<1>5. CASE Create
  <2>1. /\ disk' = Append(disk, <<>>) /\ live' = Len(disk) + 1
        /\ UNCHANGED <<writer, owed, pc, file, offset, buffer, last, written>>
    BY <1>5 DEF Create, readerVars
  <2>2. /\ disk' \in Seq(Seq(Nat)) /\ Len(disk') = Len(disk) + 1
        /\ disk'[Len(disk) + 1] = <<>> /\ \A f \in 1..Len(disk) : disk'[f] = disk[f]
    BY <1>1, <2>1
  <2>3. /\ Len(disk') >= Len(disk) /\ live' \in 0..Len(disk') /\ writer' \in 1..Len(disk')
    BY <1>1, <2>1, <2>2
  <2>4. \A f \in 1..(Len(disk) + 1) : f \in 1..Len(disk) \/ f = Len(disk) + 1
    <3>1. Len(disk) \in Nat
      BY <1>1, Zenon
    <3> QED BY <3>1
  <2>5. \A f \in 1..Len(disk') : disk'[f] = <<>> \/ (f \in 1..Len(disk) /\ disk'[f] = disk[f])
    BY <2>2, <2>4, Zenon
  <2> QED BY <2>1, <2>2, <2>3, <2>5, FilesKept, Zenon
<1>6. CASE Truncate
  <2>1. /\ live # NoFile /\ disk' = [disk EXCEPT ![live] = <<>>]
        /\ owed' = owed \ (Range(disk[live]) \ Range(buffer))
        /\ UNCHANGED <<live, writer, pc, file, offset, buffer, last, written>>
    BY <1>6 DEF Truncate, readerVars
  <2>2. live \in 1..Len(disk)
    BY <1>1, <2>1 DEF NoFile
  <2>3. /\ disk' \in Seq(Seq(Nat)) /\ Len(disk') = Len(disk)
        /\ disk'[live] = <<>> /\ \A f \in 1..Len(disk) : f # live => disk'[f] = disk[f]
    BY <1>1, <2>1, <2>2, EmptyInOrder
  <2>4. \A f \in 1..Len(disk'): disk'[f] = <<>> \/ (f \in 1..Len(disk) /\ disk'[f] = disk[f])
    BY <2>3, Zenon
  <2>5. \A f \in 1..Len(disk), unit \in owed' :
            disk'[f] = disk[f] \/ unit \in Range(buffer) \/ unit \notin Range(disk[f])
    BY <2>1, <2>3, Zenon
  <2>6. /\ owed' \subseteq owed /\ Len(disk') >= Len(disk)
        /\ live' \in 0..Len(disk') /\ writer' \in 1..Len(disk')
    BY <1>1, <1>2, <2>1, <2>3, Zenon
  <2> QED BY <2>1, <2>3, <2>4, <2>5, <2>6, FilesKept, Zenon
<1> QED BY <1>3, <1>4, <1>5, <1>6, Zenon

-----------------------------------------------------------------------------
(* Opening and reading                                                        *)

\* The reader closes its file, with nothing ahead in it or for good.
LEMMA CloseStep ==
    ASSUME LogInv, UNCHANGED <<disk, live, writer, written, buffer, owed, last, offset>>,
           file' = NoFile, pc' # "seek", owed \subseteq Range(buffer) \/ pc' = "stopped"
    PROVE  LogInv'
<1>1. file' \in 0..Len(disk) /\ offset' \in Nat
  BY SeqFacts DEF LogInv, LogTypes, NoFile
<1>2. Opening'
  BY Zenon DEF Opening
<1> QED BY <1>1, <1>2, ReaderMoves, Zenon

LEMMA OpeningStep ==
    ASSUME LogInv, Check \/ findFile \/ OpenFile \/ createParser \/ Cleanup
    PROVE  LogInv'
<1>1. file \in 0..Len(disk) /\ offset \in Nat /\ live \in 0..Len(disk) /\ Opening
  BY Zenon DEF LogInv, LogTypes
<1>2. ASSUME pc \in {"new", "find", "open"}
      PROVE  file = NoFile /\ owed \subseteq Range(buffer) /\ pc # "stopped" /\ pc # "seek"
  <2>1. file = NoFile /\ pc # "stopped" /\ pc # "seek"
    BY <1>1, <1>2, Zenon DEF Opening
  <2> QED BY <2>1, NothingAhead, Zenon
<1>3. ASSUME OpenFails, pc \in {"find", "open"}
      PROVE  LogInv'
  <2>1. /\ UNCHANGED <<disk, live, writer, written, buffer, owed, last, offset>>
        /\ file' = NoFile /\ pc' # "seek"
    BY <1>3 DEF OpenFails, Close, logVars
  <2> QED BY <1>2, <1>3, <2>1, CloseStep, Zenon
<1>4. CASE Check
  <2>1. /\ UNCHANGED <<disk, live, writer, written, buffer, owed, last, offset>>
        /\ file' = NoFile /\ pc' # "seek" /\ pc = "new"
    BY <1>4 DEF Check, Close, logVars
  <2> QED BY <1>2, <2>1, CloseStep, Zenon
<1>5. CASE findFile
  <2>1. CASE OpenFails
    BY <1>3, <1>5, <2>1, Zenon DEF findFile
  <2>2. CASE ~OpenFails
    <3>1. /\ UNCHANGED <<disk, live, writer, written, buffer, owed, last, file, offset>>
          /\ pc' = "open" /\ pc = "find"
      BY <1>5, <2>2 DEF findFile, logVars, readerVars
    <3>2. Opening'
      BY <1>2, <3>1, Zenon DEF Opening
    <3> QED BY <1>1, <1>2, <3>1, <3>2, ReaderMoves, Zenon
  <2> QED BY <2>1, <2>2, Zenon
<1>6. CASE OpenFile
  <2>1. CASE OpenFails
    BY <1>3, <1>6, <2>1, Zenon DEF OpenFile
  <2>2. CASE ~OpenFails
    <3>1. /\ UNCHANGED <<disk, live, writer, written, buffer, owed, last>>
          /\ live # NoFile /\ file' = live /\ offset' = 0 /\ pc' = "seek" /\ pc = "open"
      BY <1>6, <2>2 DEF OpenFile, logVars
    <3>2. owed \subseteq Range(buffer)
      BY <1>2, <3>1, Zenon
    <3>3. Opening'
      BY <3>1, <3>2, Zenon DEF Opening
    <3>4. offset' \in Nat
      BY <3>1
    <3> QED BY <1>1, <3>1, <3>2, <3>3, <3>4, ReaderMoves, Zenon
  <2> QED BY <2>1, <2>2, Zenon
<1>7. CASE createParser
  <2>1. UNCHANGED <<disk, live, writer, written, buffer, owed, last>> /\ pc = "parser"
    BY <1>7 DEF createParser, logVars
  <2>2. CASE pc' = "idle" /\ UNCHANGED readerVars
    <3>1. UNCHANGED <<file, offset>> /\ pc # "seek" /\ pc # "stopped"
      BY <2>1, <2>2 DEF readerVars
    <3>2. Opening'
      BY <2>2, Zenon DEF Opening
    <3> QED BY <1>1, <2>1, <3>1, <3>2, ReaderMoves, Zenon
  <2>3. CASE pc' = "stopped" /\ Close
    <3>1. file' = NoFile /\ offset' = offset /\ pc' # "seek"
      BY <2>3, Zenon DEF Close
    <3> QED BY <2>1, <2>3, <3>1, CloseStep, Zenon
  <2> QED BY <1>7, <2>2, <2>3, Zenon DEF createParser
<1>8. CASE Cleanup
  <2>1. /\ UNCHANGED <<disk, live, writer, written, buffer, owed, last, offset>>
        /\ file' = NoFile /\ pc' = "stopped" /\ pc' # "seek"
    BY <1>8 DEF Cleanup, Close, logVars
  <2> QED BY <2>1, CloseStep, Zenon
<1> QED BY <1>4, <1>5, <1>6, <1>7, <1>8, Zenon

LEMMA SeekEndStep ==
    ASSUME LogInv, SeekEnd
    PROVE  LogInv'
<1>1. /\ pc = "seek" /\ offset' = Len(disk[file])
      /\ UNCHANGED <<disk, live, writer, written, file>>
  BY DEF SeekEnd, logVars
<1>2. /\ file # NoFile /\ owed \subseteq Range(buffer) /\ pc # "stopped"
      /\ file' \in 0..Len(disk)
  BY <1>1, Zenon DEF LogInv, LogTypes, Opening
<1>3. CASE caller = "check"
  <2>1. pc' = "parser" /\ UNCHANGED <<buffer, owed, last>>
    BY <1>3, Zenon DEF SeekEnd
  <2>2. Opening'
    BY <2>1, Zenon DEF Opening
  <2>3. offset' \in Nat
    BY <1>1, <1>2, OpenFacts, FileFacts, Zenon DEF LogInv
  <2> QED BY <1>1, <1>2, <2>1, <2>2, <2>3, ReaderMoves, Zenon
<1>4. CASE caller # "check"
  <2>1. EndOfFile
    BY <1>4, Zenon DEF SeekEnd
  <2> QED BY <1>1, <1>2, <2>1, EndOfFileStep, Zenon
<1> QED BY <1>3, <1>4, Zenon

\* The end of the first line in the buffer.
LEMMA FirstEnd ==
    ASSUME LogTypes, LineEnds # {}
    PROVE  (CHOOSE k \in LineEnds : \A m \in LineEnds : k <= m) \in 1..Len(buffer)
<1>1. LineEnds \subseteq 1..Len(buffer) /\ Len(buffer) \in Nat
  BY SeqFacts, Zenon DEF LineEnds, LogTypes
<1>2. \E k \in LineEnds : \A m \in LineEnds : k <= m
  <2> DEFINE R == OpToRel(<, Nat)
  <2>1. LineEnds \subseteq Nat
    BY <1>1
  <2>2. IsWellFoundedOn(R, Nat)
    BY NatLessThanWellFounded, Zenon
  <2> HIDE DEF R
  <2>3. PICK k \in LineEnds : \A m \in LineEnds : ~ (<<m, k>> \in R)
    BY <2>1, <2>2, WFMin, Zenon
  <2>4. \A m \in Nat : <<m, k>> \notin R => k <= m
    BY <2>1 DEF R, OpToRel
  <2> QED BY <2>1, <2>3, <2>4, Zenon
<1> QED BY <1>1, <1>2, Zenon

LEMMA ReadLineStep ==
    ASSUME LogInv, ReadLine
    PROVE  LogInv'
<1> DEFINE end == CHOOSE k \in LineEnds : \A m \in LineEnds : k <= m
           piece == SubSeq(buffer, 1, end)
<1>1. /\ pc = "read" /\ LineEnds # {} /\ Takes(piece)
      /\ UNCHANGED <<disk, live, writer, written, file, offset>>
  BY DEF ReadLine, logVars, readerVars
<1>2. LogTypes /\ buffer \in Seq(Nat) /\ pc # "stopped" /\ pc # "seek"
  BY <1>1, Zenon DEF LogInv, LogTypes
<1>3. end \in 1..Len(buffer) /\ Len(buffer) \in Nat
  BY <1>1, <1>2, FirstEnd, SeqFacts, Zenon
<1> HIDE DEF end
<1>4. end \in 0..Len(buffer)
  BY <1>3
<1>5. piece \in Seq(Nat) /\ Len(piece) = end /\ \A i \in 1..end : piece[i] = buffer[i]
  BY <1>2, <1>4, PrefixFacts, Zenon
<1> HIDE DEF piece
<1> QED BY <1>1, <1>2, <1>3, <1>5, TakesStep, Zenon

Filled(b, s, o, e) == b \o SubSeq(s, o + 1, e)

IsFilled(c, b, s, o, e) ==
    /\ c \in Seq(Nat) /\ DOMAIN c = 1..(Len(b) + (e - o))
    /\ \A i \in 1..Len(b) : i \in DOMAIN c /\ c[i] = b[i]
    /\ \A i \in DOMAIN c : i > Len(b) =>
          /\ (i - Len(b)) + o \in o + 1..e
          /\ c[i] = s[(i - Len(b)) + o]
    /\ \A k \in o + 1..e : \E i \in DOMAIN c : c[i] = s[k]

\* A unit of the filled buffer is one it had, or comes from behind the position.
LEMMA FilledFacts ==
    ASSUME NEW b \in Seq(Nat), NEW s \in Seq(Nat), NEW o \in Nat, NEW e \in Nat,
           o <= e, e <= Len(s)
    PROVE  IsFilled(Filled(b, s, o, e), b, s, o, e)
<1> DEFINE c == Filled(b, s, o, e)
           t == SubSeq(s, o + 1, e)
<1>1. Len(b) \in Nat /\ Len(s) \in Nat
  BY SeqFacts, Zenon
<1>2. t \in Seq(Nat) /\ Len(t) = e - o /\ \A i \in 1..(e - o) : t[i] = s[i + o]
  <2>1. e \in 0..Len(s) /\ o \in 0..e
    BY <1>1
  <2> QED BY <2>1, SliceFacts, Zenon
<1>3. c = b \o t
  BY DEF Filled
<1> HIDE DEF c, t
<1>4. /\ c \in Seq(Nat) /\ DOMAIN c = 1..(Len(b) + Len(t))
      /\ \A i \in 1..Len(b) : c[i] = b[i]
      /\ \A i \in 1..Len(t) : c[Len(b) + i] = t[i]
  <2>1. t \in Seq(Nat)
    BY <1>2, Zenon
  <2> QED BY <1>3, <2>1
<1>5. /\ c \in Seq(Nat) /\ DOMAIN c = 1..(Len(b) + (e - o))
      /\ \A i \in 1..Len(b) : c[i] = b[i]
      /\ \A i \in 1..(e - o) : c[Len(b) + i] = s[i + o]
  BY <1>2, <1>4, Zenon
<1>6. \A i \in 1..Len(b) : i \in 1..(Len(b) + (e - o))
  BY <1>1
<1>7. ASSUME NEW i \in 1..(Len(b) + (e - o)), i > Len(b)
      PROVE  (i - Len(b)) + o \in o + 1..e /\ c[i] = s[(i - Len(b)) + o]
  <2>1. /\ (i - Len(b)) + o \in o + 1..e /\ i - Len(b) \in 1..(e - o)
        /\ Len(b) + (i - Len(b)) = i
    BY <1>1, <1>7
  <2> QED BY <1>5, <2>1, Zenon
<1>8. ASSUME NEW k \in o + 1..e
      PROVE  \E i \in DOMAIN c : c[i] = s[k]
  <2>1. /\ k - o \in 1..(e - o) /\ (k - o) + o = k
        /\ Len(b) + (k - o) \in 1..(Len(b) + (e - o))
    BY <1>1
  <2> QED BY <1>5, <2>1, Zenon
<1>9. IsFilled(c, b, s, o, e)
  BY <1>5, <1>6, <1>7, <1>8, Zenon DEF IsFilled
<1> QED BY <1>9, Zenon DEF c

\* Units from behind the position come after the ones in the buffer.
LEMMA FilledInOrder ==
    ASSUME NEW b \in Seq(Nat), NEW s \in Seq(Nat), NEW o \in Nat, NEW e \in Nat,
           o <= e, e <= Len(s), NEW c, IsFilled(c, b, s, o, e),
           Increasing(b), Increasing(s),
           \A k \in o + 1..Len(s), i \in DOMAIN b : b[i] < s[k]
    PROVE  /\ Increasing(c)
           /\ \A k \in e + 1..Len(s), i \in DOMAIN c : c[i] < s[k]
<1>1. /\ Len(b) \in Nat /\ DOMAIN b = 1..Len(b) /\ Len(s) \in Nat /\ DOMAIN s = 1..Len(s)
      /\ \A i \in 1..Len(b) : b[i] \in Nat
      /\ \A k \in 1..Len(s) : s[k] \in Nat
  BY SeqFacts, Zenon
<1>2. /\ c \in Seq(Nat) /\ DOMAIN c = 1..(Len(b) + (e - o))
      /\ \A i \in 1..Len(b) : i \in DOMAIN c /\ c[i] = b[i]
      /\ \A i \in DOMAIN c : i > Len(b) =>
            /\ (i - Len(b)) + o \in o + 1..e
            /\ c[i] = s[(i - Len(b)) + o]
  BY Zenon DEF IsFilled
<1>3. /\ \A k \in o + 1..e : k \in 1..Len(s) /\ k \in o + 1..Len(s)
      /\ \A k \in e + 1..Len(s) : k \in 1..Len(s) /\ k \in o + 1..Len(s)
      /\ \A k \in o + 1..e, m \in e + 1..Len(s) : k < m
      /\ \A i \in 1..(Len(b) + (e - o)) : i \in 1..Len(b) \/ i > Len(b)
  BY <1>1
<1>4. ASSUME NEW i \in DOMAIN c, NEW j \in DOMAIN c, i < j
      PROVE  c[i] < c[j]
  <2>1. i \in Nat /\ j \in Nat
    BY <1>2
  <2>2. CASE j \in 1..Len(b)
    <3>1. i \in 1..Len(b)
      <4>1. i >= 1
        BY <1>2
      <4> QED BY <1>1, <1>4, <2>1, <2>2, <4>1
    <3> QED BY <1>1, <1>2, <1>4, <2>2, <3>1, Zenon DEF Increasing
  <2>3. CASE i \in 1..Len(b) /\ j > Len(b)
    BY <1>1, <1>2, <1>3, <2>3, Zenon
  <2>4. CASE i > Len(b) /\ j > Len(b)
    <3>1. /\ c[i] = s[(i - Len(b)) + o] /\ (i - Len(b)) + o \in DOMAIN s
          /\ c[j] = s[(j - Len(b)) + o] /\ (j - Len(b)) + o \in DOMAIN s
      BY <1>1, <1>2, <1>3, <2>4, Zenon
    <3>2. (i - Len(b)) + o < (j - Len(b)) + o
      BY <1>1, <1>4, <2>1
    <3> QED BY <3>1, <3>2, Zenon DEF Increasing
  <2> QED BY <1>2, <1>3, <2>2, <2>3, <2>4, Zenon
<1>5. ASSUME NEW k \in e + 1..Len(s), NEW i \in DOMAIN c
      PROVE  c[i] < s[k]
  <2>1. CASE i \in 1..Len(b)
    BY <1>1, <1>2, <1>3, <2>1, Zenon
  <2>2. CASE i > Len(b)
    BY <1>1, <1>2, <1>3, <2>2, Zenon DEF Increasing
  <2> QED BY <1>2, <1>3, <2>1, <2>2, Zenon
<1> QED BY <1>4, <1>5, Zenon DEF Increasing

LEMMA ReadDataStep ==
    ASSUME LogInv, ReadData
    PROVE  LogInv'
<1> DEFINE s == disk[file]
<1>1. PICK end \in offset + 1..Len(disk[file]) :
        buffer' = Filled(buffer, s, offset, end) /\ offset' = end
  BY Zenon DEF ReadData, Filled
<1>2. /\ pc = "read" /\ pc' = pc /\ file # NoFile
      /\ UNCHANGED <<disk, live, writer, written, file, owed, last>>
  BY DEF ReadData, Reading, logVars
<1>3. LogTypes /\ InOrder /\ OwedHeld /\ file \in 1..Len(disk)
  BY <1>2, OwedLemma, OpenFacts, Zenon DEF LogInv
<1>4. /\ s \in Seq(Nat) /\ Len(s) \in Nat /\ DOMAIN s = 1..Len(s)
      /\ buffer \in Seq(Nat) /\ Len(buffer) \in Nat /\ DOMAIN buffer = 1..Len(buffer)
      /\ offset \in Nat /\ last \in Nat /\ written \in Nat
  BY <1>3, FileFacts, SeqFacts, Zenon DEF LogTypes
<1>5. end \in Nat /\ offset <= end /\ end <= Len(s)
  BY <1>4
<1>6. /\ Increasing(buffer) /\ Increasing(s) /\ last <= written
      /\ \A i \in DOMAIN buffer : last < buffer[i] /\ buffer[i] <= written
      /\ \A k \in DOMAIN s : s[k] <= written
      /\ \A k \in offset + 1..Len(s) : last < s[k] /\ \A i \in DOMAIN buffer : buffer[i] < s[k]
  <2>1. pc # "seek"
    BY <1>2, Zenon
  <2> QED BY <1>2, <1>3, <2>1, Zenon DEF InOrder, BufferInOrder, AheadInOrder, FileInOrder
<1> HIDE DEF s
<1>7. /\ IsFilled(buffer', buffer, s, offset, end)
      /\ buffer' \in Seq(Nat) /\ DOMAIN buffer' = 1..(Len(buffer) + (end - offset))
      /\ \A i \in 1..Len(buffer) : i \in DOMAIN buffer' /\ buffer'[i] = buffer[i]
      /\ \A i \in DOMAIN buffer' : i > Len(buffer) =>
            /\ (i - Len(buffer)) + offset \in offset + 1..end
            /\ buffer'[i] = s[(i - Len(buffer)) + offset]
      /\ \A k \in offset + 1..end : \E i \in DOMAIN buffer' : buffer'[i] = s[k]
  <2>1. IsFilled(buffer', buffer, s, offset, end)
    BY <1>1, <1>4, <1>5, FilledFacts, Zenon
  <2> QED BY <2>1, Zenon DEF IsFilled
<1>8. /\ Increasing(buffer')
      /\ \A k \in end + 1..Len(s), i \in DOMAIN buffer' : buffer'[i] < s[k]
  BY <1>4, <1>5, <1>6, <1>7, FilledInOrder, Zenon
<1>9. /\ \A k \in offset + 1..end : k \in 1..Len(s) /\ k \in offset + 1..Len(s)
      /\ \A k \in end + 1..Len(s) : k \in offset + 1..Len(s)
      /\ \A k \in 1..Len(s) : k > offset => k \in offset + 1..end \/ k > end
      /\ \A i \in 1..(Len(buffer) + (end - offset)) : i \in 1..Len(buffer) \/ i > Len(buffer)
  BY <1>4, <1>5
<1>10. LogTypes'
  BY <1>1, <1>2, <1>3, <1>5, <1>7, Zenon DEF LogTypes
<1>11. Opening'
  BY <1>2, Zenon DEF Opening
<1>12. BufferInOrder'
  <2>1. ASSUME NEW i \in DOMAIN buffer'
        PROVE  last < buffer'[i] /\ buffer'[i] <= written
    <3>1. CASE i \in 1..Len(buffer)
      BY <1>4, <1>6, <1>7, <3>1, Zenon
    <3>2. CASE i > Len(buffer)
      BY <1>4, <1>6, <1>7, <1>9, <3>2, Zenon
    <3> QED BY <1>7, <1>9, <3>1, <3>2, Zenon
  <2> QED BY <1>2, <1>6, <1>8, <2>1, Zenon DEF BufferInOrder
<1>13. AheadInOrder'
  <2>1. disk'[file'] = s
    BY <1>2, Zenon DEF s
  <2>2. \A k \in end + 1..Len(s) : last < s[k] /\ \A i \in DOMAIN buffer' : buffer'[i] < s[k]
    BY <1>6, <1>8, <1>9, Zenon
  <2>3. offset' = end /\ last' = last
    BY <1>1, <1>2, Zenon
  <2> QED BY <2>1, <2>2, <2>3, Zenon DEF AheadInOrder
<1>14. OwedHeld'
  <2> SUFFICES ASSUME pc # "stopped", NEW unit \in owed, unit \notin Range(buffer')
               PROVE  Holds(unit)'
    BY <1>2, Zenon DEF OwedHeld
  <2>1. unit \notin Range(buffer)
    <3>1. \A i \in DOMAIN buffer : i \in DOMAIN buffer' /\ buffer'[i] = buffer[i]
      BY <1>4, <1>7, Zenon
    <3> QED BY <3>1, Zenon DEF Range
  <2>2. PICK k \in 1..Len(s) : k > offset /\ s[k] = unit
    BY <1>3, <2>1, Zenon DEF OwedHeld, Holds, s
  <2>3. k \notin offset + 1..end
    BY <1>7, <2>2, Zenon DEF Range
  <2>4. k > offset'
    BY <1>1, <1>9, <2>2, <2>3, Zenon
  <2>5. disk'[file'] = s
    BY <1>2, Zenon DEF s
  <2> QED BY <1>2, <2>2, <2>4, <2>5, Zenon DEF Holds
<1>15. OwedIsAhead'
  BY <1>10, <1>14, OwedLemma, PTL
<1>16. InOrder'
  BY <1>2, <1>3, <1>12, <1>13, Zenon DEF InOrder
<1> QED BY <1>2, <1>10, <1>11, <1>15, <1>16, Zenon DEF LogInv

LEMMA CollectStep ==
    ASSUME LogInv, Collect \/ handleInvalidArgErr
    PROVE  LogInv'
<1>1. /\ UNCHANGED <<disk, live, writer, written, buffer, owed, last, file, offset>>
      /\ pc \in {"idle", "read"} /\ (pc' = "read" \/ (pc' = "find" /\ file = NoFile))
  BY DEF Collect, handleInvalidArgErr, Reading, logVars, readerVars
<1>2. pc # "seek" /\ pc # "stopped" /\ Opening'
  BY <1>1, Zenon DEF Opening
<1>3. file' \in 0..Len(disk) /\ offset' \in Nat
  BY <1>1, Zenon DEF LogInv, LogTypes
<1> QED BY <1>1, <1>2, <1>3, ReaderMoves, Zenon

LEMMA EOFStep ==
    ASSUME LogInv, handleEOFErr
    PROVE  LogInv'
<1>1. /\ UNCHANGED <<disk, live, writer, written, file, offset>>
      /\ pc = "read" /\ file # NoFile /\ offset >= Len(disk[file])
  BY DEF handleEOFErr, Reading, logVars
<1>2. owed \subseteq Range(buffer) /\ pc # "stopped" /\ pc # "seek"
  <2>1. pc # "stopped" /\ pc # "seek"
    BY <1>1, Zenon
  <2> QED BY <1>1, <2>1, NothingAhead, Zenon
<1>3. CASE EndOfFile
  BY <1>1, <1>2, <1>3, EndOfFileStep, Zenon
<1>4. CASE pc' = "reopen" /\ UNCHANGED <<buffer, owed, last>>
  <2>1. Opening'
    BY <1>2, <1>4, Zenon DEF Opening
  <2>2. file' \in 0..Len(disk) /\ offset' \in Nat
    BY <1>1, Zenon DEF LogInv, LogTypes
  <2> QED BY <1>1, <1>2, <1>4, <2>1, <2>2, ReaderMoves, Zenon
<1> QED BY <1>3, <1>4, Zenon DEF handleEOFErr

LEMMA ReopenStep ==
    ASSUME LogInv, reopen
    PROVE  LogInv'
<1>1. /\ UNCHANGED <<disk, live, writer, written, buffer, owed, last, offset>>
      /\ file' = NoFile /\ pc = "reopen" /\ pc' # "seek"
  BY DEF reopen, Close, logVars
<1>2. owed \subseteq Range(buffer)
  BY <1>1, Zenon DEF LogInv, Opening
<1> QED BY <1>1, <1>2, CloseStep, Zenon

-----------------------------------------------------------------------------
(* The theorems                                                               *)

LEMMA LogInvInit == Init => LogInv
<1> SUFFICES ASSUME Init PROVE LogInv
  OBVIOUS
<1>1. /\ disk = << <<1, 2>> >> /\ live = 1 /\ writer = 1 /\ written = 2 /\ pc = "new"
      /\ file = NoFile /\ offset = 0 /\ buffer = <<>> /\ owed = {} /\ last = 0
  BY DEF Init
<1>2. Len(disk) = 1 /\ disk \in Seq(Seq(Nat)) /\ disk[1] = <<1, 2>>
  BY <1>1
<1>3. LogTypes
  BY <1>1, <1>2, EmptyInOrder DEF LogTypes, NoFile
<1>4. Opening
  BY <1>1, Zenon DEF Opening
<1>5. OwedIsAhead
  BY <1>1, Zenon DEF OwedIsAhead
<1>6. \A f \in 1..Len(disk) : FileInOrder(disk[f], written)
  <2>1. FileInOrder(<<1, 2>>, 2)
    BY DEF FileInOrder, Increasing
  <2>2. \A f \in 1..Len(disk) : f = 1
    BY <1>2
  <2> QED BY <1>1, <1>2, <2>1, <2>2, Zenon
<1>7. BufferInOrder
  <2>1. DOMAIN buffer = {} /\ last <= written
    BY <1>1, EmptyInOrder
  <2> QED BY <2>1, Zenon DEF BufferInOrder, Increasing
<1>8. AheadInOrder
  BY <1>1, Zenon DEF AheadInOrder
<1> QED BY <1>3, <1>4, <1>5, <1>6, <1>7, <1>8, Zenon DEF LogInv, InOrder

LEMMA LogInvStep ==
    ASSUME LogInv, [Next]_vars
    PROVE  LogInv'
<1>1. CASE Write \/ Rotate \/ Create \/ Switch \/ Truncate
  BY <1>1, LogStep, Zenon
<1>2. CASE Check \/ findFile \/ OpenFile \/ createParser \/ Cleanup
  BY <1>2, OpeningStep, Zenon
<1>3. CASE SeekEnd
  BY <1>3, SeekEndStep, Zenon
<1>4. CASE Collect \/ handleInvalidArgErr
  BY <1>4, CollectStep, Zenon
<1>5. CASE ReadLine
  BY <1>5, ReadLineStep, Zenon
<1>6. CASE ReadData
  BY <1>6, ReadDataStep, Zenon
<1>7. CASE handleEOFErr
  BY <1>7, EOFStep, Zenon
<1>9. CASE reopen
  BY <1>9, ReopenStep, Zenon
<1>8. CASE UNCHANGED vars
  <2>1. UNCHANGED <<disk, live, writer, written, file, offset, buffer, owed, last, pc>>
    BY <1>8 DEF vars, logVars, readerVars
  <2>2. LogTypes' /\ Opening' /\ OwedIsAhead'
    BY <2>1, Zenon DEF LogInv, LogTypes, Opening, OwedIsAhead, Contents
  <2>3. BufferInOrder' /\ AheadInOrder' /\ \A f \in 1..Len(disk') : FileInOrder(disk'[f], written')
    BY <2>1, Zenon DEF LogInv, InOrder, BufferInOrder, AheadInOrder
  <2> QED BY <2>1, <2>2, <2>3, Zenon DEF LogInv, InOrder
<1> QED BY <1>1, <1>2, <1>3, <1>4, <1>5, <1>6, <1>7, <1>8, <1>9, Zenon DEF Next

\* What is written while the reader is positioned in its file, and has not yet
\* come to the empty read after which it reopens, is never skipped: it is in the
\* buffer or ahead in the open file until the parser takes it, through every
\* rotation, reopening and Collect that ends with an error (Reader.Read, reopen).
THEOREM OwedIsAheadCorrect == Spec => []OwedIsAhead
<1>1. LogInv /\ [Next]_vars => LogInv'
  BY LogInvStep, Zenon
<1>2. LogInv => OwedIsAhead
  BY Zenon DEF LogInv
<1> QED BY <1>1, <1>2, LogInvInit, PTL DEF Spec

\* The parser takes units in the order of writing and none of them twice,
\* whatever files the reader opens and wherever the log is rotated or truncated.
THEOREM InOrderOnceCorrect == Spec => InOrderOnce
<1>1. ASSUME LogInv, LogInv', NEW k \in 1..Len(buffer) - Len(buffer')
      PROVE  buffer[k] > IF k = 1 THEN last ELSE buffer[k - 1]
  <2>1. /\ Len(buffer) \in Nat /\ Len(buffer') \in Nat /\ DOMAIN buffer = 1..Len(buffer)
        /\ \A i \in 1..Len(buffer) : buffer[i] \in Nat
        /\ last \in Nat
    BY <1>1, SeqFacts, Zenon DEF LogInv, LogTypes
  <2>2. /\ \A i, j \in 1..Len(buffer) : i < j => buffer[i] < buffer[j]
        /\ \A i \in 1..Len(buffer) : last < buffer[i]
    BY <1>1, <2>1, Zenon DEF LogInv, InOrder, BufferInOrder, Increasing
  <2>3. k \in 1..Len(buffer) /\ (k # 1 => k - 1 \in 1..Len(buffer) /\ k - 1 < k)
    BY <2>1
  <2> QED BY <2>1, <2>2, <2>3
<1>2. LogInv /\ [Next]_vars => LogInv'
  BY LogInvStep, Zenon
<1>3. LogInv /\ LogInv' => [\A k \in 1..Len(buffer) - Len(buffer') :
                               buffer[k] > IF k = 1 THEN last ELSE buffer[k - 1]]_vars
  BY <1>1, Zenon
<1> QED BY <1>2, <1>3, LogInvInit, PTL DEF Spec, InOrderOnce
=============================================================================
