----------------------------- MODULE AgentProofs -----------------------------
(***************************************************************************)
(* The safety properties of Agent, for any number of signals and of        *)
(* instances, and of FunctionManager, for any number of calls, lines of    *)
(* payload and reloads.                                                    *)
(*                                                                         *)
(* OneInstance rests on serve: it goes to sleep, and so to the next        *)
(* instance, only when every run has returned; a stop that times out ends  *)
(* the process.  So every run but the newest has returned (Returned).      *)
(*                                                                         *)
(* HostsRight rests on what the instances so far have found: with virtual  *)
(* nodes in all of them there always is a HOST line, with none in any of   *)
(* them there is only the local host (OneKind).                            *)
(*                                                                         *)
(* OwnPayload rests on the input being one stream (Stream): the lines in   *)
(* the buffer, in the input and still to be sent follow each other, so     *)
(* that there is one next line (ToScan) and only scanning moves it on.     *)
(* Then what is read of a payload is what comes before that line           *)
(* (Reading), and the executed calls are behind it (Behind).               *)
(***************************************************************************)
EXTENDS MCAgent, TLAPS

-----------------------------------------------------------------------------
(* The functions manager *)

Kind == {"call", "begin", "malformed", "data", "end", "rest"}

Calls == [size : Int, known : BOOLEAN]
Lines == [kind : Kind, call : Nat, n : Nat]

FunctionTypes ==
  /\ sent \in Seq(Calls)
  /\ \A c \in 1..Len(sent) : sent[c].size >= -1
  /\ sending \in Nat
  /\ sending > 0 => Len(sent) > 0 /\ sending <= sent[Len(sent)].size + 1
  /\ input \in Seq(Lines) /\ buffer \in Seq(Lines)
  /\ pc \in {"scan", "payload", "ended"}
  /\ payload \in Seq(Nat \X Nat)

\* The line after line n of call c.
After(c, n) == IF n <= sent[c].size THEN <<c, n + 1>> ELSE <<c + 1, 0>>
Place(l) == <<l.call, l.n>>

\* The kind of a line says where in its call it stands.
Fits(l) ==
  /\ l.call \in 1..Len(sent)
  /\ l.n <= sent[l.call].size + 1
  /\ l.kind = "call" => l.n = 0 /\ sent[l.call].size = -1
  /\ l.kind = "begin" => l.n = 0 /\ sent[l.call].size >= 0
  /\ l.kind = "malformed" => l.n = 0
  /\ l.kind = "data" => l.n \in 1..sent[l.call].size
  /\ l.kind = "end" => sent[l.call].size >= 0 /\ l.n = sent[l.call].size + 1

\* The line Netdata sends next.
ToSend == IF sending > 0 THEN <<Len(sent), sent[Len(sent)].size + 2 - sending>>
                         ELSE <<Len(sent) + 1, 0>>
\* The line the scanner has not got yet, and the one it hands over next.
ToRead == IF input # <<>> THEN Place(input[1]) ELSE ToSend
ToScan == IF buffer # <<>> THEN Place(buffer[1]) ELSE ToRead

\* The lines in the buffer, in the input and still to be sent follow each other
\* without a gap.  Only the next line may have lost its beginning.
Stream ==
  /\ \A i \in DOMAIN buffer :
       /\ Fits(buffer[i])
       /\ i > 1 => buffer[i].kind # "rest"
       /\ After(buffer[i].call, buffer[i].n) =
            IF i = Len(buffer) THEN ToRead ELSE Place(buffer[i + 1])
  /\ \A i \in DOMAIN input :
       /\ Fits(input[i])
       /\ i > 1 \/ buffer # <<>> => input[i].kind # "rest"
       /\ After(input[i].call, input[i].n) =
            IF i = Len(input) THEN ToSend ELSE Place(input[i + 1])

\* The next line has not lost its beginning.
Whole == /\ buffer # <<>> => buffer[1].kind # "rest"
         /\ buffer = <<>> /\ input # <<>> => input[1].kind # "rest"

\* The payload being read is the part of its call's payload before the next line.
Reading ==
  pc = "payload" =>
    /\ fn \in 1..Len(sent) /\ Len(payload) <= sent[fn].size
    /\ ToScan = <<fn, Len(payload) + 1>>
    /\ \A i \in DOMAIN payload : payload[i] = <<fn, i>>
    /\ Whole

\* Only calls whose first line has been scanned, or at least its beginning, have
\* been executed, and not the one being read.
Behind ==
  \A e \in executed :
    /\ e.call \in 1..Len(sent)
    /\ e.call < ToScan[1] \/ (e.call = ToScan[1] /\ (ToScan[2] > 0 \/ ~Whole))
    /\ pc = "payload" => e.call # fn

FunctionInv == FunctionTypes /\ Stream /\ Reading /\ Behind /\ OwnPayload
-----------------------------------------------------------------------------
\* What Append, Tail, SubSeq and \o return.
LEMMA LenFacts ==
  ASSUME NEW S, NEW s \in Seq(S)
  PROVE  /\ Len(s) \in Nat /\ DOMAIN s = 1..Len(s) /\ (s = <<>> <=> Len(s) = 0)
         /\ \A i \in 1..Len(s) : s[i] \in S
OBVIOUS

LEMMA AppendFacts ==
  ASSUME NEW S, NEW s \in Seq(S), NEW e \in S
  PROVE  /\ Append(s, e) \in Seq(S) /\ Len(s) \in Nat /\ DOMAIN s = 1..Len(s)
         /\ Len(Append(s, e)) = Len(s) + 1 /\ DOMAIN Append(s, e) = 1..(Len(s) + 1)
         /\ Append(s, e)[Len(s) + 1] = e
         /\ \A i \in 1..Len(s) : Append(s, e)[i] = s[i]
         /\ s = <<>> <=> Len(s) = 0
         /\ Append(s, e) # <<>>
OBVIOUS

LEMMA TailFacts ==
  ASSUME NEW S, NEW s \in Seq(S), s # <<>>
  PROVE  /\ Tail(s) \in Seq(S) /\ Len(s) \in Nat /\ Len(s) >= 1 /\ DOMAIN s = 1..Len(s)
         /\ Len(Tail(s)) = Len(s) - 1 /\ DOMAIN Tail(s) = 1..(Len(s) - 1)
         /\ \A i \in 1..(Len(s) - 1) : Tail(s)[i] = s[i + 1]
         /\ s[1] \in S /\ Head(s) = s[1]
         /\ Tail(s) = <<>> <=> Len(s) = 1
<1>1. Len(s) \in Nat /\ Len(s) >= 1 /\ DOMAIN s = 1..Len(s) /\ s[1] \in S /\ Head(s) = s[1]
  OBVIOUS
<1>2. Tail(s) \in Seq(S) /\ Len(Tail(s)) = Len(s) - 1 /\ DOMAIN Tail(s) = 1..(Len(s) - 1)
  OBVIOUS
<1>3. \A i \in 1..(Len(s) - 1) : Tail(s)[i] = s[i + 1]
  OBVIOUS
<1>4. Tail(s) = <<>> <=> Len(s) = 1
  <2>1. Tail(s) = <<>> <=> Len(Tail(s)) = 0
    BY <1>2, LenFacts, Zenon
  <2> QED BY <1>1, <1>2, <2>1
<1> QED BY <1>1, <1>2, <1>3, <1>4, Zenon

LEMMA ConcatFacts ==
  ASSUME NEW S, NEW s \in Seq(S), NEW t \in Seq(S)
  PROVE  /\ s \o t \in Seq(S) /\ Len(s \o t) = Len(s) + Len(t)
         /\ \A i \in 1..(Len(s) + Len(t)) :
              (s \o t)[i] = IF i <= Len(s) THEN s[i] ELSE t[i - Len(s)]
OBVIOUS

\* b is the first k elements of s and r the rest.
Parts(S, s, k, b, r) ==
  /\ b \in Seq(S) /\ r \in Seq(S)
  /\ Len(s) \in Nat /\ DOMAIN s = 1..Len(s)
  /\ Len(b) = k /\ DOMAIN b = 1..k
  /\ Len(r) = Len(s) - k /\ DOMAIN r = 1..(Len(s) - k)
  /\ \A i \in 1..k : b[i] = s[i]
  /\ \A i \in 1..(Len(s) - k) : r[i] = s[i + k]
  /\ b # <<>> /\ (r = <<>> <=> k = Len(s))

LEMMA SubSeqFacts ==
  ASSUME NEW S, NEW s \in Seq(S), NEW k \in 1..Len(s)
  PROVE  Parts(S, s, k, SubSeq(s, 1, k), SubSeq(s, k + 1, Len(s)))
<1> DEFINE b == SubSeq(s, 1, k)
           r == SubSeq(s, k + 1, Len(s))
<1>1. Len(s) \in Nat /\ DOMAIN s = 1..Len(s)
  OBVIOUS
<1>2. b \in Seq(S) /\ Len(b) = k /\ DOMAIN b = 1..k
  OBVIOUS
<1>3. r \in Seq(S) /\ Len(r) = Len(s) - k /\ DOMAIN r = 1..(Len(s) - k)
  OBVIOUS
<1>4. \A i \in 1..k : b[i] = s[i]
  OBVIOUS
<1>5. \A i \in 1..(Len(s) - k) : r[i] = s[i + k]
  OBVIOUS
<1> HIDE DEF b, r
<1>6. b # <<>> /\ (r = <<>> <=> k = Len(s))
  <2>1. (b = <<>> <=> Len(b) = 0) /\ (r = <<>> <=> Len(r) = 0)
    BY <1>2, <1>3, LenFacts, Zenon
  <2>2. \A n \in Nat : \A j \in 1..n : j # 0 /\ (n - j = 0 <=> j = n)
    OBVIOUS
  <2> QED BY <1>1, <1>2, <1>3, <2>1, <2>2, Zenon
<1> QED BY <1>1, <1>2, <1>3, <1>4, <1>5, <1>6, Zenon DEF Parts, b, r
-----------------------------------------------------------------------------
\* Netdata sends a line, or the scanner fills its buffer: the next line to be
\* scanned is the same.
LEMMA SendCallStream ==
  ASSUME FunctionTypes, Stream, NEW n \in -1..MaxPayload, NEW known \in BOOLEAN, SendCall(n, known)
  PROVE  /\ FunctionTypes' /\ Stream' /\ ToScan' = ToScan /\ (Whole <=> Whole')
         /\ \A c \in 1..Len(sent) : c \in 1..Len(sent') /\ sent'[c] = sent[c]
         /\ UNCHANGED <<pc, fn, payload, executed>>
<1> DEFINE new == [size |-> n, known |-> known]
<1>0. n \in Int /\ n >= -1 /\ new \in Calls /\ sent \in Seq(Calls) /\ input \in Seq(Lines)
  BY FunctionAssumption DEF FunctionTypes, Calls
<1>1. /\ sent' = Append(sent, new) /\ sending = 0 /\ sending' = n + 1
      /\ UNCHANGED <<buffer, cancelled, pc, fn, payload, executed, reloads>>
  BY Zenon DEF SendCall
<1>a. new.size = n
  OBVIOUS
<1> HIDE DEF new
<1>2. /\ Len(sent') = Len(sent) + 1 /\ Len(sent) \in Nat
      /\ sent'[Len(sent) + 1] = new
      /\ \A c \in 1..Len(sent) : sent'[c] = sent[c]
      /\ sent' \in Seq(Calls)
  BY <1>0, <1>1, AppendFacts
<1>b. PICK kind \in {IF n = -1 THEN "call" ELSE "begin", "malformed"} :
        input' = Append(input, [kind |-> kind, call |-> Len(sent'), n |-> 0])
  BY Zenon DEF SendCall, Line
<1>c. PICK line \in Lines : /\ input' = Append(input, line)
                           /\ line.kind = kind /\ line.call = Len(sent) + 1 /\ line.n = 0
  <2>1. [kind |-> kind, call |-> Len(sent'), n |-> 0] \in Lines
    BY <1>2 DEF Lines, Kind
  <2> QED BY <1>2, <1>b, <2>1, Zenon
<1>3. /\ Len(input') = Len(input) + 1 /\ Len(input) \in Nat
      /\ DOMAIN input' = 1..(Len(input) + 1) /\ DOMAIN input = 1..Len(input)
      /\ input'[Len(input) + 1] = line
      /\ \A i \in 1..Len(input) : input'[i] = input[i]
      /\ input = <<>> <=> Len(input) = 0
      /\ input' # <<>> /\ input' \in Seq(Lines)
  BY <1>0, <1>c, AppendFacts
<1>d. \A c \in 1..Len(sent) : sent[c].size \in Int /\ sent[c].size >= -1
  <2>1. \A c \in 1..Len(sent) : sent[c] \in Calls
    BY <1>0, LenFacts, Zenon
  <2> QED BY <2>1, Zenon DEF FunctionTypes, Calls
<1>4. FunctionTypes'
  <2>1. \A c \in 1..Len(sent') : sent'[c].size >= -1
    <3>1. \A c \in 1..(Len(sent) + 1) : c \in 1..Len(sent) \/ c = Len(sent) + 1
      BY <1>2
    <3> QED BY <1>0, <1>a, <1>2, <1>d, <3>1, Zenon
  <2>2. sending' \in Nat /\ (sending' > 0 => Len(sent') > 0 /\ sending' <= sent'[Len(sent')].size + 1)
    BY <1>0, <1>a, <1>1, <1>2
  <2> QED BY <1>1, <1>2, <1>3, <2>1, <2>2, Zenon DEF FunctionTypes
<1> DEFINE k == Len(sent)
           m == Len(input)
<1>e. /\ k \in Nat /\ m \in Nat /\ Len(sent') = k + 1 /\ sent'[k + 1].size = n
      /\ \A c \in 1..k : sent'[c] = sent[c] /\ sent[c].size \in Int
      /\ Len(input') = m + 1 /\ input'[m + 1] = line /\ line.call = k + 1
      /\ DOMAIN input' = 1..(m + 1) /\ DOMAIN input = 1..m
      /\ \A i \in 1..m : input'[i] = input[i]
      /\ (input = <<>> <=> m = 0) /\ ToSend = <<k + 1, 0>>
  BY <1>1, <1>2, <1>3, <1>a, <1>c, <1>d DEF ToSend
<1>f. ToSend' = After(line.call, line.n)'
  <2>1. CASE n = -1
    BY <1>1, <1>c, <1>e, <2>1 DEF ToSend, After
  <2>2. CASE n >= 0
    BY <1>0, <1>1, <1>c, <1>e, <2>2 DEF ToSend, After
  <2> QED BY <1>0, <2>1, <2>2
<1>7. \A l \in Lines : Fits(l) => Fits(l)' /\ After(l.call, l.n)' = After(l.call, l.n)
  <2>1. \A c \in 1..Len(sent) : c \in 1..Len(sent') /\ sent'[c] = sent[c]
    BY <1>e
  <2> QED BY <2>1 DEF Fits, After
<1>g. Fits(line)'
  <2>1. line.call \in 1..Len(sent') /\ line.n <= sent'[line.call].size + 1
    BY <1>0, <1>c, <1>e
  <2>2. line.kind \in {"call", "begin", "malformed"} /\ (line.kind = "call" => n = -1)
        /\ (line.kind = "begin" => n >= 0)
    BY <1>0, <1>b, <1>c
  <2> QED BY <1>c, <1>e, <2>1, <2>2, Zenon DEF Fits
<1> HIDE DEF k, m
<1>6. ToRead' = ToRead /\ ToScan' = ToScan
  <2>1. ToRead' = ToRead
    <3>1. CASE input = <<>>
      BY <1>3, <1>c, <1>e, <3>1 DEF ToRead, Place
    <3>2. CASE input # <<>>
      BY <1>3, <1>e, <3>2 DEF ToRead, Place
    <3> QED BY <3>1, <3>2, Zenon
  <2> QED BY <1>1, <2>1, Zenon DEF ToScan, Place
<1>8. Stream'
  <2>1. ASSUME NEW i \in DOMAIN buffer'
        PROVE  /\ Fits(buffer[i])' /\ (i > 1 => buffer'[i].kind # "rest")
               /\ After(buffer[i].call, buffer[i].n)' =
                    IF i = Len(buffer') THEN ToRead' ELSE Place(buffer[i + 1])'
    <3>1. buffer[i] \in Lines /\ i \in DOMAIN buffer /\ buffer' = buffer
      BY <1>1, <2>1 DEF FunctionTypes
    <3> QED BY <1>6, <1>7, <3>1, Zenon DEF Stream, Place
  <2>2. ASSUME NEW i \in DOMAIN input'
        PROVE  /\ Fits(input[i])' /\ (i > 1 \/ buffer' # <<>> => input'[i].kind # "rest")
               /\ After(input[i].call, input[i].n)' =
                    IF i = Len(input') THEN ToSend' ELSE Place(input[i + 1])'
    <3>1. CASE i = m + 1
      BY <1>c, <1>e, <1>f, <1>g, <3>1, Zenon
    <3>2. CASE i \in 1..m
      <4>1. i \in DOMAIN input /\ input'[i] = input[i] /\ input[i] \in Lines /\ i # Len(input')
        BY <1>0, <1>e, <3>2
      <4>2. IF i = m THEN After(input[i].call, input[i].n) = ToSend
            ELSE After(input[i].call, input[i].n) = Place(input[i + 1]) /\ input'[i + 1] = input[i + 1]
        BY <1>e, <3>2, <4>1 DEF Stream, m
      <4>3. After(input[i].call, input[i].n) = Place(input[i + 1])'
        BY <1>c, <1>e, <4>2, Zenon DEF Place
      <4> QED BY <1>1, <1>7, <4>1, <4>3, Zenon DEF Stream
    <3> QED BY <1>e, <3>1, <3>2
  <2> QED BY <2>1, <2>2, Zenon DEF Stream
<1>9. Whole <=> Whole'
  <2>1. CASE input = <<>>
    BY <1>1, <1>b, <1>c, <1>e, <2>1 DEF Whole
  <2>2. CASE input # <<>>
    BY <1>1, <1>e, <2>2 DEF Whole
  <2> QED BY <2>1, <2>2, Zenon
<1> QED BY <1>1, <1>2, <1>4, <1>6, <1>8, <1>9

LEMMA SendPayloadStream ==
  ASSUME FunctionTypes, Stream, SendPayload
  PROVE  /\ FunctionTypes' /\ Stream' /\ ToScan' = ToScan /\ (Whole <=> Whole')
         /\ UNCHANGED <<sent, pc, fn, payload, executed>>
<1> DEFINE c == Len(sent)
           m == Len(input)
<1>0. sent \in Seq(Calls) /\ input \in Seq(Lines)
  BY Zenon DEF FunctionTypes
<1>1. /\ sending > 0 /\ sending' = sending - 1
      /\ UNCHANGED <<sent, buffer, pc, fn, payload, executed>>
  BY Zenon DEF SendPayload, Line
<1>2. c \in Nat /\ c > 0 /\ sent[c].size \in Int /\ sending \in Nat /\ sending <= sent[c].size + 1
  <2>1. c \in Nat /\ c > 0 /\ sending \in Nat /\ sending <= sent[c].size + 1
    BY <1>0, <1>1 DEF FunctionTypes
  <2>2. sent[c] \in Calls
    BY <1>0, <2>1, LenFacts
  <2> QED BY <2>1, <2>2, Zenon DEF Calls
<1>3. PICK line \in Lines : /\ input' = Append(input, line)
                           /\ line.call = c /\ line.n = sent[c].size + 2 - sending
                           /\ line.kind = IF sending = 1 THEN "end" ELSE "data"
  <2> DEFINE l == [kind |-> IF sending = 1 THEN "end" ELSE "data", call |-> c,
                   n |-> sent[c].size + 2 - sending]
  <2>1. sent[c].size + 2 - sending \in Nat
    BY <1>2
  <2>2. l \in Lines
    BY <1>2, <2>1, Zenon DEF Lines, Kind
  <2>3. input' = Append(input, l)
    BY Zenon DEF SendPayload, Line
  <2> QED BY <2>2, <2>3, Zenon
<1> HIDE DEF c
<1>4. /\ m \in Nat /\ Len(input') = m + 1 /\ input'[m + 1] = line
      /\ DOMAIN input' = 1..(m + 1) /\ DOMAIN input = 1..m
      /\ \A i \in 1..m : input'[i] = input[i]
      /\ (input = <<>> <=> m = 0) /\ input' # <<>> /\ input' \in Seq(Lines)
  BY <1>0, <1>1, <1>3, AppendFacts
<1> HIDE DEF m
<1>5. FunctionTypes'
  BY <1>1, <1>2, <1>4, SMTT(30) DEF FunctionTypes, c
<1>6. ToSend = Place(line) /\ ToSend' = After(line.call, line.n)
  <2>1. ToSend = <<c, sent[c].size + 2 - sending>>
    BY <1>1, Zenon DEF ToSend, c
  <2>2. ToSend' = IF sending' > 0 THEN <<c, sent[c].size + 2 - sending'>> ELSE <<c + 1, 0>>
    BY <1>1, Zenon DEF ToSend, c
  <2>3. \A z \in Int, w \in Nat \ {0} :
          IF w - 1 > 0 THEN z + 2 - w <= z /\ z + 2 - (w - 1) = (z + 2 - w) + 1
                       ELSE ~(z + 2 - w <= z)
    OBVIOUS
  <2>4. After(line.call, line.n) = IF sending' > 0 THEN <<c, sent[c].size + 2 - sending'>> ELSE <<c + 1, 0>>
    <3>1. CASE sending - 1 > 0
      BY <1>1, <1>2, <1>3, <2>3, <3>1 DEF After
    <3>2. CASE ~(sending - 1 > 0)
      BY <1>1, <1>2, <1>3, <2>3, <3>2 DEF After
    <3> QED BY <3>1, <3>2, Zenon
  <2> QED BY <1>3, <2>1, <2>2, <2>4, Zenon DEF Place
<1>7. \A l : Fits(l)' = Fits(l) /\ After(l.call, l.n)' = After(l.call, l.n)
  BY <1>1 DEF Fits, After
<1>8. Fits(line)
  <2>1. c \in 1..Len(sent)
    BY <1>2 DEF c
  <2> QED BY <1>1, <1>2, <1>3, <2>1, SMTT(30) DEF Fits
<1>9. ToRead' = ToRead /\ ToScan' = ToScan
  <2>1. ToRead' = ToRead
    BY <1>4, <1>6 DEF ToRead, Place
  <2> QED BY <1>1, <2>1, Zenon DEF ToScan, Place
<1>10. Stream'
  <2>1. ASSUME NEW i \in DOMAIN buffer'
        PROVE  /\ Fits(buffer[i])' /\ (i > 1 => buffer'[i].kind # "rest")
               /\ After(buffer[i].call, buffer[i].n)' =
                    IF i = Len(buffer') THEN ToRead' ELSE Place(buffer[i + 1])'
    BY <1>1, <1>7, <1>9, Zenon DEF Stream, Place
  <2>2. ASSUME NEW i \in DOMAIN input'
        PROVE  /\ Fits(input[i])' /\ (i > 1 \/ buffer' # <<>> => input'[i].kind # "rest")
               /\ After(input[i].call, input[i].n)' =
                    IF i = Len(input') THEN ToSend' ELSE Place(input[i + 1])'
    <3>1. CASE i = m + 1
      BY <1>3, <1>4, <1>6, <1>7, <1>8, <3>1, Zenon
    <3>2. CASE i \in 1..m
      <4>1. i \in DOMAIN input /\ input'[i] = input[i] /\ i # Len(input')
        BY <1>4, <3>2
      <4>2. IF i = m THEN After(input[i].call, input[i].n) = ToSend
            ELSE After(input[i].call, input[i].n) = Place(input[i + 1]) /\ input'[i + 1] = input[i + 1]
        BY <1>4, <3>2, <4>1 DEF Stream, m
      <4>3. After(input[i].call, input[i].n) = Place(input[i + 1])'
        BY <1>4, <1>6, <4>2, Zenon DEF Place
      <4> QED BY <1>1, <1>7, <4>1, <4>3, Zenon DEF Stream
    <3> QED BY <1>4, <3>1, <3>2
  <2> QED BY <2>1, <2>2, Zenon DEF Stream
<1>11. Whole <=> Whole'
  BY <1>1, <1>3, <1>4 DEF Whole
<1> QED BY <1>1, <1>5, <1>9, <1>10, <1>11, Zenon

LEMMA ReadStream ==
  ASSUME FunctionTypes, Stream, Read
  PROVE  /\ FunctionTypes' /\ Stream' /\ ToScan' = ToScan /\ (Whole <=> Whole')
         /\ UNCHANGED <<sent, pc, fn, payload, executed>>
<1>0. PICK k \in 1..Len(input) : /\ buffer' = SubSeq(input, 1, k)
                                 /\ input' = SubSeq(input, k + 1, Len(input))
  BY Zenon DEF Read
<1>1. buffer = <<>> /\ UNCHANGED <<sent, sending, pc, fn, payload, executed>>
  BY Zenon DEF Read, netdataVars
<1> DEFINE m == Len(input)
<1>2. input \in Seq(Lines)
  BY Zenon DEF FunctionTypes
<1>3. /\ m \in Nat /\ k \in Nat /\ 1 <= k /\ k <= m /\ DOMAIN input = 1..m
      /\ Len(buffer') = k /\ DOMAIN buffer' = 1..k /\ Len(input') = m - k /\ DOMAIN input' = 1..(m - k)
      /\ \A i \in 1..k : buffer'[i] = input[i]
      /\ \A i \in 1..(m - k) : input'[i] = input[i + k]
      /\ buffer' # <<>> /\ (input' = <<>> <=> k = m)
      /\ buffer' \in Seq(Lines) /\ input' \in Seq(Lines)
  <2>1. m \in Nat
    BY <1>2, LenFacts, Zenon
  <2>2. k \in Nat /\ 1 <= k /\ k <= m
    BY <2>1
  <2>3. Parts(Lines, input, k, buffer', input')
    BY <1>0, <1>2, SubSeqFacts, Zenon
  <2> QED BY <2>2, <2>3, Zenon DEF Parts
<1>4. FunctionTypes'
  BY <1>1, <1>3, Zenon DEF FunctionTypes
<1> HIDE DEF m
<1>5. ToSend' = ToSend /\ ToScan' = ToScan
  BY <1>0, <1>1, <1>3 DEF ToSend, ToRead, ToScan, Place
<1>6. ToRead' = IF k = m THEN ToSend ELSE Place(input[k + 1])
  BY <1>3, <1>5 DEF ToRead, Place
<1>7. \A l : Fits(l)' = Fits(l) /\ After(l.call, l.n)' = After(l.call, l.n)
  BY <1>1 DEF Fits, After
<1>8. Stream'
  <2>0. ASSUME NEW i \in 1..m
        PROVE  /\ Fits(input[i]) /\ (i > 1 => input[i].kind # "rest")
               /\ After(input[i].call, input[i].n) = IF i = m THEN ToSend ELSE Place(input[i + 1])
    BY <1>3, Zenon DEF Stream, m
  <2>1. ASSUME NEW i \in DOMAIN buffer'
        PROVE  /\ Fits(buffer[i])' /\ (i > 1 => buffer'[i].kind # "rest")
               /\ After(buffer[i].call, buffer[i].n)' =
                    IF i = Len(buffer') THEN ToRead' ELSE Place(buffer[i + 1])'
    <3>1. i \in 1..m /\ buffer'[i] = input[i] /\ (i # k => i # m /\ buffer'[i + 1] = input[i + 1])
      BY <1>3
    <3> QED BY <1>3, <1>6, <1>7, <2>0, <3>1 DEF Place
  <2>2. ASSUME NEW i \in DOMAIN input'
        PROVE  /\ Fits(input[i])' /\ (i > 1 \/ buffer' # <<>> => input'[i].kind # "rest")
               /\ After(input[i].call, input[i].n)' =
                    IF i = Len(input') THEN ToSend' ELSE Place(input[i + 1])'
    <3>1. /\ i + k \in 1..m /\ i + k > 1 /\ input'[i] = input[i + k] /\ (i = m - k <=> i + k = m)
          /\ i # m - k => input'[i + 1] = input[(i + k) + 1]
      <4>1. /\ i \in 1..(m - k) /\ i + k \in 1..m /\ i + k > 1 /\ (i = m - k <=> i + k = m)
            /\ (i + 1) + k = (i + k) + 1
            /\ i # m - k => i + 1 \in 1..(m - k)
        BY <1>3
      <4> QED BY <1>3, <4>1, Zenon
    <3> QED BY <1>3, <1>5, <1>7, <2>0, <3>1, ZenonT(30) DEF Place
  <2> QED BY <2>1, <2>2, Zenon DEF Stream
<1>9. Whole <=> Whole'
  BY <1>1, <1>3 DEF Whole
<1> QED BY <1>1, <1>4, <1>5, <1>8, <1>9, Zenon

\* Nothing is read or sent: the lines are where they were.
LEMMA SameStream ==
  ASSUME UNCHANGED <<sent, sending, input, buffer>>
  PROVE  ToScan' = ToScan /\ (Stream => Stream') /\ (Whole <=> Whole')
<1>1. ToSend' = ToSend
  BY Zenon DEF ToSend
<1>2. ToRead' = ToRead
  BY <1>1, Zenon DEF ToRead, Place
<1>3. ToScan' = ToScan
  BY <1>2, Zenon DEF ToScan, Place
<1>4. \A l : Fits(l)' = Fits(l)
  BY Zenon DEF Fits
<1>5. \A l : Place(l)' = Place(l)
  BY Zenon DEF Place
<1>6. \A c, n : After(c, n)' = After(c, n)
  BY Zenon DEF After
<1>7. Stream => Stream'
  BY <1>1, <1>2, <1>4, <1>5, <1>6, Zenon DEF Stream
<1>8. Whole <=> Whole'
  BY Zenon DEF Whole
<1> QED BY <1>3, <1>7, <1>8, Zenon

\* A line is scanned: the next one is the one after it, and is whole.
LEMMA ScanStream ==
  ASSUME FunctionTypes, Stream, buffer # <<>>, buffer' = Tail(buffer),
         UNCHANGED <<sent, sending, input>>
  PROVE  /\ buffer[1] \in Lines /\ Head(buffer) = buffer[1]
         /\ Fits(buffer[1]) /\ ToScan = Place(buffer[1])
         /\ buffer' \in Seq(Lines)
         /\ Stream' /\ Whole'
         /\ ToScan' = After(buffer[1].call, buffer[1].n)
<1> DEFINE m == Len(buffer)
<1>1. /\ m \in Nat /\ m >= 1 /\ DOMAIN buffer = 1..m
      /\ Len(buffer') = m - 1 /\ DOMAIN buffer' = 1..(m - 1)
      /\ \A i \in 1..(m - 1) : buffer'[i] = buffer[i + 1]
      /\ (buffer' = <<>> <=> m = 1) /\ buffer' \in Seq(Lines)
      /\ buffer[1] \in Lines /\ Head(buffer) = buffer[1]
  <2>1. buffer \in Seq(Lines)
    BY Zenon DEF FunctionTypes
  <2> QED BY <2>1, TailFacts, Zenon
<1>2. ToSend' = ToSend /\ ToRead' = ToRead /\ ToScan = Place(buffer[1])
  BY Zenon DEF ToSend, ToRead, ToScan, Place
<1>3. ToScan' = After(buffer[1].call, buffer[1].n)
  <2>1. After(buffer[1].call, buffer[1].n) = IF m = 1 THEN ToRead ELSE Place(buffer[2])
    <3>1. 1 \in DOMAIN buffer /\ 1 + 1 = 2
      BY <1>1
    <3>2. After(buffer[1].call, buffer[1].n) = IF 1 = m THEN ToRead ELSE Place(buffer[1 + 1])
      BY <3>1, Zenon DEF Stream
    <3> QED BY <3>1, <3>2, Zenon
  <2>2. m # 1 => buffer'[1] = buffer[2]
    BY <1>1
  <2> QED BY <1>1, <1>2, <2>1, <2>2, Zenon DEF ToScan, Place
<1>4. \A l : Fits(l)' = Fits(l) /\ After(l.call, l.n)' = After(l.call, l.n)
  BY DEF Fits, After
<1>5. Stream'
  <2>1. ASSUME NEW i \in DOMAIN buffer'
        PROVE  /\ Fits(buffer[i])' /\ (i > 1 => buffer'[i].kind # "rest")
               /\ After(buffer[i].call, buffer[i].n)' =
                    IF i = Len(buffer') THEN ToRead' ELSE Place(buffer[i + 1])'
    <3>1. /\ i + 1 \in 1..m /\ buffer'[i] = buffer[i + 1] /\ (i = m - 1 <=> i + 1 = m)
          /\ i # m - 1 => buffer'[i + 1] = buffer[(i + 1) + 1]
          /\ i + 1 > 1
      BY <1>1
    <3>2. /\ Fits(buffer[i + 1]) /\ buffer[i + 1].kind # "rest"
          /\ After(buffer[i + 1].call, buffer[i + 1].n) =
               IF i + 1 = m THEN ToRead ELSE Place(buffer[(i + 1) + 1])
      BY <1>1, <3>1, Zenon DEF Stream
    <3>3. Place(buffer[(i + 1) + 1]) = Place(buffer[i + 1])' \/ i = m - 1
      BY <3>1, Zenon DEF Place
    <3> QED BY <1>1, <1>2, <1>4, <3>1, <3>2, <3>3, Zenon
  <2>2. ASSUME NEW i \in DOMAIN input'
        PROVE  /\ Fits(input[i])' /\ (i > 1 \/ buffer' # <<>> => input'[i].kind # "rest")
               /\ After(input[i].call, input[i].n)' =
                    IF i = Len(input') THEN ToSend' ELSE Place(input[i + 1])'
    BY <1>1, <1>2, <1>4, Zenon DEF Stream, Place
  <2> QED BY <2>1, <2>2, Zenon DEF Stream
<1>6. Whole'
  <2>1. CASE m = 1
    BY <1>1, <2>1 DEF FunctionTypes, Whole, Stream
  <2>2. CASE m # 1
    <3>1. 2 \in DOMAIN buffer /\ 2 > 1 /\ buffer'[1] = buffer[2] /\ buffer' # <<>>
      BY <1>1, <2>2
    <3>2. buffer[2].kind # "rest"
      BY <3>1, Zenon DEF Stream
    <3> QED BY <3>1, <3>2, Zenon DEF Whole
  <2> QED BY <2>1, <2>2, Zenon
<1>7. Fits(buffer[1])
  BY <1>1 DEF Stream
<1> QED BY <1>1, <1>2, <1>3, <1>5, <1>6, <1>7, Zenon

\* The first part of the next line is lost: the rest of it stands in its place.
LEMMA RestStream ==
  ASSUME FunctionTypes, Stream, buffer = <<>>, input # <<>>,
         input' = <<Line("rest", Head(input).call, Head(input).n)>> \o Tail(input),
         UNCHANGED <<sent, sending, buffer>>
  PROVE  /\ input' \in Seq(Lines) /\ Stream' /\ ToScan' = ToScan /\ ToScan = Place(input[1])
         /\ ~Whole'
<1> DEFINE m == Len(input)
<1>1. /\ Tail(input) \in Seq(Lines) /\ m \in Nat /\ m >= 1 /\ DOMAIN input = 1..m
      /\ Len(Tail(input)) = m - 1 /\ \A i \in 1..(m - 1) : Tail(input)[i] = input[i + 1]
      /\ input[1] \in Lines /\ Head(input) = input[1]
  BY TailFacts, Zenon DEF FunctionTypes
<1>2. PICK l \in Lines : /\ input' = <<l>> \o Tail(input)
                         /\ l.kind = "rest" /\ l.call = input[1].call /\ l.n = input[1].n
  <2>1. Line("rest", input[1].call, input[1].n) \in Lines
    BY <1>1, Zenon DEF Line, Lines, Kind
  <2> QED BY <1>1, <2>1, Zenon DEF Line
<1>3. /\ input' \in Seq(Lines) /\ Len(input') = m
      /\ \A i \in 1..m : input'[i] = IF i = 1 THEN l ELSE input[i]
  BY <1>1, <1>2, ConcatFacts
<1>4. DOMAIN input' = 1..m /\ input' # <<>> /\ 1 \in 1..m
  BY <1>1, <1>3, LenFacts
<1> HIDE DEF m
<1>5. \A i \in 1..m : Place(input[i])' = Place(input[i])
  BY <1>2, <1>3, Zenon DEF Place
<1>6. ToSend' = ToSend /\ ToScan' = ToScan /\ ToScan = Place(input[1])
  BY <1>4, <1>5, Zenon DEF ToSend, ToRead, ToScan
<1>7. \A k : Fits(k)' = Fits(k) /\ After(k.call, k.n)' = After(k.call, k.n)
  BY DEF Fits, After
<1>8. Fits(l)
  <2>1. Fits(input[1])
    BY <1>1, <1>4, Zenon DEF Stream
  <2> QED BY <1>2, <2>1, Zenon DEF Fits
<1>9. Stream'
  <2>1. ASSUME NEW i \in DOMAIN input'
        PROVE  /\ Fits(input[i])' /\ (i > 1 \/ buffer' # <<>> => input'[i].kind # "rest")
               /\ After(input[i].call, input[i].n)' =
                    IF i = Len(input') THEN ToSend' ELSE Place(input[i + 1])'
    <3>0. i \in 1..m /\ (i # m => i + 1 \in 1..m)
      BY <1>1, <1>4
    <3>1. After(input[i].call, input[i].n) = IF i = m THEN ToSend ELSE Place(input[i + 1])
      BY <1>1, <3>0, Zenon DEF Stream, m
    <3>2. After(input[i].call, input[i].n)' = After(input[i].call, input[i].n)
      BY <1>2, <1>3, <1>7, <3>0, Zenon
    <3>3. Fits(input[i])' /\ (i > 1 => input'[i].kind # "rest")
      BY <1>1, <1>3, <1>7, <1>8, <3>0 DEF Stream
    <3> QED BY <1>3, <1>5, <1>6, <3>0, <3>1, <3>2, <3>3, Zenon
  <2>2. DOMAIN buffer' = {}
    OBVIOUS
  <2> QED BY <2>1, <2>2, Zenon DEF Stream
<1>10. ~Whole'
  BY <1>2, <1>3, <1>4, Zenon DEF Whole
<1> QED BY <1>3, <1>6, <1>9, <1>10, Zenon

\* Steps that leave the manager, and its next line, alone.
LEMMA FunctionElsewhere ==
  ASSUME FunctionInv, ToScan' = ToScan, Whole <=> Whole',
         \A c \in 1..Len(sent) : c \in 1..Len(sent') /\ sent'[c] = sent[c],
         UNCHANGED <<pc, fn, payload, executed>>
  PROVE  Reading' /\ Behind' /\ OwnPayload'
<1>1. Reading'
  BY Zenon DEF FunctionInv, Reading
<1>2. Behind'
  BY Zenon DEF FunctionInv, Behind
<1>3. OwnPayload'
  BY DEF FunctionInv, Behind, OwnPayload
<1> QED BY <1>1, <1>2, <1>3, Zenon

\* A call that has not been executed is, with its own payload.
LEMMA Executes ==
  ASSUME OwnPayload, NEW c, \A e \in executed : e.call # c, NEW p, NEW cut,
         \A i \in DOMAIN p : p[i] = <<c, i>>,
         cut \/ Len(p) = (IF sent[c].size = -1 THEN 0 ELSE sent[c].size),
         sent' = sent, Execute(c, p, cut)
  PROVE  OwnPayload' /\ \A e \in executed' : e \in executed \/ e.call = c
<1>1. CASE sent[c].known
  <2>1. PICK new : /\ executed' = executed \cup {new}
                   /\ new.call = c /\ new.payload = p /\ new.cut = cut
    <3> DEFINE r == [call |-> c, payload |-> p, cut |-> cut]
    <3>1. executed' = executed \cup {r}
      BY <1>1, Zenon DEF Execute
    <3>2. r.call = c /\ r.payload = p /\ r.cut = cut
      OBVIOUS
    <3> HIDE DEF r
    <3> QED BY <3>1, <3>2, Zenon
  <2>2. \A e \in executed' : e \in executed \/ e = new
    BY <2>1, Zenon
  <2>3. ASSUME NEW e \in executed'
        PROVE  /\ \A d \in executed' : d.call = e.call => d = e
               /\ \A i \in DOMAIN e.payload : e.payload[i] = <<e.call, i>>
               /\ e.cut \/ Len(e.payload) = (IF sent[e.call].size = -1 THEN 0 ELSE sent[e.call].size)
    BY <2>1, <2>2, Zenon DEF OwnPayload
  <2> QED BY <2>1, <2>2, <2>3, Zenon DEF OwnPayload
<1>2. CASE ~sent[c].known
  BY <1>2, Zenon DEF Execute, OwnPayload
<1> QED BY <1>1, <1>2, Zenon

\* A line outside a payload.
LEMMA ScanLineStep == FunctionInv /\ ScanLine => FunctionInv'
<1> SUFFICES ASSUME FunctionInv, ScanLine PROVE FunctionInv'
  OBVIOUS
<1> DEFINE l == buffer[1]
<1>1. /\ pc = "scan" /\ buffer # <<>> /\ buffer' = Tail(buffer) /\ UNCHANGED <<sent, sending, input>>
      /\ payload' = <<>>
  BY Zenon DEF ScanLine, netdataVars, NewBuffer
<1>0. FunctionTypes /\ Stream /\ Reading /\ Behind /\ OwnPayload
  BY Zenon DEF FunctionInv
<1>2. /\ l \in Lines /\ Head(buffer) = l /\ Fits(l) /\ ToScan = Place(l)
      /\ buffer' \in Seq(Lines) /\ Stream' /\ Whole' /\ ToScan' = After(l.call, l.n)
  BY <1>0, <1>1, ScanStream, Zenon
<1> HIDE DEF l
<1>3. /\ IF l.kind = "call" THEN Execute(l.call, <<>>, FALSE) ELSE executed' = executed
      /\ pc' = (IF l.kind = "begin" THEN "payload" ELSE "scan")
      /\ fn' = (IF l.kind = "begin" THEN l.call ELSE 0)
  BY <1>2, Zenon DEF ScanLine
<1>4. /\ l.call \in Nat /\ l.n \in Nat /\ l.call \in 1..Len(sent) /\ sent[l.call].size \in Int
      /\ ToScan[1] = l.call /\ ToScan[2] = l.n
  <2>1. sent[l.call] \in Calls
    BY <1>0, <1>2, LenFacts, Zenon DEF Fits, FunctionTypes
  <2> QED BY <1>2, <2>1, Zenon DEF Lines, Calls, Fits, Place
<1>5. \A e \in executed : l.n = 0 /\ l.kind # "rest" => e.call # l.call
  <2>1. l.kind # "rest" => Whole
    BY <1>1, Zenon DEF Whole, l
  <2> QED BY <1>0, <1>4, <2>1 DEF Behind
<1>6. OwnPayload' /\ \A e \in executed' : e \in executed \/ (l.kind = "call" /\ e.call = l.call)
  <2>1. CASE l.kind = "call"
    <3>1. Execute(l.call, <<>>, FALSE) /\ l.n = 0 /\ sent[l.call].size = -1
      BY <1>2, <1>3, <2>1, Zenon DEF Fits
    <3>2. DOMAIN <<>> = {} /\ Len(<<>>) = 0
      OBVIOUS
    <3>3. OwnPayload' /\ \A e \in executed' : e \in executed \/ e.call = l.call
      BY <1>0, <1>1, <1>5, <2>1, <3>1, <3>2, Executes, Zenon
    <3> QED BY <2>1, <3>3, Zenon
  <2>2. CASE l.kind # "call"
    BY <1>0, <1>1, <1>3, <2>2, Zenon DEF OwnPayload
  <2> QED BY <2>1, <2>2, Zenon
<1>7. FunctionTypes'
  BY <1>0, <1>1, <1>2, <1>3 DEF FunctionTypes
<1>8. Reading'
  <2> SUFFICES ASSUME pc' = "payload" PROVE Reading'
    BY Zenon DEF Reading
  <2>1. l.kind = "begin" /\ fn' = l.call
    BY <1>3, Zenon
  <2>2. l.n = 0 /\ sent[l.call].size >= 0
    BY <1>2, <2>1, Zenon DEF Fits
  <2>3. ToScan' = <<l.call, 1>> /\ Len(payload') = 0 /\ DOMAIN payload' = {}
    BY <1>1, <1>2, <1>4, <2>2 DEF After
  <2> QED BY <1>1, <1>2, <1>4, <2>1, <2>2, <2>3 DEF Reading
<1>9. Behind'
  <2> SUFFICES ASSUME NEW e \in executed'
               PROVE  /\ e.call \in 1..Len(sent)
                      /\ e.call < ToScan'[1] \/ (e.call = ToScan'[1] /\ ToScan'[2] > 0)
                      /\ pc' = "payload" => e.call # fn'
    BY <1>1, Zenon DEF Behind
  <2>1. CASE e \in executed
    BY <1>0, <1>2, <1>3, <1>4, <1>5, <2>1 DEF Behind, After, Fits
  <2>2. CASE l.kind = "call" /\ e.call = l.call
    BY <1>2, <1>3, <1>4, <2>2 DEF After, Fits
  <2> QED BY <1>6, <2>1, <2>2, Zenon
<1> QED BY <1>2, <1>6, <1>7, <1>8, <1>9, Zenon DEF FunctionInv

\* A line of a payload, or the line that closes it.
LEMMA ScanPayloadStep == FunctionInv /\ ScanPayload => FunctionInv'
<1> SUFFICES ASSUME FunctionInv, ScanPayload PROVE FunctionInv'
  OBVIOUS
<1> DEFINE l == buffer[1]
           k == Len(payload)
<1>1. pc = "payload" /\ buffer # <<>> /\ buffer' = Tail(buffer) /\ UNCHANGED <<sent, sending, input>>
  BY Zenon DEF ScanPayload, netdataVars
<1>0. FunctionTypes /\ Stream /\ Reading /\ Behind /\ OwnPayload
  BY Zenon DEF FunctionInv
<1>2. /\ l \in Lines /\ Head(buffer) = l /\ Fits(l) /\ ToScan = Place(l)
      /\ buffer' \in Seq(Lines) /\ Stream' /\ Whole' /\ ToScan' = After(l.call, l.n)
  BY <1>0, <1>1, ScanStream, Zenon
<1>3. /\ fn \in 1..Len(sent) /\ k <= sent[fn].size /\ ToScan = <<fn, k + 1>>
      /\ \A i \in DOMAIN payload : payload[i] = <<fn, i>>
      /\ l.kind # "rest"
  BY <1>0, <1>1, Zenon DEF Reading, Whole
<1>4. payload \in Seq(Nat \X Nat) /\ k \in Nat
  BY <1>0, LenFacts, Zenon DEF FunctionTypes
<1> HIDE DEF l, k
<1>5. l.call = fn /\ l.n = k + 1 /\ fn \in Nat /\ sent[fn].size \in Int
  <2>1. l.call = fn /\ l.n = k + 1
    BY <1>2, <1>3 DEF Place
  <2>2. sent[fn] \in Calls
    BY <1>0, <1>3, LenFacts, Zenon DEF FunctionTypes
  <2> QED BY <1>2, <2>1, <2>2, Zenon DEF Lines, Calls
<1>6. l.kind \in {"data", "end"}
  BY <1>2, <1>3, <1>4, <1>5, SMTT(20) DEF Fits, Lines, Kind
<1>7. \A e \in executed : e.call \in 1..Len(sent) /\ e.call < fn
  BY <1>0, <1>1, <1>3, Zenon DEF Behind
<1>8. CASE l.kind = "end"
  <2>1. Execute(fn, payload, FALSE) /\ pc' = "scan" /\ fn' = 0 /\ payload' = payload
    BY <1>2, <1>8, Zenon DEF ScanPayload
  <2>2. sent[fn].size = k /\ sent[fn].size >= 0
    <3>1. sent[fn].size >= 0 /\ k + 1 = sent[fn].size + 1
      BY <1>2, <1>5, <1>8, Zenon DEF Fits
    <3>2. k \in Nat /\ sent[fn].size \in Int
      BY <1>4, <1>5, Zenon
    <3> QED BY <3>1, <3>2
  <2>3. OwnPayload' /\ \A e \in executed' : e \in executed \/ e.call = fn
    <3>1. Len(payload) = IF sent[fn].size = -1 THEN 0 ELSE sent[fn].size
      BY <1>5, <2>2 DEF k
    <3>2. \A e \in executed : e.call # fn
      BY <1>0, <1>1, Zenon DEF Behind
    <3> QED BY <1>0, <1>1, <1>3, <2>1, <3>1, <3>2, Executes, Zenon
  <2>4. ToScan' = <<fn + 1, 0>>
    BY <1>2, <1>4, <1>5, <2>2 DEF After
  <2>5. Behind'
    BY <1>1, <1>3, <1>5, <1>7, <2>1, <2>3, <2>4 DEF Behind
  <2>6. FunctionTypes' /\ Reading'
    BY <1>0, <1>1, <1>2, <2>1, Zenon DEF FunctionTypes, Reading
  <2> QED BY <1>2, <2>3, <2>5, <2>6, Zenon DEF FunctionInv
<1>9. CASE l.kind = "data"
  <2>1. payload' = Append(payload, <<fn, k + 1>>) /\ UNCHANGED <<pc, fn, executed>>
    BY <1>2, <1>5, <1>9, Zenon DEF ScanPayload
  <2>2. k + 1 <= sent[fn].size
    BY <1>2, <1>4, <1>5, <1>9, SMTT(20) DEF Fits
  <2>3. <<fn, k + 1>> \in Nat \X Nat
    BY <1>4, <1>5
  <2>4. /\ payload' \in Seq(Nat \X Nat) /\ Len(payload') = k + 1 /\ DOMAIN payload' = 1..(k + 1)
        /\ payload'[k + 1] = <<fn, k + 1>> /\ DOMAIN payload = 1..k
        /\ \A i \in 1..k : payload'[i] = payload[i]
    BY <1>4, <2>1, <2>3, AppendFacts DEF k
  <2>5. \A i \in DOMAIN payload' : payload'[i] = <<fn, i>>
    <3>1. \A i \in 1..(k + 1) : i \in 1..k \/ i = k + 1
      BY <1>4
    <3> QED BY <1>3, <2>4, <3>1, Zenon
  <2>6. ToScan' = <<fn, (k + 1) + 1>>
    BY <1>2, <1>5, <2>2, Zenon DEF After
  <2>7. Reading'
    BY <1>1, <1>2, <1>3, <2>1, <2>2, <2>4, <2>5, <2>6, Zenon DEF Reading
  <2>8. Behind'
    BY <1>1, <1>3, <1>5, <1>7, <2>1, <2>6 DEF Behind
  <2>9. FunctionTypes'
    BY <1>0, <1>1, <1>2, <2>1, <2>4, Zenon DEF FunctionTypes
  <2>10. OwnPayload'
    BY <1>0, <1>1, <2>1, Zenon DEF OwnPayload
  <2> QED BY <1>2, <2>7, <2>8, <2>9, <2>10, Zenon DEF FunctionInv
<1> QED BY <1>6, <1>8, <1>9, Zenon

\* A call that is cut short is one, with what there is of its payload.
LEMMA CutShortFacts ==
  ASSUME NEW c, NEW p
  PROVE  \A e \in CutShort(c, p) : /\ e.call = c /\ e.payload = p /\ e.cut
                                   /\ \A d \in CutShort(c, p) : d = e
BY DEF CutShort

\* At most one call: the one whose lines are being scanned, with lines of its own.
Joins(calls) ==
  \A e \in calls :
    /\ e.call \in 1..Len(sent) /\ \A d \in executed : d.call # e.call
    /\ e.call = ToScan[1] /\ (ToScan[2] > 0 \/ ~Whole')
    /\ \A i \in DOMAIN e.payload : e.payload[i] = <<e.call, i>>
    /\ e.cut /\ \A d \in calls : d = e

\* The scanner ends, and a call that has not been executed may be.
LEMMA EndStep ==
  ASSUME FunctionInv, NEW p, NEW calls, EndWith(p, calls), p \in Seq(Nat \X Nat),
         Joins(calls), ToScan' = ToScan, Whole' => Whole, input' \in Seq(Lines)
  PROVE  FunctionTypes' /\ Reading' /\ Behind' /\ OwnPayload'
<1>0. FunctionTypes /\ Reading /\ Behind /\ OwnPayload
  BY Zenon DEF FunctionInv
<1>1. pc' = "ended" /\ payload' = p /\ UNCHANGED <<sent, sending, buffer>>
  BY Zenon DEF EndWith, netdataVars
<1>2. FunctionTypes' /\ Reading'
  BY <1>0, <1>1, Zenon DEF FunctionTypes, Reading
<1>3. \A e \in executed' : e \in executed \/ e \in calls
  BY Zenon DEF EndWith
<1>4. OwnPayload'
  <2>1. ASSUME NEW e \in executed'
        PROVE  /\ \A d \in executed' : d.call = e.call => d = e
               /\ \A i \in DOMAIN e.payload : e.payload[i] = <<e.call, i>>
               /\ e.cut \/ Len(e.payload) = (IF sent[e.call].size = -1 THEN 0 ELSE sent[e.call].size)
    BY <1>0, <1>3, Zenon DEF OwnPayload, Joins
  <2> QED BY <1>1, <2>1, Zenon DEF OwnPayload
<1>5. Behind'
  <2> SUFFICES ASSUME NEW e \in executed'
               PROVE  /\ e.call \in 1..Len(sent)
                      /\ e.call < ToScan[1] \/ (e.call = ToScan[1] /\ (ToScan[2] > 0 \/ ~Whole'))
    BY <1>1, Zenon DEF Behind
  <2>1. CASE e \in executed
    BY <1>0, <2>1, Zenon DEF Behind
  <2>2. CASE e \in calls
    BY <2>2, Zenon DEF Joins
  <2> QED BY <1>3, <2>1, <2>2, Zenon
<1> QED BY <1>2, <1>4, <1>5, Zenon

\* A call that is interrupted joins the executed ones.
LEMMA InterruptedFacts ==
  ASSUME FunctionInv, NEW p, pc = "payload" => \A i \in DOMAIN p : p[i] = <<fn, i>>
  PROVE  Joins(Interrupted(p))
<1> SUFFICES ASSUME NEW e \in Interrupted(p)
             PROVE  /\ e.call \in 1..Len(sent) /\ \A d \in executed : d.call # e.call
                    /\ e.call = ToScan[1] /\ ToScan[2] > 0
                    /\ \A i \in DOMAIN e.payload : e.payload[i] = <<e.call, i>>
                    /\ e.cut /\ \A d \in Interrupted(p) : d = e
  BY Zenon DEF Joins
<1>1. pc = "payload" /\ Interrupted(p) = CutShort(fn, p)
  BY Zenon DEF Interrupted
<1>2. e.call = fn /\ e.payload = p /\ e.cut /\ \A d \in Interrupted(p) : d = e
  <2>1. e \in CutShort(fn, p) /\ \A d \in Interrupted(p) : d \in CutShort(fn, p)
    BY <1>1, Zenon
  <2>2. e.call = fn /\ e.payload = p /\ e.cut /\ \A d \in CutShort(fn, p) : d = e
    BY <2>1, CutShortFacts, Zenon
  <2> QED BY <2>1, <2>2, Zenon
<1>3. fn \in 1..Len(sent) /\ ToScan = <<fn, Len(payload) + 1>> /\ payload \in Seq(Nat \X Nat)
  BY <1>1, Zenon DEF FunctionInv, Reading, FunctionTypes
<1>4. ToScan[1] = fn /\ ToScan[2] > 0
  BY <1>3, LenFacts
<1>5. \A d \in executed : d.call # fn
  BY <1>1, Zenon DEF FunctionInv, Behind
<1> QED BY <1>1, <1>2, <1>3, <1>4, <1>5, Zenon

\* No step of Netdata, of the scanner or of a reload breaks the invariant.
LEMMA FunctionStep == FunctionInv /\ [Next]_(vars) => FunctionInv'
<1> SUFFICES ASSUME FunctionInv, [Next]_(vars) PROVE FunctionInv'
  OBVIOUS
<1>0. FunctionTypes /\ Stream /\ Reading /\ Behind /\ OwnPayload
  BY Zenon DEF FunctionInv
<1>1. ASSUME NEW n \in -1..MaxPayload, NEW known \in BOOLEAN, SendCall(n, known) PROVE FunctionInv'
  BY <1>0, <1>1, SendCallStream, FunctionElsewhere, Zenon DEF FunctionInv
<1>2. CASE SendPayload \/ Read
  BY <1>0, <1>2, SendPayloadStream, ReadStream, FunctionElsewhere, Zenon DEF FunctionInv
<1>3. CASE ScanLine
  BY <1>3, ScanLineStep, Zenon
<1>4. CASE ScanPayload
  BY <1>4, ScanPayloadStep, Zenon
<1>5. CASE ScanFails
  <2>1. EndWith(payload, Interrupted(payload)) /\ input' = input
    BY <1>5, Zenon DEF ScanFails
  <2>2. UNCHANGED <<sent, sending, buffer>>
    BY <2>1, Zenon DEF EndWith, netdataVars
  <2>3. ToScan' = ToScan /\ Stream' /\ (Whole <=> Whole')
    BY <1>0, <2>1, <2>2, SameStream, Zenon
  <2>4. payload \in Seq(Nat \X Nat) /\ input' \in Seq(Lines)
    BY <1>0, <2>1, Zenon DEF FunctionTypes
  <2>5. pc = "payload" => \A i \in DOMAIN payload : payload[i] = <<fn, i>>
    BY <1>0, Zenon DEF Reading
  <2>6. FunctionTypes' /\ Reading' /\ Behind' /\ OwnPayload'
    <3>1. Joins(Interrupted(payload))
      BY <2>5, InterruptedFacts, Zenon
    <3> QED BY <2>1, <2>3, <2>4, <3>1, EndStep, Zenon
  <2> QED BY <2>3, <2>6, Zenon DEF FunctionInv
<1>6. CASE ScanFailsWithinLine
  <2> DEFINE l == input[1]
             part == Append(payload, <<l.call, l.n>>)
             k == Len(payload)
  <2>1. /\ buffer = <<>> /\ input # <<>>
        /\ input' = <<Line("rest", Head(input).call, Head(input).n)>> \o Tail(input)
    BY <1>6, Zenon DEF ScanFailsWithinLine
  <2>2. UNCHANGED <<sent, sending, buffer>>
    BY <1>6, Zenon DEF ScanFailsWithinLine, EndWith, netdataVars
  <2>3. input' \in Seq(Lines) /\ Stream' /\ ToScan' = ToScan /\ ToScan = Place(l) /\ ~Whole'
    BY <1>0, <2>1, <2>2, RestStream, Zenon
  <2>4. l \in Lines /\ Head(input) = l /\ payload \in Seq(Nat \X Nat) /\ k \in Nat /\ 1 \in DOMAIN input
    BY <1>0, <2>1, TailFacts, LenFacts DEF FunctionTypes
  <2>5. \/ pc = "payload" /\ EndWith(part, Interrupted(part))
        \/ EndWith(payload, Interrupted(payload))
        \/ EndWith(payload, {})
        \/ /\ pc = "scan" /\ l.kind \in {"call", "begin"}
           /\ EndWith(payload, CutShort(l.call, <<>>))
    BY <1>6, <2>4, Zenon DEF ScanFailsWithinLine
  <2>6. pc = "payload" => \A i \in DOMAIN payload : payload[i] = <<fn, i>>
    BY <1>0, Zenon DEF Reading
  <2> HIDE DEF l, part
  <2>7. CASE pc = "payload" /\ EndWith(part, Interrupted(part))
    <3>1. ToScan = <<fn, k + 1>>
      BY <1>0, <2>7, Zenon DEF Reading
    <3>2. <<l.call, l.n>> = <<fn, k + 1>> /\ <<fn, k + 1>> \in Nat \X Nat
      BY <2>3, <2>4, <3>1 DEF Place, Lines
    <3>3. part = Append(payload, <<fn, k + 1>>)
      BY <3>2, Zenon DEF part
    <3>4. /\ part \in Seq(Nat \X Nat) /\ DOMAIN part = 1..(k + 1) /\ part[k + 1] = <<fn, k + 1>>
          /\ DOMAIN payload = 1..k /\ \A i \in 1..k : part[i] = payload[i]
      BY <2>4, <3>2, <3>3, AppendFacts
    <3>5. \A i \in 1..(k + 1) : i \in 1..k \/ i = k + 1
      BY <2>4
    <3>6. \A i \in DOMAIN part : part[i] = <<fn, i>>
      BY <2>6, <2>7, <3>4, <3>5, Zenon
    <3>7. Joins(Interrupted(part))
      BY <2>7, <3>6, InterruptedFacts, Zenon
    <3> QED BY <2>3, <2>7, <3>4, <3>7, EndStep, Zenon DEF FunctionInv
  <2>8. CASE EndWith(payload, Interrupted(payload))
    <3>1. Joins(Interrupted(payload))
      BY <2>6, InterruptedFacts, Zenon
    <3> QED BY <2>3, <2>4, <2>8, <3>1, EndStep, Zenon DEF FunctionInv
  <2>9. CASE EndWith(payload, {})
    <3>1. Joins({})
      BY Zenon DEF Joins
    <3> QED BY <2>3, <2>4, <2>9, <3>1, EndStep, Zenon DEF FunctionInv
  <2>10. CASE l.kind \in {"call", "begin"} /\ EndWith(payload, CutShort(l.call, <<>>))
    <3>1. l.call \in 1..Len(sent) /\ l.n = 0
      <4>1. Fits(l)
        BY <1>0, <2>4, Zenon DEF Stream, l
      <4> QED BY <2>10, <4>1, Zenon DEF Fits
    <3>2. Whole
      BY <2>1, <2>10 DEF Whole, l
    <3>3. ToScan[1] = l.call /\ ToScan[2] = 0
      BY <2>3, <3>1 DEF Place
    <3>4. \A d \in executed : d.call # l.call
      BY <1>0, <2>4, <3>2, <3>3 DEF Behind, Lines
    <3>5. DOMAIN <<>> = {}
      OBVIOUS
    <3>6. \A e \in CutShort(l.call, <<>>) : /\ e.call = l.call /\ e.payload = <<>> /\ e.cut
                                            /\ \A d \in CutShort(l.call, <<>>) : d = e
      BY CutShortFacts, Zenon
    <3>7. \A e \in CutShort(l.call, <<>>) : \A i \in DOMAIN e.payload : e.payload[i] = <<e.call, i>>
      BY <3>5, <3>6, Zenon
    <3>8. Joins(CutShort(l.call, <<>>))
      BY <2>3, <3>1, <3>3, <3>4, <3>6, <3>7, Zenon DEF Joins
    <3> QED BY <2>3, <2>4, <2>10, <3>8, EndStep, Zenon DEF FunctionInv
  <2> QED BY <2>5, <2>7, <2>8, <2>9, <2>10, Zenon
<1>7. CASE Cancel \/ Restart \/ Terminated \/ UNCHANGED vars
  <2>1. /\ UNCHANGED <<sent, sending, input, buffer, fn, executed>>
        /\ (pc' = pc /\ payload' = payload) \/ (pc' = "scan" /\ payload' = <<>>)
    BY <1>7, Zenon DEF Cancel, Restart, Terminated, vars, netdataVars
  <2>2. ToScan' = ToScan /\ Stream' /\ (Whole <=> Whole')
    <3>1. UNCHANGED <<sent, sending, input, buffer>>
      BY <2>1
    <3> QED BY <1>0, <3>1, SameStream, Zenon
  <2>3. FunctionTypes'
    <3>1. <<>> \in Seq(Nat \X Nat)
      OBVIOUS
    <3> QED BY <1>0, <2>1, <3>1, Zenon DEF FunctionTypes
  <2>4. Reading' /\ Behind'
    BY <1>0, <2>1, <2>2, Zenon DEF Reading, Behind
  <2>5. OwnPayload'
    BY <1>0, <2>1, Zenon DEF OwnPayload
  <2> QED BY <2>2, <2>3, <2>4, <2>5, Zenon DEF FunctionInv
<1> QED BY <1>1, <1>2, <1>3, <1>4, <1>5, <1>6, <1>7, Zenon DEF Next

\* Nothing has been sent.
LEMMA FunctionInit == Init => FunctionInv
<1> SUFFICES ASSUME Init PROVE FunctionInv
  OBVIOUS
<1>1. FunctionTypes
  BY DEF Init, FunctionTypes
<1>2. Stream
  BY SMTT(20) DEF Init, Stream
<1>3. Reading /\ Behind /\ OwnPayload
  BY Zenon DEF Init, Reading, Behind, OwnPayload
<1> QED BY <1>1, <1>2, <1>3, Zenon DEF FunctionInv

\* For any number of calls, payloads of any length and any number of reloads: a
\* call is executed at most once and with its own payload only (functions.Manager.run,
\* parseFunctionWithPayload).
THEOREM OwnPayloadCorrect == Spec => []OwnPayload
<1>1. FunctionInv => OwnPayload
  BY Zenon DEF FunctionInv
<1> QED BY <1>1, FunctionInit, FunctionStep, PTL DEF Spec
-----------------------------------------------------------------------------
(* The agent *)

Types == /\ serve \in {"waiting", "stopping", "sleeping", "exited"}
         /\ instances \in 1..MaxInstances
         /\ phase \in [1..MaxInstances -> {"loading", "running", "returned"}]
         /\ managers \in [1..MaxInstances -> SUBSET A!Manager]

\* Every run but the newest has returned, all of them when serve sleeps, and
\* only a run that has not returned has managers.
Returned == /\ \A i \in 1..MaxInstances : i # instances => phase[i] = "returned"
            /\ serve = "sleeping" => phase[instances] = "returned"
            /\ \A i \in 1..MaxInstances : managers[i] # {} => phase[i] = "running"

\* What follows from what the instances have found, as long as they agree.
OneKind == /\ found \subseteq BOOLEAN /\ registry \in BOOLEAN /\ disabled \in BOOLEAN
           /\ found = {} => /\ ~disabled /\ ~misplaced /\ host = "local"
                            /\ \A i \in 1..MaxInstances : managers[i] = {}
           /\ found = {TRUE} => registry /\ ~disabled /\ ~misplaced
           /\ found = {FALSE} => ~registry /\ host = "local" /\ ~misplaced

IInv == Types /\ Returned /\ OneKind

LEMMA InitInv == A!Init => IInv
<1> SUFFICES ASSUME A!Init PROVE IInv
  OBVIOUS
<1>1. Types
  BY AgentAssumption DEF A!Init, Types
<1>2. Returned
  BY AgentAssumption, Zenon DEF A!Init, Returned
<1>3. OneKind
  BY Zenon DEF A!Init, OneKind
<1> QED BY <1>1, <1>2, <1>3, Zenon DEF IInv

\* The actions that touch neither the instances nor the hosts.
LEMMA Elsewhere ==
  ASSUME IInv, serve' = serve \/ serve' \in {"stopping", "exited"},
         UNCHANGED <<instances, phase, managers, A!hostVars>>
  PROVE  IInv'
BY Zenon DEF IInv, Types, Returned, OneKind, A!hostVars

\* serve stops waiting for the newest instance, and starts the next one.
LEMMA ServeInv == IInv /\ A!Serve => IInv'
<1> SUFFICES ASSUME IInv, A!Serve PROVE IInv'
  OBVIOUS
<1>1. CASE A!TakeSignal
  BY <1>1, Elsewhere, Zenon DEF A!TakeSignal
<1>2. CASE A!StopDone
  BY <1>2, AgentAssumption, Zenon DEF A!StopDone, A!Stopped, IInv, Types, Returned, OneKind,
     A!hostVars
<1>3. CASE A!StopTimesOut
  BY <1>3, Elsewhere, Zenon DEF A!StopTimesOut
<1>4. CASE A!Reload
  <2>1. Types' /\ Returned'
    BY <1>4, AgentAssumption DEF A!Reload, IInv, Types, Returned
  <2>2. OneKind'
    BY <1>4, Zenon DEF A!Reload, IInv, OneKind, A!hostVars
  <2> QED BY <2>1, <2>2, Zenon DEF IInv
<1> QED BY <1>1, <1>2, <1>3, <1>4, Zenon DEF A!Serve

\* An instance finds its virtual nodes and starts its managers, which return.
LEMMA InstanceInv ==
  ASSUME IInv, NEW i \in 1..instances, A!Instance(i)
  PROVE  IInv'
<1>1. i \in 1..MaxInstances /\ instances \in 1..MaxInstances
  BY AgentAssumption DEF IInv, Types
<1>2. CASE A!NothingToRun(i)
  <2>1. Types' /\ Returned'
    BY <1>1, <1>2, Zenon DEF A!NothingToRun, A!procVars, IInv, Types, Returned
  <2>2. OneKind'
    BY <1>2, Zenon DEF A!NothingToRun, IInv, OneKind, A!hostVars
  <2> QED BY <2>1, <2>2, Zenon DEF IInv
<1>3. CASE A!RunReturns(i)
  <2>1. Types' /\ Returned'
    BY <1>1, <1>3, Zenon DEF A!RunReturns, A!procVars, IInv, Types, Returned
  <2>2. OneKind'
    BY <1>3, Zenon DEF A!RunReturns, IInv, OneKind, A!hostVars
  <2> QED BY <2>1, <2>2, Zenon DEF IInv
<1>4. ASSUME NEW m \in A!Manager, A!ManagerReturns(i, m) PROVE IInv'
  <2>1. Types' /\ Returned'
    BY <1>1, <1>4, Zenon DEF A!ManagerReturns, A!procVars, IInv, Types, Returned
  <2>2. OneKind'
    BY <1>1, <1>4, Zenon DEF A!ManagerReturns, IInv, Types, OneKind, A!hostVars
  <2> QED BY <2>1, <2>2, Zenon DEF IInv
<1>5. CASE A!StartManagers(i)
  <2>1. Types' /\ Returned'
    BY <1>1, <1>5, Zenon DEF A!StartManagers, A!procVars, IInv, Types, Returned
  <2>2. OneKind'
    <3>1. found' = found \cup {registry'} /\ registry' \in BOOLEAN /\ found \subseteq BOOLEAN
      BY <1>5, Zenon DEF A!StartManagers, IInv, OneKind
    <3>2. disabled' = (disabled \/ ~registry') /\ host' = host /\ misplaced' = misplaced
      BY <1>5, Zenon DEF A!StartManagers
    <3>3. found' # {}
      BY <3>1, Zenon
    <3>4. ASSUME found' = {TRUE} PROVE registry' /\ ~disabled' /\ ~misplaced'
      <4>1. registry' = TRUE /\ (found = {} \/ found = {TRUE})
        BY <3>1, <3>4, Zenon
      <4> QED BY <4>1, <3>2, Zenon DEF IInv, OneKind
    <3>5. ASSUME found' = {FALSE} PROVE ~registry' /\ host' = "local" /\ ~misplaced'
      <4>1. registry' = FALSE /\ (found = {} \/ found = {FALSE})
        BY <3>1, <3>5, Zenon
      <4> QED BY <4>1, <3>2, Zenon DEF IInv, OneKind
    <3>6. found' \subseteq BOOLEAN /\ disabled' \in BOOLEAN
      BY <3>1, <3>2, Zenon DEF IInv, OneKind
    <3> QED BY <3>1, <3>3, <3>4, <3>5, <3>6, Zenon DEF OneKind
  <2> QED BY <2>1, <2>2, Zenon DEF IInv
<1> QED BY <1>2, <1>3, <1>4, <1>5, Zenon DEF A!Instance

\* A job writes under the host of the line it wrote before, or under none.
LEMMA WriteInv ==
  ASSUME IInv, NEW own \in {"local", "virtual"}, A!JobWrites(own)
  PROVE  IInv'
<1>1. Types' /\ Returned'
  BY Zenon DEF A!JobWrites, A!procVars, IInv, Types, Returned
<1>2. /\ managers[instances] # {} /\ (own = "virtual" => registry)
      /\ host' = (IF disabled THEN host ELSE own)
      /\ misplaced' = (misplaced \/ host' # own)
      /\ UNCHANGED <<managers, disabled, registry, found>>
  BY Zenon DEF A!JobWrites, A!HostLine
<1>3. found # {}
  BY <1>2, Zenon DEF IInv, Types, OneKind
<1>4. ASSUME found = {TRUE} PROVE ~misplaced'
  BY <1>2, <1>4, Zenon DEF IInv, OneKind
<1>5. ASSUME found = {FALSE} PROVE host' = "local" /\ ~misplaced'
  BY <1>2, <1>5, Zenon DEF IInv, OneKind
<1>6. OneKind'
  BY <1>2, <1>3, <1>4, <1>5, Zenon DEF IInv, OneKind
<1> QED BY <1>1, <1>6, Zenon DEF IInv

LEMMA StepInv == IInv /\ [A!Next]_(A!vars) => IInv'
<1> SUFFICES ASSUME IInv, [A!Next]_(A!vars) PROVE IInv'
  OBVIOUS
<1>1. CASE UNCHANGED A!vars
  BY <1>1, Elsewhere, Zenon DEF A!vars, A!procVars
<1>2. ASSUME NEW sig \in {"hup", "term"}, A!Signal(sig) PROVE IInv'
  BY <1>2, Elsewhere, Zenon DEF A!Signal
<1>3. CASE A!Serve
  BY <1>3, ServeInv, Zenon
<1>4. ASSUME NEW i \in 1..instances, A!Instance(i) PROVE IInv'
  BY <1>4, InstanceInv, Zenon
<1>5. CASE A!CollectHangs \/ A!NetdataGoes
  BY <1>5, Elsewhere, Zenon DEF A!CollectHangs, A!NetdataGoes, A!procVars
<1>6. ASSUME NEW own \in {"local", "virtual"}, A!JobWrites(own) PROVE IInv'
  BY <1>6, WriteInv, Zenon
<1>7. CASE A!KeepAlive
  BY <1>7, Elsewhere, Zenon DEF A!KeepAlive
<1>8. CASE A!Terminated
  BY <1>8, Elsewhere, Zenon DEF A!Terminated, A!vars, A!procVars
<1> QED BY <1>1, <1>2, <1>3, <1>4, <1>5, <1>6, <1>7, <1>8, Zenon DEF A!Next

\* The strengthened invariant holds throughout.
LEMMA Invariance == A!Spec => []IInv
BY InitInv, StepInv, PTL DEF A!Spec

\* However signals, stops, timeouts and hung collections follow each other, no
\* two instances have managers running at the same time (serve in agent.go).
THEOREM OneInstanceCorrect == A!Spec => []OneInstance
<1>1. IInv => OneInstance
  BY Zenon DEF IInv, Types, Returned, OneInstance, A!OneInstance
<1> QED BY <1>1, Invariance, PTL

\* As long as the instances agree on whether there are virtual nodes, data is
\* never written under another job's host (job.go, vnodes.Disabled in agent.go).
THEOREM HostsRightCorrect == A!Spec => []HostsRight
<1>1. IInv => HostsRight
  <2> SUFFICES ASSUME IInv, found # BOOLEAN PROVE ~misplaced
    BY Zenon DEF HostsRight, A!HostsRight
  <2>1. found \in {{}, {TRUE}, {FALSE}}
    BY Zenon DEF IInv, OneKind
  <2> QED BY <2>1, Zenon DEF IInv, OneKind
<1> QED BY <1>1, Invariance, PTL
==============================================================================
