-------------------------- MODULE FunctionManager --------------------------
(***************************************************************************)
(* The functions manager (agent/functions): it reads lines from the        *)
(* standard input, which Netdata writes: a function call on one line, or a *)
(* call, the lines of its payload and a closing line.  The calls of        *)
(* registered functions are executed, one after the other.                 *)
(*                                                                         *)
(* The scanner reads into a buffer, which may end within a line.  A reload *)
(* cancels the read, not the lines already in the buffer; the next manager *)
(* reads on from the same input.  A line that is too long for the scanner  *)
(* ends it for the life of the manager.  Payload lines are numbered; what  *)
(* they say is left out.                                                   *)
(***************************************************************************)
EXTENDS Integers, Sequences

CONSTANTS MaxCalls,    \* bound: calls Netdata sends
          MaxPayload,  \* bound: lines of a payload
          MaxReloads   \* bound: reloads

ASSUME FunctionAssumption == MaxPayload \in Nat

VARIABLES sent,      \* the calls sent: lines of payload (-1: none), registered name
          sending,   \* lines Netdata has still to send of the last call
          input,     \* the lines sent and not read
          buffer,    \* the scanner's buffer
          cancelled, \* the reader is cancelled
          pc,        \* run: scan, payload or ended
          fn,        \* the call being read
          payload,   \* what was read of its payload
          executed,  \* the calls executed, with payload and whether it was cut short
          reloads

netdataVars == <<sent, sending>>
vars == <<netdataVars, input, buffer, cancelled, pc, fn, payload, executed, reloads>>

Line(kind, c, n) == [kind |-> kind, call |-> c, n |-> n]

Init == /\ sent = <<>> /\ sending = 0 /\ input = <<>> /\ buffer = <<>> /\ cancelled = FALSE
        /\ pc = "scan" /\ fn = 0 /\ payload = <<>> /\ executed = {} /\ reloads = 0
-----------------------------------------------------------------------------
(* Netdata finishes the payloads it begins. *)

\* A call without payload (n = -1), or the first line of one with n lines of
\* payload; the line may not parse.
SendCall(n, known) ==
  /\ sending = 0 /\ Len(sent) < MaxCalls
  /\ sent' = Append(sent, [size |-> n, known |-> known])
  /\ sending' = n + 1
  /\ \E kind \in {IF n = -1 THEN "call" ELSE "begin", "malformed"} :
       input' = Append(input, Line(kind, Len(sent'), 0))
  /\ UNCHANGED <<buffer, cancelled, pc, fn, payload, executed, reloads>>

SendPayload ==
  /\ sending > 0
  /\ LET c == Len(sent)
     IN  input' = Append(input, Line(IF sending = 1 THEN "end" ELSE "data",
                                     c, sent[c].size + 2 - sending))
  /\ sending' = sending - 1
  /\ UNCHANGED <<sent, buffer, cancelled, pc, fn, payload, executed, reloads>>
-----------------------------------------------------------------------------
(* run *)

Execute(c, p, cut) ==
  executed' = executed \cup
    (IF sent[c].known THEN {[call |-> c, payload |-> p, cut |-> cut]} ELSE {})

\* The scanner reads when it has no line left.
Read ==
  /\ pc # "ended" /\ ~cancelled /\ buffer = <<>>
  /\ \E k \in 1..Len(input) : /\ buffer' = SubSeq(input, 1, k)
                              /\ input' = SubSeq(input, k + 1, Len(input))
  /\ UNCHANGED <<netdataVars, cancelled, pc, fn, payload, executed, reloads>>

\* A line outside a payload: a call is executed, the payload of a call with one
\* is read into a new buffer, anything else is passed over.
SameBuffer == payload
NewBuffer == <<>>

ScanLine ==
  /\ pc = "scan" /\ buffer # <<>>
  /\ buffer' = Tail(buffer)
  /\ LET l == Head(buffer)
     IN  /\ IF l.kind = "call" THEN Execute(l.call, <<>>, FALSE) ELSE UNCHANGED executed
         /\ pc' = IF l.kind = "begin" THEN "payload" ELSE "scan"
         /\ fn' = IF l.kind = "begin" THEN l.call ELSE 0
         /\ payload' = NewBuffer
  /\ UNCHANGED <<netdataVars, input, cancelled, reloads>>

\* parseFunctionWithPayload: up to the closing line; then the call is executed.
ScanPayload ==
  /\ pc = "payload" /\ buffer # <<>>
  /\ buffer' = Tail(buffer)
  /\ LET l == Head(buffer)
     IN  IF l.kind = "end" THEN /\ Execute(fn, payload, FALSE)
                                /\ pc' = "scan" /\ fn' = 0 /\ UNCHANGED payload
                           ELSE /\ payload' = Append(payload, <<l.call, l.n>>)
                                /\ UNCHANGED <<pc, fn, executed>>
  /\ UNCHANGED <<netdataVars, input, cancelled, reloads>>

\* Scan returns false, and the calls that still came of it are executed.
EndWith(p, calls) ==
  /\ executed' = executed \cup calls
  /\ pc' = "ended" /\ fn' = 0 /\ payload' = p
  /\ UNCHANGED <<netdataVars, buffer, cancelled, reloads>>

CutShort(c, p) == {[call |-> c, payload |-> p, cut |-> TRUE]}

\* A call whose payload is being read is executed with what there is of it.
Interrupted(p) == IF pc = "payload" /\ sent[fn].known THEN CutShort(fn, p) ELSE {}

\* The read is cancelled, or the next line is too long.
ScanFails ==
  /\ pc # "ended" /\ buffer = <<>> /\ (cancelled \/ input # <<>>)
  /\ EndWith(payload, Interrupted(payload)) /\ UNCHANGED input

\* The read is cancelled after the first part of a line: the scanner hands that
\* over as its last line.  In a payload it is a line of it, unless all that is
\* missing of the closing line is its newline.  Outside a payload it does not
\* parse, unless it is cut within its last word: what is left of that word may
\* name a function.
ScanFailsWithinLine ==
  /\ pc # "ended" /\ buffer = <<>> /\ cancelled /\ input # <<>>
  /\ LET l == Head(input)
         part == Append(payload, <<l.call, l.n>>)
     IN  /\ \/ pc = "payload" /\ EndWith(part, Interrupted(part))
            \/ pc = "payload" /\ l.kind = "end" /\ EndWith(payload, Interrupted(payload))
            \/ pc = "scan" /\ EndWith(payload, {})
            \/ pc = "scan" /\ l.kind \in {"call", "begin"} /\ EndWith(payload, CutShort(l.call, <<>>))
         /\ input' = <<Line("rest", l.call, l.n)>> \o Tail(input)

Cancel ==
  /\ ~cancelled /\ reloads < MaxReloads
  /\ cancelled' = TRUE
  /\ UNCHANGED <<netdataVars, input, buffer, pc, fn, payload, executed, reloads>>

\* The manager of the next instance.
Restart ==
  /\ pc = "ended" /\ cancelled
  /\ pc' = "scan" /\ cancelled' = FALSE /\ payload' = <<>>
  /\ reloads' = reloads + 1
  /\ UNCHANGED <<netdataVars, input, buffer, fn, executed>>

Terminated == /\ Len(sent) = MaxCalls /\ sending = 0 /\ reloads = MaxReloads
              /\ pc = "ended" \/ (pc = "scan" /\ buffer = <<>> /\ input = <<>>)
              /\ UNCHANGED vars

Next == \/ \E n \in -1..MaxPayload, known \in BOOLEAN : SendCall(n, known)
        \/ SendPayload \/ Read \/ ScanLine \/ ScanPayload
        \/ ScanFails \/ ScanFailsWithinLine
        \/ Cancel \/ Restart
        \/ Terminated

Spec == Init /\ [][Next]_vars
-----------------------------------------------------------------------------
\* A call is executed at most once, and with its own payload: all of it, or its
\* first lines (the last of them perhaps in part) when the scanner ended within
\* it, none when it ended within the call's own line; never with lines of another call, not even when the rest of a payload, or
\* of a line, reaches the next instance.
OwnPayload ==
  \A e \in executed :
    /\ \A d \in executed : d.call = e.call => d = e
    /\ \A i \in DOMAIN e.payload : e.payload[i] = <<e.call, i>>
    /\ e.cut \/ Len(e.payload) = (IF sent[e.call].size = -1 THEN 0 ELSE sent[e.call].size)
=============================================================================
