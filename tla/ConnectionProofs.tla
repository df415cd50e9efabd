-------------------------- MODULE ConnectionProofs --------------------------
(***************************************************************************)
(* Proofs about Connection, for any messages, any cuts of the bytes and     *)
(* any bounds.                                                              *)
(***************************************************************************)
EXTENDS Connection, FiniteSetTheorems, SequenceTheorems, TLAPS

\* A set of natural numbers that is not empty has a least element.
LEMMA LeastNatural ==
  ASSUME NEW T \in SUBSET Nat, T # {}
  PROVE  \E n \in T : \A m \in T : n <= m
<1>1. PICK n \in T : \A m \in T : ~(<<m, n>> \in OpToRel(<, Nat))
  BY NatLessThanWellFounded, WFMin
<1>2. \A m \in T : (m < n) => <<m, n>> \in OpToRel(<, Nat)
  BY DEF OpToRel
<1>3. \A m \in T : ~(m < n)
  BY <1>1, <1>2, Zenon
<1> QED
  BY <1>3

-----------------------------------------------------------------------------
(* Framing.                                                                  *)

\* std::string::find() gives the first occurrence.
LEMMA FindFirst ==
  ASSUME NEW s \in Seq(Chars), NEW a, NEW b
  PROVE  /\ Find(s, a, b) \in Nat
         /\ \A k \in 1 .. Len(s) - 1 :
              s[k] = a /\ s[k + 1] = b => Find(s, a, b) # 0 /\ Find(s, a, b) <= k
         /\ Find(s, a, b) # 0 => /\ Find(s, a, b) \in 1 .. Len(s) - 1
                                 /\ s[Find(s, a, b)] = a /\ s[Find(s, a, b) + 1] = b
<1> DEFINE at == {k \in 1 .. Len(s) - 1 : s[k] = a /\ s[k + 1] = b}
<1>1. at \in SUBSET Nat /\ at \subseteq 1 .. Len(s) - 1 /\ 0 \notin at
  OBVIOUS
<1>2. CASE at = {}
  BY <1>2 DEF Find
<1>3. CASE at # {}
  <2>1. Find(s, a, b) \in at /\ \A l \in at : Find(s, a, b) <= l
    <3>1. \E k \in at : \A l \in at : k <= l
      BY <1>1, <1>3, LeastNatural
    <3>2. Find(s, a, b) = CHOOSE k \in at : \A l \in at : k <= l
      BY <1>3 DEF Find
    <3> HIDE DEF at
    <3> QED
      BY <3>1, <3>2
  <2> QED
    BY <1>1, <2>1
<1> QED
  BY <1>2, <1>3

\* The part of a sequence that SubSeq() takes.
LEMMA Part ==
  ASSUME NEW s \in Seq(Chars), NEW m \in Nat \ {0}, NEW n \in Nat, n <= Len(s)
  PROVE  /\ SubSeq(s, m, n) \in Seq(Chars)
         /\ Len(SubSeq(s, m, n)) = IF m <= n THEN n - m + 1 ELSE 0
         /\ \A i \in 1 .. n - m + 1 : SubSeq(s, m, n)[i] = s[m + i - 1]
<1>1. \A i \in m .. n : s[i] \in Chars
  OBVIOUS
<1> QED
  BY <1>1, SubSeqProperties

\* What parse_message() may do with a buffer.
LEMMA Parsed ==
  ASSUME NEW s \in Seq(Chars)
  PROVE  LET start == Find(s, "#", "|")
             end   == Find(s, "|", "#")
             p     == ParseMessage(s)
         IN  /\ p.message \in Seq(Chars) /\ p.rest \in Seq(Chars)
             /\ p.kind \in {"nullopt", "malformed", "message"}
             /\ p.kind # "message" => p.rest = s
             /\ p.kind = "nullopt" => end = 0
             /\ p.kind = "message" => /\ end # 0 /\ start = 1
                                      /\ p.rest = SubSeq(s, end + 2, Len(s))
                                      /\ end # 2 => p.message = SubSeq(s, 3, end - 1)
<1> DEFINE start == Find(s, "#", "|")
           end   == Find(s, "|", "#")
<1>1. end \in Nat /\ Len(s) \in Nat /\ (end # 0 => end \in 1 .. Len(s) - 1)
  BY FindFirst
<1> HIDE DEF start, end
<1>2. CASE end = 0
  <2>1. ParseMessage(s) = [kind |-> "nullopt", message |-> <<>>, rest |-> s]
    BY <1>2 DEF ParseMessage, start, end
  <2>2. <<>> \in Seq(Chars)
    OBVIOUS
  <2> QED
    BY <1>2, <2>1, <2>2 DEF end
<1>3. CASE end # 0 /\ start # 1
  <2>1. ParseMessage(s) = [kind |-> "malformed", message |-> <<>>, rest |-> s]
    BY <1>3 DEF ParseMessage, start, end
  <2>2. <<>> \in Seq(Chars)
    OBVIOUS
  <2> QED
    BY <1>3, <2>1, <2>2
<1>4. CASE end # 0 /\ start = 1
  <2> DEFINE last == IF end = 2 THEN Len(s) ELSE end - 1
  <2>1. ParseMessage(s) = [kind |-> "message", message |-> SubSeq(s, 3, last),
                           rest |-> SubSeq(s, end + 2, Len(s))]
    BY <1>4 DEF ParseMessage, start, end
  <2>2. last \in Nat /\ last <= Len(s) /\ end + 2 \in Nat \ {0}
    BY <1>1, <1>4
  <2>3. SubSeq(s, 3, last) \in Seq(Chars) /\ SubSeq(s, end + 2, Len(s)) \in Seq(Chars)
    BY <1>1, <2>2, Part
  <2>4. end # 2 => last = end - 1
    OBVIOUS
  <2>5. PICK message, rest : message = SubSeq(s, 3, last) /\ rest = SubSeq(s, end + 2, Len(s))
    OBVIOUS
  <2>6. ParseMessage(s) = [kind |-> "message", message |-> message, rest |-> rest]
    BY <2>1, <2>5
  <2> HIDE DEF last
  <2>7. /\ ParseMessage(s).kind = "message" /\ ParseMessage(s).message = message
        /\ ParseMessage(s).rest = rest
    BY <2>6
  <2>8. /\ ParseMessage(s).message = SubSeq(s, 3, last)
        /\ ParseMessage(s).rest = SubSeq(s, end + 2, Len(s))
    BY <2>5, <2>7, Zenon
  <2> QED
    BY <1>4, <2>3, <2>4, <2>7, <2>8 DEF start, end
<1> QED
  BY <1>2, <1>3, <1>4 DEF start, end

LEMMA Pair == ASSUME NEW S, NEW a \in S, NEW b \in S PROVE <<a, b>> \in Seq(S)
  OBVIOUS

LEMMA Concat ==
  ASSUME NEW S, NEW s \in Seq(S), NEW t \in Seq(S)
  PROVE  /\ s \o t \in Seq(S) /\ Len(s \o t) = Len(s) + Len(t)
         /\ \A i \in 1 .. Len(s) : (s \o t)[i] = s[i]
         /\ \A i \in 1 .. Len(t) : (s \o t)[Len(s) + i] = t[i]
<1>1. \A i \in 1 .. Len(s) : (s \o t)[i] = s[i]
  OBVIOUS
<1>2. \A i \in 1 .. Len(t) : (s \o t)[Len(s) + i] = t[i]
  OBVIOUS
<1> QED
  BY <1>1, <1>2

\* t is s and then f.
Joined(s, f, t) ==
    /\ Len(t) = Len(s) + Len(f)
    /\ \A i \in 1 .. Len(s) : t[i] = s[i]
    /\ \A i \in 1 .. Len(f) : t[Len(s) + i] = f[i]

LEMMA JoinedConcat ==
  ASSUME NEW S, NEW s \in Seq(S), NEW f \in Seq(S)
  PROVE  Joined(s, f, s \o f)
  BY Concat DEF Joined

LEMMA FrameShape ==
  ASSUME NEW p \in Seq(Chars)
  PROVE  /\ Frame(p) \in Seq(Chars) /\ Len(Frame(p)) = Len(p) + 4
         /\ Frame(p)[1] = "#" /\ Frame(p)[2] = "|"
         /\ \A i \in 1 .. Len(p) : Frame(p)[i + 2] = p[i]
         /\ Frame(p)[Len(p) + 3] = "|" /\ Frame(p)[Len(p) + 4] = "#"
<1> DEFINE open  == <<"#", "|">>
           close == <<"|", "#">>
<1>1. /\ open \in Seq(Chars) /\ Len(open) = 2 /\ open[1] = "#" /\ open[2] = "|"
      /\ close \in Seq(Chars) /\ Len(close) = 2 /\ close[1] = "|" /\ close[2] = "#"
  <2>1. open \in Seq(Chars) /\ close \in Seq(Chars)
    <3>1. "#" \in Chars /\ "|" \in Chars
      BY ConnectionAssumption
    <3> QED
      BY <3>1, Pair
  <2>3. Len(open) = 2 /\ open[1] = "#" /\ open[2] = "|"
    OBVIOUS
  <2>4. Len(close) = 2 /\ close[1] = "|" /\ close[2] = "#"
    OBVIOUS
  <2> HIDE DEF open, close
  <2> QED
    BY <2>1, <2>3, <2>4
<1>2. Frame(p) = (open \o p) \o close
  BY DEF Frame
<1> HIDE DEF open, close
<1>3. /\ open \o p \in Seq(Chars) /\ Len(open \o p) = Len(p) + 2 /\ Len(p) \in Nat
      /\ (open \o p)[1] = "#" /\ (open \o p)[2] = "|"
      /\ \A i \in 1 .. Len(p) : (open \o p)[i + 2] = p[i]
  <2>1. /\ open \o p \in Seq(Chars) /\ Len(open \o p) = 2 + Len(p)
        /\ \A i \in 1 .. 2 : (open \o p)[i] = open[i]
        /\ \A i \in 1 .. Len(p) : (open \o p)[2 + i] = p[i]
    BY <1>1, Concat
  <2>2. Len(p) \in Nat /\ \A i \in 1 .. Len(p) : 2 + i = i + 2
    OBVIOUS
  <2> QED
    BY <1>1, <2>1, <2>2
<1>4. /\ Frame(p) \in Seq(Chars) /\ Len(Frame(p)) = (Len(p) + 2) + 2
      /\ \A i \in 1 .. Len(p) + 2 : Frame(p)[i] = (open \o p)[i]
      /\ \A i \in 1 .. 2 : Frame(p)[(Len(p) + 2) + i] = close[i]
  BY <1>1, <1>2, <1>3, Concat
<1>5. \A i \in 1 .. Len(p) : i + 2 \in 1 .. Len(p) + 2
  BY <1>3
<1>6. /\ Frame(p)[1] = "#" /\ Frame(p)[2] = "|"
      /\ \A i \in 1 .. Len(p) : Frame(p)[i + 2] = p[i]
  <2>1. ASSUME NEW i \in 1 .. Len(p) PROVE Frame(p)[i + 2] = p[i]
    <3>1. Frame(p)[i + 2] = (open \o p)[i + 2]
      BY <1>4, <1>5
    <3> QED
      BY <1>3, <3>1
  <2>2. 1 \in 1 .. Len(p) + 2 /\ 2 \in 1 .. Len(p) + 2
    BY <1>3
  <2> QED
    BY <1>3, <1>4, <2>1, <2>2
<1>7. Frame(p)[Len(p) + 3] = "|" /\ Frame(p)[Len(p) + 4] = "#"
  <2>1. (Len(p) + 2) + 1 = Len(p) + 3 /\ (Len(p) + 2) + 2 = Len(p) + 4
    BY <1>3
  <2> QED
    BY <1>1, <1>4, <2>1
<1> QED
  BY <1>3, <1>4, <1>6, <1>7

-----------------------------------------------------------------------------
(* The receiver.                                                             *)

\* What a call leaves behind: nothing complete while it is in its loop, and the bytes it
\* could not parse once it has thrown.
ReceiverInv ==
    /\ TypeOK
    /\ pc # "idle" => Find(obuffer, "|", "#") = 0
    /\ outcome = "malformed" => pc = "idle" /\ ParseMessage(obuffer).kind = "malformed"

LEMMA Delivered ==
  ASSUME NEW buffer \in Seq(Chars), NEW next \in Calls, TypeOK, Deliver(buffer, next),
         outcome = "malformed" => ParseMessage(buffer).kind = "malformed",
         sent' = sent, wire' \in Seq(Chars), peer' = peer
  PROVE  ReceiverInv'
<1> DEFINE parsed == ParseMessage(buffer)
<1>1. /\ parsed.message \in Seq(Chars) /\ parsed.rest \in Seq(Chars)
      /\ parsed.kind \in {"nullopt", "malformed", "message"}
      /\ parsed.kind # "message" => parsed.rest = buffer
      /\ parsed.kind = "nullopt" => Find(buffer, "|", "#") = 0
  BY Parsed
<1> HIDE DEF parsed
<1>2. /\ obuffer' = parsed.rest
      /\ pc' = IF parsed.kind = "nullopt" THEN next ELSE "idle"
      /\ outcome' = IF parsed.kind = "nullopt" THEN outcome ELSE parsed.kind
      /\ received' = IF parsed.kind = "message" THEN Append(received, parsed.message)
                     ELSE received
  BY DEF Deliver, parsed
<1>3. received' \in Seq(Seq(Chars)) /\ obuffer' \in Seq(Chars)
  BY <1>1, <1>2 DEF TypeOK
<1>4. TypeOK'
  BY <1>1, <1>2, <1>3 DEF TypeOK, Calls, Outcomes
<1>5. pc' # "idle" => Find(obuffer', "|", "#") = 0
  BY <1>1, <1>2
<1>6. outcome' = "malformed" => pc' = "idle" /\ ParseMessage(obuffer').kind = "malformed"
  BY <1>1, <1>2 DEF parsed
<1> QED
  BY <1>4, <1>5, <1>6 DEF ReceiverInv

LEMMA ReceiverInit == Init => ReceiverInv
  BY DEF Init, ReceiverInv, TypeOK, Outcomes

LEMMA ReceiverStep == ReceiverInv /\ [Next]_vars => ReceiverInv'
<1> SUFFICES ASSUME ReceiverInv, [Next]_vars PROVE ReceiverInv'
  OBVIOUS
<1>0. TypeOK /\ sent \in Seq(Payloads) /\ wire \in Seq(Chars) /\ obuffer \in Seq(Chars)
  BY DEF ReceiverInv, TypeOK
<1>1. ASSUME NEW p \in Payloads, Send(p) PROVE ReceiverInv'
  <2>1. wire' \in Seq(Chars) /\ sent' \in Seq(Payloads)
    <3>1. Frame(p) \in Seq(Chars)
      BY ConnectionAssumption, FrameShape
    <3> QED
      BY <1>0, <1>1, <3>1 DEF Send
  <2> QED
    BY <1>1, <2>1 DEF Send, ReceiverInv, TypeOK
<1>2. ASSUME NEW g \in Garbage, SendGarbage(g) PROVE ReceiverInv'
  <2>1. wire' \in Seq(Chars)
    BY <1>0, <1>2, ConnectionAssumption DEF SendGarbage
  <2> QED
    BY <1>2, <2>1 DEF SendGarbage, ReceiverInv, TypeOK
<1>3. CASE PeerClose \/ PeerReset
  <2>1. wire' \in Seq(Chars)
    <3>1. <<>> \in Seq(Chars) /\ (wire' = wire \/ wire' = <<>>)
      BY <1>3, EmptySeq DEF PeerClose, PeerReset
    <3> QED
      BY <1>0, <3>1
  <2> QED
    BY <1>3, <2>1 DEF PeerClose, PeerReset, ReceiverInv, TypeOK
<1>4. ASSUME NEW call \in Calls, Receive(call) PROVE ReceiverInv'
  <2>1. Deliver(obuffer, call) /\ sent' = sent /\ wire' \in Seq(Chars) /\ peer' = peer
    BY <1>0, <1>4 DEF Receive
  <2>2. outcome = "malformed" => ParseMessage(obuffer).kind = "malformed"
    BY DEF ReceiverInv
  <2> QED
    BY <1>0, <2>1, <2>2, Delivered
<1>5. CASE RecvData
  <2>1. PICK n \in 1 .. BufferSize : /\ n <= Len(wire) /\ wire' = SubSeq(wire, n + 1, Len(wire))
                                     /\ Deliver(obuffer \o SubSeq(wire, 1, n), pc)
    BY <1>5 DEF RecvData
  <2>2. n \in Nat /\ n + 1 \in Nat \ {0} /\ Len(wire) \in Nat
    BY <1>0, ConnectionAssumption
  <2>3. SubSeq(wire, 1, n) \in Seq(Chars) /\ wire' \in Seq(Chars)
    BY <1>0, <2>1, <2>2, Part
  <2>4. obuffer \o SubSeq(wire, 1, n) \in Seq(Chars)
    BY <1>0, <2>3, Concat
  <2>5. pc \in Calls /\ outcome # "malformed" /\ sent' = sent /\ peer' = peer
    BY <1>5 DEF RecvData, ReceiverInv, Calls
  <2> QED
    BY <1>0, <2>1, <2>3, <2>4, <2>5, Delivered
<1>6. CASE RecvAgain \/ RecvError
  BY <1>6 DEF RecvAgain, RecvError, ReceiverInv, TypeOK, Outcomes
<1>7. CASE RecvEof \/ UNCHANGED vars
  BY <1>7 DEF RecvEof, vars, ReceiverInv, TypeOK
<1> QED
  BY <1>1, <1>2, <1>3, <1>4, <1>5, <1>6, <1>7 DEF Next, Recv

\* However the bytes are cut, and whatever the peer sends, the receiver is sound between
\* any two of its steps: no complete message waits in obuffer while receive() is in recv().
THEOREM ReceiverIsSound == Spec => []ReceiverSound
<1>1. ReceiverInv => ReceiverSound
  BY DEF ReceiverInv, ReceiverSound, NoMessageOverlooked
<1> QED
  BY ReceiverInit, ReceiverStep, <1>1, PTL DEF Spec

\* Bytes outside a frame end the exchange: after MalformedMessageException they stay in
\* obuffer, and no call ever returns a message again.
THEOREM NothingComesAfterMalformed == Spec => NothingAfterMalformed
<1>1. ReceiverInv /\ [Next]_vars => [outcome = "malformed" => received' = received]_vars
  <2> SUFFICES ASSUME ReceiverInv, Next, outcome = "malformed" PROVE received' = received
    OBVIOUS
  <2>1. pc = "idle" /\ ParseMessage(obuffer).kind = "malformed"
    BY DEF ReceiverInv
  <2>2. ASSUME NEW call \in Calls, Receive(call) PROVE received' = received
    BY <2>1, <2>2 DEF Receive, Deliver
  <2>3. CASE Recv
    BY <2>1, <2>3 DEF Recv, RecvData, RecvAgain, RecvError, RecvEof, Calls, vars
  <2>4. CASE (\E p \in Payloads : Send(p)) \/ (\E g \in Garbage : SendGarbage(g))
             \/ PeerClose \/ PeerReset
    BY <2>4 DEF Send, SendGarbage, PeerClose, PeerReset
  <2> QED
    BY <2>2, <2>3, <2>4 DEF Next
<1> QED
  BY ReceiverInit, ReceiverStep, <1>1, PTL DEF Spec, NothingAfterMalformed

-----------------------------------------------------------------------------
(* The bytes under way, those in obuffer and those on the wire, as the       *)
(* receiver will cut them: the frames of the messages r + 1 .. clean, one    *)
(* after the other, and then either nothing or bytes that do not begin like  *)
(* a frame.  off[k] is the number of bytes before the frame of message k.    *)

Offsets(r, clean) == [r + 1 .. clean + 1 -> Int]

Cut(stream, msgs, r, clean, off) ==
    /\ off[r + 1] = 0
    /\ \A k \in r + 1 .. clean : off[k + 1] = off[k] + Len(msgs[k]) + 4
    /\ \A k \in r + 1 .. clean : \A i \in 1 .. Len(msgs[k]) + 4 :
         off[k] + i \in 1 .. Len(stream) => stream[off[k] + i] = Frame(msgs[k])[i]
    /\ off[clean + 1] + 1 \in 1 .. Len(stream) => stream[off[clean + 1] + 1] # "#"

\* Nothing of it is lost, and a message that is not clean is behind other bytes.
Whole(stream, msgs, r, clean, off) ==
    /\ \A k \in r + 1 .. clean + 1 : off[k] <= Len(stream)
    /\ clean < Len(msgs) => off[clean + 1] < Len(stream)

LEMMA CutPrefix ==
  ASSUME NEW s \in Seq(Chars), NEW t \in Seq(Chars), NEW msgs \in Seq(Seq(Chars)),
         NEW r \in Nat, NEW clean \in Nat, NEW off, Cut(s, msgs, r, clean, off),
         Len(t) <= Len(s), \A i \in 1 .. Len(t) : t[i] = s[i]
  PROVE  Cut(t, msgs, r, clean, off)
<1>1. \A i \in 1 .. Len(t) : i \in 1 .. Len(s)
  OBVIOUS
<1> QED
  BY <1>1 DEF Cut

\* More bytes, and perhaps another message, behind a stream that does not end in a frame.
LEMMA CutLonger ==
  ASSUME NEW s \in Seq(Chars), NEW t \in Seq(Chars), NEW msgs \in Seq(Seq(Chars)),
         NEW more \in Seq(Seq(Chars)), NEW r \in Nat, NEW clean \in r .. Len(msgs),
         NEW off \in Offsets(r, clean),
         Cut(s, msgs, r, clean, off), Whole(s, msgs, r, clean, off),
         Len(s) <= Len(t), \A i \in 1 .. Len(s) : t[i] = s[i],
         \A k \in 1 .. Len(msgs) : more[k] = msgs[k],
         \/ off[clean + 1] < Len(s)
         \/ more = msgs /\ (Len(s) < Len(t) => t[Len(s) + 1] # "#")
  PROVE  Cut(t, more, r, clean, off) /\ Whole(t, more, r, clean, off)
<1>1. /\ r \in Int /\ clean \in Nat /\ Len(s) \in Nat /\ Len(t) \in Nat /\ Len(msgs) \in Nat
      /\ r <= clean /\ clean <= Len(msgs)
  OBVIOUS
<1>2. \A k \in r + 1 .. clean + 1 : off[k] \in Int /\ off[k] <= Len(s)
  BY DEF Whole, Offsets
<1>3. clean + 1 \in r + 1 .. clean + 1
  BY <1>1
<1>4. \A k \in r + 1 .. clean : /\ k \in 1 .. Len(msgs) /\ k + 1 \in r + 1 .. clean + 1
                                /\ k \in r + 1 .. clean + 1
                                /\ more[k] = msgs[k] /\ Len(msgs[k]) \in Nat
  BY <1>1
<1>5. ASSUME NEW k \in r + 1 .. clean, NEW i \in 1 .. Len(more[k]) + 4, off[k] + i \in 1 .. Len(t)
      PROVE  t[off[k] + i] = Frame(more[k])[i]
  <2>1. off[k + 1] = off[k] + Len(msgs[k]) + 4 /\ off[k + 1] <= Len(s)
    BY <1>2, <1>4 DEF Cut
  <2>2. off[k] + i \in 1 .. Len(s) /\ i \in 1 .. Len(msgs[k]) + 4
    <3>1. off[k] \in Int /\ Len(msgs[k]) \in Nat /\ more[k] = msgs[k] /\ Len(s) \in Nat
      BY <1>1, <1>2, <1>4
    <3>2. i \in Nat /\ i <= Len(msgs[k]) + 4 /\ 1 <= i
      BY <3>1
    <3>3. off[k] + i <= Len(s) /\ 1 <= off[k] + i
      <4>1. PICK a \in Int, n \in Nat : a = off[k] /\ n = Len(msgs[k])
        BY <3>1
      <4>2. a + n + 4 <= Len(s) /\ i <= n + 4
        BY <2>1, <3>2, <4>1
      <4>3. 1 <= a + i
        BY <1>1, <1>5, <3>2, <4>1
      <4>4. a + i <= Len(s)
        BY <1>1, <3>2, <4>2
      <4> QED
        BY <4>1, <4>3, <4>4
    <3> QED
      BY <3>1, <3>2, <3>3
  <2>3. s[off[k] + i] = Frame(msgs[k])[i]
    BY <2>2 DEF Cut
  <2> QED
    BY <1>4, <2>2, <2>3
<1>6. ASSUME off[clean + 1] + 1 \in 1 .. Len(t) PROVE t[off[clean + 1] + 1] # "#"
  <2>1. CASE off[clean + 1] < Len(s)
    <3>1. off[clean + 1] + 1 \in 1 .. Len(s)
      BY <1>1, <1>2, <1>3, <1>6, <2>1
    <3> QED
      BY <3>1 DEF Cut
  <2>2. CASE ~(off[clean + 1] < Len(s))
    <3>1. off[clean + 1] = Len(s) /\ Len(s) < Len(t)
      BY <1>1, <1>2, <1>3, <1>6, <2>2
    <3> QED
      BY <2>2, <3>1
  <2> QED
    BY <2>1, <2>2
<1>7. Cut(t, more, r, clean, off)
  <2>1. \A k \in r + 1 .. clean : off[k + 1] = off[k] + Len(more[k]) + 4
    BY <1>4 DEF Cut
  <2>2. off[r + 1] = 0
    BY DEF Cut
  <2> QED
    BY <1>5, <1>6, <2>1, <2>2 DEF Cut
<1>8. Whole(t, more, r, clean, off)
  <2>1. \A k \in r + 1 .. clean + 1 : off[k] <= Len(t)
    BY <1>1, <1>2
  <2>2. clean < Len(more) => off[clean + 1] < Len(t)
    <3>1. CASE off[clean + 1] < Len(s)
      BY <1>1, <1>2, <1>3, <3>1
    <3>2. CASE ~(off[clean + 1] < Len(s))
      <4>1. more = msgs /\ ~(clean < Len(msgs))
        BY <3>2 DEF Whole
      <4> QED
        BY <4>1
    <3> QED
      BY <3>1, <3>2
  <2> QED
    BY <2>1, <2>2 DEF Whole
<1> QED
  BY <1>7, <1>8

LEMMA LongerInterval ==
  ASSUME NEW r \in Nat, NEW n \in Nat, r <= n
  PROVE  /\ r + 1 \in r + 1 .. n + 1 /\ n + 1 \in r + 1 .. n + 1
         /\ \A k \in r + 1 .. n : /\ k \in 1 .. n /\ k + 1 \in r + 1 .. n + 1
                                  /\ k \in r + 1 .. n + 1
         /\ \A k \in r + 1 .. n + 1 : k \in r + 1 .. n \/ k = n + 1
         /\ \A k \in r + 1 .. (n + 1) + 1 : k \in r + 1 .. n + 1 \/ k = (n + 1) + 1
  OBVIOUS

\* A message behind a stream that ends in a frame.
LEMMA CutSend ==
  ASSUME NEW s \in Seq(Chars), NEW t \in Seq(Chars), NEW msgs \in Seq(Seq(Chars)),
         NEW m \in Seq(Chars), NEW more \in Seq(Seq(Chars)), more = Append(msgs, m),
         NEW r \in Nat, NEW clean \in r .. Len(msgs), clean = Len(msgs),
         NEW off \in Offsets(r, clean), off[clean + 1] = Len(s),
         Cut(s, msgs, r, clean, off), Whole(s, msgs, r, clean, off),
         Joined(s, Frame(m), t)
  PROVE  \E new \in Offsets(r, clean + 1) :
           Cut(t, more, r, clean + 1, new) /\ Whole(t, more, r, clean + 1, new)
<1>1. r \in Nat /\ clean \in Nat /\ r <= clean /\ Len(s) \in Nat
  OBVIOUS
<1>2. PICK n \in Nat : n = Len(m)
  OBVIOUS
<1>3. /\ Len(t) = Len(s) + (n + 4)
      /\ \A i \in 1 .. Len(s) : t[i] = s[i]
      /\ \A i \in 1 .. n + 4 : t[Len(s) + i] = Frame(m)[i]
  <2>1. Len(Frame(m)) = n + 4
    BY <1>2, FrameShape
  <2> QED
    BY <2>1, Zenon DEF Joined
<1>4. /\ Len(more) = clean + 1 /\ more[clean + 1] = m
      /\ \A k \in 1 .. clean : more[k] = msgs[k] /\ Len(msgs[k]) \in Nat
  OBVIOUS
<1>5. PICK end \in Int : end = Len(s) + (n + 4)
  BY <1>1, <1>2
<1>6. PICK new \in Offsets(r, clean + 1) :
        new = [k \in r + 1 .. (clean + 1) + 1 |-> IF k = (clean + 1) + 1 THEN end ELSE off[k]]
  <2>1. [k \in r + 1 .. (clean + 1) + 1 |-> IF k = (clean + 1) + 1 THEN end ELSE off[k]]
          \in [r + 1 .. (clean + 1) + 1 -> Int]
    <3>1. \A k \in r + 1 .. (clean + 1) + 1 : k # (clean + 1) + 1 => k \in r + 1 .. clean + 1
      BY <1>1
    <3> QED
      BY <1>5, <3>1 DEF Offsets
  <2> QED
    BY <2>1, Zenon DEF Offsets
<1>7. /\ new[(clean + 1) + 1] = end
      /\ \A k \in r + 1 .. clean + 1 : new[k] = off[k] /\ off[k] \in Int /\ off[k] <= Len(s)
  <2>1. /\ (clean + 1) + 1 \in r + 1 .. (clean + 1) + 1
        /\ \A k \in r + 1 .. clean + 1 : k \in r + 1 .. (clean + 1) + 1 /\ k # (clean + 1) + 1
    BY <1>1
  <2> QED
    <3>1. \A k \in r + 1 .. clean + 1 : off[k] \in Int /\ off[k] <= Len(s)
      BY DEF Whole, Offsets
    <3> QED
      BY <1>6, <2>1, <3>1
<1>8. /\ r + 1 \in r + 1 .. clean + 1 /\ clean + 1 \in r + 1 .. clean + 1
      /\ \A k \in r + 1 .. clean : /\ k \in 1 .. clean /\ k + 1 \in r + 1 .. clean + 1
                                   /\ k \in r + 1 .. clean + 1
      /\ \A k \in r + 1 .. clean + 1 : k \in r + 1 .. clean \/ k = clean + 1
      /\ \A k \in r + 1 .. (clean + 1) + 1 : k \in r + 1 .. clean + 1 \/ k = (clean + 1) + 1
  BY <1>1, LongerInterval
<1>9. Cut(t, more, r, clean + 1, new)
  <2>1. new[r + 1] = 0
    BY <1>7, <1>8 DEF Cut
  <2>2. ASSUME NEW k \in r + 1 .. clean + 1
        PROVE  new[k + 1] = new[k] + Len(more[k]) + 4
    <3>1. CASE k = clean + 1
      <4>1. new[k] = Len(s) /\ new[k + 1] = end /\ more[k] = m
        BY <1>4, <1>7, <1>8, <3>1
      <4> QED
        BY <1>1, <1>2, <1>5, <4>1
    <3>2. CASE k \in r + 1 .. clean
      BY <1>4, <1>7, <1>8, <3>2 DEF Cut
    <3> QED
      BY <1>8, <3>1, <3>2
  <2>3. ASSUME NEW k \in r + 1 .. clean + 1, NEW i \in 1 .. Len(more[k]) + 4,
               new[k] + i \in 1 .. Len(t)
        PROVE  t[new[k] + i] = Frame(more[k])[i]
    <3>1. CASE k = clean + 1
      <4>1. new[k] = Len(s) /\ more[k] = m /\ i \in 1 .. n + 4
        BY <1>2, <1>4, <1>7, <1>8, <3>1
      <4> QED
        BY <1>3, <4>1
    <3>2. CASE k \in r + 1 .. clean
      <4>1. PICK a \in Int, l \in Nat : a = off[k] /\ l = Len(msgs[k])
        BY <1>4, <1>7, <1>8, <3>2
      <4>2. new[k] = a /\ more[k] = msgs[k] /\ i \in 1 .. l + 4
        BY <1>4, <1>7, <1>8, <3>2, <4>1
      <4>3. a + l + 4 <= Len(s)
        BY <1>7, <1>8, <3>2, <4>1 DEF Cut
      <4>4. a + i <= Len(s)
        BY <1>1, <4>2, <4>3
      <4>5. a + i \in 1 .. Len(s)
        BY <1>1, <2>3, <4>2, <4>4
      <4>6. s[a + i] = Frame(msgs[k])[i]
        BY <3>2, <4>1, <4>2, <4>5 DEF Cut
      <4> QED
        BY <1>3, <4>2, <4>5, <4>6
    <3> QED
      BY <1>8, <3>1, <3>2
  <2>4. ~(new[(clean + 1) + 1] + 1 \in 1 .. Len(t))
    BY <1>1, <1>3, <1>5, <1>7
  <2> QED
    BY <2>1, <2>2, <2>3, <2>4 DEF Cut
<1>10. Whole(t, more, r, clean + 1, new)
  <2>1. ASSUME NEW k \in r + 1 .. (clean + 1) + 1 PROVE new[k] <= Len(t)
    <3>1. CASE k = (clean + 1) + 1
      BY <1>3, <1>5, <1>7, <3>1
    <3>2. CASE k \in r + 1 .. clean + 1
      BY <1>1, <1>2, <1>3, <1>7, <3>2
    <3> QED
      BY <1>8, <3>1, <3>2
  <2>2. ~(clean + 1 < Len(more))
    BY <1>1, <1>4
  <2> QED
    BY <2>1, <2>2 DEF Whole
<1> QED
  BY <1>9, <1>10, <1>6

\* The buffer b holds the beginning of the stream.  When an end is found in it, it is the
\* end of the first frame.
Begins(b, s) == Len(b) <= Len(s) /\ \A i \in 1 .. Len(b) : b[i] = s[i]

LEMMA CutFirst ==
  ASSUME NEW s \in Seq(Chars), NEW b \in Seq(Chars), NEW msgs \in Seq(Seq(Chars)),
         NEW r \in Nat, NEW clean \in r + 1 .. Len(msgs), NEW off, Cut(s, msgs, r, clean, off),
         Begins(b, s),
         Delimited(msgs[r + 1]), Find(b, "|", "#") # 0
  PROVE  /\ Find(b, "|", "#") = Len(msgs[r + 1]) + 3
         /\ Len(msgs[r + 1]) + 4 <= Len(b)
         /\ SubSeq(b, 3, Len(msgs[r + 1]) + 2) = msgs[r + 1]
<1>1. PICK p \in Seq(Chars) : p = msgs[r + 1]
  <2>1. r + 1 \in 1 .. Len(msgs)
    OBVIOUS
  <2> QED
    BY <2>1
<1>2. PICK n \in Nat, size \in Nat, end \in Nat :
        n = Len(p) /\ size = Len(b) /\ end = Find(b, "|", "#")
  BY FindFirst
<1>3. PICK f \in Seq(Chars) :
        /\ f = Frame(p) /\ Len(f) = n + 4 /\ f[n + 3] = "|" /\ f[n + 4] = "#"
        /\ \A i \in 1 .. n : f[i + 2] = p[i]
  BY <1>2, FrameShape
<1>4. \A i \in 1 .. n + 4 : i \in 1 .. size => b[i] = f[i]
  <2>1. r + 1 \in r + 1 .. clean /\ off[r + 1] = 0
    BY DEF Cut
  <2>2. ASSUME NEW i \in 1 .. n + 4, i \in 1 .. size PROVE b[i] = f[i]
    <3>1. i \in 1 .. Len(s) /\ 0 + i = i
      BY <1>2, <2>2 DEF Begins
    <3>2. s[0 + i] = f[i]
      <4>1. \A j \in 1 .. Len(msgs[r + 1]) + 4 : off[r + 1] + j \in 1 .. Len(s) =>
              s[off[r + 1] + j] = Frame(msgs[r + 1])[j]
        BY <2>1, Zenon DEF Cut
      <4>2. \A j \in 1 .. n + 4 : 0 + j \in 1 .. Len(s) => s[0 + j] = f[j]
        BY <1>1, <1>2, <1>3, <2>1, <4>1, Zenon
      <4> QED
        BY <3>1, <4>2, Zenon
    <3> QED
      BY <1>2, <2>2, <3>1, <3>2 DEF Begins
  <2> QED
    BY <2>2
<1>5. \A k \in 1 .. n + 3 : f[k] = "|" /\ f[k + 1] = "#" => n + 3 <= k
  <2>1. Find(f, "|", "#") = n + 3
    BY <1>1, <1>2, <1>3 DEF Delimited
  <2>2. \A k \in 1 .. Len(f) - 1 : f[k] = "|" /\ f[k + 1] = "#" => Find(f, "|", "#") <= k
    BY FindFirst
  <2>3. Len(f) - 1 = n + 3
    BY <1>3
  <2> QED
    BY <2>1, <2>2, <2>3
<1>6. /\ end \in 1 .. size - 1 /\ b[end] = "|" /\ b[end + 1] = "#"
      /\ \A k \in 1 .. size - 1 : b[k] = "|" /\ b[k + 1] = "#" => end <= k
  <2>1. /\ Find(b, "|", "#") \in 1 .. Len(b) - 1
        /\ b[Find(b, "|", "#")] = "|" /\ b[Find(b, "|", "#") + 1] = "#"
    BY FindFirst
  <2>2. \A k \in 1 .. Len(b) - 1 : b[k] = "|" /\ b[k + 1] = "#" => Find(b, "|", "#") <= k
    BY FindFirst
  <2> QED
    BY <1>2, <2>1, <2>2
<1>7. n + 3 <= end
  <2> SUFFICES ASSUME end < n + 3 PROVE FALSE
    OBVIOUS
  <2>1. end \in 1 .. n + 3 /\ end \in 1 .. n + 4 /\ end + 1 \in 1 .. n + 4
    BY <1>6
  <2>2. end \in 1 .. size /\ end + 1 \in 1 .. size
    BY <1>6
  <2>3. f[end] = "|" /\ f[end + 1] = "#"
    BY <1>4, <1>6, <2>1, <2>2
  <2>4. n + 3 <= end
    BY <1>5, <2>1, <2>3
  <2> QED
    BY <2>4
<1>8. n + 4 <= size
  BY <1>6, <1>7
<1>9. end = n + 3
  <2>1. n + 3 \in 1 .. n + 4 /\ n + 4 \in 1 .. n + 4 /\ (n + 3) + 1 = n + 4
    OBVIOUS
  <2>2. n + 3 \in 1 .. size /\ n + 4 \in 1 .. size /\ n + 3 \in 1 .. size - 1
    BY <1>8
  <2>3. b[n + 3] = "|" /\ b[(n + 3) + 1] = "#"
    BY <1>3, <1>4, <2>1, <2>2
  <2>4. end <= n + 3
    BY <1>6, <2>2, <2>3
  <2> QED
    BY <1>7, <2>4
<1>10. SubSeq(b, 3, n + 2) = p
  <2>1. /\ SubSeq(b, 3, n + 2) \in Seq(Chars)
        /\ Len(SubSeq(b, 3, n + 2)) = (IF 3 <= n + 2 THEN (n + 2) - 3 + 1 ELSE 0)
        /\ \A i \in 1 .. (n + 2) - 3 + 1 : SubSeq(b, 3, n + 2)[i] = b[3 + i - 1]
    <3>1. 3 \in Nat \ {0} /\ n + 2 \in Nat /\ n + 2 <= Len(b)
      BY <1>2, <1>8
    <3> QED
      BY <3>1, Part
  <2>2. PICK q \in Seq(Chars) : q = SubSeq(b, 3, n + 2)
    BY <2>1, Zenon
  <2>3. /\ Len(q) = (IF 3 <= n + 2 THEN (n + 2) - 3 + 1 ELSE 0)
        /\ \A i \in 1 .. (n + 2) - 3 + 1 : q[i] = b[3 + i - 1]
    BY <2>1, <2>2, Zenon
  <2>4. Len(q) = n /\ (n + 2) - 3 + 1 = n
    BY <2>3
  <2>5. ASSUME NEW i \in 1 .. n PROVE q[i] = p[i]
    <3>1. 3 + i - 1 = i + 2 /\ i + 2 \in 1 .. n + 4
      OBVIOUS
    <3>2. i + 2 \in 1 .. size
      BY <1>8
    <3>3. q[i] = b[i + 2]
      BY <2>3, <2>4, <3>1
    <3> QED
      BY <1>3, <1>4, <3>1, <3>2, <3>3
  <2>6. q = p
    BY <1>2, <2>4, <2>5, SeqEqual
  <2> QED
    BY <2>2, <2>6, Zenon
<1>11. SubSeq(b, 3, Len(msgs[r + 1]) + 2) = msgs[r + 1]
  BY <1>1, <1>2, <1>10, Zenon
<1> QED
  BY <1>1, <1>2, <1>8, <1>9, <1>11

\* No message is taken from bytes that do not begin like a frame.
LEMMA CutNone ==
  ASSUME NEW s \in Seq(Chars), NEW b \in Seq(Chars), NEW msgs, NEW r \in Nat, NEW off,
         Cut(s, msgs, r, r, off), Len(b) <= Len(s), \A i \in 1 .. Len(b) : b[i] = s[i]
  PROVE  Find(b, "#", "|") # 1
<1> SUFFICES ASSUME Find(b, "#", "|") = 1 PROVE FALSE
  OBVIOUS
<1>1. 1 \in 1 .. Len(b) - 1 /\ b[1] = "#"
  <2>1. /\ Find(b, "#", "|") # 0 => /\ Find(b, "#", "|") \in 1 .. Len(b) - 1
                                    /\ b[Find(b, "#", "|")] = "#"
    BY FindFirst
  <2> QED
    BY <2>1
<1>2. 1 \in 1 .. Len(b) /\ 1 \in 1 .. Len(s) /\ 0 + 1 = 1
  BY <1>1
<1>3. s[1] # "#"
  BY <1>2 DEF Cut
<1> QED
  BY <1>1, <1>2, <1>3

FrameLength(p, l) == l = Len(p) + 4

\* t is s without its first l bytes.
Dropped(s, l, t) == Len(t) = Len(s) - l /\ \A i \in 1 .. Len(t) : t[i] = s[i + l]

LEMMA DroppedIndices ==
  ASSUME NEW s \in Seq(Chars), NEW t \in Seq(Chars), NEW l \in Nat, Dropped(s, l, t)
  PROVE  /\ Len(s) \in Nat /\ Len(t) \in Nat /\ Len(t) = Len(s) - l
         /\ \A a \in 1 .. Len(t) : a + l \in 1 .. Len(s) /\ t[a] = s[a + l]
<1>1. Len(s) \in Nat /\ Len(t) \in Nat /\ Len(t) = Len(s) - l
  BY DEF Dropped
<1>2. ASSUME NEW a \in 1 .. Len(t) PROVE a + l \in 1 .. Len(s)
  BY <1>1
<1> QED
  BY <1>1, <1>2, Zenon DEF Dropped

LEMMA ShiftedSum ==
  ASSUME NEW a \in Int, NEW n \in Nat, NEW l \in Nat
  PROVE  (a + n + 4) - l = (a - l) + n + 4
  OBVIOUS

\* The first frame is taken from the stream.
LEMMA CutShift ==
  ASSUME NEW s \in Seq(Chars), NEW t \in Seq(Chars), NEW msgs \in Seq(Seq(Chars)),
         NEW r \in Nat, NEW clean \in r + 1 .. Len(msgs),
         NEW off \in Offsets(r, clean), Cut(s, msgs, r, clean, off),
         NEW l \in Nat, FrameLength(msgs[r + 1], l), Dropped(s, l, t)
  PROVE  \E new \in Offsets(r + 1, clean) :
           /\ Cut(t, msgs, r + 1, clean, new)
           /\ Whole(s, msgs, r, clean, off) => Whole(t, msgs, r + 1, clean, new)
<1>1. Len(s) \in Nat /\ Len(t) \in Nat /\ Len(t) = Len(s) - l
  BY DroppedIndices, Zenon
<1>2. /\ clean \in Nat /\ r + 1 \in r + 1 .. clean
      /\ clean + 1 \in (r + 1) + 1 .. clean + 1
      /\ \A k \in (r + 1) + 1 .. clean : k \in r + 1 .. clean
      /\ \A k \in (r + 1) + 1 .. clean : k + 1 \in (r + 1) + 1 .. clean + 1
      /\ \A k \in (r + 1) + 1 .. clean : k \in (r + 1) + 1 .. clean + 1
  OBVIOUS
<1>3. \A k \in (r + 1) + 1 .. clean + 1 : k \in r + 1 .. clean + 1 /\ off[k] \in Int
  BY DEF Offsets
<1>4. PICK new \in Offsets(r + 1, clean) :
        new = [k \in (r + 1) + 1 .. clean + 1 |-> off[k] - l]
  <2>1. [k \in (r + 1) + 1 .. clean + 1 |-> off[k] - l] \in [(r + 1) + 1 .. clean + 1 -> Int]
    BY <1>3
  <2> QED
    BY <2>1, Zenon DEF Offsets
<1>5. \A k \in (r + 1) + 1 .. clean + 1 : new[k] = off[k] - l
  BY <1>4
<1>6. \A a \in 1 .. Len(t) : a + l \in 1 .. Len(s) /\ t[a] = s[a + l]
  BY DroppedIndices, Zenon
<1>7. Cut(t, msgs, r + 1, clean, new)
  <2>1. new[(r + 1) + 1] = 0
    <3>1. off[(r + 1) + 1] = l /\ (r + 1) + 1 \in (r + 1) + 1 .. clean + 1
      <4>1. off[(r + 1) + 1] = off[r + 1] + Len(msgs[r + 1]) + 4 /\ off[r + 1] = 0
        BY <1>2 DEF Cut
      <4>2. msgs[r + 1] \in Seq(Chars)
        OBVIOUS
      <4>3. Len(msgs[r + 1]) \in Nat /\ l = Len(msgs[r + 1]) + 4
        BY <4>2 DEF FrameLength
      <4> QED
        BY <1>2, <4>1, <4>3
    <3> QED
      BY <1>5, <3>1
  <2>2. ASSUME NEW k \in (r + 1) + 1 .. clean PROVE new[k + 1] = new[k] + Len(msgs[k]) + 4
    <3>1. off[k] \in Int
      BY <1>2, <1>3
    <3>2. k \in 1 .. Len(msgs)
      OBVIOUS
    <3>3. Len(msgs[k]) \in Nat
      BY <3>2
    <3>4. off[k + 1] = off[k] + Len(msgs[k]) + 4
      BY <1>2 DEF Cut
    <3>5. new[k + 1] = off[k + 1] - l /\ new[k] = off[k] - l
      BY <1>2, <1>5
    <3>6. (off[k] + Len(msgs[k]) + 4) - l = (off[k] - l) + Len(msgs[k]) + 4
      BY <3>1, <3>3, ShiftedSum, Zenon
    <3> QED
      BY <3>4, <3>5, <3>6, Zenon
  <2>3. ASSUME NEW k \in (r + 1) + 1 .. clean, NEW i \in 1 .. Len(msgs[k]) + 4,
               new[k] + i \in 1 .. Len(t)
        PROVE  t[new[k] + i] = Frame(msgs[k])[i]
    <3>1. off[k] \in Int /\ new[k] = off[k] - l
      BY <1>2, <1>3, <1>5
    <3>2. i \in Int
      OBVIOUS
    <3>3. (new[k] + i) + l = off[k] + i
      BY <3>1, <3>2
    <3>4. (new[k] + i) + l \in 1 .. Len(s)
      BY <1>6, <2>3, Zenon
    <3>5. s[off[k] + i] = Frame(msgs[k])[i]
      BY <1>1, <1>2, <3>3, <3>4 DEF Cut
    <3>6. t[new[k] + i] = s[(new[k] + i) + l]
      BY <1>6, <2>3, Zenon
    <3> QED
      BY <3>3, <3>5, <3>6
  <2>4. ASSUME new[clean + 1] + 1 \in 1 .. Len(t) PROVE t[new[clean + 1] + 1] # "#"
    <3>1. off[clean + 1] \in Int /\ new[clean + 1] = off[clean + 1] - l
      BY <1>2, <1>3, <1>5
    <3>2. (new[clean + 1] + 1) + l = off[clean + 1] + 1
      BY <3>1
    <3>3. (new[clean + 1] + 1) + l \in 1 .. Len(s)
      BY <1>6, <2>4, Zenon
    <3>4. s[off[clean + 1] + 1] # "#"
      BY <1>1, <3>2, <3>3 DEF Cut
    <3>5. t[new[clean + 1] + 1] = s[(new[clean + 1] + 1) + l]
      BY <1>6, <2>4, Zenon
    <3> QED
      BY <3>2, <3>4, <3>5
  <2> QED
    BY <2>1, <2>2, <2>3, <2>4 DEF Cut
<1>8. ASSUME Whole(s, msgs, r, clean, off) PROVE Whole(t, msgs, r + 1, clean, new)
  <2>1. \A k \in (r + 1) + 1 .. clean + 1 : off[k] <= Len(s)
    BY <1>1, <1>3, <1>8 DEF Whole
  <2>2. ASSUME NEW k \in (r + 1) + 1 .. clean + 1 PROVE new[k] <= Len(t)
    <3>1. off[k] \in Int /\ new[k] = off[k] - l /\ off[k] <= Len(s)
      BY <1>3, <1>5, <2>1
    <3> QED
      BY <1>1, <3>1
  <2>3. clean < Len(msgs) => off[clean + 1] < Len(s)
    BY <1>1, <1>8 DEF Whole
  <2>4. clean < Len(msgs) => new[clean + 1] < Len(t)
    <3>1. off[clean + 1] \in Int /\ new[clean + 1] = off[clean + 1] - l
      BY <1>2, <1>3, <1>5
    <3> QED
      BY <1>1, <2>3, <3>1
  <2> QED
    BY <1>1, <2>2, <2>4 DEF Whole
<1> QED
  BY <1>7, <1>8

-----------------------------------------------------------------------------
(* Messages in order.                                                        *)

Stream == obuffer \o wire

OrderInv ==
    /\ Len(received) <= Len(sent) /\ \A k \in 1 .. Len(received) : received[k] = sent[k]
    /\ \E clean \in Len(received) .. Len(sent) : \E off \in Offsets(Len(received), clean) :
         /\ Cut(Stream, sent, Len(received), clean, off)
         /\ peer = "open" => Whole(Stream, sent, Len(received), clean, off)

LEMMA OrderTypes ==
  ASSUME TypeOK
  PROVE  /\ Stream \in Seq(Chars) /\ sent \in Seq(Seq(Chars)) /\ Joined(obuffer, wire, Stream)
         /\ Len(received) \in Nat /\ Len(sent) \in Nat
         /\ \A k \in 1 .. Len(sent) : sent[k] \in Payloads
<1>1. \A p \in Payloads : p \in Seq(Chars)
  BY ConnectionAssumption
<1>2. sent \in Seq(Payloads) /\ obuffer \in Seq(Chars) /\ wire \in Seq(Chars)
      /\ received \in Seq(Seq(Chars))
  BY DEF TypeOK
<1>3. sent \in Seq(Seq(Chars))
  BY <1>1, <1>2
<1>4. Stream \in Seq(Chars) /\ Joined(obuffer, wire, Stream)
  BY <1>2, Concat, JoinedConcat DEF Stream
<1> QED
  BY <1>2, <1>3, <1>4

\* Bytes are lost when the connection breaks down, from the end of the stream; otherwise
\* they only move from the wire to obuffer.
LEMMA StreamShrinks ==
  ASSUME TypeOK, TypeOK', OrderInv, sent' = sent, received' = received,
         Len(Stream') <= Len(Stream), \A i \in 1 .. Len(Stream') : Stream'[i] = Stream[i],
         peer' = "open" => peer = "open" /\ Stream' = Stream
  PROVE  OrderInv'
<1>0. PICK clean \in Len(received) .. Len(sent) : \E off \in Offsets(Len(received), clean) :
        /\ Cut(Stream, sent, Len(received), clean, off)
        /\ peer = "open" => Whole(Stream, sent, Len(received), clean, off)
  BY DEF OrderInv
<1>1. PICK off \in Offsets(Len(received), clean) :
        /\ Cut(Stream, sent, Len(received), clean, off)
        /\ peer = "open" => Whole(Stream, sent, Len(received), clean, off)
  BY <1>0
<1>2. Stream \in Seq(Chars) /\ Stream' \in Seq(Chars) /\ sent \in Seq(Seq(Chars))
      /\ Len(received) \in Nat /\ clean \in Nat
  <2>1. obuffer' \in Seq(Chars) /\ wire' \in Seq(Chars)
    BY DEF TypeOK
  <2>2. Stream' \in Seq(Chars)
    BY <2>1, Concat DEF Stream
  <2> QED
    BY <2>2, OrderTypes
<1>3. Cut(Stream', sent, Len(received), clean, off)
  BY <1>1, <1>2, CutPrefix
<1>4. peer' = "open" => Whole(Stream', sent, Len(received), clean, off)
  BY <1>1
<1> QED
  BY <1>1, <1>3, <1>4 DEF OrderInv

LEMMA BytesAssociative ==
  ASSUME NEW s \in Seq(Chars), NEW t \in Seq(Chars), NEW u \in Seq(Chars)
  PROVE  (s \o t) \o u = s \o (t \o u)
  BY ConcatAssociative

\* More bytes on the wire are more bytes at the end of the stream.
LEMMA StreamGrows ==
  ASSUME TypeOK, NEW x \in Seq(Chars), wire' = wire \o x, obuffer' = obuffer
  PROVE  Joined(Stream, x, Stream') /\ Stream' \in Seq(Chars)
<1>1. obuffer \in Seq(Chars) /\ wire \in Seq(Chars) /\ Stream \in Seq(Chars)
  BY OrderTypes DEF TypeOK
<1>2. Stream' = Stream \o x
  <2>1. (obuffer \o wire) \o x = obuffer \o (wire \o x)
    BY <1>1, BytesAssociative, Zenon
  <2> QED
    BY <2>1, Zenon DEF Stream
<1>3. Joined(Stream, x, Stream \o x) /\ Stream \o x \in Seq(Chars)
  BY <1>1, Concat, JoinedConcat
<1> QED
  BY <1>2, <1>3, Zenon

LEMMA SendInOrder ==
  ASSUME TypeOK, TypeOK', OrderInv, NEW m \in Payloads, Send(m)
  PROVE  OrderInv'
<1>0. PICK r \in Nat : r = Len(received)
  BY OrderTypes
<1>1. PICK clean \in r .. Len(sent) : \E off \in Offsets(r, clean) :
        Cut(Stream, sent, r, clean, off) /\ Whole(Stream, sent, r, clean, off)
  BY <1>0 DEF OrderInv, Send
<1>2. PICK off \in Offsets(r, clean) :
        Cut(Stream, sent, r, clean, off) /\ Whole(Stream, sent, r, clean, off)
  BY <1>1
<1>3. /\ m \in Seq(Chars) /\ Frame(m) \in Seq(Chars) /\ Len(Frame(m)) = Len(m) + 4
      /\ Stream \in Seq(Chars) /\ sent \in Seq(Seq(Chars)) /\ Len(sent) \in Nat
  BY ConnectionAssumption, FrameShape, OrderTypes
<1>4. /\ received' = received /\ sent' = Append(sent, m) /\ peer' = peer
      /\ wire' = wire \o Frame(m) /\ obuffer' = obuffer
  BY DEF Send
<1>5. Joined(Stream, Frame(m), Stream') /\ Stream' \in Seq(Chars)
  BY <1>3, <1>4, StreamGrows
<1>6. /\ sent' \in Seq(Seq(Chars)) /\ Len(sent') = Len(sent) + 1
      /\ \A k \in 1 .. Len(sent) : sent'[k] = sent[k]
  BY <1>3, <1>4
<1>7. /\ Len(received') = r /\ Len(received') <= Len(sent')
      /\ \A k \in 1 .. Len(received') : received'[k] = sent'[k]
  <2>1. r <= Len(sent) /\ \A k \in 1 .. r : received[k] = sent[k]
    BY <1>0 DEF OrderInv
  <2>2. \A k \in 1 .. r : k \in 1 .. Len(sent)
    BY <1>3, <2>1
  <2> QED
    BY <1>0, <1>3, <1>4, <1>6, <2>1, <2>2
<1>8. CASE off[clean + 1] < Len(Stream)
  <2>1. Len(Stream) <= Len(Stream') /\ \A i \in 1 .. Len(Stream) : Stream'[i] = Stream[i]
    BY <1>3, <1>5 DEF Joined
  <2>2. Cut(Stream', sent', r, clean, off) /\ Whole(Stream', sent', r, clean, off)
    BY <1>2, <1>3, <1>5, <1>6, <1>8, <2>1, CutLonger
  <2>3. clean \in r .. Len(sent')
    BY <1>3, <1>6
  <2> QED
    BY <1>2, <1>7, <2>2, <2>3 DEF OrderInv
<1>9. CASE ~(off[clean + 1] < Len(Stream))
  <2>1. clean + 1 \in r + 1 .. clean + 1 /\ Len(Stream) \in Nat
    BY <1>3
  <2>2. off[clean + 1] = Len(Stream)
    <3>1. off[clean + 1] \in Int /\ off[clean + 1] <= Len(Stream)
      BY <1>2, <2>1 DEF Whole, Offsets
    <3> QED
      BY <1>9, <2>1, <3>1
  <2>3. clean = Len(sent)
    <3>1. ~(clean < Len(sent))
      BY <1>2, <1>9 DEF Whole
    <3> QED
      BY <1>3, <3>1
  <2>4. \E new \in Offsets(r, clean + 1) :
          Cut(Stream', sent', r, clean + 1, new) /\ Whole(Stream', sent', r, clean + 1, new)
    BY <1>2, <1>3, <1>4, <1>5, <1>6, <2>2, <2>3, CutSend
  <2>5. clean + 1 \in r .. Len(sent')
    BY <1>3, <1>6, <2>3
  <2>6. PICK last \in r .. Len(sent') : last = clean + 1
    BY <2>5
  <2> QED
    BY <1>7, <2>4, <2>6 DEF OrderInv
<1> QED
  BY <1>8, <1>9

LEMMA GarbageInOrder ==
  ASSUME TypeOK, TypeOK', OrderInv, Framable, NEW g \in Garbage, SendGarbage(g)
  PROVE  OrderInv'
<1>0. PICK r \in Nat : r = Len(received)
  BY OrderTypes
<1>1. PICK clean \in r .. Len(sent) : \E off \in Offsets(r, clean) :
        Cut(Stream, sent, r, clean, off) /\ Whole(Stream, sent, r, clean, off)
  BY <1>0 DEF OrderInv, SendGarbage
<1>2. PICK off \in Offsets(r, clean) :
        Cut(Stream, sent, r, clean, off) /\ Whole(Stream, sent, r, clean, off)
  BY <1>1
<1>3. g \in Seq(Chars) /\ Stream \in Seq(Chars) /\ sent \in Seq(Seq(Chars))
  BY ConnectionAssumption, OrderTypes
<1>4. UNCHANGED <<received, sent, peer, obuffer>> /\ wire' = wire \o g
  BY DEF SendGarbage
<1>5. Joined(Stream, g, Stream') /\ Stream' \in Seq(Chars)
  BY <1>3, <1>4, StreamGrows
<1>6. Len(Stream) <= Len(Stream') /\ \A i \in 1 .. Len(Stream) : Stream'[i] = Stream[i]
  BY <1>3, <1>5 DEF Joined
<1>7. Len(Stream) < Len(Stream') => Stream'[Len(Stream) + 1] # "#"
  <2>1. Len(Stream) < Len(Stream') => 1 \in 1 .. Len(g) /\ g # <<>>
    BY <1>3, <1>5 DEF Joined
  <2>2. 1 \in 1 .. Len(g) => Stream'[Len(Stream) + 1] = g[1]
    BY <1>5 DEF Joined
  <2> QED
    BY <2>1, <2>2 DEF Framable
<1>8. Cut(Stream', sent, r, clean, off) /\ Whole(Stream', sent, r, clean, off)
  BY <1>2, <1>3, <1>5, <1>6, <1>7, CutLonger
<1> QED
  BY <1>0, <1>2, <1>4, <1>8 DEF OrderInv

LEMMA DropJoined ==
  ASSUME NEW b \in Seq(Chars), NEW w \in Seq(Chars), NEW l \in Nat, l <= Len(b),
         NEW c \in Seq(Chars), c = SubSeq(b, l + 1, Len(b))
  PROVE  Dropped(b \o w, l, c \o w)
<1>1. Len(c) = Len(b) - l /\ \A i \in 1 .. Len(c) : c[i] = b[i + l]
  <2>1. l + 1 \in Nat \ {0} /\ Len(b) \in Nat
    OBVIOUS
  <2>2. /\ Len(c) = (IF l + 1 <= Len(b) THEN Len(b) - (l + 1) + 1 ELSE 0)
        /\ \A i \in 1 .. Len(b) - (l + 1) + 1 : c[i] = b[(l + 1) + i - 1]
    BY <2>1, Part
  <2>3. Len(c) = Len(b) - l /\ Len(b) - (l + 1) + 1 = Len(b) - l
    BY <2>1, <2>2
  <2>4. \A i \in 1 .. Len(c) : (l + 1) + i - 1 = i + l
    OBVIOUS
  <2> QED
    BY <2>2, <2>3, <2>4
<1>2. PICK s \in Seq(Chars), t \in Seq(Chars) :
        s = b \o w /\ t = c \o w /\ Joined(b, w, s) /\ Joined(c, w, t)
  BY Concat, JoinedConcat
<1>3. Dropped(s, l, t)
  <2>1. Len(t) = Len(s) - l
    <3>1. Len(s) = Len(b) + Len(w) /\ Len(t) = Len(c) + Len(w)
      BY <1>2 DEF Joined
    <3>2. Len(b) \in Nat /\ Len(w) \in Nat /\ Len(c) = Len(b) - l
      BY <1>1
    <3> QED
      BY <3>1, <3>2
  <2>2. ASSUME NEW i \in 1 .. Len(t) PROVE t[i] = s[i + l]
    <3>1. CASE i <= Len(c)
      <4>1. i \in 1 .. Len(c) /\ i + l \in 1 .. Len(b)
        BY <1>1, <3>1
      <4> QED
        BY <1>1, <1>2, <4>1 DEF Joined
    <3>2. CASE ~(i <= Len(c))
      <4>1. PICK j \in 1 .. Len(w) : i = Len(c) + j
        <5>1. i - Len(c) \in 1 .. Len(w) /\ i = Len(c) + (i - Len(c))
          BY <1>2, <3>2 DEF Joined
        <5> QED
          BY <5>1
      <4>2. t[i] = w[j]
        BY <1>2, <4>1 DEF Joined
      <4>3. i + l = Len(b) + j
        BY <1>1, <4>1
      <4>4. s[i + l] = w[j]
        BY <1>2, <4>3 DEF Joined
      <4> QED
        BY <4>2, <4>4
    <3> QED
      BY <3>1, <3>2
  <2> QED
    BY <2>1, <2>2 DEF Dropped
<1> QED
  BY <1>2, <1>3, Zenon

\* parse_message() on a buffer that holds the beginning of the stream.
LEMMA DeliverInOrder ==
  ASSUME TypeOK, TypeOK', OrderInv, Framable, NEW b \in Seq(Chars), NEW next,
         Deliver(b, next), Stream = b \o wire', sent' = sent, peer' = peer
  PROVE  OrderInv'
<1> DEFINE parsed == ParseMessage(b)
<1>1. /\ parsed.kind # "message" => parsed.rest = b
      /\ parsed.kind = "message" =>
           /\ Find(b, "|", "#") # 0 /\ Find(b, "#", "|") = 1
           /\ parsed.rest = SubSeq(b, Find(b, "|", "#") + 2, Len(b))
           /\ Find(b, "|", "#") # 2 => parsed.message = SubSeq(b, 3, Find(b, "|", "#") - 1)
  BY Parsed
<1>2. /\ obuffer' = parsed.rest
      /\ received' = IF parsed.kind = "message" THEN Append(received, parsed.message)
                     ELSE received
  BY DEF Deliver
<1> HIDE DEF parsed
<1>3. Stream \in Seq(Chars) /\ wire' \in Seq(Chars) /\ obuffer' \in Seq(Chars)
      /\ sent \in Seq(Seq(Chars)) /\ received \in Seq(Seq(Chars))
  BY OrderTypes DEF TypeOK
<1>4. CASE parsed.kind # "message"
  <2>1. Stream' = Stream /\ received' = received
    BY <1>1, <1>2, <1>4 DEF Stream
  <2>2. Len(Stream') <= Len(Stream) /\ \A i \in 1 .. Len(Stream') : Stream'[i] = Stream[i]
    BY <1>3, <2>1
  <2> QED
    BY <2>1, <2>2, StreamShrinks
<1>5. CASE parsed.kind = "message"
  <2>0. PICK r \in Nat : r = Len(received)
    BY OrderTypes
  <2>1. PICK clean \in r .. Len(sent) : \E off \in Offsets(r, clean) :
          /\ Cut(Stream, sent, r, clean, off)
          /\ peer = "open" => Whole(Stream, sent, r, clean, off)
    BY <2>0 DEF OrderInv
  <2>2. PICK off \in Offsets(r, clean) :
          /\ Cut(Stream, sent, r, clean, off)
          /\ peer = "open" => Whole(Stream, sent, r, clean, off)
    BY <2>1
  <2>3. Len(b) <= Len(Stream) /\ \A i \in 1 .. Len(b) : b[i] = Stream[i]
    <3>1. Joined(b, wire', Stream)
      BY <1>3, JoinedConcat
    <3> QED
      BY <1>3, <3>1 DEF Joined
  <2>4. clean # r
    BY <1>1, <1>3, <1>5, <2>2, <2>3, CutNone
  <2>5. clean \in r + 1 .. Len(sent) /\ r + 1 \in 1 .. Len(sent)
    <3>1. Len(sent) \in Nat
      BY OrderTypes
    <3> QED
      BY <2>4, <3>1
  <2>6. PICK p \in Seq(Chars) : p = sent[r + 1]
    BY <1>3, <2>5
  <2>7. Delimited(sent[r + 1])
    BY <2>5, OrderTypes DEF Framable
  <2>8. PICK l \in Nat : l = Len(p) + 4
    OBVIOUS
  <2>9. /\ Find(b, "|", "#") = Len(p) + 3 /\ l <= Len(b)
        /\ SubSeq(b, 3, Len(p) + 2) = p
    <3>1. Find(b, "|", "#") # 0 /\ Cut(Stream, sent, r, clean, off)
      BY <1>1, <1>5, <2>2
    <3>2. Begins(b, Stream)
      BY <2>3 DEF Begins
    <3>3. r \in Nat /\ Stream \in Seq(Chars) /\ b \in Seq(Chars) /\ sent \in Seq(Seq(Chars))
          /\ clean \in r + 1 .. Len(sent) /\ Delimited(sent[r + 1])
      BY <1>3, <2>5, <2>7
    <3>4. Find(b, "|", "#") = Len(sent[r + 1]) + 3
      BY <3>1, <3>2, <3>3, CutFirst, Zenon
    <3>5. Len(sent[r + 1]) + 4 <= Len(b)
      BY <3>1, <3>2, <3>3, CutFirst, Zenon
    <3>6. SubSeq(b, 3, Len(sent[r + 1]) + 2) = sent[r + 1]
      BY <3>1, <3>2, <3>3, CutFirst, Zenon
    <3> QED
      BY <2>6, <2>8, <3>4, <3>5, <3>6, Zenon
  <2>10. parsed.message = p
    <3>1. Find(b, "|", "#") # 2 /\ Find(b, "|", "#") - 1 = Len(p) + 2
      BY <2>9
    <3>2. parsed.message = SubSeq(b, 3, Find(b, "|", "#") - 1)
      BY <1>1, <1>5, <3>1
    <3> QED
      BY <2>9, <3>1, <3>2, Zenon
  <2>11. obuffer' = SubSeq(b, l + 1, Len(b))
    <3>1. Find(b, "|", "#") + 2 = l + 1
      BY <2>8, <2>9
    <3>2. obuffer' = SubSeq(b, Find(b, "|", "#") + 2, Len(b))
      BY <1>1, <1>2, <1>5
    <3> QED
      BY <3>1, <3>2, Zenon
  <2>12. Dropped(Stream, l, Stream')
    <3>1. Dropped(b \o wire', l, obuffer' \o wire')
      BY <1>3, <2>9, <2>11, DropJoined
    <3> QED
      BY <3>1, Zenon DEF Stream
  <2>13. Stream' \in Seq(Chars)
    BY <1>3, Concat DEF Stream
  <2>14. \E new \in Offsets(r + 1, clean) :
           /\ Cut(Stream', sent, r + 1, clean, new)
           /\ Whole(Stream, sent, r, clean, off) => Whole(Stream', sent, r + 1, clean, new)
    <3>1. FrameLength(sent[r + 1], l)
      BY <2>6, <2>8 DEF FrameLength
    <3> QED
      BY <1>3, <2>2, <2>5, <2>12, <2>13, <3>1, CutShift
  <2>15. /\ Len(received') = r + 1 /\ received'[r + 1] = p
         /\ \A k \in 1 .. r : received'[k] = received[k]
    BY <1>2, <1>3, <1>5, <2>0, <2>10
  <2>16. /\ Len(received') <= Len(sent')
         /\ \A k \in 1 .. Len(received') : received'[k] = sent'[k]
    <3>1. \A k \in 1 .. r + 1 : k \in 1 .. r \/ k = r + 1
      OBVIOUS
    <3>2. \A k \in 1 .. r : received[k] = sent[k]
      BY <2>0 DEF OrderInv
    <3>3. r + 1 <= Len(sent)
      BY <2>5, OrderTypes
    <3> QED
      BY <2>6, <2>15, <3>1, <3>2, <3>3
  <2>17. clean \in Len(received') .. Len(sent')
    BY <2>5, <2>15
  <2> QED
    BY <2>2, <2>14, <2>15, <2>16, <2>17 DEF OrderInv
<1> QED
  BY <1>4, <1>5

LEMMA OrderInit == Init => OrderInv
<1> SUFFICES ASSUME Init PROVE OrderInv
  OBVIOUS
<1>1. Len(received) = 0 /\ Len(sent) = 0 /\ Stream = <<>> /\ Len(Stream) = 0
  BY DEF Init, Stream
<1>2. PICK off \in Offsets(0, 0) : off = [k \in 0 + 1 .. 0 + 1 |-> 0]
  <2>1. [k \in 0 + 1 .. 0 + 1 |-> 0] \in [0 + 1 .. 0 + 1 -> Int]
    OBVIOUS
  <2> QED
    BY <2>1, Zenon DEF Offsets
<1>3. off[1] = 0
  BY <1>2
<1>4. Cut(Stream, sent, 0, 0, off) /\ Whole(Stream, sent, 0, 0, off)
  BY <1>1, <1>3 DEF Cut, Whole
<1>5. 0 \in 0 .. 0
  OBVIOUS
<1> QED
  BY <1>1, <1>4, <1>5 DEF OrderInv

LEMMA OrderStep ==
  ASSUME Framable, ReceiverInv, ReceiverInv', OrderInv, [Next]_vars
  PROVE  OrderInv'
<1>0. TypeOK /\ TypeOK'
  BY DEF ReceiverInv
<1>1. ASSUME NEW m \in Payloads, Send(m) PROVE OrderInv'
  BY <1>0, <1>1, SendInOrder
<1>2. ASSUME NEW g \in Garbage, SendGarbage(g) PROVE OrderInv'
  BY <1>0, <1>2, GarbageInOrder
<1>3. CASE PeerReset
  <2>1. /\ sent' = sent /\ received' = received /\ peer' # "open"
        /\ wire' = <<>> /\ obuffer' = obuffer /\ obuffer \in Seq(Chars)
    BY <1>0, <1>3 DEF PeerReset, TypeOK
  <2>2. Stream' = obuffer
    BY <2>1, ConcatEmptySeq DEF Stream
  <2>3. Joined(obuffer, wire, Stream) /\ wire \in Seq(Chars)
    BY <1>0, OrderTypes DEF TypeOK
  <2>4. Len(obuffer) <= Len(Stream) /\ \A i \in 1 .. Len(obuffer) : obuffer[i] = Stream[i]
    BY <2>1, <2>3 DEF Joined
  <2> QED
    BY <1>0, <2>1, <2>2, <2>4, StreamShrinks
<1>4. ASSUME NEW call \in Calls, Receive(call) PROVE OrderInv'
  <2>1. /\ Deliver(obuffer, call) /\ sent' = sent /\ peer' = peer /\ obuffer \in Seq(Chars)
        /\ Stream = obuffer \o wire'
    BY <1>0, <1>4 DEF Receive, TypeOK, Stream
  <2> QED
    BY <1>0, <2>1, DeliverInOrder
<1>5. CASE RecvData
  <2>1. PICK n \in 1 .. BufferSize : /\ n <= Len(wire) /\ wire' = SubSeq(wire, n + 1, Len(wire))
                                     /\ Deliver(obuffer \o SubSeq(wire, 1, n), pc)
    BY <1>5 DEF RecvData
  <2>2. obuffer \in Seq(Chars) /\ wire \in Seq(Chars) /\ sent' = sent /\ peer' = peer
    BY <1>0, <1>5 DEF TypeOK, RecvData
  <2>3. n \in Nat /\ n + 1 \in Nat \ {0} /\ Len(wire) \in Nat
    BY <2>2, ConnectionAssumption
  <2>4. SubSeq(wire, 1, n) \in Seq(Chars) /\ SubSeq(wire, n + 1, Len(wire)) \in Seq(Chars)
    BY <2>1, <2>2, <2>3, Part
  <2>5. SubSeq(wire, 1, n) \o SubSeq(wire, n + 1, Len(wire)) = wire
    <3>1. 1 \in 1 .. Len(wire) + 1 /\ n \in 1 - 1 .. Len(wire) /\ Len(wire) \in n .. Len(wire)
      BY <2>1, <2>3
    <3>2. SubSeq(wire, 1, n) \o SubSeq(wire, n + 1, Len(wire)) = SubSeq(wire, 1, Len(wire))
      BY <2>2, <3>1, ConcatAdjacentSubSeq
    <3>3. SubSeq(wire, 1, Len(wire)) = wire
      BY <2>2, SubSeqFull
    <3> QED
      BY <3>2, <3>3, Zenon
  <2>6. Stream = (obuffer \o SubSeq(wire, 1, n)) \o wire'
    <3>1. (obuffer \o SubSeq(wire, 1, n)) \o SubSeq(wire, n + 1, Len(wire))
            = obuffer \o (SubSeq(wire, 1, n) \o SubSeq(wire, n + 1, Len(wire)))
      <4>1. \A x, y \in Seq(Chars) : (obuffer \o x) \o y = obuffer \o (x \o y)
        BY <2>2, ConcatAssociative
      <4> QED
        BY <2>4, <4>1, Zenon
    <3> QED
      BY <2>1, <2>5, <3>1, Zenon DEF Stream
  <2>7. obuffer \o SubSeq(wire, 1, n) \in Seq(Chars)
    BY <2>2, <2>4, Concat
  <2> QED
    BY <1>0, <2>1, <2>2, <2>6, <2>7, DeliverInOrder
<1>6. CASE PeerClose \/ RecvAgain \/ RecvError \/ RecvEof \/ UNCHANGED vars
  <2>1. /\ UNCHANGED <<sent, received, wire, obuffer>>
        /\ peer' = "open" => peer = "open"
    BY <1>6 DEF PeerClose, RecvAgain, RecvError, RecvEof, vars
  <2>2. Stream' = Stream /\ Len(Stream) \in Nat
    BY <1>0, <2>1, OrderTypes DEF Stream
  <2>3. Len(Stream') <= Len(Stream) /\ \A i \in 1 .. Len(Stream') : Stream'[i] = Stream[i]
    BY <2>2
  <2> QED
    BY <1>0, <2>1, <2>2, <2>3, StreamShrinks
<1> QED
  BY <1>1, <1>2, <1>3, <1>4, <1>5, <1>6 DEF Next, Recv

\* However TCP cuts the bytes and whichever calls receive them, the messages come out as
\* they were sent, provided that their frames end where they do; bytes outside a frame,
\* which do not begin like one, and a connection that breaks down change nothing.
THEOREM MessagesArriveInOrder == ASSUME Framable PROVE Spec => []ReceivedInOrder
<1>1. ReceiverInv /\ OrderInv => ReceivedInOrder
  <2> SUFFICES ASSUME ReceiverInv, OrderInv PROVE ReceivedInOrder
    OBVIOUS
  <2>1. /\ received \in Seq(Seq(Chars)) /\ sent \in Seq(Seq(Chars))
        /\ Len(received) <= Len(sent) /\ \A k \in 1 .. Len(received) : received[k] = sent[k]
    BY OrderTypes DEF ReceiverInv, TypeOK, OrderInv
  <2>2. \A k \in 1 .. Len(received) : k \in 1 .. Len(sent)
    BY <2>1
  <2>3. SubSeq(received, 1, Len(received)) = received
    BY <2>1, SubSeqFull
  <2>4. PICK part \in Seq(Seq(Chars)) :
          /\ part = SubSeq(sent, 1, Len(received)) /\ Len(part) = Len(received)
          /\ \A k \in 1 .. Len(received) : part[k] = sent[k]
    <3>1. /\ 1 \in Int /\ Len(received) \in Nat
          /\ \A k \in 1 .. Len(received) : sent[k] \in Seq(Chars)
      BY <2>1, <2>2
    <3>2. /\ SubSeq(sent, 1, Len(received)) \in Seq(Seq(Chars))
          /\ Len(SubSeq(sent, 1, Len(received)))
               = (IF 1 <= Len(received) THEN Len(received) - 1 + 1 ELSE 0)
          /\ \A k \in 1 .. Len(received) - 1 + 1 :
               SubSeq(sent, 1, Len(received))[k] = sent[1 + k - 1]
      BY <3>1, SubSeqProperties
    <3>3. PICK part \in Seq(Seq(Chars)) : part = SubSeq(sent, 1, Len(received))
      BY <3>2, Zenon
    <3>4. /\ Len(part) = (IF 1 <= Len(received) THEN Len(received) - 1 + 1 ELSE 0)
          /\ \A k \in 1 .. Len(received) - 1 + 1 : part[k] = sent[1 + k - 1]
      BY <3>2, <3>3, Zenon
    <3>5. Len(received) - 1 + 1 = Len(received) /\ \A k \in 1 .. Len(received) : 1 + k - 1 = k
      BY <3>1
    <3>6. Len(part) = Len(received) /\ \A k \in 1 .. Len(received) : part[k] = sent[k]
      BY <3>1, <3>4, <3>5
    <3> QED
      BY <3>3, <3>6, Zenon
  <2>5. part = received
    BY <2>1, <2>4, SeqEqual
  <2> QED
    BY <2>1, <2>3, <2>4, <2>5, Zenon DEF ReceivedInOrder, IsPrefix
<1>2. ReceiverInv /\ ReceiverInv' /\ OrderInv /\ [Next]_vars => OrderInv'
  BY OrderStep
<1> QED
  BY ReceiverInit, ReceiverStep, OrderInit, <1>1, <1>2, PTL DEF Spec

=============================================================================
