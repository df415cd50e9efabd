----------------------------- MODULE Connection -----------------------------
(***************************************************************************)
(* One direction of a tcp::Connection: a peer sends messages, TCP carries   *)
(* the bytes and may deliver them in any pieces, and the receiving end      *)
(* calls receive_blocking() and receive_nonblocking().  The bytes matter    *)
(* here, because the frame "#|" ... "|#" is found by searching for it; they *)
(* are the two delimiter characters and any others.                         *)
(***************************************************************************)
EXTENDS Naturals, Sequences, SequencesExt

CONSTANTS
    Chars,        \* the characters, those of the delimiters among them
    Payloads,     \* the messages the peer may send, sequences of characters
    Garbage,      \* what a peer that does not frame its messages may send
    MaxSent,      \* bound on the number of messages sent
    BufferSize    \* BUFFER_SIZE: the most recv() returns at once

ASSUME ConnectionAssumption ==
    /\ {"#", "|"} \subseteq Chars
    /\ \A p \in Payloads \cup Garbage : p \in Seq(Chars)
    /\ MaxSent \in Nat /\ BufferSize \in Nat \ {0}

VARIABLES
    sent,      \* messages passed to the peer's send()
    wire,      \* bytes on their way, in order
    peer,      \* "open", "closed", or "reset" until the error has been reported
    obuffer,   \* bytes received and not yet parsed
    pc,        \* "idle", or the receive call that is in its loop
    outcome,   \* how the last receive call ended
    received   \* messages returned by receive calls

vars == <<sent, wire, peer, obuffer, pc, outcome, received>>

Calls    == {"blocking", "nonblocking"}
Outcomes == {"none", "message", "nullopt", "malformed", "error"}

-----------------------------------------------------------------------------
(* Framing.                                                                  *)

\* send(): the message between its delimiters.
Frame(message) == <<"#", "|">> \o message \o <<"|", "#">>

\* std::string::find() of a two-character string: the first position (from 1), or 0.
Find(s, a, b) ==
    LET at == {k \in 1 .. Len(s) - 1 : s[k] = a /\ s[k + 1] = b}
    IN  IF at = {} THEN 0 ELSE CHOOSE k \in at : \A l \in at : k <= l

\* Seeded fault: the bytes after the first message are thrown away.
ParseMessageClearing(s) ==
    LET end == Find(s, "|", "#")
    IN  CASE end = 0 -> [kind |-> "nullopt", message |-> <<>>, rest |-> s]
          [] end # 0 -> [kind |-> "message", message |-> SubSeq(s, 3, end - 1), rest |-> <<>>]

\* Seeded fault: what precedes the start of the frame is skipped.
ParseMessageSkipping(s) ==
    LET start == Find(s, "#", "|")
        end   == Find(s, "|", "#")
    IN  CASE end = 0 -> [kind |-> "nullopt", message |-> <<>>, rest |-> s]
          [] end # 0 /\ start = 0 -> [kind |-> "malformed", message |-> <<>>,
                                      rest |-> SubSeq(s, end + 2, Len(s))]
          [] end # 0 /\ start # 0 -> [kind |-> "message", message |-> SubSeq(s, start + 2, end - 1),
                                      rest |-> SubSeq(s, end + 2, Len(s))]

\* parse_message().  The length end_pos - 2 of the message is unsigned: when the end
\* overlaps the start ("#|#") it is huge, and the rest of the buffer is taken.
ParseMessage(s) ==
    LET start == Find(s, "#", "|")
        end   == Find(s, "|", "#")
    IN  CASE end = 0 -> [kind |-> "nullopt", message |-> <<>>, rest |-> s]
          [] end # 0 /\ start # 1 -> [kind |-> "malformed", message |-> <<>>, rest |-> s]
          [] end # 0 /\ start = 1 ->
               [kind    |-> "message",
                message |-> SubSeq(s, 3, IF end = 2 THEN Len(s) ELSE end - 1),
                rest    |-> SubSeq(s, end + 2, Len(s))]

\* send() escapes nothing: a message can be carried when its frame has no end before its
\* own, and bytes outside a frame are told from one by their first.
Delimited(p) == Find(Frame(p), "|", "#") = Len(p) + 3
Framable ==
    (\A p \in Payloads : Delimited(p)) /\ \A g \in Garbage : g = <<>> \/ g[1] # "#"

-----------------------------------------------------------------------------
TypeOK ==
    /\ sent \in Seq(Payloads) /\ wire \in Seq(Chars) /\ obuffer \in Seq(Chars)
    /\ peer \in {"open", "closed", "reset"}
    /\ pc \in {"idle"} \cup Calls /\ outcome \in Outcomes
    /\ received \in Seq(Seq(Chars))

Init ==
    /\ sent = <<>> /\ wire = <<>> /\ peer = "open"
    /\ obuffer = <<>> /\ pc = "idle" /\ outcome = "none" /\ received = <<>>

(* The peer.                                                                 *)

Send(message) ==
    /\ peer = "open" /\ Len(sent) < MaxSent
    /\ sent' = Append(sent, message)
    /\ wire' = wire \o Frame(message)
    /\ UNCHANGED <<peer, obuffer, pc, outcome, received>>

\* A peer that does not use tcp::Connection (with a bound on what it has under way).
SendGarbage(bytes) ==
    /\ peer = "open" /\ Len(wire) < BufferSize
    /\ wire' = wire \o bytes
    /\ UNCHANGED <<sent, peer, obuffer, pc, outcome, received>>

PeerClose ==
    /\ peer = "open" /\ peer' = "closed"
    /\ UNCHANGED <<sent, wire, obuffer, pc, outcome, received>>

\* The connection breaks down: what was on its way is lost.
PeerReset ==
    /\ peer = "open" /\ peer' = "reset" /\ wire' = <<>>
    /\ UNCHANGED <<sent, obuffer, pc, outcome, received>>

-----------------------------------------------------------------------------
(* The receiver.                                                             *)

\* Parse buffer: return a message, throw, or go on (to pc next) with recv().
Deliver(buffer, next) ==
    LET parsed == ParseMessage(buffer)
    IN  /\ obuffer' = parsed.rest
        /\ pc' = IF parsed.kind = "nullopt" THEN next ELSE "idle"
        /\ outcome' = IF parsed.kind = "nullopt" THEN outcome ELSE parsed.kind
        /\ received' = IF parsed.kind = "message" THEN Append(received, parsed.message)
                       ELSE received

\* Seeded fault: receive() goes straight to recv().
ReceiveUnbuffered(call) ==
    /\ pc = "idle" /\ pc' = call
    /\ UNCHANGED <<sent, wire, peer, obuffer, outcome, received>>

\* receive(): first what is left from the last call.
Receive(call) ==
    /\ pc = "idle"
    /\ Deliver(obuffer, call)
    /\ UNCHANGED <<sent, wire, peer>>

\* recv() returns n bytes.
RecvData ==
    /\ pc \in Calls /\ wire # <<>>
    /\ \E n \in 1 .. BufferSize :
         /\ n <= Len(wire)
         /\ wire' = SubSeq(wire, n + 1, Len(wire))
         /\ Deliver(obuffer \o SubSeq(wire, 1, n), pc)
    /\ UNCHANGED <<sent, peer>>

\* Seeded fault: EAGAIN is tried again.
RecvAgainRetrying ==
    /\ pc = "nonblocking" /\ wire = <<>> /\ peer = "open"
    /\ UNCHANGED vars

\* MSG_DONTWAIT and nothing there: EAGAIN.
RecvAgain ==
    /\ pc = "nonblocking" /\ wire = <<>> /\ peer = "open"
    /\ pc' = "idle" /\ outcome' = "nullopt"
    /\ UNCHANGED <<sent, wire, peer, obuffer, received>>

\* The error is reported once; after that the connection reads as closed.
RecvError ==
    /\ pc \in Calls /\ peer = "reset"
    /\ pc' = "idle" /\ outcome' = "error" /\ peer' = "closed"
    /\ UNCHANGED <<sent, wire, obuffer, received>>

\* recv() returns 0: nothing is appended, there is still no message, and the loop
\* goes round again.
RecvEof ==
    /\ pc \in Calls /\ wire = <<>> /\ peer = "closed"
    /\ UNCHANGED vars

Recv == RecvData \/ RecvAgain \/ RecvError \/ RecvEof

Next ==
    \/ \E p \in Payloads : Send(p)
    \/ \E g \in Garbage : SendGarbage(g)
    \/ PeerClose \/ PeerReset
    \/ \E call \in Calls : Receive(call)
    \/ Recv

Spec == Init /\ [][Next]_vars

\* A receive call that can go on does.  Nobody has to call: a service may receive once
\* and leave what comes after unread.
Fairness == WF_vars(Recv)

FairSpec == Spec /\ Fairness

-----------------------------------------------------------------------------
(* Properties.                                                               *)

\* However TCP cuts the bytes and whichever receive calls are mixed, the messages come
\* out as they were sent: unchanged, in order, none twice and none left out.
ReceivedInOrder == IsPrefix(received, sent)

\* A receive call that does not return leaves less than a message behind: no complete
\* message waits in obuffer while the receiver is blocked in recv().
NoMessageOverlooked == pc # "idle" => Find(obuffer, "|", "#") = 0

\* The receiver is sound between any two of its steps: its types, and nothing complete
\* in obuffer that a blocked receive() does not know of.
ReceiverSound == TypeOK /\ NoMessageOverlooked

\* Bytes outside a frame are never taken for a message, and end the exchange: after
\* MalformedMessageException no call returns a message any more.
NothingAfterMalformed == [][outcome = "malformed" => received' = received]_vars

\* receive_blocking() returns, or throws, as soon as there is a message that no call has
\* returned: however it was cut or merged with others, no call waits for a message that
\* an earlier one has swallowed.  After a reported error there is nothing to wait for, and
\* the loop goes round for ever.
BlockingReturns ==
    pc = "blocking" /\ Len(received) < Len(sent) /\ outcome # "error" ~> pc = "idle"

\* receive_nonblocking() returns.
NonblockingReturns == pc = "nonblocking" /\ peer = "open" ~> pc = "idle" \/ peer # "open"
=============================================================================
