------------------------------ MODULE Terminal ------------------------------
(***************************************************************************)
(* A session over a WebSocket: a shell in a pod (ws_exec), a pod's log     *)
(* (ws_logs) or a shell on a node (ws_ssh).                                *)
(*                                                                         *)
(* Three activities share a session: the handler, which receives what the  *)
(* client types; a thread of its own, which talks to the remote end and    *)
(* may block; and the sender, a task that takes what the thread has put in *)
(* out_q to the client.  The thread cannot be interrupted: it ends with    *)
(* the remote end only, and the socket with the client only.               *)
(*                                                                         *)
(* What the remote end writes, and what the client types, is numbered.     *)
(***************************************************************************)
EXTENDS Naturals, Sequences

CONSTANTS
    Kinds,        \* a subset of {"exec", "logs", "ssh"}
    MaxOut,       \* bound on the pieces of output
    MaxIn,        \* bound on the messages typed
    Troubles,     \* what may happen once: "config", "connect", "break"
    Hello, Error, End   \* lines of the backend's own; None in the code

VARIABLES
    kind,
    socket,       \* of the client
    handler, sender, thread,
    remote,       \* the shell or the log
    written,      \* pieces written by the remote end
    wire,         \* those the thread has not read
    outQ, shown,  \* those for the sender, and at the client
    typed,        \* messages typed by the client
    sent,         \* those the handler has not received
    inQ, got,     \* those for the thread, and at the remote end
    cut,          \* of those in got: a first part arrived only
    trouble

output == <<written, wire, outQ, shown>>
input  == <<typed, sent, inQ, got, cut>>
vars   == <<kind, socket, handler, sender, thread, remote, output, input, trouble>>

ASSUME ConstantAssumption ==
    /\ Kinds \subseteq {"exec", "logs", "ssh"}
    /\ MaxOut \in Nat /\ MaxIn \in Nat
    /\ Troubles \subseteq {"config", "connect", "break"}
    /\ {Hello, Error, End} \intersect Nat = {} /\ End \notin {Hello, Error}

Lines == 1 .. MaxOut \union {Hello, Error, End}

TypeOK ==
    /\ kind \in Kinds
    /\ socket \in {"new", "open", "left", "closed"}
    /\ handler \in {"check", "receive", "done"}
    /\ sender \in {"none", "waiting", "done"}
    /\ thread \in {"none", "connect", "read", "input", "done"}
    /\ remote \in {"off", "up", "gone"}
    /\ written \in 0 .. MaxOut /\ wire \in Seq(1 .. MaxOut)
    /\ outQ \in Seq(Lines) /\ shown \in Seq(Lines \ {End})
    /\ typed \in 0 .. MaxIn
    /\ sent \in Seq(1 .. MaxIn) /\ inQ \in Seq(1 .. MaxIn) /\ got \in Seq(1 .. MaxIn)
    /\ cut \subseteq 1 .. MaxIn
    /\ trouble \in BOOLEAN

Init ==
    /\ kind \in Kinds /\ socket = "new" /\ remote = "off" /\ trouble = FALSE
    /\ handler = "check" /\ sender = "none" /\ thread = "none"
    /\ written = 0 /\ wire = <<>> /\ outQ = <<>> /\ shown = <<>>
    /\ typed = 0 /\ sent = <<>> /\ inQ = <<>> /\ got = <<>> /\ cut = {}

Trouble(what) == what \in Troubles /\ ~trouble /\ trouble' = TRUE

-----------------------------------------------------------------------------
(* The handler.                                                            *)

\* A token that is not valid, or no pod: the socket is closed, with a line in
\* the second case.
Refuse ==
    /\ handler = "check"
    /\ socket' = "closed" /\ handler' = "done"
    /\ shown' \in {shown} \union (IF kind = "ssh" THEN {} ELSE {<<Error>>})
    /\ UNCHANGED <<kind, sender, thread, remote, written, wire, outQ, input, trouble>>

Open ==
    /\ handler = "check"
    /\ socket' = "open" /\ handler' = "receive"
    /\ thread' = "connect" /\ sender' = "waiting"
    /\ UNCHANGED <<kind, remote, output, input, trouble>>

\* What is typed while a log is shown is dropped.
Receive ==
    /\ handler = "receive" /\ sent # <<>>
    /\ inQ' = IF kind = "logs" THEN inQ ELSE Append(inQ, Head(sent))
    /\ sent' = Tail(sent)
    /\ UNCHANGED <<kind, socket, handler, sender, thread, remote, output, typed, got, cut, trouble>>

\* Mutant of Disconnected: the sender is left waiting.
DisconnectedOnly ==
    /\ handler = "receive" /\ socket = "left" /\ (sent = <<>> \/ sender = "done")
    /\ handler' = "done"
    /\ UNCHANGED <<kind, socket, sender, thread, remote, output, input, trouble>>

\* The client has left, and what it sent before is received, or the sender met
\* the closed socket first.  The sender is cancelled, the thread is not.
Disconnected ==
    /\ handler = "receive" /\ socket = "left" /\ (sent = <<>> \/ sender = "done")
    /\ handler' = "done" /\ sender' = "done"
    /\ UNCHANGED <<kind, socket, thread, remote, output, input, trouble>>

-----------------------------------------------------------------------------
(* The sender.                                                             *)

Send ==
    /\ sender = "waiting" /\ outQ # <<>>
    /\ outQ' = Tail(outQ)
    /\ \/ Head(outQ) = End /\ sender' = "done" /\ UNCHANGED shown
       \/ Head(outQ) # End /\ socket = "open"
          /\ shown' = Append(shown, Head(outQ)) /\ UNCHANGED sender
       \/ Head(outQ) # End /\ socket = "left"
          /\ sender' \in {"waiting", "done"} /\ UNCHANGED shown
    /\ UNCHANGED <<kind, socket, handler, thread, remote, written, wire, input, trouble>>

-----------------------------------------------------------------------------
(* The thread.                                                             *)

Greeting(k) == IF kind = k THEN <<Hello>> ELSE <<>>

\* The thread ends; what the remote end wrote and was not read is gone.
Finish(last) ==
    /\ thread' = "done"
    /\ outQ' = outQ \o last \o <<End>>
    /\ wire' = <<>>

\* The kubeconfig is read outside of the try.
LoadFails ==
    /\ thread = "connect" /\ kind # "ssh" /\ Trouble("config")
    /\ thread' = "done"
    /\ UNCHANGED <<kind, socket, handler, sender, remote, output, input>>

Connect ==
    /\ thread = "connect"
    /\ thread' = "read" /\ remote' = "up"
    /\ outQ' = outQ \o Greeting("logs") \o Greeting("ssh")
    /\ UNCHANGED <<kind, socket, handler, sender, written, wire, shown, input, trouble>>

ConnectFails ==
    /\ thread = "connect" /\ Trouble("connect")
    /\ Finish(Greeting("logs") \o <<Error>>)
    /\ UNCHANGED <<kind, socket, handler, sender, remote, written, shown, input>>

ReadOutput ==
    /\ thread = "read" /\ wire # <<>>
    /\ outQ' = Append(outQ, Head(wire))
    /\ wire' = Tail(wire)
    /\ thread' = IF kind = "logs" THEN "read" ELSE "input"
    /\ UNCHANGED <<kind, socket, handler, sender, remote, written, shown, input, trouble>>

\* Mutant of Pause: the read has no timeout.
PauseNever == FALSE

\* The read of a shell gives up after a while, so that input gets its turn.
Pause ==
    /\ thread = "read" /\ wire = <<>> /\ remote = "up" /\ kind # "logs"
    /\ thread' = "input"
    /\ UNCHANGED <<kind, socket, handler, sender, remote, output, input, trouble>>

\* Everything is read and the remote end is closed.  A shell in a pod takes one
\* more message, and fails on it or not.
Exhausted ==
    /\ thread = "read" /\ wire = <<>> /\ remote = "gone"
    /\ \/ Finish(<<>>) /\ UNCHANGED inQ
       \/ kind = "exec" /\ inQ # <<>> /\ inQ' = Tail(inQ)
          /\ (Finish(<<>>) \/ Finish(<<Error>>))
    /\ UNCHANGED <<kind, socket, handler, sender, remote, written, shown, typed, sent, got, cut, trouble>>

\* Mutant of NextRead: a shell in a pod that has ended is not read to the end.
NextReadUnlessGone ==
    \/ thread' = "read" /\ UNCHANGED <<wire, outQ>>
    \/ remote = "gone" /\ Finish(<<>>)

\* The next turn of the loop.  A shell on a node that has exited may be left
\* with output unread: exit_status_ready does not wait for it.
NextRead ==
    \/ thread' = "read" /\ UNCHANGED <<wire, outQ>>
    \/ kind = "ssh" /\ remote = "gone" /\ Finish(<<>>)

NoInput ==
    /\ thread = "input" /\ inQ = <<>>
    /\ NextRead
    /\ UNCHANGED <<kind, socket, handler, sender, remote, written, shown, input, trouble>>

\* Mutant of WriteInput: a message that was written may stay in the queue.
WriteInputTwice ==
    /\ thread = "input" /\ inQ # <<>> /\ remote = "up" /\ Len(got) < MaxIn
    /\ got' = Append(got, Head(inQ))
    /\ inQ' \in {inQ, Tail(inQ)}
    /\ NextRead
    /\ UNCHANGED <<kind, socket, handler, sender, remote, written, shown, typed, sent, cut, trouble>>

\* A channel of SSH takes what fits into its window and a packet, and the
\* thread does not look at how much that was: the rest of the message is lost.
WriteInput ==
    /\ thread = "input" /\ inQ # <<>> /\ remote = "up"
    /\ got' = Append(got, Head(inQ))
    /\ inQ' = Tail(inQ)
    /\ cut' \in {cut} \union (IF kind = "ssh" THEN {cut \union {Head(inQ)}} ELSE {})
    /\ NextRead
    /\ UNCHANGED <<kind, socket, handler, sender, remote, written, shown, typed, sent, trouble>>

\* The remote end is closed: the write fails, or is lost on the way.
WriteToNobody ==
    /\ thread = "input" /\ inQ # <<>> /\ remote = "gone"
    /\ inQ' = Tail(inQ)
    /\ NextRead \/ Finish(<<Error>>)
    /\ UNCHANGED <<kind, socket, handler, sender, remote, written, shown, typed, sent, got, cut, trouble>>

\* The connection breaks, or the window of a channel of SSH stays full for as
\* long as a write waits.  A shell on a node says so when it writes only.
Break ==
    /\ thread \in {"read", "input"} /\ remote # "off" /\ Trouble("break")
    /\ remote' = "gone"
    /\ Finish(IF kind = "ssh" /\ (thread = "read" \/ inQ = <<>>) THEN <<>> ELSE <<Error>>)
    /\ UNCHANGED <<kind, socket, handler, sender, written, shown, input>>

-----------------------------------------------------------------------------
(* The client and the remote end.                                          *)

Type ==
    /\ socket = "open" /\ typed < MaxIn
    /\ typed' = typed + 1
    /\ sent' = Append(sent, typed + 1)
    /\ UNCHANGED <<kind, socket, handler, sender, thread, remote, output, inQ, got, cut, trouble>>

Leave ==
    /\ socket = "open"
    /\ socket' = "left"
    /\ UNCHANGED <<kind, handler, sender, thread, remote, output, input, trouble>>

Write ==
    /\ remote = "up" /\ written < MaxOut
    /\ written' = written + 1
    /\ wire' = Append(wire, written + 1)
    /\ UNCHANGED <<kind, socket, handler, sender, thread, remote, outQ, shown, input, trouble>>

Exit ==
    /\ remote = "up"
    /\ remote' = "gone"
    /\ UNCHANGED <<kind, socket, handler, sender, thread, output, input, trouble>>

-----------------------------------------------------------------------------
Handle == Refuse \/ Open \/ Receive \/ Disconnected

Work == \/ Connect \/ ReadOutput \/ Pause \/ Exhausted
        \/ NoInput \/ WriteInput \/ WriteToNobody

Fails == LoadFails \/ ConnectFails \/ Break

Next == Handle \/ Send \/ Work \/ Fails \/ Type \/ Leave \/ Write \/ Exit

\* The event loop and the thread go on; nothing is assumed of the two ends, and
\* no trouble is owed.
Fairness == WF_vars(Handle) /\ WF_vars(Send) /\ WF_vars(Work)

Spec == Init /\ [][Next]_vars /\ Fairness

-----------------------------------------------------------------------------
(* What holds.                                                             *)

UpTo(n) == [i \in 1 .. n |-> i]

\* Every piece in s comes after all those written before it, and once; the
\* backend's own lines may stand between them.
Ordered(s) ==
    \A j \in DOMAIN s : s[j] \in 1 .. MaxOut =>
        /\ \A k \in 1 .. s[j] - 1 : \E i \in 1 .. j - 1 : s[i] = k
        /\ \A i \in 1 .. j - 1 : s[i] # s[j]

\* The pieces in s are the first n.
Complete(s, n) ==
    /\ Ordered(s)
    /\ \A k \in 1 .. MaxOut : (\E i \in DOMAIN s : s[i] = k) <=> k <= n

\* While the thread works, no piece of output and no message is lost, doubled or
\* overtaken between the two ends, over four hands in one direction and three in
\* the other; and of what arrives at either end, when it is over, nothing is
\* missing in between.  A message is whole at a shell in a pod; a shell on a node
\* may have a first part of it only.
InOrder ==
    /\ thread # "done" /\ socket = "open" => Complete(shown \o outQ \o wire, written)
    /\ remote # "gone" /\ kind # "logs" => got \o inQ \o sent = UpTo(typed)
    /\ Ordered(shown) /\ got = UpTo(Len(got))
    /\ cut \subseteq 1 .. Len(got) /\ (kind # "ssh" => cut = {})

\* What a client that is there has been sent, or will be.
Sent == shown \o outQ

\* Where the three activities can be: only the thread connects, and only what is
\* connected writes.
Stages ==
    /\ handler = "check" =>
          thread = "none" /\ sender = "none" /\ socket = "new" /\ shown = <<>> /\ outQ = <<>>
    /\ thread \in {"none", "connect"} => remote = "off"
    /\ remote = "off" => written = 0 /\ wire = <<>>
    /\ thread = "done" => remote # "up" /\ wire = <<>>
    /\ kind = "logs" => inQ = <<>> /\ got = <<>>

\* The thread ends with the last line, which is where the sender stops.
LastLine ==
    /\ \A i \in DOMAIN outQ : outQ[i] = End => thread = "done" /\ i = Len(outQ)
    /\ sender = "done" /\ socket = "open" => thread = "done" /\ outQ = <<>>

\* What the thread leaves to the sender when it ends.
Accounted ==
    thread = "done" /\ socket = "open" =>
        /\ Ordered(Sent)
        /\ kind # "ssh" => Complete(Sent, written) \/ \E i \in DOMAIN Sent : Sent[i] = Error

\* The inductive invariant: what holds of every state of a session of exec.py.
TerminalInv == TypeOK /\ InOrder /\ Stages /\ LastLine /\ Accounted

\* run_exec and run_logs: when the session is over for a client that is still
\* there, it has all that the remote end wrote, or an error that says otherwise.
Reported ==
    kind # "ssh" /\ sender = "done" /\ socket = "open" =>
        Complete(shown, written) \/ \E i \in DOMAIN shown : shown[i] = Error

\* A shell that writes nothing still gets what is typed, or a part of it: the thread that reads
\* it is the one that writes to it.
NoStall ==
    \A k \in 1 .. MaxIn :
        kind # "logs" /\ typed = k ~>
            Len(got) >= k \/ remote = "gone" \/ thread = "done" \/ socket = "left"

\* Whichever end goes first: after the remote end the thread and the sender
\* stop, after the client the handler and the sender do.
BothStop ==
    /\ remote = "gone" ~> thread = "done" /\ sender = "done"
    /\ socket = "left" ~> handler = "done" /\ sender = "done"
=============================================================================
