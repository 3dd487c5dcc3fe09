------------------------------ MODULE LogStream ------------------------------
(***************************************************************************)
(* The views that show a stream over a WebSocket: LiveLogsPage, the modal  *)
(* with the logs of a workload, and the terminals on a pod and on a node.  *)
(*                                                                         *)
(* close() of a socket returns at once.  From then on it brings no more    *)
(* messages, but its close event, and before it an error event if it was   *)
(* still connecting, come later: then the view may have another socket     *)
(* already, and the handlers do not look which socket an event is of.      *)
(***************************************************************************)
EXTENDS Screen

CONSTANTS
    Sockets,     \* bound on the connections that a view makes
    NoSocket

VARIABLES
    at,          \* the state of each socket
    current,     \* the one that the view refers to
    mounted,     \* the view is there
    connected, connecting, broken,   \* what it shows: the badge, the button, an error
    shown        \* the sockets whose messages are among the lines

stream == <<at, current, mounted, connected, connecting, broken, shown>>

Views == {"live-logs", "logs", "terminal", "ssh"}

\* failing, closing: the error and the close event, or the latter, are to come.
States == {"unused", "connecting", "open", "failing", "closing", "closed"}

StreamTypeOK ==
    /\ at \in [Sockets -> States]
    /\ current \in Sockets \union {NoSocket}
    /\ mounted \in BOOLEAN /\ connected \in BOOLEAN
    /\ connecting \in BOOLEAN /\ broken \in BOOLEAN
    /\ shown \subseteq Sockets

ASSUME SocketsAssumption == Sockets # {} /\ NoSocket \notin Sockets

-----------------------------------------------------------------------------
\* Mutant of Closing: what is being connected is left alone.
ClosingOpen == [s \in Sockets |->
    IF s = current /\ at[s] = "open" THEN "closing" ELSE at[s]]

\* The sockets after close() of the one there is.
Closing == [s \in Sockets |->
    IF s # current THEN at[s]
    ELSE IF at[s] = "open" THEN "closing"
    ELSE IF at[s] = "connecting" THEN "failing" ELSE at[s]]

Fresh == {s \in Sockets : at[s] = "unused"}

\* Another connection in the place of the one there is.
Reopen ==
    /\ Fresh # {}
    /\ LET s == CHOOSE t \in Fresh : TRUE IN
         /\ at' = [Closing EXCEPT ![s] = "connecting"]
         /\ current' = s
    /\ shown' = {} /\ broken' = FALSE

\* The button of LiveLogsPage, which is there when it shows no connection.
Connect ==
    /\ page = "live-logs" /\ mounted /\ ~connected /\ ~connecting
    /\ Reopen
    /\ connecting' = TRUE /\ connected' = FALSE
    /\ UNCHANGED mounted

Disconnect ==
    /\ page = "live-logs" /\ mounted /\ connected
    /\ at' = Closing /\ current' = NoSocket
    /\ connected' = FALSE /\ connecting' = FALSE
    /\ UNCHANGED <<mounted, broken, shown>>

\* The button of the modal, and its choice of how many lines to begin with.
Reconnect ==
    /\ page = "logs" /\ mounted
    /\ Reopen
    /\ UNCHANGED <<mounted, connected, connecting>>

Clear ==
    /\ page \in {"live-logs", "logs", "terminal"} /\ mounted
    /\ shown # {} /\ shown' = {}
    /\ UNCHANGED <<at, current, mounted, connected, connecting, broken>>

\* The view is unmounted, and its effects are cleaned up.
Leave ==
    /\ mounted /\ mounted' = FALSE
    /\ at' = Closing
    /\ UNCHANGED <<current, connected, connecting, broken, shown>>

-----------------------------------------------------------------------------
\* What is not mounted sets no state.
Shows(var, val) == IF mounted THEN val ELSE var

Opened(s) ==
    /\ at[s] = "connecting"
    /\ at' = [at EXCEPT ![s] = "open"]
    /\ connected' = Shows(connected, TRUE) /\ connecting' = Shows(connecting, FALSE)
    /\ UNCHANGED <<current, mounted, broken, shown>>

Message(s) ==
    /\ at[s] = "open" /\ mounted /\ s \notin shown
    /\ shown' = shown \union {s}
    /\ UNCHANGED <<at, current, mounted, connected, connecting, broken>>

\* The server closes the connection, or it is lost, or does not come about.
Lost(s) ==
    /\ at[s] \in {"connecting", "open"}
    /\ at' = [at EXCEPT ![s] = IF @ = "open" THEN "closing" ELSE "failing"]
    /\ UNCHANGED <<current, mounted, connected, connecting, broken, shown>>

Errored(s) ==
    /\ at[s] = "failing"
    /\ at' = [at EXCEPT ![s] = "closing"]
    /\ broken' = Shows(broken, TRUE) /\ connecting' = Shows(connecting, FALSE)
    /\ UNCHANGED <<current, mounted, connected, shown>>

\* An error is shown if the token was refused.
Ended(s) ==
    /\ at[s] = "closing"
    /\ at' = [at EXCEPT ![s] = "closed"]
    /\ connected' = Shows(connected, FALSE) /\ connecting' = Shows(connecting, FALSE)
    /\ \/ UNCHANGED broken
       \/ broken' = Shows(broken, TRUE)
    /\ UNCHANGED <<current, mounted, shown>>

-----------------------------------------------------------------------------
StreamInit ==
    /\ current = IF page \in {"logs", "terminal", "ssh"} THEN CHOOSE s \in Sockets : TRUE ELSE NoSocket
    /\ at = [s \in Sockets |-> IF s = current THEN "connecting" ELSE "unused"]
    /\ mounted = TRUE
    /\ connected = FALSE /\ connecting = FALSE /\ broken = FALSE
    /\ shown = {}

StreamEvent(s) == Opened(s) \/ Message(s) \/ Lost(s) \/ Errored(s) \/ Ended(s)

StreamNext ==
    /\ page \in Views
    /\ \/ Connect \/ Disconnect \/ Reconnect \/ Clear \/ Leave
       \/ \E s \in Sockets : StreamEvent(s)

\* The browser reports what it has closed.
StreamFairness == \A s \in Sockets : WF_stream(Errored(s)) /\ WF_stream(Ended(s))

-----------------------------------------------------------------------------
\* A view has one connection at most that is alive, the one it refers to, and
\* none when it is not there: whatever it opened before it has closed, although
\* it never waits for that.  Lines of two connections are never mixed, and the
\* page with the button claims a connection only if it has one, or has not been
\* told yet that it is gone.
OneStream ==
    /\ \A s \in Sockets : at[s] \in {"connecting", "open"} => mounted /\ s = current
    /\ \A s, t \in shown : s = t
    /\ page # "logs" /\ mounted /\ connected => current # NoSocket /\ at[current] \in {"open", "closing"}
=============================================================================
