---------------------------- MODULE AgentClient ----------------------------
(***************************************************************************)
(* The websocket client of the agent: the goroutine that reads each        *)
(* connection, the goroutine that writes the pending messages and that     *)
(* each connection starts anew, and the goroutine of Manager.listenReConn  *)
(* that connects again when a connection is lost.                          *)
(*                                                                         *)
(* They share one field, c.conn, without a lock, and one queue, c.pending, *)
(* in which the message `disconnected' tells a consumer to stop.  Each     *)
(* read and each write of the field is a step.                             *)
(*                                                                         *)
(* Connections are numbered in the order in which they are dialed, and     *)
(* reader[k] and consumer[k] are the goroutines that Connect started with  *)
(* connection k.  Commands and messages are numbered in the order in which *)
(* they are sent.                                                          *)
(***************************************************************************)
EXTENDS Naturals, Sequences, FiniteSets

CONSTANTS
    MaxConns,    \* bound: connections that are dialed
    MaxIn,       \* bound: commands that the server sends
    MaxOut,      \* bound: messages that the agent sends
    Capacity,    \* of the channel c.pending
    Attempts,    \* of listenReConn to connect again
    Losses       \* how a connection may be lost: "away", "reset"

ASSUME ClientAssumption ==
    /\ MaxConns \in Nat \ {0}
    /\ MaxIn \in Nat
    /\ MaxOut \in Nat
    /\ Capacity \in Nat \ {0}
    /\ Attempts \in Nat \ {0}
    /\ Losses \subseteq {"away", "reset"}

Conns == 1 .. MaxConns
Nil == 0
Disconnected == 0     \* the message `disconnected'; the others count from 1

VARIABLES
    conn,        \* c.conn: a connection or nil
    link,        \* link[k]: "none", "open", or how the connection ended
    inbox,       \* inbox[k]: commands on their way to the agent
    issued,      \* number of commands the server has sent
    cmds,        \* the commands handed to the command service
    pending,     \* c.pending
    sent,        \* number of messages put into c.pending
    written,     \* what was written to an open connection: pairs of a connection
                 \* and a message
    greeted,     \* connections on which the server has read the connect event
    reader,      \* reader[k]: where the goroutine of readMessage stands
    from,        \* from[k]: the connection that reader k reads
    hand,        \* hand[k]: the command that reader k has read
    consumer,    \* consumer[k]: where that of consumePendingMessage stands
    held,        \* held[k]: the message that consumer k writes
    manager,     \* where the goroutine of listenReConn stands
    dialed,      \* the connection that it has dialed last
    tries,       \* its attempts that have failed in a row
    agent        \* "up", or how the process ended

inVars == <<inbox, issued, cmds, reader, from, hand>>
outVars == <<sent, written, consumer, held>>
managerVars == <<manager, dialed, tries>>
vars == <<conn, link, pending, greeted, agent, inVars, outVars, managerVars>>

Open == {k \in Conns : link[k] = "open"}

ReaderAt(k, label) == reader' = [reader EXCEPT ![k] = label]
ConsumerAt(k, label) == consumer' = [consumer EXCEPT ![k] = label]
Crash == agent' = "crashed"

-----------------------------------------------------------------------------
(***************************************************************************)
(* readMessage                                                             *)
(***************************************************************************)
\* c.conn is evaluated for each message; a nil connection panics
ReaderLoads(k) ==
    /\ reader[k] = "load"
    /\ IF conn = Nil
       THEN Crash /\ UNCHANGED <<reader, from>>
       ELSE /\ from' = [from EXCEPT ![k] = conn]
            /\ ReaderAt(k, "read")
            /\ UNCHANGED agent
    /\ UNCHANGED <<conn, link, pending, greeted, inbox, issued, cmds, hand,
                   outVars, managerVars>>

\* c.conn.ReadMessage() returns a message
Read(k) ==
    /\ reader[k] = "read"
    /\ inbox[from[k]] # <<>>
    /\ hand' = [hand EXCEPT ![k] = Head(inbox[from[k]])]
    /\ inbox' = [inbox EXCEPT ![from[k]] = Tail(@)]
    /\ ReaderAt(k, "deliver")
    /\ UNCHANGED <<conn, link, pending, greeted, agent, issued, cmds, from,
                   outVars, managerVars>>

\* c.cmdInbound <- message: the service is ready for the next command
HandOver(k) ==
    /\ reader[k] = "deliver"
    /\ cmds' = Append(cmds, hand[k])
    /\ hand' = [hand EXCEPT ![k] = 0]
    /\ ReaderAt(k, "load")
    /\ UNCHANGED <<conn, link, pending, greeted, agent, inbox, issued, from,
                   outVars, managerVars>>

\* what was on its way before the connection ended has been read
ReadFails(k) ==
    /\ reader[k] = "read"
    /\ inbox[from[k]] = <<>>
    /\ link[from[k]] \in {"away", "reset"}
    /\ IF link[from[k]] = "away"
       THEN ReaderAt(k, "signal") /\ UNCHANGED agent
       ELSE Crash /\ UNCHANGED reader
    /\ UNCHANGED <<conn, link, pending, greeted, inbox, issued, cmds, from, hand,
                   outVars, managerVars>>

\* c.reConn <- struct{}{} meets the range of listenReConn
Signal(k) ==
    /\ reader[k] = "signal"
    /\ manager = "range"
    /\ ReaderAt(k, "clear")
    /\ manager' = "dial"
    /\ tries' = 0
    /\ UNCHANGED <<conn, link, pending, greeted, agent, inbox, issued, cmds,
                   from, hand, outVars, dialed>>

\* c.conn = nil
ClearConn(k) ==
    /\ reader[k] = "clear"
    /\ conn' = Nil
    /\ ReaderAt(k, "mark")
    /\ UNCHANGED <<link, pending, greeted, agent, inbox, issued, cmds, from,
                   hand, outVars, managerVars>>

\* (mutant) the reader does not leave its loop
MarkPendingLoops(k) ==
    /\ reader[k] = "mark"
    /\ Len(pending) < Capacity
    /\ pending' = Append(pending, Disconnected)
    /\ ReaderAt(k, "load")
    /\ UNCHANGED <<conn, link, greeted, agent, inbox, issued, cmds, from, hand,
                   outVars, managerVars>>

\* (mutant) no marker is sent
MarkPendingNot(k) ==
    /\ reader[k] = "mark"
    /\ ReaderAt(k, "over")
    /\ UNCHANGED <<conn, link, pending, greeted, agent, inbox, issued, cmds, from,
                   hand, outVars, managerVars>>

\* c.pending <- disconnected; break
MarkPending(k) ==
    /\ reader[k] = "mark"
    /\ Len(pending) < Capacity
    /\ pending' = Append(pending, Disconnected)
    /\ ReaderAt(k, "over")
    /\ UNCHANGED <<conn, link, greeted, agent, inbox, issued, cmds, from, hand,
                   outVars, managerVars>>

Reader(k) ==
    \/ ReaderLoads(k) \/ Read(k) \/ HandOver(k) \/ ReadFails(k) \/ Signal(k)
    \/ ClearConn(k) \/ MarkPending(k)

-----------------------------------------------------------------------------
(***************************************************************************)
(* sendMessageWithBytes, sendMessageWithJson and consumePendingMessage     *)
(***************************************************************************)
Send ==
    /\ sent < MaxOut
    /\ Len(pending) < Capacity
    /\ sent' = sent + 1
    /\ pending' = Append(pending, sent')
    /\ UNCHANGED <<conn, link, greeted, agent, inVars, written, consumer, held,
                   managerVars>>

Consume(k) ==
    /\ consumer[k] = "range"
    /\ pending # <<>>
    /\ pending' = Tail(pending)
    /\ IF Head(pending) = Disconnected
       THEN ConsumerAt(k, "over") /\ UNCHANGED held
       ELSE /\ ConsumerAt(k, "write")
            /\ held' = [held EXCEPT ![k] = Head(pending)]
    /\ UNCHANGED <<conn, link, greeted, agent, inVars, sent, written,
                   managerVars>>

\* c.conn.WriteMessage(..): the error is dropped, and the message with it; a
\* nil connection panics
Write(k) ==
    /\ consumer[k] = "write"
    /\ IF conn = Nil
       THEN Crash /\ UNCHANGED <<written, consumer, held>>
       ELSE /\ written' = IF conn \in Open
                         THEN Append(written, <<conn, held[k]>>)
                         ELSE written
            /\ ConsumerAt(k, "range")
            /\ held' = [held EXCEPT ![k] = Disconnected]
            /\ UNCHANGED agent
    /\ UNCHANGED <<conn, link, pending, greeted, inVars, sent, managerVars>>

-----------------------------------------------------------------------------
(***************************************************************************)
(* listenReConn and Connect                                                *)
(***************************************************************************)
\* (mutant) i <= 6
RetryOnceMore ==
    /\ tries' = tries + 1
    /\ IF tries + 1 <= Attempts
       THEN manager' = "dial" /\ UNCHANGED agent
       ELSE agent' = "unreachable" /\ UNCHANGED manager

\* an attempt of listenReConn that failed
Retry ==
    /\ tries' = tries + 1
    /\ IF tries + 1 < Attempts
       THEN manager' = "dial" /\ UNCHANGED agent
       ELSE agent' = "unreachable" /\ UNCHANGED manager

\* Dial returns a connection ..
Dial ==
    /\ manager = "dial"
    /\ dialed < MaxConns
    /\ dialed' = dialed + 1
    /\ conn' = dialed'
    /\ link' = [link EXCEPT ![dialed'] = "open"]
    /\ manager' = "limit"
    /\ UNCHANGED <<pending, greeted, agent, inVars, outVars, tries>>

\* .. or an error, and nil
DialFails ==
    /\ manager = "dial"
    /\ conn' = Nil
    /\ Retry
    /\ UNCHANGED <<link, pending, greeted, inVars, outVars, dialed>>

\* c.conn.SetReadLimit(bufferSize) panics on a nil connection
SetReadLimit ==
    /\ manager = "limit"
    /\ IF conn = Nil THEN Crash /\ UNCHANGED manager
       ELSE manager' = "greet" /\ UNCHANGED agent
    /\ UNCHANGED <<conn, link, pending, greeted, inVars, outVars, dialed, tries>>

\* sendMessageWithResp recovers its panics: a nil connection is an error here
Greet ==
    /\ manager = "greet"
    /\ conn \in Open
    /\ greeted' = greeted \cup {conn}
    /\ manager' = "answer"
    /\ UNCHANGED <<conn, link, pending, agent, inVars, outVars, dialed, tries>>

\* the server's answer
GetConfig ==
    /\ manager = "answer"
    /\ conn # Nil
    /\ manager' = "spawn"
    /\ UNCHANGED <<conn, link, pending, greeted, agent, inVars, outVars, dialed,
                   tries>>

\* a nil or lost connection, or an answer that is not OK
GreetFails ==
    /\ manager \in {"greet", "answer"}
    /\ manager = "greet" => conn \notin Open
    /\ Retry
    /\ UNCHANGED <<conn, link, pending, greeted, inVars, outVars, dialed>>

\* (mutant) no consumer is started for the new connection
SpawnReader ==
    /\ manager = "spawn"
    /\ ReaderAt(dialed, "load")
    /\ manager' = "range"
    /\ UNCHANGED <<conn, link, pending, greeted, agent, inbox, issued, cmds,
                   from, hand, outVars, dialed, tries>>

\* (mutant) listenReConn returns after it has connected again
SpawnLeaves ==
    /\ manager = "spawn"
    /\ ReaderAt(dialed, "load")
    /\ ConsumerAt(dialed, "range")
    /\ manager' = "over"
    /\ UNCHANGED <<conn, link, pending, greeted, agent, inbox, issued, cmds,
                   from, hand, sent, written, held, dialed, tries>>

\* go c.readMessage(); go c.consumePendingMessage()
Spawn ==
    /\ manager = "spawn"
    /\ ReaderAt(dialed, "load")
    /\ ConsumerAt(dialed, "range")
    /\ manager' = "range"
    /\ UNCHANGED <<conn, link, pending, greeted, agent, inbox, issued, cmds,
                   from, hand, sent, written, held, dialed, tries>>

Connect == Dial \/ DialFails \/ SetReadLimit \/ Greet \/ GetConfig \/ GreetFails
           \/ Spawn

-----------------------------------------------------------------------------
(***************************************************************************)
(* The server and the network                                              *)
(***************************************************************************)
Issue(k) ==
    /\ k \in Open \cap greeted
    /\ \A j \in Conns : j > k => j \notin greeted
    /\ issued < MaxIn
    /\ issued' = issued + 1
    /\ inbox' = [inbox EXCEPT ![k] = Append(@, issued')]
    /\ UNCHANGED <<conn, link, pending, greeted, agent, cmds, reader, from, hand,
                   outVars, managerVars>>

\* the last commands on their way may be lost with the connection
Lose(k, how) ==
    /\ k \in Open
    /\ link' = [link EXCEPT ![k] = how]
    /\ \E n \in 0 .. Len(inbox[k]) :
           inbox' = [inbox EXCEPT ![k] = SubSeq(@, 1, n)]
    /\ UNCHANGED <<conn, pending, greeted, agent, issued, cmds, reader, from,
                   hand, outVars, managerVars>>

-----------------------------------------------------------------------------
\* what Manager.Init leaves behind: the first connection
Init ==
    /\ conn = 1
    /\ link = [k \in Conns |-> IF k = 1 THEN "open" ELSE "none"]
    /\ inbox = [k \in Conns |-> <<>>]
    /\ issued = 0
    /\ cmds = <<>>
    /\ pending = <<>>
    /\ sent = 0
    /\ written = <<>>
    /\ greeted = {1}
    /\ reader = [k \in Conns |-> IF k = 1 THEN "load" ELSE "none"]
    /\ from = [k \in Conns |-> Nil]
    /\ hand = [k \in Conns |-> 0]
    /\ consumer = [k \in Conns |-> IF k = 1 THEN "range" ELSE "none"]
    /\ held = [k \in Conns |-> Disconnected]
    /\ manager = "range"
    /\ dialed = 1
    /\ tries = 0
    /\ agent = "up"

Consumer(k) == Consume(k) \/ Write(k)

Next ==
    /\ agent = "up"
    /\ \/ \E k \in Conns : Reader(k) \/ Consumer(k) \/ Issue(k)
       \/ \E k \in Conns, how \in Losses : Lose(k, how)
       \/ Connect
       \/ Send

Spec == Init /\ [][Next]_vars

(***************************************************************************)
(* The goroutines are scheduled, the service takes the commands, and a     *)
(* dial or a greeting returns, well or not.                                *)
(***************************************************************************)
Fairness ==
    /\ \A k \in Conns : /\ WF_vars(agent = "up" /\ Reader(k))
                        /\ WF_vars(agent = "up" /\ Consumer(k))
    /\ WF_vars(agent = "up" /\ Connect)

FairSpec == Spec /\ Fairness

-----------------------------------------------------------------------------
(***************************************************************************)
(* Properties                                                              *)
(***************************************************************************)
InOrder(s) == \A i, j \in 1 .. Len(s) : i < j => s[i] < s[j]

\* Types of the state of client and of the goroutine of listenReConn.
TypeOK ==
    /\ conn \in 0 .. dialed
    /\ link \in [Conns -> {"none", "open"} \cup Losses]
    /\ inbox \in [Conns -> Seq(1 .. issued)]
    /\ issued \in 0 .. MaxIn
    /\ cmds \in Seq(1 .. issued)
    /\ pending \in Seq(0 .. sent) /\ Len(pending) <= Capacity
    /\ sent \in 0 .. MaxOut
    /\ written \in Seq(Conns \X (1 .. sent))
    /\ greeted \in SUBSET (1 .. dialed)
    /\ reader \in [Conns -> {"none", "load", "read", "deliver", "signal", "clear",
                            "mark", "over"}]
    /\ from \in [Conns -> 0 .. dialed]
    /\ hand \in [Conns -> 0 .. issued]
    /\ consumer \in [Conns -> {"none", "range", "write", "over"}]
    /\ held \in [Conns -> 0 .. sent]
    /\ manager \in {"range", "dial", "limit", "greet", "answer", "spawn"}
    /\ dialed \in Conns
    /\ tries \in 0 .. Attempts
    /\ agent \in {"up", "crashed", "unreachable"}

Active == {k \in Conns : reader[k] \notin {"none", "over"}}
Serving == {k \in Conns : consumer[k] \in {"range", "write"}}
Markers == {i \in 1 .. Len(pending) : pending[i] = Disconnected}

\* Each connection brings a consumer and, when it is lost, one marker that
\* stops a consumer, its own or another's.  So a connection that is read is
\* never left without a consumer, and only one consumer remains once the
\* markers have been taken, whichever consumer takes which.
ConsumersBalance ==
    Cardinality(Serving) = Cardinality(Active) + Cardinality(Markers)

\* The commands are handed to the service in the order in which the server
\* sent them and at most once, whatever connections they came by: the reader
\* of a lost connection never reads beside the next one.
CommandsInOrder == InOrder(cmds)

\* After a connection is lost another one is read, or the agent ends.
Reconnects ==
    \A k \in Conns :
        reader[k] = "signal" ~> (\E j \in Conns : j > k /\ reader[j] # "none")
                                \/ agent # "up"

\* Consumer k is about to write message m to a connection that is lost already:
\* WriteMessage may fail, and its error is dropped.
WrittenToLost(k, m) ==
    consumer[k] = "write" /\ held[k] = m /\ conn \in Conns \ Open

\* A message put into c.pending is written to an open connection, of whatever
\* number and by whatever consumer, and so is one that is queued while there is
\* none.  The agent may end first, and the message is lost where the queue does
\* not protect it: a consumer takes it after the connection is lost and writes
\* it before readMessage has cleared c.conn or a new connection is dialed.
PendingIsWritten ==
    \A m \in 1 .. MaxOut :
        (\E i \in 1 .. Len(pending) : pending[i] = m)
            ~> \/ \E k \in Conns : \E i \in 1 .. Len(written) : written[i] = <<k, m>>
               \/ \E k \in Conns : WrittenToLost(k, m)
               \/ agent # "up"

\* "connection lost from server %s, start reconnecting.." (manager.go): when
\* connections are only ever lost in the way readMessage reconnects for (a run
\* with Losses = {"away"}), nothing ends the agent but being unable to connect.
LossIsSurvived == agent # "crashed"
=============================================================================
